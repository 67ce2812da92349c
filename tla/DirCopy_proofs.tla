--------------------------- MODULE DirCopy_proofs ---------------------------
(***************************************************************************)
(* The safety of lab6's directory copy for any tree, any limits and any    *)
(* failures: every descriptor is closed once, nobody works below a         *)
(* directory that is not there, and what is reported copied is whole.      *)
(***************************************************************************)
EXTENDS DirCopy, FiniteSetTheorems, TLAPS

(* Where the thread of a directory, of a file and of anything else can be.  *)
DirPlaces == {"unread", "found", "skipped", "openDir", "make", "list", "spawn", "done",
              "failed"}
FilePlaces == {"unread", "found", "skipped", "openIn", "openOut", "read", "write", "done",
               "failed"}
Resting == {"unread", "found", "skipped", "done", "failed"}

PcOK == pc \in [Nodes -> DirPlaces \cup FilePlaces]
KindPlaces ==
    /\ \A d \in Dirs : pc[d] \in DirPlaces
    /\ \A f \in Files : pc[f] \in FilePlaces
    /\ \A o \in Others : pc[o] \in {"unread", "skipped"}

(* The types of the other variables. *)
DataOK ==
    /\ parent \in [Nodes \ {Root} -> Dirs]
    /\ openMax \in 1..OpenMax /\ threadMax \in 1..ThreadMax
    /\ out \subseteq Nodes /\ hurt \subseteq Nodes
    /\ got \in [Files -> Int] /\ chunk \in [Files -> Int] /\ written \in [Files -> Int]

(* A directory or a file that is being filled has been made. *)
Made == /\ \A d \in Dirs : pc[d] \in {"list", "spawn", "done"} => d \in out
        /\ \A f \in Files : pc[f] \in {"read", "write", "done"} => f \in out

(* Of the bytes that were read, those not yet written are in buf, and the   *)
(* rest has been lost in a write that fell short.                           *)
FileBytes(f) ==
    /\ 0 <= got[f] /\ got[f] <= Size /\ 0 <= chunk[f] /\ chunk[f] <= BufSize
    /\ 0 <= written[f] /\ written[f] + chunk[f] <= got[f]
    /\ f \notin hurt => written[f] + chunk[f] = got[f]
    /\ pc[f] \notin {"write", "failed"} => chunk[f] = 0
    /\ pc[f] = "done" => got[f] = Size
Bytes == \A f \in Files : FileBytes(f)

(* A directory is done when no entry is left to read, or after an error. *)
Listed == \A d \in Dirs : pc[d] = "done" /\ d \notin hurt => Unread(d) = {}

(* How many descriptors a thread has at a place. *)
Descriptors(place) == IF place \in {"make", "list", "spawn", "openOut"} THEN 1
                      ELSE IF place \in {"read", "write"} THEN 2 ELSE 0

-----------------------------------------------------------------------------
LEMMA Kinds ==
  /\ IsFiniteSet(Nodes) /\ IsFiniteSet(Files) /\ Files \subseteq Nodes
  /\ Dirs \subseteq Nodes /\ Others \subseteq Nodes
  /\ Root \in Dirs
  /\ \A n \in Nodes : n \in Dirs \/ n \in Files \/ n \in Others
  /\ \A d \in Dirs : d \notin Files /\ d \notin Others
  /\ \A f \in Files : f \notin Dirs /\ f \notin Others
<1>1. IsFiniteSet(Dirs) /\ IsFiniteSet(Files) /\ IsFiniteSet(Others)
  BY CopyAssumption, FS_Singleton, FS_Union DEF Dirs
<1>2. IsFiniteSet(Nodes)
  BY <1>1, FS_Union DEF Nodes
<1> QED BY <1>1, <1>2, CopyAssumption DEF Nodes, Dirs

(* What one step of the thread of n does to pc.                             *)
LEMMA PcAfter ==
  ASSUME PcOK, NEW n \in Nodes, NEW to, pc' = [pc EXCEPT ![n] = to]
  PROVE  \A m \in Nodes : pc'[m] = IF m = n THEN to ELSE pc[m]
BY DEF PcOK

(* An element joins or leaves a finite set.                                 *)
LEMMA CountJoins ==
  ASSUME NEW S, IsFiniteSet(S), NEW n, n \notin S
  PROVE  Cardinality(S \cup {n}) = Cardinality(S) + 1 /\ Cardinality(S) \in Nat
BY FS_AddElement, FS_CardinalityType
LEMMA CountLeaves ==
  ASSUME NEW S, IsFiniteSet(S), NEW n, n \in S
  PROVE  Cardinality(S \ {n}) = Cardinality(S) - 1 /\ Cardinality(S) \in Nat
BY FS_RemoveElement, FS_CardinalityType

(* Every step keeps each thread in its own part of the code.                *)
LEMMA KindStep ==
  ASSUME PcOK, KindPlaces, Next
  PROVE  PcOK' /\ KindPlaces'
<1> USE Kinds DEF Goto
<1>a. ASSUME NEW n \in Nodes, NEW to, pc' = [pc EXCEPT ![n] = to],
             n \in Dirs => to \in DirPlaces, n \in Files => to \in FilePlaces,
             n \in Others => to = "skipped"
      PROVE  PcOK' /\ KindPlaces'
  <2>1. \A m \in Nodes : pc'[m] = IF m = n THEN to ELSE pc[m]
    BY <1>a, PcAfter
  <2>2. KindPlaces'
    BY <1>a, <2>1 DEF KindPlaces
  <2>3. to \in DirPlaces \cup FilePlaces
    BY <1>a DEF DirPlaces
  <2> QED BY <1>a, <2>2, <2>3 DEF PcOK

<1>1. ASSUME NEW d \in Dirs, openInDirectory(d) PROVE PcOK' /\ KindPlaces'
  BY <1>1, <1>a DEF openInDirectory, DirPlaces, FilePlaces
<1>2. ASSUME NEW d \in Dirs, OpenDirFails(d) PROVE PcOK' /\ KindPlaces'
  BY <1>2, <1>a DEF OpenDirFails, DirPlaces, FilePlaces
<1>3. ASSUME NEW d \in Dirs, makeOutPathDirectory(d) PROVE PcOK' /\ KindPlaces'
  BY <1>3, <1>a DEF makeOutPathDirectory, DirPlaces, FilePlaces
<1>4. ASSUME NEW d \in Dirs, MakeFails(d) PROVE PcOK' /\ KindPlaces'
  BY <1>4, <1>a DEF MakeFails, DirPlaces, FilePlaces
<1>5. ASSUME NEW d \in Dirs, ReadEntry(d) PROVE PcOK' /\ KindPlaces'
  <2>1. PICK n \in Unread(d) \ Others : pc' = [pc EXCEPT ![d] = "spawn", ![n] = "found"]
    BY <1>5 DEF ReadEntry
  <2>2. n \in Nodes
    BY DEF Unread, Children
  <2>3. \A m \in Nodes : pc'[m] = IF m = n THEN "found" ELSE IF m = d THEN "spawn" ELSE pc[m]
    BY <2>1, <2>2 DEF PcOK
  <2>4. KindPlaces'
    <3>1. n \notin Others
      BY <2>1
    <3> QED BY <2>3, <3>1 DEF KindPlaces, DirPlaces, FilePlaces
  <2> QED BY <2>1, <2>2, <2>4 DEF PcOK, DirPlaces
<1>6. ASSUME NEW d \in Dirs, SkipEntry(d) PROVE PcOK' /\ KindPlaces'
  <2>1. PICK n \in Unread(d) : pc' = [pc EXCEPT ![n] = "skipped"]
    BY <1>6 DEF SkipEntry
  <2>2. n \in Nodes
    BY DEF Unread, Children
  <2> QED BY <1>a, <2>1, <2>2 DEF DirPlaces, FilePlaces
<1>7. ASSUME NEW d \in Dirs, newThreadCreate(d) PROVE PcOK' /\ KindPlaces'
  <2>1. PICK n \in Children(d) : /\ pc[n] = "found"
                                 /\ pc' = [pc EXCEPT ![d] = "list",
                                     ![n] = IF n \in Dirs THEN "openDir" ELSE "openIn"]
    BY <1>7 DEF newThreadCreate
  <2>2. n \in Nodes /\ n \notin Others
    BY <2>1 DEF Children, KindPlaces
  <2>3. \A m \in Nodes : pc'[m] = IF m = n THEN (IF n \in Dirs THEN "openDir" ELSE "openIn")
                                  ELSE IF m = d THEN "list" ELSE pc[m]
    BY <2>1, <2>2 DEF PcOK
  <2>4. KindPlaces'
    BY <2>2, <2>3 DEF KindPlaces, DirPlaces, FilePlaces
  <2> QED BY <2>1, <2>2, <2>4 DEF PcOK, DirPlaces, FilePlaces
<1>8. ASSUME NEW d \in Dirs, DirCopied(d) PROVE PcOK' /\ KindPlaces'
  BY <1>8, <1>a DEF DirCopied, DirPlaces, FilePlaces
<1>9. ASSUME NEW f \in Files, openInFile(f) PROVE PcOK' /\ KindPlaces'
  BY <1>9, <1>a DEF openInFile, DirPlaces, FilePlaces
<1>10. ASSUME NEW f \in Files, OpenInFails(f) PROVE PcOK' /\ KindPlaces'
  BY <1>10, <1>a DEF OpenInFails, DirPlaces, FilePlaces
<1>11. ASSUME NEW f \in Files, openOutFile(f) PROVE PcOK' /\ KindPlaces'
  BY <1>11, <1>a DEF openOutFile, DirPlaces, FilePlaces
<1>12. ASSUME NEW f \in Files, OpenOutFails(f) PROVE PcOK' /\ KindPlaces'
  BY <1>12, <1>a DEF OpenOutFails, DirPlaces, FilePlaces
<1>13. ASSUME NEW f \in Files, nonIntrRead(f) PROVE PcOK' /\ KindPlaces'
  BY <1>13, <1>a DEF nonIntrRead, DirPlaces, FilePlaces
<1>14. ASSUME NEW f \in Files, nonIntrWrite(f) PROVE PcOK' /\ KindPlaces'
  BY <1>14, <1>a DEF nonIntrWrite, DirPlaces, FilePlaces
<1>15. ASSUME NEW f \in Files, ReadOrWriteFails(f) PROVE PcOK' /\ KindPlaces'
  BY <1>15, <1>a DEF ReadOrWriteFails, FilePlaces
<1>16. ASSUME NEW f \in Files, FileCopied(f) PROVE PcOK' /\ KindPlaces'
  BY <1>16, <1>a DEF FileCopied, DirPlaces, FilePlaces
<1> QED BY <1>1, <1>2, <1>3, <1>4, <1>5, <1>6, <1>7, <1>8, <1>9,
         <1>10, <1>11, <1>12, <1>13, <1>14, <1>15, <1>16
         DEF Next, copyDirectory, copyFile

(* What a step of d's thread does with an entry n of d that does not run     *)
(* yet: d goes on listing, and n is found, skipped or started.              *)
EntryMoves(d, n) ==
    /\ parent[n] = d /\ n # d
    /\ pc[d] \in {"list", "spawn"} /\ pc'[d] \in {"list", "spawn"}
    /\ pc[n] \in {"unread", "found"}
    /\ \/ pc'[n] \in {"found", "skipped"}
       \/ /\ pc[d] = "spawn" /\ Cardinality(Running) < threadMax
          /\ pc'[n] = (IF n \in Dirs THEN "openDir" ELSE "openIn")
          /\ n \in Files \/ n \in Dirs
    /\ \A m \in Nodes : m # n /\ m # d => pc'[m] = pc[m]

(* (see above)                                                              *)
LEMMA EntryStep ==
  ASSUME PcOK, KindPlaces, NEW d \in Dirs, ReadEntry(d) \/ SkipEntry(d) \/ newThreadCreate(d)
  PROVE  \E n \in Nodes \ {Root} : EntryMoves(d, n)
<1> USE DEF EntryMoves
<1> USE Kinds
<1>1. CASE ReadEntry(d)
  <2>1. PICK n \in Unread(d) : pc' = [pc EXCEPT ![d] = "spawn", ![n] = "found"]
    BY <1>1 DEF ReadEntry
  <2>2. n \in Nodes \ {Root} /\ parent[n] = d /\ pc[n] = "unread"
        /\ pc[d] = "list"
    BY <1>1 DEF ReadEntry, Unread, Children
  <2>3. \A m \in Nodes : pc'[m] = IF m = n THEN "found" ELSE IF m = d THEN "spawn" ELSE pc[m]
    BY <2>1, <2>2 DEF PcOK
  <2> QED BY <2>2, <2>3
<1>2. CASE SkipEntry(d)
  <2>1. PICK n \in Unread(d) : pc' = [pc EXCEPT ![n] = "skipped"]
    BY <1>2 DEF SkipEntry
  <2>2. n \in Nodes \ {Root} /\ parent[n] = d /\ pc[n] = "unread"
        /\ pc[d] = "list"
    BY <1>2 DEF SkipEntry, Unread, Children
  <2>3. \A m \in Nodes : pc'[m] = IF m = n THEN "skipped" ELSE pc[m]
    BY <2>1, <2>2 DEF PcOK
  <2> QED BY <2>2, <2>3
<1>3. CASE newThreadCreate(d)
  <2>1. PICK n \in Children(d) : /\ pc[n] = "found"
                                 /\ pc' = [pc EXCEPT ![d] = "list",
                                     ![n] = IF n \in Dirs THEN "openDir" ELSE "openIn"]
    BY <1>3 DEF newThreadCreate
  <2>2. n \in Nodes \ {Root} /\ parent[n] = d /\ pc[d] = "spawn"
        /\ Cardinality(Running) < threadMax
    BY <1>3 DEF newThreadCreate, Children
  <2>3. \A m \in Nodes : pc'[m] = IF m = n THEN (IF n \in Dirs THEN "openDir" ELSE "openIn")
                                  ELSE IF m = d THEN "list" ELSE pc[m]
    BY <2>1, <2>2 DEF PcOK
  <2>4. n \in Files \/ n \in Dirs
    BY <2>1, <2>2 DEF KindPlaces
  <2> QED BY <2>1, <2>2, <2>3, <2>4
<1> QED BY <1>1, <1>2, <1>3

-----------------------------------------------------------------------------
(* Who runs. *)

(* A thread goes on, or comes to its end.                                   *)
LEMMA RunnerMoves ==
  ASSUME PcOK, NEW n \in Nodes, NEW to, pc' = [pc EXCEPT ![n] = to],
         pc[n] \notin Resting
  PROVE  Running' \subseteq Running
BY PcAfter DEF Running, Resting

(* Only newThreadCreate starts a thread, for an entry of a directory that   *)
(* is listed, and below the limit.                                          *)
LEMMA RunningStep ==
  ASSUME PcOK, KindPlaces, Next
  PROVE  \/ Running' \subseteq Running
         \/ /\ Cardinality(Running) < threadMax
            /\ \E d \in Dirs, n \in Nodes \ {Root} :
                  /\ pc[d] = "spawn" /\ parent[n] = d
                  /\ n \notin Running /\ Running' = Running \cup {n}
<1> DEFINE Started ==
             /\ Cardinality(Running) < threadMax
             /\ \E d \in Dirs, n \in Nodes \ {Root} :
                   /\ pc[d] = "spawn" /\ parent[n] = d
                   /\ n \notin Running /\ Running' = Running \cup {n}
           Goal == Running' \subseteq Running \/ Started
<1> USE Kinds DEF Goto
<1>a. ASSUME NEW d \in Dirs, ReadEntry(d) \/ SkipEntry(d) \/ newThreadCreate(d)
      PROVE  Goal
  <2>1. PICK n \in Nodes \ {Root} : EntryMoves(d, n)
    BY <1>a, EntryStep
  <2>2. CASE pc'[n] \in {"found", "skipped"}
    <3>1. Running' \subseteq Running
      BY <2>1, <2>2 DEF Running, EntryMoves
    <3> QED BY <3>1
  <2>3. CASE pc'[n] \notin {"found", "skipped"}
    <3>1. Running' = Running \cup {n} /\ n \notin Running
      BY <2>1, <2>3 DEF Running, EntryMoves
    <3>2. Cardinality(Running) < threadMax /\ pc[d] = "spawn" /\ parent[n] = d
      BY <2>1, <2>3 DEF EntryMoves
    <3> QED BY <3>1, <3>2
  <2> QED BY <2>2, <2>3

<1>1. ASSUME NEW d \in Dirs, openInDirectory(d) PROVE Goal
  BY <1>1, RunnerMoves DEF openInDirectory, Resting
<1>2. ASSUME NEW d \in Dirs, OpenDirFails(d) PROVE Goal
  BY <1>2, RunnerMoves DEF OpenDirFails, Resting
<1>3. ASSUME NEW d \in Dirs, makeOutPathDirectory(d) PROVE Goal
  BY <1>3, RunnerMoves DEF makeOutPathDirectory, Resting
<1>4. ASSUME NEW d \in Dirs, MakeFails(d) PROVE Goal
  BY <1>4, RunnerMoves DEF MakeFails, Resting
<1>5. ASSUME NEW d \in Dirs, ReadEntry(d) PROVE Goal
  BY <1>5, <1>a
<1>6. ASSUME NEW d \in Dirs, SkipEntry(d) PROVE Goal
  BY <1>6, <1>a
<1>7. ASSUME NEW d \in Dirs, newThreadCreate(d) PROVE Goal
  BY <1>7, <1>a
<1>8. ASSUME NEW d \in Dirs, DirCopied(d) PROVE Goal
  BY <1>8, RunnerMoves DEF DirCopied, Resting
<1>9. ASSUME NEW f \in Files, openInFile(f) PROVE Goal
  BY <1>9, RunnerMoves DEF openInFile, Resting
<1>10. ASSUME NEW f \in Files, OpenInFails(f) PROVE Goal
  BY <1>10, RunnerMoves DEF OpenInFails, Resting
<1>11. ASSUME NEW f \in Files, openOutFile(f) PROVE Goal
  BY <1>11, RunnerMoves DEF openOutFile, Resting
<1>12. ASSUME NEW f \in Files, OpenOutFails(f) PROVE Goal
  BY <1>12, RunnerMoves DEF OpenOutFails, Resting
<1>13. ASSUME NEW f \in Files, nonIntrRead(f) PROVE Goal
  BY <1>13, RunnerMoves DEF nonIntrRead, Resting
<1>14. ASSUME NEW f \in Files, nonIntrWrite(f) PROVE Goal
  BY <1>14, RunnerMoves DEF nonIntrWrite, Resting
<1>15. ASSUME NEW f \in Files, ReadOrWriteFails(f) PROVE Goal
  BY <1>15, RunnerMoves DEF ReadOrWriteFails, Resting
<1>16. ASSUME NEW f \in Files, FileCopied(f) PROVE Goal
  BY <1>16, RunnerMoves DEF FileCopied, Resting
<1> QED BY <1>1, <1>2, <1>3, <1>4, <1>5, <1>6, <1>7, <1>8, <1>9,
         <1>10, <1>11, <1>12, <1>13, <1>14, <1>15, <1>16
         DEF Next, copyDirectory, copyFile

(* The limits and the tree are given; out and hurt only grow; used is moved  *)
(* by Open and Close.                                                       *)
LEMMA Unchanging ==
  ASSUME Next
  PROVE  UNCHANGED <<parent, openMax, threadMax>> /\ hurt \subseteq hurt' /\ out \subseteq out'

<1> DEFINE Goal == UNCHANGED <<parent, openMax, threadMax>> /\ hurt \subseteq hurt' /\ out \subseteq out'
<1> USE DEF system, Fail
<1>1. ASSUME NEW d \in Dirs, openInDirectory(d) PROVE Goal
  BY <1>1 DEF openInDirectory
<1>2. ASSUME NEW d \in Dirs, OpenDirFails(d) PROVE Goal
  BY <1>2 DEF OpenDirFails
<1>3. ASSUME NEW d \in Dirs, makeOutPathDirectory(d) PROVE Goal
  BY <1>3 DEF makeOutPathDirectory
<1>4. ASSUME NEW d \in Dirs, MakeFails(d) PROVE Goal
  BY <1>4 DEF MakeFails
<1>5. ASSUME NEW d \in Dirs, ReadEntry(d) PROVE Goal
  BY <1>5 DEF ReadEntry
<1>6. ASSUME NEW d \in Dirs, SkipEntry(d) PROVE Goal
  BY <1>6 DEF SkipEntry
<1>7. ASSUME NEW d \in Dirs, newThreadCreate(d) PROVE Goal
  BY <1>7 DEF newThreadCreate
<1>8. ASSUME NEW d \in Dirs, DirCopied(d) PROVE Goal
  BY <1>8 DEF DirCopied
<1>9. ASSUME NEW f \in Files, openInFile(f) PROVE Goal
  BY <1>9 DEF openInFile
<1>10. ASSUME NEW f \in Files, OpenInFails(f) PROVE Goal
  BY <1>10 DEF OpenInFails
<1>11. ASSUME NEW f \in Files, openOutFile(f) PROVE Goal
  BY <1>11 DEF openOutFile
<1>12. ASSUME NEW f \in Files, OpenOutFails(f) PROVE Goal
  BY <1>12 DEF OpenOutFails
<1>13. ASSUME NEW f \in Files, nonIntrRead(f) PROVE Goal
  BY <1>13 DEF nonIntrRead
<1>14. ASSUME NEW f \in Files, nonIntrWrite(f) PROVE Goal
  BY <1>14 DEF nonIntrWrite
<1>15. ASSUME NEW f \in Files, ReadOrWriteFails(f) PROVE Goal
  BY <1>15 DEF ReadOrWriteFails
<1>16. ASSUME NEW f \in Files, FileCopied(f) PROVE Goal
  BY <1>16 DEF FileCopied
<1> QED BY <1>1, <1>2, <1>3, <1>4, <1>5, <1>6, <1>7, <1>8, <1>9,
         <1>10, <1>11, <1>12, <1>13, <1>14, <1>15, <1>16
         DEF Next, copyDirectory, copyFile

(* A directory is there before it is listed, a file before it is filled.    *)
LEMMA MadeStep ==
  ASSUME PcOK, KindPlaces, Made, Next
  PROVE  Made'
<1> USE Kinds DEF Goto
<1>a. ASSUME NEW n \in Nodes, NEW to, pc' = [pc EXCEPT ![n] = to], out \subseteq out',
             n \in Dirs /\ to \in {"list", "spawn", "done"} => n \in out',
             n \in Files /\ to \in {"read", "write", "done"} => n \in out'
      PROVE  Made'
  BY <1>a, PcAfter DEF Made
<1>b. ASSUME NEW d \in Dirs, ReadEntry(d) \/ SkipEntry(d) \/ newThreadCreate(d), out' = out
      PROVE  Made'
  <2>1. PICK n \in Nodes \ {Root} : EntryMoves(d, n)
    BY <1>b, EntryStep
  <2>2. pc'[n] \notin {"list", "spawn", "done", "read", "write"}
    BY <2>1 DEF EntryMoves
  <2> QED BY <1>b, <2>1, <2>2 DEF Made, EntryMoves

<1>1. ASSUME NEW d \in Dirs, openInDirectory(d) PROVE Made'
  BY <1>1, <1>a DEF openInDirectory, Made
<1>2. ASSUME NEW d \in Dirs, OpenDirFails(d) PROVE Made'
  BY <1>2, <1>a DEF OpenDirFails, Made
<1>3. ASSUME NEW d \in Dirs, makeOutPathDirectory(d) PROVE Made'
  BY <1>3, <1>a DEF makeOutPathDirectory, Made
<1>4. ASSUME NEW d \in Dirs, MakeFails(d) PROVE Made'
  BY <1>4, <1>a DEF MakeFails, Made
<1>5. ASSUME NEW d \in Dirs, ReadEntry(d) PROVE Made'
  BY <1>5, <1>b DEF ReadEntry
<1>6. ASSUME NEW d \in Dirs, SkipEntry(d) PROVE Made'
  BY <1>6, <1>b DEF SkipEntry
<1>7. ASSUME NEW d \in Dirs, newThreadCreate(d) PROVE Made'
  BY <1>7, <1>b DEF newThreadCreate
<1>8. ASSUME NEW d \in Dirs, DirCopied(d) PROVE Made'
  BY <1>8, <1>a DEF DirCopied, Made
<1>9. ASSUME NEW f \in Files, openInFile(f) PROVE Made'
  BY <1>9, <1>a DEF openInFile, Made
<1>10. ASSUME NEW f \in Files, OpenInFails(f) PROVE Made'
  BY <1>10, <1>a DEF OpenInFails, Made
<1>11. ASSUME NEW f \in Files, openOutFile(f) PROVE Made'
  BY <1>11, <1>a DEF openOutFile, Made
<1>12. ASSUME NEW f \in Files, OpenOutFails(f) PROVE Made'
  BY <1>12, <1>a DEF OpenOutFails, Made
<1>13. ASSUME NEW f \in Files, nonIntrRead(f) PROVE Made'
  BY <1>13, <1>a DEF nonIntrRead, Made
<1>14. ASSUME NEW f \in Files, nonIntrWrite(f) PROVE Made'
  BY <1>14, <1>a DEF nonIntrWrite, Made
<1>15. ASSUME NEW f \in Files, ReadOrWriteFails(f) PROVE Made'
  BY <1>15, <1>a DEF ReadOrWriteFails, Made
<1>16. ASSUME NEW f \in Files, FileCopied(f) PROVE Made'
  BY <1>16, <1>a DEF FileCopied, Made
<1> QED BY <1>1, <1>2, <1>3, <1>4, <1>5, <1>6, <1>7, <1>8, <1>9,
         <1>10, <1>11, <1>12, <1>13, <1>14, <1>15, <1>16
         DEF Next, copyDirectory, copyFile

-----------------------------------------------------------------------------
(* The descriptors. *)

(* A thread that moves takes its descriptors with it: the sum changes by    *)
(* what it has at the new place less what it had at the old one.            *)
LEMMA OpenMoves ==
  ASSUME PcOK, KindPlaces, DescriptorsAccounted, NEW n \in Nodes, NEW to,
         pc' = [pc EXCEPT ![n] = to],
         n \notin Files => pc[n] \notin {"read", "write"} /\ to \notin {"read", "write"},
         used' = used + Descriptors(to) - Descriptors(pc[n])
  PROVE  DescriptorsAccounted'
<1> USE Kinds
<1>1. \A m \in Nodes : pc'[m] = IF m = n THEN to ELSE pc[m]
  BY PcAfter
<1>2. /\ IsFiniteSet(OneOpen) /\ IsFiniteSet(TwoOpen)
      /\ Cardinality(OneOpen) \in Nat /\ Cardinality(TwoOpen) \in Nat
  <2>1. OneOpen \subseteq Nodes /\ TwoOpen \subseteq Nodes
    BY DEF OneOpen, TwoOpen
  <2> QED BY <2>1, FS_Subset, FS_CardinalityType
<1>3. Cardinality(OneOpen') = Cardinality(OneOpen)
          + (IF to \in {"make", "list", "spawn", "openOut"} THEN 1 ELSE 0)
          - (IF n \in OneOpen THEN 1 ELSE 0)
  <2>1. CASE n \in OneOpen /\ to \in {"make", "list", "spawn", "openOut"}
    <3>1. OneOpen' = OneOpen
      BY <1>1, <2>1 DEF OneOpen
    <3> QED BY <1>2, <2>1, <3>1
  <2>2. CASE n \in OneOpen /\ to \notin {"make", "list", "spawn", "openOut"}
    <3>1. OneOpen' = OneOpen \ {n}
      BY <1>1, <2>2 DEF OneOpen
    <3> QED BY <1>2, <2>2, <3>1, CountLeaves
  <2>3. CASE n \notin OneOpen /\ to \in {"make", "list", "spawn", "openOut"}
    <3>1. OneOpen' = OneOpen \cup {n}
      BY <1>1, <2>3 DEF OneOpen
    <3> QED BY <1>2, <2>3, <3>1, CountJoins
  <2>4. CASE n \notin OneOpen /\ to \notin {"make", "list", "spawn", "openOut"}
    <3>1. OneOpen' = OneOpen
      BY <1>1, <2>4 DEF OneOpen
    <3> QED BY <1>2, <2>4, <3>1
  <2> QED BY <2>1, <2>2, <2>3, <2>4
<1>4. Cardinality(TwoOpen') = Cardinality(TwoOpen)
          + (IF to \in {"read", "write"} THEN 1 ELSE 0) - (IF n \in TwoOpen THEN 1 ELSE 0)
  <2>1. CASE n \in TwoOpen /\ to \in {"read", "write"}
    <3>1. TwoOpen' = TwoOpen
      BY <1>1, <2>1 DEF TwoOpen
    <3> QED BY <1>2, <2>1, <3>1
  <2>2. CASE n \in TwoOpen /\ to \notin {"read", "write"}
    <3>1. TwoOpen' = TwoOpen \ {n}
      BY <1>1, <2>2 DEF TwoOpen
    <3> QED BY <1>2, <2>2, <3>1, CountLeaves
  <2>3. CASE n \notin TwoOpen /\ to \in {"read", "write"}
    <3>1. TwoOpen' = TwoOpen \cup {n}
      BY <1>1, <2>3 DEF TwoOpen
    <3> QED BY <1>2, <2>3, <3>1, CountJoins
  <2>4. CASE n \notin TwoOpen /\ to \notin {"read", "write"}
    <3>1. TwoOpen' = TwoOpen
      BY <1>1, <2>4 DEF TwoOpen
    <3> QED BY <1>2, <2>4, <3>1
  <2> QED BY <2>1, <2>2, <2>3, <2>4
<1>5. /\ n \in OneOpen <=> pc[n] \in {"make", "list", "spawn", "openOut"}
      /\ n \in TwoOpen <=> pc[n] \in {"read", "write"}
  BY DEF OneOpen, TwoOpen
<1> QED BY <1>2, <1>3, <1>4, <1>5 DEF DescriptorsAccounted, Descriptors

(* Every open, close and failure is accounted for.                          *)
LEMMA OpenStep ==
  ASSUME PcOK, KindPlaces, used \in Int, DescriptorsAccounted, Next
  PROVE  DescriptorsAccounted'
<1> USE Kinds DEF Goto
<1>b. ASSUME NEW d \in Dirs, ReadEntry(d) \/ SkipEntry(d) \/ newThreadCreate(d), used' = used
      PROVE  DescriptorsAccounted'
  <2>1. PICK n \in Nodes \ {Root} : EntryMoves(d, n)
    BY <1>b, EntryStep
  <2>2. OneOpen' = OneOpen /\ TwoOpen' = TwoOpen
    BY <2>1 DEF OneOpen, TwoOpen, EntryMoves
  <2> QED BY <1>b, <2>2 DEF DescriptorsAccounted
<1>d. /\ Descriptors("openDir") = 0 /\ Descriptors("make") = 1 /\ Descriptors("list") = 1
      /\ Descriptors("openIn") = 0 /\ Descriptors("openOut") = 1
      /\ Descriptors("read") = 2 /\ Descriptors("write") = 2
      /\ Descriptors("done") = 0 /\ Descriptors("failed") = 0
  BY DEF Descriptors

<1>1. ASSUME NEW d \in Dirs, openInDirectory(d) PROVE DescriptorsAccounted'
  <2>1. pc[d] = "openDir" /\ pc' = [pc EXCEPT ![d] = "make"] /\ used' = used + 1
    BY <1>1 DEF openInDirectory, Open
  <2>2. used' = used + Descriptors("make") - Descriptors(pc[d])
    BY <2>1, <1>d
  <2> QED BY <2>1, <2>2, OpenMoves
<1>2. ASSUME NEW d \in Dirs, OpenDirFails(d) PROVE DescriptorsAccounted'
  <2>1. pc[d] = "openDir" /\ pc' = [pc EXCEPT ![d] = "failed"] /\ used' = used
    BY <1>2 DEF OpenDirFails
  <2>2. used' = used + Descriptors("failed") - Descriptors(pc[d])
    BY <2>1, <1>d
  <2> QED BY <2>1, <2>2, OpenMoves
<1>3. ASSUME NEW d \in Dirs, makeOutPathDirectory(d) PROVE DescriptorsAccounted'
  <2>1. pc[d] = "make" /\ pc' = [pc EXCEPT ![d] = "list"] /\ used' = used
    BY <1>3 DEF makeOutPathDirectory
  <2>2. used' = used + Descriptors("list") - Descriptors(pc[d])
    BY <2>1, <1>d
  <2> QED BY <2>1, <2>2, OpenMoves
<1>4. ASSUME NEW d \in Dirs, MakeFails(d) PROVE DescriptorsAccounted'
  <2>1. pc[d] = "make" /\ pc' = [pc EXCEPT ![d] = "failed"] /\ used' = used - 1
    BY <1>4 DEF MakeFails, Close
  <2>2. used' = used + Descriptors("failed") - Descriptors(pc[d])
    BY <2>1, <1>d
  <2> QED BY <2>1, <2>2, OpenMoves
<1>5. ASSUME NEW d \in Dirs, ReadEntry(d) PROVE DescriptorsAccounted'
  BY <1>5, <1>b DEF ReadEntry
<1>6. ASSUME NEW d \in Dirs, SkipEntry(d) PROVE DescriptorsAccounted'
  BY <1>6, <1>b DEF SkipEntry
<1>7. ASSUME NEW d \in Dirs, newThreadCreate(d) PROVE DescriptorsAccounted'
  BY <1>7, <1>b DEF newThreadCreate
<1>8. ASSUME NEW d \in Dirs, DirCopied(d) PROVE DescriptorsAccounted'
  <2>1. pc[d] = "list" /\ pc' = [pc EXCEPT ![d] = "done"] /\ used' = used - 1
    BY <1>8 DEF DirCopied, Close
  <2>2. used' = used + Descriptors("done") - Descriptors(pc[d])
    BY <2>1, <1>d
  <2> QED BY <2>1, <2>2, OpenMoves
<1>9. ASSUME NEW f \in Files, openInFile(f) PROVE DescriptorsAccounted'
  <2>1. pc[f] = "openIn" /\ pc' = [pc EXCEPT ![f] = "openOut"] /\ used' = used + 1
    BY <1>9 DEF openInFile, Open
  <2>2. used' = used + Descriptors("openOut") - Descriptors(pc[f])
    BY <2>1, <1>d
  <2> QED BY <2>1, <2>2, OpenMoves
<1>10. ASSUME NEW f \in Files, OpenInFails(f) PROVE DescriptorsAccounted'
  <2>1. pc[f] = "openIn" /\ pc' = [pc EXCEPT ![f] = "failed"] /\ used' = used
    BY <1>10 DEF OpenInFails
  <2>2. used' = used + Descriptors("failed") - Descriptors(pc[f])
    BY <2>1, <1>d
  <2> QED BY <2>1, <2>2, OpenMoves
<1>11. ASSUME NEW f \in Files, openOutFile(f) PROVE DescriptorsAccounted'
  <2>1. pc[f] = "openOut" /\ pc' = [pc EXCEPT ![f] = "read"] /\ used' = used + 1
    BY <1>11 DEF openOutFile, Open
  <2>2. used' = used + Descriptors("read") - Descriptors(pc[f])
    BY <2>1, <1>d
  <2> QED BY <2>1, <2>2, OpenMoves
<1>12. ASSUME NEW f \in Files, OpenOutFails(f) PROVE DescriptorsAccounted'
  <2>1. pc[f] = "openOut" /\ pc' = [pc EXCEPT ![f] = "failed"] /\ used' = used - 1
    BY <1>12 DEF OpenOutFails, Close
  <2>2. used' = used + Descriptors("failed") - Descriptors(pc[f])
    BY <2>1, <1>d
  <2> QED BY <2>1, <2>2, OpenMoves
<1>13. ASSUME NEW f \in Files, nonIntrRead(f) PROVE DescriptorsAccounted'
  <2>1. pc[f] = "read" /\ pc' = [pc EXCEPT ![f] = "write"] /\ used' = used
    BY <1>13 DEF nonIntrRead
  <2>2. used' = used + Descriptors("write") - Descriptors(pc[f])
    BY <2>1, <1>d
  <2> QED BY <2>1, <2>2, OpenMoves
<1>14. ASSUME NEW f \in Files, nonIntrWrite(f) PROVE DescriptorsAccounted'
  <2>1. pc[f] = "write" /\ pc' = [pc EXCEPT ![f] = "read"] /\ used' = used
    BY <1>14 DEF nonIntrWrite
  <2>2. used' = used + Descriptors("read") - Descriptors(pc[f])
    BY <2>1, <1>d
  <2> QED BY <2>1, <2>2, OpenMoves
<1>15. ASSUME NEW f \in Files, ReadOrWriteFails(f) PROVE DescriptorsAccounted'
  <2>1. pc[f] \in {"read", "write"} /\ pc' = [pc EXCEPT ![f] = "failed"] /\ used' = used - 2
    BY <1>15 DEF ReadOrWriteFails, Close
  <2>2. used' = used + Descriptors("failed") - Descriptors(pc[f])
    BY <2>1, <1>d
  <2> QED BY <2>1, <2>2, OpenMoves
<1>16. ASSUME NEW f \in Files, FileCopied(f) PROVE DescriptorsAccounted'
  <2>1. pc[f] = "read" /\ pc' = [pc EXCEPT ![f] = "done"] /\ used' = used - 2
    BY <1>16 DEF FileCopied, Close
  <2>2. used' = used + Descriptors("done") - Descriptors(pc[f])
    BY <2>1, <1>d
  <2> QED BY <2>1, <2>2, OpenMoves
<1> QED BY <1>1, <1>2, <1>3, <1>4, <1>5, <1>6, <1>7, <1>8, <1>9,
         <1>10, <1>11, <1>12, <1>13, <1>14, <1>15, <1>16
         DEF Next, copyDirectory, copyFile

(* No more descriptors and threads are used than there are.                 *)
LimitsKept == used <= openMax /\ Cardinality(Running) <= threadMax

(* (see above)                                                              *)
LEMMA RunningFinite == IsFiniteSet(Running) /\ Cardinality(Running) \in Nat
<1>1. Running \subseteq Nodes
  BY DEF Running
<1> QED BY <1>1, Kinds, FS_Subset, FS_CardinalityType

(* (see above)                                                              *)
LEMMA LimitStep ==
  ASSUME PcOK, KindPlaces, DataOK, used \in Int, LimitsKept, Next
  PROVE  LimitsKept' /\ used' \in Int
<1>1. openMax' = openMax /\ threadMax' = threadMax /\ openMax \in Int /\ threadMax \in Int
  BY Unchanging DEF DataOK
<1>2. Cardinality(Running') <= threadMax
  <2>1. CASE Running' \subseteq Running
    <3>1. Cardinality(Running') <= Cardinality(Running) /\ Cardinality(Running') \in Nat
      BY <2>1, RunningFinite, FS_Subset, FS_CardinalityType
    <3> QED BY <1>1, <3>1, RunningFinite DEF LimitsKept
  <2>2. CASE ~(Running' \subseteq Running)
    <3>1. PICK n \in Nodes : n \notin Running /\ Running' = Running \cup {n}
      BY <2>2, RunningStep
    <3>2. Cardinality(Running) < threadMax
      BY <2>2, RunningStep
    <3>3. Cardinality(Running') = Cardinality(Running) + 1
      BY <3>1, RunningFinite, CountJoins
    <3>4. Cardinality(Running) \in Nat /\ threadMax \in Int
      BY <1>1, RunningFinite
    <3> QED BY <3>2, <3>3, <3>4
  <2> QED BY <2>1, <2>2
<1>3. used' \in Int /\ used' <= openMax

  <2>1. ASSUME NEW d \in Dirs, openInDirectory(d) PROVE used' \in Int /\ used' <= openMax
    BY <1>1, <2>1 DEF openInDirectory, Open, Close, LimitsKept
  <2>2. ASSUME NEW d \in Dirs, OpenDirFails(d) PROVE used' \in Int /\ used' <= openMax
    BY <1>1, <2>2 DEF OpenDirFails, Open, Close, LimitsKept
  <2>3. ASSUME NEW d \in Dirs, makeOutPathDirectory(d) PROVE used' \in Int /\ used' <= openMax
    BY <1>1, <2>3 DEF makeOutPathDirectory, Open, Close, LimitsKept
  <2>4. ASSUME NEW d \in Dirs, MakeFails(d) PROVE used' \in Int /\ used' <= openMax
    BY <1>1, <2>4 DEF MakeFails, Open, Close, LimitsKept
  <2>5. ASSUME NEW d \in Dirs, ReadEntry(d) PROVE used' \in Int /\ used' <= openMax
    BY <1>1, <2>5 DEF ReadEntry, Open, Close, LimitsKept
  <2>6. ASSUME NEW d \in Dirs, SkipEntry(d) PROVE used' \in Int /\ used' <= openMax
    BY <1>1, <2>6 DEF SkipEntry, Open, Close, LimitsKept
  <2>7. ASSUME NEW d \in Dirs, newThreadCreate(d) PROVE used' \in Int /\ used' <= openMax
    BY <1>1, <2>7 DEF newThreadCreate, Open, Close, LimitsKept
  <2>8. ASSUME NEW d \in Dirs, DirCopied(d) PROVE used' \in Int /\ used' <= openMax
    BY <1>1, <2>8 DEF DirCopied, Open, Close, LimitsKept
  <2>9. ASSUME NEW f \in Files, openInFile(f) PROVE used' \in Int /\ used' <= openMax
    BY <1>1, <2>9 DEF openInFile, Open, Close, LimitsKept
  <2>10. ASSUME NEW f \in Files, OpenInFails(f) PROVE used' \in Int /\ used' <= openMax
    BY <1>1, <2>10 DEF OpenInFails, Open, Close, LimitsKept
  <2>11. ASSUME NEW f \in Files, openOutFile(f) PROVE used' \in Int /\ used' <= openMax
    BY <1>1, <2>11 DEF openOutFile, Open, Close, LimitsKept
  <2>12. ASSUME NEW f \in Files, OpenOutFails(f) PROVE used' \in Int /\ used' <= openMax
    BY <1>1, <2>12 DEF OpenOutFails, Open, Close, LimitsKept
  <2>13. ASSUME NEW f \in Files, nonIntrRead(f) PROVE used' \in Int /\ used' <= openMax
    BY <1>1, <2>13 DEF nonIntrRead, Open, Close, LimitsKept
  <2>14. ASSUME NEW f \in Files, nonIntrWrite(f) PROVE used' \in Int /\ used' <= openMax
    BY <1>1, <2>14 DEF nonIntrWrite, Open, Close, LimitsKept
  <2>15. ASSUME NEW f \in Files, ReadOrWriteFails(f) PROVE used' \in Int /\ used' <= openMax
    BY <1>1, <2>15 DEF ReadOrWriteFails, Open, Close, LimitsKept
  <2>16. ASSUME NEW f \in Files, FileCopied(f) PROVE used' \in Int /\ used' <= openMax
    BY <1>1, <2>16 DEF FileCopied, Open, Close, LimitsKept
  <2> QED BY <2>1, <2>2, <2>3, <2>4, <2>5, <2>6, <2>7, <2>8, <2>9,
         <2>10, <2>11, <2>12, <2>13, <2>14, <2>15, <2>16
         DEF Next, copyDirectory, copyFile
<1> QED BY <1>1, <1>2, <1>3 DEF LimitsKept

-----------------------------------------------------------------------------
(* The bytes of the files and the entries of the directories. *)

(* Min of two numbers is at most each of them.                              *)
LEMMA MinOfTwo ==
  ASSUME NEW a \in Int, NEW b \in Int
  PROVE  Min({a, b}) \in Int /\ Min({a, b}) <= a /\ Min({a, b}) <= b
BY DEF Min

(* A step that moves no byte of a file keeps its account, unless the file   *)
(* is reported copied too early.                                            *)
LEMMA BytesKept ==
  ASSUME PcOK, Bytes, NEW n \in Nodes, NEW to, pc' = [pc EXCEPT ![n] = to],
         UNCHANGED data, hurt \subseteq hurt',
         n \in Files => \/ to = "failed"
                        \/ pc[n] \notin {"write", "failed"} /\ (to = "done" => got[n] = Size)
  PROVE  Bytes'
<1> SUFFICES ASSUME NEW f \in Files PROVE FileBytes(f)'
  BY DEF Bytes
<1>1. pc'[f] = IF f = n THEN to ELSE pc[f]
  BY PcAfter, Kinds
<1>2. FileBytes(f) /\ UNCHANGED <<got[f], chunk[f], written[f]>>
  BY DEF Bytes, data
<1> QED BY <1>1, <1>2 DEF FileBytes

(* (see above)                                                              *)
LEMMA BytesStep ==
  ASSUME PcOK, KindPlaces, DataOK, Bytes, Next
  PROVE  Bytes'
<1> USE Kinds DEF Goto
<1>a. hurt \subseteq hurt' /\ Size \in Nat /\ BufSize \in Nat \ {0}
  BY Unchanging, CopyAssumption
<1>b. ASSUME NEW d \in Dirs, ReadEntry(d) \/ SkipEntry(d) \/ newThreadCreate(d), UNCHANGED data
      PROVE  Bytes'
  <2>1. PICK n \in Nodes \ {Root} : EntryMoves(d, n)
    BY <1>b, EntryStep
  <2> SUFFICES ASSUME NEW f \in Files PROVE FileBytes(f)'
    BY DEF Bytes
  <2>2. pc'[f] = pc[f] \/ (pc[f] \notin {"write", "failed"} /\ pc'[f] # "done")
    BY <2>1 DEF EntryMoves
  <2>3. FileBytes(f) /\ UNCHANGED <<got[f], chunk[f], written[f]>>
    BY <1>b DEF Bytes, data
  <2> QED BY <1>a, <2>2, <2>3 DEF FileBytes

<1>1. ASSUME NEW d \in Dirs, openInDirectory(d) PROVE Bytes'
  BY <1>1, <1>a, BytesKept DEF openInDirectory
<1>2. ASSUME NEW d \in Dirs, OpenDirFails(d) PROVE Bytes'
  BY <1>2, <1>a, BytesKept DEF OpenDirFails
<1>3. ASSUME NEW d \in Dirs, makeOutPathDirectory(d) PROVE Bytes'
  BY <1>3, <1>a, BytesKept DEF makeOutPathDirectory
<1>4. ASSUME NEW d \in Dirs, MakeFails(d) PROVE Bytes'
  BY <1>4, <1>a, BytesKept DEF MakeFails
<1>5. ASSUME NEW d \in Dirs, ReadEntry(d) PROVE Bytes'
  BY <1>5, <1>b DEF ReadEntry
<1>6. ASSUME NEW d \in Dirs, SkipEntry(d) PROVE Bytes'
  BY <1>6, <1>b DEF SkipEntry
<1>7. ASSUME NEW d \in Dirs, newThreadCreate(d) PROVE Bytes'
  BY <1>7, <1>b DEF newThreadCreate
<1>8. ASSUME NEW d \in Dirs, DirCopied(d) PROVE Bytes'
  BY <1>8, <1>a, BytesKept DEF DirCopied
<1>9. ASSUME NEW f \in Files, openInFile(f) PROVE Bytes'
  BY <1>9, <1>a, BytesKept DEF openInFile
<1>10. ASSUME NEW f \in Files, OpenInFails(f) PROVE Bytes'
  BY <1>10, <1>a, BytesKept DEF OpenInFails
<1>11. ASSUME NEW f \in Files, openOutFile(f) PROVE Bytes'
  BY <1>11, <1>a, BytesKept DEF openOutFile
<1>12. ASSUME NEW f \in Files, OpenOutFails(f) PROVE Bytes'
  BY <1>12, <1>a, BytesKept DEF OpenOutFails
<1>13. ASSUME NEW f \in Files, nonIntrRead(f) PROVE Bytes'
  <2>1. pc[f] = "read" /\ pc' = [pc EXCEPT ![f] = "write"] /\ UNCHANGED <<written, hurt>>
    BY <1>13 DEF nonIntrRead
  <2>2. PICK n \in 1..Min({BufSize, Size - got[f]}) :
             got' = [got EXCEPT ![f] = got[f] + n] /\ chunk' = [chunk EXCEPT ![f] = n]
    BY <1>13 DEF nonIntrRead
  <2>3. FileBytes(f) /\ got[f] \in Int /\ written[f] \in Int
    BY DEF Bytes, DataOK
  <2>4. n \in Int /\ 0 < n /\ n <= BufSize /\ n <= Size - got[f]
    <3> DEFINE room == Size - got[f]
    <3>1. room \in Int /\ BufSize \in Int /\ n \in 1..Min({BufSize, room})
      BY <1>a, <2>2, <2>3
    <3>2. n \in Int /\ 0 < n /\ n <= BufSize /\ n <= room
      <4> HIDE DEF room
      <4>1. Min({BufSize, room}) \in Int /\ Min({BufSize, room}) <= BufSize
            /\ Min({BufSize, room}) <= room
        BY <3>1, MinOfTwo
      <4> QED BY <3>1, <4>1
    <3> QED BY <3>2
  <2>5. \A g \in Files : /\ pc'[g] = IF g = f THEN "write" ELSE pc[g]
                         /\ got'[g] = IF g = f THEN got[f] + n ELSE got[g]
                         /\ chunk'[g] = IF g = f THEN n ELSE chunk[g]
    BY <2>1, <2>2 DEF PcOK, DataOK
  <2>6. FileBytes(f)'
    BY <1>a, <2>1, <2>3, <2>4, <2>5 DEF FileBytes
  <2>7. ASSUME NEW g \in Files, g # f PROVE FileBytes(g)'
    BY <2>1, <2>5, <2>7 DEF FileBytes, Bytes
  <2> QED BY <2>6, <2>7 DEF Bytes
<1>14. ASSUME NEW f \in Files, nonIntrWrite(f) PROVE Bytes'
  <2>1. pc[f] = "write" /\ pc' = [pc EXCEPT ![f] = "read"] /\ got' = got
        /\ chunk' = [chunk EXCEPT ![f] = 0]
    BY <1>14 DEF nonIntrWrite
  <2>2. PICK n \in 1..chunk[f] : /\ written' = [written EXCEPT ![f] = written[f] + n]
                                 /\ IF n = chunk[f] THEN UNCHANGED hurt ELSE Fail(f)
    BY <1>14 DEF nonIntrWrite
  <2>3. /\ FileBytes(f) /\ got[f] \in Int /\ written[f] \in Int /\ chunk[f] \in Int
        /\ n \in Int /\ 0 < n /\ n <= chunk[f]
    BY <2>2 DEF Bytes, DataOK
  <2>4. \A g \in Files : /\ pc'[g] = IF g = f THEN "read" ELSE pc[g]
                         /\ written'[g] = IF g = f THEN written[f] + n ELSE written[g]
                         /\ chunk'[g] = IF g = f THEN 0 ELSE chunk[g]
    BY <2>1, <2>2 DEF PcOK, DataOK
  <2>5. f \notin hurt' => n = chunk[f]
    BY <2>2 DEF Fail
  <2>6. FileBytes(f)'
    BY <1>a, <2>1, <2>3, <2>4, <2>5 DEF FileBytes
  <2>7. ASSUME NEW g \in Files, g # f PROVE FileBytes(g)'
    BY <1>a, <2>1, <2>4, <2>7 DEF FileBytes, Bytes
  <2> QED BY <2>6, <2>7 DEF Bytes
<1>15. ASSUME NEW f \in Files, ReadOrWriteFails(f) PROVE Bytes'
  BY <1>15, <1>a, BytesKept DEF ReadOrWriteFails
<1>16. ASSUME NEW f \in Files, FileCopied(f) PROVE Bytes'
  BY <1>16, <1>a, BytesKept DEF FileCopied
<1> QED BY <1>1, <1>2, <1>3, <1>4, <1>5, <1>6, <1>7, <1>8, <1>9,
         <1>10, <1>11, <1>12, <1>13, <1>14, <1>15, <1>16
         DEF Next, copyDirectory, copyFile

(* No entry becomes unread again, and a directory with unread entries is    *)
(* done only after an error.                                                *)
LEMMA ListedStep ==
  ASSUME PcOK, KindPlaces, Listed, Next
  PROVE  Listed'
<1> USE Kinds DEF Goto
<1>p. parent' = parent /\ hurt \subseteq hurt'
  BY Unchanging
<1>a. ASSUME NEW n \in Nodes, NEW to, pc' = [pc EXCEPT ![n] = to], to # "unread",
             n \in Dirs /\ to = "done" => n \in hurt' \/ Unread(n) = {}
      PROVE  Listed'
  <2>1. \A m \in Nodes : pc'[m] = IF m = n THEN to ELSE pc[m]
    BY <1>a, PcAfter
  <2>2. \A d \in Dirs : Unread(d)' \subseteq Unread(d)
    BY <1>p, <1>a, <2>1 DEF Unread, Children
  <2> QED BY <1>p, <1>a, <2>1, <2>2 DEF Listed
<1>b. ASSUME NEW d \in Dirs, ReadEntry(d) \/ SkipEntry(d) \/ newThreadCreate(d)
      PROVE  Listed'
  <2>1. PICK n \in Nodes \ {Root} : EntryMoves(d, n)
    BY <1>b, EntryStep
  <2>2. \A m \in Nodes : /\ pc'[m] = "unread" => pc[m] = "unread"
                         /\ pc'[m] = "done" => pc[m] = "done"
    BY <2>1 DEF EntryMoves
  <2>3. \A e \in Dirs : Unread(e)' \subseteq Unread(e)
    BY <1>p, <2>2 DEF Unread, Children
  <2> QED BY <1>p, <2>2, <2>3 DEF Listed

<1>1. ASSUME NEW d \in Dirs, openInDirectory(d) PROVE Listed'
  BY <1>1, <1>a DEF openInDirectory
<1>2. ASSUME NEW d \in Dirs, OpenDirFails(d) PROVE Listed'
  BY <1>2, <1>a DEF OpenDirFails
<1>3. ASSUME NEW d \in Dirs, makeOutPathDirectory(d) PROVE Listed'
  BY <1>3, <1>a DEF makeOutPathDirectory
<1>4. ASSUME NEW d \in Dirs, MakeFails(d) PROVE Listed'
  BY <1>4, <1>a DEF MakeFails
<1>5. ASSUME NEW d \in Dirs, ReadEntry(d) PROVE Listed'
  BY <1>5, <1>b
<1>6. ASSUME NEW d \in Dirs, SkipEntry(d) PROVE Listed'
  BY <1>6, <1>b
<1>7. ASSUME NEW d \in Dirs, newThreadCreate(d) PROVE Listed'
  BY <1>7, <1>b
<1>8. ASSUME NEW d \in Dirs, DirCopied(d) PROVE Listed'
  BY <1>8, <1>a DEF DirCopied, Fail
<1>9. ASSUME NEW f \in Files, openInFile(f) PROVE Listed'
  BY <1>9, <1>a DEF openInFile
<1>10. ASSUME NEW f \in Files, OpenInFails(f) PROVE Listed'
  BY <1>10, <1>a DEF OpenInFails
<1>11. ASSUME NEW f \in Files, openOutFile(f) PROVE Listed'
  BY <1>11, <1>a DEF openOutFile
<1>12. ASSUME NEW f \in Files, OpenOutFails(f) PROVE Listed'
  BY <1>12, <1>a DEF OpenOutFails
<1>13. ASSUME NEW f \in Files, nonIntrRead(f) PROVE Listed'
  BY <1>13, <1>a DEF nonIntrRead
<1>14. ASSUME NEW f \in Files, nonIntrWrite(f) PROVE Listed'
  BY <1>14, <1>a DEF nonIntrWrite
<1>15. ASSUME NEW f \in Files, ReadOrWriteFails(f) PROVE Listed'
  BY <1>15, <1>a DEF ReadOrWriteFails
<1>16. ASSUME NEW f \in Files, FileCopied(f) PROVE Listed'
  BY <1>16, <1>a DEF FileCopied
<1> QED BY <1>1, <1>2, <1>3, <1>4, <1>5, <1>6, <1>7, <1>8, <1>9,
         <1>10, <1>11, <1>12, <1>13, <1>14, <1>15, <1>16
         DEF Next, copyDirectory, copyFile

(* Every variable stays in its type.                                        *)
LEMMA DataStep ==
  ASSUME DataOK, Next
  PROVE  DataOK'
<1> USE Kinds DEF DataOK
<1>a. UNCHANGED <<parent, openMax, threadMax>>
  BY Unchanging
<1>b. ASSUME NEW n \in Nodes, Fail(n) PROVE hurt' \subseteq Nodes
  BY <1>b DEF Fail
<1>1. out' \subseteq Nodes /\ hurt' \subseteq Nodes
  <2>1. ASSUME NEW d \in Dirs, openInDirectory(d) PROVE out' \subseteq Nodes /\ hurt' \subseteq Nodes
    BY <2>1, <1>b DEF openInDirectory
  <2>2. ASSUME NEW d \in Dirs, OpenDirFails(d) PROVE out' \subseteq Nodes /\ hurt' \subseteq Nodes
    BY <2>2, <1>b DEF OpenDirFails
  <2>3. ASSUME NEW d \in Dirs, makeOutPathDirectory(d) PROVE out' \subseteq Nodes /\ hurt' \subseteq Nodes
    BY <2>3, <1>b DEF makeOutPathDirectory
  <2>4. ASSUME NEW d \in Dirs, MakeFails(d) PROVE out' \subseteq Nodes /\ hurt' \subseteq Nodes
    BY <2>4, <1>b DEF MakeFails
  <2>5. ASSUME NEW d \in Dirs, ReadEntry(d) PROVE out' \subseteq Nodes /\ hurt' \subseteq Nodes
    BY <2>5, <1>b DEF ReadEntry
  <2>6. ASSUME NEW d \in Dirs, SkipEntry(d) PROVE out' \subseteq Nodes /\ hurt' \subseteq Nodes
    <3>1. \A n \in Unread(d) : n \in Nodes
      BY DEF Unread, Children
    <3> QED BY <2>6, <1>b, <3>1 DEF SkipEntry
  <2>7. ASSUME NEW d \in Dirs, newThreadCreate(d) PROVE out' \subseteq Nodes /\ hurt' \subseteq Nodes
    BY <2>7, <1>b DEF newThreadCreate
  <2>8. ASSUME NEW d \in Dirs, DirCopied(d) PROVE out' \subseteq Nodes /\ hurt' \subseteq Nodes
    BY <2>8, <1>b DEF DirCopied
  <2>9. ASSUME NEW f \in Files, openInFile(f) PROVE out' \subseteq Nodes /\ hurt' \subseteq Nodes
    BY <2>9, <1>b DEF openInFile
  <2>10. ASSUME NEW f \in Files, OpenInFails(f) PROVE out' \subseteq Nodes /\ hurt' \subseteq Nodes
    BY <2>10, <1>b DEF OpenInFails
  <2>11. ASSUME NEW f \in Files, openOutFile(f) PROVE out' \subseteq Nodes /\ hurt' \subseteq Nodes
    BY <2>11, <1>b DEF openOutFile
  <2>12. ASSUME NEW f \in Files, OpenOutFails(f) PROVE out' \subseteq Nodes /\ hurt' \subseteq Nodes
    BY <2>12, <1>b DEF OpenOutFails
  <2>13. ASSUME NEW f \in Files, nonIntrRead(f) PROVE out' \subseteq Nodes /\ hurt' \subseteq Nodes
    BY <2>13, <1>b DEF nonIntrRead
  <2>14. ASSUME NEW f \in Files, nonIntrWrite(f) PROVE out' \subseteq Nodes /\ hurt' \subseteq Nodes
    <3>1. hurt' = hurt \/ Fail(f)
      BY <2>14 DEF nonIntrWrite
    <3> QED BY <2>14, <1>b, <3>1 DEF nonIntrWrite
  <2>15. ASSUME NEW f \in Files, ReadOrWriteFails(f) PROVE out' \subseteq Nodes /\ hurt' \subseteq Nodes
    BY <2>15, <1>b DEF ReadOrWriteFails
  <2>16. ASSUME NEW f \in Files, FileCopied(f) PROVE out' \subseteq Nodes /\ hurt' \subseteq Nodes
    BY <2>16, <1>b DEF FileCopied
  <2> QED BY <2>1, <2>2, <2>3, <2>4, <2>5, <2>6, <2>7, <2>8, <2>9,
           <2>10, <2>11, <2>12, <2>13, <2>14, <2>15, <2>16
           DEF Next, copyDirectory, copyFile
<1>2. UNCHANGED data \/ \E f \in Files : nonIntrRead(f) \/ nonIntrWrite(f)
  BY DEF Next, copyDirectory, copyFile, openInDirectory, OpenDirFails, makeOutPathDirectory,
         MakeFails, ReadEntry, SkipEntry, newThreadCreate, DirCopied, openInFile, OpenInFails,
         openOutFile, OpenOutFails, ReadOrWriteFails, FileCopied
<1> DEFINE Typed == /\ got' \in [Files -> Int] /\ chunk' \in [Files -> Int]
                    /\ written' \in [Files -> Int]
<1>3. Typed
  <2>1. CASE UNCHANGED data
    BY <2>1 DEF data
  <2>2. ASSUME NEW f \in Files, nonIntrRead(f) PROVE Typed
    <3>1. PICK n \in 1..Min({BufSize, Size - got[f]}) :
             got' = [got EXCEPT ![f] = got[f] + n] /\ chunk' = [chunk EXCEPT ![f] = n]
      BY <2>2 DEF nonIntrRead
    <3>2. n \in Int
      OBVIOUS
    <3>3. written' = written
      BY <2>2 DEF nonIntrRead
    <3> QED BY <3>1, <3>2, <3>3
  <2>3. ASSUME NEW f \in Files, nonIntrWrite(f) PROVE Typed
    <3>1. PICK n \in 1..chunk[f] : written' = [written EXCEPT ![f] = written[f] + n]
      BY <2>3 DEF nonIntrWrite
    <3>2. n \in Int
      OBVIOUS
    <3>3. chunk' = [chunk EXCEPT ![f] = 0] /\ got' = got
      BY <2>3 DEF nonIntrWrite
    <3> QED BY <3>1, <3>2, <3>3
  <2> QED BY <1>2, <2>1, <2>2, <2>3
<1> QED BY <1>a, <1>1, <1>3

(* Only newThreadCreate starts a thread, and below a directory that is there. *)
LEMMA ParentsStep ==
  ASSUME PcOK, KindPlaces, Made, ParentsFirst, Next
  PROVE  ParentsFirst'
<1> USE Kinds
<1>1. parent' = parent /\ out \subseteq out'
  BY Unchanging
<1> SUFFICES ASSUME NEW n \in Running', n # Root PROVE parent[n] \in out
  BY <1>1 DEF ParentsFirst
<1>2. CASE n \in Running
  BY <1>2 DEF ParentsFirst
<1>3. CASE n \notin Running
  <2>1. PICK d \in Dirs : pc[d] = "spawn" /\ parent[n] = d
    BY <1>3, RunningStep
  <2> QED BY <2>1 DEF Made
<1> QED BY <1>2, <1>3

-----------------------------------------------------------------------------
(* The inductive invariant. *)
IInv ==
    /\ PcOK /\ KindPlaces /\ DataOK /\ used \in Int
    /\ DescriptorsAccounted
    /\ LimitsKept
    /\ Made
    /\ Bytes
    /\ Listed
    /\ ParentsFirst

(* It holds at the start, of every tree and within any limits ...           *)
LEMMA Initially == Init => IInv
<1> SUFFICES ASSUME Init PROVE IInv
  OBVIOUS
<1> USE Kinds
<1>0. /\ pc = [n \in Nodes |-> IF n = Root THEN "openDir" ELSE "unread"]
      /\ parent \in [Nodes \ {Root} -> Dirs] /\ openMax \in 1..OpenMax
      /\ threadMax \in 1..ThreadMax /\ used = 0 /\ out = {} /\ hurt = {}
      /\ got = [f \in Files |-> 0] /\ chunk = [f \in Files |-> 0]
      /\ written = [f \in Files |-> 0]
  BY DEF Init
<1>1. \A n \in Nodes : pc[n] = IF n = Root THEN "openDir" ELSE "unread"
  BY <1>0
<1>2. PcOK /\ KindPlaces
  <2>1. KindPlaces
    BY <1>1 DEF KindPlaces, DirPlaces, FilePlaces
  <2> QED BY <1>0, <2>1 DEF PcOK, DirPlaces
<1>3. DataOK /\ used \in Int
  BY <1>0 DEF DataOK
<1>4. OneOpen = {} /\ TwoOpen = {}
  BY <1>1 DEF OneOpen, TwoOpen
<1>5. DescriptorsAccounted
  BY <1>0, <1>4, FS_EmptySet DEF DescriptorsAccounted
<1>6. Running = {Root}
  BY <1>1 DEF Running
<1>7. LimitsKept
  <2>1. Cardinality(Running) = 1
    BY <1>6, FS_Singleton
  <2>2. openMax \in Int /\ 1 <= openMax /\ threadMax \in Int /\ 1 <= threadMax
    BY <1>0, CopyAssumption
  <2> QED BY <1>0, <2>1, <2>2 DEF LimitsKept
<1>8. Made /\ Listed /\ ParentsFirst
  BY <1>1, <1>6 DEF Made, Listed, ParentsFirst
<1>9. Bytes
  <2> SUFFICES ASSUME NEW f \in Files PROVE FileBytes(f)
    BY DEF Bytes
  <2>1. got[f] = 0 /\ chunk[f] = 0 /\ written[f] = 0 /\ pc[f] = "unread"
    BY <1>0, <1>1
  <2> QED BY <2>1, CopyAssumption DEF FileBytes
<1> QED BY <1>2, <1>3, <1>5, <1>7, <1>8, <1>9 DEF IInv

(* ... and every step preserves it.                                         *)
LEMMA Inductive == IInv /\ [Next]_vars => IInv'
<1> SUFFICES ASSUME IInv, [Next]_vars PROVE IInv'
  OBVIOUS
<1>1. CASE Next
  <2>1. PcOK' /\ KindPlaces' /\ DataOK'
    BY <1>1, KindStep, DataStep DEF IInv
  <2>2. DescriptorsAccounted' /\ LimitsKept' /\ used' \in Int
    BY <1>1, OpenStep, LimitStep DEF IInv
  <2>3. Made' /\ Bytes' /\ Listed' /\ ParentsFirst'
    BY <1>1, MadeStep, BytesStep, ListedStep, ParentsStep DEF IInv
  <2> QED BY <2>1, <2>2, <2>3 DEF IInv
<1>2. CASE UNCHANGED vars
  <2> USE <1>2 DEF vars, system, data
  <2>1. PcOK' /\ KindPlaces' /\ DataOK' /\ used' \in Int
    BY DEF IInv, PcOK, KindPlaces, DataOK
  <2>2. DescriptorsAccounted' /\ LimitsKept'
    BY DEF IInv, DescriptorsAccounted, OneOpen, TwoOpen, LimitsKept, Running
  <2>3. Made' /\ Listed' /\ ParentsFirst'
    BY DEF IInv, Made, Listed, Unread, Children, ParentsFirst, Running
  <2>4. Bytes'
    BY DEF IInv, Bytes, FileBytes
  <2> QED BY <2>1, <2>2, <2>3, <2>4 DEF IInv
<1> QED BY <1>1, <1>2

(* So it holds in every reachable state.                                    *)
THEOREM Invariance == Spec => []IInv
BY Initially, Inductive, PTL DEF Spec

(* The variables stay in their types, and neither the limit on descriptors  *)
(* nor the one on threads is ever exceeded.                                 *)
THEOREM TypeCorrectness == Spec => []TypeOK
<1>1. IInv => TypeOK
  <2> SUFFICES ASSUME IInv PROVE TypeOK
    OBVIOUS
  <2>1. used \in 0..openMax
    <3>1. OneOpen \subseteq Nodes /\ TwoOpen \subseteq Nodes
      BY Kinds DEF OneOpen, TwoOpen
    <3>2. Cardinality(OneOpen) \in Nat /\ Cardinality(TwoOpen) \in Nat
      BY <3>1, Kinds, FS_Subset, FS_CardinalityType
    <3> QED BY <3>2 DEF IInv, DescriptorsAccounted, LimitsKept, DataOK
  <2>2. \A f \in Files : got[f] \in 0..Size /\ chunk[f] \in 0..BufSize
                         /\ written[f] + chunk[f] <= got[f]
    BY CopyAssumption DEF IInv, DataOK, Bytes, FileBytes
  <2>3. pc \in [Nodes -> {"unread", "found", "skipped", "done", "failed", "openDir", "make",
                         "list", "spawn", "openIn", "openOut", "read", "write"}]
    BY DEF IInv, PcOK, DirPlaces, FilePlaces
  <2> QED BY <2>1, <2>2, <2>3 DEF IInv, DataOK, LimitsKept, TypeOK
<1> QED BY <1>1, Invariance, PTL

(* Every descriptor in use is one that a thread will close, on every path   *)
(* out of copyFile and copyDirectory.                                       *)
THEOREM DescriptorsKept == Spec => []DescriptorsAccounted
<1>1. IInv => DescriptorsAccounted
  BY DEF IInv
<1> QED BY <1>1, Invariance, PTL

(* Nobody works below a directory that is not there yet.                    *)
THEOREM ParentsMadeFirst == Spec => []ParentsFirst
<1>1. IInv => ParentsFirst
  BY DEF IInv
<1> QED BY <1>1, Invariance, PTL

(* A file that is reported copied is there to its last byte, and a directory *)
(* with every entry begun, unless a call for it failed or fell short.       *)
THEOREM CopiedIsWhole == Spec => []CopiedMeansWhole
<1>1. IInv => CopiedMeansWhole
  <2> SUFFICES ASSUME IInv, NEW n \in Dirs \cup Files, pc[n] = "done", n \notin hurt
               PROVE  Whole(n)
    BY DEF CopiedMeansWhole
  <2>1. CASE n \in Files
    <3>1. FileBytes(n) /\ got[n] \in Int /\ written[n] \in Int /\ chunk[n] \in Int
      BY <2>1 DEF IInv, Bytes, DataOK
    <3>2. written[n] = Size
      BY <3>1, CopyAssumption DEF FileBytes
    <3>3. n \in out
      BY <2>1 DEF IInv, Made
    <3> QED BY <2>1, <3>2, <3>3 DEF Whole
  <2>2. CASE n \in Dirs
    BY <2>2, Kinds DEF IInv, Made, Listed, Whole
  <2> QED BY <2>1, <2>2
<1> QED BY <1>1, Invariance, PTL

=============================================================================
