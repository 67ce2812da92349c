------------------------------- MODULE DirCopy ------------------------------
(***************************************************************************)
(* lab6: a directory is copied by detached threads, one for each directory *)
(* and one for each file.  A thread that gets no descriptor or no new      *)
(* thread sleeps and tries again; here it cannot go on until there is one. *)
(* Any other failure ends what the thread was to do.  The output lies      *)
(* outside the input, and nobody else changes either.                      *)
(***************************************************************************)
EXTENDS Integers, FiniteSets, FiniteSetsExt

CONSTANTS Root,          \* the directory to copy
          Subdirs, Files, Others,   \* what lies below it
          Size, BufSize, \* length of a file and of buf
          OpenMax,       \* bounds of the two limits below
          ThreadMax,
          Faults         \* may calls fail, and write() take less than it is given?

ASSUME CopyAssumption ==
    /\ IsFiniteSet(Subdirs) /\ IsFiniteSet(Files) /\ IsFiniteSet(Others)
    /\ Root \notin Subdirs /\ ({Root} \cup Subdirs) \cap (Files \cup Others) = {}
    /\ Files \cap Others = {}
    /\ Size \in Nat /\ BufSize \in Nat \ {0} /\ Faults \in BOOLEAN
    /\ OpenMax \in Nat \ {0} /\ ThreadMax \in Nat \ {0}

Dirs == {Root} \cup Subdirs
Nodes == Dirs \cup Files \cup Others

VARIABLES parent,        \* the tree to copy; never changes
          openMax,       \* descriptors the process may have beside 0, 1 and 2
          threadMax,     \* threads it may have; neither limit ever changes
          pc,            \* where the thread of each node is
          used,          \* descriptors in use
          out,           \* the nodes that exist in outPath
          got, chunk, written,   \* of each file: bytes read so far, in buf, in outPath
          hurt           \* history: the nodes one of whose calls has failed

system == <<parent, openMax, threadMax>>
data == <<got, chunk, written>>
vars == <<system, pc, used, out, data, hurt>>

Children(d) == {n \in Nodes \ {Root} : parent[n] = d}
Unread(d) == {n \in Children(d) : pc[n] = "unread"}
Running == {n \in Nodes : pc[n] \notin {"unread", "found", "skipped", "done", "failed"}}

(* Every tree of these nodes.  main has started the thread of Root. *)
Init ==
    /\ parent \in [Nodes \ {Root} -> Dirs]
    /\ \A D \in SUBSET Subdirs : D # {} => \E d \in D : parent[d] \notin D
    /\ openMax \in 1..OpenMax /\ threadMax \in 1..ThreadMax
    /\ pc = [n \in Nodes |-> IF n = Root THEN "openDir" ELSE "unread"]
    /\ used = 0 /\ out = {} /\ hurt = {}
    /\ got = [f \in Files |-> 0] /\ chunk = got /\ written = got

Goto(n, from, to) == pc[n] = from /\ pc' = [pc EXCEPT ![n] = to]
Open == used < openMax /\ used' = used + 1      \* else EMFILE: wait
Close(n) == used' = used - n
Fail(n) == Faults /\ hurt' = hurt \cup {n}

-----------------------------------------------------------------------------
(* copyDirectory *)

openInDirectory(d) ==
    /\ Goto(d, "openDir", "make") /\ Open
    /\ UNCHANGED <<system, out, data, hurt>>

OpenDirFails(d) ==
    /\ Goto(d, "openDir", "failed") /\ Fail(d)
    /\ UNCHANGED <<system, used, out, data>>

makeOutPathDirectory(d) ==
    /\ Goto(d, "make", "list")
    /\ out' = out \cup {d}
    /\ UNCHANGED <<system, used, data, hurt>>

(* Mutants: the failure is not looked at; the descriptor is kept. *)
MakeFailsUnseen(d) ==
    /\ Goto(d, "make", "list") /\ Fail(d)
    /\ UNCHANGED <<system, used, out, data>>
MakeFailsOpen(d) ==
    /\ Goto(d, "make", "failed") /\ Fail(d)
    /\ UNCHANGED <<system, used, out, data>>

MakeFails(d) ==
    /\ Goto(d, "make", "failed") /\ Fail(d) /\ Close(1)
    /\ UNCHANGED <<system, out, data>>

(* readdir_r yields the entries in any order; stat tells what n is. *)
ReadEntry(d) ==
    /\ pc[d] = "list"
    /\ \E n \in Unread(d) \ Others : pc' = [pc EXCEPT ![d] = "spawn", ![n] = "found"]
    /\ UNCHANGED <<system, used, out, data, hurt>>

(* stat fails, or n is neither a file nor a directory. *)
SkipEntry(d) ==
    /\ pc[d] = "list"
    /\ \E n \in Unread(d) :
          /\ pc' = [pc EXCEPT ![n] = "skipped"]
          /\ IF n \in Others THEN UNCHANGED hurt ELSE Fail(n)
    /\ UNCHANGED <<system, used, out, data>>

newThreadCreate(d) ==
    /\ pc[d] = "spawn" /\ Cardinality(Running) < threadMax   \* else EAGAIN: wait
    /\ \E n \in Children(d) :
          /\ pc[n] = "found"
          /\ pc' = [pc EXCEPT ![d] = "list",
                              ![n] = IF n \in Dirs THEN "openDir" ELSE "openIn"]
    /\ UNCHANGED <<system, used, out, data, hurt>>

(* The end of the directory, or an error of readdir_r, which is not told    *)
(* from it: "Copied", closedir.                                             *)
DirCopied(d) ==
    /\ Goto(d, "list", "done") /\ Close(1)
    /\ IF Unread(d) = {} THEN UNCHANGED hurt ELSE Fail(d)
    /\ UNCHANGED <<system, out, data>>

-----------------------------------------------------------------------------
(* copyFile *)

openInFile(f) ==
    /\ Goto(f, "openIn", "openOut") /\ Open
    /\ UNCHANGED <<system, out, data, hurt>>

OpenInFails(f) ==
    /\ Goto(f, "openIn", "failed") /\ Fail(f)
    /\ UNCHANGED <<system, used, out, data>>

(* inFile is held while the thread waits for outFile. *)
openOutFile(f) ==
    /\ Goto(f, "openOut", "read") /\ Open
    /\ out' = out \cup {f}
    /\ UNCHANGED <<system, data, hurt>>

(* Mutant: inFile is not closed. *)
OpenOutFailsOpen(f) ==
    /\ Goto(f, "openOut", "failed") /\ Fail(f)
    /\ UNCHANGED <<system, used, out, data>>

OpenOutFails(f) ==
    /\ Goto(f, "openOut", "failed") /\ Fail(f) /\ Close(1)
    /\ UNCHANGED <<system, out, data>>

nonIntrRead(f) ==
    /\ Goto(f, "read", "write")
    /\ \E n \in 1..Min({BufSize, Size - got[f]}) :
          /\ got' = [got EXCEPT ![f] = @ + n]
          /\ chunk' = [chunk EXCEPT ![f] = n]
    /\ UNCHANGED <<system, used, out, written, hurt>>

(* What write() did not take of the chunk is lost. *)
nonIntrWrite(f) ==
    /\ Goto(f, "write", "read")
    /\ \E n \in 1..chunk[f] :
          /\ written' = [written EXCEPT ![f] = @ + n]
          /\ IF n = chunk[f] THEN UNCHANGED hurt ELSE Fail(f)
    /\ chunk' = [chunk EXCEPT ![f] = 0]
    /\ UNCHANGED <<system, used, out, got>>

ReadOrWriteFails(f) ==
    /\ pc[f] \in {"read", "write"} /\ Goto(f, pc[f], "failed") /\ Fail(f) /\ Close(2)
    /\ UNCHANGED <<system, out, data>>

(* Mutant: a read that does not fill buf is taken for the last one. *)
FileCopiedEarly(f) ==
    /\ got[f] % BufSize # 0 \/ got[f] = Size
    /\ Goto(f, "read", "done") /\ Close(2)
    /\ UNCHANGED <<system, out, data, hurt>>

(* read() returns 0, which is written too: "Copied", close both. *)
FileCopied(f) ==
    /\ got[f] = Size
    /\ Goto(f, "read", "done") /\ Close(2)
    /\ UNCHANGED <<system, out, data, hurt>>

-----------------------------------------------------------------------------
copyDirectory(d) ==
    \/ openInDirectory(d) \/ makeOutPathDirectory(d)
    \/ ReadEntry(d) \/ SkipEntry(d) \/ newThreadCreate(d) \/ DirCopied(d)
copyFile(f) ==
    openInFile(f) \/ openOutFile(f) \/ nonIntrRead(f) \/ nonIntrWrite(f) \/ FileCopied(f)

Next == \/ \E d \in Dirs : copyDirectory(d) \/ OpenDirFails(d) \/ MakeFails(d)
        \/ \E f \in Files : copyFile(f) \/ OpenInFails(f) \/ OpenOutFails(f)
                                         \/ ReadOrWriteFails(f)

Spec == Init /\ [][Next]_vars

(* Every thread is scheduled; none is preferred when a descriptor is freed, *)
(* and a thread that waits for one is not bound to fail instead.            *)
LiveSpec == /\ Spec
            /\ \A d \in Dirs : WF_vars(copyDirectory(d))
            /\ \A f \in Files : WF_vars(copyFile(f))

-----------------------------------------------------------------------------
(* The variables stay in their types, and neither limit is exceeded. *)
TypeOK ==
    /\ openMax \in 1..OpenMax /\ used \in 0..openMax /\ out \subseteq Nodes
    /\ threadMax \in 1..ThreadMax /\ Cardinality(Running) <= threadMax
    /\ pc \in [Nodes -> {"unread", "found", "skipped", "done", "failed", "openDir", "make",
                         "list", "spawn", "openIn", "openOut", "read", "write"}]
    /\ \A f \in Files : got[f] \in 0..Size /\ chunk[f] \in 0..BufSize
                       /\ written[f] + chunk[f] <= got[f]
    /\ hurt \subseteq Nodes

(* Every descriptor in use is one that a thread will close: none is lost,   *)
(* on no path out of copyFile or copyDirectory, and none is closed twice.   *)
OneOpen == {n \in Nodes : pc[n] \in {"make", "list", "spawn", "openOut"}}
TwoOpen == {f \in Files : pc[f] \in {"read", "write"}}
DescriptorsAccounted == used = Cardinality(OneOpen) + 2 * Cardinality(TwoOpen)

(* Nobody works below a directory that is not there yet: the thread of an   *)
(* entry is created after the directory it goes into.                       *)
ParentsFirst == \A n \in Running \ {Root} : parent[n] \in out

(* What is reported as copied is whole, if no call for it failed or fell    *)
(* short: a file to its last byte, a directory with every entry begun.      *)
Whole(n) == IF n \in Files THEN n \in out /\ written[n] = Size
            ELSE n \in out /\ Unread(n) = {}
CopiedMeansWhole == \A n \in Dirs \cup Files : pc[n] = "done" /\ n \notin hurt => Whole(n)

(* The limits that are never too small: one thread more than there are      *)
(* directories to wait for each other, and one descriptor more than files   *)
(* can wait with; or no lack of threads.                                    *)
Enough == \/ threadMax > Cardinality(Dirs) /\ openMax > threadMax
          \/ threadMax >= Cardinality(Dirs \cup Files) /\ openMax > Cardinality(Files)

(* Given that much, all threads come to an end, and if nothing failed the   *)
(* whole tree is there.                                                     *)
CopyEnds ==
    Enough => <>(Running = {} /\ (hurt = {} => \A n \in Dirs \cup Files : Whole(n)))

(* "Waiting opening %s": a thread that waits for a descriptor gets one. *)
WaitingEnds == \A f \in Files : pc[f] = "openOut" ~> pc[f] # "openOut"
=============================================================================
