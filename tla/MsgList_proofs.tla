--------------------------- MODULE MsgList_proofs ---------------------------
(***************************************************************************)
(* The list of lab23 and lab24 keeps its shape, whatever the number of     *)
(* cells and of threads, and is a first-in first-out channel.              *)
(***************************************************************************)
EXTENDS MsgList, FiniteSetTheorems, SequenceTheorems, WellFoundedInduction, TLAPS

Heap == IsFiniteSet(Nodes) /\ Null \notin Nodes

-----------------------------------------------------------------------------
(* Behind is defined by recursion: that there is such a function.            *)

After(f, i) == IF i = 0 THEN last
               ELSE IF f[i - 1] \in Nodes THEN prev[f[i - 1]] ELSE Null

LEMMA NatOrder == IsWellFoundedOn({ss \in Nat \X Nat : ss[1] < ss[2]}, Nat)
BY NatLessThanWellFounded, Zenon DEF OpToRel

LEMMA BehindUpTo == \A k \in Nat : \E f : f = [i \in 0..k |-> After(f, i)]
<1> DEFINE Walk(k) == \E f : f = [i \in 0..k |-> After(f, i)]
<1> DEFINE Bad == {k \in Nat : ~Walk(k)}
<1> DEFINE R == {ss \in Nat \X Nat : ss[1] < ss[2]}
<1> SUFFICES ASSUME Bad # {} PROVE FALSE
  OBVIOUS
<1>1. PICK k \in Bad : \A m \in Bad : ~(<<m, k>> \in R)
  <2>1. Bad \subseteq Nat
    OBVIOUS
  <2> HIDE DEF Bad, R
  <2> QED
    BY <2>1, NatOrder, WFMin DEF R
<1>2. k \in Nat /\ ~Walk(k)
  OBVIOUS
<1>3. CASE k = 0
  <2> DEFINE f == [i \in 0..0 |-> last]
  <2>1. \A i \in 0..0 : f[i] = After(f, i)
    BY DEF After
  <2>2. f = [i \in 0..0 |-> After(f, i)]
    BY <2>1
  <2>3. Walk(0)
    BY <2>2
  <2> QED
    BY <1>2, <1>3, <2>3
<1>4. CASE k # 0
  <2>1. k - 1 \in Nat /\ <<k - 1, k>> \in R
    BY <1>2, <1>4
  <2>2. Walk(k - 1)
    <3>1. k - 1 \notin Bad
      BY <1>1, <2>1
    <3> QED
      BY <2>1, <3>1
  <2>3. PICK f : f = [i \in 0..(k - 1) |-> After(f, i)]
    BY <2>2
  <2> DEFINE g == [i \in 0..k |-> IF i = k THEN After(f, k) ELSE f[i]]
  <2>4. \A i \in 0..(k - 1) : f[i] = After(f, i)
    <3> DEFINE h == [i \in 0..(k - 1) |-> After(f, i)]
    <3>1. \A i \in 0..(k - 1) : h[i] = After(f, i)
      OBVIOUS
    <3>2. f = h
      BY <2>3
    <3> HIDE DEF h
    <3> QED
      BY <3>1, <3>2
  <2>5. \A i \in 0..k : g[i] = After(g, i)
    <3> TAKE i \in 0..k
    <3>1. CASE i = 0
      BY <1>2, <1>4, <2>4, <3>1 DEF After
    <3>2. CASE i # 0
      <4>1. i - 1 \in 0..(k - 1) /\ g[i - 1] = f[i - 1]
        BY <1>2, <3>2
      <4>2. g[i] = After(f, i)
        BY <1>2, <2>4
      <4> HIDE DEF g
      <4> QED
        BY <3>2, <4>1, <4>2 DEF After
    <3> QED
      BY <3>1, <3>2
  <2>6. g = [i \in 0..k |-> After(g, i)]
    <3>1. g = [i \in 0..k |-> g[i]]
      OBVIOUS
    <3> HIDE DEF g
    <3> QED
      BY <2>5, <3>1
  <2>7. Walk(k)
    BY <2>6
  <2> QED
    BY <1>2, <2>7
<1> QED
  BY <1>3, <1>4

LEMMA BehindIs ==
  ASSUME Heap
  PROVE  /\ DOMAIN Behind = 0..Cardinality(Nodes)
         /\ \A i \in 0..Cardinality(Nodes) : Behind[i] = After(Behind, i)
<1> DEFINE N == Cardinality(Nodes)
<1>1. N \in Nat
  BY FS_CardinalityType DEF Heap
<1>2. Behind = CHOOSE f : f = [i \in 0..N |-> After(f, i)]
  BY DEF Behind, After
<1>3. \E f : f = [i \in 0..N |-> After(f, i)]
  BY <1>1, BehindUpTo
<1>4. Behind = [i \in 0..N |-> After(Behind, i)]
  <2> HIDE DEF N
  <2> QED
    BY <1>2, <1>3
<1> DEFINE h == [i \in 0..N |-> After(Behind, i)]
<1>5. DOMAIN h = 0..N /\ \A i \in 0..N : h[i] = After(Behind, i)
  OBVIOUS
<1>6. Behind = h
  BY <1>4
<1> QED
  <2> HIDE DEF h
  <2> QED
    BY <1>5, <1>6

-----------------------------------------------------------------------------
(* The list as a sequence, oldest first *)

Cells(s) == {s[i] : i \in 1..Len(s)}

(* From last along prev lie exactly the cells of s, each once.               *)
Chain(s) ==
    /\ \A i, j \in 1..Len(s) : s[i] = s[j] => i = j
    /\ last = (IF Len(s) = 0 THEN Null ELSE s[1])
    /\ \A i \in 1..Len(s) : prev[s[i]] = IF i = Len(s) THEN Null ELSE s[i + 1]

(* A sequence without repetition is as long as its cells are many.           *)
LEMMA HowMany ==
  ASSUME Heap, NEW s \in Seq(Nodes), \A i, j \in 1..Len(s) : s[i] = s[j] => i = j
  PROVE  /\ IsFiniteSet(Cells(s)) /\ Cells(s) \subseteq Nodes
         /\ Cardinality(Cells(s)) = Len(s)
<1>1. Cells(s) \subseteq Nodes
  BY DEF Cells
<1>2. IsFiniteSet(Cells(s))
  BY <1>1, FS_Subset DEF Heap
<1> DEFINE h == [i \in 1..Len(s) |-> s[i]]
<1>3. h \in Bijection(1..Len(s), Cells(s))
  BY DEF Cells, Bijection, Injection, Surjection, IsInjective
<1>4. IsFiniteSet(1..Len(s)) /\ Cardinality(1..Len(s)) = Len(s)
  <2>1. Len(s) \in Int /\ 1 \in Int /\ Len(s) >= 0
    OBVIOUS
  <2>2. /\ IsFiniteSet(1..Len(s))
        /\ Cardinality(1..Len(s)) = IF 1 > Len(s) THEN 0 ELSE Len(s) - 1 + 1
    BY <2>1, FS_Interval
  <2> QED
    BY <2>1, <2>2
<1>5. Cardinality(1..Len(s)) = Cardinality(Cells(s))
  <2>1. ExistsBijection(1..Len(s), Cells(s))
    BY <1>3 DEF ExistsBijection
  <2> QED
    BY <1>4, <2>1, FS_Bijection
<1> QED
  BY <1>1, <1>2, <1>4, <1>5

LEMMA NotTooLong ==
  ASSUME Heap, NEW s \in Seq(Nodes), \A i, j \in 1..Len(s) : s[i] = s[j] => i = j
  PROVE  Len(s) <= Cardinality(Nodes)
BY HowMany, FS_Subset DEF Heap

(* Order walks along exactly the chain. *)
LEMMA OrderIs ==
  ASSUME Heap
  PROVE  \A s \in Seq(Nodes) : Chain(s) => Order = s
<1> SUFFICES ASSUME NEW s \in Seq(Nodes), Chain(s) PROVE Order = s
  OBVIOUS
<1> DEFINE N == Cardinality(Nodes)
<1>1. N \in Nat /\ Len(s) \in 0..N
  BY NotTooLong, FS_CardinalityType DEF Heap, Chain
<1> DEFINE Wrong == {i \in 0..N : Behind[i] # IF i < Len(s) THEN s[i + 1] ELSE Null}
<1>2. Wrong = {}
  <2> DEFINE R == {ss \in Nat \X Nat : ss[1] < ss[2]}
  <2> SUFFICES ASSUME Wrong # {} PROVE FALSE
    OBVIOUS
  <2>1. PICK k \in Wrong : \A m \in Wrong : ~(<<m, k>> \in R)
    <3>1. Wrong \subseteq Nat
      BY <1>1
    <3> HIDE DEF Wrong, R
    <3> QED
      BY <3>1, NatOrder, WFMin DEF R
  <2>2. k \in 0..N /\ Behind[k] # IF k < Len(s) THEN s[k + 1] ELSE Null
    OBVIOUS
  <2>3. Behind[k] = After(Behind, k)
    BY <2>2, BehindIs
  <2>4. CASE k = 0
    BY <1>1, <2>2, <2>3, <2>4 DEF After, Chain
  <2>5. CASE k # 0
    <3>1. k - 1 \in 0..N /\ <<k - 1, k>> \in R
      BY <1>1, <2>2, <2>5
    <3>2. Behind[k - 1] = IF k - 1 < Len(s) THEN s[k] ELSE Null
      <4>1. k - 1 \notin Wrong
        BY <2>1, <3>1
      <4>2. k - 1 + 1 = k
        BY <1>1, <2>2
      <4> HIDE DEF R
      <4> QED
        BY <3>1, <4>1, <4>2
    <3>3. CASE k - 1 < Len(s)
      <4>1. k \in 1..Len(s) /\ s[k] \in Nodes
        BY <1>1, <2>2, <2>5, <3>3
      <4>2. Behind[k] = prev[s[k]]
        BY <2>3, <2>5, <3>2, <3>3, <4>1 DEF After
      <4> QED
        BY <1>1, <2>2, <3>3, <4>1, <4>2 DEF Chain
    <3>4. CASE ~(k - 1 < Len(s))
      <4>1. Behind[k] = Null /\ ~(k < Len(s))
        BY <1>1, <2>2, <2>3, <2>5, <3>2, <3>4 DEF After, Heap
      <4> QED
        BY <2>2, <4>1
    <3> QED
      BY <3>3, <3>4
  <2> QED
    BY <2>4, <2>5
<1>3. \A i \in 0..N : Behind[i] = IF i < Len(s) THEN s[i + 1] ELSE Null
  <2> TAKE i \in 0..N
  <2>1. i \notin Wrong
    BY <1>2
  <2> QED
    BY <2>1
<1>4. {j \in DOMAIN Behind : Behind[j] \in Nodes} = 0..(Len(s) - 1)
  <2>1. DOMAIN Behind = 0..N
    BY BehindIs
  <2>2. \A i \in 0..N : Behind[i] \in Nodes <=> i < Len(s)
    <3> TAKE i \in 0..N
    <3>1. CASE i < Len(s)
      <4>1. s[i + 1] \in Nodes
        BY <1>1, <3>1
      <4> QED
        BY <1>3, <3>1, <4>1
    <3>2. CASE ~(i < Len(s))
      BY <1>3, <3>2 DEF Heap
    <3> QED
      BY <3>1, <3>2
  <2> HIDE DEF Wrong
  <2> QED
    BY <1>1, <2>1, <2>2
<1>5. Cardinality(0..(Len(s) - 1)) = Len(s)
  <2>1. Len(s) - 1 \in Int /\ 0 \in Int
    BY <1>1
  <2>2. Cardinality(0..(Len(s) - 1)) = IF 0 > Len(s) - 1 THEN 0 ELSE Len(s) - 1 - 0 + 1
    BY <2>1, FS_Interval
  <2> QED
    BY <1>1, <2>2
<1>6. Order = [i \in 1..Len(s) |-> Behind[i - 1]]
  BY <1>4, <1>5 DEF Order
<1>7. \A i \in 1..Len(s) : Behind[i - 1] = s[i]
  <2> TAKE i \in 1..Len(s)
  <2>1. i - 1 \in 0..N /\ i - 1 < Len(s) /\ i - 1 + 1 = i
    BY <1>1
  <2> QED
    BY <1>3, <2>1
<1>8. s = [i \in 1..Len(s) |-> s[i]]
  OBVIOUS
<1> QED
  BY <1>6, <1>7, <1>8

-----------------------------------------------------------------------------
(* The inductive invariant *)

(* The cells allocated are those of s and those in the hands of a get; until *)
(* drop() s is the list in both directions, and then what its loop has still *)
(* to free, from the youngest on.                                            *)
Shape(s) ==
    /\ \A i, j \in 1..Len(s) : s[i] = s[j] => i = j
    /\ Cells(s) \cap Taken = {}
    /\ alive = Cells(s) \cup Taken
    /\ \A i \in 1..Len(s) : next[s[i]] = IF i = 1 THEN Null ELSE s[i - 1]
    /\ InUse => Chain(s) /\ first = (IF Len(s) = 0 THEN Null ELSE s[Len(s)])
    /\ phase = "dropping" => l1 = (IF Len(s) = 0 THEN Null ELSE s[Len(s)])
    /\ phase = "dropped" => Len(s) = 0

NoneShared == \A c, d \in Consumers : l[c] = l[d] /\ l[c] # Null => c = d

IInv == /\ TypeOK /\ NoneShared
        /\ \E s \in Seq(Nodes) : Shape(s)

LEMMA Initially == Init => IInv
<1> SUFFICES ASSUME Init PROVE IInv
  OBVIOUS
<1>1. TypeOK
  BY DEF Init, TypeOK, Pointers
<1>2. NoneShared
  BY DEF Init, NoneShared
<1>3. Taken = {}
  BY DEF Init, Taken
<1>4. << >> \in Seq(Nodes) /\ Len(<< >>) = 0
  OBVIOUS
<1>5. Shape(<< >>)
  BY <1>3, <1>4 DEF Init, Shape, Chain, Cells
<1> QED
  BY <1>1, <1>2, <1>4, <1>5 DEF IInv

LEMMA Neighbours ==
  \A len \in Nat :
     /\ \A i \in 1..len : (i # 1 => i - 1 \in 1..len) /\ (i # len => i + 1 \in 1..len)
     /\ len # 0 /\ len # 1 => len - 1 \in 1..(len - 1)
OBVIOUS

LEMMA TypeKept ==
  ASSUME Heap, IInv, [Next]_vars
  PROVE  TypeOK'
<1>1. CASE UNCHANGED vars
  BY <1>1 DEF IInv, TypeOK, vars, cells
<1>2. ASSUME NEW p \in Producers, Link(p) PROVE TypeOK'
  BY <1>2 DEF IInv, TypeOK, Link, TellFirst, Pointers
<1>3. ASSUME NEW c \in Consumers, Unlink(c) PROVE TypeOK'
  <2>1. PICK s \in Seq(Nodes) : Shape(s)
    BY DEF IInv
  <2>2. last \in Nodes /\ prev[last] \in Pointers
    <3>1. Chain(s) /\ last # Null
      BY <1>3, <2>1 DEF Shape, Unlink
    <3>2. Len(s) \in Nat /\ Len(s) # 0 /\ last = s[1] /\ 1 \in 1..Len(s)
      BY <3>1 DEF Chain
    <3>3. prev[s[1]] = IF 1 = Len(s) THEN Null ELSE s[1 + 1]
      BY <3>1, <3>2 DEF Chain
    <3>4. 1 # Len(s) => 1 + 1 \in 1..Len(s)
      BY <3>2, Neighbours
    <3> QED
      BY <3>2, <3>3, <3>4 DEF Pointers
  <2> QED
    BY <1>3, <2>2 DEF IInv, TypeOK, Unlink, Pointers
<1>4. ASSUME NEW c \in Consumers, Release(c) PROVE TypeOK'
  BY <1>4 DEF IInv, TypeOK, Release, Free, Text, Pointers
<1>5. CASE DropAnnounce
  BY <1>5 DEF IInv, TypeOK, DropAnnounce, cells
<1>6. CASE DropBegin
  BY <1>6 DEF IInv, TypeOK, DropBegin, cells
<1>7. CASE DropStep
  <2>1. PICK s \in Seq(Nodes) : Shape(s)
    BY DEF IInv
  <2>2. l1 \in Nodes /\ next[l1] \in Pointers
    <3>1. Len(s) \in Nat /\ Len(s) # 0 /\ l1 = s[Len(s)] /\ Len(s) \in 1..Len(s)
      BY <1>7, <2>1 DEF Shape, DropStep
    <3>2. next[s[Len(s)]] = IF Len(s) = 1 THEN Null ELSE s[Len(s) - 1]
      BY <2>1, <3>1 DEF Shape
    <3>3. Len(s) # 1 => Len(s) - 1 \in 1..Len(s)
      BY <3>1, Neighbours
    <3> QED
      BY <3>1, <3>2, <3>3 DEF Pointers
  <2> QED
    BY <1>7, <2>2 DEF IInv, TypeOK, DropStep, Free
<1>8. CASE DropEnd
  BY <1>8 DEF IInv, TypeOK, DropEnd, cells
<1> QED
  BY <1>1, <1>2, <1>3, <1>4, <1>5, <1>6, <1>7, <1>8 DEF Next

(* The list after each step.                                                *)
LEMMA LinkedIn ==
  ASSUME Heap, TypeOK, NEW s \in Seq(Nodes), Shape(s), NEW p \in Producers, Link(p)
  PROVE  \E n \in Nodes \ alive : \E m \in Messages :
            /\ value' = [value EXCEPT ![n] = m]
            /\ Append(s, n) \in Seq(Nodes) /\ Shape(Append(s, n))'
<1>1. PICK n \in Nodes \ alive, m \in Messages :
          /\ alive' = alive \cup {n} /\ value' = [value EXCEPT ![n] = m]
          /\ TellFirst(n)
          /\ next' = [next EXCEPT ![n] = first]
          /\ first' = n /\ last' = IF first = Null THEN n ELSE last
  BY DEF Link
<1> DEFINE t == Append(s, n)
<1> DEFINE len == Len(s)
<1>2. /\ t \in Seq(Nodes) /\ len \in Nat /\ Len(t) = len + 1
      /\ t[len + 1] = n /\ \A i \in 1..len : t[i] = s[i] /\ s[i] \in Nodes
  OBVIOUS
<1> HIDE DEF t
<1>3. InUse /\ Chain(s) /\ first = (IF len = 0 THEN Null ELSE s[len])
  BY DEF Link, Shape
<1>4. \A i \in 1..len : s[i] # n /\ s[i] \in Cells(s)
  BY DEF Shape, Cells
<1>5. Taken' = Taken /\ n \notin Taken
  BY DEF Link, Taken, Shape
<1>6. \A i, j \in 1..Len(t) : t[i] = t[j] => i = j
  <2> TAKE i, j \in 1..Len(t)
  <2>1. i = len + 1 \/ i \in 1..len
    BY <1>2
  <2>2. j = len + 1 \/ j \in 1..len
    BY <1>2
  <2> QED
    BY <1>2, <1>4, <2>1, <2>2 DEF Shape
<1>7. Cells(t) = Cells(s) \cup {n}
  <2>1. ASSUME NEW i \in 1..Len(t) PROVE t[i] \in Cells(s) \cup {n}
    <3>1. i = len + 1 \/ i \in 1..len
      BY <1>2
    <3> QED
      BY <1>2, <1>4, <3>1
  <2>2. ASSUME NEW i \in 1..len PROVE s[i] \in Cells(t)
    <3>1. i \in 1..Len(t) /\ t[i] = s[i]
      BY <1>2
    <3> QED
      BY <3>1 DEF Cells
  <2>3. n \in Cells(t)
    <3>1. len + 1 \in 1..Len(t)
      BY <1>2
    <3> QED
      BY <1>2, <3>1 DEF Cells
  <2> QED
    BY <2>1, <2>2, <2>3 DEF Cells
<1>8. \A i \in 1..Len(t) : next'[t[i]] = IF i = 1 THEN Null ELSE t[i - 1]
  <2> TAKE i \in 1..Len(t)
  <2>1. CASE i = len + 1
    <3>1. next'[n] = first
      BY <1>1 DEF TypeOK
    <3>2. len # 0 => len \in 1..len
      BY <1>2
    <3> QED
      BY <1>2, <1>3, <2>1, <3>1, <3>2
  <2>2. CASE i # len + 1
    <3>1. i \in 1..len /\ (i # 1 => i - 1 \in 1..len)
      BY <1>2, <2>2
    <3>2. next'[s[i]] = next[s[i]]
      BY <1>1, <1>2, <1>4, <3>1 DEF TypeOK
    <3> QED
      BY <1>2, <3>1, <3>2 DEF Shape
  <2> QED
    BY <2>1, <2>2
<1>9. \A i \in 1..Len(t) : prev'[t[i]] = IF i = Len(t) THEN Null ELSE t[i + 1]
  <2> TAKE i \in 1..Len(t)
  <2>1. CASE i = len + 1
    <3>1. prev'[n] = Null
      <4>1. n # first
        <5>1. len # 0 => len \in 1..len
          BY <1>2
        <5> QED
          BY <1>3, <1>4, <5>1 DEF Heap
      <4> QED
        BY <1>1, <4>1 DEF TellFirst
    <3> QED
      BY <1>2, <2>1, <3>1
  <2>2. CASE i # len + 1
    <3>1. i \in 1..len /\ i # Len(t) /\ len # 0 /\ len \in 1..len
      BY <1>2, <2>2
    <3>2. CASE i = len
      <4>1. s[i] = first /\ s[i] # n
        BY <1>3, <1>4, <3>1, <3>2
      <4>2. prev'[s[i]] = n
        BY <1>1, <1>2, <3>1, <4>1 DEF TellFirst
      <4> QED
        BY <1>2, <3>1, <3>2, <4>2
    <3>3. CASE i # len
      <4>1. s[i] # first /\ s[i] # n
        BY <1>3, <1>4, <3>1, <3>3 DEF Shape
      <4>2. prev'[s[i]] = prev[s[i]]
        BY <1>1, <1>2, <3>1, <4>1 DEF TellFirst
      <4>3. i + 1 \in 1..len
        BY <1>2, <3>1, <3>3
      <4> QED
        BY <1>2, <1>3, <3>1, <3>3, <4>2, <4>3 DEF Chain
    <3> QED
      BY <3>2, <3>3
  <2> QED
    BY <2>1, <2>2
<1>10. last' = (IF Len(t) = 0 THEN Null ELSE t[1])
  <2>1. len # 0 => 1 \in 1..len /\ len \in 1..len
    BY <1>2
  <2> QED
    BY <1>1, <1>2, <1>3, <2>1 DEF Chain, Heap
<1>11. first' = (IF Len(t) = 0 THEN Null ELSE t[Len(t)])
  BY <1>1, <1>2
<1>12. phase' = phase
  BY DEF Link
<1>13. Shape(t)'
  BY <1>1, <1>3, <1>5, <1>6, <1>7, <1>8, <1>9, <1>10, <1>11, <1>12
  DEF Shape, Chain, InUse
<1> QED
  BY <1>1, <1>2, <1>13 DEF t

LEMMA Unlinked ==
  ASSUME Heap, TypeOK, NEW s \in Seq(Nodes), Shape(s), NEW c \in Consumers, Unlink(c)
  PROVE  /\ s # << >> /\ last = s[1] /\ s[1] \in Nodes
         /\ Tail(s) \in Seq(Nodes) /\ Shape(Tail(s))'
<1> DEFINE t == Tail(s)
<1> DEFINE len == Len(s)
<1>1. InUse /\ Chain(s) /\ first = (IF len = 0 THEN Null ELSE s[len]) /\ last # Null
  BY DEF Unlink, Shape
<1>2. s # << >> /\ last = s[1] /\ len \in Nat /\ len # 0
  <2>1. Len(s) # 0
    BY <1>1 DEF Chain
  <2> QED
    BY <1>1, <2>1 DEF Chain
<1>3. /\ t \in Seq(Nodes) /\ Len(t) = len - 1
      /\ \A i \in 1..Len(t) : t[i] = s[i + 1] /\ i + 1 \in 1..len
      /\ \A i \in 1..len : s[i] \in Nodes /\ s[i] \in Cells(s)
      /\ 1 \in 1..len /\ len \in 1..len /\ s[1] \in Nodes
  <2>1. t \in Seq(Nodes) /\ Len(t) = len - 1 /\ \A i \in 1..Len(t) : t[i] = s[i + 1]
    BY <1>2
  <2>2. \A i \in 1..len : s[i] \in Nodes /\ s[i] \in Cells(s)
    BY DEF Cells
  <2>3. \A i \in 1..(len - 1) : i + 1 \in 1..len
    BY <1>2
  <2>4. 1 \in 1..len /\ len \in 1..len
    BY <1>2
  <2> QED
    BY <2>1, <2>2, <2>3, <2>4
<1> HIDE DEF t
<1>4. l' = [l EXCEPT ![c] = s[1]] /\ l[c] = Null
  BY <1>2 DEF Unlink
<1>5. Taken' = Taken \cup {s[1]}
  <2>1. Null # s[1]
    BY <1>3 DEF Heap
  <2>2. \A d \in Consumers : l'[d] = IF d = c THEN s[1] ELSE l[d]
    BY <1>4 DEF TypeOK
  <2> QED
    BY <1>4, <2>1, <2>2 DEF Taken
<1>6. \A i, j \in 1..Len(t) : t[i] = t[j] => i = j
  <2> TAKE i, j \in 1..Len(t)
  <2>1. t[i] = t[j] => i + 1 = j + 1
    BY <1>3 DEF Shape
  <2> QED
    BY <2>1
<1>7. Cells(t) = Cells(s) \ {s[1]}
  <2>1. ASSUME NEW i \in 1..Len(t) PROVE t[i] \in Cells(s) \ {s[1]}
    <3>1. i + 1 # 1
      BY <1>3
    <3> QED
      BY <1>3, <3>1 DEF Shape
  <2>2. ASSUME NEW i \in 1..len, s[i] # s[1] PROVE s[i] \in Cells(t)
    <3>1. i - 1 \in 1..Len(t) /\ i - 1 + 1 = i
      BY <1>2, <1>3, <2>2
    <3>2. t[i - 1] = s[i]
      BY <1>3, <3>1
    <3> QED
      BY <3>1, <3>2 DEF Cells
  <2> QED
    BY <2>1, <2>2 DEF Cells
<1>8. alive' = alive /\ phase' = phase /\ prev' = prev
  BY DEF Unlink
<1>9. CASE len = 1
  <2>1. first = s[1] /\ Len(t) = 0
    BY <1>1, <1>3, <1>9
  <2>2. first' = Null /\ last' = Null
    BY <1>2, <2>1 DEF Unlink
  <2>3. \A i \in 1..Len(t) : FALSE
    BY <2>1
  <2>4. Shape(t)'
    BY <1>1, <1>3, <1>5, <1>7, <1>8, <2>1, <2>2, <2>3 DEF Shape, Chain, InUse
  <2> QED
    BY <1>2, <1>3, <2>4 DEF t
<1>10. CASE len # 1
  <2>1. first # last /\ first = s[len]
    BY <1>1, <1>2, <1>3, <1>10 DEF Shape
  <2>2. 2 \in 1..len /\ 1 \in 1..Len(t) /\ Len(t) # 0 /\ Len(t) + 1 = len
    BY <1>2, <1>3, <1>10
  <2>3. prev[last] = s[2]
    BY <1>1, <1>2, <1>3, <1>10 DEF Chain
  <2>4. last' = s[2] /\ next' = [next EXCEPT ![s[2]] = Null] /\ first' = first
    BY <2>1, <2>3 DEF Unlink
  <2>5. \A i \in 1..Len(t) : next'[t[i]] = IF i = 1 THEN Null ELSE t[i - 1]
    <3> TAKE i \in 1..Len(t)
    <3>1. CASE i = 1
      <4>1. t[1] = s[2]
        BY <1>3, <2>2
      <4> QED
        BY <1>3, <2>2, <2>4, <3>1, <4>1 DEF TypeOK
    <3>2. CASE i # 1
      <4>1. i - 1 \in 1..Len(t) /\ i + 1 # 2 /\ i - 1 + 1 = i /\ i + 1 - 1 = i /\ i + 1 # 1
        BY <1>3, <3>2
      <4>2. s[i + 1] # s[2] /\ s[i + 1] \in Nodes /\ s[2] \in Nodes
        BY <1>3, <2>2, <4>1 DEF Shape
      <4>3. next'[s[i + 1]] = next[s[i + 1]]
        BY <2>4, <4>2 DEF TypeOK
      <4>4. next[s[i + 1]] = s[i]
        BY <1>3, <4>1 DEF Shape
      <4>5. t[i] = s[i + 1] /\ t[i - 1] = s[i]
        BY <1>3, <4>1
      <4> QED
        BY <3>2, <4>3, <4>4, <4>5
    <3> QED
      BY <3>1, <3>2
  <2>6. \A i \in 1..Len(t) : prev'[t[i]] = IF i = Len(t) THEN Null ELSE t[i + 1]
    <3> TAKE i \in 1..Len(t)
    <3>1. prev[s[i + 1]] = IF i + 1 = len THEN Null ELSE s[i + 1 + 1]
      BY <1>1, <1>3 DEF Chain
    <3>2. i # Len(t) => i + 1 \in 1..Len(t) /\ i + 1 # len
      BY <1>3, <2>2
    <3>3. i = Len(t) => i + 1 = len
      BY <2>2
    <3> QED
      BY <1>3, <1>8, <3>1, <3>2, <3>3
  <2>7. last' = t[1] /\ first' = t[Len(t)]
    <3>1. Len(t) \in 1..Len(t)
      BY <1>2, <1>3, <2>2
    <3> QED
      BY <1>3, <2>1, <2>2, <2>4, <3>1
  <2>8. Shape(t)'
    BY <1>1, <1>3, <1>5, <1>6, <1>7, <1>8, <2>2, <2>5, <2>6, <2>7 DEF Shape, Chain, InUse
  <2> QED
    BY <1>2, <1>3, <2>8 DEF t
<1> QED
  BY <1>9, <1>10

LEMMA Released ==
  ASSUME TypeOK, NoneShared, NEW s \in Seq(Nodes), Shape(s),
         NEW c \in Consumers, Release(c)
  PROVE  Shape(s)'
<1> DEFINE n == l[c]
<1>1. n \in Nodes /\ n \in Taken
  BY DEF Release, TypeOK, Pointers, Taken
<1>2. \A d \in Consumers : l'[d] = IF d = c THEN Null ELSE l[d]
  BY DEF Release, TypeOK
<1>3. Taken' = Taken \ {n}
  BY <1>2 DEF Taken, NoneShared, Release
<1>4. \A i \in 1..Len(s) : s[i] \in Nodes /\ s[i] \in Cells(s) /\ s[i] # n
  BY <1>1 DEF Shape, Cells
<1>5. n \notin Cells(s)
  BY <1>1 DEF Shape
<1>6. /\ next' = [next EXCEPT ![n] = Wild] /\ prev' = [prev EXCEPT ![n] = Wild]
      /\ alive' = alive \ {n}
  BY DEF Release, Free
<1>7. \A i \in 1..Len(s) : next'[s[i]] = next[s[i]] /\ prev'[s[i]] = prev[s[i]]
  BY <1>4, <1>6 DEF TypeOK
<1>8. UNCHANGED <<first, last, l1, phase>>
  BY DEF Release
<1> QED
  BY <1>3, <1>5, <1>6, <1>7, <1>8 DEF Shape, Chain, InUse

(* drop()'s loop frees from the youngest cell on. *)
LEMMA Dropped ==
  ASSUME Heap, TypeOK, NEW s \in Seq(Nodes), Shape(s), DropStep
  PROVE  \E t \in Seq(Nodes) : Shape(t)'
<1> DEFINE len == Len(s)
<1> DEFINE t == [i \in 1..(len - 1) |-> s[i]]
<1>1. l1 = (IF len = 0 THEN Null ELSE s[len]) /\ l1 # Null /\ phase = "dropping"
  BY DEF DropStep, Shape
<1>2. len \in Nat /\ len # 0 /\ l1 = s[len] /\ len \in 1..len /\ s[len] \in Nodes
  BY <1>1
<1>3. len - 1 \in Nat /\ \A i \in 1..(len - 1) : i \in 1..len /\ i # len
  BY <1>2
<1>4. t \in Seq(Nodes) /\ Len(t) = len - 1 /\ \A i \in 1..(len - 1) : t[i] = s[i]
  <2>1. \A i \in 1..(len - 1) : s[i] \in Nodes
    BY <1>3
  <2>2. t \in [1..(len - 1) -> Nodes]
    BY <2>1
  <2> QED
    BY <1>3, <2>2
<1> HIDE DEF t
<1>5. Taken' = Taken
  BY DEF DropStep, Taken
<1>6. \A i \in 1..(len - 1) : s[i] \in Nodes /\ s[i] # s[len]
  BY <1>2, <1>3 DEF Shape
<1>7. Cells(t) = Cells(s) \ {s[len]}
  <2>1. ASSUME NEW i \in 1..len, s[i] # s[len] PROVE s[i] \in Cells(t)
    <3>1. i \in 1..Len(t) /\ t[i] = s[i]
      BY <1>2, <1>4, <2>1
    <3> QED
      BY <3>1 DEF Cells
  <2>2. ASSUME NEW i \in 1..(len - 1) PROVE t[i] \in Cells(s) \ {s[len]}
    BY <1>3, <1>4, <1>6 DEF Cells
  <2> QED
    BY <1>4, <2>1, <2>2 DEF Cells
<1>8. /\ next' = [next EXCEPT ![s[len]] = Wild] /\ alive' = alive \ {s[len]}
      /\ l1' = next[s[len]] /\ phase' = phase
  BY <1>2 DEF DropStep, Free
<1>9. \A i \in 1..(len - 1) : next'[t[i]] = IF i = 1 THEN Null ELSE t[i - 1]
  <2> TAKE i \in 1..(len - 1)
  <2>1. i # 1 => i - 1 \in 1..(len - 1)
    BY <1>3, Neighbours
  <2>2. next'[s[i]] = next[s[i]]
    BY <1>6, <1>8 DEF TypeOK
  <2> QED
    BY <1>3, <1>4, <2>1, <2>2 DEF Shape
<1>10. l1' = (IF len - 1 = 0 THEN Null ELSE t[len - 1])
  <2>1. next[s[len]] = IF len = 1 THEN Null ELSE s[len - 1]
    BY <1>2 DEF Shape
  <2>2. len # 1 => len - 1 \in 1..(len - 1)
    <3> HIDE DEF len
    <3> QED
      BY <1>2, Neighbours
  <2> QED
    BY <1>2, <1>4, <1>8, <2>1, <2>2
<1>11. \A i, j \in 1..(len - 1) : t[i] = t[j] => i = j
  BY <1>3, <1>4 DEF Shape
<1>12. s[len] \notin Taken
  BY <1>2 DEF Shape, Cells
<1>13. Shape(t)'
  BY <1>1, <1>4, <1>5, <1>7, <1>8, <1>9, <1>10, <1>11, <1>12 DEF Shape, InUse
<1> QED
  BY <1>4, <1>13

(* The steps of drop() that move no cell, and none at all. *)
LEMMA Announced ==
  ASSUME NEW s \in Seq(Nodes), Shape(s), Heap,
         DropAnnounce \/ DropBegin \/ DropEnd \/ UNCHANGED vars
  PROVE  Shape(s)'
<1>1. Taken' = Taken
  BY DEF DropAnnounce, DropBegin, DropEnd, vars, Taken
<1>2. UNCHANGED <<first, last, next, prev, alive>>
  BY DEF DropAnnounce, DropBegin, DropEnd, vars, cells
<1>3. CASE DropAnnounce
  BY <1>1, <1>2, <1>3 DEF DropAnnounce, Shape, Chain, InUse
<1>4. CASE DropBegin
  BY <1>1, <1>2, <1>4 DEF DropBegin, Shape, Chain, InUse
<1>5. CASE DropEnd
  <2>1. Len(s) = 0
    <3>1. Len(s) # 0 => s[Len(s)] \in Nodes
      OBVIOUS
    <3> QED
      BY <1>5, <3>1 DEF DropEnd, Shape, Heap
  <2> QED
    BY <1>1, <1>2, <1>5, <2>1 DEF DropEnd, Shape, Chain, InUse
<1>6. CASE UNCHANGED vars
  BY <1>1, <1>2, <1>6 DEF vars, Shape, Chain, InUse
<1> QED
  BY <1>3, <1>4, <1>5, <1>6

(* No get takes a cell that another has. *)
LEMMA NoneSharedKept ==
  ASSUME Heap, IInv, [Next]_vars
  PROVE  NoneShared'
<1>1. ASSUME NEW c \in Consumers, Unlink(c) PROVE NoneShared'
  <2>1. PICK s \in Seq(Nodes) : Shape(s)
    BY DEF IInv
  <2>2. last = s[1] /\ s # << >>
    BY <1>1, <2>1, Unlinked DEF IInv
  <2>3. last \notin Taken
    BY <2>1, <2>2 DEF Shape, Cells
  <2>4. \A d \in Consumers : l'[d] = IF d = c THEN last ELSE l[d]
    BY <1>1 DEF Unlink, IInv, TypeOK
  <2>5. \A d \in Consumers : l[d] = last => last = Null
    BY <2>3 DEF Taken
  <2> QED
    BY <2>4, <2>5 DEF IInv, NoneShared
<1>2. ASSUME NEW c \in Consumers, Release(c) PROVE NoneShared'
  <2>1. \A d \in Consumers : l'[d] = IF d = c THEN Null ELSE l[d]
    BY <1>2 DEF Release, IInv, TypeOK
  <2> QED
    BY <2>1 DEF IInv, NoneShared
<1>3. CASE UNCHANGED l
  BY <1>3 DEF IInv, NoneShared
<1> QED
  BY <1>1, <1>2, <1>3 DEF Next, Link, DropAnnounce, DropBegin, DropStep, DropEnd, vars

LEMMA StepKeeps ==
  ASSUME Heap, IInv, [Next]_vars
  PROVE  IInv'
<1>1. TypeOK' /\ NoneShared'
  BY TypeKept, NoneSharedKept
<1>2. PICK s \in Seq(Nodes) : Shape(s)
  BY DEF IInv
<1>3. TypeOK /\ NoneShared
  BY DEF IInv
<1>4. \E t \in Seq(Nodes) : Shape(t)'
  <2>1. ASSUME NEW p \in Producers, Link(p) PROVE \E t \in Seq(Nodes) : Shape(t)'
    BY <1>2, <1>3, <2>1, LinkedIn
  <2>2. ASSUME NEW c \in Consumers, Unlink(c) PROVE \E t \in Seq(Nodes) : Shape(t)'
    BY <1>2, <1>3, <2>2, Unlinked
  <2>3. ASSUME NEW c \in Consumers, Release(c) PROVE \E t \in Seq(Nodes) : Shape(t)'
    BY <1>2, <1>3, <2>3, Released
  <2>4. CASE DropStep
    BY <1>2, <1>3, <2>4, Dropped
  <2>5. CASE DropAnnounce \/ DropBegin \/ DropEnd \/ UNCHANGED vars
    BY <1>2, <2>5, Announced
  <2> QED
    BY <2>1, <2>2, <2>3, <2>4, <2>5 DEF Next
<1> QED
  BY <1>1, <1>4 DEF IInv

(* What the invariant says of the list. *)
LEMMA ShapeShown ==
  ASSUME Heap, IInv
  PROVE  ListShape /\ DropFreesAll
<1>1. PICK s \in Seq(Nodes) : Shape(s)
  BY DEF IInv
<1>2. ListShape
  <2>1. ASSUME InUse
        PROVE  /\ first = (IF Len(Order) = 0 THEN Null ELSE Order[Len(Order)])
               /\ \A i \in 1..Len(Order) :
                     next[Order[i]] = (IF i = 1 THEN Null ELSE Order[i - 1])
               /\ \A i, j \in 1..Len(Order) : i # j => Order[i] # Order[j]
               /\ Linked \cap Taken = {}
               /\ alive = Linked \cup Taken
    <3>1. Order = s
      BY <1>1, <2>1, OrderIs DEF Shape
    <3>2. Linked = Cells(s)
      BY <3>1 DEF Linked, Cells
    <3> QED
      BY <1>1, <2>1, <3>1, <3>2 DEF Shape
  <2>2. ASSUME phase = "dropping" PROVE l1 \in (alive \ Taken) \cup {Null}
    <3>1. Len(s) # 0 => s[Len(s)] \in Cells(s)
      BY DEF Cells
    <3> QED
      BY <1>1, <2>2, <3>1 DEF Shape
  <2> QED
    BY <2>1, <2>2 DEF ListShape, IInv, NoneShared
<1>3. DropFreesAll
  <2>1. Len(s) = 0 => Cells(s) = {}
    BY DEF Cells
  <2> QED
    BY <1>1, <2>1 DEF Shape, DropFreesAll
<1> QED
  BY <1>2, <1>3

-----------------------------------------------------------------------------
(* The list is a channel: each step is one of MsgChannel's, or none.         *)

Texts(s) == [i \in 1..Len(s) |-> value[s[i]]]

LEMMA BarIs ==
  Heap => \A s \in Seq(Nodes) : Shape(s) /\ InUse => ChannelBar = Texts(s)
<1> SUFFICES ASSUME Heap, NEW s \in Seq(Nodes), Shape(s), InUse
             PROVE  ChannelBar = Texts(s)
  OBVIOUS
<1>1. Order = s
  BY OrderIs DEF Shape
<1> QED
  BY <1>1 DEF ChannelBar, Texts

LEMMA BarIsThen ==
  ASSUME Heap
  PROVE  \A s \in Seq(Nodes) : Shape(s)' /\ InUse' => ChannelBar' = Texts(s)'
<1>1. (Heap => \A s \in Seq(Nodes) : Shape(s) /\ InUse => ChannelBar = Texts(s))'
  BY BarIs, PTL
<1> QED
  BY <1>1 DEF Heap

(* The texts in the hands of gets are the ones they have unlinked.           *)
LEMMA HandsKept ==
  ASSUME IInv, NEW n \in Nodes, n \notin Taken, NEW v, value' = [value EXCEPT ![n] = v],
         l' = l, received' = received
  PROVE  ReceivedBar' = ReceivedBar
<1>1. \A d \in Consumers : l[d] # Null => l[d] \in Nodes /\ l[d] # n
  BY DEF IInv, TypeOK, Pointers, Taken
<1>2. \A d \in Consumers : l[d] # Null => value'[l[d]] = value[l[d]]
  BY <1>1 DEF IInv, TypeOK
<1> QED
  BY <1>2 DEF ReceivedBar

LEMMA LinkAccepts ==
  ASSUME Heap, IInv, NEW p \in Producers, Link(p)
  PROVE  \E m \in Messages : Channel!Accept(p, m)
<1>1. PICK s \in Seq(Nodes) : Shape(s)
  BY DEF IInv
<1>2. TypeOK
  BY DEF IInv
<1>3. PICK n \in Nodes \ alive, m \in Messages :
          /\ value' = [value EXCEPT ![n] = m]
          /\ Append(s, n) \in Seq(Nodes) /\ Shape(Append(s, n))'
  BY <1>1, <1>2, LinkedIn
<1> DEFINE t == Append(s, n)
<1>4. /\ t \in Seq(Nodes) /\ Len(s) \in Nat /\ Len(t) = Len(s) + 1
      /\ t[Len(s) + 1] = n /\ \A i \in 1..Len(s) : t[i] = s[i] /\ s[i] \in Nodes
  BY <1>3
<1>5. Shape(t)'
  BY <1>3
<1> HIDE DEF t
<1>6. InUse /\ UNCHANGED <<l, received, l1, phase>> /\ InUse'
  BY DEF Link, InUse
<1>7. ChannelBar = Texts(s) /\ ChannelBar' = Texts(t)'
  BY <1>1, <1>4, <1>5, <1>6, BarIs, BarIsThen
<1>8. Len(Texts(s)) < Cardinality(Nodes)
  <2>1. \A i, j \in 1..Len(t) : t[i] = t[j] => i = j
    BY <1>5 DEF Shape
  <2>2. Len(t) <= Cardinality(Nodes)
    BY <1>4, <2>1, NotTooLong
  <2>3. Len(Texts(s)) = Len(s)
    BY <1>4 DEF Texts
  <2>4. Cardinality(Nodes) \in Nat
    BY FS_CardinalityType DEF Heap
  <2> QED
    BY <1>4, <2>2, <2>3, <2>4
<1>9. Texts(t)' = Append(Texts(s), m)
  <2>1. \A i \in 1..Len(s) : s[i] # n
    BY <1>1, <1>3 DEF Shape, Cells
  <2>2. \A i \in 1..Len(s) : value'[t[i]] = value[s[i]]
    BY <1>2, <1>3, <1>4, <2>1 DEF TypeOK
  <2>3. value'[t[Len(s) + 1]] = m
    BY <1>2, <1>3, <1>4 DEF TypeOK
  <2> DEFINE new == Texts(t)'
  <2> DEFINE old == Texts(s)
  <2>4. new = [i \in 1..(Len(s) + 1) |-> value'[t[i]]]
    BY <1>4 DEF Texts
  <2>5. old = [i \in 1..Len(s) |-> value[s[i]]]
    BY DEF Texts
  <2>6. old \in Seq(Messages \cup {NoMessage}) /\ Len(old) = Len(s)
    <3>1. \A i \in 1..Len(s) : value[s[i]] \in Messages \cup {NoMessage}
      BY <1>2, <1>4 DEF TypeOK
    <3>2. old \in [1..Len(s) -> Messages \cup {NoMessage}]
      BY <2>5, <3>1
    <3> QED
      BY <1>4, <2>5, <3>2
  <2> HIDE DEF new, old
  <2>7. Append(old, m) = [i \in 1..(Len(s) + 1) |-> IF i = Len(s) + 1 THEN m ELSE old[i]]
    <3> DEFINE longer == Append(old, m)
    <3>1. /\ longer \in Seq(Messages \cup {NoMessage}) /\ Len(longer) = Len(old) + 1
          /\ \A i \in 1..Len(old) : longer[i] = old[i]
          /\ longer[Len(old) + 1] = m
      BY <2>6, AppendProperties
    <3> HIDE DEF longer
    <3>2. longer = [i \in 1..(Len(s) + 1) |-> longer[i]]
      BY <2>6, <3>1
    <3>3. \A i \in 1..(Len(s) + 1) :
             longer[i] = IF i = Len(s) + 1 THEN m ELSE old[i]
      <4> TAKE i \in 1..(Len(s) + 1)
      <4>1. i = Len(s) + 1 \/ i \in 1..Len(s)
        BY <1>4
      <4> QED
        BY <1>4, <2>6, <3>1, <4>1
    <3>4. longer = [i \in 1..(Len(s) + 1) |-> IF i = Len(s) + 1 THEN m ELSE old[i]]
      BY <3>2, <3>3
    <3> QED
      BY <3>4 DEF longer
  <2>8. \A i \in 1..(Len(s) + 1) :
           value'[t[i]] = IF i = Len(s) + 1 THEN m ELSE old[i]
    <3> TAKE i \in 1..(Len(s) + 1)
    <3>1. i = Len(s) + 1 \/ i \in 1..Len(s)
      BY <1>4
    <3> QED
      BY <1>4, <2>2, <2>3, <2>5, <3>1
  <2>9. new = Append(old, m)
    BY <2>4, <2>7, <2>8
  <2> QED
    BY <2>9 DEF new, old
<1>10. ReceivedBar' = ReceivedBar
  <2>1. n \notin Taken
    BY <1>1, <1>3 DEF Shape
  <2> QED
    BY <1>3, <1>6, <2>1, HandsKept
<1>11. PhaseBar # "shut" /\ PhaseBar' = PhaseBar
  BY <1>6 DEF PhaseBar, InUse
<1> QED
  BY <1>7, <1>8, <1>9, <1>10, <1>11 DEF Channel!Accept

LEMMA UnlinkDelivers ==
  ASSUME Heap, IInv, NEW c \in Consumers, Unlink(c)
  PROVE  Channel!Deliver(c)
<1>1. PICK s \in Seq(Nodes) : Shape(s)
  BY DEF IInv
<1>2. TypeOK
  BY DEF IInv
<1> DEFINE t == Tail(s)
<1>3. s # << >> /\ last = s[1] /\ s[1] \in Nodes /\ t \in Seq(Nodes) /\ Shape(t)'
  BY <1>1, <1>2, Unlinked
<1>4. Len(t) = Len(s) - 1 /\ \A i \in 1..Len(t) : t[i] = s[i + 1]
  BY <1>3
<1> HIDE DEF t
<1>5. InUse /\ UNCHANGED <<value, received, phase>> /\ InUse'
  BY DEF Unlink, InUse
<1>6. ChannelBar = Texts(s) /\ ChannelBar' = Texts(t)'
  BY <1>1, <1>3, <1>5, BarIs, BarIsThen
<1> DEFINE old == Texts(s)
<1>7. /\ old = [i \in 1..Len(s) |-> value[s[i]]]
      /\ old \in Seq(Messages \cup {NoMessage}) /\ Len(old) = Len(s) /\ old # << >>
      /\ Head(old) = value[s[1]]
  <2>1. old = [i \in 1..Len(s) |-> value[s[i]]]
    BY DEF Texts
  <2>2. \A i \in 1..Len(s) : value[s[i]] \in Messages \cup {NoMessage}
    BY <1>2 DEF TypeOK
  <2>3. old \in [1..Len(s) -> Messages \cup {NoMessage}]
    BY <2>1, <2>2
  <2>4. Len(s) \in Nat /\ 1 \in 1..Len(s)
    BY <1>3
  <2> HIDE DEF old
  <2>5. old \in Seq(Messages \cup {NoMessage}) /\ Len(old) = Len(s)
    BY <2>1, <2>3, <2>4
  <2> QED
    BY <2>1, <2>4, <2>5
<1>8. Texts(t)' = Tail(old)
  <2>1. Texts(t)' = [i \in 1..(Len(s) - 1) |-> value[t[i]]]
    BY <1>4, <1>5 DEF Texts
  <2>2. Tail(old) = [i \in 1..(Len(s) - 1) |-> old[i + 1]]
    <3> HIDE DEF old
    <3> QED
      BY <1>7
  <2>3. \A i \in 1..(Len(s) - 1) : value[t[i]] = old[i + 1]
    <3> TAKE i \in 1..(Len(s) - 1)
    <3>1. i + 1 \in 1..Len(s)
      BY <1>3
    <3> HIDE DEF old
    <3> QED
      BY <1>4, <1>7, <3>1
  <2> HIDE DEF old
  <2> QED
    BY <2>1, <2>2, <2>3
<1>9. ReceivedBar' = [ReceivedBar EXCEPT ![c] = value[s[1]]]
  <2>1. l[c] = Null /\ \A d \in Consumers : l'[d] = IF d = c THEN s[1] ELSE l[d]
    BY <1>2, <1>3 DEF Unlink, TypeOK
  <2>2. s[1] # Null
    BY <1>3 DEF Heap
  <2> QED
    BY <1>5, <2>1, <2>2 DEF ReceivedBar
<1>10. PhaseBar # "shut" /\ PhaseBar' = PhaseBar
  BY <1>5 DEF PhaseBar, InUse
<1> QED
  BY <1>6, <1>7, <1>8, <1>9, <1>10 DEF Channel!Deliver

(* A get that frees its node hands nothing over: it has the text already.    *)
LEMMA ReleaseStutters ==
  ASSUME Heap, IInv, NEW c \in Consumers, Release(c)
  PROVE  UNCHANGED <<ChannelBar, ReceivedBar, PhaseBar>>
<1>1. PICK s \in Seq(Nodes) : Shape(s)
  BY DEF IInv
<1>2. TypeOK /\ NoneShared
  BY DEF IInv
<1>3. Shape(s)'
  BY <1>1, <1>2, Released
<1>4. phase' = phase /\ l[c] \in Nodes /\ l[c] \in Taken
  BY <1>2 DEF Release, TypeOK, Pointers, Taken
<1>5. \A n \in Nodes : n # l[c] => value'[n] = value[n]
  BY <1>2 DEF Release, Free, TypeOK
<1>6. \A i \in 1..Len(s) : s[i] \in Nodes /\ s[i] # l[c]
  BY <1>1, <1>4 DEF Shape, Cells
<1>7. Texts(s)' = Texts(s)
  BY <1>5, <1>6 DEF Texts
<1>8. ChannelBar' = ChannelBar
  <2>1. CASE InUse
    <3>1. InUse'
      BY <1>4, <2>1 DEF InUse
    <3> QED
      BY <1>1, <1>3, <1>7, <2>1, <3>1, BarIs, BarIsThen
  <2>2. CASE ~InUse
    BY <1>4, <2>2 DEF InUse, ChannelBar
  <2> QED
    BY <2>1, <2>2
<1>9. ReceivedBar' = ReceivedBar
  <2>1. \A d \in Consumers : /\ l'[d] = IF d = c THEN Null ELSE l[d]
                             /\ received'[d] = IF d = c THEN value[l[c]] ELSE received[d]
    BY <1>2 DEF Release, Text, TypeOK
  <2>2. \A d \in Consumers : d # c /\ l[d] # Null => l[d] \in Nodes /\ l[d] # l[c]
    BY <1>2 DEF TypeOK, Pointers, NoneShared, Release
  <2>3. l[c] # Null
    BY DEF Release
  <2> QED
    BY <1>5, <2>1, <2>2, <2>3 DEF ReceivedBar
<1> QED
  BY <1>4, <1>8, <1>9 DEF PhaseBar

LEMMA DropStepStutters ==
  ASSUME Heap, IInv, DropStep
  PROVE  UNCHANGED <<ChannelBar, ReceivedBar, PhaseBar>>
<1>1. PICK s \in Seq(Nodes) : Shape(s)
  BY DEF IInv
<1>2. phase = "dropping" /\ phase' = phase
  BY DEF DropStep
<1>3. l1 \in Nodes /\ l1 \notin Taken
  <2>1. Len(s) # 0 /\ l1 = s[Len(s)] /\ Len(s) \in 1..Len(s)
    BY <1>1 DEF DropStep, Shape
  <2> QED
    BY <1>1, <2>1 DEF Shape, Cells
<1>4. ReceivedBar' = ReceivedBar
  BY <1>3, HandsKept DEF DropStep, Free
<1> QED
  BY <1>2, <1>4 DEF ChannelBar, PhaseBar, InUse

(* What changes no cell, or nothing at all. *)
LEMMA AnnouncedTexts ==
  ASSUME Heap, IInv, DropAnnounce \/ DropBegin \/ DropEnd \/ UNCHANGED vars
  PROVE  /\ ReceivedBar' = ReceivedBar
         /\ InUse /\ InUse' => ChannelBar' = ChannelBar
<1>1. PICK s \in Seq(Nodes) : Shape(s)
  BY DEF IInv
<1>2. Shape(s)'
  BY <1>1, Announced
<1>3. UNCHANGED <<l, received, value>>
  BY DEF DropAnnounce, DropBegin, DropEnd, vars, cells
<1>4. Texts(s)' = Texts(s)
  BY <1>3 DEF Texts
<1>5. InUse /\ InUse' => ChannelBar' = ChannelBar
  BY <1>1, <1>2, <1>4, BarIs, BarIsThen
<1> QED
  BY <1>3, <1>5 DEF ReceivedBar

LEMMA ChannelInitially == Heap /\ Init => Channel!Init
<1> SUFFICES ASSUME Heap, Init PROVE Channel!Init
  OBVIOUS
<1>1. << >> \in Seq(Nodes) /\ Len(<< >>) = 0
  OBVIOUS
<1>2. Shape(<< >>) /\ InUse
  BY <1>1 DEF Init, Shape, Chain, Cells, Taken, InUse
<1>3. ChannelBar = Texts(<< >>)
  BY <1>1, <1>2, BarIs
<1>4. ChannelBar = << >>
  BY <1>1, <1>3 DEF Texts
<1> QED
  BY <1>4 DEF Init, Channel!Init, ReceivedBar, PhaseBar

LEMMA ChannelStep ==
  ASSUME Heap, IInv, [Next]_vars
  PROVE  [Channel!Next]_<<ChannelBar, ReceivedBar, PhaseBar, {}>>
<1>1. ASSUME NEW p \in Producers, Link(p) PROVE Channel!Next
  BY <1>1, LinkAccepts DEF Channel!Next
<1>2. ASSUME NEW c \in Consumers, Unlink(c) PROVE Channel!Next
  BY <1>2, UnlinkDelivers DEF Channel!Next
<1>3. ASSUME NEW c \in Consumers, Release(c)
      PROVE  UNCHANGED <<ChannelBar, ReceivedBar, PhaseBar>>
  BY <1>3, ReleaseStutters
<1>4. CASE DropStep
  BY <1>4, DropStepStutters
<1>5. CASE DropAnnounce
  <2>1. InUse /\ InUse' /\ PhaseBar = "open" /\ PhaseBar' = "shutting"
    BY <1>5 DEF DropAnnounce, InUse, PhaseBar
  <2>2. Channel!StartShutting
    BY <1>5, <2>1, AnnouncedTexts DEF Channel!StartShutting
  <2> QED
    BY <2>2 DEF Channel!Next
<1>6. CASE DropBegin
  <2>1. PhaseBar = "shutting" /\ PhaseBar' = "shut" /\ ChannelBar' = << >>
    BY <1>6 DEF DropBegin, InUse, PhaseBar, ChannelBar
  <2>2. Channel!Shut
    BY <1>6, <2>1, AnnouncedTexts DEF Channel!Shut
  <2> QED
    BY <2>2 DEF Channel!Next
<1>7. CASE DropEnd
  <2>1. PhaseBar' = PhaseBar /\ ChannelBar' = ChannelBar
    BY <1>7 DEF DropEnd, InUse, PhaseBar, ChannelBar
  <2> QED
    BY <1>7, <2>1, AnnouncedTexts
<1>8. CASE UNCHANGED vars
  <2>1. PhaseBar' = PhaseBar /\ InUse' = InUse
    BY <1>8 DEF vars, PhaseBar, InUse
  <2>2. ChannelBar' = ChannelBar
    <3>1. CASE InUse
      BY <1>8, <2>1, <3>1, AnnouncedTexts
    <3>2. CASE ~InUse
      BY <2>1, <3>2 DEF ChannelBar
    <3> QED
      BY <3>1, <3>2
  <2> QED
    BY <1>8, <2>1, <2>2, AnnouncedTexts
<1> QED
  BY <1>1, <1>2, <1>3, <1>4, <1>5, <1>6, <1>7, <1>8 DEF Next

-----------------------------------------------------------------------------
(* The theorems *)

(* myMsgQueue.cpp of lab23 and lab24: the list leads through the same cells  *)
(* in both directions, nothing linked or held by a get is freed, and nothing *)
(* allocated is forgotten.                                                   *)
THEOREM ShapeKept ==
  ASSUME Heap
  PROVE  Spec => [](ListShape /\ DropFreesAll)
BY Initially, StepKeeps, ShapeShown, PTL DEF Spec

(* myMsgQueue.cpp of lab23 and lab24: texts come out in the order in which   *)
(* they went in, each once and unaltered.                                    *)
THEOREM ListIsChannel ==
  ASSUME Heap
  PROVE  Spec => FifoList
<1>1. Init => Channel!Init /\ IInv
  BY ChannelInitially, Initially
<1>2. IInv /\ [Next]_vars => IInv' /\ [Channel!Next]_<<ChannelBar, ReceivedBar, PhaseBar, {}>>
  BY StepKeeps, ChannelStep
<1> QED
  BY <1>1, <1>2, PTL DEF Spec, FifoList, Channel!Spec, Channel!channelVars

=============================================================================
