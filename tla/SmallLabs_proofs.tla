-------------------------- MODULE SmallLabs_proofs --------------------------
(***************************************************************************)
(* The safety of the small programs for any number of lines, threads,      *)
(* blocks and parts.  Of each program an inductive invariant is proved as  *)
(* if it ran alone; the state of the others stays as it was.               *)
(***************************************************************************)
EXTENDS SmallLabs, FiniteSetTheorems, SequenceTheorems, TLAPS

-----------------------------------------------------------------------------
(* lab22 *)

(* What the ab thread holds: nothing once it has ended.                     *)
HandOK ==
    /\ maker["ab"] = "wait_a" => hand = {}
    /\ maker["ab"] = "wait_b" => hand = {"a"}
    /\ maker["ab"] = "post" => hand = {"a", "b"}
    /\ maker["ab"] = "over" => hand = {}
    /\ "b" \in hand => "a" \in hand

(* PartsAccounted kind by kind, with no cardinality.                        *)
Held(p) == IF p \in hand THEN 1 ELSE 0
Loss(p) == made[p] - stock[p] - Held(p) - made["ab"]
KindsAccounted ==
    /\ Loss("a") \in 0..1 /\ Loss("b") \in 0..1 /\ Loss("b") <= Loss("a")
    /\ maker["ab"] # "over" => Loss("a") = 0
    /\ made["ab"] = stock["ab"] + (IF main = "wait_c" THEN 1 ELSE 0) + crews
    /\ made["c"] = stock["c"] + crews

WidgetTypes ==
    /\ stock \in [Widget!Kinds -> Int]
    /\ made \in [Widget!Kinds -> Int]
    /\ maker \in [Widget!Kinds -> {"sleep", "post", "wait_a", "wait_b", "failed",
                                   "cancelling", "over"}]
    /\ crews \in Int

WidgetInv == WidgetTypes /\ HandOK /\ KindsAccounted

LEMMA WidgetNumbers ==
  WidgetInv => \A k \in {"a", "b", "c", "ab"} :
                  stock[k] \in Int /\ made[k] \in Int /\ Held(k) \in 0..1
BY DEF WidgetInv, WidgetTypes, Widget!Kinds, Widget!Parts, Held

LEMMA AllKinds == Widget!Kinds = {"a", "b", "c", "ab"}
BY DEF Widget!Kinds, Widget!Parts

LEMMA WidgetInit == Widget!Init => WidgetInv
<1> SUFFICES ASSUME Widget!Init PROVE WidgetInv
  OBVIOUS
<1>1. /\ stock = [k \in Widget!Kinds |-> 0] /\ made = [k \in Widget!Kinds |-> 0]
      /\ maker = [k \in Widget!Kinds |-> IF k = "ab" THEN "wait_a" ELSE "sleep"]
      /\ main = "wait_ab" /\ crews = 0 /\ hand = {}
  BY DEF Widget!Init
<1>2. WidgetTypes
  BY <1>1 DEF WidgetTypes
<1>3. HandOK
  BY <1>1, AllKinds DEF HandOK
<1>4. /\ stock["a"] = 0 /\ stock["b"] = 0 /\ stock["c"] = 0 /\ stock["ab"] = 0
      /\ made["a"] = 0 /\ made["b"] = 0 /\ made["c"] = 0 /\ made["ab"] = 0
  BY <1>1, AllKinds
<1>5. KindsAccounted
  BY <1>1, <1>4 DEF KindsAccounted, Loss, Held
<1> QED
  BY <1>2, <1>3, <1>5 DEF WidgetInv

(* A part is posted: one more made and one more in stock; a piece of a and b *)
(* leaves the hand as it enters the stock.                                   *)
LEMMA PostKeeps ==
  ASSUME WidgetInv, NEW k \in Widget!Kinds, Widget!Post(k)
  PROVE  WidgetInv'
<1>1. /\ stock' = [stock EXCEPT ![k] = stock[k] + 1]
      /\ made' = [made EXCEPT ![k] = made[k] + 1]
      /\ maker' = [maker EXCEPT ![k] = IF k = "ab" THEN "wait_a" ELSE "sleep"]
      /\ hand' = (IF k = "ab" THEN {} ELSE hand)
      /\ main' = main /\ crews' = crews /\ maker[k] = "post"
  BY DEF Widget!Post
<1>2. WidgetTypes'
  BY <1>1 DEF WidgetInv, WidgetTypes
<1>3. HandOK'
  BY <1>1, AllKinds DEF WidgetInv, WidgetTypes, HandOK
<1>4. KindsAccounted'
  <2>1. CASE k = "ab"
    <3>1. /\ \A q \in {"a", "b"} :
                stock'[q] = stock[q] /\ made'[q] = made[q] /\ Held(q) = 1 /\ Held(q)' = 0
          /\ stock'["ab"] = stock["ab"] + 1 /\ made'["ab"] = made["ab"] + 1
          /\ stock'["c"] = stock["c"] /\ made'["c"] = made["c"]
          /\ maker["ab"] # "over"
      BY <1>1, <2>1, AllKinds DEF WidgetInv, WidgetTypes, HandOK, Held
    <3>2. Loss("a")' = Loss("a") /\ Loss("b")' = Loss("b")
      BY <3>1, WidgetNumbers DEF Loss
    <3>3. /\ made'["ab"] = stock'["ab"] + (IF main' = "wait_c" THEN 1 ELSE 0) + crews'
          /\ made'["c"] = stock'["c"] + crews'
      BY <1>1, <3>1, WidgetNumbers DEF WidgetInv, WidgetTypes, KindsAccounted
    <3> QED
      BY <3>1, <3>2, <3>3 DEF WidgetInv, KindsAccounted
  <2>2. CASE k # "ab"
    <3>1. \A q \in {"a", "b", "c", "ab"} :
             /\ stock'[q] = stock[q] + (IF q = k THEN 1 ELSE 0)
             /\ made'[q] = made[q] + (IF q = k THEN 1 ELSE 0)
             /\ Held(q)' = Held(q)
      BY <1>1, <2>2, AllKinds DEF WidgetInv, WidgetTypes, Held
    <3>2. Loss("a")' = Loss("a") /\ Loss("b")' = Loss("b")
      BY <2>2, <3>1, WidgetNumbers DEF Loss
    <3>3. maker'["ab"] = maker["ab"]
      BY <1>1, <2>2, AllKinds DEF WidgetInv, WidgetTypes
    <3>4. /\ made'["ab"] = stock'["ab"] + (IF main' = "wait_c" THEN 1 ELSE 0) + crews'
          /\ made'["c"] = stock'["c"] + crews'
      BY <1>1, <2>2, <3>1, WidgetNumbers DEF WidgetInv, WidgetTypes, KindsAccounted
    <3> QED
      BY <3>2, <3>3, <3>4 DEF WidgetInv, KindsAccounted
  <2> QED
    BY <2>1, <2>2
<1> QED
  BY <1>2, <1>3, <1>4 DEF WidgetInv

(* A part goes from the stock into the hand that is empty of it.            *)
LEMMA TakeKeeps ==
  ASSUME WidgetInv, NEW p \in {"a", "b"}, Widget!Take(p)
  PROVE  WidgetInv'
<1>1. /\ maker["ab"] = (IF p = "a" THEN "wait_a" ELSE "wait_b")
      /\ stock' = [stock EXCEPT ![p] = stock[p] - 1]
      /\ hand' = hand \cup {p}
      /\ maker' = [maker EXCEPT !["ab"] = IF p = "a" THEN "wait_b" ELSE "post"]
      /\ main' = main /\ made' = made /\ crews' = crews
  BY DEF Widget!Take
<1>2. WidgetTypes'
  BY <1>1, AllKinds DEF WidgetInv, WidgetTypes
<1>3. HandOK'
  BY <1>1, AllKinds DEF WidgetInv, WidgetTypes, HandOK
<1>4. KindsAccounted'
  <2>1. /\ \A q \in {"a", "b", "c", "ab"} :
             /\ stock'[q] = stock[q] - (IF q = p THEN 1 ELSE 0)
             /\ Held(q)' = Held(q) + (IF q = p THEN 1 ELSE 0)
             /\ made'[q] = made[q]
        /\ maker["ab"] # "over"
    BY <1>1, AllKinds DEF WidgetInv, WidgetTypes, HandOK, Held
  <2>2. Loss("a")' = Loss("a") /\ Loss("b")' = Loss("b")
    BY <2>1, WidgetNumbers DEF Loss
  <2>3. /\ made'["ab"] = stock'["ab"] + (IF main' = "wait_c" THEN 1 ELSE 0) + crews'
        /\ made'["c"] = stock'["c"] + crews'
    BY <1>1, <2>1, WidgetNumbers DEF WidgetInv, WidgetTypes, KindsAccounted
  <2> QED
    BY <2>1, <2>2, <2>3 DEF WidgetInv, KindsAccounted
<1> QED
  BY <1>2, <1>3, <1>4 DEF WidgetInv

(* main takes an ab and a c, which are then a finished piece.               *)
LEMMA ScrewKeeps ==
  ASSUME WidgetInv, Widget!create_screw
  PROVE  WidgetInv'
<1>1. /\ hand' = hand /\ made' = made /\ maker' = maker
      /\ \/ /\ main = "wait_ab" /\ main' = "wait_c" /\ crews' = crews
            /\ stock' = [stock EXCEPT !["ab"] = stock["ab"] - 1]
         \/ /\ main = "wait_c" /\ main' = "wait_ab" /\ crews' = crews + 1
            /\ stock' = [stock EXCEPT !["c"] = stock["c"] - 1]
  BY DEF Widget!create_screw, Widget!TakeAB, Widget!TakeC
<1>2. WidgetTypes'
  BY <1>1, AllKinds DEF WidgetInv, WidgetTypes
<1>3. HandOK'
  BY <1>1 DEF WidgetInv, HandOK
<1>4. KindsAccounted'
  <2>1. /\ stock'["a"] = stock["a"] /\ stock'["b"] = stock["b"]
        /\ Held("a")' = Held("a") /\ Held("b")' = Held("b")
    BY <1>1, AllKinds DEF WidgetInv, WidgetTypes, Held
  <2>2. Loss("a")' = Loss("a") /\ Loss("b")' = Loss("b")
    BY <1>1, <2>1 DEF Loss
  <2>3. \/ /\ main = "wait_ab" /\ main' = "wait_c" /\ crews' = crews
           /\ stock'["ab"] = stock["ab"] - 1 /\ stock'["c"] = stock["c"]
        \/ /\ main = "wait_c" /\ main' = "wait_ab" /\ crews' = crews + 1
           /\ stock'["c"] = stock["c"] - 1 /\ stock'["ab"] = stock["ab"]
    BY <1>1, AllKinds DEF WidgetInv, WidgetTypes
  <2>4. /\ made'["ab"] = stock'["ab"] + (IF main' = "wait_c" THEN 1 ELSE 0) + crews'
        /\ made'["c"] = stock'["c"] + crews'
    BY <1>1, <2>3, WidgetNumbers DEF WidgetInv, WidgetTypes, KindsAccounted
  <2> QED
    BY <1>1, <2>2, <2>4 DEF WidgetInv, KindsAccounted
<1> QED
  BY <1>2, <1>3, <1>4 DEF WidgetInv

(* A thread that falls asleep, fails or cancels keeps all it holds, until it *)
(* ends; then the ab thread, and no other, lets go of it.                    *)
LEMMA RestKeeps ==
  ASSUME WidgetInv, NEW k \in Widget!Kinds,
         \/ Widget!Sleep(k) \/ Widget!PostFails(k)
         \/ Widget!cancel_all_threads(k) \/ Widget!Cancelled(k)
  PROVE  WidgetInv'
<1>1. /\ stock' = stock /\ made' = made /\ main' = main /\ crews' = crews
      /\ \/ k \in Widget!Parts /\ maker' = [maker EXCEPT ![k] = "post"] /\ hand' = hand
         \/ \E to \in {"failed", "cancelling"} :
               maker' = [maker EXCEPT ![k] = to] /\ hand' = hand
         \/ /\ maker' = [maker EXCEPT ![k] = "over"] /\ maker[k] # "over"
            /\ hand' = IF k = "ab" THEN {} ELSE hand
      /\ maker[k] # "over"
  BY DEF Widget!Sleep, Widget!PostFails, Widget!cancel_all_threads, Widget!Cancelled,
         Widget!Drops
<1>2. WidgetTypes'
  BY <1>1, AllKinds DEF WidgetInv, WidgetTypes
<1>3. HandOK'
  BY <1>1, AllKinds DEF WidgetInv, WidgetTypes, HandOK, Widget!Parts
<1>4. KindsAccounted'
  <2>1. CASE hand' = hand
    BY <1>1, <2>1, AllKinds DEF WidgetInv, WidgetTypes, KindsAccounted, Loss, Held
  <2>2. CASE k = "ab" /\ hand' = {}
    <3>1. Loss("a") = 0 /\ Loss("b") = 0
      BY <1>1, <2>2 DEF WidgetInv, KindsAccounted
    <3>2. /\ Loss("a")' = Loss("a") + Held("a")
          /\ Loss("b")' = Loss("b") + Held("b")
      BY <1>1, <2>2, AllKinds DEF WidgetInv, WidgetTypes, Loss, Held
    <3>3. Held("a") \in 0..1 /\ Held("b") \in 0..1 /\ Held("b") <= Held("a")
      BY DEF WidgetInv, HandOK, Held
    <3>4. Loss("a")' \in 0..1 /\ Loss("b")' \in 0..1 /\ Loss("b")' <= Loss("a")'
      BY <3>1, <3>2, <3>3
    <3>5. maker'["ab"] # "over" => Loss("a")' = 0
      <4>1. maker'["ab"] # "over" => maker'["ab"] \in {"failed", "cancelling"} /\ hand' = hand
        BY <1>1, <2>2, AllKinds DEF WidgetInv, WidgetTypes, Widget!Parts
      <4>2. hand' = hand => Held("a") = 0
        BY <2>2 DEF Held
      <4> QED
        BY <3>1, <3>2, <4>1, <4>2
    <3> QED
      BY <1>1, <3>4, <3>5 DEF WidgetInv, KindsAccounted
  <2> QED
    BY <1>1, <2>1, <2>2
<1> QED
  BY <1>2, <1>3, <1>4 DEF WidgetInv

LEMMA WidgetStep == WidgetInv /\ Widget!Next => WidgetInv'
<1> SUFFICES ASSUME WidgetInv, Widget!Next PROVE WidgetInv'
  OBVIOUS
<1>1. CASE Widget!create_screw
  BY <1>1, ScrewKeeps
<1>2. CASE Widget!create_ab
  BY <1>2, TakeKeeps DEF Widget!create_ab
<1>3. ASSUME NEW k \in Widget!Kinds, Widget!Thread(k) PROVE WidgetInv'
  BY <1>3, PostKeeps, RestKeeps DEF Widget!Thread
<1> QED
  BY <1>1, <1>2, <1>3 DEF Widget!Next

LEMMA WidgetRest == WidgetInv /\ UNCHANGED widgets => WidgetInv'
BY DEF WidgetInv, WidgetTypes, HandOK, KindsAccounted, Loss, Held, widgets

(* A hand holds one part of a kind or none.                                 *)
LEMMA HandCount ==
  ASSUME NEW h, NEW p
  PROVE  Cardinality(h \cap {p}) = IF p \in h THEN 1 ELSE 0
<1>1. CASE p \in h
  <2>1. h \cap {p} = {p}
    BY <1>1
  <2> QED
    BY <1>1, <2>1, FS_Singleton
<1>2. CASE p \notin h
  <2>1. h \cap {p} = {}
    BY <1>2
  <2> QED
    BY <1>2, <2>1, FS_EmptySet
<1> QED
  BY <1>1, <1>2

LEMMA WidgetCardinality == \A h : Widget!Cardinality(h) = Cardinality(h)
BY DEF Cardinality, Widget!Cardinality

LEMMA WidgetInvImplies == WidgetInv => PartsAccounted
<1> SUFFICES ASSUME WidgetInv PROVE Widget!PartsAccounted
  BY DEF PartsAccounted
<1>1. ASSUME NEW p \in {"a", "b"} PROVE Widget!Missing(p) = Loss(p) /\ Loss(p) \in Int
  <2>1. Widget!Cardinality(hand \cap {p}) = Held(p)
    BY HandCount, WidgetCardinality DEF Held
  <2>2. /\ made[p] \in Int /\ stock[p] \in Int /\ made["ab"] \in Int /\ Held(p) \in Int
    BY AllKinds DEF WidgetInv, WidgetTypes, Held
  <2> QED
    BY <2>1, <2>2 DEF Widget!Missing, Loss
<1>2. KindsAccounted
  BY DEF WidgetInv
<1>3. Widget!Missing("a") \in 0..1 /\ Widget!Missing("b") \in 0..Widget!Missing("a")
  BY <1>1, <1>2 DEF KindsAccounted
<1> QED
  BY <1>1, <1>2, <1>3 DEF KindsAccounted, Widget!PartsAccounted

-----------------------------------------------------------------------------
(* Lines printed *)

Both == {"main", "child"}
Lasts == printed[Len(printed)]
CountIn(s, p) == Cardinality({i \in DOMAIN s : s[i] = p})

(* One more line is one more of its party and none of the other.            *)
LEMMA CountAppend ==
  ASSUME NEW s \in Seq(Both), NEW p \in Both, NEW q \in Both
  PROVE  /\ CountIn(s, q) \in Nat
         /\ CountIn(Append(s, p), q) = CountIn(s, q) + (IF p = q THEN 1 ELSE 0)
<1> DEFINE old == {i \in DOMAIN s : s[i] = q}
           new == {i \in DOMAIN Append(s, p) : Append(s, p)[i] = q}
<1>1. /\ Len(s) \in Nat /\ DOMAIN s = 1..Len(s)
      /\ DOMAIN Append(s, p) = 1..(Len(s) + 1)
      /\ \A i \in 1..Len(s) : Append(s, p)[i] = s[i]
      /\ Append(s, p)[Len(s) + 1] = p
  BY AppendProperties, LenProperties
<1>2. IsFiniteSet(1..Len(s)) /\ old \subseteq 1..Len(s)
  <2>1. 1 \in Int /\ Len(s) \in Int
    BY <1>1
  <2>2. IsFiniteSet(1..Len(s))
    BY <2>1, FS_Interval
  <2> QED
    BY <1>1, <2>2
<1>3. IsFiniteSet(old) /\ Cardinality(old) \in Nat
  BY <1>2, FS_Subset, FS_CardinalityType
<1> DEFINE c == Cardinality(old)
           d == Cardinality(new)
<1>4. CountIn(s, q) = c /\ CountIn(Append(s, p), q) = d
  BY DEF CountIn
<1>5. c \in Nat
  BY <1>3
<1>6. CASE p = q
  <2>1. new = old \cup {Len(s) + 1} /\ Len(s) + 1 \notin old
    BY <1>1, <1>6
  <2>2. d = c + 1
    BY <1>3, <2>1, FS_AddElement
  <2> HIDE DEF c, d
  <2> QED
    BY <1>6, <1>4, <1>5, <2>2
<1>7. CASE p # q
  <2>1. new = old
    BY <1>1, <1>7
  <2>2. d = c
    BY <2>1
  <2> HIDE DEF c, d
  <2> QED
    BY <1>7, <1>4, <1>5, <2>2
<1> QED
  BY <1>6, <1>7

LEMMA CountEmpty == \A q : CountIn(<<>>, q) = 0
<1> SUFFICES ASSUME NEW q PROVE CountIn(<<>>, q) = 0
  OBVIOUS
<1>1. {i \in DOMAIN <<>> : <<>>[i] = q} = {}
  OBVIOUS
<1> QED
  BY <1>1, FS_EmptySet DEF CountIn

(* Lines that alternate leave whoever began at most one ahead.              *)
AlternatesIn(s) ==
    s # <<>> => \A p, q \in Both :
        p = s[1] /\ q # p =>
           CountIn(s, p) = CountIn(s, q) + (IF s[Len(s)] = p THEN 1 ELSE 0)

(* The line of one who has the turn keeps the lines alternating.            *)
LEMMA TurnKept ==
  ASSUME NEW s \in Seq(Both), NEW p \in Both, AlternatesIn(s),
         s # <<>> => s[Len(s)] # p
  PROVE  AlternatesIn(Append(s, p))
<1> DEFINE t == Append(s, p)
<1>1. /\ Len(s) \in Nat /\ Len(t) = Len(s) + 1 /\ t[Len(s) + 1] = p /\ t # <<>>
      /\ \A i \in 1..Len(s) : t[i] = s[i]
      /\ s = <<>> <=> Len(s) = 0
  BY AppendProperties, LenProperties, EmptySeq
<1>2. \A q \in Both : CountIn(t, q) = CountIn(s, q) + (IF p = q THEN 1 ELSE 0)
                      /\ CountIn(s, q) \in Nat
  BY CountAppend
<1>3. SUFFICES ASSUME NEW a \in Both, NEW b \in Both, a = t[1], b # a
               PROVE  CountIn(t, a) = CountIn(t, b) + (IF p = a THEN 1 ELSE 0)
  BY <1>1 DEF AlternatesIn
<1>4. CASE s = <<>>
  <2>1. CountIn(s, a) = 0 /\ CountIn(s, b) = 0 /\ a = p
    BY <1>1, <1>3, <1>4, CountEmpty
  <2> QED
    BY <1>2, <1>3, <2>1
<1>5. CASE s # <<>>
  <2>1. a = s[1] /\ s[Len(s)] \in Both
    BY <1>1, <1>3, <1>5, ElementOfSeq
  <2>2. CountIn(s, a) = CountIn(s, b) + (IF s[Len(s)] = a THEN 1 ELSE 0)
    BY <1>3, <1>5, <2>1 DEF AlternatesIn
  <2>3. CASE p = a
    <3>1. s[Len(s)] # a
      BY <1>5, <2>3
    <3> QED
      BY <1>2, <1>3, <2>2, <2>3, <3>1
  <2>4. CASE p = b
    <3>1. s[Len(s)] = a
      BY <1>3, <1>5, <2>1, <2>4 DEF Both
    <3> QED
      BY <1>2, <1>3, <2>2, <2>4, <3>1
  <2> QED
    BY <1>3, <2>3, <2>4 DEF Both
<1> QED
  BY <1>4, <1>5

LEMMA AlternatesApart ==
  ASSUME NEW s \in Seq(Both), AlternatesIn(s)
  PROVE  CountIn(s, "main") - CountIn(s, "child") \in -1..1
<1>1. CASE s = <<>>
  BY <1>1, CountEmpty
<1>2. CASE s # <<>>
  <2>1. s[1] \in Both
    BY <1>2, ElementOfSeq, EmptySeq, LenProperties
  <2>2. CountIn(s, "main") \in Nat /\ CountIn(s, "child") \in Nat
    BY CountAppend DEF Both
  <2>3. \/ CountIn(s, "main") = CountIn(s, "child")
        \/ CountIn(s, "main") = CountIn(s, "child") + 1
        \/ CountIn(s, "child") = CountIn(s, "main") + 1
    BY <1>2, <2>1, <2>2 DEF AlternatesIn, Both
  <2> QED
    BY <2>2, <2>3
<1> QED
  BY <1>1, <1>2

-----------------------------------------------------------------------------
(* lab13 and lab15 *)

SemPlaces == {"open", "opentwo", "opentwo_refused", "opentwo_failed", "fork", "wait", "print",
              "post", "close", "unlink_one", "unlink_two", "over", "refused", "failed",
              "killed"}
Gone == {"over", "refused", "failed", "killed"}

(* The places where both processes are at once: before they go their own    *)
(* ways, and when they were refused or killed.                              *)
Before == {"open", "opentwo", "opentwo_refused", "opentwo_failed", "fork", "refused"}
Joint == Before \cup {"killed"}

SemTypes ==
    /\ named \in BOOLEAN
    /\ mishap \in BOOLEAN
    /\ sem \in [{"one", "two"} -> Int]
    /\ at \in [Both -> SemPlaces]
    /\ shown \in [Both -> Int]
    /\ names \subseteq {"one", "two"}

(* What a place says: of the other party, of the names there are, and of    *)
(* the runs there have been.                                                *)
Together == \A j \in Joint : at["main"] = j <=> at["child"] = j
ThreadsOnly ==
    ~named => /\ \A p \in Both : at[p] \in {"wait", "print", "post", "close", "over", "failed"}
              /\ at["main"] = "over" => at["child"] \in Gone
NamesLeft ==
    named /\ ~mishap => /\ at["main"] = "unlink_two" => names \subseteq {"two"}
                        /\ at["main"] = "over" => names = {}
Unhurt ==
    ~mishap => /\ at["main"] = "open" => names = {}
               /\ at["main"] = "opentwo" => "two" \notin names
               /\ at["main"] \notin {"opentwo_refused", "opentwo_failed", "refused", "failed",
                                     "killed"}
               /\ at["child"] # "failed"

SemInv == SemTypes /\ Together /\ ThreadsOnly /\ NamesLeft /\ Unhurt

LEMMA SemSets == Sem!Parties = Both /\ Sem!Names = {"one", "two"} /\ Sem!Ended = Gone
BY DEF Sem!Parties, Sem!Names, Both, Sem!Ended, Gone

LEMMA SemInit == Sem!Init => SemInv
<1> SUFFICES ASSUME Sem!Init PROVE SemInv
  OBVIOUS
<1>1. /\ named \in BOOLEAN /\ sem = [one |-> 0, two |-> 1]
      /\ shown = [p \in Both |-> 0]
      /\ at = [p \in Both |-> IF named THEN "open" ELSE "wait"]
      /\ names = {} /\ mishap = FALSE
  BY SemSets DEF Sem!Init, Sem!Fresh, Sem!Start
<1>2. at["main"] = at["child"] /\ at["main"] = (IF named THEN "open" ELSE "wait")
  BY <1>1 DEF Both
<1>3. SemTypes
  <2>1. sem \in [{"one", "two"} -> Int]
    BY <1>1
  <2>2. at \in [Both -> SemPlaces]
    BY <1>1 DEF SemPlaces
  <2> QED
    BY <1>1, <2>1, <2>2 DEF SemTypes
<1>4. Together /\ Unhurt
  BY <1>1, <1>2 DEF Together, Unhurt, Joint, Before, Both
<1>5. ThreadsOnly
  BY <1>1, <1>2 DEF ThreadsOnly, Both
<1>6. NamesLeft
  BY <1>1, <1>2 DEF NamesLeft
<1> QED
  BY <1>3, <1>4, <1>5, <1>6 DEF SemInv

(* A party at its work moves on alone, or fails, and leaves names and runs  *)
(* as they are.                                                              *)
LEMMA PartyKeeps ==
  ASSUME SemInv, NEW p \in Both, Sem!Party(p) \/ Sem!Fails(p)
  PROVE  SemInv'
<1> DEFINE Places == {"wait", "print", "post", "close", "over", "failed", "unlink_one"}
<1>1. /\ named' = named /\ names' = names
      /\ \E from, to \in Places :
            /\ at[p] = from /\ at' = [at EXCEPT ![p] = to]
            /\ from \notin {"over", "failed", "unlink_one"}
            /\ IF to = "failed" THEN mishap' = TRUE ELSE mishap' = mishap
            /\ to = "unlink_one" => named
            /\ to = "over" => /\ p = "main" => ~named
                              /\ ~named /\ p = "main" => at["child"] \in Gone
  BY SemSets
     DEF Sem!Party, Sem!Wait, Sem!PrintLine, Sem!Post, Sem!Ends, Sem!Close, Sem!Fails
<1>2. PICK from, to \in Places :
            /\ at[p] = from /\ at' = [at EXCEPT ![p] = to]
            /\ from \notin {"over", "failed", "unlink_one"}
            /\ IF to = "failed" THEN mishap' = TRUE ELSE mishap' = mishap
            /\ to = "unlink_one" => named
            /\ to = "over" => /\ p = "main" => ~named
                              /\ ~named /\ p = "main" => at["child"] \in Gone
  BY <1>1
<1>3. SemTypes'
  <2>1. sem' \in [{"one", "two"} -> Int]
    BY SemSets DEF SemInv, SemTypes, Sem!Party, Sem!Wait, Sem!PrintLine, Sem!Post, Sem!Ends,
          Sem!Close, Sem!Fails, Sem!WaitsOn, Sem!Posts
  <2>2. shown' \in [Both -> Int]
    BY DEF SemInv, SemTypes, Sem!Party, Sem!Wait, Sem!PrintLine, Sem!Post, Sem!Ends,
          Sem!Close, Sem!Fails
  <2>3. at' \in [Both -> SemPlaces]
    BY <1>2 DEF SemInv, SemTypes, SemPlaces
  <2>4. mishap' \in BOOLEAN
    BY <1>2 DEF SemInv, SemTypes
  <2> QED
    BY <1>1, <2>1, <2>2, <2>3, <2>4 DEF SemInv, SemTypes
<1>4. \A q \in Both : at'[q] = IF q = p THEN to ELSE at[q]
  BY <1>2 DEF SemInv, SemTypes
<1>5. "main" \in Both /\ "child" \in Both /\ (p = "main" \/ p = "child")
  BY DEF Both
<1>6. Together'
  BY <1>2, <1>4, <1>5 DEF SemInv, Together, Joint, Before
<1>7. ThreadsOnly'
  BY <1>1, <1>2, <1>4, <1>5 DEF SemInv, ThreadsOnly, Gone
<1>8. ~mishap' => ~mishap /\ to # "failed"
  BY <1>2
<1>9. NamesLeft'
  BY <1>1, <1>2, <1>4, <1>5, <1>8 DEF SemInv, NamesLeft
<1>10. Unhurt'
  BY <1>1, <1>2, <1>4, <1>5, <1>8 DEF SemInv, Unhurt
<1> QED
  BY <1>3, <1>6, <1>7, <1>9, <1>10 DEF SemInv

(* lab15 opens its names, forks, and unlinks one name after the other; a    *)
(* kill and a new run move both processes.                                  *)
LEMMA RunKeeps ==
  ASSUME SemInv, Sem!Opening \/ Sem!Unlinking \/ Sem!Kill \/ Sem!Rerun
  PROVE  SemInv'
<1> DEFINE Goes(to) == at' = [p \in Both |-> to]
<1>1. named /\ named' = named
  BY DEF Sem!Opening, Sem!OpenOne, Sem!OpenTwo, Sem!Fork, Sem!Open, Sem!Unlinking, Sem!Unlink,
         Sem!UnlinkFails, Sem!Kill, Sem!Rerun
<1>2. ASSUME NEW to \in SemPlaces, Goes(to), names' \subseteq {"one", "two"},
             mishap' \in BOOLEAN, shown' \in [Both -> Int], sem' \in [{"one", "two"} -> Int],
             to \notin {"over", "unlink_two"}, Unhurt'
      PROVE  SemInv'
  <2>1. at'["main"] = to /\ at'["child"] = to
    BY <1>2 DEF Both
  <2>2. SemTypes'
    BY <1>1, <1>2 DEF SemInv, SemTypes
  <2>3. Together' /\ NamesLeft'
    BY <1>2, <2>1 DEF Together, NamesLeft
  <2>4. ThreadsOnly'
    BY <1>1 DEF ThreadsOnly
  <2> QED
    BY <1>2, <2>2, <2>3, <2>4 DEF SemInv
<1>3. ASSUME NEW n \in {"one", "two"}, NEW o \in Sem!Outcomes(n), Sem!Open(n, o)
      PROVE  /\ names' \subseteq {"one", "two"} /\ mishap' \in BOOLEAN
             /\ shown' \in [Both -> Int] /\ sem' \in [{"one", "two"} -> Int]
             /\ o \in {"failed", "refused", "created"}
             /\ o = "refused" => n \in names
             /\ ~mishap' => ~mishap /\ o # "failed"
             /\ names' \subseteq names \cup {n}
  <2>1. /\ o = "failed" \/ (o = "refused" /\ n \in names) \/ (o = "created" /\ n \notin names)
    BY <1>3 DEF Sem!Outcomes
  <2>2. names' \subseteq names \cup {n} /\ shown' = shown
    BY <1>3 DEF Sem!Open
  <2>3. sem' \in [{"one", "two"} -> Int]
    BY <1>3 DEF SemInv, SemTypes, Sem!Open, Sem!Fresh
  <2>4. mishap' \in BOOLEAN /\ (~mishap' => ~mishap /\ o # "failed")
    <3>1. mishap' = (mishap \/ o = "failed")
      BY <1>3 DEF Sem!Open
    <3> QED
      BY <3>1
  <2> QED
    BY <2>1, <2>2, <2>3, <2>4 DEF SemInv, SemTypes
<1>4. CASE Sem!OpenOne
  <2>1. PICK o \in Sem!Outcomes("one") : Sem!Open("one", o) /\ Goes(Sem!AfterOne[o])
    BY <1>4, SemSets DEF Sem!OpenOne, Sem!Start
  <2>2. at["main"] = "open"
    BY <1>4 DEF Sem!OpenOne
  <2>3. /\ names' \subseteq {"one", "two"} /\ mishap' \in BOOLEAN
        /\ shown' \in [Both -> Int] /\ sem' \in [{"one", "two"} -> Int]
        /\ o \in {"failed", "refused", "created"}
        /\ o = "refused" => "one" \in names
        /\ ~mishap' => ~mishap /\ o # "failed"
        /\ names' \subseteq names \cup {"one"}
    BY <1>3, <2>1
  <2>4. Sem!AfterOne[o] = IF o = "created" THEN "opentwo"
                          ELSE IF o = "refused" THEN "opentwo_refused" ELSE "opentwo_failed"
    BY <2>3 DEF Sem!AfterOne
  <2> DEFINE to == Sem!AfterOne[o]
  <2>5. to \in {"opentwo", "opentwo_refused", "opentwo_failed"}
    BY <2>4
  <2>6. at'["main"] = to /\ at'["child"] = to
    BY <2>1 DEF Both
  <2>7. Unhurt'
    BY <2>2, <2>3, <2>4, <2>6 DEF SemInv, Unhurt
  <2> HIDE DEF to
  <2>8. to \in SemPlaces /\ to \notin {"over", "unlink_two"} /\ Goes(to)
    BY <2>1, <2>5 DEF SemPlaces, to
  <2> QED
    BY <1>2, <2>3, <2>7, <2>8
<1>5. CASE Sem!OpenTwo
  <2>1. PICK o \in Sem!Outcomes("two") :
           /\ Sem!Open("two", o)
           /\ Goes(IF o = "refused" \/ at["main"] = "opentwo_refused" THEN "refused"
                   ELSE IF at["main"] = "opentwo" /\ o = "created" THEN "fork" ELSE "failed")
    BY <1>5, SemSets DEF Sem!OpenTwo, Sem!Start
  <2>2. at["main"] \in {"opentwo", "opentwo_refused", "opentwo_failed"}
    BY <1>5 DEF Sem!OpenTwo
  <2>3. /\ names' \subseteq {"one", "two"} /\ mishap' \in BOOLEAN
        /\ shown' \in [Both -> Int] /\ sem' \in [{"one", "two"} -> Int]
        /\ o \in {"failed", "refused", "created"}
        /\ o = "refused" => "two" \in names
        /\ ~mishap' => ~mishap /\ o # "failed"
    BY <1>3, <2>1
  <2>4. PICK to \in {"refused", "fork", "failed"} :
           /\ Goes(to)
           /\ to = "refused" => o = "refused" \/ at["main"] = "opentwo_refused"
           /\ to = "failed" => at["main"] # "opentwo" \/ o # "created"
    BY <2>1
  <2>5. at'["main"] = to /\ at'["child"] = to
    BY <2>4 DEF Both
  <2>6. Unhurt'
    BY <2>2, <2>3, <2>4, <2>5 DEF SemInv, Unhurt
  <2>7. to \in SemPlaces /\ to \notin {"over", "unlink_two"}
    BY <2>4 DEF SemPlaces
  <2> QED
    BY <1>2, <2>3, <2>4, <2>6, <2>7
<1>6. CASE Sem!Fork
  <2>1. PICK to \in {"wait", "failed"} :
           /\ Goes(to) /\ names' = names /\ shown' = shown /\ sem' = sem
           /\ IF to = "failed" THEN mishap' = TRUE ELSE mishap' = mishap
    BY <1>6, SemSets DEF Sem!Fork, Sem!Start
  <2>2. at'["main"] = to /\ at'["child"] = to
    BY <2>1 DEF Both
  <2>3. ~mishap' => to = "wait"
    BY <2>1
  <2>4. Unhurt'
    BY <2>2, <2>3 DEF Unhurt
  <2>5. to \in SemPlaces /\ to \notin {"over", "unlink_two"}
    BY <2>1 DEF SemPlaces
  <2>6. mishap' \in BOOLEAN
    BY <2>1 DEF SemInv, SemTypes
  <2> QED
    BY <1>2, <2>1, <2>4, <2>5, <2>6 DEF SemInv, SemTypes
<1>7. CASE Sem!Unlinking
  <2>1. PICK n \in {"one", "two"} : Sem!Unlink(n) \/ Sem!UnlinkFails(n)
    BY <1>7, SemSets DEF Sem!Unlinking
  <2>2. /\ at["main"] = (IF n = "one" THEN "unlink_one" ELSE "unlink_two")
        /\ at' = [at EXCEPT !["main"] = IF n = "one" THEN "unlink_two" ELSE "over"]
        /\ shown' = shown /\ sem' = sem /\ names' \subseteq names
        /\ \/ names' = names \ {n} /\ mishap' = mishap
           \/ mishap' = TRUE
    BY <2>1 DEF Sem!Unlink, Sem!UnlinkFails
  <2>3. /\ at'["main"] = (IF n = "one" THEN "unlink_two" ELSE "over")
        /\ at'["child"] = at["child"]
    BY <2>2 DEF SemInv, SemTypes, Both
  <2>4. ~mishap' => ~mishap /\ names' = names \ {n}
    BY <2>2
  <2>5. SemTypes'
    <3>1. at' \in [Both -> SemPlaces]
      BY <2>2 DEF SemInv, SemTypes, SemPlaces
    <3>2. mishap' \in BOOLEAN
      BY <2>2 DEF SemInv, SemTypes
    <3> QED
      BY <1>1, <2>2, <3>1, <3>2 DEF SemInv, SemTypes
  <2>6. Together'
    BY <2>2, <2>3 DEF SemInv, Together, Joint, Before
  <2>7. NamesLeft'
    BY <1>1, <2>2, <2>3, <2>4 DEF SemInv, SemTypes, NamesLeft
  <2>8. Unhurt'
    BY <2>2, <2>3, <2>4 DEF SemInv, Unhurt
  <2>9. ThreadsOnly'
    BY <1>1 DEF ThreadsOnly
  <2> QED
    BY <2>5, <2>6, <2>7, <2>8, <2>9 DEF SemInv
<1>8. CASE Sem!Kill
  <2>1. /\ Goes("killed") /\ mishap' = TRUE
        /\ names' = names /\ shown' = shown /\ sem' = sem
    BY <1>8, SemSets DEF Sem!Kill, Sem!Start
  <2>2. Unhurt'
    BY <2>1 DEF Unhurt
  <2>3. "killed" \in SemPlaces
    BY DEF SemPlaces
  <2> QED
    BY <1>2, <2>1, <2>2, <2>3 DEF SemInv, SemTypes
<1>9. CASE Sem!Rerun
  <2>1. /\ Goes("open") /\ mishap' = mishap /\ names' = names /\ sem' = sem
        /\ shown' = [p \in Both |-> 0] /\ Sem!AtRest
    BY <1>9, SemSets DEF Sem!Rerun, Sem!Start
  <2>2. at'["main"] = "open" /\ at'["child"] = "open"
    BY <2>1 DEF Both
  <2>3. at["main"] \in Gone \/ at["child"] = "failed"
    BY <2>1, SemSets DEF Both, Sem!AtRest, Sem!Abandoned, Sem!Other
  <2>4. ~mishap => at["main"] = "over"
    BY <2>3 DEF SemInv, Unhurt, Gone
  <2>5. Unhurt'
    BY <1>1, <2>1, <2>2, <2>4 DEF SemInv, Unhurt, NamesLeft
  <2>6. "open" \in SemPlaces /\ shown' \in [Both -> Int]
    BY <2>1 DEF SemPlaces
  <2> QED
    BY <1>2, <2>1, <2>5, <2>6 DEF SemInv, SemTypes
<1> QED
  BY <1>4, <1>5, <1>6, <1>7, <1>8, <1>9 DEF Sem!Opening

LEMMA SemStep == SemInv /\ Sem!Next => SemInv'
BY SemSets, PartyKeeps, RunKeeps DEF Sem!Next

LEMMA SemRest == SemInv /\ UNCHANGED sems => SemInv'
BY DEF SemInv, SemTypes, Together, ThreadsOnly, NamesLeft, Unhurt, sems

LEMMA SemInvImplies == SemInv => RefusedAfterMishapOnly /\ Sem!UnusedWhenDestroyed
<1> SUFFICES ASSUME SemInv PROVE RefusedAfterMishapOnly /\ Sem!UnusedWhenDestroyed
  OBVIOUS
<1>1. Sem!UnusedWhenDestroyed
  BY SemSets DEF SemInv, ThreadsOnly, Sem!UnusedWhenDestroyed
<1>2. (\E p \in Both : at[p] = "refused") => mishap
  BY DEF SemInv, SemTypes, Together, Unhurt, Joint, Before, Both
<1>3. named /\ at["main"] \in Gone /\ ~mishap => names = {}
  BY DEF SemInv, NamesLeft, Unhurt, Gone
<1> QED
  BY <1>1, <1>2, <1>3, SemSets DEF RefusedAfterMishapOnly, Sem!RefusedAfterMishapOnly,
     Sem!Finished, Both

-----------------------------------------------------------------------------
(* Who may print: he has lines left, and it is his turn.                    *)
LastIs(p) == printed # <<>> /\ printed[Len(printed)] = p
MayPrint(p) ==
    /\ CountIn(printed, p) < Lines
    /\ IF printed = <<>> THEN p \in Starters ELSE printed[Len(printed)] # p

LEMMA AfterLine ==
  ASSUME printed \in Seq(Both), NEW p \in Both, printed' = Append(printed, p)
  PROVE  /\ printed' \in Seq(Both)
         /\ \A q \in Both : LastIs(q)' <=> q = p
         /\ printed' # <<>>
         /\ \A q \in Both : /\ CountIn(printed, q) \in Nat
                            /\ CountIn(printed', q) =
                                  CountIn(printed, q) + (IF p = q THEN 1 ELSE 0)
<1>1. /\ printed' \in Seq(Both) /\ printed' # <<>> /\ Len(printed) \in Nat
      /\ Len(printed') = Len(printed) + 1 /\ printed'[Len(printed) + 1] = p
  BY AppendProperties, LenProperties
<1>2. \A q \in Both : /\ CountIn(printed, q) \in Nat
                      /\ CountIn(Append(printed, p), q) =
                            CountIn(printed, q) + (IF p = q THEN 1 ELSE 0)
  BY CountAppend
<1>3. printed'[Len(printed')] = p
  BY <1>1
<1> QED
  BY <1>1, <1>2, <1>3 DEF LastIs

-----------------------------------------------------------------------------
(* The turns of lab13 and lab15 *)

Leader == IF named THEN "child" ELSE "main"
Follower == IF named THEN "main" ELSE "child"
Busy(p) == at[p] \in {"print", "post"}

(* The one token of the two semaphores: in semaphore two or with the leader  *)
(* when it is the leader's turn, in semaphore one or with the follower when  *)
(* it is his; and who printed the last line.  It is lost with a party whose  *)
(* post has failed.                                                          *)
Token ==
    \/ /\ sem["two"] = 1 /\ sem["one"] = 0 /\ ~Busy(Leader) /\ ~Busy(Follower)
       /\ printed = <<>> \/ LastIs(Follower)
    \/ /\ sem["two"] = 0 /\ sem["one"] = 0 /\ at[Leader] = "print" /\ ~Busy(Follower)
       /\ printed = <<>> \/ LastIs(Follower)
    \/ /\ sem["two"] = 0 /\ sem["one"] = 0 /\ at[Leader] = "post" /\ ~Busy(Follower)
       /\ LastIs(Leader)
    \/ /\ sem["two"] = 0 /\ sem["one"] = 1 /\ ~Busy(Leader) /\ ~Busy(Follower)
       /\ LastIs(Leader)
    \/ /\ sem["two"] = 0 /\ sem["one"] = 0 /\ ~Busy(Leader) /\ at[Follower] = "print"
       /\ LastIs(Leader)
    \/ /\ sem["two"] = 0 /\ sem["one"] = 0 /\ ~Busy(Leader) /\ at[Follower] = "post"
       /\ LastIs(Follower)
    \/ /\ sem["two"] = 0 /\ sem["one"] = 0 /\ ~Busy(Leader) /\ ~Busy(Follower)

BothFailed == at["main"] = "failed" /\ at["child"] = "failed"

SemCounts ==
    \A p \in Both :
       /\ at[p] # "failed" => CountIn(printed, p) = shown[p] + (IF at[p] = "post" THEN 1 ELSE 0)
       /\ Busy(p) => shown[p] < Lines

(* Before the two set out nothing is printed and the token is not there yet; *)
(* when they are on their way it is.                                         *)
SemTurn ==
    /\ printed \in Seq(Both)
    /\ named <=> program = "lab15"
    /\ at["main"] \in Before =>
          /\ printed = <<>>
          /\ shown["main"] = 0 /\ shown["child"] = 0
    /\ at["main"] \in {"opentwo", "fork"} => sem["one"] = 0
    /\ at["main"] = "fork" => sem["two"] = 1
    /\ at["main"] \notin Joint => SemCounts /\ (Token \/ BothFailed)

LEMMA SemTurnWait ==
  ASSUME SemInv, SemTurn, NEW p \in Both, Sem!Wait(p), program' = program
  PROVE  SemTurn'
<1>1. /\ at[p] = "wait" /\ shown[p] < Lines /\ at' = [at EXCEPT ![p] = "print"]
      /\ named' = named /\ printed' = printed /\ shown' = shown
      /\ sem[Sem!WaitsOn(p)] > 0
      /\ sem' = [sem EXCEPT ![Sem!WaitsOn(p)] = sem[Sem!WaitsOn(p)] - 1]
  BY DEF Sem!Wait
<1>2. /\ Sem!WaitsOn(p) = (IF p = Leader THEN "two" ELSE "one")
      /\ Leader \in Both /\ Follower \in Both /\ Leader # Follower
      /\ p = Leader \/ p = Follower
      /\ Leader' = Leader /\ Follower' = Follower
  BY <1>1 DEF Sem!WaitsOn, Sem!First, Leader, Follower, Both
<1>3. \A q \in Both : at'[q] = IF q = p THEN "print" ELSE at[q]
  BY <1>1 DEF SemInv, SemTypes
<1>4. at["main"] \notin Joint /\ at'["main"] \notin Joint
  BY <1>1, <1>3 DEF SemInv, Together, Joint, Before, Both
<1>5. Token /\ SemCounts
  BY <1>1, <1>4 DEF SemTurn, BothFailed, Both
<1>6. /\ sem'["one"] = (IF p = Leader THEN sem["one"] ELSE sem["one"] - 1)
      /\ sem'["two"] = (IF p = Leader THEN sem["two"] - 1 ELSE sem["two"])
      /\ IF p = Leader THEN sem["two"] > 0 ELSE sem["one"] > 0
  BY <1>1, <1>2 DEF SemInv, SemTypes
<1>7. \A q \in Both : LastIs(q)' <=> LastIs(q)
  BY <1>1 DEF LastIs
<1>8. Token'
  <2>1. CASE p = Leader
    BY <1>1, <1>2, <1>3, <1>5, <1>6, <1>7, <2>1 DEF Token, Busy
  <2>2. CASE p = Follower
    BY <1>1, <1>2, <1>3, <1>5, <1>6, <1>7, <2>2 DEF Token, Busy
  <2> QED
    BY <1>2, <2>1, <2>2
<1>9. SemCounts'
  BY <1>1, <1>3, <1>5 DEF SemCounts, Busy
<1> QED
  BY <1>1, <1>4, <1>8, <1>9 DEF SemTurn, Joint, Before

LEMMA SemTurnPrint ==
  ASSUME SemInv, SemTurn, NEW p \in Both, Sem!PrintLine(p), program' = program,
         program \in {"lab13", "lab15"}
  PROVE  SemTurn' /\ MayPrint(p) /\ printed' = Append(printed, p)
<1>1. /\ at[p] = "print" /\ at' = [at EXCEPT ![p] = "post"]
      /\ named' = named /\ printed' = Append(printed, p) /\ shown' = shown /\ sem' = sem
  BY DEF Sem!PrintLine
<1>2. /\ Leader \in Both /\ Follower \in Both /\ Leader # Follower
      /\ p = Leader \/ p = Follower
      /\ Leader' = Leader /\ Follower' = Follower
  BY <1>1 DEF Leader, Follower, Both
<1>3. \A q \in Both : at'[q] = IF q = p THEN "post" ELSE at[q]
  BY <1>1 DEF SemInv, SemTypes
<1>4. at["main"] \notin Joint /\ at'["main"] \notin Joint
  BY <1>1, <1>3 DEF SemInv, Together, Joint, Before, Both
<1>5. Token /\ SemCounts
  BY <1>1, <1>4 DEF SemTurn, BothFailed, Both
<1>6. /\ printed' \in Seq(Both)
      /\ \A q \in Both : LastIs(q)' <=> q = p
      /\ \A q \in Both : /\ CountIn(printed, q) \in Nat
                         /\ CountIn(printed', q) =
                               CountIn(printed, q) + (IF p = q THEN 1 ELSE 0)
  BY <1>1, AfterLine DEF SemTurn
<1>7. Token'
  <2>1. CASE p = Leader
    BY <1>1, <1>2, <1>3, <1>5, <1>6, <2>1 DEF Token, Busy
  <2>2. CASE p = Follower
    BY <1>1, <1>2, <1>3, <1>5, <1>6, <2>2 DEF Token, Busy
  <2> QED
    BY <1>2, <2>1, <2>2
<1>8. SemCounts'
  BY <1>1, <1>3, <1>5, <1>6 DEF SemCounts, Busy, SemInv, SemTypes
<1>9. MayPrint(p)
  <2>1. CountIn(printed, p) < Lines
    BY <1>1, <1>5 DEF SemCounts, Busy, SemInv, SemTypes
  <2>2. printed = <<>> => p = Leader
    BY <1>1, <1>2, <1>5 DEF Token, Busy, LastIs
  <2>3. printed = <<>> => p \in Starters
    BY <2>2 DEF SemTurn, Leader, Starters
  <2>4. printed # <<>> => printed[Len(printed)] # p
    BY <1>1, <1>2, <1>5 DEF Token, Busy, LastIs
  <2> QED
    BY <2>1, <2>3, <2>4 DEF MayPrint
<1>10. SemTurn'
  BY <1>1, <1>4, <1>6, <1>7, <1>8 DEF SemTurn, Joint, Before
<1> QED
  BY <1>1, <1>9, <1>10

LEMMA SemTurnPost ==
  ASSUME SemInv, SemTurn, NEW p \in Both, Sem!Post(p), program' = program
  PROVE  SemTurn'
<1>1. /\ at[p] = "post" /\ shown' = [shown EXCEPT ![p] = shown[p] + 1]
      /\ at' = [at EXCEPT ![p] = IF shown'[p] < Lines THEN "wait" ELSE "close"]
      /\ named' = named /\ printed' = printed
      /\ sem' = [sem EXCEPT ![Sem!Posts(p)] = sem[Sem!Posts(p)] + 1]
  BY DEF Sem!Post
<1>2. /\ Sem!Posts(p) = (IF p = Leader THEN "one" ELSE "two")
      /\ Leader \in Both /\ Follower \in Both /\ Leader # Follower
      /\ p = Leader \/ p = Follower
      /\ Leader' = Leader /\ Follower' = Follower
  BY <1>1 DEF Sem!Posts, Sem!First, Leader, Follower, Both
<1>3. PICK to \in {"wait", "close"} :
         \A q \in Both : at'[q] = IF q = p THEN to ELSE at[q]
  BY <1>1 DEF SemInv, SemTypes
<1>4. at["main"] \notin Joint /\ at'["main"] \notin Joint
  BY <1>1, <1>3 DEF SemInv, Together, Joint, Before, Both
<1>5. Token /\ SemCounts
  BY <1>1, <1>4 DEF SemTurn, BothFailed, Both
<1>6. /\ sem'["one"] = (IF p = Leader THEN sem["one"] + 1 ELSE sem["one"])
      /\ sem'["two"] = (IF p = Leader THEN sem["two"] ELSE sem["two"] + 1)
  BY <1>1, <1>2 DEF SemInv, SemTypes
<1>7. \A q \in Both : LastIs(q)' <=> LastIs(q)
  BY <1>1 DEF LastIs
<1>8. Token'
  <2>1. CASE p = Leader
    BY <1>1, <1>2, <1>3, <1>5, <1>6, <1>7, <2>1 DEF Token, Busy
  <2>2. CASE p = Follower
    BY <1>1, <1>2, <1>3, <1>5, <1>6, <1>7, <2>2 DEF Token, Busy
  <2> QED
    BY <1>2, <2>1, <2>2
<1>9. SemCounts'
  <2>1. \A q \in Both : shown'[q] = shown[q] + (IF q = p THEN 1 ELSE 0)
    BY <1>1 DEF SemInv, SemTypes
  <2> QED
    BY <1>1, <1>3, <1>5, <2>1 DEF SemCounts, Busy, SemInv, SemTypes
<1> QED
  BY <1>1, <1>4, <1>8, <1>9 DEF SemTurn, Joint, Before

LEMMA SemTurnClose ==
  ASSUME SemInv, SemTurn, program' = program,
         \/ \E p \in Both : Sem!Ends(p) \/ Sem!Close(p)
         \/ Sem!Unlinking
  PROVE  SemTurn'
<1>1. PICK p \in Both, to \in {"over", "unlink_one", "unlink_two"} :
         /\ at[p] \in {"close", "unlink_one", "unlink_two"}
         /\ at' = [at EXCEPT ![p] = to]
         /\ named' = named /\ printed' = printed /\ shown' = shown /\ sem' = sem
  BY DEF Sem!Ends, Sem!Close, Sem!Unlinking, Sem!Unlink, Sem!UnlinkFails, Both
<1>2. /\ Leader \in Both /\ Follower \in Both /\ Leader # Follower
      /\ Leader' = Leader /\ Follower' = Follower
  BY <1>1 DEF Leader, Follower, Both
<1>3. \A q \in Both : at'[q] = IF q = p THEN to ELSE at[q]
  BY <1>1 DEF SemInv, SemTypes
<1>4. at["main"] \notin Joint /\ at'["main"] \notin Joint
  BY <1>1, <1>3 DEF SemInv, Together, Joint, Before, Both
<1>5. Token /\ SemCounts
  BY <1>1, <1>4 DEF SemTurn, BothFailed, Both
<1>6. \A q \in Both : LastIs(q)' <=> LastIs(q)
  BY <1>1 DEF LastIs
<1>7. Token'
  BY <1>1, <1>2, <1>3, <1>5, <1>6 DEF Token, Busy
<1>8. SemCounts'
  BY <1>1, <1>3, <1>5 DEF SemCounts, Busy
<1> QED
  BY <1>1, <1>3, <1>4, <1>7, <1>8 DEF SemTurn, Joint, Before, Both

LEMMA SemTurnFails ==
  ASSUME SemInv, SemTurn, NEW p \in Both, Sem!Fails(p), program' = program
  PROVE  SemTurn'
<1>1. /\ at[p] \in {"wait", "post"} /\ at' = [at EXCEPT ![p] = "failed"]
      /\ named' = named /\ printed' = printed /\ shown' = shown /\ sem' = sem
  BY DEF Sem!Fails
<1>2. /\ Leader \in Both /\ Follower \in Both /\ Leader # Follower
      /\ p = Leader \/ p = Follower
      /\ Leader' = Leader /\ Follower' = Follower
  BY <1>1 DEF Leader, Follower, Both
<1>3. \A q \in Both : at'[q] = IF q = p THEN "failed" ELSE at[q]
  BY <1>1 DEF SemInv, SemTypes
<1>4. at["main"] \notin Joint /\ at'["main"] \notin Joint
  BY <1>1, <1>3 DEF SemInv, Together, Joint, Before, Both
<1>5. Token /\ SemCounts
  BY <1>1, <1>4 DEF SemTurn, BothFailed, Both
<1>6. \A q \in Both : LastIs(q)' <=> LastIs(q)
  BY <1>1 DEF LastIs
<1>7. Token'
  <2>1. CASE p = Leader
    BY <1>1, <1>2, <1>3, <1>5, <1>6, <2>1 DEF Token, Busy
  <2>2. CASE p = Follower
    BY <1>1, <1>2, <1>3, <1>5, <1>6, <2>2 DEF Token, Busy
  <2> QED
    BY <1>2, <2>1, <2>2
<1>8. SemCounts'
  BY <1>1, <1>3, <1>5 DEF SemCounts, Busy
<1> QED
  BY <1>1, <1>4, <1>7, <1>8 DEF SemTurn, Joint, Before

(* The token is made with semaphore two; a kill, and a failure before the   *)
(* two set out, end all that was promised.                                  *)
LEMMA SemTurnRun ==
  ASSUME SemInv, SemTurn, Sem!Opening \/ Sem!Kill \/ Sem!Rerun, program' = program
  PROVE  SemTurn'
<1> DEFINE Goes(to) == at' = [p \in Both |-> to]
<1>1. ASSUME NEW to, Goes(to), printed' = <<>>, named' = named,
             shown' = [p \in Both |-> 0],
             to \in {"opentwo", "fork"} => sem'["one"] = 0,
             to = "fork" => sem'["two"] = 1,
             \/ to \in Before \/ to = "failed"
             \/ to = "wait" /\ sem'["one"] = 0 /\ sem'["two"] = 1
      PROVE  SemTurn'
  <2>1. \A q \in Both : at'[q] = to /\ shown'[q] = 0
    BY <1>1
  <2>2. "main" \in Both /\ "child" \in Both /\ Leader' \in Both /\ Follower' \in Both
    BY DEF Leader, Follower, Both
  <2>3. printed' \in Seq(Both)
    BY <1>1, EmptySeq
  <2>4. ASSUME to = "wait" PROVE Token'
    <3>1. at'[Leader'] = "wait" /\ at'[Follower'] = "wait"
      BY <2>1, <2>2, <2>4
    <3>2. ~Busy(Leader)' /\ ~Busy(Follower)'
      BY <3>1 DEF Busy
    <3>3. sem'["one"] = 0 /\ sem'["two"] = 1
      BY <1>1, <2>4 DEF Before
    <3> QED
      BY <1>1, <3>2, <3>3 DEF Token
  <2>5. to = "failed" => BothFailed'
    BY <2>1, <2>2 DEF BothFailed
  <2>6. to \in {"wait", "failed"} => SemCounts'
    BY <1>1, <2>1, CountEmpty DEF SemCounts, Busy
  <2> QED
    BY <1>1, <2>1, <2>2, <2>3, <2>4, <2>5, <2>6 DEF SemTurn, Joint, Before
<1>2. ASSUME at["main"] \in Before, shown' = shown, printed' = printed
      PROVE  printed' = <<>> /\ shown' = [p \in Both |-> 0]
  <2>1. printed = <<>> /\ shown["main"] = 0 /\ shown["child"] = 0
    BY <1>2 DEF SemTurn
  <2>2. \A p \in Both : shown[p] = 0
    BY <2>1 DEF Both
  <2> QED
    BY <1>2, <2>1, <2>2 DEF SemInv, SemTypes
<1>3. CASE Sem!OpenOne
  <2>1. PICK o \in Sem!Outcomes("one") : Sem!Open("one", o) /\ Goes(Sem!AfterOne[o])
    BY <1>3, SemSets DEF Sem!OpenOne, Sem!Start
  <2>2. /\ at["main"] = "open" /\ named' = named /\ printed' = printed /\ shown' = shown
        /\ o = "created" => sem'["one"] = 0
        /\ o \in {"failed", "refused", "created"}
    BY <1>3, <2>1 DEF SemInv, SemTypes, Sem!OpenOne, Sem!Open, Sem!Outcomes, Sem!Fresh
  <2> DEFINE to == Sem!AfterOne[o]
  <2>3. to = IF o = "created" THEN "opentwo"
             ELSE IF o = "refused" THEN "opentwo_refused" ELSE "opentwo_failed"
    BY <2>2 DEF Sem!AfterOne
  <2>4. at["main"] \in Before
    BY <2>2 DEF Before
  <2>5. printed' = <<>> /\ shown' = [p \in Both |-> 0]
    BY <1>2, <2>2, <2>4
  <2>6. Goes(to)
    BY <2>1
  <2> HIDE DEF to
  <2>7. to \in Before /\ to # "fork" /\ (to = "opentwo" => sem'["one"] = 0)
    BY <2>2, <2>3 DEF Before
  <2> QED
    BY <1>1, <2>2, <2>5, <2>6, <2>7
<1>4. CASE Sem!OpenTwo
  <2>1. PICK o \in Sem!Outcomes("two") :
           /\ Sem!Open("two", o)
           /\ Goes(IF o = "refused" \/ at["main"] = "opentwo_refused" THEN "refused"
                   ELSE IF at["main"] = "opentwo" /\ o = "created" THEN "fork" ELSE "failed")
    BY <1>4, SemSets DEF Sem!OpenTwo, Sem!Start
  <2>2. PICK to \in {"refused", "fork", "failed"} :
           Goes(to) /\ (to = "fork" => at["main"] = "opentwo" /\ o = "created")
    BY <2>1
  <2>3. /\ at["main"] \in Before /\ named' = named /\ printed' = printed /\ shown' = shown
    BY <1>4, <2>1 DEF Sem!OpenTwo, Sem!Open, Before
  <2>4. o = "created" => sem'["one"] = sem["one"] /\ sem'["two"] = 1
    BY <2>1 DEF SemInv, SemTypes, Sem!Open, Sem!Fresh
  <2>5. to = "fork" => sem'["one"] = 0 /\ sem'["two"] = 1
    BY <2>2, <2>4 DEF SemTurn
  <2>6. printed' = <<>> /\ shown' = [p \in Both |-> 0]
    BY <1>2, <2>3
  <2>7. to \in Before \/ to = "failed"
    BY DEF Before
  <2> QED
    BY <1>1, <2>2, <2>3, <2>5, <2>6, <2>7
<1>5. CASE Sem!Fork
  <2>1. PICK to \in {"wait", "failed"} :
           /\ Goes(to) /\ named' = named /\ printed' = printed /\ shown' = shown /\ sem' = sem
    BY <1>5, SemSets DEF Sem!Fork, Sem!Start
  <2>2. at["main"] = "fork" /\ at["main"] \in Before
    BY <1>5 DEF Sem!Fork, Before
  <2>3. sem'["one"] = 0 /\ sem'["two"] = 1
    BY <2>1, <2>2 DEF SemTurn
  <2>4. printed' = <<>> /\ shown' = [p \in Both |-> 0]
    BY <1>2, <2>1, <2>2
  <2> QED
    BY <1>1, <2>1, <2>3, <2>4
<1>6. CASE Sem!Kill
  <2>1. at'["main"] = "killed" /\ named' = named /\ printed' = printed
    BY <1>6, SemSets DEF Sem!Kill, Sem!Start, Both
  <2> QED
    BY <2>1 DEF SemTurn, Joint, Before
<1>7. CASE Sem!Rerun
  <2>1. Goes("open") /\ named' = named /\ printed' = <<>> /\ shown' = [p \in Both |-> 0]
    BY <1>7, SemSets DEF Sem!Rerun, Sem!Start
  <2>2. "open" \in Before
    BY DEF Before
  <2> QED
    BY <1>1, <2>1, <2>2
<1> QED
  BY <1>3, <1>4, <1>5, <1>6, <1>7 DEF Sem!Opening

(* What a step of lab13 or lab15 does to the lines printed.                 *)
Line(p) == MayPrint(p) /\ printed' = Append(printed, p)
LEMMA SemTurnStep ==
  ASSUME SemInv, SemTurn, Sem!Next, program' = program, program \in {"lab13", "lab15"}
  PROVE  /\ SemTurn'
         /\ printed' = printed \/ printed' = <<>> \/ \E p \in Both : Line(p)
<1>1. CASE \E p \in Both : Sem!PrintLine(p)
  BY <1>1, SemTurnPrint DEF Line
<1>2. CASE \E p \in Both : Sem!Wait(p) \/ Sem!Post(p) \/ Sem!Fails(p)
  <2>1. SemTurn'
    BY <1>2, SemTurnWait, SemTurnPost, SemTurnFails
  <2>2. printed' = printed
    BY <1>2 DEF Sem!Wait, Sem!Post, Sem!Fails
  <2> QED
    BY <2>1, <2>2
<1>3. CASE (\E p \in Both : Sem!Ends(p) \/ Sem!Close(p)) \/ Sem!Unlinking
  <2>1. printed' = printed
    BY <1>3 DEF Sem!Ends, Sem!Close, Sem!Unlinking, Sem!Unlink, Sem!UnlinkFails
  <2> QED
    BY <1>3, <2>1, SemTurnClose
<1>4. CASE Sem!Opening \/ Sem!Kill \/ Sem!Rerun
  <2>1. printed' = printed \/ printed' = <<>>
    BY <1>4 DEF Sem!Opening, Sem!OpenOne, Sem!OpenTwo, Sem!Fork, Sem!Open, Sem!Kill, Sem!Rerun
  <2> QED
    BY <1>4, <2>1, SemTurnRun
<1> QED
  BY <1>1, <1>2, <1>3, <1>4, SemSets DEF Sem!Next, Sem!Party

-----------------------------------------------------------------------------
(* lab12 *)

Other(p) == IF p = "main" THEN "child" ELSE "main"
CondTypes ==
    /\ printed \in Seq(Both)
    /\ spurious \in BOOLEAN
    /\ waiting \in SUBSET Both
    /\ stage \in [Both -> {"loop", "signal", "destroy", "over"}]
    /\ count \in [Both -> Int]

CondCounts ==
    \A p \in Both : /\ count[p] = CountIn(printed, p) /\ count[p] <= Lines
                    /\ stage[p] # "loop" => count[p] = Lines

(* Whoever printed last has printed as much as the other or one line more.  *)
Close(p) == count[Other(p)] <= count[p] /\ count[p] <= count[Other(p)] + 1

(* As long as every wake-up is signalled: whoever printed last sleeps, until *)
(* main wakes the thread from its last wait.                                 *)
Asleep ==
    ~spurious =>
       /\ printed = <<>> => waiting = {} /\ \A p \in Both : stage[p] = "loop"
       /\ printed # <<>> => \E p \in Both :
             /\ LastIs(p) /\ Close(p)
             /\ stage["main"] # "loop" => p = "child"
             /\ waiting = IF stage["main"] \in {"destroy", "over"} THEN {} ELSE {p}

CondInv == CondTypes /\ CondCounts /\ Asleep

LEMMA CondParties == Cond!Parties = Both
BY DEF Cond!Parties, Both

LEMMA CondRound ==
  ASSUME CondInv, NEW p \in Both, Cond!Round(p), program = "lab12"
  PROVE  /\ CondInv' /\ printed' = Append(printed, p)
         /\ CountIn(printed, p) < Lines
         /\ spurious \/ MayPrint(p)
<1>1. /\ stage[p] = "loop" /\ p \notin waiting /\ count[p] < Lines
      /\ printed' = Append(printed, p) /\ waiting' = {p}
      /\ count' = [count EXCEPT ![p] = count[p] + 1]
      /\ spurious' = spurious /\ stage' = stage
  BY DEF Cond!Round, Cond!Runs
<1>2. /\ printed' \in Seq(Both) /\ printed' # <<>>
      /\ \A q \in Both : LastIs(q)' <=> q = p
      /\ \A q \in Both : /\ CountIn(printed, q) \in Nat
                         /\ CountIn(printed', q) =
                               CountIn(printed, q) + (IF p = q THEN 1 ELSE 0)
  BY <1>1, AfterLine DEF CondInv, CondTypes
<1>3. \A q \in Both : count'[q] = count[q] + (IF p = q THEN 1 ELSE 0)
  BY <1>1 DEF CondInv, CondTypes
<1>4. CondTypes'
  BY <1>1, <1>2 DEF CondInv, CondTypes
<1>5. Lines \in Int
  BY SmallLabsAssumption
<1>6. CondCounts'
  BY <1>1, <1>2, <1>3, <1>5 DEF CondInv, CondTypes, CondCounts
<1>7. \A q \in Both : Other(q) \in Both /\ Other(q) # q /\ Other(Other(q)) = q
  BY DEF Other, Both
<1>8. ASSUME ~spurious
      PROVE  /\ printed = <<>> \/ (LastIs(Other(p)) /\ Close(Other(p)))
             /\ stage["main"] \notin {"destroy", "over"}
  <2>1. CASE printed = <<>>
    BY <1>8, <2>1 DEF CondInv, Asleep, Both
  <2>2. CASE printed # <<>>
    <3>1. PICK q \in Both : /\ LastIs(q) /\ Close(q)
                            /\ stage["main"] # "loop" => q = "child"
                            /\ waiting = IF stage["main"] \in {"destroy", "over"}
                                         THEN {} ELSE {q}
      BY <1>8, <2>2 DEF CondInv, Asleep
    <3>2. stage["main"] \notin {"destroy", "over"}
      <4>1. SUFFICES ASSUME stage["main"] \in {"destroy", "over"} PROVE FALSE
        OBVIOUS
      <4>2. q = "child" /\ count["main"] = Lines /\ p = "child"
        BY <1>1, <3>1, <4>1 DEF CondInv, CondCounts, Both
      <4>3. count["main"] <= count["child"]
        BY <3>1, <4>2 DEF Close, Other
      <4> QED
        BY <1>1, <1>5, <4>2, <4>3 DEF CondInv, CondTypes, Both
    <3>3. q # p
      BY <1>1, <3>1, <3>2
    <3> QED
      BY <1>7, <3>1, <3>2, <3>3 DEF Both, Other
  <2> QED
    BY <2>1, <2>2
<1>9. Asleep'
  <2>1. SUFFICES ASSUME ~spurious
                 PROVE  /\ Close(p)'
                        /\ stage'["main"] # "loop" => p = "child"
                        /\ stage'["main"] \notin {"destroy", "over"}
    BY <1>1, <1>2 DEF Asleep
  <2>0. stage'["main"] # "loop" => p = "child"
    BY <1>1 DEF Both
  <2>2. CASE printed = <<>>
    <3>1. count[p] = 0 /\ count[Other(p)] = 0
      BY <1>7, <2>2, CountEmpty DEF CondInv, CondCounts
    <3>2. count'[p] = 1 /\ count'[Other(p)] = 0
      BY <1>3, <1>7, <3>1
    <3> QED
      BY <1>1, <1>8, <2>0, <2>1, <3>2 DEF Close
  <2>3. CASE printed # <<>>
    <3>1. count[p] <= count[Other(p)] /\ count[Other(p)] <= count[p] + 1
      BY <1>7, <1>8, <2>1, <2>3 DEF Close
    <3>2. count'[p] = count[p] + 1 /\ count'[Other(p)] = count[Other(p)]
      BY <1>3, <1>7 DEF CondInv, CondTypes
    <3>3. count[p] \in Int /\ count[Other(p)] \in Int
      BY <1>7 DEF CondInv, CondTypes
    <3> QED
      BY <1>1, <1>8, <2>0, <2>1, <3>1, <3>2, <3>3 DEF Close
  <2> QED
    BY <2>2, <2>3
<1>10. CountIn(printed, p) < Lines
  BY <1>1 DEF CondInv, CondCounts
<1>11. spurious \/ MayPrint(p)
  <2>1. SUFFICES ASSUME ~spurious
                 PROVE  IF printed = <<>> THEN p \in Starters
                                          ELSE printed[Len(printed)] # p
    BY <1>10 DEF MayPrint
  <2>2. p \in Starters
    BY DEF Starters, Both
  <2> QED
    BY <1>7, <1>8, <2>1, <2>2 DEF LastIs
<1> QED
  BY <1>1, <1>4, <1>6, <1>9, <1>10, <1>11 DEF CondInv

LEMMA CondLeave ==
  ASSUME CondInv, NEW p \in Both, Cond!Leave(p)
  PROVE  CondInv' /\ printed' = printed
<1>1. /\ stage[p] = "loop" /\ p \notin waiting /\ count[p] = Lines
      /\ stage' = [stage EXCEPT ![p] = IF p = "main" THEN "signal" ELSE "over"]
      /\ printed' = printed /\ spurious' = spurious /\ waiting' = waiting /\ count' = count
  BY DEF Cond!Leave, Cond!Runs
<1>2. \A q \in Both :
         stage'[q] = IF q # p THEN stage[q] ELSE IF p = "main" THEN "signal" ELSE "over"
  BY <1>1 DEF CondInv, CondTypes
<1>3. CondTypes'
  BY <1>1 DEF CondInv, CondTypes
<1>4. CondCounts'
  BY <1>1, <1>2 DEF CondInv, CondCounts
<1>5. "main" \in Both /\ Lines # 0
  BY SmallLabsAssumption DEF Both
<1>6. Asleep'
  <2>1. printed # <<>>
    BY <1>1, <1>5, CountEmpty DEF CondInv, CondCounts
  <2>2. stage'["main"] \in {"destroy", "over"} <=> stage["main"] \in {"destroy", "over"}
    BY <1>1, <1>2, <1>5
  <2>3. ASSUME ~spurious
        PROVE  \E q \in Both :
                 /\ LastIs(q) /\ Close(q)
                 /\ stage'["main"] # "loop" => q = "child"
                 /\ waiting = IF stage["main"] \in {"destroy", "over"} THEN {} ELSE {q}
    <3>1. PICK q \in Both : /\ LastIs(q) /\ Close(q)
                            /\ stage["main"] # "loop" => q = "child"
                            /\ waiting = IF stage["main"] \in {"destroy", "over"}
                                         THEN {} ELSE {q}
      BY <2>1, <2>3 DEF CondInv, Asleep
    <3>2. stage'["main"] # "loop" => q = "child"
      BY <1>1, <1>2, <1>5, <3>1 DEF Both
    <3> QED
      BY <3>1, <3>2
  <2> QED
    BY <1>1, <2>1, <2>2, <2>3 DEF Asleep, LastIs, Close
<1> QED
  BY <1>1, <1>3, <1>4, <1>6 DEF CondInv

(* The thread that main wakes at last has printed all its lines.            *)
LEMMA CondLast ==
  ASSUME CondInv, Cond!LastSignal \/ Cond!Destroy
  PROVE  CondInv' /\ printed' = printed
<1>1. /\ printed' = printed /\ spurious' = spurious /\ count' = count
      /\ \/ /\ stage["main"] = "signal" /\ waiting' = {}
            /\ stage' = [stage EXCEPT !["main"] = "destroy"]
         \/ /\ stage["main"] = "destroy" /\ waiting' = waiting
            /\ stage' = [stage EXCEPT !["main"] = "over"]
  BY DEF Cond!LastSignal, Cond!Destroy
<1>2. /\ "main" \in Both /\ Lines # 0 /\ Lines \in Int
      /\ stage["main"] # "loop" /\ stage'["main"] \in {"destroy", "over"}
      /\ stage'["child"] = stage["child"]
  BY <1>1, SmallLabsAssumption DEF CondInv, CondTypes, Both
<1>3. CondTypes'
  BY <1>1 DEF CondInv, CondTypes
<1>4. CondCounts'
  BY <1>1, <1>2 DEF CondInv, CondCounts, Both
<1>5. count["main"] = Lines
  BY <1>2 DEF CondInv, CondCounts
<1>6. Asleep'
  <2>1. SUFFICES ASSUME ~spurious PROVE Asleep'
    BY <1>1 DEF Asleep
  <2>2. printed # <<>>
    BY <1>2, <1>5, CountEmpty DEF CondInv, CondCounts
  <2>3. PICK p \in Both : /\ LastIs(p) /\ Close(p)
                          /\ stage["main"] # "loop" => p = "child"
                          /\ waiting = IF stage["main"] \in {"destroy", "over"}
                                       THEN {} ELSE {p}
    BY <2>1, <2>2 DEF CondInv, Asleep
  <2>4. p = "child"
    BY <1>2, <2>3
  <2>5. waiting' = {}
    BY <1>1, <2>3
  <2> QED
    BY <1>1, <1>2, <2>2, <2>3, <2>4, <2>5 DEF Asleep, LastIs, Close
<1> QED
  BY <1>1, <1>3, <1>4, <1>6 DEF CondInv

LEMMA CondStep ==
  ASSUME CondInv, Cond!Next, program = "lab12"
  PROVE  /\ CondInv'
         /\ \/ spurious' = spurious /\ printed' = printed
            \/ spurious' = TRUE /\ printed' = printed
            \/ /\ spurious' = spurious
               /\ \E p \in Both : /\ printed' = Append(printed, p)
                                  /\ CountIn(printed, p) < Lines
                                  /\ spurious \/ MayPrint(p)
<1>1. ASSUME NEW p \in Both, Cond!SpuriousWakeup(p) PROVE CondInv'
  <2>1. /\ spurious' = TRUE /\ waiting' = waiting \ {p}
        /\ printed' = printed /\ stage' = stage /\ count' = count
    BY <1>1 DEF Cond!SpuriousWakeup
  <2>2. CondTypes'
    BY <2>1 DEF CondInv, CondTypes
  <2> QED
    BY <2>1, <2>2 DEF CondInv, CondCounts, Asleep
<1>2. CASE \E p \in Both : Cond!Round(p)
  <2>1. PICK p \in Both : Cond!Round(p)
    BY <1>2
  <2>2. spurious' = spurious
    BY <2>1 DEF Cond!Round
  <2>3. /\ CondInv' /\ printed' = Append(printed, p)
        /\ CountIn(printed, p) < Lines
    BY <2>1, CondRound
  <2>4. spurious \/ MayPrint(p)
    BY <2>1, CondRound
  <2> QED
    BY <2>2, <2>3, <2>4
<1>3. CASE (\E p \in Both : Cond!Leave(p)) \/ Cond!LastSignal \/ Cond!Destroy
  <2>1. spurious' = spurious
    BY <1>3 DEF Cond!Leave, Cond!LastSignal, Cond!Destroy
  <2>2. CondInv' /\ printed' = printed
    <3>1. CASE \E p \in Both : Cond!Leave(p)
      BY <3>1, CondLeave
    <3>2. CASE Cond!LastSignal \/ Cond!Destroy
      BY <3>2, CondLast
    <3> QED
      BY <1>3, <3>1, <3>2
  <2> QED
    BY <2>1, <2>2
<1>4. CASE \E p \in Both : Cond!SpuriousWakeup(p)
  <2>1. spurious' = TRUE /\ printed' = printed
    BY <1>4 DEF Cond!SpuriousWakeup
  <2> QED
    BY <1>1, <1>4, <2>1
<1> QED
  BY <1>2, <1>3, <1>4, CondParties DEF Cond!Next, Cond!Main, Cond!Child, Both

LEMMA CondInit == Cond!Init /\ printed = <<>> => CondInv
<1> SUFFICES ASSUME Cond!Init, printed = <<>> PROVE CondInv
  OBVIOUS
<1>1. /\ spurious = FALSE /\ waiting = {} /\ stage = [p \in Both |-> "loop"]
      /\ count = [p \in Both |-> 0]
  BY CondParties DEF Cond!Init
<1>2. CondTypes
  <2>1. printed \in Seq(Both)
    BY EmptySeq
  <2>2. spurious \in BOOLEAN
    BY <1>1
  <2>3. /\ waiting \in SUBSET Both /\ count \in [Both -> Int]
        /\ stage \in [Both -> {"loop", "signal", "destroy", "over"}]
    BY <1>1
  <2> QED
    BY <2>1, <2>2, <2>3 DEF CondTypes
<1>3. CondCounts
  BY <1>1, CountEmpty, SmallLabsAssumption DEF CondCounts
<1>4. Asleep
  BY <1>1 DEF Asleep
<1> QED
  BY <1>2, <1>3, <1>4 DEF CondInv

LEMMA CondInvImplies == CondInv => Cond!NobodyAsleepWhenDestroyed
<1> SUFFICES ASSUME CondInv, stage["main"] \in {"destroy", "over"}, ~spurious
             PROVE  waiting = {}
  BY DEF Cond!NobodyAsleepWhenDestroyed
<1>1. printed # <<>>
  BY DEF CondInv, Asleep, Both
<1> QED
  BY <1>1 DEF CondInv, Asleep

-----------------------------------------------------------------------------
(* lab10 *)

MutexTypes ==
    /\ printed \in Seq(Both)
    /\ owner \in [0..2 -> Both \cup {"nobody"}]
    /\ place \in [Both -> 0..9]
    /\ round \in [Both -> Int]

(* Who owns a mutex can be told from the two places.                        *)
Owners ==
    /\ owner[0] = "main" <=> place["main"] \in {0, 1, 6, 7, 8, 9}
    /\ owner[1] = "main" <=> place["main"] \in {0, 1, 2, 3, 4, 8, 9}
    /\ owner[2] = "main" <=> place["main"] \in {4, 5, 6, 8}
    /\ owner[0] = "child" <=> place["child"] \in {2, 3, 4}
    /\ owner[1] = "child" <=> place["child"] \in {4, 5, 6, 7}
    /\ owner[2] = "child" <=> place["child"] \in {1, 2, 7, 9}

(* main begins when the thread has taken its first mutex.                   *)
Begun == /\ place["child"] = 0 => place["main"] \in {0, 8}
         /\ place["main"] \in {0, 8} => place["child"] \in {0, 1}
         /\ place["child"] # 8

(* The places between main's line and the thread's.                         *)
MainWasLast == \/ place["main"] \in 3..6 /\ place["child"] # 6
               \/ place["main"] = 7 /\ place["child"] = 5
LastByPlace == IF MainWasLast THEN LastIs("main") ELSE printed = <<>> \/ LastIs("child")

MutexCounts ==
    /\ CountIn(printed, "main") =
          round["main"] + (IF place["main"] \in 3..7 THEN 1 ELSE 0)
    /\ CountIn(printed, "child") =
          round["child"] + (IF place["child"] \in 6..7 THEN 1 ELSE 0)
    /\ \A p \in Both : place[p] # 9 => round[p] < Lines

MutexInv == MutexTypes /\ Owners /\ Begun /\ LastByPlace /\ MutexCounts

(* The loops, statement by statement.                                       *)
Frees(m) == owner' = [owner EXCEPT ![m] = "nobody"] /\ printed' = printed
Gets(p, m) ==
    owner[m] = "nobody" /\ owner' = [owner EXCEPT ![m] = p] /\ printed' = printed
Says(p) == owner' = owner /\ printed' = Append(printed, p)
Goes(p, i) == place' = [place EXCEPT ![p] = i] /\ round' = round
Wraps(p, i) == /\ place' = [place EXCEPT ![p] = i] /\ round' = [round EXCEPT ![p] = round[p] + 1]
               /\ i = IF round[p] + 1 = Lines THEN 9 ELSE 1

MainDoes ==
    \/ place["main"] = 1 /\ Frees(0) /\ Goes("main", 2)
    \/ place["main"] = 2 /\ Says("main") /\ Goes("main", 3)
    \/ place["main"] = 3 /\ Gets("main", 2) /\ Goes("main", 4)
    \/ place["main"] = 4 /\ Frees(1) /\ Goes("main", 5)
    \/ place["main"] = 5 /\ Gets("main", 0) /\ Goes("main", 6)
    \/ place["main"] = 6 /\ Frees(2) /\ Goes("main", 7)
    \/ place["main"] = 7 /\ Gets("main", 1) /\ \E i \in {1, 9} : Wraps("main", i)

ChildDoes ==
    \/ place["child"] = 1 /\ Gets("child", 0) /\ Goes("child", 2)
    \/ place["child"] = 2 /\ Frees(2) /\ Goes("child", 3)
    \/ place["child"] = 3 /\ Gets("child", 1) /\ Goes("child", 4)
    \/ place["child"] = 4 /\ Frees(0) /\ Goes("child", 5)
    \/ place["child"] = 5 /\ Says("child") /\ Goes("child", 6)
    \/ place["child"] = 6 /\ Gets("child", 2) /\ Goes("child", 7)
    \/ place["child"] = 7 /\ Frees(1) /\ \E i \in {1, 9} : Wraps("child", i)

MainBegins ==
    /\ place["main"] \in {0, 8} /\ printed' = printed /\ round' = round
    /\ \/ /\ place["main"] = 0 /\ owner[2] = "nobody"
          /\ owner' = [owner EXCEPT ![2] = "main"] /\ place' = [place EXCEPT !["main"] = 8]
       \/ /\ place["main"] = 0 /\ owner[2] # "nobody"
          /\ owner' = owner /\ place' = [place EXCEPT !["main"] = 1]
       \/ /\ place["main"] = 8
          /\ owner' = [owner EXCEPT ![2] = "nobody"] /\ place' = [place EXCEPT !["main"] = 0]

ChildBegins ==
    /\ place["child"] = 0 /\ owner[2] = "nobody" /\ printed' = printed /\ round' = round
    /\ owner' = [owner EXCEPT ![2] = "child"] /\ place' = [place EXCEPT !["child"] = 1]

LEMMA MainScript ==
  ASSUME program = "lab10"
  PROVE  /\ Len(Mutex!Script["main"]) = 7
         /\ Mutex!Script["main"][1] = Mutex!Unlock(0) /\ Mutex!Script["main"][2] = Mutex!Line
         /\ Mutex!Script["main"][3] = Mutex!Lock(2) /\ Mutex!Script["main"][4] = Mutex!Unlock(1)
         /\ Mutex!Script["main"][5] = Mutex!Lock(0) /\ Mutex!Script["main"][6] = Mutex!Unlock(2)
         /\ Mutex!Script["main"][7] = Mutex!Lock(1)
<1> DEFINE s == <<Mutex!Unlock(0), Mutex!Line, Mutex!Lock(2), Mutex!Unlock(1), Mutex!Lock(0),
                  Mutex!Unlock(2), Mutex!Lock(1)>>
<1>1. Mutex!Script["main"] = s
  BY DEF Mutex!Script
<1> QED
  BY <1>1

LEMMA ChildScript ==
  ASSUME program = "lab10"
  PROVE  /\ Len(Mutex!Script["child"]) = 7
         /\ Mutex!Script["child"][1] = Mutex!Lock(0)
         /\ Mutex!Script["child"][2] = Mutex!Unlock(2)
         /\ Mutex!Script["child"][3] = Mutex!Lock(1)
         /\ Mutex!Script["child"][4] = Mutex!Unlock(0)
         /\ Mutex!Script["child"][5] = Mutex!Line
         /\ Mutex!Script["child"][6] = Mutex!Lock(2)
         /\ Mutex!Script["child"][7] = Mutex!Unlock(1)
<1> DEFINE s == <<Mutex!Lock(0), Mutex!Unlock(2), Mutex!Lock(1), Mutex!Unlock(0), Mutex!Line,
                  Mutex!Lock(2), Mutex!Unlock(1)>>
<1>1. Mutex!Script["child"] = s
  BY DEF Mutex!Script
<1> QED
  BY <1>1

LEMMA Statements ==
  /\ \A m : Mutex!Lock(m).op = "lock" /\ Mutex!Lock(m).mutex = m
  /\ \A m : Mutex!Unlock(m).op = "unlock" /\ Mutex!Unlock(m).mutex = m
  /\ Mutex!Line.op = "print"
BY DEF Mutex!Lock, Mutex!Unlock, Mutex!Line

LEMMA MainReads ==
  ASSUME MutexTypes, program = "lab10", Mutex!Body("main")
  PROVE  MainDoes
<1> DEFINE i == place["main"]
<1>1. i \in 1..7
  BY MainScript DEF Mutex!Body, Mutex!DoLock, Mutex!DoUnlock, Mutex!DoPrint, Mutex!At
<1>2. IF i < 7 THEN Goes("main", i + 1) ELSE \E j \in {1, 9} : Wraps("main", j)
  <2>1. Mutex!Advance("main")
    BY DEF Mutex!Body, Mutex!DoLock, Mutex!DoUnlock, Mutex!DoPrint
  <2>2. CASE i < 7
    <3>1. place' = [place EXCEPT !["main"] = i + 1] /\ round' = round
      BY <2>1, <2>2, MainScript DEF Mutex!Advance
    <3> QED
      BY <2>2, <3>1 DEF Goes
  <2>3. CASE ~(i < 7)
    <3>1. /\ round' = [round EXCEPT !["main"] = round["main"] + 1]
          /\ place' = [place EXCEPT !["main"] = IF round'["main"] = Lines THEN 9 ELSE 1]
      BY <2>1, <2>3, MainScript DEF Mutex!Advance, Mutex!Over
    <3>2. round'["main"] = round["main"] + 1
      BY <3>1 DEF MutexTypes, Both
    <3>3. CASE round["main"] + 1 = Lines
      <4>1. Wraps("main", 9)
        BY <3>1, <3>2, <3>3 DEF Wraps
      <4> QED
        BY <2>3, <4>1
    <3>4. CASE round["main"] + 1 # Lines
      <4>1. Wraps("main", 1)
        BY <3>1, <3>2, <3>4 DEF Wraps
      <4> QED
        BY <2>3, <4>1
    <3> QED
      BY <3>3, <3>4
  <2> QED
    BY <2>2, <2>3
<1>3. CASE i \in {1, 4, 6}
  <2>1. /\ Mutex!TheMutex("main") = IF i = 1 THEN 0 ELSE IF i = 4 THEN 1 ELSE 2
        /\ ~Mutex!At("main", "lock") /\ ~Mutex!At("main", "print")
    <3>1. CASE i = 1
      BY <3>1, MainScript, Statements DEF Mutex!TheMutex, Mutex!At
    <3>2. CASE i = 4
      BY <3>2, MainScript, Statements DEF Mutex!TheMutex, Mutex!At
    <3>3. CASE i = 6
      BY <3>3, MainScript, Statements DEF Mutex!TheMutex, Mutex!At
    <3> QED
      BY <1>3, <3>1, <3>2, <3>3
  <2>2. Frees(Mutex!TheMutex("main"))
    BY <1>1, <2>1 DEF Mutex!Body, Mutex!DoLock, Mutex!DoUnlock, Mutex!DoPrint, Frees
  <2> QED
    BY <1>1, <1>2, <1>3, <2>1, <2>2 DEF MainDoes
<1>4. CASE i = 2
  <2>1. ~Mutex!At("main", "lock") /\ ~Mutex!At("main", "unlock")
    BY <1>4, MainScript, Statements DEF Mutex!At
  <2>2. Says("main")
    BY <2>1 DEF Mutex!Body, Mutex!DoLock, Mutex!DoUnlock, Mutex!DoPrint, Says
  <2> QED
    BY <1>2, <1>4, <2>2 DEF MainDoes
<1>5. CASE i \in {3, 5, 7}
  <2>1. /\ Mutex!TheMutex("main") = IF i = 3 THEN 2 ELSE IF i = 5 THEN 0 ELSE 1
        /\ ~Mutex!At("main", "unlock") /\ ~Mutex!At("main", "print")
    <3>1. CASE i = 3
      BY <3>1, MainScript, Statements DEF Mutex!TheMutex, Mutex!At
    <3>2. CASE i = 5
      BY <3>2, MainScript, Statements DEF Mutex!TheMutex, Mutex!At
    <3>3. CASE i = 7
      BY <3>3, MainScript, Statements DEF Mutex!TheMutex, Mutex!At
    <3> QED
      BY <1>5, <3>1, <3>2, <3>3
  <2>2. Gets("main", Mutex!TheMutex("main"))
    BY <1>1, <2>1 DEF Mutex!Body, Mutex!DoLock, Mutex!DoUnlock, Mutex!DoPrint, Gets
  <2> QED
    BY <1>1, <1>2, <1>5, <2>1, <2>2 DEF MainDoes
<1> QED
  BY <1>1, <1>3, <1>4, <1>5

LEMMA ChildReads ==
  ASSUME MutexTypes, program = "lab10", Mutex!Body("child")
  PROVE  ChildDoes
<1> DEFINE i == place["child"]
<1>1. i \in 1..7
  BY ChildScript DEF Mutex!Body, Mutex!DoLock, Mutex!DoUnlock, Mutex!DoPrint, Mutex!At
<1>2. IF i < 7 THEN Goes("child", i + 1) ELSE \E j \in {1, 9} : Wraps("child", j)
  <2>1. Mutex!Advance("child")
    BY DEF Mutex!Body, Mutex!DoLock, Mutex!DoUnlock, Mutex!DoPrint
  <2>2. CASE i < 7
    <3>1. place' = [place EXCEPT !["child"] = i + 1] /\ round' = round
      BY <2>1, <2>2, ChildScript DEF Mutex!Advance
    <3> QED
      BY <2>2, <3>1 DEF Goes
  <2>3. CASE ~(i < 7)
    <3>1. /\ round' = [round EXCEPT !["child"] = round["child"] + 1]
          /\ place' = [place EXCEPT !["child"] = IF round'["child"] = Lines THEN 9 ELSE 1]
      BY <2>1, <2>3, ChildScript DEF Mutex!Advance, Mutex!Over
    <3>2. round'["child"] = round["child"] + 1
      BY <3>1 DEF MutexTypes, Both
    <3>3. CASE round["child"] + 1 = Lines
      <4>1. Wraps("child", 9)
        BY <3>1, <3>2, <3>3 DEF Wraps
      <4> QED
        BY <2>3, <4>1
    <3>4. CASE round["child"] + 1 # Lines
      <4>1. Wraps("child", 1)
        BY <3>1, <3>2, <3>4 DEF Wraps
      <4> QED
        BY <2>3, <4>1
    <3> QED
      BY <3>3, <3>4
  <2> QED
    BY <2>2, <2>3
<1>3. CASE i \in {2, 4, 7}
  <2>1. /\ Mutex!TheMutex("child") = IF i = 2 THEN 2 ELSE IF i = 4 THEN 0 ELSE 1
        /\ ~Mutex!At("child", "lock") /\ ~Mutex!At("child", "print")
    <3>1. CASE i = 2
      BY <3>1, ChildScript, Statements DEF Mutex!TheMutex, Mutex!At
    <3>2. CASE i = 4
      BY <3>2, ChildScript, Statements DEF Mutex!TheMutex, Mutex!At
    <3>3. CASE i = 7
      BY <3>3, ChildScript, Statements DEF Mutex!TheMutex, Mutex!At
    <3> QED
      BY <1>3, <3>1, <3>2, <3>3
  <2>2. Frees(Mutex!TheMutex("child"))
    BY <1>1, <2>1 DEF Mutex!Body, Mutex!DoLock, Mutex!DoUnlock, Mutex!DoPrint, Frees
  <2> QED
    BY <1>1, <1>2, <1>3, <2>1, <2>2 DEF ChildDoes
<1>4. CASE i = 5
  <2>1. ~Mutex!At("child", "lock") /\ ~Mutex!At("child", "unlock")
    BY <1>4, ChildScript, Statements DEF Mutex!At
  <2>2. Says("child")
    BY <2>1 DEF Mutex!Body, Mutex!DoLock, Mutex!DoUnlock, Mutex!DoPrint, Says
  <2> QED
    BY <1>2, <1>4, <2>2 DEF ChildDoes
<1>5. CASE i \in {1, 3, 6}
  <2>1. /\ Mutex!TheMutex("child") = IF i = 1 THEN 0 ELSE IF i = 3 THEN 1 ELSE 2
        /\ ~Mutex!At("child", "unlock") /\ ~Mutex!At("child", "print")
    <3>1. CASE i = 1
      BY <3>1, ChildScript, Statements DEF Mutex!TheMutex, Mutex!At
    <3>2. CASE i = 3
      BY <3>2, ChildScript, Statements DEF Mutex!TheMutex, Mutex!At
    <3>3. CASE i = 6
      BY <3>3, ChildScript, Statements DEF Mutex!TheMutex, Mutex!At
    <3> QED
      BY <1>5, <3>1, <3>2, <3>3
  <2>2. Gets("child", Mutex!TheMutex("child"))
    BY <1>1, <2>1 DEF Mutex!Body, Mutex!DoLock, Mutex!DoUnlock, Mutex!DoPrint, Gets
  <2> QED
    BY <1>1, <1>2, <1>5, <2>1, <2>2 DEF ChildDoes
<1> QED
  BY <1>1, <1>3, <1>4, <1>5

LEMMA MutexNext ==
  ASSUME MutexTypes, program = "lab10", Mutex!Next
  PROVE  MainDoes \/ ChildDoes \/ MainBegins \/ ChildBegins
<1>1. CASE Mutex!TryLock \/ Mutex!GiveTwoBack
  BY <1>1 DEF Mutex!TryLock, Mutex!GiveTwoBack, Mutex!Prologue, Mutex!GotTwo, MainBegins
<1>2. CASE Mutex!LockTwoFirst
  BY <1>2 DEF Mutex!LockTwoFirst, Mutex!Prologue, ChildBegins
<1> QED
  BY <1>1, <1>2, MainReads, ChildReads DEF Mutex!Next, Mutex!Main, Mutex!Child

LEMMA MutexInit == Mutex!Init /\ program = "lab10" /\ printed = <<>> => MutexInv
<1> SUFFICES ASSUME Mutex!Init, program = "lab10", printed = <<>> PROVE MutexInv
  OBVIOUS
<1>1. /\ owner = [m \in 0..2 |-> IF m = 2 THEN "nobody" ELSE "main"]
      /\ place = [p \in Both |-> 0] /\ round = [p \in Both |-> 0]
  BY DEF Mutex!Init, Mutex!Parties, Mutex!Prologue, Both
<1>2. /\ owner[0] = "main" /\ owner[1] = "main" /\ owner[2] = "nobody"
      /\ place["main"] = 0 /\ place["child"] = 0 /\ round["main"] = 0 /\ round["child"] = 0
  BY <1>1 DEF Both
<1>3. MutexTypes
  <2>1. printed \in Seq(Both)
    BY EmptySeq
  <2>2. owner \in [0..2 -> Both \cup {"nobody"}]
    BY <1>1 DEF Both
  <2> QED
    BY <1>1, <2>1, <2>2 DEF MutexTypes
<1>4. Owners /\ Begun /\ LastByPlace
  BY <1>2 DEF Owners, Begun, LastByPlace, MainWasLast
<1>5. MutexCounts
  BY <1>2, CountEmpty, SmallLabsAssumption DEF MutexCounts, Both
<1> QED
  BY <1>3, <1>4, <1>5 DEF MutexInv

(* What is known of the next state, by party.                               *)
LEMMA PlaceMoves ==
  ASSUME MutexTypes, NEW p \in Both, NEW i \in 0..9, place' = [place EXCEPT ![p] = i]
  PROVE  /\ place' \in [Both -> 0..9]
         /\ place'[p] = i /\ \A q \in Both : q # p => place'[q] = place[q]
         /\ place["main"] \in 0..9 /\ place["child"] \in 0..9
BY DEF MutexTypes, Both

LEMMA OwnerMoves ==
  ASSUME MutexTypes, NEW m \in 0..2, NEW o \in Both \cup {"nobody"},
         owner' = [owner EXCEPT ![m] = o]
  PROVE  /\ owner' \in [0..2 -> Both \cup {"nobody"}]
         /\ owner'[m] = o /\ \A n \in 0..2 : n # m => owner'[n] = owner[n]
BY DEF MutexTypes

(* A lock taken or given back, and nothing printed.                         *)
LEMMA SilentKeeps ==
  ASSUME MutexInv, NEW p \in Both, NEW i \in 0..9, printed' = printed,
         owner' \in [0..2 -> Both \cup {"nobody"}], round' \in [Both -> Int],
         place' = [place EXCEPT ![p] = i],
         Owners', Begun', MainWasLast' <=> MainWasLast, MutexCounts'
  PROVE  MutexInv'
<1>1. MutexTypes'
  BY PlaceMoves DEF MutexInv, MutexTypes
<1>2. LastByPlace'
  BY DEF MutexInv, LastByPlace, LastIs
<1> QED
  BY <1>1, <1>2 DEF MutexInv

(* The loop of main. *)
LEMMA MainKeeps ==
  ASSUME MutexInv, program = "lab10", MainDoes
  PROVE  /\ MutexInv'
         /\ printed' = printed \/ Line("main")
<1>1. /\ MutexTypes /\ Owners /\ Begun /\ LastByPlace /\ MutexCounts
      /\ "main" \in Both /\ "child" \in Both /\ "main" # "child"
      /\ \A r \in Both : r = "main" \/ r = "child"
  BY DEF MutexInv, Both
<1>2. CASE place["main"] = 1 /\ Frees(0) /\ Goes("main", 2)
  <2>2. /\ owner' = [owner EXCEPT ![0] = "nobody"] /\ printed' = printed
        /\ place' = [place EXCEPT !["main"] = 2] /\ round' = round
    BY <1>2 DEF Frees, Goes
  <2>3. /\ place'["main"] = 2 /\ place'["child"] = place["child"]
        /\ place["child"] \in 0..9 /\ 2 \in 0..9
    BY <1>1, <2>2 DEF MutexTypes
  <2>4. /\ owner' \in [0..2 -> Both \cup {"nobody"}] /\ owner'[0] = "nobody"
        /\ owner'[1] = owner[1] /\ owner'[2] = owner[2]
    BY <1>1, <2>2 DEF MutexTypes
  <2>5. Owners'
    BY <1>1, <1>2, <2>2, <2>3, <2>4 DEF Owners
  <2>6. Begun'
    BY <1>1, <1>2, <2>2, <2>3, <2>4 DEF Owners, Begun
  <2>7. MainWasLast' <=> MainWasLast
    BY <1>1, <1>2, <2>2, <2>3, <2>4 DEF Owners, Begun, MainWasLast
  <2>8. round' \in [Both -> Int]
    BY <1>1, <2>2 DEF MutexTypes
  <2>9. MutexCounts'
    BY <1>1, <1>2, <2>2, <2>3 DEF MutexCounts, Both
  <2> QED
    BY <2>2, <2>3, <2>4, <2>5, <2>6, <2>7, <2>8, <2>9, SilentKeeps, <1>1
<1>3. CASE place["main"] = 2 /\ Says("main") /\ Goes("main", 3)
  <2>1. /\ owner' = owner /\ printed' = Append(printed, "main") /\ round' = round
        /\ place' = [place EXCEPT !["main"] = 3]
    BY <1>3 DEF Says, Goes
  <2>2. /\ place'["main"] = 3 /\ place'["child"] = place["child"]
        /\ place' \in [Both -> 0..9] /\ place["child"] \in 0..9
    BY <1>1, <2>1 DEF MutexTypes
  <2>3. Owners' /\ Begun'
    BY <1>1, <1>3, <2>1, <2>2 DEF Owners, Begun
  <2>4. MainWasLast' /\ ~MainWasLast
    BY <1>1, <1>3, <2>1, <2>2 DEF Owners, Begun, MainWasLast
  <2>5. /\ printed' \in Seq(Both)
        /\ \A r \in Both : LastIs(r)' <=> r = "main"
        /\ \A r \in Both : /\ CountIn(printed, r) \in Nat
                           /\ CountIn(printed', r) =
                                 CountIn(printed, r) + (IF "main" = r THEN 1 ELSE 0)
    BY <1>1, <2>1, AfterLine DEF MutexTypes
  <2>6. MutexTypes'
    BY <1>1, <2>1, <2>2, <2>5 DEF MutexTypes
  <2>7. LastByPlace'
    BY <1>1, <2>4, <2>5 DEF LastByPlace
  <2>8. MutexCounts'
    <3>1. /\ CountIn(printed', "main") = CountIn(printed, "main") + 1
          /\ CountIn(printed', "child") = CountIn(printed, "child")
          /\ \A r \in Both : round'[r] = round[r] /\ round[r] \in Int
      <4>1. /\ CountIn(printed, "main") \in Nat /\ CountIn(printed, "child") \in Nat
            /\ CountIn(printed', "main") = CountIn(printed, "main") + 1
        BY <1>1, <2>5
      <4>2. CountIn(printed', "child") = CountIn(printed, "child") + 0
        BY <1>1, <2>5
      <4>3. \A r \in Both : round'[r] = round[r] /\ round[r] \in Int
        BY <1>1, <2>1 DEF MutexTypes
      <4> QED
        BY <4>1, <4>2, <4>3
    <3>2. CountIn(printed', "main") = round'["main"] + 1
      BY <1>1, <1>3, <3>1 DEF MutexCounts
    <3>3. \A r \in Both : place'[r] # 9 => round'[r] < Lines
      BY <1>1, <1>3, <2>2, <3>1 DEF MutexCounts
    <3> QED
      BY <1>1, <2>2, <3>1, <3>2, <3>3 DEF MutexCounts
  <2>9. MayPrint("main")
    <3>1. CountIn(printed, "main") < Lines
      BY <1>1, <1>3 DEF MutexCounts, MutexTypes
    <3>2. printed # <<>> => printed[Len(printed)] # "main"
      BY <1>1, <2>4 DEF LastByPlace, LastIs
    <3>3. "main" \in Starters
      BY DEF Starters
    <3> QED
      BY <3>1, <3>2, <3>3 DEF MayPrint
  <2> QED
    BY <2>1, <2>3, <2>6, <2>7, <2>8, <2>9 DEF MutexInv, Line
<1>4. CASE place["main"] = 3 /\ Gets("main", 2) /\ Goes("main", 4)
  <2>2. /\ owner[2] = "nobody" /\ owner' = [owner EXCEPT ![2] = "main"] /\ printed' = printed
        /\ place' = [place EXCEPT !["main"] = 4] /\ round' = round
    BY <1>4 DEF Gets, Goes
  <2>3. /\ place'["main"] = 4 /\ place'["child"] = place["child"]
        /\ place["child"] \in 0..9 /\ 4 \in 0..9
    BY <1>1, <2>2 DEF MutexTypes
  <2>4. /\ owner' \in [0..2 -> Both \cup {"nobody"}] /\ owner'[2] = "main"
        /\ owner'[0] = owner[0] /\ owner'[1] = owner[1]
    BY <1>1, <2>2 DEF MutexTypes
  <2>5. Owners'
    BY <1>1, <1>4, <2>2, <2>3, <2>4 DEF Owners
  <2>6. Begun'
    BY <1>1, <1>4, <2>2, <2>3, <2>4 DEF Owners, Begun
  <2>7. MainWasLast' <=> MainWasLast
    BY <1>1, <1>4, <2>2, <2>3, <2>4 DEF Owners, Begun, MainWasLast
  <2>8. round' \in [Both -> Int]
    BY <1>1, <2>2 DEF MutexTypes
  <2>9. MutexCounts'
    BY <1>1, <1>4, <2>2, <2>3 DEF MutexCounts, Both
  <2> QED
    BY <2>2, <2>3, <2>4, <2>5, <2>6, <2>7, <2>8, <2>9, SilentKeeps, <1>1
<1>5. CASE place["main"] = 4 /\ Frees(1) /\ Goes("main", 5)
  <2>2. /\ owner' = [owner EXCEPT ![1] = "nobody"] /\ printed' = printed
        /\ place' = [place EXCEPT !["main"] = 5] /\ round' = round
    BY <1>5 DEF Frees, Goes
  <2>3. /\ place'["main"] = 5 /\ place'["child"] = place["child"]
        /\ place["child"] \in 0..9 /\ 5 \in 0..9
    BY <1>1, <2>2 DEF MutexTypes
  <2>4. /\ owner' \in [0..2 -> Both \cup {"nobody"}] /\ owner'[1] = "nobody"
        /\ owner'[0] = owner[0] /\ owner'[2] = owner[2]
    BY <1>1, <2>2 DEF MutexTypes
  <2>5. Owners'
    BY <1>1, <1>5, <2>2, <2>3, <2>4 DEF Owners
  <2>6. Begun'
    BY <1>1, <1>5, <2>2, <2>3, <2>4 DEF Owners, Begun
  <2>7. MainWasLast' <=> MainWasLast
    BY <1>1, <1>5, <2>2, <2>3, <2>4 DEF Owners, Begun, MainWasLast
  <2>8. round' \in [Both -> Int]
    BY <1>1, <2>2 DEF MutexTypes
  <2>9. MutexCounts'
    BY <1>1, <1>5, <2>2, <2>3 DEF MutexCounts, Both
  <2> QED
    BY <2>2, <2>3, <2>4, <2>5, <2>6, <2>7, <2>8, <2>9, SilentKeeps, <1>1
<1>6. CASE place["main"] = 5 /\ Gets("main", 0) /\ Goes("main", 6)
  <2>2. /\ owner[0] = "nobody" /\ owner' = [owner EXCEPT ![0] = "main"] /\ printed' = printed
        /\ place' = [place EXCEPT !["main"] = 6] /\ round' = round
    BY <1>6 DEF Gets, Goes
  <2>3. /\ place'["main"] = 6 /\ place'["child"] = place["child"]
        /\ place["child"] \in 0..9 /\ 6 \in 0..9
    BY <1>1, <2>2 DEF MutexTypes
  <2>4. /\ owner' \in [0..2 -> Both \cup {"nobody"}] /\ owner'[0] = "main"
        /\ owner'[1] = owner[1] /\ owner'[2] = owner[2]
    BY <1>1, <2>2 DEF MutexTypes
  <2>5. Owners'
    BY <1>1, <1>6, <2>2, <2>3, <2>4 DEF Owners
  <2>6. Begun'
    BY <1>1, <1>6, <2>2, <2>3, <2>4 DEF Owners, Begun
  <2>7. MainWasLast' <=> MainWasLast
    BY <1>1, <1>6, <2>2, <2>3, <2>4 DEF Owners, Begun, MainWasLast
  <2>8. round' \in [Both -> Int]
    BY <1>1, <2>2 DEF MutexTypes
  <2>9. MutexCounts'
    BY <1>1, <1>6, <2>2, <2>3 DEF MutexCounts, Both
  <2> QED
    BY <2>2, <2>3, <2>4, <2>5, <2>6, <2>7, <2>8, <2>9, SilentKeeps, <1>1
<1>7. CASE place["main"] = 6 /\ Frees(2) /\ Goes("main", 7)
  <2>2. /\ owner' = [owner EXCEPT ![2] = "nobody"] /\ printed' = printed
        /\ place' = [place EXCEPT !["main"] = 7] /\ round' = round
    BY <1>7 DEF Frees, Goes
  <2>3. /\ place'["main"] = 7 /\ place'["child"] = place["child"]
        /\ place["child"] \in 0..9 /\ 7 \in 0..9
    BY <1>1, <2>2 DEF MutexTypes
  <2>4. /\ owner' \in [0..2 -> Both \cup {"nobody"}] /\ owner'[2] = "nobody"
        /\ owner'[0] = owner[0] /\ owner'[1] = owner[1]
    BY <1>1, <2>2 DEF MutexTypes
  <2>5. Owners'
    BY <1>1, <1>7, <2>2, <2>3, <2>4 DEF Owners
  <2>6. Begun'
    BY <1>1, <1>7, <2>2, <2>3, <2>4 DEF Owners, Begun
  <2>7. MainWasLast' <=> MainWasLast
    <3>1. place["child"] \in {5, 6}
      BY <1>1, <1>7, <2>3 DEF Owners, Begun
    <3> QED
      BY <1>7, <2>3, <3>1 DEF MainWasLast
  <2>8. round' \in [Both -> Int]
    BY <1>1, <2>2 DEF MutexTypes
  <2>9. MutexCounts'
    BY <1>1, <1>7, <2>2, <2>3 DEF MutexCounts, Both
  <2> QED
    BY <2>2, <2>3, <2>4, <2>5, <2>6, <2>7, <2>8, <2>9, SilentKeeps, <1>1
<1>8. CASE place["main"] = 7 /\ Gets("main", 1) /\ \E i \in {1, 9} : Wraps("main", i)
  <2>1. PICK i \in {1, 9} : Wraps("main", i)
    BY <1>8
  <2>2. /\ owner[1] = "nobody" /\ owner' = [owner EXCEPT ![1] = "main"] /\ printed' = printed
        /\ place' = [place EXCEPT !["main"] = i]
        /\ round' = [round EXCEPT !["main"] = round["main"] + 1]
        /\ i = IF round["main"] + 1 = Lines THEN 9 ELSE 1
    BY <1>8, <2>1 DEF Gets, Wraps
  <2>3. /\ place'["main"] = i /\ place'["child"] = place["child"]
        /\ place["child"] \in 0..9 /\ i \in 0..9
    BY <1>1, <2>2 DEF MutexTypes
  <2>4. /\ owner' \in [0..2 -> Both \cup {"nobody"}] /\ owner'[1] = "main"
        /\ owner'[0] = owner[0] /\ owner'[2] = owner[2]
    BY <1>1, <2>2 DEF MutexTypes
  <2>5. Owners'
    BY <1>1, <1>8, <2>2, <2>3, <2>4 DEF Owners
  <2>6. Begun'
    BY <1>1, <1>8, <2>2, <2>3, <2>4 DEF Owners, Begun
  <2>7. MainWasLast' <=> MainWasLast
    BY <1>1, <1>8, <2>2, <2>3, <2>4 DEF Owners, Begun, MainWasLast
  <2>8. round' \in [Both -> Int]
    BY <1>1, <2>2 DEF MutexTypes
  <2>9. round'["main"] = round["main"] + 1 /\ round'["child"] = round["child"]
        /\ round["main"] \in Int /\ round["child"] \in Int
    BY <1>1, <2>2 DEF MutexTypes
  <2>10. MutexCounts'
    BY <1>1, <1>8, <2>2, <2>3, <2>9, SmallLabsAssumption DEF MutexCounts
  <2> QED
    BY <2>2, <2>3, <2>4, <2>5, <2>6, <2>7, <2>8, <2>10, SilentKeeps, <1>1
<1> QED
  BY <1>2, <1>3, <1>4, <1>5, <1>6, <1>7, <1>8 DEF MainDoes

(* The loop of the thread. *)
LEMMA ChildKeeps ==
  ASSUME MutexInv, program = "lab10", ChildDoes
  PROVE  /\ MutexInv'
         /\ printed' = printed \/ Line("child")
<1>1. /\ MutexTypes /\ Owners /\ Begun /\ LastByPlace /\ MutexCounts
      /\ "main" \in Both /\ "child" \in Both /\ "child" # "main"
      /\ \A r \in Both : r = "child" \/ r = "main"
  BY DEF MutexInv, Both
<1>2. CASE place["child"] = 1 /\ Gets("child", 0) /\ Goes("child", 2)
  <2>2. /\ owner[0] = "nobody" /\ owner' = [owner EXCEPT ![0] = "child"] /\ printed' = printed
        /\ place' = [place EXCEPT !["child"] = 2] /\ round' = round
    BY <1>2 DEF Gets, Goes
  <2>3. /\ place'["child"] = 2 /\ place'["main"] = place["main"]
        /\ place["main"] \in 0..9 /\ 2 \in 0..9
    BY <1>1, <2>2 DEF MutexTypes
  <2>4. /\ owner' \in [0..2 -> Both \cup {"nobody"}] /\ owner'[0] = "child"
        /\ owner'[1] = owner[1] /\ owner'[2] = owner[2]
    BY <1>1, <2>2 DEF MutexTypes
  <2>5. Owners'
    BY <1>1, <1>2, <2>2, <2>3, <2>4 DEF Owners
  <2>6. Begun'
    BY <1>1, <1>2, <2>2, <2>3, <2>4 DEF Owners, Begun
  <2>7. MainWasLast' <=> MainWasLast
    BY <1>1, <1>2, <2>2, <2>3, <2>4 DEF Owners, Begun, MainWasLast
  <2>8. round' \in [Both -> Int]
    BY <1>1, <2>2 DEF MutexTypes
  <2>9. MutexCounts'
    BY <1>1, <1>2, <2>2, <2>3 DEF MutexCounts, Both
  <2> QED
    BY <2>2, <2>3, <2>4, <2>5, <2>6, <2>7, <2>8, <2>9, SilentKeeps, <1>1
<1>3. CASE place["child"] = 2 /\ Frees(2) /\ Goes("child", 3)
  <2>2. /\ owner' = [owner EXCEPT ![2] = "nobody"] /\ printed' = printed
        /\ place' = [place EXCEPT !["child"] = 3] /\ round' = round
    BY <1>3 DEF Frees, Goes
  <2>3. /\ place'["child"] = 3 /\ place'["main"] = place["main"]
        /\ place["main"] \in 0..9 /\ 3 \in 0..9
    BY <1>1, <2>2 DEF MutexTypes
  <2>4. /\ owner' \in [0..2 -> Both \cup {"nobody"}] /\ owner'[2] = "nobody"
        /\ owner'[0] = owner[0] /\ owner'[1] = owner[1]
    BY <1>1, <2>2 DEF MutexTypes
  <2>5. Owners'
    BY <1>1, <1>3, <2>2, <2>3, <2>4 DEF Owners
  <2>6. Begun'
    BY <1>1, <1>3, <2>2, <2>3, <2>4 DEF Owners, Begun
  <2>7. MainWasLast' <=> MainWasLast
    BY <1>1, <1>3, <2>2, <2>3, <2>4 DEF Owners, Begun, MainWasLast
  <2>8. round' \in [Both -> Int]
    BY <1>1, <2>2 DEF MutexTypes
  <2>9. MutexCounts'
    BY <1>1, <1>3, <2>2, <2>3 DEF MutexCounts, Both
  <2> QED
    BY <2>2, <2>3, <2>4, <2>5, <2>6, <2>7, <2>8, <2>9, SilentKeeps, <1>1
<1>4. CASE place["child"] = 3 /\ Gets("child", 1) /\ Goes("child", 4)
  <2>2. /\ owner[1] = "nobody" /\ owner' = [owner EXCEPT ![1] = "child"] /\ printed' = printed
        /\ place' = [place EXCEPT !["child"] = 4] /\ round' = round
    BY <1>4 DEF Gets, Goes
  <2>3. /\ place'["child"] = 4 /\ place'["main"] = place["main"]
        /\ place["main"] \in 0..9 /\ 4 \in 0..9
    BY <1>1, <2>2 DEF MutexTypes
  <2>4. /\ owner' \in [0..2 -> Both \cup {"nobody"}] /\ owner'[1] = "child"
        /\ owner'[0] = owner[0] /\ owner'[2] = owner[2]
    BY <1>1, <2>2 DEF MutexTypes
  <2>5. Owners'
    BY <1>1, <1>4, <2>2, <2>3, <2>4 DEF Owners
  <2>6. Begun'
    BY <1>1, <1>4, <2>2, <2>3, <2>4 DEF Owners, Begun
  <2>7. MainWasLast' <=> MainWasLast
    BY <1>1, <1>4, <2>2, <2>3, <2>4 DEF Owners, Begun, MainWasLast
  <2>8. round' \in [Both -> Int]
    BY <1>1, <2>2 DEF MutexTypes
  <2>9. MutexCounts'
    BY <1>1, <1>4, <2>2, <2>3 DEF MutexCounts, Both
  <2> QED
    BY <2>2, <2>3, <2>4, <2>5, <2>6, <2>7, <2>8, <2>9, SilentKeeps, <1>1
<1>5. CASE place["child"] = 4 /\ Frees(0) /\ Goes("child", 5)
  <2>2. /\ owner' = [owner EXCEPT ![0] = "nobody"] /\ printed' = printed
        /\ place' = [place EXCEPT !["child"] = 5] /\ round' = round
    BY <1>5 DEF Frees, Goes
  <2>3. /\ place'["child"] = 5 /\ place'["main"] = place["main"]
        /\ place["main"] \in 0..9 /\ 5 \in 0..9
    BY <1>1, <2>2 DEF MutexTypes
  <2>4. /\ owner' \in [0..2 -> Both \cup {"nobody"}] /\ owner'[0] = "nobody"
        /\ owner'[1] = owner[1] /\ owner'[2] = owner[2]
    BY <1>1, <2>2 DEF MutexTypes
  <2>5. Owners'
    BY <1>1, <1>5, <2>2, <2>3, <2>4 DEF Owners
  <2>6. Begun'
    BY <1>1, <1>5, <2>2, <2>3, <2>4 DEF Owners, Begun
  <2>7. MainWasLast' <=> MainWasLast
    BY <1>1, <1>5, <2>2, <2>3, <2>4 DEF Owners, Begun, MainWasLast
  <2>8. round' \in [Both -> Int]
    BY <1>1, <2>2 DEF MutexTypes
  <2>9. MutexCounts'
    BY <1>1, <1>5, <2>2, <2>3 DEF MutexCounts, Both
  <2> QED
    BY <2>2, <2>3, <2>4, <2>5, <2>6, <2>7, <2>8, <2>9, SilentKeeps, <1>1
<1>6. CASE place["child"] = 5 /\ Says("child") /\ Goes("child", 6)
  <2>1. /\ owner' = owner /\ printed' = Append(printed, "child") /\ round' = round
        /\ place' = [place EXCEPT !["child"] = 6]
    BY <1>6 DEF Says, Goes
  <2>2. /\ place'["child"] = 6 /\ place'["main"] = place["main"]
        /\ place' \in [Both -> 0..9] /\ place["main"] \in 0..9
    BY <1>1, <2>1 DEF MutexTypes
  <2>3. Owners' /\ Begun'
    BY <1>1, <1>6, <2>1, <2>2 DEF Owners, Begun
  <2>4. ~MainWasLast' /\ MainWasLast
    BY <1>1, <1>6, <2>1, <2>2 DEF Owners, Begun, MainWasLast
  <2>5. /\ printed' \in Seq(Both)
        /\ \A r \in Both : LastIs(r)' <=> r = "child"
        /\ \A r \in Both : /\ CountIn(printed, r) \in Nat
                           /\ CountIn(printed', r) =
                                 CountIn(printed, r) + (IF "child" = r THEN 1 ELSE 0)
    BY <1>1, <2>1, AfterLine DEF MutexTypes
  <2>6. MutexTypes'
    BY <1>1, <2>1, <2>2, <2>5 DEF MutexTypes
  <2>7. LastByPlace'
    BY <1>1, <2>4, <2>5 DEF LastByPlace
  <2>8. MutexCounts'
    <3>1. /\ CountIn(printed', "child") = CountIn(printed, "child") + 1
          /\ CountIn(printed', "main") = CountIn(printed, "main")
          /\ \A r \in Both : round'[r] = round[r] /\ round[r] \in Int
      <4>1. /\ CountIn(printed, "main") \in Nat /\ CountIn(printed, "child") \in Nat
            /\ CountIn(printed', "child") = CountIn(printed, "child") + 1
        BY <1>1, <2>5
      <4>2. CountIn(printed', "main") = CountIn(printed, "main") + 0
        BY <1>1, <2>5
      <4>3. \A r \in Both : round'[r] = round[r] /\ round[r] \in Int
        BY <1>1, <2>1 DEF MutexTypes
      <4> QED
        BY <4>1, <4>2, <4>3
    <3>2. CountIn(printed', "child") = round'["child"] + 1
      BY <1>1, <1>6, <3>1 DEF MutexCounts
    <3>3. \A r \in Both : place'[r] # 9 => round'[r] < Lines
      BY <1>1, <1>6, <2>2, <3>1 DEF MutexCounts
    <3> QED
      BY <1>1, <2>2, <3>1, <3>2, <3>3 DEF MutexCounts
  <2>9. MayPrint("child")
    <3>1. CountIn(printed, "child") < Lines
      BY <1>1, <1>6 DEF MutexCounts, MutexTypes
    <3>2. printed # <<>> => printed[Len(printed)] # "child"
      BY <1>1, <2>4 DEF LastByPlace, LastIs
    <3>3. printed # <<>>
      BY <1>1, <2>4 DEF LastByPlace, LastIs
    <3> QED
      BY <3>1, <3>2, <3>3 DEF MayPrint
  <2> QED
    BY <2>1, <2>3, <2>6, <2>7, <2>8, <2>9 DEF MutexInv, Line
<1>7. CASE place["child"] = 6 /\ Gets("child", 2) /\ Goes("child", 7)
  <2>2. /\ owner[2] = "nobody" /\ owner' = [owner EXCEPT ![2] = "child"] /\ printed' = printed
        /\ place' = [place EXCEPT !["child"] = 7] /\ round' = round
    BY <1>7 DEF Gets, Goes
  <2>3. /\ place'["child"] = 7 /\ place'["main"] = place["main"]
        /\ place["main"] \in 0..9 /\ 7 \in 0..9
    BY <1>1, <2>2 DEF MutexTypes
  <2>4. /\ owner' \in [0..2 -> Both \cup {"nobody"}] /\ owner'[2] = "child"
        /\ owner'[0] = owner[0] /\ owner'[1] = owner[1]
    BY <1>1, <2>2 DEF MutexTypes
  <2>5. Owners'
    BY <1>1, <1>7, <2>2, <2>3, <2>4 DEF Owners
  <2>6. Begun'
    BY <1>1, <1>7, <2>2, <2>3, <2>4 DEF Owners, Begun
  <2>7. MainWasLast' <=> MainWasLast
    BY <1>1, <1>7, <2>2, <2>3, <2>4 DEF Owners, Begun, MainWasLast
  <2>8. round' \in [Both -> Int]
    BY <1>1, <2>2 DEF MutexTypes
  <2>9. MutexCounts'
    BY <1>1, <1>7, <2>2, <2>3 DEF MutexCounts, Both
  <2> QED
    BY <2>2, <2>3, <2>4, <2>5, <2>6, <2>7, <2>8, <2>9, SilentKeeps, <1>1
<1>8. CASE place["child"] = 7 /\ Frees(1) /\ \E i \in {1, 9} : Wraps("child", i)
  <2>1. PICK i \in {1, 9} : Wraps("child", i)
    BY <1>8
  <2>2. /\ owner' = [owner EXCEPT ![1] = "nobody"] /\ printed' = printed
        /\ place' = [place EXCEPT !["child"] = i]
        /\ round' = [round EXCEPT !["child"] = round["child"] + 1]
        /\ i = IF round["child"] + 1 = Lines THEN 9 ELSE 1
    BY <1>8, <2>1 DEF Frees, Wraps
  <2>3. /\ place'["child"] = i /\ place'["main"] = place["main"]
        /\ place["main"] \in 0..9 /\ i \in 0..9
    BY <1>1, <2>2 DEF MutexTypes
  <2>4. /\ owner' \in [0..2 -> Both \cup {"nobody"}] /\ owner'[1] = "nobody"
        /\ owner'[0] = owner[0] /\ owner'[2] = owner[2]
    BY <1>1, <2>2 DEF MutexTypes
  <2>5. Owners'
    BY <1>1, <1>8, <2>2, <2>3, <2>4 DEF Owners
  <2>6. Begun'
    BY <1>1, <1>8, <2>2, <2>3, <2>4 DEF Owners, Begun
  <2>7. MainWasLast' <=> MainWasLast
    BY <1>1, <1>8, <2>2, <2>3, <2>4 DEF Owners, Begun, MainWasLast
  <2>8. round' \in [Both -> Int]
    BY <1>1, <2>2 DEF MutexTypes
  <2>9. round'["child"] = round["child"] + 1 /\ round'["main"] = round["main"]
        /\ round["child"] \in Int /\ round["main"] \in Int
    BY <1>1, <2>2 DEF MutexTypes
  <2>10. MutexCounts'
    BY <1>1, <1>8, <2>2, <2>3, <2>9, SmallLabsAssumption DEF MutexCounts
  <2> QED
    BY <2>2, <2>3, <2>4, <2>5, <2>6, <2>7, <2>8, <2>10, SilentKeeps, <1>1
<1> QED
  BY <1>2, <1>3, <1>4, <1>5, <1>6, <1>7, <1>8 DEF ChildDoes

(* main waits for the thread to have its first mutex. *)
LEMMA BeginKeeps ==
  ASSUME MutexInv, MainBegins \/ ChildBegins
  PROVE  MutexInv' /\ printed' = printed
<1>1. /\ MutexTypes /\ Owners /\ Begun /\ LastByPlace /\ MutexCounts
      /\ "main" \in Both /\ "child" \in Both
  BY DEF MutexInv, Both
<1>2. printed' = printed /\ round' = round /\ round' \in [Both -> Int]
  BY <1>1 DEF MainBegins, ChildBegins, MutexTypes
<1>3. ASSUME NEW p \in Both, NEW i \in 0..9, place' = [place EXCEPT ![p] = i],
             owner' \in [0..2 -> Both \cup {"nobody"}],
             p = "main" => place["main"] \in {0, 8} /\ i \in {0, 1, 8},
             p = "child" => place["child"] = 0 /\ i = 1,
             Owners', Begun'
      PROVE  MutexInv'
  <2>1. /\ place'[p] = i /\ (p = "main" => place'["child"] = place["child"])
        /\ (p = "child" => place'["main"] = place["main"])
        /\ p = "main" \/ p = "child"
    BY <1>1, <1>3, PlaceMoves DEF Both
  <2>2. MainWasLast' <=> MainWasLast
    BY <1>1, <1>3, <2>1 DEF Begun, MainWasLast
  <2>3. MutexCounts'
    BY <1>1, <1>2, <1>3, <2>1 DEF MutexCounts, Both
  <2> QED
    BY <1>1, <1>2, <1>3, <2>2, <2>3, SilentKeeps
<1>4. CASE /\ place["main"] = 0 /\ owner[2] = "nobody" /\ owner' = [owner EXCEPT ![2] = "main"]
           /\ place' = [place EXCEPT !["main"] = 8]
  <2>1. /\ owner' \in [0..2 -> Both \cup {"nobody"}]
        /\ owner'[0] = owner[0] /\ owner'[1] = owner[1]
        /\ owner'[2] = "main"
    BY <1>1, <1>4 DEF MutexTypes
  <2>2. place'["main"] = 8 /\ place'["child"] = place["child"] /\ place["child"] \in 0..9
    BY <1>1, <1>4 DEF MutexTypes
  <2>3. Begun'
    BY <1>1, <1>4, <2>1, <2>2 DEF Begun, Owners
  <2>4. Owners'
    BY <1>1, <1>4, <2>1, <2>2 DEF Begun, Owners
  <2>5. 8 \in 0..9
    OBVIOUS
  <2>6. MutexInv'
    BY <1>1, <1>3, <1>4, <2>1, <2>3, <2>4, <2>5
  <2> QED
    BY <1>2, <2>6
<1>5. CASE /\ place["main"] = 0 /\ owner[2] # "nobody" /\ owner' = owner
           /\ place' = [place EXCEPT !["main"] = 1]
  <2>1. /\ owner' \in [0..2 -> Both \cup {"nobody"}]
        /\ owner'[0] = owner[0] /\ owner'[1] = owner[1]
        /\ owner'[2] = owner[2]
    BY <1>1, <1>5 DEF MutexTypes
  <2>2. place'["main"] = 1 /\ place'["child"] = place["child"] /\ place["child"] \in 0..9
    BY <1>1, <1>5 DEF MutexTypes
  <2>3. Begun'
    BY <1>1, <1>5, <2>1, <2>2 DEF Begun, Owners, MutexTypes, Both
  <2>4. Owners'
    BY <1>1, <1>5, <2>1, <2>2 DEF Begun, Owners
  <2>5. 1 \in 0..9
    OBVIOUS
  <2>6. MutexInv'
    BY <1>1, <1>3, <1>5, <2>1, <2>3, <2>4, <2>5
  <2> QED
    BY <1>2, <2>6
<1>6. CASE /\ place["main"] = 8 /\ owner' = [owner EXCEPT ![2] = "nobody"]
           /\ place' = [place EXCEPT !["main"] = 0]
  <2>1. /\ owner' \in [0..2 -> Both \cup {"nobody"}]
        /\ owner'[0] = owner[0] /\ owner'[1] = owner[1]
        /\ owner'[2] = "nobody"
    BY <1>1, <1>6 DEF MutexTypes
  <2>2. place'["main"] = 0 /\ place'["child"] = place["child"] /\ place["child"] \in 0..9
    BY <1>1, <1>6 DEF MutexTypes
  <2>3. Begun'
    BY <1>1, <1>6, <2>1, <2>2 DEF Begun, Owners
  <2>4. Owners'
    BY <1>1, <1>6, <2>1, <2>2 DEF Begun, Owners
  <2>5. 0 \in 0..9
    OBVIOUS
  <2>6. MutexInv'
    BY <1>1, <1>3, <1>6, <2>1, <2>3, <2>4, <2>5
  <2> QED
    BY <1>2, <2>6
<1>7. CASE /\ place["child"] = 0 /\ owner[2] = "nobody" /\ owner' = [owner EXCEPT ![2] = "child"]
           /\ place' = [place EXCEPT !["child"] = 1]
  <2>1. /\ owner' \in [0..2 -> Both \cup {"nobody"}]
        /\ owner'[0] = owner[0] /\ owner'[1] = owner[1]
        /\ owner'[2] = "child"
    BY <1>1, <1>7 DEF MutexTypes
  <2>2. place'["child"] = 1 /\ place'["main"] = place["main"] /\ place["main"] \in 0..9
    BY <1>1, <1>7 DEF MutexTypes
  <2>3. Begun'
    BY <1>1, <1>7, <2>1, <2>2 DEF Begun, Owners
  <2>4. Owners'
    BY <1>1, <1>7, <2>1, <2>2 DEF Begun, Owners
  <2>5. 1 \in 0..9
    OBVIOUS
  <2>6. MutexInv'
    BY <1>1, <1>3, <1>7, <2>1, <2>3, <2>4, <2>5
  <2> QED
    BY <1>2, <2>6
<1> QED
  BY <1>4, <1>5, <1>6, <1>7 DEF MainBegins, ChildBegins

LEMMA MutexStep ==
  ASSUME MutexInv, program = "lab10", Mutex!Next
  PROVE  /\ MutexInv'
         /\ printed' = printed \/ \E p \in Both : Line(p)
<1>1. MainDoes \/ ChildDoes \/ MainBegins \/ ChildBegins
  BY MutexNext DEF MutexInv
<1>2. "main" \in Both /\ "child" \in Both
  BY DEF Both
<1>3. CASE MainDoes
  BY <1>2, <1>3, MainKeeps
<1>4. CASE ChildDoes
  BY <1>2, <1>4, ChildKeeps
<1>5. CASE MainBegins \/ ChildBegins
  BY <1>5, BeginKeeps
<1> QED
  BY <1>1, <1>3, <1>4, <1>5

LEMMA MutexInvImplies ==
  ASSUME MutexInv, program = "lab10"
  PROVE  \A p \in Both : Mutex!At(p, "unlock") => owner[Mutex!TheMutex(p)] = p
<1>1. /\ Owners /\ place["main"] \in 0..9 /\ place["child"] \in 0..9
  BY DEF MutexInv, MutexTypes, Both
<1>2. ASSUME Mutex!At("main", "unlock") PROVE owner[Mutex!TheMutex("main")] = "main"
  <2>1. /\ place["main"] \in 1..7
        /\ Mutex!Script["main"][place["main"]].op = "unlock"
    BY <1>2, MainScript DEF Mutex!At
  <2>2. place["main"] \notin {2, 3, 5, 7}
    BY <2>1, MainScript, Statements
  <2>3. CASE place["main"] = 1
    <3>1. Mutex!TheMutex("main") = 0
      BY <2>3, MainScript, Statements DEF Mutex!TheMutex
    <3> QED
      BY <1>1, <2>3, <3>1 DEF Owners
  <2>4. CASE place["main"] = 4
    <3>1. Mutex!TheMutex("main") = 1
      BY <2>4, MainScript, Statements DEF Mutex!TheMutex
    <3> QED
      BY <1>1, <2>4, <3>1 DEF Owners
  <2>5. CASE place["main"] = 6
    <3>1. Mutex!TheMutex("main") = 2
      BY <2>5, MainScript, Statements DEF Mutex!TheMutex
    <3> QED
      BY <1>1, <2>5, <3>1 DEF Owners
  <2> QED
    BY <2>1, <2>2, <2>3, <2>4, <2>5
<1>3. ASSUME Mutex!At("child", "unlock") PROVE owner[Mutex!TheMutex("child")] = "child"
  <2>1. /\ place["child"] \in 1..7
        /\ Mutex!Script["child"][place["child"]].op = "unlock"
    BY <1>3, ChildScript DEF Mutex!At
  <2>2. place["child"] \notin {1, 3, 5, 6}
    BY <2>1, ChildScript, Statements
  <2>3. CASE place["child"] = 2
    <3>1. Mutex!TheMutex("child") = 2
      BY <2>3, ChildScript, Statements DEF Mutex!TheMutex
    <3> QED
      BY <1>1, <2>3, <3>1 DEF Owners
  <2>4. CASE place["child"] = 4
    <3>1. Mutex!TheMutex("child") = 0
      BY <2>4, ChildScript, Statements DEF Mutex!TheMutex
    <3> QED
      BY <1>1, <2>4, <3>1 DEF Owners
  <2>5. CASE place["child"] = 7
    <3>1. Mutex!TheMutex("child") = 1
      BY <2>5, ChildScript, Statements DEF Mutex!TheMutex
    <3> QED
      BY <1>1, <2>5, <3>1 DEF Owners
  <2> QED
    BY <2>1, <2>2, <2>3, <2>4, <2>5
<1> QED
  BY <1>2, <1>3 DEF Both

-----------------------------------------------------------------------------
(* lab11 *)

LooseTypes ==
    /\ printed \in Seq(Both)
    /\ owner \in [0..2 -> Both \cup {"nobody"}]
    /\ place \in [Both -> {1, 2, 3, 9}]
    /\ round \in [Both -> Int]

(* The mutex that a party locks; the other unlocks it.                      *)
Own(p) == IF p = "main" THEN 2 ELSE 1
Locks(p) == round[p] + (IF place[p] \in {2, 3} THEN 1 ELSE 0)

LooseCounts ==
    \A p \in Both : CountIn(printed, p) = round[p] + (IF place[p] = 3 THEN 1 ELSE 0)

(* A mutex that has been locked once more than it has been unlocked is      *)
(* locked; unlocking it when it is free changes nothing and counts for      *)
(* nothing, so that more cannot be said.                                    *)
LockedOnce ==
    \A p \in Both : /\ Locks(p) <= round[Other(p)] + 1
                    /\ owner[Own(p)] = "nobody" => Locks(p) <= round[Other(p)]

LooseInv == LooseTypes /\ LooseCounts /\ LockedOnce

LEMMA Others ==
  \A p \in Both : /\ Other(p) \in Both /\ Other(p) # p /\ Other(Other(p)) = p
                  /\ Own(p) \in 0..2 /\ Own(p) # Own(Other(p))
                  /\ \A q \in Both : q = p \/ q = Other(p)
BY DEF Both, Other, Own

LEMMA LooseScripts ==
  ASSUME program = "lab11", NEW p \in Both
  PROVE  /\ Len(Mutex!Script[p]) = 3
         /\ Mutex!Script[p][1] = Mutex!Lock(Own(p))
         /\ Mutex!Script[p][2] = Mutex!Line
         /\ Mutex!Script[p][3] = Mutex!Unlock(Own(Other(p)))
<1>1. CASE p = "main"
  <2>1. Mutex!Script[p] = <<Mutex!Lock(2), Mutex!Line, Mutex!Unlock(1)>>
    BY <1>1 DEF Mutex!Script, Mutex!LooseScript
  <2> QED
    BY <1>1, <2>1 DEF Own, Other
<1>2. CASE p = "child"
  <2>1. Mutex!Script[p] = <<Mutex!Lock(1), Mutex!Line, Mutex!Unlock(2)>>
    BY <1>2 DEF Mutex!Script, Mutex!LooseScript
  <2> QED
    BY <1>2, <2>1 DEF Own, Other
<1> QED
  BY <1>1, <1>2 DEF Both

(* The loop of a party, statement by statement.                             *)
Does(p) ==
    \/ place[p] = 1 /\ Gets(p, Own(p)) /\ Goes(p, 2)
    \/ place[p] = 2 /\ Says(p) /\ Goes(p, 3)
    \/ place[p] = 3 /\ Frees(Own(Other(p))) /\ \E i \in {1, 9} : Wraps(p, i)

LEMMA LooseReads ==
  ASSUME LooseTypes, program = "lab11", NEW p \in Both, Mutex!Body(p)
  PROVE  Does(p)
<1> DEFINE i == place[p]
<1>1. i \in 1..3
  BY LooseScripts DEF Mutex!Body, Mutex!DoLock, Mutex!DoUnlock, Mutex!DoPrint, Mutex!At
<1>2. IF i < 3 THEN Goes(p, i + 1) ELSE \E j \in {1, 9} : Wraps(p, j)
  <2>1. Mutex!Advance(p)
    BY DEF Mutex!Body, Mutex!DoLock, Mutex!DoUnlock, Mutex!DoPrint
  <2>2. CASE i < 3
    <3>1. place' = [place EXCEPT ![p] = i + 1] /\ round' = round
      BY <2>1, <2>2, LooseScripts DEF Mutex!Advance
    <3> QED
      BY <2>2, <3>1 DEF Goes
  <2>3. CASE ~(i < 3)
    <3>1. /\ round' = [round EXCEPT ![p] = round[p] + 1]
          /\ place' = [place EXCEPT ![p] = IF round'[p] = Lines THEN 9 ELSE 1]
      BY <2>1, <2>3, LooseScripts DEF Mutex!Advance, Mutex!Over
    <3>2. round'[p] = round[p] + 1
      BY <3>1 DEF LooseTypes
    <3>3. CASE round[p] + 1 = Lines
      <4>1. Wraps(p, 9)
        BY <3>1, <3>2, <3>3 DEF Wraps
      <4> QED
        BY <2>3, <4>1
    <3>4. CASE round[p] + 1 # Lines
      <4>1. Wraps(p, 1)
        BY <3>1, <3>2, <3>4 DEF Wraps
      <4> QED
        BY <2>3, <4>1
    <3> QED
      BY <3>3, <3>4
  <2> QED
    BY <2>2, <2>3
<1>3. CASE i = 1
  <2>1. /\ Mutex!TheMutex(p) = Own(p)
        /\ ~Mutex!At(p, "unlock") /\ ~Mutex!At(p, "print")
    BY <1>3, LooseScripts, Statements DEF Mutex!TheMutex, Mutex!At
  <2>2. Gets(p, Own(p))
    BY <2>1 DEF Mutex!Body, Mutex!DoLock, Mutex!DoUnlock, Mutex!DoPrint, Gets
  <2> QED
    BY <1>2, <1>3, <2>2 DEF Does
<1>4. CASE i = 2
  <2>1. ~Mutex!At(p, "lock") /\ ~Mutex!At(p, "unlock")
    BY <1>4, LooseScripts, Statements DEF Mutex!At
  <2>2. Says(p)
    BY <2>1 DEF Mutex!Body, Mutex!DoLock, Mutex!DoUnlock, Mutex!DoPrint, Says
  <2> QED
    BY <1>2, <1>4, <2>2 DEF Does
<1>5. CASE i = 3
  <2>1. /\ Mutex!TheMutex(p) = Own(Other(p))
        /\ ~Mutex!At(p, "lock") /\ ~Mutex!At(p, "print")
    BY <1>5, LooseScripts, Statements DEF Mutex!TheMutex, Mutex!At
  <2>2. Frees(Own(Other(p)))
    BY <2>1 DEF Mutex!Body, Mutex!DoLock, Mutex!DoUnlock, Mutex!DoPrint, Frees
  <2> QED
    BY <1>2, <1>5, <2>2 DEF Does
<1> QED
  BY <1>1, <1>3, <1>4, <1>5

LEMMA LooseGets ==
  ASSUME LooseInv, NEW p \in Both, place[p] = 1, Gets(p, Own(p)), Goes(p, 2)
  PROVE  LooseInv'
<1> DEFINE q == Other(p)
<1>1. /\ q \in Both /\ q # p /\ Own(p) \in 0..2 /\ Own(q) \in 0..2 /\ Own(p) # Own(q)
      /\ \A x \in Both : x = p \/ x = q
      /\ Other(q) = p /\ p # "nobody"
  BY Others DEF Both
<1>2. /\ owner[Own(p)] = "nobody" /\ owner' = [owner EXCEPT ![Own(p)] = p]
      /\ printed' = printed /\ place' = [place EXCEPT ![p] = 2] /\ round' = round
  BY DEF Gets, Goes
<1>3. /\ owner'[Own(p)] = p /\ owner'[Own(q)] = owner[Own(q)]
      /\ place'[p] = 2 /\ place'[q] = place[q]
      /\ owner' \in [0..2 -> Both \cup {"nobody"}] /\ place' \in [Both -> {1, 2, 3, 9}]
      /\ round[p] \in Int /\ round[q] \in Int
  BY <1>1, <1>2 DEF LooseInv, LooseTypes
<1>4. Locks(p) <= round[q] /\ Locks(q) <= round[p] + 1
      /\ (owner[Own(q)] = "nobody" => Locks(q) <= round[p])
  BY <1>1, <1>2 DEF LooseInv, LockedOnce
<1>5. Locks(p)' = round[p] + 1 /\ Locks(q)' = Locks(q) /\ Locks(p) = round[p]
  BY <1>2, <1>3, <1>1 DEF Locks
<1> HIDE DEF q
<1>6. \A x \in Both : /\ Locks(x)' <= round'[Other(x)] + 1
                      /\ owner'[Own(x)] = "nobody" => Locks(x)' <= round'[Other(x)]
  <2>1. /\ Locks(p)' <= round'[q] + 1 /\ owner'[Own(p)] # "nobody"
    BY <1>1, <1>2, <1>3, <1>4, <1>5
  <2>2. /\ Locks(q)' <= round'[p] + 1
        /\ owner'[Own(q)] = "nobody" => Locks(q)' <= round'[p]
    BY <1>2, <1>3, <1>4, <1>5
  <2>3. Other(p) = q
    BY DEF q
  <2> QED
    BY <1>1, <2>1, <2>2, <2>3
<1>7. LockedOnce'
  BY <1>6 DEF LockedOnce, Locks
<1>8. LooseCounts'
  BY <1>1, <1>2, <1>3 DEF LooseInv, LooseCounts
<1>9. LooseTypes'
  BY <1>2, <1>3 DEF LooseInv, LooseTypes
<1> QED
  BY <1>7, <1>8, <1>9 DEF LooseInv

LEMMA LooseSays ==
  ASSUME LooseInv, NEW p \in Both, place[p] = 2, Says(p), Goes(p, 3)
  PROVE  LooseInv'
<1>1. /\ owner' = owner /\ printed' = Append(printed, p)
      /\ place' = [place EXCEPT ![p] = 3] /\ round' = round
  BY DEF Says, Goes
<1>2. \A x \in Both : place'[x] = IF x = p THEN 3 ELSE place[x]
  BY <1>1 DEF LooseInv, LooseTypes
<1>3. /\ printed' \in Seq(Both)
      /\ \A x \in Both : /\ CountIn(printed, x) \in Nat
                         /\ CountIn(printed', x) =
                               CountIn(printed, x) + (IF p = x THEN 1 ELSE 0)
  BY <1>1, AfterLine DEF LooseInv, LooseTypes
<1>4. \A x \in Both : Locks(x)' = Locks(x)
  BY <1>1, <1>2 DEF Locks
<1>5. LockedOnce'
  BY <1>1, <1>4 DEF LooseInv, LockedOnce
<1>6. LooseCounts'
  BY <1>1, <1>2, <1>3 DEF LooseInv, LooseCounts, LooseTypes
<1>7. LooseTypes'
  BY <1>1, <1>3 DEF LooseInv, LooseTypes
<1> QED
  BY <1>5, <1>6, <1>7 DEF LooseInv

LEMMA LooseFrees ==
  ASSUME LooseInv, NEW p \in Both, place[p] = 3, Frees(Own(Other(p))),
         NEW i \in {1, 9}, Wraps(p, i)
  PROVE  LooseInv'
<1> DEFINE q == Other(p)
<1>1. /\ q \in Both /\ q # p /\ Own(p) \in 0..2 /\ Own(q) \in 0..2 /\ Own(p) # Own(q)
      /\ \A x \in Both : x = p \/ x = q
      /\ Other(q) = p /\ Other(p) = q
  BY Others
<1>2. /\ owner' = [owner EXCEPT ![Own(q)] = "nobody"] /\ printed' = printed
      /\ place' = [place EXCEPT ![p] = i] /\ round' = [round EXCEPT ![p] = round[p] + 1]
  BY DEF Frees, Wraps
<1>3. /\ owner'[Own(p)] = owner[Own(p)]
      /\ place'[p] = i /\ place'[q] = place[q]
      /\ owner' \in [0..2 -> Both \cup {"nobody"}] /\ place' \in [Both -> {1, 2, 3, 9}]
      /\ round[p] \in Int /\ round[q] \in Int
      /\ round'[p] = round[p] + 1 /\ round'[q] = round[q] /\ round' \in [Both -> Int]
  BY <1>1, <1>2 DEF LooseInv, LooseTypes
<1>4. /\ Locks(p) <= round[q] + 1 /\ Locks(q) <= round[p] + 1
      /\ owner[Own(p)] = "nobody" => Locks(p) <= round[q]
  BY <1>1 DEF LooseInv, LockedOnce
<1>5. /\ Locks(p)' = round[p] + 1 /\ Locks(p) = round[p] + 1
      /\ Locks(q)' = Locks(q) /\ Locks(q) \in Int
  BY <1>2, <1>3, <1>1 DEF Locks
<1> HIDE DEF q
<1>6. \A x \in Both : /\ Locks(x)' <= round'[Other(x)] + 1
                      /\ owner'[Own(x)] = "nobody" => Locks(x)' <= round'[Other(x)]
  <2>1. /\ Locks(p)' <= round'[q] + 1
        /\ owner'[Own(p)] = "nobody" => Locks(p)' <= round'[q]
    BY <1>1, <1>2, <1>3, <1>4, <1>5
  <2>2. /\ Locks(q)' <= round'[p] + 1 /\ Locks(q)' <= round'[p]
    BY <1>2, <1>3, <1>4, <1>5
  <2> QED
    BY <1>1, <2>1, <2>2
<1>7. LockedOnce'
  BY <1>6 DEF LockedOnce, Locks
<1>8. LooseCounts'
  BY <1>1, <1>2, <1>3 DEF LooseInv, LooseCounts
<1>9. LooseTypes'
  BY <1>2, <1>3 DEF LooseInv, LooseTypes
<1> QED
  BY <1>7, <1>8, <1>9 DEF LooseInv

LEMMA LooseStep == LooseInv /\ program = "lab11" /\ Mutex!Next => LooseInv'
<1> SUFFICES ASSUME LooseInv, program = "lab11", Mutex!Next PROVE LooseInv'
  OBVIOUS
<1>1. place["main"] \in {1, 2, 3, 9} /\ place["child"] \in {1, 2, 3, 9}
  BY DEF LooseInv, LooseTypes, Both
<1>2. \E p \in Both : Mutex!Body(p)
  BY <1>1 DEF Mutex!Next, Mutex!Main, Mutex!Child, Mutex!TryLock, Mutex!GiveTwoBack,
     Mutex!LockTwoFirst, Mutex!Prologue, Mutex!GotTwo, Both
<1>3. PICK p \in Both : Does(p)
  BY <1>2, LooseReads DEF LooseInv
<1> QED
  BY <1>3, LooseGets, LooseSays, LooseFrees DEF Does

LEMMA LooseInit == Mutex!Init /\ program = "lab11" /\ printed = <<>> => LooseInv
<1> SUFFICES ASSUME Mutex!Init, program = "lab11", printed = <<>> PROVE LooseInv
  OBVIOUS
<1>1. /\ owner = [m \in 0..2 |-> "nobody"]
      /\ place = [p \in Both |-> 1] /\ round = [p \in Both |-> 0]
  BY DEF Mutex!Init, Mutex!Parties, Both
<1>2. LooseTypes
  <2>1. printed \in Seq(Both)
    BY EmptySeq
  <2>2. owner \in [0..2 -> Both \cup {"nobody"}]
    BY <1>1
  <2> QED
    BY <1>1, <2>1, <2>2 DEF LooseTypes
<1>3. LooseCounts
  BY <1>1, CountEmpty DEF LooseCounts
<1>4. \A p \in Both : Locks(p) = 0 /\ round[Other(p)] = 0
  BY <1>1, Others DEF Locks
<1>5. LockedOnce
  BY <1>4 DEF LockedOnce
<1> QED
  BY <1>2, <1>3, <1>5 DEF LooseInv

LEMMA LooseApart ==
  ASSUME LooseInv
  PROVE  CountIn(printed, "main") - CountIn(printed, "child") \in -1..1
<1>1. /\ CountIn(printed, "main") = round["main"] + (IF place["main"] = 3 THEN 1 ELSE 0)
      /\ CountIn(printed, "child") = round["child"] + (IF place["child"] = 3 THEN 1 ELSE 0)
      /\ round["main"] \in Int /\ round["child"] \in Int
      /\ Locks("main") <= round["child"] + 1 /\ Locks("child") <= round["main"] + 1
  BY DEF LooseInv, LooseTypes, LooseCounts, LockedOnce, Other, Both
<1> QED
  BY <1>1 DEF Locks

-----------------------------------------------------------------------------
(* All programs together *)

Quiet == {"lab7", "lab8", "lab22", "list"}
Handoffs ==
    /\ printed \in Seq(Both) /\ spurious \in BOOLEAN
    /\ program \in Quiet => printed = <<>>
    /\ program = "lab10" => MutexInv
    /\ program = "lab11" => LooseInv
    /\ program = "lab12" => CondInv
    /\ program # "lab12" => waiting = {}
    /\ program \in {"lab13", "lab15"} => SemTurn
    /\ program # "lab11" => spurious \/ AlternatesIn(printed)

LabsInv == program \in Programs /\ WidgetInv /\ SemInv /\ Handoffs

(* What the lines printed may do in a step.                                 *)
Turned ==
    /\ program' = program
    /\ spurious' = spurious \/ (spurious' = TRUE /\ printed' = printed)
    /\ \/ program = "lab11"
       \/ printed' = printed
       \/ printed' = <<>>
       \/ \E p \in Both : /\ printed' = Append(printed, p)
                          /\ CountIn(printed, p) < Lines
                          /\ spurious \/ MayPrint(p)

LEMMA LabsInit == Init => LabsInv
<1> SUFFICES ASSUME Init PROVE LabsInv
  OBVIOUS
<1>1. /\ program \in Programs /\ printed = <<>> /\ Mutex!Init /\ Cond!Init /\ Sem!Init
      /\ Widget!Init /\ named = (program = "lab15")
  BY DEF Init
<1>2. WidgetInv /\ SemInv
  BY <1>1, WidgetInit, SemInit
<1>3. printed \in Seq(Both)
  BY <1>1, EmptySeq
<1>4. spurious \in BOOLEAN /\ waiting = {}
  <2>1. spurious = FALSE /\ waiting = {}
    BY <1>1 DEF Cond!Init
  <2> QED
    BY <2>1
<1>5. AlternatesIn(printed)
  BY <1>1 DEF AlternatesIn
<1>6. /\ program = "lab10" => MutexInv
      /\ program = "lab11" => LooseInv
      /\ program = "lab12" => CondInv
  BY <1>1, MutexInit, LooseInit, CondInit
<1>7. ASSUME program \in {"lab13", "lab15"} PROVE SemTurn
  <2>1. /\ sem = [one |-> 0, two |-> 1] /\ shown = [p \in Both |-> 0]
        /\ at = [p \in Both |-> IF named THEN "open" ELSE "wait"]
    BY <1>1, SemSets DEF Sem!Init, Sem!Fresh, Sem!Start
  <2>2. /\ \A p \in Both : at[p] = (IF named THEN "open" ELSE "wait") /\ shown[p] = 0
        /\ sem["one"] = 0 /\ sem["two"] = 1
        /\ Leader \in Both /\ Follower \in Both /\ "main" \in Both /\ "child" \in Both
    BY <2>1 DEF Leader, Follower, Both
  <2>3. (Token /\ SemCounts) \/ at["main"] = "open"
    <3>1. CASE named
      BY <2>2, <3>1
    <3>2. CASE ~named
      <4>1. Token
        BY <1>1, <2>2, <3>2 DEF Token, Busy
      <4>2. SemCounts
        BY <1>1, <2>2, <3>2, CountEmpty DEF SemCounts, Busy
      <4> QED
        BY <4>1, <4>2
    <3> QED
      BY <3>1, <3>2
  <2>4. named <=> program = "lab15"
    BY <1>1
  <2> QED
    BY <1>1, <1>3, <2>2, <2>3, <2>4 DEF SemTurn, Joint, Before
<1> QED
  BY <1>1, <1>2, <1>3, <1>4, <1>5, <1>6, <1>7 DEF LabsInv, Handoffs, Quiet

(* Lines that are printed in turn keep alternating.                         *)
LEMMA StillAlternates ==
  ASSUME Handoffs, Turned, program # "lab11"
  PROVE  /\ printed' \in Seq(Both) /\ spurious' \in BOOLEAN
         /\ spurious' \/ AlternatesIn(printed)'
<1>1. printed \in Seq(Both) /\ spurious \in BOOLEAN /\ (spurious \/ AlternatesIn(printed))
  BY DEF Handoffs
<1>2. spurious' \in BOOLEAN /\ (spurious => spurious')
  BY <1>1 DEF Turned
<1>3. CASE printed' = printed
  BY <1>1, <1>2, <1>3 DEF AlternatesIn, CountIn
<1>4. CASE printed' = <<>>
  BY <1>2, <1>4, EmptySeq DEF AlternatesIn
<1>5. CASE \E p \in Both : /\ printed' = Append(printed, p)
                           /\ spurious \/ MayPrint(p)
  <2>1. PICK p \in Both : /\ printed' = Append(printed, p)
                          /\ spurious \/ MayPrint(p)
    BY <1>5
  <2>2. printed' \in Seq(Both)
    BY <1>1, <2>1, AppendProperties
  <2>3. ASSUME ~spurious PROVE AlternatesIn(printed)'
    <3>1. AlternatesIn(printed) /\ MayPrint(p)
      BY <1>1, <2>1, <2>3
    <3>2. AlternatesIn(Append(printed, p))
      BY <1>1, <3>1, TurnKept DEF MayPrint
    <3> QED
      BY <2>1, <3>2
  <2> QED
    BY <1>2, <2>2, <2>3
<1> QED
  BY <1>3, <1>4, <1>5 DEF Turned

(* A step in which nothing that is spoken of here moves.                    *)
Still == /\ UNCHANGED <<program, printed, spurious>>
         /\ UNCHANGED <<mutexes, cond, sems>>
LEMMA StillKeeps == Handoffs /\ Still => Handoffs' /\ Turned
<1> SUFFICES ASSUME Handoffs, Still PROVE Handoffs' /\ Turned
  OBVIOUS
<1>1. MutexInv => MutexInv'
  BY DEF Still, MutexInv, MutexTypes, Owners, Begun, LastByPlace, MainWasLast, LastIs,
         MutexCounts, mutexes
<1>2. LooseInv => LooseInv'
  BY DEF Still, LooseInv, LooseTypes, LooseCounts, LockedOnce, Locks, mutexes
<1>3. CondInv => CondInv'
  BY DEF Still, CondInv, CondTypes, CondCounts, Asleep, LastIs, Close, cond
<1>4. SemTurn => SemTurn'
  BY DEF Still, SemTurn, Token, SemCounts, BothFailed, Busy, Leader, Follower, LastIs, sems
<1>5. /\ printed' = printed /\ spurious' = spurious /\ program' = program
      /\ waiting' = waiting
  BY DEF Still, cond
<1> QED
  BY <1>1, <1>2, <1>3, <1>4, <1>5 DEF Handoffs, Turned

LEMMA LabsStep == LabsInv /\ [Next]_vars => LabsInv' /\ Turned
<1> SUFFICES ASSUME LabsInv, [Next]_vars PROVE LabsInv' /\ Turned
  OBVIOUS
<1>1. program \in Programs /\ WidgetInv /\ SemInv /\ Handoffs
  BY DEF LabsInv
<1>2. CASE Lab8(Pi!Next) \/ Queue(List!Next) \/ UNCHANGED vars
  <2>1. Still /\ UNCHANGED widgets /\ UNCHANGED sems /\ program' = program
    BY <1>2 DEF Lab8, Queue, vars, Still
  <2> QED
    BY <1>1, <2>1, StillKeeps, WidgetRest, SemRest DEF LabsInv
<1>3. CASE Lab22(Widget!Next)
  <2>1. Still /\ UNCHANGED sems /\ program' = program /\ Widget!Next
    BY <1>3 DEF Lab22, Still
  <2> QED
    BY <1>1, <2>1, StillKeeps, WidgetStep, SemRest DEF LabsInv
<1>4. CASE Lab13(Sem!Next)
  <2>1. /\ program \in {"lab13", "lab15"} /\ Sem!Next /\ UNCHANGED widgets
        /\ program' = program /\ spurious' = spurious /\ waiting' = waiting
    BY <1>4 DEF Lab13, cond
  <2>2. SemTurn
    BY <1>1, <2>1 DEF Handoffs
  <2>3. /\ SemTurn'
        /\ printed' = printed \/ printed' = <<>> \/ \E p \in Both : Line(p)
    BY <1>1, <2>1, <2>2, SemTurnStep
  <2>4. Turned
    BY <2>1, <2>3 DEF Turned, Line, MayPrint
  <2>5. Handoffs'
    BY <1>1, <2>1, <2>3, <2>4, StillAlternates DEF Handoffs, Quiet
  <2> QED
    BY <1>1, <2>1, <2>4, <2>5, WidgetRest, SemStep DEF LabsInv
<1>5. CASE Lab12(Cond!Next)
  <2>1. /\ program = "lab12" /\ Cond!Next /\ UNCHANGED widgets /\ UNCHANGED sems
        /\ program' = program
    BY <1>5 DEF Lab12
  <2>2. CondInv
    BY <1>1, <2>1 DEF Handoffs
  <2>3. /\ CondInv'
        /\ \/ spurious' = spurious /\ printed' = printed
           \/ spurious' = TRUE /\ printed' = printed
           \/ /\ spurious' = spurious
              /\ \E p \in Both : /\ printed' = Append(printed, p)
                                 /\ CountIn(printed, p) < Lines
                                 /\ spurious \/ MayPrint(p)
    BY <2>1, <2>2, CondStep
  <2>4. Turned
    BY <2>1, <2>3 DEF Turned
  <2>5. Handoffs'
    BY <1>1, <2>1, <2>3, <2>4, StillAlternates DEF Handoffs, Quiet
  <2> QED
    BY <1>1, <2>1, <2>4, <2>5, WidgetRest, SemRest DEF LabsInv
<1>6. CASE Lab10(Mutex!Next)
  <2>1. /\ program \in {"lab10", "lab11"} /\ Mutex!Next /\ UNCHANGED widgets /\ UNCHANGED sems
        /\ spurious' = spurious /\ waiting' = waiting
    BY <1>6 DEF Lab10, cond
  <2>2. program' = program
    BY <2>1 DEF Mutex!Next, Mutex!Main, Mutex!Child, Mutex!Body, Mutex!TryLock,
       Mutex!GiveTwoBack, Mutex!LockTwoFirst, Mutex!DoLock, Mutex!DoUnlock, Mutex!DoPrint
  <2>3. CASE program = "lab10"
    <3>1. MutexInv' /\ (printed' = printed \/ \E p \in Both : Line(p))
      BY <1>1, <2>1, <2>3, MutexStep DEF Handoffs
    <3>2. Turned
      BY <2>1, <2>2, <3>1 DEF Turned, Line, MayPrint
    <3>3. Handoffs'
      BY <1>1, <2>1, <2>2, <2>3, <3>1, <3>2, StillAlternates DEF Handoffs, Quiet
    <3> QED
      BY <1>1, <2>1, <2>2, <3>2, <3>3, WidgetRest, SemRest DEF LabsInv
  <2>4. CASE program = "lab11"
    <3>1. LooseInv /\ LooseInv'
      BY <1>1, <2>1, <2>4, LooseStep DEF Handoffs
    <3>2. printed' \in Seq(Both)
      BY <3>1 DEF LooseInv, LooseTypes
    <3>3. Handoffs'
      BY <1>1, <2>1, <2>2, <2>4, <3>1, <3>2 DEF Handoffs, Quiet
    <3>4. Turned
      BY <2>1, <2>2, <2>4 DEF Turned
    <3> QED
      BY <1>1, <2>1, <2>2, <3>3, <3>4, WidgetRest, SemRest DEF LabsInv
  <2> QED
    BY <2>1, <2>3, <2>4
<1> QED
  BY <1>2, <1>3, <1>4, <1>5, <1>6 DEF Next

-----------------------------------------------------------------------------
(* The theorems *)

(* What is proved of lab10 to lab13, lab15 and lab22 holds for any number of *)
(* lines, runs and parts, and is kept by every step.                        *)
THEOREM Invariance == Spec => []LabsInv
<1>1. LabsInv /\ [Next]_vars => LabsInv'
  BY LabsStep
<1> QED
  BY <1>1, LabsInit, PTL DEF Spec

(* lab22.c: no part is used twice, and none is lost but the a, or the a and  *)
(* the b, that create_ab held when its thread came to its end, by a failure  *)
(* of its own or cancelled by another; for any number of parts.              *)
THEOREM PartsAccountedFor == Spec => []PartsAccounted
<1>1. LabsInv => PartsAccounted
  BY WidgetInvImplies DEF LabsInv
<1> QED
  BY <1>1, Invariance, PTL

(* lab15.c: a run is refused only after another was killed or one of the     *)
(* calls failed; as long as that has not happened, a run that ends leaves no *)
(* name behind, however often the program is run.                            *)
THEOREM RefusedAfterMishap == Spec => []RefusedAfterMishapOnly
<1>1. LabsInv => RefusedAfterMishapOnly
  BY SemInvImplies DEF LabsInv
<1> QED
  BY <1>1, Invariance, PTL

(* lab10.c: every mutex is unlocked by its owner; lab12.c, lab13.c: nobody   *)
(* is left at what main destroys.                                            *)
THEOREM OrderlyUse == Spec => []UsedInOrder
<1>1. LabsInv => UsedInOrder
  <2> SUFFICES ASSUME LabsInv PROVE UsedInOrder
    OBVIOUS
  <2>1. Mutex!OwnUnlocks
    BY MutexInvImplies DEF LabsInv, Handoffs, Mutex!OwnUnlocks, Mutex!Parties, Both
  <2>2. Cond!NobodyAsleepWhenDestroyed
    <3>1. CASE program = "lab12"
      BY <3>1, CondInvImplies DEF LabsInv, Handoffs
    <3>2. CASE program # "lab12"
      BY <3>2 DEF LabsInv, Handoffs, Cond!NobodyAsleepWhenDestroyed
    <3> QED
      BY <3>1, <3>2
  <2>3. Sem!UnusedWhenDestroyed
    BY SemInvImplies DEF LabsInv
  <2> QED
    BY <2>1, <2>2, <2>3 DEF UsedInOrder, UnusedWhenDestroyed
<1> QED
  BY <1>1, Invariance, PTL

(* Neither side is more than a line ahead of the other, in lab11 as well.    *)
THEOREM NeverFarApart == Spec => []Abreast
<1>1. LabsInv => Abreast
  <2> SUFFICES ASSUME LabsInv, ~spurious PROVE Count("main") - Count("child") \in -1..1
    BY DEF Abreast
  <2>1. CountIn(printed, "main") - CountIn(printed, "child") \in -1..1
    <3>1. CASE program = "lab11"
      BY <3>1, LooseApart DEF LabsInv, Handoffs
    <3>2. CASE program # "lab11"
      BY <3>2, AlternatesApart DEF LabsInv, Handoffs
    <3> QED
      BY <3>1, <3>2
  <2> QED
    BY <2>1 DEF Count, CountIn
<1> QED
  BY <1>1, Invariance, PTL

-----------------------------------------------------------------------------
(* The lines as TakingTurns sees them.                                      *)
LinesBar == IF program = "lab11" THEN <<>> ELSE printed

LEMMA TurnsCount ==
  ASSUME NEW p, program # "lab11"
  PROVE  Turns!Count(p) = CountIn(printed, p)
<1>1. \A S : Turns!Cardinality(S) = Cardinality(S)
  BY DEF Cardinality, Turns!Cardinality
<1> QED
  BY <1>1 DEF Turns!Count, CountIn

LEMMA TurnsInit == Init => Turns!Init
<1> SUFFICES ASSUME Init PROVE Turns!Init
  OBVIOUS
<1>1. printed = <<>> /\ spurious = FALSE
  BY DEF Init, Cond!Init
<1>2. Starters \subseteq Turns!Parties
  BY DEF Starters, Turns!Parties
<1> QED
  BY <1>1, <1>2 DEF Turns!Init

LEMMA TurnsStep == Turned => [Turns!Next]_<<LinesBar, Starters, spurious>>
<1> SUFFICES ASSUME Turned PROVE [Turns!Next]_<<LinesBar, Starters, spurious>>
  OBVIOUS
<1>1. program' = program /\ Starters' = Starters
  BY DEF Turned, Starters
<1>2. CASE program = "lab11" \/ printed' = printed
  <2>1. LinesBar' = LinesBar
    BY <1>1, <1>2 DEF LinesBar
  <2>2. CASE spurious' = spurious
    BY <1>1, <2>1, <2>2
  <2>3. CASE spurious' = TRUE
    <3>1. Turns!Disturb
      BY <1>1, <2>1, <2>3 DEF Turns!Disturb, LinesBar
    <3> QED
      BY <3>1 DEF Turns!Next
  <2> QED
    BY <2>2, <2>3 DEF Turned
<1>3. CASE program # "lab11" /\ printed' # printed
  <2>1. spurious' = spurious
    BY <1>3 DEF Turned
  <2>2. CASE printed' = <<>>
    <3>1. Turns!Rerun
      BY <1>1, <1>3, <2>1, <2>2 DEF Turns!Rerun
    <3> QED
      BY <3>1 DEF Turns!Next
  <2>3. CASE \E p \in Both : /\ printed' = Append(printed, p)
                             /\ CountIn(printed, p) < Lines
                             /\ spurious \/ MayPrint(p)
    <3>1. PICK p \in Both : /\ printed' = Append(printed, p)
                            /\ CountIn(printed, p) < Lines
                            /\ spurious \/ MayPrint(p)
      BY <2>3
    <3>2. Turns!Count(p) < Lines
      BY <1>3, <3>1, TurnsCount
    <3>3. spurious \/ Turns!HasTheTurn(p)
      BY <1>3, <3>1 DEF MayPrint, Turns!HasTheTurn
    <3>4. Turns!PrintLine(p)
      BY <1>1, <1>3, <2>1, <3>1, <3>2, <3>3 DEF Turns!PrintLine
    <3> QED
      BY <3>4 DEF Turns!Next, Turns!Parties, Both
  <2> QED
    BY <1>3, <2>2, <2>3 DEF Turned
<1> QED
  BY <1>2, <1>3

(* lab10.c, lab12.c, lab13.c, lab15.c: the lines are printed strictly in     *)
(* turn, each program an implementation of TakingTurns, whatever the number  *)
(* of lines.                                                                 *)
THEOREM LinesInTurn == Spec => TakesTurns
<1>1. LabsInv /\ [Next]_vars => [Turns!Next]_<<LinesBar, Starters, spurious>>
  BY LabsStep, TurnsStep
<1> QED
  BY <1>1, TurnsInit, Invariance, PTL DEF Spec, TakesTurns, Turns!Spec, LinesBar

-----------------------------------------------------------------------------
(* lab7, lab8.  What PiThreads_proofs shows of lab8 alone is carried over:   *)
(* the lemmas of its steps are cited, through an instance of it, for the     *)
(* steps of pi here.                                                         *)
PiP == INSTANCE PiThreads_proofs

PiInv == PiP!IInv /\ PiP!SumInv

LEMMA PiSizes == PiP!Sizes
BY SmallLabsAssumption DEF PiP!Sizes

(* The two instances of PiThreads say the same. *)
LEMMA PiSame ==
    /\ Pi!Init <=> PiP!Init
    /\ Pi!InitSteps <=> PiP!InitSteps
    /\ Pi!Next <=> PiP!Next
<1>1. (Pi!Init <=> PiP!Init) /\ (Pi!InitSteps <=> PiP!InitSteps)
  BY DEF Pi!Init, PiP!Init, Pi!InitSteps, PiP!InitSteps, Pi!InitOf, PiP!InitOf,
         Pi!Threads, PiP!Threads
<1>2. Pi!Next <=> PiP!Next
  BY DEF Pi!Next, PiP!Next, Pi!main, PiP!main, Pi!pthread_create, PiP!pthread_create,
         Pi!pthread_join, PiP!pthread_join, Pi!stopCalculateParts,
         PiP!stopCalculateParts, Pi!calculatePartOfPi, PiP!calculatePartOfPi,
         Pi!Sum, PiP!Sum, Pi!Stop, PiP!Stop, Pi!GoOn, PiP!GoOn,
         Pi!Threads, PiP!Threads, Pi!MayStop, PiP!MayStop, Pi!Terms, PiP!Terms
<1> QED
  BY <1>1, <1>2

LEMMA PiInitially == Init => PiInv
<1> SUFFICES ASSUME Init PROVE PiInv
  OBVIOUS
<1>1. PiP!Init \/ PiP!InitSteps
  BY PiSame DEF Init
<1> QED
  BY <1>1, PiSizes, PiP!SumInitially DEF PiInv

LEMMA PiKept == PiInv /\ [Next]_vars => PiInv'
<1> SUFFICES ASSUME PiInv, [Next]_vars PROVE PiInv'
  OBVIOUS
<1>1. [PiP!Next]_pi
  BY PiSame DEF Next, Lab8, Lab10, Lab12, Lab13, Lab22, Queue, vars
<1>2. [PiP!Next]_(PiP!vars)
  BY <1>1 DEF pi, PiP!vars
<1> QED
  BY <1>2, PiSizes, PiP!StepKeeps, PiP!SumKept DEF PiInv

LEMMA PiShown == PiInv => PiInStep
<1> SUFFICES ASSUME PiInv PROVE PiInStep
  OBVIOUS
<1>1. PiP!PiIsPartialSum
  BY PiSizes, PiP!SumIsPartial DEF PiInv
<1>2. Pi!PiIsPartialSum
  BY <1>1 DEF PiP!PiIsPartialSum, Pi!PiIsPartialSum, PiP!AllJoined, Pi!AllJoined,
              PiP!Threads, Pi!Threads
<1>3. PiP!SameIteration
  BY DEF PiInv, PiP!IInv, PiP!Level, PiP!SameIteration
<1>4. Pi!SameIteration
  BY <1>3 DEF PiP!SameIteration, Pi!SameIteration, PiP!Threads, Pi!Threads
<1> QED
  BY <1>2, <1>4 DEF PiInStep

(* lab7.c, lab8.c: all threads stop at the same iteration, and what main     *)
(* adds up is a partial sum of the series, every term once, whatever the     *)
(* number of threads and the size of the blocks.                             *)
THEOREM StopInStep == Spec => []PiInStep
BY PiInitially, PiKept, PiShown, PTL DEF Spec

-----------------------------------------------------------------------------
(* The list of lab23 and lab24, carried over from MsgList_proofs in the same *)
(* way.                                                                      *)
ListP == INSTANCE MsgList_proofs

LEMMA ListHeap == ListP!Heap
BY SmallLabsAssumption DEF ListP!Heap, ListP!IsFiniteSet, IsFiniteSet

LEMMA ListSame ==
    /\ List!Init <=> ListP!Init
    /\ List!Next <=> ListP!Next
<1>1. List!Init <=> ListP!Init
  BY DEF List!Init, ListP!Init
<1>2. List!Next <=> ListP!Next
  <2>1. /\ \A p : List!Link(p) <=> ListP!Link(p)
        /\ \A c : List!Unlink(c) <=> ListP!Unlink(c)
        /\ \A c : List!Release(c) <=> ListP!Release(c)
    BY DEF List!Link, ListP!Link, List!Unlink, ListP!Unlink, List!Release, ListP!Release,
           List!TellFirst, ListP!TellFirst, List!InUse, ListP!InUse, List!Free, ListP!Free,
           List!Text, ListP!Text
  <2>2. /\ List!DropAnnounce <=> ListP!DropAnnounce
        /\ List!DropBegin <=> ListP!DropBegin
        /\ List!DropStep <=> ListP!DropStep
        /\ List!DropEnd <=> ListP!DropEnd
    BY DEF List!DropAnnounce, ListP!DropAnnounce, List!DropBegin, ListP!DropBegin,
           List!DropStep, ListP!DropStep, List!DropEnd, ListP!DropEnd,
           List!Free, ListP!Free, List!cells, ListP!cells
  <2> QED
    BY <2>1, <2>2 DEF List!Next, ListP!Next
<1> QED
  BY <1>1, <1>2

LEMMA SizesSame == \A S : List!Cardinality(S) = ListP!Cardinality(S)
BY DEF List!Cardinality, ListP!Cardinality

LEMMA OrderSame == List!Order = ListP!Order
BY DEF List!Order, ListP!Order, List!Behind, ListP!Behind,
       List!Cardinality, ListP!Cardinality

LEMMA BarsSame ==
    /\ List!ChannelBar = ListP!ChannelBar
    /\ List!ReceivedBar = ListP!ReceivedBar
    /\ List!PhaseBar = ListP!PhaseBar
BY OrderSame DEF List!ChannelBar, ListP!ChannelBar, List!ReceivedBar, ListP!ReceivedBar,
                 List!PhaseBar, ListP!PhaseBar, List!InUse, ListP!InUse

LEMMA BarsSameThen ==
    /\ List!ChannelBar' = ListP!ChannelBar'
    /\ List!ReceivedBar' = ListP!ReceivedBar'
    /\ List!PhaseBar' = ListP!PhaseBar'
<1>1. (/\ List!ChannelBar = ListP!ChannelBar
       /\ List!ReceivedBar = ListP!ReceivedBar
       /\ List!PhaseBar = ListP!PhaseBar)'
  BY BarsSame, PTL
<1> QED
  BY <1>1

LEMMA ListKept == ListP!IInv /\ [Next]_vars => ListP!IInv'
<1> SUFFICES ASSUME ListP!IInv, [Next]_vars PROVE ListP!IInv'
  OBVIOUS
<1>1. [ListP!Next]_list
  BY ListSame DEF Next, Lab8, Lab10, Lab12, Lab13, Lab22, Queue, vars
<1>2. [ListP!Next]_(ListP!vars)
  BY <1>1 DEF list, ListP!vars, ListP!cells
<1> QED
  BY <1>2, ListHeap, ListP!StepKeeps

LEMMA ListStarts == Init => ListP!IInv
BY ListSame, ListP!Initially DEF Init

LEMMA ListShown == ListP!IInv => ListShape /\ DropFreesAll
<1> SUFFICES ASSUME ListP!IInv PROVE ListShape /\ DropFreesAll
  OBVIOUS
<1>1. ListP!ListShape /\ ListP!DropFreesAll
  BY ListHeap, ListP!ShapeShown
<1>2. ListShape
  <2>1. List!Linked = ListP!Linked
    BY OrderSame DEF List!Linked, ListP!Linked
  <2>2. List!Taken = ListP!Taken
    BY DEF List!Taken, ListP!Taken
  <2>3. List!InUse <=> ListP!InUse
    BY DEF List!InUse, ListP!InUse
  <2> QED
    BY <1>1, OrderSame, <2>1, <2>2, <2>3 DEF ListShape, List!ListShape, ListP!ListShape
<1>3. DropFreesAll
  BY <1>1 DEF DropFreesAll, List!DropFreesAll, ListP!DropFreesAll, List!Taken, ListP!Taken
<1> QED
  BY <1>2, <1>3

LEMMA ChannelStarts == Init => List!Channel!Init
<1>1. Init => ListP!Channel!Init
  BY ListSame, ListHeap, ListP!ChannelInitially DEF Init
<1> QED
  BY <1>1, BarsSame DEF List!Channel!Init, ListP!Channel!Init

LEMMA ChannelStep ==
  ListP!IInv /\ [Next]_vars
    => [List!Channel!Next]_<<List!ChannelBar, List!ReceivedBar, List!PhaseBar, {}>>
<1> SUFFICES ASSUME ListP!IInv, [Next]_vars
             PROVE  [List!Channel!Next]_<<List!ChannelBar, List!ReceivedBar, List!PhaseBar, {}>>
  OBVIOUS
<1>1. [ListP!Next]_list
  BY ListSame DEF Next, Lab8, Lab10, Lab12, Lab13, Lab22, Queue, vars
<1>2. [ListP!Next]_(ListP!vars)
  BY <1>1 DEF list, ListP!vars, ListP!cells
<1>3. [ListP!Channel!Next]_<<ListP!ChannelBar, ListP!ReceivedBar, ListP!PhaseBar, {}>>
  BY <1>2, ListHeap, ListP!ChannelStep
<1>4. ListP!Channel!Next => List!Channel!Next
  BY SizesSame, BarsSame, BarsSameThen
  DEF List!Channel!Next, ListP!Channel!Next, List!Channel!Accept, ListP!Channel!Accept,
      List!Channel!Deliver, ListP!Channel!Deliver, List!Channel!StartShutting,
      ListP!Channel!StartShutting, List!Channel!Shut, ListP!Channel!Shut,
      List!Channel!Dismiss, ListP!Channel!Dismiss
<1> QED
  BY <1>3, <1>4, BarsSame, BarsSameThen

(* myMsgQueue.cpp of lab23 and lab24: the list leads through the same cells  *)
(* in both directions, for any number of cells and threads, and nothing that *)
(* is linked or that a get still holds has been freed.                       *)
THEOREM ListInShape == Spec => []ListShape
BY ListStarts, ListKept, ListShown, PTL DEF Spec

(* myMsgQueue.cpp: after drop() nothing is allocated but what gets hold and  *)
(* will free.                                                                *)
THEOREM NothingLeft == Spec => []DropFreesAll
BY ListStarts, ListKept, ListShown, PTL DEF Spec

(* myMsgQueue.cpp: texts come out in the order in which they went in, each   *)
(* once and unaltered, though gets copy and free beside everything else.     *)
THEOREM ListIsFifo == Spec => FifoList
BY ListStarts, ListKept, ChannelStarts, ChannelStep, PTL
DEF Spec, FifoList, List!FifoList, List!Channel!Spec, List!Channel!channelVars

=============================================================================
