--------------------------- MODULE Viewers_proofs ---------------------------
(***************************************************************************)
(* The safety of the three page viewers for any page, any size of their    *)
(* buffers and any number of lines on the screen.                          *)
(***************************************************************************)
EXTENDS Viewers, WellFoundedInduction, SequenceTheorems, TLAPS

-----------------------------------------------------------------------------
(* Lengths of lines *)

LEMMA NatOrder == IsWellFoundedOn({ss \in Nat \X Nat : ss[1] < ss[2]}, Nat)
BY NatLessThanWellFounded, Zenon DEF OpToRel

(* A set of numbers that is not empty has a least one: the first newline.   *)
LEMMA FirstOf ==
  ASSUME NEW S \in SUBSET Nat, S # {}
  PROVE  /\ (CHOOSE n \in S : \A m \in S : n <= m) \in S
         /\ \A m \in S : (CHOOSE n \in S : \A k \in S : n <= k) <= m
<1> DEFINE R == {ss \in Nat \X Nat : ss[1] < ss[2]}
<1>1. \E n \in S : \A m \in S : ~(<<m, n>> \in R)
  <2> HIDE DEF R
  <2> QED
    BY NatOrder, WFMin DEF R
<1>2. PICK n \in S : \A m \in S : ~(<<m, n>> \in R)
  BY <1>1
<1>3. \A m \in S : n <= m
  <2> TAKE m \in S
  <2>1. m \in Nat /\ n \in Nat
    OBVIOUS
  <2>2. ~(m < n)
    BY <1>2, <2>1
  <2> QED
    BY <2>1, <2>2
<1> QED
  BY <1>3

-----------------------------------------------------------------------------
(* The ring buffer *)

(* What becomes of each field.                                              *)
LEMMA StoredFields ==
  ASSUME NEW b \in Buffers, NEW n \in Int
  PROVE  LET up == IF b.up + n >= b.down /\ b.up + n = BUF_SIZE THEN 0 ELSE b.up + n
         IN  /\ Stored(b, n).up = up
             /\ Stored(b, n).down = b.down /\ ~Stored(b, n).empty
             /\ Stored(b, n).full <=> b.full \/ b.down = up
             /\ up \in Offsets => Stored(b, n) \in Buffers
<1> DEFINE up == IF b.up + n >= b.down /\ b.up + n = BUF_SIZE THEN 0 ELSE b.up + n
<1>1. /\ Stored(b, n).up = up
      /\ Stored(b, n).down = b.down /\ ~Stored(b, n).empty
      /\ Stored(b, n).full <=> b.full \/ b.down = up
  BY DEF Buffers, Stored
<1>2. ASSUME NEW u \in Offsets, NEW f \in BOOLEAN
      PROVE  [b EXCEPT !.up = u, !.full = f, !.empty = FALSE] \in Buffers
  BY DEF Buffers
<1>3. up \in Offsets => Stored(b, n) \in Buffers
  BY <1>2 DEF Stored
<1> QED
  BY <1>1, <1>3

LEMMA SettledFields ==
  ASSUME NEW b \in Buffers, NEW n \in Int
  PROVE  LET c == Settled(Advanced(b, n))
             down == IF b.down + n = BUF_SIZE THEN 0 ELSE b.down + n
         IN  /\ c.up = b.up /\ c.down = down /\ ~c.full
             /\ c.empty <=> b.empty \/ down = b.up
             /\ down \in Offsets => c \in Buffers
<1> DEFINE c == Settled(Advanced(b, n))
           down == IF b.down + n = BUF_SIZE THEN 0 ELSE b.down + n
<1>1. /\ c.up = b.up /\ c.down = down /\ ~c.full
      /\ c.empty <=> b.empty \/ down = b.up
  BY DEF Buffers, Advanced, Settled
<1>2. ASSUME NEW d \in Offsets, NEW e \in BOOLEAN
      PROVE  [Advanced(b, n) EXCEPT !.down = d, !.empty = e, !.full = FALSE] \in Buffers
  BY DEF Buffers, Advanced
<1>3. Advanced(b, n).down = b.down + n /\ Advanced(b, n).empty \in BOOLEAN
  BY DEF Buffers, Advanced
<1>4. down \in Offsets => c \in Buffers
  BY <1>2, <1>3 DEF Settled
<1> QED
  BY <1>1, <1>4

LEMMA RoomFits ==
  ASSUME NEW b \in Buffers, Coherent(b), ~b.full
  PROVE  /\ ReadRoom(b) \in Nat
         /\ ReadRoom(b) <= BUF_SIZE - Held(b) /\ b.up + ReadRoom(b) <= BUF_SIZE
BY BufferAssumption DEF Buffers, Offsets, Coherent, ReadRoom, Held

LEMMA PageFits ==
  ASSUME NEW b \in Buffers
  PROVE  PageRoom(b) \in 1..BUF_SIZE /\ b.down + PageRoom(b) <= BUF_SIZE
BY BufferAssumption DEF Buffers, Offsets, PageRoom

LEMMA HeldFits ==
  ASSUME NEW b \in Buffers, Coherent(b)
  PROVE  /\ Held(b) \in 0..BUF_SIZE
         /\ b.empty <=> Held(b) = 0
         /\ b.full <=> Held(b) = BUF_SIZE
         /\ ~b.empty => PageRoom(b) <= Held(b)
BY BufferAssumption DEF Buffers, Offsets, Coherent, Held, PageRoom

LEMMA PlaceFits ==
  ASSUME NEW b \in Buffers, Coherent(b), NEW k \in 0..(Held(b) - 1)
  PROVE  Place(b, k) \in Offsets
BY BufferAssumption DEF Buffers, Offsets, Coherent, Held, Place

(* What is read next goes where nothing is held. *)
LEMMA PlaceIsKept ==
  ASSUME NEW b \in Buffers, Coherent(b), NEW k \in 0..(Held(b) - 1),
         NEW n \in Nat, n <= BUF_SIZE - Held(b), b.up + n <= BUF_SIZE
  PROVE  Place(b, k) \notin b.up..(b.up + n - 1)
BY BufferAssumption DEF Buffers, Offsets, Coherent, Held, Place

LEMMA StoredFits ==
  ASSUME NEW b \in Buffers, Coherent(b), NEW n \in Nat \ {0},
         n <= BUF_SIZE - Held(b), b.up + n <= BUF_SIZE
  PROVE  /\ Stored(b, n) \in Buffers /\ Coherent(Stored(b, n))
         /\ Held(Stored(b, n)) = Held(b) + n
         /\ ~Stored(b, n).empty /\ Stored(b, n).down = b.down
         /\ \A k \in 0..(Held(b) - 1) : Place(Stored(b, n), k) = Place(b, k)
         /\ \A j \in 0..(n - 1) : Place(Stored(b, n), Held(b) + j) = b.up + j
         /\ ~b.empty => PageRoom(b) <= PageRoom(Stored(b, n))
<1> DEFINE up == IF b.up + n >= b.down /\ b.up + n = BUF_SIZE THEN 0 ELSE b.up + n
           c == Stored(b, n)
<1>1. /\ c.up = up /\ c.down = b.down /\ ~c.empty
      /\ c.full <=> b.full \/ up = b.down
  BY StoredFields
<1>3. b.up \in Offsets /\ b.down \in Offsets /\ b.full \in BOOLEAN /\ b.empty \in BOOLEAN
  BY DEF Buffers
<1>4. up = (IF b.up + n = BUF_SIZE THEN 0 ELSE b.up + n) /\ up \in Offsets
  BY <1>3, BufferAssumption DEF Offsets
<1>2. c \in Buffers
  BY <1>4, StoredFields
<1> HIDE DEF up, c
<1>5. ~b.full
  BY <1>3, BufferAssumption DEF Held, Coherent, Offsets
<1>6. Coherent(c)
  BY <1>1, <1>3, <1>4, <1>5, BufferAssumption DEF Held, Coherent, Offsets
<1>7. Held(c) = Held(b) + n
  BY <1>1, <1>3, <1>4, <1>5, BufferAssumption DEF Held, Coherent, Offsets
<1>8. \A k \in 0..(Held(b) - 1) : Place(c, k) = Place(b, k)
  BY <1>1 DEF Place
<1>9. \A j \in 0..(n - 1) : Place(c, Held(b) + j) = b.up + j
  BY <1>1, <1>3, <1>4, <1>5, BufferAssumption DEF Held, Coherent, Offsets, Place
<1>10. ~b.empty => PageRoom(b) <= PageRoom(c)
  BY <1>1, <1>3, <1>4, <1>5, BufferAssumption DEF Held, Coherent, Offsets, PageRoom
<1> QED
  BY <1>1, <1>2, <1>6, <1>7, <1>8, <1>9, <1>10 DEF c

LEMMA ShownFits ==
  ASSUME NEW b \in Buffers, NEW n \in 1..PageRoom(b)
  PROVE  /\ Advanced(b, n).down \in 1..BUF_SIZE /\ Advanced(b, n).up = b.up
         /\ Advanced(b, n).down = b.down + n
         /\ Advanced(b, n).empty = b.empty
         /\ Settled(Advanced(b, n)) \in Buffers
         /\ Settled(Advanced(b, n)).up = b.up
         /\ b.empty => Settled(Advanced(b, n)).empty
         /\ \A i \in 1..n : b.down + i - 1 \in Offsets
<1>1. b.up \in Offsets /\ b.down \in Offsets /\ b.full \in BOOLEAN /\ b.empty \in BOOLEAN
  BY DEF Buffers
<1>2. /\ Advanced(b, n).up = b.up /\ Advanced(b, n).down = b.down + n
      /\ Advanced(b, n).empty = b.empty
  BY DEF Advanced, Buffers
<1>3. b.down + n <= BUF_SIZE
  BY <1>1, BufferAssumption DEF Offsets, PageRoom
<1>4. (IF b.down + n = BUF_SIZE THEN 0 ELSE b.down + n) \in Offsets
  BY <1>1, <1>3, BufferAssumption DEF Offsets
<1>5. /\ Settled(Advanced(b, n)) \in Buffers
      /\ Settled(Advanced(b, n)).up = b.up
      /\ b.empty => Settled(Advanced(b, n)).empty
  BY <1>4, SettledFields
<1>6. \A i \in 1..n : b.down + i - 1 \in Offsets
  BY <1>1, <1>3, BufferAssumption DEF Offsets
<1>7. b.down + n \in 1..BUF_SIZE
  BY <1>1, <1>3, BufferAssumption DEF Offsets
<1> QED
  BY <1>2, <1>5, <1>6, <1>7

LEMMA ShownKeepsOrder ==
  ASSUME NEW b \in Buffers, Coherent(b), ~b.empty, NEW n \in 1..PageRoom(b)
  PROVE  /\ Coherent(Settled(Advanced(b, n)))
         /\ Held(Settled(Advanced(b, n))) = Held(b) - n
         /\ \A k \in 0..(Held(b) - n - 1) :
               Place(Settled(Advanced(b, n)), k) = Place(b, k + n)
         /\ \A i \in 1..n : Place(b, i - 1) = b.down + i - 1
<1> DEFINE c == Settled(Advanced(b, n))
           down == IF b.down + n = BUF_SIZE THEN 0 ELSE b.down + n
<1>1. /\ c.up = b.up /\ c.down = down /\ ~c.full
      /\ c.empty <=> down = b.up
  BY SettledFields
<1>2. b.up \in Offsets /\ b.down \in Offsets /\ b.full \in BOOLEAN /\ b.empty \in BOOLEAN
  BY DEF Buffers
<1>3. b.down + n <= BUF_SIZE /\ down \in Offsets
  BY <1>2, BufferAssumption DEF Offsets, PageRoom
<1>4. down = IF b.down + n = BUF_SIZE THEN 0 ELSE b.down + n
  OBVIOUS
<1> HIDE DEF c, down
<1>5. Coherent(c)
  BY <1>1, <1>2, <1>3, <1>4, BufferAssumption DEF Coherent, Offsets, PageRoom
<1>6. Held(c) = Held(b) - n
  <2>1. CASE b.down < b.up
    BY <1>1, <1>2, <1>3, <1>4, <2>1, BufferAssumption
       DEF Coherent, Offsets, PageRoom, Held
  <2>2. CASE b.down >= b.up
    <3>1. n <= BUF_SIZE - b.down /\ n \in Nat
      BY <1>2, <2>2, BufferAssumption DEF Offsets, PageRoom
    <3>2. Held(b) = BUF_SIZE - b.down + b.up
      BY <1>2, <2>2 DEF Held, Offsets
    <3>3. CASE b.down + n = BUF_SIZE
      <4>1. c.down = 0 /\ b.up \in Nat /\ Held(b) - n = b.up
        BY <1>1, <1>2, <1>4, <3>1, <3>2, <3>3, BufferAssumption DEF Offsets
      <4>2. CASE b.up = 0
        BY <1>1, <4>1, <4>2 DEF Held
      <4>3. CASE b.up # 0
        <5>1. ~c.empty /\ c.down < c.up /\ c.up - c.down = b.up
          BY <1>1, <4>1, <4>3
        <5>2. Held(c) = c.up - c.down
          BY <5>1 DEF Held
        <5> QED
          BY <4>1, <5>1, <5>2
      <4> QED
        BY <4>1, <4>2, <4>3
    <3>4. CASE b.down + n # BUF_SIZE
      <4>1. c.down = b.down + n /\ c.down > b.up
        BY <1>1, <1>2, <1>4, <2>2, <3>1, <3>4 DEF Offsets
      <4> QED
        BY <1>1, <1>2, <3>1, <3>2, <4>1, BufferAssumption DEF Held, Offsets
    <3> QED
      BY <3>3, <3>4
  <2> QED
    BY <1>2, <2>1, <2>2 DEF Offsets
<1>7. \A k \in 0..(Held(b) - n - 1) : Place(c, k) = Place(b, k + n)
  BY <1>1, <1>2, <1>3, <1>4, BufferAssumption DEF Coherent, Offsets, PageRoom, Held, Place
<1>8. \A i \in 1..n : Place(b, i - 1) = b.down + i - 1
  BY <1>2, <1>3, BufferAssumption DEF Offsets, Place
<1> QED
  BY <1>5, <1>6, <1>7, <1>8 DEF c

(* In buffer b with array f lie the bytes after the first s, up to byte t.  *)
Holds(b, f, s, t) ==
    /\ Held(b) = t - s
    /\ \A k \in 0..(Held(b) - 1) : f[Place(b, k)] = s + 1 + k

(* read() fills n places from up on with the bytes that follow byte t.      *)
Filled(b, f, t, n) == [i \in Offsets |-> IF i \in b.up..(b.up + n - 1)
                                         THEN t + 1 + i - b.up ELSE f[i]]

LEMMA ReadInto ==
  ASSUME NEW b \in Buffers, Coherent(b), NEW f \in [Offsets -> Int],
         NEW s \in Int, NEW t \in Int, Holds(b, f, s, t),
         NEW n \in Nat, n <= BUF_SIZE - Held(b), b.up + n <= BUF_SIZE
  PROVE  /\ Filled(b, f, t, n) \in [Offsets -> Int] /\ Holds(b, Filled(b, f, t, n), s, t)
         /\ \A j \in 0..(n - 1) : Filled(b, f, t, n)[b.up + j] = t + 1 + j
<1> DEFINE g == Filled(b, f, t, n)
<1>0. g = [i \in Offsets |-> IF i \in b.up..(b.up + n - 1)
                             THEN t + 1 + i - b.up ELSE f[i]]
  BY DEF Filled
<1> HIDE DEF g
<1>1. b.up \in Offsets /\ b.up \in Nat /\ Held(b) \in Nat
  BY HeldFits DEF Buffers, Offsets
<1>2. g \in [Offsets -> Int]
  <2>1. \A i \in Offsets : g[i] \in Int
    BY <1>0, <1>1, BufferAssumption DEF Offsets
  <2> QED
    BY <1>0, <2>1
<1>3. \A k \in 0..(Held(b) - 1) : g[Place(b, k)] = f[Place(b, k)]
  BY <1>0, PlaceFits, PlaceIsKept
<1>4. ASSUME NEW j \in 0..(n - 1) PROVE g[b.up + j] = t + 1 + j
  <2>1. j \in Int /\ 0 <= j /\ j <= n - 1
    OBVIOUS
  <2> DEFINE u == b.up
  <2>2. u + j \in Offsets /\ u + j \in u..(u + n - 1)
    <3>1. u \in Nat /\ n \in Nat /\ u + n <= BUF_SIZE /\ BUF_SIZE \in Nat
      BY <1>1, BufferAssumption
    <3> HIDE DEF u
    <3> QED
      BY <2>1, <3>1 DEF Offsets
  <2>3. g[b.up + j] = t + 1 + (b.up + j) - b.up
    BY <1>0, <2>2
  <2> QED
    BY <1>1, <2>1, <2>3
<1> QED
  BY <1>2, <1>3, <1>4 DEF Holds, g

LEMMA StoreHolds ==
  ASSUME NEW b \in Buffers, Coherent(b), NEW f, NEW s \in Int, NEW t \in Int,
         Holds(b, f, s, t), NEW n \in Nat \ {0}, n <= BUF_SIZE - Held(b),
         b.up + n <= BUF_SIZE, \A j \in 0..(n - 1) : f[b.up + j] = t + 1 + j
  PROVE  Holds(Stored(b, n), f, s, t + n)
<1> DEFINE c == Stored(b, n)
<1>1. /\ Held(c) = Held(b) + n
      /\ \A k \in 0..(Held(b) - 1) : Place(c, k) = Place(b, k)
      /\ \A j \in 0..(n - 1) : Place(c, Held(b) + j) = b.up + j
  BY StoredFits
<1>2. Held(b) \in Nat /\ Held(b) = t - s
  BY HeldFits DEF Holds
<1> HIDE DEF c
<1>3. ASSUME NEW k \in 0..(Held(c) - 1) PROVE f[Place(c, k)] = s + 1 + k
  <2>1. CASE k < Held(b)
    BY <1>1, <1>2, <1>3, <2>1 DEF Holds
  <2>2. CASE k >= Held(b)
    <3>1. k - Held(b) \in 0..(n - 1) /\ Held(b) + (k - Held(b)) = k
      BY <1>1, <1>2, <1>3, <2>2
    <3>2. f[Place(c, k)] = t + 1 + (k - Held(b))
      BY <1>1, <3>1
    <3> QED
      BY <1>2, <3>1, <3>2
  <2> QED
    BY <1>1, <1>2, <1>3, <2>1, <2>2
<1> QED
  BY <1>1, <1>2, <1>3 DEF Holds, c

LEMMA ShowHolds ==
  ASSUME NEW b \in Buffers, Coherent(b), ~b.empty, NEW f,
         NEW s \in Int, NEW t \in Int, Holds(b, f, s, t), NEW n \in 1..PageRoom(b)
  PROVE  /\ Holds(Settled(Advanced(b, n)), f, s + n, t)
         /\ \A i \in 1..n : f[b.down + i - 1] = s + i
         /\ s + n <= t
<1> DEFINE c == Settled(Advanced(b, n))
<1>1. /\ Held(c) = Held(b) - n
      /\ \A k \in 0..(Held(b) - n - 1) : Place(c, k) = Place(b, k + n)
      /\ \A i \in 1..n : Place(b, i - 1) = b.down + i - 1
  BY ShownKeepsOrder
<1>2. Held(b) \in Nat /\ Held(b) = t - s /\ n <= Held(b) /\ n \in Nat
  BY HeldFits, PageFits DEF Holds
<1> HIDE DEF c
<1>3. ASSUME NEW k \in 0..(Held(c) - 1) PROVE f[Place(c, k)] = s + n + 1 + k
  <2>1. k + n \in 0..(Held(b) - 1) /\ k \in 0..(Held(b) - n - 1)
    BY <1>1, <1>2, <1>3
  <2> QED
    BY <1>1, <1>2, <2>1 DEF Holds
<1>4. ASSUME NEW i \in 1..n PROVE f[b.down + i - 1] = s + i
  <2>1. i - 1 \in 0..(Held(b) - 1)
    BY <1>2, <1>4
  <2>2. f[Place(b, i - 1)] = s + 1 + (i - 1)
    BY <2>1 DEF Holds
  <2> QED
    BY <1>1, <2>2
<1> QED
  BY <1>1, <1>2, <1>3, <1>4 DEF Holds, c

-----------------------------------------------------------------------------
(* The server and the screen *)

ServerInv ==
    /\ sent \in Nat /\ sent <= Total /\ received \in Nat /\ received <= sent
    /\ newlines \subseteq 0..sent

(* What Pager allows, but for what is excused. *)
Shows(n) ==
    /\ lines < MaxLines /\ Len(screen) + n <= Total
    /\ \A i \in 1..(n - 1) : Len(screen) + i \notin newlines
    /\ screen' = screen \o [i \in 1..n |-> Len(screen) + i]
    /\ lines' = IF Len(screen') \in newlines THEN lines + 1 ELSE lines
    /\ UNCHANGED newlines
PageStep ==
    \/ UNCHANGED <<newlines, screen, lines>>
    \/ \E k \in 1..Total : /\ k > Len(screen) /\ newlines' = newlines \cup {k}
                           /\ UNCHANGED <<screen, lines>>
    \/ \E n \in 1..Total : Shows(n)
    \/ lines' = 0 /\ UNCHANGED <<newlines, screen>>

LEMMA ServerInitially == WorldInit => ServerInv
BY PagerAssumption DEF WorldInit, ServerInv

LEMMA ServerActs ==
  ASSUME ServerInv, Server \/ \E key \in Keys : Type(key)
  PROVE  /\ ServerInv' /\ UNCHANGED <<received, screen, lines>>
         /\ \/ newlines' = newlines
            \/ sent + 1 \in 1..Total /\ newlines' = newlines \cup {sent + 1}
         /\ server = "closed" => server' = "closed" /\ sent' = sent
<1>1. CASE Send
  <2>1. /\ sent' = sent + 1 /\ sent < Total /\ server = "open" /\ sent + 1 \in 1..Total
        /\ UNCHANGED <<received, screen, lines>>
        /\ newlines' = newlines \/ newlines' = newlines \cup {sent + 1}
    BY <1>1, PagerAssumption DEF Send, io, ServerInv
  <2>2. sent' \in Nat /\ sent' <= Total /\ received' \in Nat /\ received' <= sent'
    BY <2>1, PagerAssumption DEF ServerInv
  <2>3. newlines' \subseteq 0..sent'
    <3>1. 0..sent \cup {sent + 1} \subseteq 0..(sent + 1)
      BY DEF ServerInv
    <3> QED
      BY <2>1, <3>1 DEF ServerInv
  <2>4. ServerInv'
    BY <2>2, <2>3 DEF ServerInv
  <2> QED
    BY <2>1, <2>4
<1>2. CASE Hangup("closed") \/ Hangup("reset") \/ \E key \in Keys : Type(key)
  BY <1>2 DEF Hangup, Type, network, io, ServerInv
<1> QED
  BY <1>1, <1>2 DEF Server

(* As many bytes are shown as lie in order after the last one shown.        *)
LEMMA Shown ==
  ASSUME screen \in Seq(Int), lines \in Nat, NEW n \in Nat \ {0}, NEW bytes,
         bytes = [i \in 1..n |-> bytes[i]],
         \A i \in 1..n : bytes[i] = Len(screen) + i, Display(bytes)
  PROVE  /\ screen' = screen \o [i \in 1..n |-> Len(screen) + i]
         /\ screen' \in Seq(Int) /\ Len(screen') = Len(screen) + n
         /\ lines' = IF Len(screen) + n \in newlines THEN lines + 1 ELSE lines
         /\ lines' \in Nat
<1> DEFINE more == [i \in 1..n |-> Len(screen) + i]
<1>1. more \in Seq(Int) /\ Len(more) = n /\ Len(screen) \in Nat
  BY LenProperties
<1>2. bytes = more
  OBVIOUS
<1>3. bytes[Len(bytes)] = Len(screen) + n
  BY <1>1, <1>2
<1> HIDE DEF more
<1>4. screen' = screen \o more
  BY <1>2 DEF Display
<1>5. screen' \in Seq(Int) /\ Len(screen') = Len(screen) + n
  BY <1>1, <1>4, ConcatProperties
<1> QED
  BY <1>3, <1>4, <1>5 DEF Display, more

-----------------------------------------------------------------------------
(* lab26 *)

SelectInv ==
    /\ ring \in Buffers /\ Coherent(ring)
    /\ buf \in [Offsets -> Int] /\ screen \in Seq(Int)
    /\ lines \in Nat /\ lines_on_screen \in Nat
    /\ ~gone => /\ Holds(ring, buf, Len(screen), received)
                /\ sock_end => server = "closed" /\ received = sent
                /\ lines <= lines_on_screen
    /\ pc = "done" => sock_end /\ ring.empty

(* What a step of it must show: the invariant, and Pager's part, unless     *)
(* SIGINT has come.                                                         *)
SelectShown == SelectInv' /\ ServerInv' /\ (gone' \/ PageStep) /\ (gone => gone')

(* The module PagerSelect reads the ring as is done here. *)
LEMMA SelectRing ==
    /\ Select!Offsets = Offsets /\ Select!EmptyBuffer = EmptyBuffer
    /\ \A b : Select!ReadRoom(b) = ReadRoom(b) /\ Select!PageRoom(b) = PageRoom(b)
    /\ \A b, n : Select!Stored(b, n) = Stored(b, n)
    /\ \A b, n : Select!Advanced(b, n) = Advanced(b, n)
    /\ \A b : Select!Settled(b) = Settled(b) /\ Select!Held(b) = Held(b)
    /\ \A b, k : Select!Place(b, k) = Place(b, k)
    /\ \A b : Select!Coherent(b) <=> Coherent(b)
    /\ \A b : Select!Display(b) <=> Display(b)
    /\ \A m, n : Select!Takes(m, n) <=> Takes(m, n)
<1>1. Select!Offsets = Offsets /\ Select!EmptyBuffer = EmptyBuffer
  BY DEF Select!Offsets, Offsets, Select!EmptyBuffer, EmptyBuffer
<1>2. \A b : Select!ReadRoom(b) = ReadRoom(b) /\ Select!PageRoom(b) = PageRoom(b)
  BY DEF Select!ReadRoom, ReadRoom, Select!PageRoom, PageRoom
<1>3. \A b, n : Select!Stored(b, n) = Stored(b, n)
  BY DEF Select!Stored, Stored
<1>4. \A b, n : Select!Advanced(b, n) = Advanced(b, n)
  BY DEF Select!Advanced, Advanced
<1>5. \A b : Select!Settled(b) = Settled(b) /\ Select!Held(b) = Held(b)
  BY DEF Select!Settled, Settled, Select!Held, Held
<1>6. \A b, k : Select!Place(b, k) = Place(b, k)
  BY DEF Select!Place, Place
<1>7. \A b : Select!Coherent(b) <=> Coherent(b)
  BY DEF Select!Coherent, Coherent
<1>8. \A b : Select!Display(b) <=> Display(b)
  BY DEF Select!Display, Display
<1>9. \A m, n : Select!Takes(m, n) <=> Takes(m, n)
  BY DEF Select!Takes, Takes
<1> QED
  BY <1>1, <1>2, <1>3, <1>4, <1>5, <1>6, <1>7, <1>8, <1>9

LEMMA EmptyHolds ==
    /\ EmptyBuffer \in Buffers /\ Coherent(EmptyBuffer) /\ EmptyBuffer.empty
    /\ EmptyBuffer.up = 0 /\ EmptyBuffer.down = 0
    /\ [i \in Offsets |-> 0] \in [Offsets -> Int]
    /\ \A f : Holds(EmptyBuffer, f, 0, 0)
<1>1. EmptyBuffer \in Buffers
  BY BufferAssumption DEF EmptyBuffer, Buffers, Offsets
<1> QED
  BY <1>1 DEF EmptyBuffer, Coherent, Holds, Held

LEMMA SelectInitially == WorldInit /\ Select!Init => SelectInv
<1> SUFFICES ASSUME WorldInit, Select!Init PROVE SelectInv
  OBVIOUS
<1>1. screen \in Seq(Int) /\ Len(screen) = 0 /\ received = 0 /\ lines = 0
  BY DEF WorldInit
<1>2. /\ ring = EmptyBuffer /\ buf = [i \in Offsets |-> 0] /\ lines_on_screen = 0
      /\ sock_end = FALSE /\ gone = FALSE /\ pc = "select"
  BY SelectRing DEF Select!Init
<1> QED
  BY <1>1, <1>2, EmptyHolds DEF SelectInv

(* Steps that move the program on and do nothing else. *)
LEMMA SelectMovesOn ==
  ASSUME SelectInv, ServerInv,
         UNCHANGED <<ring, buf, sock_end, gone, screen, received, sent, server, newlines>>,
         pc' # "done",
         \/ UNCHANGED <<lines, lines_on_screen>>
         \/ lines' = 0 /\ lines_on_screen' = 0
  PROVE  SelectShown
BY DEF SelectInv, ServerInv, SelectShown, PageStep, Holds

LEMMA SelectQuiet ==
  ASSUME SelectInv, ServerInv,
         \/ Select!update_select \/ Select!listen_stdin
         \/ Select!SelectFails \/ Select!WriteFails \/ Select!ReadFails
  PROVE  SelectShown
<1>1. UNCHANGED <<ring, buf, sock_end, gone, screen, received, sent, server, newlines>>
  BY DEF Select!update_select, Select!listen_stdin, Select!SelectFails,
         Select!WriteFails, Select!ReadFails, Select!TurnsPage, Select!input, Select!io, Select!network
<1>2. pc' # "done"
  BY DEF Select!update_select, Select!listen_stdin, Select!SelectFails,
         Select!WriteFails, Select!ReadFails, Select!Goto
<1>3. UNCHANGED <<lines, lines_on_screen>> \/ (lines' = 0 /\ lines_on_screen' = 0)
  BY DEF Select!update_select, Select!listen_stdin, Select!SelectFails,
         Select!WriteFails, Select!ReadFails, Select!TurnsPage, Select!input, Select!io
<1> QED
  BY <1>1, <1>2, <1>3, SelectMovesOn

(* The line shown: at least a byte, and no newline before its last.         *)
LEMMA SelectLine ==
  ASSUME SelectInv
  PROVE  /\ Select!LineLength \in 1..PageRoom(ring)
         /\ \A i \in 1..(Select!LineLength - 1) : buf[ring.down + i - 1] \notin newlines
         /\ buf[ring.down + Select!LineLength - 1] \in newlines <=> Select!LineEnds # {}
<1>1. PageRoom(ring) \in 1..BUF_SIZE
  BY PageFits DEF SelectInv
<1>2. Select!LineEnds = {n \in 1..PageRoom(ring) : buf[ring.down + n - 1] \in newlines}
  BY SelectRing DEF Select!LineEnds
<1>3. CASE Select!LineEnds = {}
  <2>1. Select!LineLength = PageRoom(ring)
    BY <1>3, SelectRing DEF Select!LineLength
  <2> QED
    BY <1>1, <1>2, <1>3, <2>1, BufferAssumption
<1>4. CASE Select!LineEnds # {}
  <2>1. Select!LineLength = CHOOSE n \in Select!LineEnds : \A m \in Select!LineEnds : n <= m
    BY <1>4 DEF Select!LineLength
  <2>2. Select!LineEnds \in SUBSET Nat
    BY <1>1, <1>2, BufferAssumption
  <2>3. /\ Select!LineLength \in Select!LineEnds
        /\ \A m \in Select!LineEnds : Select!LineLength <= m
    BY <1>4, <2>1, <2>2, FirstOf
  <2> QED
    BY <1>1, <1>2, <1>4, <2>3, BufferAssumption
<1> QED
  BY <1>3, <1>4

LEMMA SelectWrites ==
  ASSUME SelectInv, ServerInv, ~ring.empty, NEW n \in Nat, Select!WriteLine(n),
         lines_on_screen < MaxLines,
         UNCHANGED <<buf, sock_end, gone, received, sent, server, newlines>>,
         pc' # "done"
  PROVE  SelectShown
<1> DEFINE bytes == [i \in 1..n |-> buf[ring.down + i - 1]]
<1>1. n \in 1..Select!LineLength /\ n \in 1..PageRoom(ring)
  <2>1. n \in 1..Select!LineLength
    BY SelectRing DEF Select!WriteLine, Takes
  <2>2. Select!LineLength \in 1..PageRoom(ring) /\ PageRoom(ring) \in Nat
    BY SelectLine, PageFits, BufferAssumption DEF SelectInv
  <2> QED
    BY <2>1, <2>2
<1>2. /\ Display(bytes) /\ ring' = Settled(Advanced(ring, n))
      /\ lines_on_screen' = IF Select!LineEnds = {} THEN lines_on_screen
                            ELSE lines_on_screen + 1
  BY SelectRing DEF Select!WriteLine
<1>3. /\ ring' \in Buffers /\ Coherent(ring')
      /\ \A i \in 1..n : ring.down + i - 1 \in Offsets
  BY <1>1, <1>2, ShownFits, ShownKeepsOrder DEF SelectInv
<1>4. bytes \in Seq(Int) /\ Len(bytes) = n /\ n # 0
  BY <1>1, <1>3 DEF SelectInv
<1>5. screen' = screen \o bytes /\ screen' \in Seq(Int)
  BY <1>2, <1>4, ConcatProperties DEF Display, SelectInv
<1>6. lines' \in Nat /\ lines_on_screen' \in Nat
  BY <1>2, <1>4 DEF Display, SelectInv
<1>7. CASE gone
  BY <1>3, <1>5, <1>6, <1>7 DEF SelectInv, ServerInv, SelectShown
<1>8. CASE ~gone
  <2>1. Len(screen) \in Nat /\ received \in Nat /\ received <= Total
    BY PagerAssumption DEF SelectInv, ServerInv
  <2>2. /\ Holds(ring', buf, Len(screen) + n, received)
        /\ \A i \in 1..n : buf[ring.down + i - 1] = Len(screen) + i
        /\ Len(screen) + n <= received
    BY <1>1, <1>2, <1>8, <2>1, ShowHolds DEF SelectInv
  <2>3. \A i \in 1..n : bytes[i] = Len(screen) + i
    BY <2>2
  <2>4. bytes = [i \in 1..n |-> bytes[i]]
    OBVIOUS
  <2> HIDE DEF bytes
  <2>5. /\ screen' = screen \o [i \in 1..n |-> Len(screen) + i]
        /\ Len(screen') = Len(screen) + n
        /\ lines' = IF Len(screen) + n \in newlines THEN lines + 1 ELSE lines
    BY <1>2, <1>4, <2>3, <2>4, Shown DEF SelectInv
  <2>6. lines < MaxLines
    BY <1>8, PagerAssumption DEF SelectInv
  <2>7. \A i \in 1..(n - 1) : Len(screen) + i \notin newlines
    <3> TAKE i \in 1..(n - 1)
    <3>1. i \in 1..n /\ i \in 1..(Select!LineLength - 1)
      BY <1>1, <1>4, SelectLine, PageFits, BufferAssumption DEF SelectInv
    <3> QED
      BY <2>2, <3>1, SelectLine
  <2>8. n \in 1..Total
    BY <1>1, <1>4, <2>1, <2>2, PagerAssumption
  <2>9. PageStep
    <3>1. Len(screen) + n <= Total
      BY <1>1, <1>4, <2>1, <2>2, PagerAssumption
    <3>2. Shows(n)
      BY <2>5, <2>6, <2>7, <3>1 DEF Shows
    <3> QED
      BY <2>8, <3>2 DEF PageStep
  <2>10. lines' <= lines_on_screen'
    <3>1. CASE Len(screen) + n \in newlines
      <4>1. n \in 1..n /\ buf[ring.down + n - 1] \in newlines
        BY <1>4, <2>2, <3>1
      <4>2. n = Select!LineLength
        BY <1>1, <4>1, SelectLine, PageFits, BufferAssumption DEF SelectInv
      <4>3. Select!LineEnds # {}
        BY <4>1, <4>2, SelectLine
      <4> QED
        BY <1>2, <1>8, <2>5, <3>1, <4>3 DEF SelectInv
    <3>2. CASE Len(screen) + n \notin newlines
      BY <1>2, <1>8, <2>5, <3>2 DEF SelectInv
    <3> QED
      BY <3>1, <3>2
  <2>11. Holds(ring, buf, Len(screen), received)'
    BY <2>2, <2>5 DEF Holds
  <2> QED
    BY <1>3, <1>5, <1>6, <1>8, <2>9, <2>10, <2>11 DEF SelectInv, ServerInv, SelectShown
<1> QED
  BY <1>7, <1>8

LEMMA SelectStdout ==
  ASSUME SelectInv, ServerInv, Select!listen_stdout
  PROVE  SelectShown
<1>1. /\ UNCHANGED <<buf, sock_end, gone, received, sent, server, newlines>>
      /\ pc' # "done"
  BY DEF Select!listen_stdout, Select!Goto, Select!input, Select!network
<1>2. CASE Select!Writes
  <2>1. PICK n \in 1..BUF_SIZE : Select!WriteLine(n)
    BY <1>2 DEF Select!listen_stdout
  <2>2. n \in Nat /\ ~ring.empty /\ lines_on_screen < MaxLines
    BY <1>2, <2>1, BufferAssumption, PagerAssumption
       DEF Select!Writes, Select!Full, SelectInv
  <2> QED
    BY <1>1, <2>1, <2>2, SelectWrites
<1>3. CASE ~Select!Writes
  BY <1>1, <1>3, SelectMovesOn DEF Select!listen_stdout
<1> QED
  BY <1>2, <1>3

LEMMA SelectReads ==
  ASSUME SelectInv, ServerInv, ~gone, ~ring.full, NEW n \in 1..ReadRoom(ring),
         Select!ReadBytes(n),
         UNCHANGED <<sock_end, gone, screen, lines, lines_on_screen, sent, server, newlines>>,
         pc' # "done", ~sock_end
  PROVE  SelectShown
<1>1. /\ n \in Nat \ {0} /\ n <= BUF_SIZE - Held(ring) /\ ring.up + n <= BUF_SIZE
      /\ Held(ring) \in Int
  <2>1. /\ ReadRoom(ring) \in Nat /\ ReadRoom(ring) <= BUF_SIZE - Held(ring)
        /\ ring.up + ReadRoom(ring) <= BUF_SIZE
    BY RoomFits DEF SelectInv
  <2>2. Held(ring) \in Int /\ ring.up \in Int
    BY HeldFits DEF SelectInv, Buffers, Offsets
  <2> QED
    BY <2>1, <2>2, BufferAssumption
<1>2. /\ n <= sent - received /\ received' = received + n
      /\ buf' = [i \in Offsets |-> IF i \in ring.up..(ring.up + n - 1)
                                   THEN received + 1 + i - ring.up ELSE buf[i]]
      /\ ring' = Stored(ring, n)
  BY SelectRing DEF Select!ReadBytes
<1>3. Len(screen) \in Int /\ received \in Int
  BY DEF SelectInv, ServerInv
<1>4. /\ buf' \in [Offsets -> Int] /\ Holds(ring, buf', Len(screen), received)
      /\ \A j \in 0..(n - 1) : buf'[ring.up + j] = received + 1 + j
  <2>1. buf' = Filled(ring, buf, received, n)
    BY <1>2 DEF Filled
  <2> QED
    BY <1>1, <1>3, <2>1, ReadInto DEF SelectInv
<1>5. ring' \in Buffers /\ Coherent(ring')
  BY <1>1, <1>2, StoredFits DEF SelectInv
<1>6. Holds(ring', buf', Len(screen), received + n)
  BY <1>1, <1>2, <1>3, <1>4, StoreHolds DEF SelectInv
<1>7. Holds(ring, buf, Len(screen), received)'
  BY <1>2, <1>6 DEF Holds
<1>8. ServerInv'
  <2>1. received' \in Nat /\ received' <= sent
    BY <1>1, <1>2 DEF ServerInv
  <2> QED
    BY <2>1 DEF ServerInv
<1>9. SelectInv'
  BY <1>4, <1>5, <1>7 DEF SelectInv
<1> QED
  BY <1>8, <1>9 DEF SelectShown, PageStep

LEMMA SelectSocket ==
  ASSUME SelectInv, ServerInv, Select!listen_socket
  PROVE  SelectShown
<1>1. /\ UNCHANGED <<gone, screen, lines, lines_on_screen, sent, server, newlines>>
      /\ pc' = IF sock_end' /\ ring'.empty THEN "done" ELSE "select"
  BY DEF Select!listen_socket, Select!network
<1>2. CASE Select!Reads /\ \E n \in 1..Select!ReadRoom(ring) : Select!ReadBytes(n) /\ UNCHANGED sock_end
  <2>1. PICK n \in 1..ReadRoom(ring) : Select!ReadBytes(n)
    BY <1>2, SelectRing
  <2>2. ~gone /\ ~ring.full /\ ~sock_end /\ sock_end' = sock_end
    BY <1>2 DEF Select!listen_socket, Select!Reads, Select!Broken
  <2> QED
    BY <1>1, <2>1, <2>2, SelectReads
<1>3. CASE Select!Reads /\ Select!ReadEnd
  <2>1. /\ received = sent /\ server = "closed" /\ sock_end' = TRUE
        /\ UNCHANGED <<ring, buf, received>>
    BY <1>3 DEF Select!ReadEnd
  <2> QED
    BY <1>1, <2>1 DEF SelectInv, ServerInv, SelectShown, PageStep, Holds
<1>4. CASE ~Select!Reads
  <2>1. UNCHANGED <<ring, buf, received, sock_end>>
    BY <1>4 DEF Select!listen_socket
  <2> QED
    BY <1>1, <2>1 DEF SelectInv, ServerInv, SelectShown, PageStep, Holds
<1> QED
  BY <1>2, <1>3, <1>4 DEF Select!listen_socket

LEMMA SelectInterrupt ==
  ASSUME SelectInv, ServerInv, Select!Interrupt
  PROVE  SelectShown
<1>1. /\ UNCHANGED <<ring, sock_end, lines_on_screen, lines, screen, received, sent, server>>
      /\ gone' = TRUE /\ pc' # "done"
      /\ newlines' = newlines \/ newlines' = newlines \cup {0}
  BY DEF Select!Interrupt, Select!io
<1>2. buf' = [i \in Offsets |-> 0]
  BY SelectRing DEF Select!Interrupt
<1>3. ServerInv'
  <2>1. 0 \in 0..sent
    BY DEF ServerInv
  <2> QED
    BY <1>1, <2>1 DEF ServerInv
<1>4. SelectInv'
  BY <1>1, <1>2, EmptyHolds DEF SelectInv
<1> QED
  BY <1>1, <1>3, <1>4 DEF SelectShown

LEMMA SelectStep == SelectInv /\ ServerInv /\ Select!Next => SelectShown
BY SelectQuiet, SelectStdout, SelectSocket, SelectInterrupt
   DEF Select!Next, Select!load_content_from_server

LEMMA SelectServed ==
  ASSUME SelectInv, ServerInv, Server \/ \E key \in Keys : Type(key),
         UNCHANGED <<lines_on_screen, shared, select>>
  PROVE  SelectShown
<1>1. /\ UNCHANGED <<received, screen, lines, ring, buf, sock_end, lines_on_screen, gone, pc>>
      /\ ServerInv' /\ (server = "closed" => server' = "closed" /\ sent' = sent)
      /\ \/ newlines' = newlines
         \/ sent + 1 \in 1..Total /\ newlines' = newlines \cup {sent + 1}
  BY ServerActs DEF shared, select
<1>2. SelectInv'
  BY <1>1 DEF SelectInv, Holds
<1>3. gone \/ PageStep
  <2>1. SUFFICES ASSUME ~gone, newlines' # newlines PROVE PageStep
    BY <1>1 DEF PageStep
  <2>2. Len(screen) < sent + 1
    BY <2>1, HeldFits DEF SelectInv, ServerInv, Holds
  <2> QED
    BY <1>1, <2>1, <2>2 DEF PageStep
<1> QED
  BY <1>1, <1>2, <1>3 DEF SelectShown

-----------------------------------------------------------------------------
(* lab28 *)

(* The ring as it will be when the user's thread has wrapped it around.     *)
Wide == [up : Offsets, down : 0..BUF_SIZE, full : BOOLEAN, empty : BOOLEAN]
Kept == IF user = "wrap" THEN Settled(ring) ELSE ring

Reading == reader = "store" /\ ret > 0

(* The connection has ended and the ring is empty: all has been shown, and  *)
(* what is shown now is what the array last held.                           *)
Dry == sock_end /\ Kept.empty

ThreadsTypes ==
    /\ ring \in Wide /\ (user # "wrap" => ring \in Buffers)
    /\ buf \in [Offsets -> Int] /\ screen \in Seq(Int)
    /\ sock_end \in BOOLEAN /\ cancelled \in BOOLEAN
    /\ room \in Int /\ ret \in Int /\ ret >= -1 /\ page \in Int
    /\ lines \in Nat /\ lines_on_screen \in Nat

ThreadsInv ==
    /\ ThreadsTypes
    /\ sock_end => reader = "done"
    /\ ~Dry => /\ Coherent(Kept)
               /\ Holds(Kept, buf, Threads!Taken, Threads!Stocked)
    /\ Dry => Len(screen) >= received
    /\ reader = "read" => room <= BUF_SIZE - Held(Kept) /\ Kept.up + room <= BUF_SIZE
    /\ Reading => /\ ret <= BUF_SIZE - Held(Kept) /\ Kept.up + ret <= BUF_SIZE
                  /\ \A j \in 0..(ret - 1) : buf[Kept.up + j] = Threads!Stocked + 1 + j
    /\ user \in {"write", "written"} => page \in 1..PageRoom(ring)
    /\ user \in {"key", "turn", "write", "written"} => ~ring.empty \/ sock_end
    /\ user = "done" => sock_end /\ ring.empty

(* A line that is being shown is counted already if it will be complete.    *)
LinesInv ==
    ~Dry => /\ user # "write" => lines <= lines_on_screen
            /\ user = "turn" => lines = 0
            /\ user = "write" =>
                  /\ \A i \in 1..(page - 1) : Len(screen) + i \notin newlines
                  /\ IF Len(screen) + page \in newlines THEN lines < lines_on_screen
                     ELSE lines <= lines_on_screen
                  /\ lines < MaxLines

Excused == cancelled \/ Threads!Stale

ThreadsShown ==
    ThreadsInv' /\ LinesInv' /\ ServerInv' /\ (Excused' \/ PageStep) /\ (Excused => Excused')

(* The module PagerThreads reads the ring as is done here. *)
LEMMA ThreadsRing ==
    /\ Threads!Offsets = Offsets /\ Threads!EmptyBuffer = EmptyBuffer
    /\ \A b : Threads!ReadRoom(b) = ReadRoom(b) /\ Threads!PageRoom(b) = PageRoom(b)
    /\ \A b, n : Threads!Stored(b, n) = Stored(b, n)
    /\ \A b, n : Threads!Advanced(b, n) = Advanced(b, n)
    /\ \A b : Threads!Settled(b) = Settled(b) /\ Threads!Held(b) = Held(b)
    /\ \A b, k : Threads!Place(b, k) = Place(b, k)
    /\ \A b : Threads!Coherent(b) <=> Coherent(b)
    /\ \A b : Threads!Display(b) <=> Display(b)
    /\ \A m, n : Threads!Takes(m, n) <=> Takes(m, n)
<1>1. Threads!Offsets = Offsets /\ Threads!EmptyBuffer = EmptyBuffer
  BY DEF Threads!Offsets, Offsets, Threads!EmptyBuffer, EmptyBuffer
<1>2. \A b : Threads!ReadRoom(b) = ReadRoom(b) /\ Threads!PageRoom(b) = PageRoom(b)
  BY DEF Threads!ReadRoom, ReadRoom, Threads!PageRoom, PageRoom
<1>3. \A b, n : Threads!Stored(b, n) = Stored(b, n)
  BY DEF Threads!Stored, Stored
<1>4. \A b, n : Threads!Advanced(b, n) = Advanced(b, n)
  BY DEF Threads!Advanced, Advanced
<1>5. \A b : Threads!Settled(b) = Settled(b) /\ Threads!Held(b) = Held(b)
  BY DEF Threads!Settled, Settled, Threads!Held, Held
<1>6. \A b, k : Threads!Place(b, k) = Place(b, k)
  BY DEF Threads!Place, Place
<1>7. \A b : Threads!Coherent(b) <=> Coherent(b)
  BY DEF Threads!Coherent, Coherent
<1>8. \A b : Threads!Display(b) <=> Display(b)
  BY DEF Threads!Display, Display
<1>9. \A m, n : Threads!Takes(m, n) <=> Takes(m, n)
  BY DEF Threads!Takes, Takes
<1> QED
  BY <1>1, <1>2, <1>3, <1>4, <1>5, <1>6, <1>7, <1>8, <1>9

LEMMA WideSettled ==
  ASSUME NEW b \in Wide
  PROVE  /\ Settled(b) \in Buffers /\ Settled(b).up = b.up /\ ~Settled(b).full
         /\ Settled(b).down = IF b.down = BUF_SIZE THEN 0 ELSE b.down
         /\ Settled(b).empty <=> b.empty \/ Settled(b).down = b.up
<1> DEFINE down == IF b.down = BUF_SIZE THEN 0 ELSE b.down
<1>1. /\ Settled(b).up = b.up /\ ~Settled(b).full
      /\ Settled(b).down = down
      /\ Settled(b).empty <=> b.empty \/ Settled(b).down = b.up
  BY DEF Wide, Settled
<1>2. ASSUME NEW d \in Offsets, NEW e \in BOOLEAN
      PROVE  [b EXCEPT !.down = d, !.empty = e, !.full = FALSE] \in Buffers
  BY DEF Buffers, Wide
<1>3. down \in Offsets /\ b.empty \in BOOLEAN
  BY BufferAssumption DEF Wide, Offsets
<1>4. Settled(b) \in Buffers
  BY <1>2, <1>3 DEF Settled
<1> QED
  BY <1>1, <1>4

(* What follows from the invariant of a ring that is not dry. *)
LEMMA KeptFits ==
  ASSUME ThreadsInv, ServerInv
  PROVE  /\ Kept \in Buffers /\ Kept.up = ring.up
         /\ Len(screen) \in Nat /\ received \in Nat /\ sent \in Nat
         /\ Threads!Stocked \in Int /\ Threads!Stocked <= received
         /\ Threads!Taken \in Int
         /\ user # "written" => Threads!Taken = Len(screen)
         /\ ~Dry => /\ Held(Kept) \in 0..BUF_SIZE /\ Len(screen) <= Threads!Stocked
                    /\ Held(Kept) = 0 <=> Kept.empty
<1>1. Kept \in Buffers /\ Kept.up = ring.up
  BY WideSettled DEF ThreadsInv, ThreadsTypes, Kept
<1>2. Len(screen) \in Nat /\ received \in Nat /\ sent \in Nat
  BY DEF ThreadsInv, ThreadsTypes, ServerInv
<1>3. Threads!Stocked \in Int /\ Threads!Stocked <= received
  BY <1>2 DEF ThreadsInv, ThreadsTypes, Threads!Stocked
<1>4. Threads!Taken \in Int /\ (user # "written" => Threads!Taken = Len(screen))
  BY <1>2 DEF ThreadsInv, ThreadsTypes, Threads!Taken
<1>5. ASSUME ~Dry
      PROVE  /\ Held(Kept) \in 0..BUF_SIZE /\ Len(screen) <= Threads!Stocked
             /\ Held(Kept) = 0 <=> Kept.empty
  <2>1. Coherent(Kept) /\ Held(Kept) = Threads!Stocked - Threads!Taken
    BY <1>5 DEF ThreadsInv, ThreadsTypes, Holds
  <2>2. Held(Kept) \in 0..BUF_SIZE /\ (Held(Kept) = 0 <=> Kept.empty)
    BY <1>1, <2>1, HeldFits
  <2>3. CASE user = "written"
    <3>1. /\ Kept = ring /\ ~ring.empty /\ page \in 1..PageRoom(ring)
          /\ Holds(Kept, buf, Threads!Taken, Threads!Stocked)
      BY <1>5, <2>3 DEF ThreadsInv, ThreadsTypes, Kept, Dry
    <3>2. Threads!Taken + page <= Threads!Stocked
      <4> DEFINE c == Threads!Taken
                 t == Threads!Stocked
      <4>0. c \in Int /\ t \in Int /\ Holds(ring, buf, c, t) /\ Coherent(ring) /\ ring \in Buffers
        BY <1>1, <1>3, <1>4, <2>1, <3>1
      <4> HIDE DEF c, t
      <4>1. c + page <= t
        BY <3>1, <4>0, ShowHolds
      <4> QED
        BY <4>1 DEF c, t
    <3>3. Threads!Taken + page = Len(screen)
      BY <1>2, <2>3 DEF ThreadsInv, ThreadsTypes, Threads!Taken
    <3> QED
      BY <2>2, <3>2, <3>3
  <2>4. CASE user # "written"
    BY <1>2, <1>3, <1>4, <2>1, <2>2, <2>4, BufferAssumption
  <2> QED
    BY <2>2, <2>3, <2>4
<1> QED
  BY <1>1, <1>2, <1>3, <1>4, <1>5

LEMMA ThreadsInitially == WorldInit /\ Threads!Init => ThreadsInv /\ LinesInv
<1> SUFFICES ASSUME WorldInit, Threads!Init PROVE ThreadsInv /\ LinesInv
  OBVIOUS
<1>1. screen \in Seq(Int) /\ Len(screen) = 0 /\ received = 0 /\ lines = 0
  BY DEF WorldInit
<1>2. /\ ring = EmptyBuffer /\ buf = [i \in Offsets |-> 0] /\ lines_on_screen = 0
      /\ sock_end = FALSE /\ cancelled = FALSE /\ reader = "start" /\ user = "start"
      /\ room = 0 /\ ret = 0 /\ page = 0
  BY ThreadsRing DEF Threads!Init
<1>3. Kept = ring /\ ~Dry /\ ~Reading /\ Threads!Stocked = 0 /\ Threads!Taken = 0
  BY <1>1, <1>2 DEF Kept, Dry, Reading, Threads!Stocked, Threads!Taken
<1>4. ring \in Wide
  BY <1>2, BufferAssumption DEF EmptyBuffer, Wide, Offsets
<1>5. Coherent(Kept) /\ Holds(Kept, buf, Threads!Taken, Threads!Stocked)
  BY <1>1, <1>2, <1>3, EmptyHolds
<1>6. ring \in Buffers /\ buf \in [Offsets -> Int]
  BY <1>2, EmptyHolds
<1>7. ThreadsTypes
  <2>1. sock_end \in BOOLEAN /\ cancelled \in BOOLEAN
    BY <1>2
  <2>2. lines_on_screen \in Nat /\ room \in Int /\ ret \in Int /\ ret >= -1 /\ page \in Int
    BY <1>2
  <2> QED
    BY <1>1, <1>4, <1>6, <2>1, <2>2 DEF ThreadsTypes
<1>8. ThreadsInv
  BY <1>2, <1>3, <1>5, <1>7 DEF ThreadsInv
<1> QED
  BY <1>1, <1>2, <1>3, <1>8 DEF LinesInv

-----------------------------------------------------------------------------
(* The reader *)

(* A step of the reader that leaves the ring and the array as they are.     *)
LEMMA ReaderMoves ==
  ASSUME ThreadsInv, LinesInv, ServerInv,
         UNCHANGED <<ring, buf, sock_end, screen, received, sent, newlines, user, page, lines,
                     lines_on_screen>>,
         cancelled => cancelled', cancelled' \in BOOLEAN, room' \in Int,
         ret' \in Int, ret' >= -1,
         sock_end => reader' = "done", ~Reading,
         reader' = "read" => room' <= BUF_SIZE - Held(Kept) /\ Kept.up + room' <= BUF_SIZE,
         ~(reader' = "store" /\ ret' > 0)
  PROVE  ThreadsShown
<1>1. Kept' = Kept /\ ~Reading' /\ (Dry' <=> Dry)
  BY DEF Kept, Reading, Dry
<1>2. Threads!Stocked = received /\ Threads!Stocked' = received
  <2>1. received \in Nat /\ received' = received
    BY DEF ServerInv
  <2>2. Threads!Stocked = received - 0 /\ Threads!Stocked' = received' - 0
    BY <1>1 DEF Threads!Stocked, Reading
  <2> QED
    BY <2>1, <2>2
<1>3. Threads!Taken' = Threads!Taken
         /\ (Holds(Kept, buf, Threads!Taken, Threads!Stocked)'
                <=> Holds(Kept, buf, Threads!Taken, Threads!Stocked))
  BY <1>1, <1>2 DEF Holds, Threads!Taken
<1>4. ThreadsInv'
  BY <1>1, <1>2, <1>3 DEF ThreadsInv, ThreadsTypes
<1>5. LinesInv'
  BY <1>1 DEF LinesInv
<1>6. Excused => Excused'
  BY DEF Excused, Threads!Stale
<1> QED
  BY <1>4, <1>5, <1>6 DEF ThreadsShown, PageStep, ServerInv

(* What the head of its loop leads to. *)
LEMMA LoopOfReader ==
  ASSUME NEW r, NEW ended, NEW sleepers, Threads!ReaderLoop(r, ended, sleepers)
  PROVE  /\ ended => reader' = "done"
         /\ reader' # "store"
         /\ reader' = "read" => ~ended /\ ~r.full /\ room' = ReadRoom(r)
         /\ reader' # "read" => room' = room
BY ThreadsRing DEF Threads!ReaderLoop, Threads!Crowded

LEMMA ReaderEnters ==
  ASSUME ThreadsInv, LinesInv, ServerInv, Threads!ReaderEnters
  PROVE  ThreadsShown
<1>1. /\ UNCHANGED <<ring, buf, sock_end, screen, received, sent, newlines, user, page, lines,
                     lines_on_screen, ret, cancelled>>
      /\ user # "wrap" /\ reader \in {"start", "asleep"}
      /\ Threads!ReaderLoop(ring, sock_end, waiting)
  BY DEF Threads!ReaderEnters, Threads!MutexFree, Threads!Awake, Threads!stop, Threads!world, Threads!io, Threads!network,
         Threads!users
<1>2. Kept = ring /\ ~sock_end /\ ~Dry /\ ~Reading /\ reader' # "store"
  BY <1>1, LoopOfReader DEF Kept, ThreadsInv, ThreadsTypes, Dry, Reading
<1>3. reader' = "read" => room' <= BUF_SIZE - Held(Kept) /\ Kept.up + room' <= BUF_SIZE
  BY <1>1, <1>2, LoopOfReader, RoomFits DEF ThreadsInv, ThreadsTypes
<1>4. room' \in Int
  <2>1. CASE reader' = "read"
    BY <1>1, <1>2, <2>1, LoopOfReader, RoomFits DEF ThreadsInv, ThreadsTypes
  <2>2. CASE reader' # "read"
    BY <1>1, <2>2, LoopOfReader DEF ThreadsInv, ThreadsTypes
  <2> QED
    BY <2>1, <2>2
<1> QED
  BY <1>1, <1>2, <1>3, <1>4, ReaderMoves DEF ThreadsInv, ThreadsTypes

(* `down - up' evaluated without the mutex: too small at times, never more  *)
(* than the room there is.                                                  *)
LEMMA SizeFits ==
  ASSUME ThreadsInv, ~Dry
  PROVE  /\ ring.down - ring.up \in Int
         /\ ring.down - ring.up <= BUF_SIZE - Held(Kept)
         /\ Kept.up + (ring.down - ring.up) <= BUF_SIZE
<1> DEFINE k == Kept
<1>1. /\ ring.up \in Offsets /\ ring.down \in 0..BUF_SIZE
      /\ k \in Buffers /\ k.up = ring.up /\ Coherent(k)
  BY WideSettled DEF ThreadsInv, ThreadsTypes, Kept, Wide
<1>2. k.up \in Offsets /\ k.down \in Offsets
  BY <1>1 DEF Buffers
<1>3. /\ k.down = ring.down \/ (ring.down = BUF_SIZE /\ k.down = 0)
      /\ user = "wrap" => ~k.full
  BY WideSettled DEF ThreadsInv, ThreadsTypes, Kept
<1>4. ring.down = BUF_SIZE => ~k.full
  BY <1>3, BufferAssumption DEF ThreadsInv, ThreadsTypes, Buffers, Offsets
<1> HIDE DEF k
<1>5. CASE k.empty
  <2>1. Held(k) = 0
    BY <1>5 DEF Held
  <2> QED
    BY <1>1, <2>1, BufferAssumption DEF Offsets, k
<1>6. CASE ~k.empty /\ k.down < k.up
  <2>1. Held(k) = k.up - k.down
    BY <1>6 DEF Held
  <2> QED
    BY <1>1, <1>2, <1>3, <1>6, <2>1, BufferAssumption DEF Offsets, k
<1>7. CASE ~k.empty /\ ~(k.down < k.up)
  <2>1. Held(k) = BUF_SIZE - k.down + k.up
    BY <1>7 DEF Held
  <2>2. k.down = ring.down
    BY <1>1, <1>2, <1>3, <1>4, <1>7 DEF Coherent, Offsets
  <2> QED
    BY <1>1, <1>2, <2>1, <2>2, BufferAssumption DEF Offsets, k
<1> QED
  BY <1>5, <1>6, <1>7

LEMMA ReaderSize ==
  ASSUME ThreadsInv, LinesInv, ServerInv, Threads!ReaderSize
  PROVE  ThreadsShown
<1>1. /\ UNCHANGED <<ring, buf, sock_end, screen, received, sent, newlines, user, page, lines,
                     lines_on_screen, ret, cancelled>>
      /\ reader = "size" /\ reader' = "read" /\ room' = ring.down - ring.up
  BY DEF Threads!ReaderSize, Threads!stop, Threads!world, Threads!io, Threads!network, Threads!users
<1>2. ~sock_end /\ ~Dry /\ ~Reading
  BY <1>1 DEF ThreadsInv, ThreadsTypes, Dry, Reading
<1> QED
  BY <1>1, <1>2, SizeFits, ReaderMoves DEF ThreadsInv, ThreadsTypes

LEMMA ReaderGivesUp ==
  ASSUME ThreadsInv, LinesInv, ServerInv, Threads!ReaderFails \/ Threads!ReaderCancelled
  PROVE  ThreadsShown
<1>1. /\ UNCHANGED <<ring, buf, sock_end, screen, received, sent, newlines, user, page, lines,
                     lines_on_screen, ret, room>>
      /\ cancelled' = TRUE \/ (cancelled' = cancelled /\ cancelled)
      /\ reader' \in {"failed", "cancelled", "holding"} /\ ~sock_end /\ ~Reading
  BY DEF Threads!ReaderFails, Threads!ReaderCancelled, Threads!Dies, Threads!DiesIn,
         Threads!stop, Threads!world, Threads!io,
         Threads!network, Threads!users, ThreadsInv, ThreadsTypes, Reading
<1> QED
  BY <1>1, ReaderMoves DEF ThreadsInv, ThreadsTypes

LEMMA ReaderReadsNothing ==
  ASSUME ThreadsInv, LinesInv, ServerInv, Threads!ReaderReads, ret' \in {0, -1},
         received' = received, buf' = buf
  PROVE  ThreadsShown
<1>1. /\ UNCHANGED <<ring, sock_end, screen, sent, newlines, user, page, lines,
                     lines_on_screen, cancelled>>
      /\ reader = "read" /\ reader' = "store" /\ room' = 0
  BY DEF Threads!ReaderReads, Threads!stop, Threads!world, Threads!network, Threads!users
<1>2. ~sock_end /\ ~Reading
  BY <1>1 DEF ThreadsInv, ThreadsTypes, Reading
<1> QED
  BY <1>1, <1>2, ReaderMoves DEF ThreadsInv, ThreadsTypes

LEMMA ReaderReadsBytes ==
  ASSUME ThreadsInv, LinesInv, ServerInv, Threads!ReaderReads,
         NEW n \in 1..room, n <= sent - received, received' = received + n, ret' = n,
         buf' = [i \in Offsets |-> IF i \in ring.up..(ring.up + n - 1)
                                   THEN received + 1 + i - ring.up ELSE buf[i]]
  PROVE  ThreadsShown
<1>1. /\ UNCHANGED <<ring, sock_end, screen, sent, newlines, user, page, lines,
                     lines_on_screen, cancelled>>
      /\ reader = "read" /\ reader' = "store" /\ room' = 0
  BY DEF Threads!ReaderReads, Threads!stop, Threads!world, Threads!network, Threads!users
<1>2. ~sock_end /\ ~Dry /\ Kept' = Kept /\ ~Dry'
  BY <1>1 DEF ThreadsInv, ThreadsTypes, Dry, Kept
<1>3. /\ Kept \in Buffers /\ Kept.up = ring.up /\ Coherent(Kept)
      /\ Len(screen) \in Int /\ received \in Int /\ Held(Kept) \in Int /\ ring.up \in Int
      /\ Threads!Taken \in Int
  <2>1. Coherent(Kept) /\ ring.up \in Int
    BY <1>2 DEF ThreadsInv, ThreadsTypes, Wide, Offsets
  <2>2. /\ Kept \in Buffers /\ Kept.up = ring.up /\ Held(Kept) \in 0..BUF_SIZE
        /\ Len(screen) \in Nat /\ received \in Nat /\ Threads!Taken \in Int
    BY <1>2, KeptFits
  <2> QED
    BY <2>1, <2>2
<1>4. n \in Nat /\ n > 0 /\ n <= BUF_SIZE - Held(Kept) /\ Kept.up + n <= BUF_SIZE
  BY <1>1, <1>3, BufferAssumption DEF ThreadsInv, ThreadsTypes
<1>5. /\ Threads!Stocked = received /\ Threads!Stocked' = received /\ Reading'
      /\ Threads!Taken' = Threads!Taken
  BY <1>1, <1>3, <1>4 DEF Threads!Stocked, Threads!Taken, Reading
<1>6. buf' = Filled(Kept, buf, received, n)
  BY <1>3 DEF Filled
<1>7. /\ buf' \in [Offsets -> Int] /\ Holds(Kept, buf', Threads!Taken, received)
      /\ \A j \in 0..(n - 1) : buf'[Kept.up + j] = received + 1 + j
  <2>1. buf \in [Offsets -> Int] /\ Holds(Kept, buf, Threads!Taken, received)
    BY <1>2, <1>5 DEF ThreadsInv, ThreadsTypes
  <2> QED
    <3> DEFINE k == Kept
               m == n
               c == Threads!Taken
    <3>0. /\ k \in Buffers /\ Coherent(k) /\ c \in Int /\ m \in Nat
          /\ m <= BUF_SIZE - Held(k) /\ k.up + m <= BUF_SIZE
          /\ received \in Int /\ Holds(k, buf, c, received) /\ buf \in [Offsets -> Int]
      BY <1>3, <1>4, <2>1
    <3> HIDE DEF k, m, c
    <3>1. Holds(k, Filled(k, buf, received, m), c, received)
          /\ Filled(k, buf, received, m) \in [Offsets -> Int]
          /\ \A j \in 0..(m - 1) : Filled(k, buf, received, m)[k.up + j] = received + 1 + j
      BY <3>0, ReadInto
    <3> QED
      BY <1>6, <3>1 DEF k, m, c
<1>8. Holds(Kept, buf, Threads!Taken, Threads!Stocked)'
  BY <1>1, <1>2, <1>5, <1>7 DEF Holds
<1>9. (\A j \in 0..(ret - 1) : buf[Kept.up + j] = Threads!Stocked + 1 + j)'
  BY <1>2, <1>5, <1>7
<1>10. ServerInv'
  <2>1. received' \in Nat /\ received' <= sent
    BY <1>4 DEF ServerInv
  <2> QED
    BY <1>1, <2>1 DEF ServerInv
<1>11. ThreadsInv'
  BY <1>1, <1>2, <1>3, <1>4, <1>5, <1>7, <1>8, <1>9 DEF ThreadsInv, ThreadsTypes
<1>12. LinesInv'
  BY <1>1, <1>2 DEF LinesInv
<1>13. Excused => Excused'
  BY <1>1, <1>2, <1>5, KeptFits DEF Excused, Threads!Stale
<1> QED
  BY <1>1, <1>10, <1>11, <1>12, <1>13 DEF ThreadsShown, PageStep

LEMMA ReaderReads ==
  ASSUME ThreadsInv, LinesInv, ServerInv, Threads!ReaderReads
  PROVE  ThreadsShown
<1>1. CASE /\ server # "reset"
           /\ \E n \in 1..room :
                 /\ n <= sent - received
                 /\ received' = received + n
                 /\ buf' = [i \in Offsets |-> IF i \in ring.up..(ring.up + n - 1)
                                              THEN received + 1 + i - ring.up ELSE buf[i]]
                 /\ ret' = n
  BY <1>1, ReaderReadsBytes
<1>2. CASE ret' \in {0, -1} /\ UNCHANGED <<received, buf>>
  BY <1>2, ReaderReadsNothing
<1> QED
  BY <1>1, <1>2, ThreadsRing DEF Threads!ReaderReads

LEMMA ReaderEndsUp ==
  ASSUME ThreadsInv, LinesInv, ServerInv, Threads!ReaderStores, ret = 0
  PROVE  ThreadsShown
<1>1. /\ UNCHANGED <<ring, buf, screen, received, sent, newlines, user, page, lines,
                     lines_on_screen, cancelled>>
      /\ user # "wrap" /\ reader = "store" /\ ret' = 0 /\ sock_end' = TRUE
      /\ reader' = "done" /\ room' = room
  <2>1. sock_end' = TRUE /\ Threads!ReaderLoop(ring', sock_end', Threads!Told("user"))
    BY DEF Threads!ReaderStores
  <2>2. reader' = "done" /\ room' = room
    BY <2>1, LoopOfReader
  <2> QED
    BY <2>1, <2>2 DEF Threads!ReaderStores, Threads!MutexFree, Threads!stop, Threads!world, Threads!io,
         Threads!network, Threads!users
<1>2. Kept' = Kept /\ Kept = ring /\ ~Reading /\ ~Reading' /\ ~Dry
  BY <1>1 DEF Kept, Reading, ThreadsInv, ThreadsTypes, Dry
<1>3. /\ Threads!Stocked = received /\ Threads!Stocked' = received
      /\ Threads!Taken' = Threads!Taken
  BY <1>1, <1>2 DEF Threads!Stocked, Threads!Taken, Reading, ServerInv
<1>4. Coherent(Kept) /\ Holds(Kept, buf, Threads!Taken, Threads!Stocked)
  BY <1>2 DEF ThreadsInv, ThreadsTypes
<1>5. Holds(Kept, buf, Threads!Taken, Threads!Stocked)'
  BY <1>1, <1>2, <1>3, <1>4 DEF Holds
<1>6. Dry' => Len(screen) >= received
  <2>1. SUFFICES ASSUME Dry' PROVE Len(screen) >= received
    OBVIOUS
  <2>2. Kept.empty /\ Held(Kept) = 0
    BY <1>2, <2>1, KeptFits DEF Dry
  <2>3. user # "written"
    BY <1>1, <1>2, <2>2 DEF ThreadsInv, ThreadsTypes
  <2>4. Threads!Taken = Len(screen) /\ Len(screen) \in Nat /\ received \in Nat
    BY <2>3, KeptFits
  <2> QED
    BY <1>3, <1>4, <2>2, <2>4 DEF Holds
<1>7. ThreadsInv'
  BY <1>1, <1>2, <1>3, <1>4, <1>5, <1>6 DEF ThreadsInv, ThreadsTypes
<1>8. LinesInv'
  BY <1>1, <1>2 DEF LinesInv
<1>9. Excused => Excused'
  BY <1>1 DEF Excused, Threads!Stale
<1> QED
  BY <1>1, <1>7, <1>8, <1>9 DEF ThreadsShown, PageStep, ServerInv

LEMMA ReaderStoresBytes ==
  ASSUME ThreadsInv, LinesInv, ServerInv, Threads!ReaderStores, ret # 0
  PROVE  ThreadsShown
<1>1. /\ UNCHANGED <<buf, screen, received, sent, newlines, user, page, lines,
                     lines_on_screen, cancelled>>
      /\ user # "wrap" /\ reader = "store" /\ ret # -1 /\ ret' = 0 /\ sock_end' = FALSE
      /\ ring' = Stored(ring, ret)
      /\ Threads!ReaderLoop(ring', FALSE, Threads!Told("user"))
  BY ThreadsRing DEF Threads!ReaderStores, Threads!MutexFree, Threads!stop, Threads!world, Threads!io,
         Threads!network, Threads!users
<1>2. /\ Kept = ring /\ Kept' = ring' /\ ret \in Nat \ {0} /\ Reading /\ ~sock_end /\ ~Dry
      /\ ~Dry' /\ reader' # "store" /\ ~Reading'
  <2>1. ret \in Nat \ {0} /\ ~sock_end
    BY <1>1 DEF ThreadsInv, ThreadsTypes
  <2>2. Kept = ring /\ Kept' = ring'
    BY <1>1 DEF Kept
  <2>3. reader' # "store"
    BY <1>1, LoopOfReader
  <2> QED
    BY <1>1, <2>1, <2>2, <2>3 DEF Reading, Dry
<1>3. /\ Threads!Stocked' = Threads!Stocked + ret /\ Threads!Stocked' = received
      /\ Threads!Taken' = Threads!Taken
  BY <1>1, <1>2 DEF Threads!Stocked, Threads!Taken, Reading, ServerInv
<1>4. /\ ring \in Buffers /\ Coherent(ring) /\ ret <= BUF_SIZE - Held(ring)
      /\ ring.up + ret <= BUF_SIZE /\ Holds(ring, buf, Threads!Taken, Threads!Stocked)
      /\ \A j \in 0..(ret - 1) : buf[ring.up + j] = Threads!Stocked + 1 + j
      /\ Threads!Taken \in Int /\ Threads!Stocked \in Int
  <2>1. Threads!Taken \in Int /\ Threads!Stocked \in Int
    BY KeptFits
  <2> QED
    BY <1>1, <1>2, <2>1 DEF ThreadsInv, ThreadsTypes
<1>5. /\ ring' \in Buffers /\ Coherent(ring') /\ ~ring'.empty
      /\ ~ring.empty => PageRoom(ring) <= PageRoom(ring')
  BY <1>1, <1>2, <1>4, StoredFits
<1>6. Holds(ring', buf, Threads!Taken, Threads!Stocked + ret)
  BY <1>1, <1>2, <1>4, StoreHolds
<1>7. Holds(Kept, buf, Threads!Taken, Threads!Stocked)'
  BY <1>1, <1>2, <1>3, <1>6 DEF Holds
<1>8. ring' \in Wide
  BY <1>5, BufferAssumption DEF Buffers, Wide, Offsets
<1>9. reader' = "read" => room' <= BUF_SIZE - Held(ring') /\ ring'.up + room' <= BUF_SIZE
  BY <1>1, <1>5, LoopOfReader, RoomFits
<1>10. room' \in Int
  <2>1. CASE reader' = "read"
    <3>1. room' = ReadRoom(ring') /\ ~ring'.full
      BY <1>1, <2>1, LoopOfReader
    <3>2. ReadRoom(ring') \in Nat
      BY <1>5, <3>1, RoomFits
    <3> QED
      BY <3>1, <3>2
  <2>2. CASE reader' # "read"
    BY <1>1, <2>2, LoopOfReader DEF ThreadsInv, ThreadsTypes
  <2> QED
    BY <2>1, <2>2
<1>11. user \in {"write", "written"} => page \in 1..PageRoom(ring')
  <2>1. ASSUME user \in {"write", "written"} PROVE page \in 1..PageRoom(ring')
    <3>1. page \in 1..PageRoom(ring) /\ PageRoom(ring) <= PageRoom(ring')
      BY <1>2, <1>5, <2>1 DEF ThreadsInv, ThreadsTypes
    <3>2. PageRoom(ring) \in Int /\ PageRoom(ring') \in Int
      BY <1>4, <1>5, PageFits, BufferAssumption
    <3> QED
      BY <3>1, <3>2
  <2> QED
    BY <2>1
<1>12. ThreadsTypes'
  <2>1. sock_end' \in BOOLEAN /\ cancelled' \in BOOLEAN
    BY <1>1 DEF ThreadsInv, ThreadsTypes
  <2>2. /\ lines_on_screen' \in Nat /\ ret' \in Int /\ ret' >= -1 /\ page' \in Int
        /\ lines' \in Nat /\ buf' \in [Offsets -> Int] /\ screen' \in Seq(Int)
    BY <1>1 DEF ThreadsInv, ThreadsTypes
  <2> QED
    BY <1>5, <1>8, <1>10, <2>1, <2>2 DEF ThreadsTypes
<1>13. (user = "done" => sock_end /\ ring.empty)'
  BY <1>1, <1>2 DEF ThreadsInv
<1>14. ThreadsInv'
  BY <1>1, <1>2, <1>5, <1>7, <1>9, <1>11, <1>12, <1>13 DEF ThreadsInv
<1>15. LinesInv'
  BY <1>1, <1>2 DEF LinesInv
<1>16. Excused => Excused'
  BY <1>1 DEF Excused, Threads!Stale
<1> QED
  BY <1>1, <1>14, <1>15, <1>16 DEF ThreadsShown, PageStep, ServerInv

LEMMA ReaderStep ==
  ASSUME ThreadsInv, LinesInv, ServerInv, Threads!Reader
  PROVE  ThreadsShown
BY ReaderEnters, ReaderSize, ReaderReads, ReaderEndsUp, ReaderStoresBytes, ReaderGivesUp
   DEF Threads!Reader

-----------------------------------------------------------------------------
(* The user's thread *)

(* Where its loop leads with the ring r and `shown' lines on the screen.    *)
Onward(r, shown) ==
    \/ user' \in {"start", "asleep", "invite"} /\ lines_on_screen' = shown /\ page' = page
    \/ user' = "done" /\ r.empty /\ sock_end /\ lines_on_screen' = shown /\ page' = page
    \/ /\ user' \in {"key", "turn"} /\ lines_on_screen' = shown /\ page' = page
       /\ ~r.empty \/ sock_end
       /\ user' = "turn" => lines' = 0
    \/ /\ user' = "write" /\ shown < MaxLines /\ page' \in 1..PageRoom(r)
       /\ ~r.empty \/ sock_end
       /\ \A i \in 1..(page' - 1) : buf[r.down + i - 1] \notin newlines
       /\ lines_on_screen' = IF buf[r.down + page' - 1] \in newlines
                             THEN shown + 1 ELSE shown

LEMMA LineOfUser ==
  ASSUME NEW r \in Buffers
  PROVE  /\ Threads!LineLength(r) \in 1..PageRoom(r)
         /\ \A i \in 1..(Threads!LineLength(r) - 1) : buf[r.down + i - 1] \notin newlines
         /\ buf[r.down + Threads!LineLength(r) - 1] \in newlines <=> Threads!LineEnds(r) # {}
<1>1. PageRoom(r) \in 1..BUF_SIZE
  BY PageFits
<1>2. Threads!LineEnds(r) = {n \in 1..PageRoom(r) : buf[r.down + n - 1] \in newlines}
  BY ThreadsRing DEF Threads!LineEnds
<1>3. CASE Threads!LineEnds(r) = {}
  <2>1. Threads!LineLength(r) = PageRoom(r)
    BY <1>3, ThreadsRing DEF Threads!LineLength
  <2>2. \A n \in 1..PageRoom(r) : buf[r.down + n - 1] \notin newlines
    BY <1>2, <1>3
  <2> DEFINE m == PageRoom(r)
  <2>3. /\ m \in 1..m
        /\ \A i \in 1..(m - 1) : i \in 1..m
    BY <1>1, BufferAssumption
  <2> QED
    BY <1>3, <2>1, <2>2, <2>3
<1>4. CASE Threads!LineEnds(r) # {}
  <2>1. Threads!LineLength(r) = CHOOSE n \in Threads!LineEnds(r) :
                                   \A m \in Threads!LineEnds(r) : n <= m
    BY <1>4 DEF Threads!LineLength
  <2>2. Threads!LineEnds(r) \in SUBSET Nat
    BY <1>1, <1>2, BufferAssumption
  <2>3. /\ Threads!LineLength(r) \in Threads!LineEnds(r)
        /\ \A m \in Threads!LineEnds(r) : Threads!LineLength(r) <= m
    BY <1>4, <2>1, <2>2, FirstOf
  <2> DEFINE m == PageRoom(r)
             n == Threads!LineLength(r)
  <2>4. n \in 1..m /\ buf[r.down + n - 1] \in newlines
    BY <1>2, <2>3
  <2>5. ASSUME NEW i \in 1..(n - 1) PROVE buf[r.down + i - 1] \notin newlines
    <3>1. i \in 1..m /\ ~(n <= i)
      BY <1>1, <2>4, <2>5, BufferAssumption
    <3>2. i \notin Threads!LineEnds(r)
      BY <2>3, <3>1
    <3> QED
      BY <1>2, <3>1, <3>2
  <2> QED
    BY <1>4, <2>4, <2>5
<1> QED
  BY <1>3, <1>4

LEMMA PagesOfUser ==
  ASSUME NEW r, r \in Buffers, NEW shown \in Nat, NEW sleepers,
         ~r.empty \/ sock_end, Threads!UserPages(r, shown, sleepers)
  PROVE  Onward(r, shown)
<1>1. CASE shown >= MaxLines
  BY <1>1 DEF Threads!UserPages, Threads!UserTo, Onward
<1>2. CASE ~(shown >= MaxLines)
  <2>1. /\ user' = "write" /\ page' = Threads!LineLength(r)
        /\ lines_on_screen' = IF Threads!LineEnds(r) = {} THEN shown ELSE shown + 1
    BY <1>2 DEF Threads!UserPages, Threads!UserTo
  <2>2. shown < MaxLines
    BY <1>2, PagerAssumption
  <2> QED
    BY <2>1, <2>2, LineOfUser DEF Onward
<1> QED
  BY <1>1, <1>2

LEMMA LoopOfUser ==
  ASSUME NEW r, r \in Buffers, NEW shown \in Nat, NEW sleepers,
         Threads!UserLoop(r, shown, sleepers)
  PROVE  Onward(r, shown)
<1>1. CASE Threads!AllSeen(r)
  BY <1>1 DEF Threads!UserLoop, Threads!AllSeen, Threads!UserTo, Onward
<1>2. CASE ~Threads!AllSeen(r) /\ r.empty
  BY <1>2 DEF Threads!UserLoop, Threads!UserTo, Onward
<1>3. CASE ~Threads!AllSeen(r) /\ ~r.empty
  BY <1>3, PagesOfUser DEF Threads!UserLoop
<1> QED
  BY <1>1, <1>2, <1>3

(* A step of the user's thread that shows nothing: the ring is as it is to  *)
(* be afterwards, and `shown' lines are on the screen.                      *)
LEMMA UserGoes ==
  ASSUME ThreadsInv, LinesInv, ServerInv, user \notin {"write", "written"},
         NEW shown \in Nat, ring' = Kept, Onward(ring', shown),
         lines' = lines \/ lines' = 0,
         shown = lines_on_screen \/ (shown = 0 /\ user = "turn"),
         UNCHANGED <<buf, sock_end, screen, received, sent, newlines, reader, room, ret,
                     cancelled>>
  PROVE  ThreadsShown
<1>1. /\ Kept' = ring' /\ Kept' = Kept /\ (Dry' <=> Dry) /\ (Reading' <=> Reading)
      /\ user' # "wrap"
  BY DEF Onward, Kept, Dry, Reading
<1>2. /\ Threads!Stocked' = Threads!Stocked
      /\ Threads!Taken = Len(screen) /\ Threads!Taken' = Len(screen)
  <2>1. user' # "written" /\ Len(screen) \in Nat
    BY KeptFits DEF Onward
  <2> QED
    BY <2>1 DEF Threads!Stocked, Threads!Taken
<1>3. Holds(Kept, buf, Threads!Taken, Threads!Stocked)'
         <=> Holds(Kept, buf, Threads!Taken, Threads!Stocked)
  BY <1>1, <1>2 DEF Holds
<1>4. ring' \in Buffers /\ ring' \in Wide
  BY <1>1, KeptFits, BufferAssumption DEF Buffers, Wide, Offsets
<1>5. lines' \in Nat /\ lines_on_screen' \in Nat
  BY DEF Onward, ThreadsInv, ThreadsTypes
<1>6. page' \in Int
  BY <1>4, PageFits, BufferAssumption DEF Onward, ThreadsInv, ThreadsTypes
<1>7. ThreadsTypes'
  BY <1>1, <1>4, <1>5, <1>6 DEF ThreadsInv, ThreadsTypes
<1>8. /\ (user \in {"write", "written"} => page \in 1..PageRoom(ring))'
      /\ (user \in {"key", "turn", "write", "written"} => ~ring.empty \/ sock_end)'
      /\ (user = "done" => sock_end /\ ring.empty)'
  BY DEF Onward
<1>9. ThreadsInv'
  BY <1>1, <1>2, <1>3, <1>7, <1>8 DEF ThreadsInv
<1>10. LinesInv'
  <2>1. SUFFICES ASSUME ~Dry PROVE LinesInv'
    BY <1>1 DEF LinesInv
  <2>2. lines' <= shown /\ lines' \in Nat
    <3>1. lines <= lines_on_screen /\ (user = "turn" => lines = 0)
      BY <2>1 DEF LinesInv
    <3> QED
      BY <1>5, <3>1 DEF ThreadsInv, ThreadsTypes
  <2>3. CASE user' # "write"
    BY <2>2, <2>3 DEF Onward, LinesInv
  <2>4. CASE user' = "write"
    <3>1. /\ shown < MaxLines /\ page' \in 1..PageRoom(ring')
          /\ ~ring'.empty \/ sock_end
          /\ \A i \in 1..(page' - 1) : buf[ring'.down + i - 1] \notin newlines
          /\ lines_on_screen' = IF buf[ring'.down + page' - 1] \in newlines
                                THEN shown + 1 ELSE shown
      BY <2>4 DEF Onward
    <3>2. ~Kept.empty /\ Coherent(Kept) /\ Holds(Kept, buf, Len(screen), Threads!Stocked)
      BY <1>1, <1>2, <2>1, <3>1 DEF Dry, ThreadsInv
    <3>3. Len(screen) \in Int /\ Threads!Stocked \in Int /\ Kept \in Buffers
      BY KeptFits
    <3>4. \A i \in 1..page' : buf[ring'.down + i - 1] = Len(screen) + i
      BY <1>1, <3>1, <3>2, <3>3, ShowHolds
    <3>5. page' \in Nat /\ page' >= 1
      BY <3>1
    <3>6. \A i \in 1..(page' - 1) : Len(screen) + i \notin newlines
      <4> DEFINE p == page'
      <4>1. \A i \in 1..(p - 1) : i \in 1..p
        <5>1. p \in Nat
          BY <3>5
        <5> HIDE DEF p
        <5> QED
          BY <5>1
      <4> QED
        BY <3>1, <3>4, <4>1
    <3>7. lines_on_screen' = IF Len(screen) + page' \in newlines THEN shown + 1 ELSE shown
      BY <3>1, <3>4, <3>5
    <3>8. lines' < MaxLines
      BY <2>2, <3>1, PagerAssumption
    <3> QED
      BY <2>2, <2>4, <3>6, <3>7, <3>8 DEF LinesInv
  <2> QED
    BY <2>3, <2>4
<1>11. Excused => Excused'
  BY DEF Excused, Threads!Stale
<1> QED
  BY <1>9, <1>10, <1>11 DEF ThreadsShown, PageStep, ServerInv

LEMMA UserLooks ==
  ASSUME ThreadsInv, LinesInv, ServerInv,
         \/ Threads!UserEnters \/ Threads!UserAwakes \/ Threads!UserPressesSpace
         \/ Threads!UserPressesOther \/ Threads!UserTurns \/ Threads!UserSettles
         \/ Threads!UserInvites
  PROVE  ThreadsShown
<1>1. /\ UNCHANGED <<buf, sock_end, screen, received, sent, newlines, reader, room, ret,
                     cancelled>>
      /\ user \notin {"write", "written"} /\ lines_on_screen \in Nat /\ Kept \in Buffers
  <2>1. lines_on_screen \in Nat /\ Kept \in Buffers
    BY KeptFits DEF ThreadsInv, ThreadsTypes
  <2> QED
    BY <2>1 DEF Threads!UserEnters, Threads!UserAwakes, Threads!UserPressesSpace,
         Threads!UserPressesOther, Threads!UserTurns, Threads!UserSettles,
         Threads!UserInvites, Threads!Awake, Threads!world, Threads!network,
         Threads!io, Threads!readers, Threads!stop
<1>2. CASE Threads!UserEnters
  <2>1. /\ ring' = Kept /\ lines' = lines
        /\ Threads!UserLoop(Kept, lines_on_screen, waiting)
    BY <1>2 DEF Threads!UserEnters, Threads!io, Kept
  <2> QED
    BY <1>1, <2>1, LoopOfUser, UserGoes
<1>3. CASE Threads!UserAwakes
  <2>1. /\ ring' = Kept /\ lines' = lines /\ Kept = ring
    BY <1>3 DEF Threads!UserAwakes, Threads!Awake, Threads!io, Kept
  <2>2. CASE ring.empty /\ ~sock_end
    <3>1. Onward(ring', lines_on_screen)
      BY <1>3, <2>2 DEF Threads!UserAwakes, Threads!UserTo, Onward
    <3> QED
      BY <1>1, <2>1, <3>1, UserGoes
  <2>3. CASE ~(ring.empty /\ ~sock_end)
    <3>1. Threads!UserPages(Kept, lines_on_screen, waiting) /\ (~Kept.empty \/ sock_end)
      BY <1>3, <2>1, <2>3 DEF Threads!UserAwakes
    <3> QED
      BY <1>1, <2>1, <3>1, PagesOfUser, UserGoes
  <2> QED
    BY <2>2, <2>3
<1>4. CASE Threads!UserPressesSpace
  <2>1. ring' = Kept /\ lines' = 0 /\ Onward(ring', lines_on_screen)
    BY <1>4 DEF Threads!UserPressesSpace, Threads!UserTo, Kept, ThreadsInv, Onward
  <2> QED
    BY <1>1, <2>1, UserGoes
<1>5. CASE Threads!UserTurns
  <2>1. /\ ring' = Kept /\ lines' = lines /\ user = "turn" /\ 0 \in Nat
        /\ Threads!UserPages(Kept, 0, waiting) /\ (~Kept.empty \/ sock_end)
    BY <1>5 DEF Threads!UserTurns, Threads!io, Kept, ThreadsInv
  <2> QED
    BY <1>1, <2>1, PagesOfUser, UserGoes
<1>6. CASE Threads!UserPressesOther \/ Threads!UserInvites
  <2>1. ring' = Kept /\ lines' = lines /\ Onward(ring', lines_on_screen)
    BY <1>6 DEF Threads!UserPressesOther, Threads!UserInvites, Threads!UserTo,
                Threads!io, Kept, Onward
  <2> QED
    BY <1>1, <2>1, UserGoes
<1>7. CASE Threads!UserSettles
  <2>1. /\ ring' = Kept /\ lines' = lines
    BY <1>7, ThreadsRing DEF Threads!UserSettles, Threads!io, Kept
  <2>2. CASE lines_on_screen >= MaxLines
    <3>1. Onward(ring', lines_on_screen)
      BY <1>7, <2>2 DEF Threads!UserSettles, Threads!UserTo, Onward
    <3> QED
      BY <1>1, <2>1, <3>1, UserGoes
  <2>3. CASE ~(lines_on_screen >= MaxLines)
    <3>1. Threads!UserLoop(Kept, lines_on_screen, Threads!Told("reader"))
      BY <1>7, <2>1, <2>3 DEF Threads!UserSettles
    <3> QED
      BY <1>1, <2>1, <3>1, LoopOfUser, UserGoes
  <2> QED
    BY <2>2, <2>3
<1> QED
  BY <1>2, <1>3, <1>4, <1>5, <1>6, <1>7

(* The user's thread ends, or somebody is woken or cancelled. *)
OthersOnly ==
    /\ UNCHANGED <<ring, buf, sock_end, screen, received, sent, newlines, lines,
                   lines_on_screen, reader, room, ret, page>>
    /\ cancelled => cancelled'
    /\ cancelled' \in BOOLEAN
    /\ \/ user' = user
       \/ /\ user \notin {"wrap", "written"}
          /\ user' \in {"failed", "cancelled", "holding"} /\ cancelled'

LEMMA OthersMove ==
  ASSUME ThreadsInv, LinesInv, ServerInv, OthersOnly
  PROVE  ThreadsShown
<1> USE DEF OthersOnly
<1>1. /\ Kept' = Kept /\ (Dry' <=> Dry) /\ (Reading' <=> Reading)
  BY DEF Kept, Dry, Reading
<1>2. Threads!Stocked' = Threads!Stocked /\ Threads!Taken' = Threads!Taken
  BY DEF Threads!Stocked, Threads!Taken
<1>3. Holds(Kept, buf, Threads!Taken, Threads!Stocked)'
         <=> Holds(Kept, buf, Threads!Taken, Threads!Stocked)
  BY <1>1, <1>2 DEF Holds
<1>4. ThreadsTypes'
  BY DEF ThreadsInv, ThreadsTypes
<1>5. ThreadsInv'
  BY <1>1, <1>2, <1>3, <1>4 DEF ThreadsInv
<1>6. LinesInv'
  <2>1. CASE user' = user
    BY <1>1, <2>1 DEF LinesInv
  <2>2. CASE user' # user
    BY <1>1, <2>2 DEF LinesInv, ThreadsInv, ThreadsTypes
  <2> QED
    BY <2>1, <2>2
<1>7. Excused => Excused'
  BY DEF Excused, Threads!Stale
<1> QED
  BY <1>5, <1>6, <1>7 DEF ThreadsShown, PageStep, ServerInv

LEMMA OthersStep ==
  ASSUME ThreadsInv, LinesInv, ServerInv,
         \/ Threads!UserFails \/ Threads!UserCancelled \/ Threads!Interrupt
         \/ Threads!SpuriousWakeup("reader") \/ Threads!SpuriousWakeup("user")
  PROVE  ThreadsShown
<1>1. OthersOnly
  BY DEF OthersOnly, Threads!UserFails, Threads!UserCancelled, Threads!Interrupt,
         Threads!Dies, Threads!DiesIn, Threads!stop,
         Threads!SpuriousWakeup, Threads!world, Threads!network, Threads!io,
         Threads!readers, Threads!users, ThreadsInv, ThreadsTypes
<1> QED
  BY <1>1, OthersMove

(* write() puts the bytes on the screen; the ring is as it was.             *)
LEMMA UserWrites ==
  ASSUME ThreadsInv, LinesInv, ServerInv, Threads!UserWrites
  PROVE  ThreadsShown
<1>1. /\ UNCHANGED <<ring, buf, sock_end, lines_on_screen, received, sent, newlines, reader,
                     room, ret, cancelled>>
      /\ user = "write" /\ user' = "written"
  BY DEF Threads!UserWrites, Threads!stop, Threads!world, Threads!network, Threads!readers
<1>2. PICK n \in 1..page : /\ Takes(n, page)
                           /\ Display([i \in 1..n |-> buf[ring.down + i - 1]])
                           /\ page' = n
  BY ThreadsRing DEF Threads!UserWrites
<1> DEFINE bytes == [i \in 1..n |-> buf[ring.down + i - 1]]
<1>3. /\ ring \in Buffers /\ Kept = ring /\ page \in 1..PageRoom(ring) /\ Kept' = Kept
      /\ (Dry' <=> Dry) /\ (Reading' <=> Reading)
  BY <1>1 DEF ThreadsInv, ThreadsTypes, Kept, Dry, Reading
<1>4. n \in Nat /\ n # 0 /\ n \in 1..PageRoom(ring) /\ n <= page
  BY <1>2, <1>3, PageFits, BufferAssumption
<1>5. \A i \in 1..n : ring.down + i - 1 \in Offsets
  BY <1>3, <1>4, ShownFits
<1>6. bytes \in Seq(Int) /\ Len(bytes) = n
  BY <1>4, <1>5 DEF ThreadsInv, ThreadsTypes
<1>7. /\ screen' = screen \o bytes /\ screen' \in Seq(Int)
      /\ Len(screen) \in Nat /\ Len(screen') = Len(screen) + n
  BY <1>2, <1>4, <1>6, ConcatProperties, LenProperties DEF Display, ThreadsInv, ThreadsTypes
<1>8. lines' \in Nat
  BY <1>2, <1>6 DEF Display, ThreadsInv, ThreadsTypes
<1>9. ThreadsTypes'
  <2>1. /\ sock_end' \in BOOLEAN /\ cancelled' \in BOOLEAN /\ ring' \in Wide
        /\ user' # "wrap" /\ ring' \in Buffers
    BY <1>1, <1>3 DEF ThreadsInv, ThreadsTypes
  <2>2. /\ lines_on_screen' \in Nat /\ room' \in Int /\ ret' \in Int /\ ret' >= -1
        /\ page' \in Int /\ buf' \in [Offsets -> Int]
    BY <1>1, <1>2, <1>4 DEF ThreadsInv, ThreadsTypes
  <2> QED
    BY <1>7, <1>8, <2>1, <2>2 DEF ThreadsTypes
<1>10. /\ Threads!Stocked' = Threads!Stocked
       /\ Threads!Taken' = Threads!Taken /\ Threads!Taken = Len(screen)
  <2>1. Threads!Taken = Len(screen) /\ Threads!Taken' = Len(screen') - n
    BY <1>1, <1>2, <1>7 DEF Threads!Taken
  <2> QED
    BY <1>1, <1>4, <1>7, <2>1 DEF Threads!Stocked
<1>11. Holds(Kept, buf, Threads!Taken, Threads!Stocked)'
          <=> Holds(Kept, buf, Threads!Taken, Threads!Stocked)
  BY <1>1, <1>3, <1>10 DEF Holds
<1>12. received \in Nat /\ received' = received /\ received <= Total
  BY <1>1, PagerAssumption DEF ServerInv
<1>13. ThreadsInv'
  <2>1. Dry' => Len(screen') >= received'
    BY <1>3, <1>4, <1>7, <1>12 DEF ThreadsInv
  <2>2. page' \in 1..PageRoom(ring') /\ (~ring'.empty \/ sock_end')
    BY <1>1, <1>2, <1>4 DEF ThreadsInv
  <2>3. (~Dry => Coherent(Kept) /\ Holds(Kept, buf, Threads!Taken, Threads!Stocked))'
    BY <1>3, <1>11 DEF ThreadsInv
  <2>4. /\ (reader = "read" => room <= BUF_SIZE - Held(Kept) /\ Kept.up + room <= BUF_SIZE)'
        /\ (Reading => /\ ret <= BUF_SIZE - Held(Kept) /\ Kept.up + ret <= BUF_SIZE
                       /\ \A j \in 0..(ret - 1) :
                             buf[Kept.up + j] = Threads!Stocked + 1 + j)'
    BY <1>1, <1>3, <1>10 DEF ThreadsInv
  <2>5. (sock_end => reader = "done")' /\ user' # "done"
    BY <1>1 DEF ThreadsInv
  <2> QED
    BY <1>9, <2>1, <2>2, <2>3, <2>4, <2>5 DEF ThreadsInv
<1>14. CASE Dry
  <2>1. Len(screen') > received'
    BY <1>4, <1>7, <1>12, <1>14 DEF ThreadsInv
  <2> QED
    BY <1>1, <1>3, <1>13, <1>14, <2>1
       DEF ThreadsShown, LinesInv, Excused, Threads!Stale, ServerInv
<1>15. CASE ~Dry
  <2>1. /\ ~ring.empty /\ Coherent(ring)
        /\ Holds(ring, buf, Len(screen), Threads!Stocked)
    BY <1>1, <1>3, <1>10, <1>15 DEF Dry, ThreadsInv
  <2>2. Len(screen) \in Int /\ Threads!Stocked \in Int /\ Threads!Stocked <= received
    BY KeptFits
  <2>3. /\ \A i \in 1..n : buf[ring.down + i - 1] = Len(screen) + i
        /\ Len(screen) + n <= Threads!Stocked
    <3> DEFINE r == ring
               c == Len(screen)
               t == Threads!Stocked
               m == n
    <3>0. /\ r \in Buffers /\ Coherent(r) /\ ~r.empty /\ c \in Int /\ t \in Int
          /\ Holds(r, buf, c, t) /\ m \in 1..PageRoom(r)
      BY <1>3, <1>4, <2>1, <2>2
    <3> HIDE DEF r, c, t, m
    <3>1. /\ \A i \in 1..m : buf[r.down + i - 1] = c + i
          /\ c + m <= t
      BY <3>0, ShowHolds
    <3> QED
      BY <3>1 DEF r, c, t, m
  <2>9. /\ \A i \in 1..(page - 1) : Len(screen) + i \notin newlines
        /\ IF Len(screen) + page \in newlines THEN lines < lines_on_screen
           ELSE lines <= lines_on_screen
        /\ lines < MaxLines /\ lines \in Nat /\ lines_on_screen \in Nat
    BY <1>1, <1>15 DEF LinesInv, ThreadsInv, ThreadsTypes
  <2>10. \A i \in 1..n : bytes[i] = Len(screen) + i
    BY <2>3
  <2>11. bytes = [i \in 1..n |-> bytes[i]]
    OBVIOUS
  <2>12. /\ screen' = screen \o [i \in 1..n |-> Len(screen) + i]
         /\ lines' = IF Len(screen) + n \in newlines THEN lines + 1 ELSE lines
    <3>1. Display(bytes) /\ n \in Nat \ {0} /\ screen \in Seq(Int) /\ lines \in Nat
      BY <1>2, <1>4 DEF ThreadsInv, ThreadsTypes
    <3> HIDE DEF bytes
    <3> QED
      BY <2>10, <2>11, <3>1, Shown
  <2>13. page \in Int
    BY DEF ThreadsInv, ThreadsTypes
  <2>14. LinesInv'
    <3>1. lines' <= lines_on_screen
      <4>1. CASE n = page
        BY <2>9, <2>12, <4>1
      <4>2. CASE n # page
        <5>1. n \in 1..(page - 1)
          BY <1>2, <1>4, <2>13, <4>2
        <5> QED
          BY <2>9, <2>12, <5>1
      <4> QED
        BY <4>1, <4>2
    <3> QED
      BY <1>1, <3>1 DEF LinesInv
  <2>15. PageStep
    <3>1. Len(screen) + n <= Total /\ n \in 1..Total
      BY <1>4, <1>7, <1>12, <2>2, <2>3, PagerAssumption
    <3>2. \A i \in 1..(n - 1) : Len(screen) + i \notin newlines
      BY <1>4, <2>9, <2>13
    <3>3. Shows(n)
      BY <1>1, <1>7, <2>9, <2>12, <3>1, <3>2 DEF Shows
    <3> QED
      BY <3>1, <3>3 DEF PageStep
  <2>16. Excused => Excused'
    BY <1>1, <1>7, <1>12, <2>2, <2>3 DEF Excused, Threads!Stale
  <2> QED
    BY <1>1, <1>13, <2>14, <2>15, <2>16 DEF ThreadsShown, ServerInv
<1> QED
  BY <1>14, <1>15

(* Then the ring is told: down += ret, with the wrap-around to come.        *)
LEMMA UserAdvances ==
  ASSUME ThreadsInv, LinesInv, ServerInv, Threads!UserAdvances
  PROVE  ThreadsShown
<1>1. /\ UNCHANGED <<buf, sock_end, lines_on_screen, received, screen, lines, sent, newlines,
                     reader, room, ret, cancelled>>
      /\ user = "written" /\ user' = "wrap" /\ page' = 0
      /\ ring' = Advanced(ring, page)
  BY ThreadsRing DEF Threads!UserAdvances, Threads!stop, Threads!world, Threads!io,
         Threads!network, Threads!readers
<1> DEFINE n == page
<1>2. ring \in Buffers /\ Kept = ring /\ n \in 1..PageRoom(ring) /\ Kept' = Settled(ring')
  BY <1>1 DEF ThreadsInv, ThreadsTypes, Kept
<1>3. n \in Nat /\ n >= 1
  BY <1>2, PageFits, BufferAssumption
<1> HIDE DEF n
<1>4. ring' = Advanced(ring, n)
  BY <1>1 DEF n
<1>5. /\ ring'.down \in 1..BUF_SIZE /\ ring'.up = ring.up /\ Kept' \in Buffers
      /\ Kept'.up = ring.up
      /\ ring.empty => Kept'.empty
  BY <1>2, <1>3, <1>4, ShownFits
<1>6. ring' \in Wide
  <2>1. ring' = [ring EXCEPT !.down = ring.down + n] /\ ring.down + n \in 1..BUF_SIZE
    BY <1>2, <1>3, <1>4, <1>5, ShownFits DEF Advanced
  <2> QED
    BY <1>2, <2>1, BufferAssumption DEF Wide, Buffers
<1>7. ThreadsTypes'
  <2>1. sock_end' \in BOOLEAN /\ cancelled' \in BOOLEAN
    BY <1>1 DEF ThreadsInv, ThreadsTypes
  <2>2. /\ lines_on_screen' \in Nat /\ room' \in Int /\ ret' \in Int /\ ret' >= -1
        /\ page' \in Int /\ buf' \in [Offsets -> Int] /\ lines' \in Nat
        /\ screen' \in Seq(Int)
    BY <1>1 DEF ThreadsInv, ThreadsTypes
  <2> QED
    BY <1>1, <1>6, <2>1, <2>2 DEF ThreadsTypes
<1>8. /\ Threads!Stocked' = Threads!Stocked /\ (Reading' <=> Reading)
      /\ Threads!Taken' = Len(screen) /\ Threads!Taken = Len(screen) - n
      /\ Len(screen) \in Nat /\ received \in Nat /\ Threads!Stocked \in Int
      /\ Threads!Stocked <= received
  <2>1. /\ Len(screen) \in Nat /\ received \in Nat /\ Threads!Stocked \in Int
        /\ Threads!Stocked <= received
    BY KeptFits
  <2> QED
    BY <1>1, <2>1 DEF Threads!Stocked, Threads!Taken, Reading, n
<1>9. Excused <=> Excused'
  BY <1>1 DEF Excused, Threads!Stale
<1>10. CASE Dry
  <2>1. Dry' /\ sock_end /\ reader = "done" /\ Len(screen) >= received
    BY <1>1, <1>2, <1>5, <1>10 DEF Dry, ThreadsInv
  <2>2. ThreadsInv'
    BY <1>1, <1>7, <2>1 DEF ThreadsInv, Reading
  <2> QED
    BY <1>1, <1>9, <2>1, <2>2 DEF ThreadsShown, LinesInv, PageStep, ServerInv
<1>11. CASE ~Dry
  <2>1. /\ ~ring.empty /\ Coherent(ring)
        /\ Holds(ring, buf, Threads!Taken, Threads!Stocked)
    BY <1>1, <1>2, <1>11 DEF Dry, ThreadsInv
  <2>2. Holds(Kept', buf, Len(screen), Threads!Stocked)
    <3> DEFINE r == ring
               c == Threads!Taken
               t == Threads!Stocked
    <3>0. /\ r \in Buffers /\ Coherent(r) /\ ~r.empty /\ c \in Int /\ t \in Int
          /\ Holds(r, buf, c, t) /\ n \in 1..PageRoom(r)
      BY <1>2, <1>3, <1>8, <2>1
    <3> HIDE DEF r, c, t
    <3>1. Holds(Settled(Advanced(r, n)), buf, c + n, t)
      BY <3>0, ShowHolds
    <3>2. c + n = Len(screen)
      BY <1>3, <1>8 DEF c
    <3> QED
      BY <1>2, <1>4, <3>1, <3>2 DEF r, t
  <2>4. /\ Coherent(Kept') /\ Held(Kept') = Held(ring) - n /\ Held(ring) \in Nat
    BY <1>2, <1>3, <1>4, <2>1, ShownKeepsOrder, HeldFits
  <2>5. Holds(Kept, buf, Threads!Taken, Threads!Stocked)'
    BY <1>1, <1>8, <2>2 DEF Holds
  <2>6. Dry' => Len(screen') >= received'
    <3>1. ASSUME Dry' PROVE Len(screen') >= received'
      <4>1. Held(Kept') = 0 /\ reader = "done"
        BY <1>1, <3>1 DEF Dry, Held, ThreadsInv
      <4>2. Threads!Stocked = received /\ received' = received
        BY <1>1, <1>8, <4>1 DEF Threads!Stocked
      <4> QED
        BY <1>1, <1>8, <2>2, <4>1, <4>2 DEF Holds
    <3> QED
      BY <3>1
  <2>7. /\ (reader = "read" => room <= BUF_SIZE - Held(Kept) /\ Kept.up + room <= BUF_SIZE)'
        /\ (Reading => /\ ret <= BUF_SIZE - Held(Kept) /\ Kept.up + ret <= BUF_SIZE
                       /\ \A j \in 0..(ret - 1) :
                             buf[Kept.up + j] = Threads!Stocked + 1 + j)'
    <3>1. BUF_SIZE - Held(ring) <= BUF_SIZE - Held(Kept')
      BY <1>3, <2>4, BufferAssumption
    <3>2. /\ Held(ring) \in Int /\ Held(Kept') \in Int /\ room \in Int /\ ret \in Int
      BY <1>3, <2>4 DEF ThreadsInv, ThreadsTypes
    <3>3. /\ reader = "read" => room <= BUF_SIZE - Held(ring) /\ ring.up + room <= BUF_SIZE
          /\ Reading => /\ ret <= BUF_SIZE - Held(ring) /\ ring.up + ret <= BUF_SIZE
                        /\ \A j \in 0..(ret - 1) :
                              buf[ring.up + j] = Threads!Stocked + 1 + j
      BY <1>2 DEF ThreadsInv
    <3>4. reader = "read" => room <= BUF_SIZE - Held(Kept') /\ Kept'.up + room <= BUF_SIZE
      BY <1>5, <3>1, <3>2, <3>3, BufferAssumption
    <3>5. Reading => /\ ret <= BUF_SIZE - Held(Kept') /\ Kept'.up + ret <= BUF_SIZE
                     /\ \A j \in 0..(ret - 1) :
                           buf[Kept'.up + j] = Threads!Stocked + 1 + j
      BY <1>5, <3>1, <3>2, <3>3, BufferAssumption
    <3> QED
      BY <1>1, <1>8, <3>4, <3>5
  <2>8. ThreadsInv'
    <3>1. (sock_end => reader = "done")'
      BY <1>1 DEF ThreadsInv
    <3> QED
      BY <1>1, <1>7, <2>4, <2>5, <2>6, <2>7, <3>1 DEF ThreadsInv
  <2>9. LinesInv'
    BY <1>1, <1>11 DEF LinesInv
  <2> QED
    BY <1>1, <1>9, <2>8, <2>9 DEF ThreadsShown, PageStep, ServerInv
<1> QED
  BY <1>10, <1>11

LEMMA ThreadsStep == ThreadsInv /\ LinesInv /\ ServerInv /\ Threads!Next => ThreadsShown
BY ReaderStep, UserLooks, OthersStep, UserWrites, UserAdvances
   DEF Threads!Next, Threads!User, Threads!UserOwn

LEMMA ThreadsServed ==
  ASSUME ThreadsInv, LinesInv, ServerInv, Server \/ \E key \in Keys : Type(key),
         UNCHANGED <<lines_on_screen, shared, threads>>
  PROVE  ThreadsShown
<1>1. /\ UNCHANGED <<received, screen, lines, ring, buf, sock_end, lines_on_screen, waiting,
                     reader, user, room, ret, page, cancelled>>
      /\ ServerInv' /\ (server = "closed" => server' = "closed" /\ sent' = sent)
      /\ \/ newlines' = newlines
         \/ sent + 1 \in 1..Total /\ newlines' = newlines \cup {sent + 1}
  BY ServerActs DEF shared, threads
<1>2. Kept' = Kept /\ (Dry' <=> Dry) /\ (Reading' <=> Reading)
      /\ Threads!Stocked' = Threads!Stocked /\ Threads!Taken' = Threads!Taken
  BY <1>1 DEF Kept, Dry, Reading, Threads!Stocked, Threads!Taken
<1>3. Holds(Kept, buf, Threads!Taken, Threads!Stocked)'
         <=> Holds(Kept, buf, Threads!Taken, Threads!Stocked)
  BY <1>1, <1>2 DEF Holds
<1>4. ThreadsTypes'
  BY <1>1 DEF ThreadsInv, ThreadsTypes
<1>5. ThreadsInv'
  BY <1>1, <1>2, <1>3, <1>4 DEF ThreadsInv
<1>6. /\ Len(screen) \in Nat /\ received <= sent /\ received \in Nat /\ sent \in Nat
      /\ ~Dry => Len(screen) <= Threads!Stocked /\ Threads!Stocked <= received
      /\ Threads!Stocked \in Int
  BY KeptFits DEF ServerInv
<1>7. LinesInv'
  <2>1. CASE Dry \/ newlines' = newlines
    BY <1>1, <1>2, <2>1 DEF LinesInv
  <2>2. CASE ~Dry /\ newlines' = newlines \cup {sent + 1}
    <3>1. CASE user # "write"
      BY <1>1, <1>2, <2>2, <3>1 DEF LinesInv
    <3>2. CASE user = "write"
      <4>1. /\ ~ring.empty /\ Coherent(ring) /\ page \in 1..PageRoom(ring)
            /\ Holds(ring, buf, Len(screen), Threads!Stocked) /\ ring \in Buffers
        <5>1. Threads!Taken = Len(screen)
          BY <3>2, KeptFits
        <5> QED
          BY <2>2, <3>2, <5>1 DEF Dry, ThreadsInv, ThreadsTypes, Kept
      <4>2. Len(screen) + page <= Threads!Stocked /\ page \in Nat
        BY <1>6, <4>1, ShowHolds, PageFits, BufferAssumption
      <4>3. \A i \in 1..page : Len(screen) + i \in newlines' <=> Len(screen) + i \in newlines
        BY <1>6, <2>2, <4>2
      <4>4. page \in 1..page
        BY <4>1, <4>2
      <4> QED
        <5>1. /\ \A i \in 1..(page - 1) : Len(screen) + i \notin newlines
              /\ IF Len(screen) + page \in newlines THEN lines < lines_on_screen
                 ELSE lines <= lines_on_screen
              /\ lines < MaxLines
          BY <2>2, <3>2 DEF LinesInv
        <5>2. \A i \in 1..(page - 1) : i \in 1..page
          BY <4>2
        <5>3. \A i \in 1..(page - 1) : Len(screen) + i \notin newlines'
          BY <4>3, <5>1, <5>2
        <5>4. Len(screen) + page \in newlines' <=> Len(screen) + page \in newlines
          BY <4>3, <4>4
        <5> QED
          BY <1>1, <1>2, <3>2, <5>1, <5>3, <5>4 DEF LinesInv
    <3> QED
      BY <3>1, <3>2
  <2> QED
    BY <1>1, <2>1, <2>2
<1>8. Excused \/ PageStep
  <2>1. SUFFICES ASSUME Len(screen) <= received, newlines' # newlines PROVE PageStep
    BY <1>1, <1>6 DEF PageStep, Excused, Threads!Stale
  <2>2. Len(screen) < sent + 1
    BY <1>6, <2>1
  <2> QED
    BY <1>1, <2>1, <2>2 DEF PageStep
<1>9. Excused' <=> Excused
  BY <1>1 DEF Excused, Threads!Stale
<1> QED
  BY <1>1, <1>5, <1>7, <1>8, <1>9 DEF ThreadsShown

-----------------------------------------------------------------------------
(* What lab28 has shown at its end *)

AllRead == server = "closed" /\ received = sent

(* The connection is taken for ended when the page is, or else a read of no *)
(* bytes was cut short.  What was read is shown in order.  The array is     *)
(* shown once more at most, and after that the user's thread ends.          *)
ThreadsEnd ==
    /\ cut \in BOOLEAN
    /\ sock_end /\ ~cut => AllRead
    /\ reader = "store" /\ ret = 0 /\ ~cut => AllRead
    /\ \A k \in 1..Len(screen) : k <= received => screen[k] = k
    /\ Len(screen) > received =>
          /\ Dry /\ Len(screen) <= received + BUF_SIZE
          /\ user \in {"written", "wrap", "invite", "start",
                       "done", "failed", "cancelled", "holding"}

LEMMA EndInitially == WorldInit /\ Threads!Init => ThreadsEnd
<1> SUFFICES ASSUME WorldInit, Threads!Init PROVE ThreadsEnd
  OBVIOUS
<1>1. Len(screen) = 0 /\ received = 0 /\ cut = FALSE /\ sock_end = FALSE /\ reader = "start"
  BY DEF WorldInit, Threads!Init
<1>2. \A k \in 1..Len(screen) : k <= received => screen[k] = k
  BY <1>1
<1>3. cut \in BOOLEAN /\ ~sock_end
  BY <1>1
<1>4. ~(Len(screen) > received) /\ reader # "store"
  BY <1>1
<1> QED
  BY <1>2, <1>3, <1>4 DEF ThreadsEnd

LEMMA EndOfReader ==
  ASSUME ThreadsInv, ThreadsEnd, ServerInv, Threads!Reader
  PROVE  ThreadsEnd'
<1>1. UNCHANGED <<screen, server, sent, user>> /\ Len(screen) \in Nat /\ received \in Nat
  BY KeptFits DEF Threads!Reader, Threads!ReaderEnters, Threads!ReaderSize,
         Threads!ReaderReads, Threads!ReaderStores, Threads!ReaderFails,
         Threads!ReaderCancelled, Threads!world, Threads!network, Threads!io,
         Threads!users
<1>2. ~sock_end /\ ~Dry /\ Len(screen) <= received
  <2>1. reader # "done"
    BY DEF Threads!Reader, Threads!ReaderEnters, Threads!ReaderSize, Threads!Awake,
           Threads!ReaderReads, Threads!ReaderStores, Threads!ReaderFails,
           Threads!ReaderCancelled, Threads!Dies
  <2> QED
    BY <1>1, <2>1 DEF ThreadsInv, ThreadsEnd, Dry
<1>3. CASE Threads!ReaderReads
  <2>1. /\ UNCHANGED sock_end /\ received' \in Nat /\ received' >= received
        /\ cut' \in BOOLEAN
        /\ ret' = 0 /\ ~cut' => AllRead'
    <3>0. UNCHANGED sock_end /\ room \in Int
      BY <1>3 DEF Threads!ReaderReads, ThreadsInv, ThreadsTypes
    <3>1. CASE \E n \in 1..room : received' = received + n /\ ret' = n /\ cut' = cut
      <4>2. PICK n \in 1..room : received' = received + n /\ ret' = n /\ cut' = cut
        BY <3>1
      <4>3. n \in Nat /\ n >= 1
        BY <3>0
      <4> QED
        BY <1>1, <3>0, <4>2, <4>3 DEF ThreadsEnd
    <3>2. CASE ret' = 0 /\ received' = received
      <4>1. /\ UNCHANGED sock_end /\ cut' = (cut \/ room = 0)
            /\ room = 0 \/ (room > 0 /\ received = sent /\ server = "closed")
        <5>1. ~(\E n \in 1..room : ret' = n)
          BY <3>0, <3>2
        <5> QED
          BY <1>3, <3>2, <5>1 DEF Threads!ReaderReads
      <4>2. cut' \in BOOLEAN /\ (~cut' => room # 0)
        BY <4>1 DEF ThreadsEnd
      <4>3. ~cut' => received' = sent' /\ server' = "closed"
        BY <1>1, <3>2, <4>1, <4>2
      <4> QED
        BY <1>1, <3>2, <4>1, <4>2, <4>3 DEF AllRead
    <3>3. CASE ret' = -1 /\ received' = received /\ cut' = cut
      BY <1>1, <3>0, <3>3 DEF ThreadsEnd
    <3> QED
      BY <1>3, <3>1, <3>2, <3>3 DEF Threads!ReaderReads
  <2> QED
    BY <1>1, <1>2, <2>1 DEF ThreadsEnd
<1>4. CASE Threads!ReaderStores
  <2>1. reader' # "store"
    BY <1>4, LoopOfReader DEF Threads!ReaderStores
  <2>2. /\ UNCHANGED <<received, cut>> /\ sock_end' = (ret = 0) /\ reader = "store"
    BY <1>4 DEF Threads!ReaderStores, Threads!io
  <2> QED
    BY <1>1, <1>2, <2>1, <2>2 DEF ThreadsEnd, AllRead
<1>5. CASE ~(Threads!ReaderReads \/ Threads!ReaderStores)
  <2>1. CASE Threads!ReaderEnters
    <3>1. reader' # "store"
      BY <2>1, LoopOfReader DEF Threads!ReaderEnters
    <3>2. UNCHANGED <<received, cut, sock_end>>
      BY <2>1 DEF Threads!ReaderEnters, Threads!io
    <3> QED
      BY <1>1, <1>2, <3>1, <3>2 DEF ThreadsEnd
  <2>2. CASE Threads!ReaderSize \/ Threads!ReaderFails \/ Threads!ReaderCancelled
    <3>1. UNCHANGED <<received, cut, sock_end>> /\ reader' # "store"
      BY <2>2 DEF Threads!ReaderSize, Threads!ReaderFails, Threads!ReaderCancelled,
             Threads!DiesIn, Threads!io
    <3> QED
      BY <1>1, <1>2, <3>1 DEF ThreadsEnd
  <2> QED
    BY <1>5, <2>1, <2>2 DEF Threads!Reader
<1> QED
  BY <1>3, <1>4, <1>5

(* The screen after write(). *)
LEMMA BytesWritten ==
  ASSUME ThreadsInv, ServerInv, Threads!UserWrites
  PROVE  /\ Len(screen') \in Nat /\ Len(screen') <= Len(screen) + BUF_SIZE
         /\ Len(screen) <= Len(screen')
         /\ \A k \in 1..Len(screen) : screen'[k] = screen[k]
         /\ ~Dry => /\ Len(screen') <= received
                    /\ \A k \in (Len(screen) + 1)..Len(screen') : screen'[k] = k
<1>1. UNCHANGED <<ring, buf, received>> /\ user = "write"
  BY DEF Threads!UserWrites
<1>2. PICK n \in 1..page : Display([i \in 1..n |-> buf[ring.down + i - 1]])
  BY ThreadsRing DEF Threads!UserWrites
<1> DEFINE bytes == [i \in 1..n |-> buf[ring.down + i - 1]]
<1>3. ring \in Buffers /\ Kept = ring /\ page \in 1..PageRoom(ring)
  BY <1>1 DEF ThreadsInv, ThreadsTypes, Kept
<1>4. /\ n \in Nat /\ n # 0 /\ n \in 1..PageRoom(ring) /\ n <= BUF_SIZE
      /\ BUF_SIZE \in Nat
  BY <1>2, <1>3, PageFits, BufferAssumption
<1>5. \A i \in 1..n : ring.down + i - 1 \in Offsets
  BY <1>3, <1>4, ShownFits
<1>6. bytes \in Seq(Int) /\ Len(bytes) = n /\ \A i \in 1..n : bytes[i] = buf[ring.down + i - 1]
  BY <1>4, <1>5 DEF ThreadsInv, ThreadsTypes
<1>7. screen' = screen \o bytes /\ screen \in Seq(Int) /\ Len(screen) \in Nat
  BY <1>2, LenProperties DEF Display, ThreadsInv, ThreadsTypes
<1> HIDE DEF bytes
<1>8. /\ Len(screen') = Len(screen) + n
      /\ \A k \in 1..Len(screen) : screen'[k] = screen[k]
      /\ \A k \in (Len(screen) + 1)..(Len(screen) + n) : screen'[k] = bytes[k - Len(screen)]
  <2>1. bytes \in Seq(Int) /\ Len(bytes) = n
    BY <1>6
  <2>2. screen \in Seq(Int)
    BY <1>7
  <2> QED
    BY <1>7, <2>1, <2>2, ConcatProperties
<1>9. ASSUME ~Dry
      PROVE  /\ Len(screen') <= received
             /\ \A k \in (Len(screen) + 1)..Len(screen') : screen'[k] = k
  <2>1. /\ ~ring.empty /\ Coherent(ring)
        /\ Holds(ring, buf, Len(screen), Threads!Stocked)
        /\ Threads!Stocked \in Int /\ Threads!Stocked <= received /\ received \in Nat
    <3>1. /\ Threads!Taken = Len(screen) /\ Threads!Stocked \in Int
          /\ Threads!Stocked <= received /\ received \in Nat
      BY <1>1, KeptFits
    <3> QED
      BY <1>1, <1>3, <1>9, <3>1 DEF Dry, ThreadsInv
  <2> DEFINE r == ring
             c == Len(screen)
             t == Threads!Stocked
             m == n
  <2>2. /\ r \in Buffers /\ Coherent(r) /\ ~r.empty /\ c \in Int /\ t \in Int
        /\ Holds(r, buf, c, t) /\ m \in 1..PageRoom(r)
    BY <1>3, <1>4, <1>7, <2>1
  <2> HIDE DEF r, c, t, m
  <2>3. (\A i \in 1..m : buf[r.down + i - 1] = c + i) /\ c + m <= t
    BY <2>2, ShowHolds
  <2>4. \A i \in 1..n : bytes[i] = Len(screen) + i
    BY <1>6, <2>3 DEF r, c, m
  <2>5. ASSUME NEW k \in (Len(screen) + 1)..Len(screen') PROVE screen'[k] = k
    <3>1. /\ k - Len(screen) \in 1..n /\ k \in (Len(screen) + 1)..(Len(screen) + n)
          /\ Len(screen) + (k - Len(screen)) = k
      BY <1>4, <1>7, <1>8
    <3> QED
      BY <1>8, <2>4, <3>1
  <2>6. Len(screen) + n <= Threads!Stocked
    BY <2>3 DEF c, m, t
  <2> QED
    BY <1>4, <1>7, <1>8, <2>1, <2>5, <2>6
<1> QED
  BY <1>4, <1>7, <1>8, <1>9

LEMMA EndOfWrites ==
  ASSUME ThreadsInv, ThreadsEnd, ServerInv, Threads!UserWrites
  PROVE  ThreadsEnd'
<1>1. /\ UNCHANGED <<ring, sock_end, received, sent, server, reader, ret, cut>>
      /\ user = "write" /\ user' = "written"
  BY DEF Threads!UserWrites, Threads!world, Threads!network, Threads!readers
<1>2. /\ Len(screen) \in Nat /\ received \in Nat /\ BUF_SIZE \in Nat
      /\ (Dry' <=> Dry)
  BY <1>1, KeptFits, BufferAssumption DEF Kept, Dry
<1>3. /\ Len(screen') \in Nat /\ Len(screen') <= Len(screen) + BUF_SIZE
      /\ Len(screen) <= Len(screen')
      /\ \A k \in 1..Len(screen) : screen'[k] = screen[k]
      /\ ~Dry => /\ Len(screen') <= received
                 /\ \A k \in (Len(screen) + 1)..Len(screen') : screen'[k] = k
  BY BytesWritten
<1>4. Len(screen) <= received
  BY <1>1, <1>2 DEF ThreadsEnd
<1>5. CASE Dry
  <2>1. Len(screen) = received
    BY <1>2, <1>4, <1>5 DEF ThreadsInv
  <2>2. \A k \in 1..Len(screen') : k <= received' => screen'[k] = k
    <3> TAKE k \in 1..Len(screen')
    <3>1. k <= received => k \in 1..Len(screen)
      BY <1>2, <1>3, <2>1
    <3> QED
      BY <1>1, <1>3, <3>1 DEF ThreadsEnd
  <2> QED
    BY <1>1, <1>2, <1>3, <1>5, <2>1, <2>2 DEF ThreadsEnd, AllRead
<1>6. CASE ~Dry
  <2>1. \A k \in 1..Len(screen') : screen'[k] = k
    <3> TAKE k \in 1..Len(screen')
    <3>1. CASE k <= Len(screen)
      <4>1. k \in 1..Len(screen) /\ k <= received
        BY <1>2, <1>3, <1>4, <3>1
      <4> QED
        BY <1>3, <4>1 DEF ThreadsEnd
    <3>2. CASE ~(k <= Len(screen))
      <4>1. k \in (Len(screen) + 1)..Len(screen')
        BY <1>2, <1>3, <3>2
      <4> QED
        BY <1>3, <1>6, <4>1
    <3> QED
      BY <3>1, <3>2
  <2> QED
    BY <1>1, <1>2, <1>3, <1>6, <2>1 DEF ThreadsEnd, AllRead
<1> QED
  BY <1>5, <1>6

(* More on the screen than was read leads to the end.                       *)
LEMMA StaleOnce ==
  ASSUME ThreadsInv, ServerInv, Threads!User, ~Threads!UserWrites, Dry,
         user \in {"written", "wrap", "invite", "start",
                   "done", "failed", "cancelled", "holding"}
  PROVE  /\ Dry'
         /\ user' \in {"written", "wrap", "invite", "start",
                       "done", "failed", "cancelled", "holding"}
<1>1. sock_end' = sock_end /\ sock_end
  BY DEF Dry, Threads!User, Threads!UserOwn, Threads!UserEnters, Threads!UserAwakes,
         Threads!UserTurns, Threads!UserAdvances, Threads!UserSettles,
         Threads!UserInvites, Threads!UserFails, Threads!UserCancelled,
         Threads!UserPressesSpace, Threads!UserPressesOther
<1>2. CASE Threads!UserEnters
  <2>1. ring' = ring /\ Kept = ring /\ Threads!UserLoop(ring, lines_on_screen, waiting)
    BY <1>2 DEF Threads!UserEnters, Kept
  <2>2. user' = "done"
    BY <2>1 DEF Threads!UserLoop, Threads!AllSeen, Threads!UserTo, Dry
  <2> QED
    BY <1>1, <2>1, <2>2 DEF Dry, Kept
<1>3. CASE Threads!UserAdvances
  <2>1. /\ ring' = Advanced(ring, page) /\ user' = "wrap" /\ ring \in Buffers
        /\ page \in 1..PageRoom(ring) /\ ring.empty
    BY <1>3, ThreadsRing DEF Threads!UserAdvances, ThreadsInv, ThreadsTypes, Dry, Kept
  <2>2. Settled(ring').empty
    BY <2>1, ShownFits
  <2> QED
    BY <1>1, <2>1, <2>2 DEF Dry, Kept
<1>4. CASE Threads!UserSettles
  <2>1. /\ ring' = Kept /\ Kept.empty
        /\ \/ user' = "invite"
           \/ Threads!UserLoop(ring', lines_on_screen, Threads!Told("reader"))
    BY <1>4, ThreadsRing DEF Threads!UserSettles, Threads!UserTo, Dry, Kept
  <2>2. user' \in {"invite", "done"}
    BY <1>1, <2>1 DEF Threads!UserLoop, Threads!AllSeen, Threads!UserTo
  <2> QED
    BY <1>1, <2>1, <2>2 DEF Dry, Kept
<1>5. CASE Threads!UserInvites \/ Threads!UserFails \/ Threads!UserCancelled
  <2>1. ring' = ring /\ user # "wrap" /\ user' \in {"start", "failed", "cancelled", "holding"}
    BY <1>5 DEF Threads!UserInvites, Threads!UserTo, Threads!UserFails,
           Threads!UserCancelled, Threads!Dies, Threads!DiesIn
  <2> QED
    BY <1>1, <2>1 DEF Dry, Kept
<1>6. CASE Threads!UserAwakes \/ Threads!UserPressesSpace \/ Threads!UserPressesOther
           \/ Threads!UserTurns
  BY <1>6 DEF Threads!UserAwakes, Threads!Awake, Threads!UserPressesSpace,
              Threads!UserPressesOther, Threads!UserTurns
<1> QED
  BY <1>2, <1>3, <1>4, <1>5, <1>6 DEF Threads!User, Threads!UserOwn

LEMMA EndOfUser ==
  ASSUME ThreadsInv, ThreadsEnd, ServerInv, Threads!User
  PROVE  ThreadsEnd'
<1>1. CASE Threads!UserWrites
  BY <1>1, EndOfWrites
<1>2. CASE ~Threads!UserWrites
  <2>1. UNCHANGED <<sock_end, received, screen, sent, server, reader, ret, cut>>
    BY <1>2 DEF Threads!User, Threads!UserOwn, Threads!UserEnters, Threads!UserAwakes,
         Threads!UserTurns, Threads!UserAdvances, Threads!UserSettles,
         Threads!UserInvites, Threads!UserFails, Threads!UserCancelled,
         Threads!UserPressesSpace, Threads!UserPressesOther, Threads!world,
         Threads!network, Threads!io, Threads!readers
  <2>2. Len(screen) > received =>
           /\ Dry'
           /\ user' \in {"written", "wrap", "invite", "start",
                         "done", "failed", "cancelled", "holding"}
    BY <1>2, StaleOnce DEF ThreadsEnd
  <2> QED
    BY <2>1, <2>2 DEF ThreadsEnd, AllRead
<1> QED
  BY <1>1, <1>2

LEMMA EndStays ==
  ASSUME ThreadsEnd,
         UNCHANGED <<ring, sock_end, received, screen, reader, user, ret, cut>>,
         AllRead => AllRead'
  PROVE  ThreadsEnd'
<1>1. Dry' <=> Dry
  BY DEF Dry, Kept
<1> QED
  BY <1>1 DEF ThreadsEnd

LEMMA EndStep == ThreadsInv /\ ThreadsEnd /\ ServerInv /\ Threads!Next => ThreadsEnd'
<1> SUFFICES ASSUME ThreadsInv, ThreadsEnd, ServerInv, Threads!Next PROVE ThreadsEnd'
  OBVIOUS
<1>1. CASE Threads!Interrupt \/ Threads!SpuriousWakeup("reader") \/ Threads!SpuriousWakeup("user")
  <2>1. /\ UNCHANGED <<ring, sock_end, received, screen, reader, user, ret, cut>>
        /\ UNCHANGED <<sent, server>>
    BY <1>1 DEF Threads!Interrupt, Threads!SpuriousWakeup, Threads!world,
           Threads!network, Threads!io, Threads!readers, Threads!users
  <2> QED
    BY <2>1, EndStays DEF AllRead
<1> QED
  BY <1>1, EndOfReader, EndOfUser DEF Threads!Next

LEMMA EndServed ==
  ASSUME ThreadsEnd, ServerInv, Server \/ \E key \in Keys : Type(key),
         UNCHANGED <<shared, threads>>
  PROVE  ThreadsEnd'
<1>1. /\ UNCHANGED <<received, screen>>
      /\ server = "closed" => server' = "closed" /\ sent' = sent
  BY ServerActs
<1>2. UNCHANGED <<ring, sock_end, reader, user, ret, cut>>
  BY DEF shared, threads
<1> QED
  BY <1>1, <1>2, EndStays DEF AllRead

LEMMA EndShows ==
  ASSUME ThreadsInv, ThreadsEnd, ServerInv
  PROVE  Threads!AllShown
<1> SUFFICES ASSUME user = "done"
             PROVE  /\ Len(screen) \in received..(received + BUF_SIZE)
                    /\ \A k \in 1..received : screen[k] = k
                    /\ cut \/ (server = "closed" /\ received = sent)
  BY DEF Threads!AllShown
<1>1. Dry /\ sock_end /\ Len(screen) \in Nat /\ received \in Nat /\ BUF_SIZE \in Nat
  BY KeptFits, BufferAssumption DEF ThreadsInv, Dry, Kept
<1>2. Len(screen) >= received
  BY <1>1 DEF ThreadsInv
<1>3. Len(screen) <= received + BUF_SIZE
  BY <1>1, <1>2 DEF ThreadsEnd
<1>4. \A k \in 1..received : k \in 1..Len(screen) /\ k <= received
  BY <1>1, <1>2
<1> QED
  BY <1>1, <1>2, <1>3, <1>4 DEF ThreadsEnd, AllRead
-----------------------------------------------------------------------------
(* The queue of lab27 *)

(* The queue ns, whose first off bytes are written, holds the bytes after    *)
(* the first s of the page, up to byte t.                                    *)
Runs(node) == node # <<>> /\ \A j \in 1..Len(node) : node[j] = node[1] + j - 1
EndOf(node) == node[1] + Len(node) - 1

Queue(ns, off, s, t) ==
    /\ ns \in Seq(Seq(Int)) /\ off \in Nat
    /\ \A i \in 1..Len(ns) : Runs(ns[i]) /\ EndOf(ns[i]) <= t
    /\ \A i \in 1..(Len(ns) - 1) : ns[i + 1][1] = ns[i][1] + Len(ns[i])
    /\ ns = <<>> => off = 0 /\ s = t
    /\ ns # <<>> => off < Len(ns[1]) /\ ns[1][1] + off = s + 1 /\ EndOf(ns[Len(ns)]) = t

LEMMA NodeFits ==
  ASSUME NEW ns \in Seq(Seq(Int)), NEW i \in 1..Len(ns)
  PROVE  /\ ns[i] \in Seq(Int) /\ Len(ns[i]) \in Nat
         /\ \A j \in 1..Len(ns[i]) : ns[i][j] \in Int
         /\ ns[i] # <<>> => Len(ns[i]) >= 1 /\ ns[i][1] \in Int
<1>1. ns[i] \in Seq(Int)
  BY ElementOfSeq
<1> DEFINE node == ns[i]
<1>2. Len(node) \in Nat /\ \A j \in 1..Len(node) : node[j] \in Int
  BY <1>1, ElementOfSeq, LenProperties
<1>3. node # <<>> => Len(node) >= 1 /\ node[1] \in Int
  <2> HIDE DEF node
  <2>1. node \in Seq(Int)
    BY <1>1 DEF node
  <2>2. node # <<>> => Len(node) # 0
    BY <2>1, EmptySeq
  <2> QED
    BY <1>2, <2>2
<1> QED
  BY <1>1, <1>2, <1>3

LEMMA QueueGoesOn ==
  ASSUME NEW ns, NEW off, NEW s \in Int, NEW t \in Int, Queue(ns, off, s, t), ns # <<>>,
         NEW n \in Nat, off + n < Len(ns[1])
  PROVE  Queue(ns, off + n, s + n, t)
<1>1. ns \in Seq(Seq(Int)) /\ off \in Nat /\ ns[1][1] + off = s + 1
  BY DEF Queue
<1>2. 1 \in 1..Len(ns) /\ Runs(ns[1])
  BY <1>1, EmptySeq, LenProperties DEF Queue
<1>3. ns[1][1] \in Int
  BY <1>1, <1>2, NodeFits DEF Runs
<1> DEFINE a == ns[1][1]
<1>4. a + (off + n) = s + n + 1 /\ off + n \in Nat
  <2>1. a \in Int /\ a + off = s + 1 /\ off \in Nat
    BY <1>1, <1>3
  <2> HIDE DEF a
  <2> QED
    BY <2>1
<1> QED
  BY <1>4 DEF Queue

LEMMA QueueDrops ==
  ASSUME NEW ns, NEW off, NEW s \in Int, NEW t \in Int, Queue(ns, off, s, t), ns # <<>>,
         NEW n \in Nat, off + n = Len(ns[1])
  PROVE  Queue(Tail(ns), 0, s + n, t)
<1> DEFINE rest == Tail(ns)
<1>1. ns \in Seq(Seq(Int)) /\ off \in Nat /\ Len(ns) \in Nat
  BY LenProperties DEF Queue
<1>2. /\ rest \in Seq(Seq(Int)) /\ Len(rest) = Len(ns) - 1 /\ Len(ns) >= 1
      /\ \A i \in 1..Len(rest) : rest[i] = ns[i + 1]
  BY <1>1, HeadTailProperties, EmptySeq
<1>3. ASSUME NEW i \in 1..Len(ns) PROVE ns[i][1] \in Int /\ Len(ns[i]) \in Nat
  BY <1>1, NodeFits DEF Queue, Runs
<1>4. ns[1][1] + off = s + 1 /\ 1 \in 1..Len(ns)
  BY <1>1, <1>2 DEF Queue
<1> HIDE DEF rest
<1>5. \A i \in 1..Len(rest) : Runs(rest[i]) /\ EndOf(rest[i]) <= t
  <2> TAKE i \in 1..Len(rest)
  <2>1. i + 1 \in 1..Len(ns)
    BY <1>1, <1>2
  <2> QED
    BY <1>2, <2>1 DEF Queue
<1>6. \A i \in 1..(Len(rest) - 1) : rest[i + 1][1] = rest[i][1] + Len(rest[i])
  <2> TAKE i \in 1..(Len(rest) - 1)
  <2>1. i + 1 \in 1..(Len(ns) - 1) /\ i \in 1..Len(rest) /\ i + 1 \in 1..Len(rest)
    BY <1>1, <1>2
  <2> QED
    BY <1>2, <2>1 DEF Queue
<1>7. ns[1][1] + Len(ns[1]) = s + n + 1
  <2> DEFINE a == ns[1][1]
             m == Len(ns[1])
  <2>1. a \in Int /\ m \in Nat /\ a + off = s + 1 /\ off + n = m
    BY <1>3, <1>4
  <2> HIDE DEF a, m
  <2>2. a + m = s + n + 1
    BY <1>1, <2>1
  <2> QED
    BY <2>2 DEF a, m
<1>8. CASE rest = <<>>
  <2>1. Len(ns) = 1
    BY <1>1, <1>2, <1>8, EmptySeq
  <2>2. ns[1][1] + Len(ns[1]) - 1 = t
    BY <2>1 DEF Queue, EndOf
  <2> DEFINE m == ns[1][1] + Len(ns[1])
  <2>3. m = s + n + 1 /\ m - 1 = t
    <3>1. m = s + n + 1
      BY <1>7
    <3>2. m - 1 = t
      BY <1>3, <1>4, <2>2
    <3> QED
      BY <3>1, <3>2
  <2> HIDE DEF m
  <2>4. s + n = t
    BY <2>3
  <2> QED
    BY <1>2, <1>5, <1>6, <1>8, <2>4 DEF Queue, rest
<1>9. CASE rest # <<>>
  <2>1. Len(rest) >= 1
    BY <1>1, <1>2, <1>9, EmptySeq
  <2>2. 1 \in 1..Len(rest) /\ 1 \in 1..(Len(ns) - 1) /\ Len(rest) \in 1..Len(rest)
    BY <1>1, <1>2, <2>1
  <2>3. rest[1] = ns[2] /\ rest[Len(rest)] = ns[Len(ns)]
    <3>1. Len(rest) + 1 = Len(ns)
      BY <1>1, <1>2
    <3>2. rest[1] = ns[1 + 1] /\ rest[Len(rest)] = ns[Len(rest) + 1]
      BY <1>2, <2>2
    <3> QED
      BY <3>1, <3>2
  <2>4. ns[2][1] = s + n + 1
    BY <1>7, <2>2 DEF Queue
  <2>5. Len(rest[1]) > 0
    BY <1>2, <1>5, <2>2, NodeFits DEF Runs
  <2>6. rest[1][1] + 0 = s + n + 1
    BY <2>3, <2>4
  <2> QED
    BY <1>2, <1>5, <1>6, <1>9, <2>3, <2>5, <2>6 DEF Queue, rest
<1> QED
  BY <1>8, <1>9

LEMMA QueueGrows ==
  ASSUME NEW ns, NEW off, NEW s \in Int, NEW t \in Int, Queue(ns, off, s, t),
         NEW n \in Nat \ {0}
  PROVE  Queue(Append(ns, [i \in 1..n |-> t + i]), off, s, t + n)
<1> DEFINE new == [i \in 1..n |-> t + i]
           more == Append(ns, new)
<1>1. ns \in Seq(Seq(Int)) /\ off \in Nat /\ Len(ns) \in Nat
  BY LenProperties DEF Queue
<1>2. /\ new \in Seq(Int) /\ Len(new) = n /\ new[1] = t + 1
      /\ \A j \in 1..n : new[j] = t + j
  OBVIOUS
<1>3. Runs(new) /\ EndOf(new) = t + n
  <2> HIDE DEF new
  <2>1. new # <<>>
    BY <1>2, EmptySeq
  <2> QED
    BY <1>2, <2>1 DEF Runs, EndOf
<1> HIDE DEF new
<1>4. /\ more \in Seq(Seq(Int)) /\ more # <<>> /\ Len(more) = Len(ns) + 1
      /\ \A i \in 1..Len(ns) : more[i] = ns[i]
      /\ more[Len(ns) + 1] = new
  <2> DEFINE S == Seq(Int)
  <2>1. ns \in Seq(S) /\ new \in S
    BY <1>1, <1>2
  <2> HIDE DEF S
  <2>2. /\ more \in Seq(S) /\ more # <<>> /\ Len(more) = Len(ns) + 1
        /\ \A i \in 1..Len(ns) : more[i] = ns[i]
        /\ more[Len(ns) + 1] = new
    BY <2>1, AppendProperties
  <2> QED
    BY <2>2 DEF S
<1> HIDE DEF more
<1>5. \A i \in 1..Len(more) : Runs(more[i]) /\ EndOf(more[i]) <= t + n
  <2> TAKE i \in 1..Len(more)
  <2>1. CASE i \in 1..Len(ns)
    <3>1. EndOf(ns[i]) \in Int /\ EndOf(ns[i]) <= t /\ Runs(ns[i])
      <4>1. Runs(ns[i]) /\ EndOf(ns[i]) <= t
        BY <2>1 DEF Queue
      <4>2. ns[i][1] \in Int /\ Len(ns[i]) \in Nat
        BY <1>1, <2>1, <4>1, NodeFits DEF Runs
      <4> QED
        BY <4>1, <4>2 DEF EndOf
    <3> QED
      BY <1>4, <2>1, <3>1
  <2>2. CASE i = Len(ns) + 1
    BY <1>3, <1>4, <2>2
  <2> QED
    BY <1>1, <1>4, <2>1, <2>2
<1>6. \A i \in 1..(Len(more) - 1) : more[i + 1][1] = more[i][1] + Len(more[i])
  <2> TAKE i \in 1..(Len(more) - 1)
  <2>1. CASE i \in 1..(Len(ns) - 1)
    <3>1. i \in 1..Len(ns) /\ i + 1 \in 1..Len(ns)
      BY <1>1, <2>1
    <3> QED
      BY <1>4, <2>1, <3>1 DEF Queue
  <2>2. CASE i = Len(ns)
    <3>1. i \in 1..Len(ns) /\ ns # <<>>
      BY <1>1, <1>4, <2>2, EmptySeq
    <3>2. ns[i][1] + Len(ns[i]) - 1 = t /\ ns[i][1] \in Int /\ Len(ns[i]) \in Nat
      BY <1>1, <2>2, <3>1, NodeFits DEF Queue, EndOf, Runs
    <3>3. ns[i][1] + Len(ns[i]) = t + 1
      BY <3>2
    <3> QED
      BY <1>2, <1>4, <2>2, <3>1, <3>3
  <2> QED
    BY <1>1, <1>4, <2>1, <2>2
<1>7. off < Len(more[1]) /\ more[1][1] + off = s + 1
  <2>1. CASE ns = <<>>
    <3>1. more[1] = new /\ off = 0 /\ s = t
      BY <1>4, <2>1, EmptySeq DEF Queue
    <3> QED
      BY <1>2, <3>1
  <2>2. CASE ns # <<>>
    <3>1. 1 \in 1..Len(ns)
      BY <1>1, <2>2, EmptySeq
    <3> QED
      BY <1>4, <2>2, <3>1 DEF Queue
  <2> QED
    BY <2>1, <2>2
<1>8. EndOf(more[Len(more)]) = t + n
  BY <1>3, <1>4
<1>9. Queue(more, off, s, t + n)
  BY <1>1, <1>4, <1>5, <1>6, <1>7, <1>8 DEF Queue
<1> QED
  BY <1>9 DEF more, new

(* The bytes of the first node from off on follow those before them.        *)
LEMMA QueueFirst ==
  ASSUME NEW ns, NEW off, NEW s \in Int, NEW t \in Int, Queue(ns, off, s, t), ns # <<>>
  PROVE  /\ 1 \in 1..Len(ns) /\ ns[1] \in Seq(Int) /\ off \in Nat /\ Len(ns[1]) \in Nat
         /\ off < Len(ns[1])
         /\ \A k \in 1..(Len(ns[1]) - off) : ns[1][off + k] = s + k
         /\ s + (Len(ns[1]) - off) <= t
<1>1. ns \in Seq(Seq(Int)) /\ off \in Nat /\ 1 \in 1..Len(ns) /\ Runs(ns[1])
  BY EmptySeq, LenProperties DEF Queue
<1> DEFINE m == Len(ns[1])
           a == ns[1][1]
<1>2. m \in Nat /\ off < m /\ a \in Int /\ a + off = s + 1 /\ a + m - 1 <= t
  BY <1>1, NodeFits DEF Queue, Runs, EndOf
<1>3. ASSUME NEW k \in 1..(m - off) PROVE ns[1][off + k] = s + k
  <2> HIDE DEF m, a
  <2>1. off + k \in 1..m /\ k \in Int /\ a + (off + k) - 1 = s + k
    BY <1>1, <1>2
  <2>2. ns[1][off + k] = a + (off + k) - 1
    BY <1>1, <2>1 DEF Runs, m, a
  <2> QED
    BY <2>1, <2>2
<1>4. s + (m - off) <= t
  <2> HIDE DEF m, a
  <2> QED
    BY <1>1, <1>2
<1> QED
  BY <1>1, <1>2, <1>3, <1>4, NodeFits
-----------------------------------------------------------------------------
(* lab27 *)

LineEndsOf(node, off, nl) == {n \in 1..(Len(node) - off) : node[off + n] \in nl}
LengthOf(node, off, nl) ==
    IF LineEndsOf(node, off, nl) = {} THEN Len(node) - off
    ELSE CHOOSE n \in LineEndsOf(node, off, nl) : \A m \in LineEndsOf(node, off, nl) : n <= m
LineOf(node, off, nl) == SubSeq(node, off + 1, off + LengthOf(node, off, nl))

LEMMA LineIs == /\ Aio!Line = LineOf(nodes[1], offset, newlines)
                /\ Aio!Line' = LineOf(nodes'[1], offset', newlines')
BY DEF Aio!Line, Aio!stdout_len, LineOf, LengthOf, LineEndsOf

(* The line at off: at least a byte, and no newline before its last.        *)
LEMMA LineFits ==
  ASSUME NEW node \in Seq(Int), NEW off \in Nat, off < Len(node), NEW nl
  PROVE  /\ LengthOf(node, off, nl) \in 1..(Len(node) - off)
         /\ LineOf(node, off, nl) \in Seq(Int)
         /\ Len(LineOf(node, off, nl)) = LengthOf(node, off, nl)
         /\ \A k \in 1..LengthOf(node, off, nl) : LineOf(node, off, nl)[k] = node[off + k]
         /\ \A k \in 1..(LengthOf(node, off, nl) - 1) : node[off + k] \notin nl
<1> DEFINE ends == LineEndsOf(node, off, nl)
           n == LengthOf(node, off, nl)
           m == Len(node)
<1>1. m \in Nat
  BY LenProperties
<1>2. ends \in SUBSET Nat /\ ends \in SUBSET (1..(m - off))
  BY <1>1 DEF LineEndsOf
<1>3. n \in 1..(m - off) /\ \A k \in 1..(n - 1) : k \notin ends
  <2>1. CASE ends = {}
    BY <1>1, <2>1 DEF LengthOf
  <2>2. CASE ends # {}
    <3>1. n = CHOOSE i \in ends : \A j \in ends : i <= j
      BY <2>2 DEF LengthOf
    <3> HIDE DEF ends, n
    <3>2. n \in ends /\ \A j \in ends : n <= j
      BY <1>2, <2>2, <3>1, FirstOf
    <3>3. n \in 1..(m - off) /\ n \in Nat
      BY <1>2, <3>2
    <3>4. \A k \in 1..(n - 1) : ~(n <= k)
      BY <3>3
    <3> QED
      BY <3>2, <3>3, <3>4
  <2> QED
    BY <2>1, <2>2
<1>4. \A k \in 1..(n - 1) : node[off + k] \notin nl
  <2> TAKE k \in 1..(n - 1)
  <2>1. k \in 1..(m - off) /\ k \notin LineEndsOf(node, off, nl)
    <3> HIDE DEF n, m
    <3> QED
      BY <1>1, <1>3
  <2> QED
    BY <2>1 DEF LineEndsOf
<1>5. \A i \in (off + 1)..(off + n) : node[i] \in Int
  <2> TAKE i \in (off + 1)..(off + n)
  <2>1. i \in 1..m
    <3> HIDE DEF n, m
    <3> QED
      BY <1>1, <1>3
  <2> QED
    BY <2>1, ElementOfSeq
<1>6. /\ LineOf(node, off, nl) \in Seq(Int)
      /\ Len(LineOf(node, off, nl)) = n
      /\ \A k \in 1..n : LineOf(node, off, nl)[k] = node[off + k]
  <2> HIDE DEF n
  <2>1. off + 1 \in Int /\ off + n \in Int /\ off + 1 <= off + n /\ n \in Nat
    BY <1>1, <1>3
  <2>2. /\ SubSeq(node, off + 1, off + n) \in Seq(Int)
        /\ Len(SubSeq(node, off + 1, off + n)) = off + n - (off + 1) + 1
        /\ \A k \in 1..(off + n - (off + 1) + 1) :
              SubSeq(node, off + 1, off + n)[k] = node[off + 1 + k - 1]
    BY <1>5, <2>1, SubSeqProperties
  <2>3. off + n - (off + 1) + 1 = n /\ \A k \in 1..n : off + 1 + k - 1 = off + k
    BY <2>1
  <2> QED
    BY <2>2, <2>3 DEF LineOf, n
<1> QED
  BY <1>3, <1>4, <1>6

(* The line stays what it is as long as its bytes are not made newlines.    *)
LEMMA LineStays ==
  ASSUME NEW node, NEW off, NEW nl, NEW more,
         \A k \in 1..(Len(node) - off) : node[off + k] \in more <=> node[off + k] \in nl
  PROVE  LineOf(node, off, more) = LineOf(node, off, nl)
<1>1. LineEndsOf(node, off, more) = LineEndsOf(node, off, nl)
  BY DEF LineEndsOf
<1> QED
  BY <1>1 DEF LineOf, LengthOf

(* What the bytes of the line are. *)
LEMMA LineInQueue ==
  ASSUME NEW s \in Int, NEW t \in Int, Queue(nodes, offset, s, t), nodes # <<>>
  PROVE  /\ Aio!Line \in Seq(Int) /\ Len(Aio!Line) \in Nat /\ Len(Aio!Line) >= 1
         /\ s + Len(Aio!Line) <= t /\ offset + Len(Aio!Line) <= Len(nodes[1])
         /\ offset \in Nat /\ Len(nodes[1]) \in Nat
         /\ \A k \in 1..Len(Aio!Line) : Aio!Line[k] = s + k
         /\ \A k \in 1..(Len(Aio!Line) - 1) : s + k \notin newlines
<1> DEFINE node == nodes[1]
           line == Aio!Line
<1>1. /\ node \in Seq(Int) /\ offset \in Nat /\ Len(node) \in Nat /\ offset < Len(node)
      /\ \A k \in 1..(Len(node) - offset) : node[offset + k] = s + k
      /\ s + (Len(node) - offset) <= t
  <2> DEFINE ns == nodes
             off == offset
  <2>1. Queue(ns, off, s, t) /\ ns # <<>>
    OBVIOUS
  <2> HIDE DEF ns, off
  <2>2. /\ ns[1] \in Seq(Int) /\ off \in Nat /\ Len(ns[1]) \in Nat /\ off < Len(ns[1])
        /\ \A k \in 1..(Len(ns[1]) - off) : ns[1][off + k] = s + k
        /\ s + (Len(ns[1]) - off) <= t
    BY <2>1, QueueFirst
  <2> QED
    BY <2>2 DEF ns, off
<1>2. /\ Len(line) \in 1..(Len(node) - offset) /\ line \in Seq(Int)
      /\ \A k \in 1..Len(line) : line[k] = node[offset + k]
      /\ \A k \in 1..(Len(line) - 1) : node[offset + k] \notin newlines
  <2> DEFINE n == LengthOf(node, offset, newlines)
  <2>1. line = LineOf(node, offset, newlines)
    BY LineIs
  <2> HIDE DEF node, line
  <2>2. /\ n \in 1..(Len(node) - offset) /\ line \in Seq(Int) /\ Len(line) = n
        /\ \A k \in 1..n : line[k] = node[offset + k]
        /\ \A k \in 1..(n - 1) : node[offset + k] \notin newlines
    <3> DEFINE off == offset
               nl == newlines
    <3>1. node \in Seq(Int) /\ off \in Nat /\ off < Len(node)
      BY <1>1
    <3> HIDE DEF off, nl
    <3>2. /\ LengthOf(node, off, nl) \in 1..(Len(node) - off)
          /\ LineOf(node, off, nl) \in Seq(Int)
          /\ Len(LineOf(node, off, nl)) = LengthOf(node, off, nl)
          /\ \A k \in 1..LengthOf(node, off, nl) : LineOf(node, off, nl)[k] = node[off + k]
          /\ \A k \in 1..(LengthOf(node, off, nl) - 1) : node[off + k] \notin nl
      BY <3>1, LineFits
    <3> QED
      BY <2>1, <3>2 DEF off, nl
  <2> HIDE DEF n
  <2> QED
    BY <2>2
<1> HIDE DEF node, line
<1>3. /\ Len(line) \in Nat /\ Len(line) >= 1 /\ Len(line) <= Len(node) - offset
      /\ \A k \in 1..Len(line) : k \in 1..(Len(node) - offset)
      /\ \A k \in 1..(Len(line) - 1) : k \in 1..(Len(node) - offset)
  BY <1>1, <1>2
<1>4. \A k \in 1..Len(line) : line[k] = s + k
  BY <1>1, <1>2, <1>3
<1>5. \A k \in 1..(Len(line) - 1) : s + k \notin newlines
  BY <1>1, <1>2, <1>3
<1>6. s + Len(line) <= t /\ offset + Len(line) <= Len(node)
  BY <1>1, <1>3
<1> QED
  BY <1>1, <1>2, <1>3, <1>4, <1>5, <1>6 DEF line, node

-----------------------------------------------------------------------------
(* Whatever becomes of the results: the terminal is switched over when the  *)
(* keyboard is asked, and stays so until the page has been turned.          *)
AioAlways ==
    /\ lost \in Nat /\ missed \in BOOLEAN /\ lines_on_screen \in Nat
    /\ error \in [Aio!Requests -> {"none", "progress", "error"}]

TerminalInv ==
    /\ error["stdin"] # "none" => raw
    /\ raw => Aio!Full /\ "stdin" \in rw_in_progress
    /\ place \in {"stdout_write", "socket_read", "suspend"} /\ Aio!Full => raw

AioTypes ==
    /\ error \in [Aio!Requests -> {"none", "progress", "error"}]
    /\ aio_nbytes \in [Aio!Requests -> Nat] /\ result \in [Aio!Requests -> Int]
    /\ finished \in BOOLEAN
    /\ screen \in Seq(Int) /\ lines \in Nat /\ lines_on_screen \in Nat

StdoutInv ==
    /\ aio_nbytes["stdout"] # 0 => nodes # <<>> /\ aio_nbytes["stdout"] = Len(Aio!Line)
    /\ Aio!Answered("stdout") => result["stdout"] \in 1..aio_nbytes["stdout"]
    /\ error["stdout"] = "progress" => aio_nbytes["stdout"] # 0 /\ lines_on_screen < MaxLines

SocketInv ==
    /\ error["socket"] = "progress" => aio_nbytes["socket"] # 0
    /\ Aio!Answered("socket") => result["socket"] \in 0..received
    /\ Aio!Answered("socket") /\ result["socket"] = 0 => server = "closed" /\ received = sent
    /\ finished => server = "closed" /\ received = sent /\ Aio!Arrived = 0
    /\ place = "done" => nodes = <<>> /\ finished

(* A line that has been written and not looked at is not counted yet.       *)
Uncounted == /\ Aio!Answered("stdout") /\ result["stdout"] = aio_nbytes["stdout"]
             /\ Aio!Line[result["stdout"]] \in newlines

AioOrder ==
    /\ AioTypes /\ StdoutInv /\ SocketInv
    /\ \A k \in 1..Len(screen) : screen[k] = k
    /\ Queue(nodes, offset, Len(screen) - Aio!Written, received - Aio!Arrived)
    /\ missed \/ lines <= lines_on_screen \/ (Uncounted /\ lines <= lines_on_screen + 1)

AioInv == AioAlways /\ TerminalInv /\ (lost = 0 => AioOrder)

AioExcused == lost # 0 \/ missed

AioShown == AioInv' /\ ServerInv' /\ (AioExcused' \/ PageStep) /\ (AioExcused => AioExcused')

LEMMA AioInitially == WorldInit /\ Aio!Init => AioInv
<1> SUFFICES ASSUME WorldInit, Aio!Init PROVE AioInv
  OBVIOUS
<1>1. screen = <<>> /\ screen \in Seq(Int) /\ Len(screen) = 0 /\ received = 0 /\ lines = 0
  BY DEF WorldInit
<1>2. /\ lines_on_screen = 0 /\ nodes = <<>> /\ offset = 0 /\ finished = FALSE /\ raw = FALSE
      /\ error = [r \in Aio!Requests |-> "none"]
      /\ aio_nbytes = [r \in Aio!Requests |-> 0] /\ result = aio_nbytes
      /\ lost = 0 /\ missed = FALSE /\ place = "stdin_read"
  BY DEF Aio!Init
<1>3. error["stdout"] = "none" /\ aio_nbytes["stdout"] = 0 /\ aio_nbytes["socket"] = 0
      /\ error["socket"] = "none"
  BY <1>2 DEF Aio!Requests
<1>4. AioTypes
  <2>1. error \in [Aio!Requests -> {"none", "progress", "error"}]
    BY <1>2
  <2>2. aio_nbytes \in [Aio!Requests -> Nat] /\ result \in [Aio!Requests -> Int]
    BY <1>2
  <2>3. finished \in BOOLEAN
    BY <1>2
  <2> QED
    BY <1>1, <1>2, <2>1, <2>2, <2>3 DEF AioTypes
<1>5. ~Aio!Answered("stdout") /\ ~Aio!Answered("socket") /\ Aio!Written = 0 /\ Aio!Arrived = 0
  BY <1>3 DEF Aio!Answered, Aio!Written, Aio!Arrived
<1>6. Queue(nodes, offset, 0, 0)
  <2>1. Len(nodes) = 0 /\ nodes \in Seq(Seq(Int))
    BY <1>2
  <2> QED
    BY <1>2, <2>1 DEF Queue
<1>7. Len(screen) - Aio!Written = 0 /\ received - Aio!Arrived = 0
  BY <1>1, <1>5
<1>8. missed \in BOOLEAN
  BY <1>2
<1>9. error["stdin"] = "none" /\ ~raw
  BY <1>2 DEF Aio!Requests
<1>10. AioAlways
  BY <1>2, <1>4, <1>8 DEF AioAlways, AioTypes
<1>11. TerminalInv
  BY <1>2, <1>9 DEF TerminalInv
<1> QED
  BY <1>1, <1>2, <1>3, <1>4, <1>5, <1>6, <1>7, <1>10, <1>11
     DEF AioInv, AioOrder, StdoutInv, SocketInv
-----------------------------------------------------------------------------
(* Steps that touch neither the queue nor a result that has been seen. *)
AioQuiet ==
    /\ UNCHANGED <<nodes, offset, finished, screen, received, sent, server, newlines, missed>>
    /\ \A r \in {"stdout", "socket"} :
          /\ aio_nbytes'[r] = aio_nbytes[r]
          /\ Aio!Answered(r)' <=> Aio!Answered(r)
          /\ Aio!Answered(r) => result'[r] = result[r]
          /\ error'[r] = "progress" => error[r] = "progress"
    /\ place' = "done" => nodes = <<>> /\ finished
    /\ UNCHANGED <<lines, lines_on_screen>> \/ (lines' = 0 /\ lines_on_screen' = 0)

LEMMA QuietFits ==
  ASSUME AioOrder, AioQuiet, AioTypes'
  PROVE  AioOrder' /\ PageStep
<1> USE DEF AioQuiet
<1>1. /\ Aio!Answered("stdout")' <=> Aio!Answered("stdout")
      /\ Aio!Answered("socket")' <=> Aio!Answered("socket")
      /\ aio_nbytes'["stdout"] = aio_nbytes["stdout"]
      /\ aio_nbytes'["socket"] = aio_nbytes["socket"]
      /\ Aio!Answered("stdout") => result'["stdout"] = result["stdout"]
      /\ Aio!Answered("socket") => result'["socket"] = result["socket"]
      /\ error'["stdout"] = "progress" => error["stdout"] = "progress"
      /\ error'["socket"] = "progress" => error["socket"] = "progress"
  OBVIOUS
<1>2. Aio!Written' = Aio!Written /\ Aio!Arrived' = Aio!Arrived
  BY <1>1 DEF Aio!Written, Aio!Arrived
<1>3. Aio!Line' = Aio!Line
  BY LineIs
<1>4. Queue(nodes, offset, Len(screen) - Aio!Written, received - Aio!Arrived)'
  BY <1>2 DEF AioOrder
<1>5. StdoutInv'
  BY <1>1, <1>3, PagerAssumption DEF AioOrder, StdoutInv
<1>6. SocketInv'
  BY <1>1, <1>2 DEF AioOrder, SocketInv
<1>7. Uncounted' <=> Uncounted
  BY <1>1, <1>3 DEF Uncounted
<1>8. (missed \/ lines <= lines_on_screen \/ (Uncounted /\ lines <= lines_on_screen + 1))'
  BY <1>7 DEF AioOrder
<1>9. (\A k \in 1..Len(screen) : screen[k] = k)'
  BY DEF AioOrder
<1>10. PageStep
  BY DEF PageStep
<1> QED
  BY <1>4, <1>5, <1>6, <1>8, <1>9, <1>10 DEF AioOrder

(* Types *)
LEMMA TypesKept ==
  ASSUME AioTypes, NEW r \in Aio!Requests, NEW m \in Nat, NEW i \in Int,
         NEW c \in {"none", "progress", "error"},
         error' \in {error, [error EXCEPT ![r] = c]},
         aio_nbytes' \in {aio_nbytes, [aio_nbytes EXCEPT ![r] = m]},
         result' \in {result, [result EXCEPT ![r] = i]},
         finished' \in BOOLEAN, screen' \in Seq(Int), lines' \in Nat,
         lines_on_screen' \in Nat
  PROVE  AioTypes'
<1>1. error' \in [Aio!Requests -> {"none", "progress", "error"}]
  BY DEF AioTypes
<1>2. aio_nbytes' \in [Aio!Requests -> Nat]
  BY DEF AioTypes
<1>3. result' \in [Aio!Requests -> Int]
  BY DEF AioTypes
<1> QED
  BY <1>1, <1>2, <1>3 DEF AioTypes

LEMMA ThreeRequests == /\ "stdin" \in Aio!Requests /\ "stdout" \in Aio!Requests
                       /\ "socket" \in Aio!Requests
BY DEF Aio!Requests

(* What one request alone does leaves the answers to the others as they are. *)
LEMMA OnlyStdin ==
  ASSUME AioTypes,
         \E c : error' \in {error, [error EXCEPT !["stdin"] = c]},
         \E m : aio_nbytes' \in {aio_nbytes, [aio_nbytes EXCEPT !["stdin"] = m]},
         \E i : result' \in {result, [result EXCEPT !["stdin"] = i]}
  PROVE  \A r \in {"stdout", "socket"} :
          /\ aio_nbytes'[r] = aio_nbytes[r]
          /\ Aio!Answered(r)' <=> Aio!Answered(r)
          /\ Aio!Answered(r) => result'[r] = result[r]
          /\ error'[r] = "progress" => error[r] = "progress"
<1> TAKE r \in {"stdout", "socket"}
<1>1. r \in Aio!Requests /\ r # "stdin"
  BY DEF Aio!Requests
<1>2. error'[r] = error[r] /\ aio_nbytes'[r] = aio_nbytes[r] /\ result'[r] = result[r]
  BY <1>1 DEF AioTypes
<1> QED
  BY <1>2 DEF Aio!Answered

LEMMA StdinFits ==
  ASSUME AioOrder, Aio!stdin_read \/ Aio!StdinEnds \/ Aio!StdinCloses \/ Aio!check_stdin_read
  PROVE  AioOrder' /\ PageStep
<1>1. AioTypes /\ lines \in Nat /\ lines_on_screen \in Nat /\ screen \in Seq(Int)
      /\ finished \in BOOLEAN
  BY DEF AioOrder, AioTypes
<1>2. /\ UNCHANGED <<nodes, offset, finished, screen, received, sent, server, newlines, missed>>
      /\ place' # "done"
      /\ UNCHANGED <<lines, lines_on_screen>> \/ (lines' = 0 /\ lines_on_screen' = 0)
  BY DEF Aio!stdin_read, Aio!StdinEnds, Aio!StdinCloses, Aio!check_stdin_read, Aio!End,
         Aio!Over, Aio!Goto, Aio!TurnPage, Aio!network, Aio!io, Aio!queuebuffer
<1>3. PICK c \in {"none", "progress", "error"}, m \in Nat, i \in Int :
         /\ error' \in {error, [error EXCEPT !["stdin"] = c]}
         /\ aio_nbytes' \in {aio_nbytes, [aio_nbytes EXCEPT !["stdin"] = m]}
         /\ result' \in {result, [result EXCEPT !["stdin"] = i]}
  <2>1. CASE Aio!stdin_read
    BY <2>1 DEF Aio!stdin_read, Aio!Ask, Aio!NoAsk
  <2>2. CASE Aio!StdinEnds \/ Aio!StdinCloses
    BY <2>2 DEF Aio!StdinEnds, Aio!StdinCloses, Aio!End
  <2>3. CASE Aio!check_stdin_read
    BY <2>3 DEF Aio!check_stdin_read, Aio!Seen
  <2> QED
    BY <2>1, <2>2, <2>3
<1>4. AioTypes'
  BY <1>1, <1>2, <1>3, TypesKept, ThreeRequests
<1>5. AioQuiet
  BY <1>1, <1>2, <1>3, OnlyStdin DEF AioQuiet
<1> QED
  BY <1>4, <1>5, QuietFits

LEMMA StillFits ==
  ASSUME AioOrder,
         UNCHANGED <<nodes, offset, finished, screen, received, sent, server, newlines, lines,
                     lines_on_screen, error, aio_nbytes, result, missed>>,
         place' # "done"
  PROVE  AioOrder' /\ PageStep
<1>1. AioTypes'
  BY DEF AioOrder, AioTypes
<1>2. AioQuiet
  BY DEF AioQuiet, Aio!Answered
<1> QED
  BY <1>1, <1>2, QuietFits

LEMMA FailsFits ==
  ASSUME AioOrder, NEW r \in Aio!Requests, Aio!RequestFails(r)
  PROVE  AioOrder' /\ PageStep
<1>1. AioTypes /\ lines \in Nat /\ lines_on_screen \in Nat /\ screen \in Seq(Int)
      /\ finished \in BOOLEAN
  BY DEF AioOrder, AioTypes
<1>2. /\ UNCHANGED <<nodes, offset, finished, screen, received, sent, server, newlines, lines,
                     lines_on_screen, aio_nbytes, missed>>
      /\ place' # "done" /\ error[r] = "progress"
      /\ error' = [error EXCEPT ![r] = "error"] /\ result' = [result EXCEPT ![r] = -1]
  BY DEF Aio!RequestFails, Aio!End, Aio!Over, Aio!network, Aio!io, Aio!queuebuffer
<1>3. AioTypes'
  <2>1. /\ error' \in {error, [error EXCEPT ![r] = "error"]}
        /\ aio_nbytes' \in {aio_nbytes, [aio_nbytes EXCEPT ![r] = 0]}
        /\ result' \in {result, [result EXCEPT ![r] = -1]}
        /\ finished' \in BOOLEAN /\ screen' \in Seq(Int) /\ lines' \in Nat
        /\ lines_on_screen' \in Nat /\ -1 \in Int /\ 0 \in Nat
        /\ "error" \in {"none", "progress", "error"}
    BY <1>1, <1>2
  <2> QED
    BY <1>1, <2>1, TypesKept
<1>4. \A q \in {"stdout", "socket"} :
          /\ aio_nbytes'[q] = aio_nbytes[q]
          /\ Aio!Answered(q)' <=> Aio!Answered(q)
          /\ Aio!Answered(q) => result'[q] = result[q]
          /\ error'[q] = "progress" => error[q] = "progress"
  <2> TAKE q \in {"stdout", "socket"}
  <2>1. q \in Aio!Requests
    BY DEF Aio!Requests
  <2>2. CASE q = r
    <3>1. error'[q] = "error" /\ error[q] = "progress" /\ aio_nbytes'[q] = aio_nbytes[q]
      BY <1>1, <1>2, <2>1, <2>2 DEF AioTypes
    <3> QED
      BY <3>1 DEF Aio!Answered
  <2>3. CASE q # r
    <3>1. error'[q] = error[q] /\ aio_nbytes'[q] = aio_nbytes[q] /\ result'[q] = result[q]
      BY <1>1, <1>2, <2>1, <2>3 DEF AioTypes
    <3> QED
      BY <3>1 DEF Aio!Answered
  <2> QED
    BY <2>2, <2>3
<1>5. AioQuiet
  BY <1>2, <1>4 DEF AioQuiet
<1> QED
  BY <1>3, <1>5, QuietFits
-----------------------------------------------------------------------------
(* Requests made *)
LEMMA AioNumbers ==
  ASSUME AioTypes, ServerInv
  PROVE  /\ Len(screen) \in Nat /\ received \in Nat
         /\ Aio!Written \in Int /\ Aio!Arrived \in Int
         /\ Len(screen) - Aio!Written \in Int /\ received - Aio!Arrived \in Int
<1>1. Len(screen) \in Nat /\ received \in Nat
  BY LenProperties DEF AioTypes, ServerInv
<1>2. result["stdout"] \in Int /\ result["socket"] \in Int
  BY ThreeRequests DEF AioTypes
<1>3. Aio!Written \in Int /\ Aio!Arrived \in Int
  BY <1>2 DEF Aio!Written, Aio!Arrived
<1> QED
  BY <1>1, <1>3

LEMMA AskStdout ==
  ASSUME AioOrder, ServerInv, Aio!stdout_write, lost = 0, lost' = 0
  PROVE  AioOrder' /\ PageStep
<1>1. /\ UNCHANGED <<nodes, offset, finished, screen, received, sent, server, newlines, lines,
                     lines_on_screen, result, missed>>
      /\ place' # "done"
  BY DEF Aio!stdout_write, Aio!Goto, Aio!network, Aio!io, Aio!terminal, Aio!queuebuffer
<1>2. CASE Aio!NoAsk
  BY <1>1, <1>2, StillFits DEF Aio!NoAsk
<1>3. CASE ~Aio!NoAsk
  <2> DEFINE n == Len(Aio!Line)
  <2>1. /\ nodes # <<>> /\ ~(lines_on_screen >= MaxLines) /\ error["stdout"] = "none"
        /\ error' = [error EXCEPT !["stdout"] = "progress"]
        /\ aio_nbytes' = [aio_nbytes EXCEPT !["stdout"] = n]
        /\ ~Aio!Answered("stdout")
    BY <1>3 DEF Aio!stdout_write, Aio!Ask, Aio!Full, Aio!CanAsk
  <2>2. /\ Len(screen) \in Int /\ AioTypes /\ lines_on_screen \in Nat
        /\ Len(screen) - Aio!Written = Len(screen) /\ Aio!Written = 0
    BY <2>1, LenProperties DEF AioOrder, AioTypes, Aio!Written
  <2>3. received - Aio!Arrived \in Int
    BY <2>2, AioNumbers
  <2>4. n \in Nat /\ n >= 1
    <3> DEFINE s == Len(screen) - Aio!Written
               t == received - Aio!Arrived
    <3>1. Queue(nodes, offset, s, t) /\ s \in Int /\ t \in Int
      BY <2>2, <2>3 DEF AioOrder
    <3> HIDE DEF s, t
    <3> QED
      BY <2>1, <3>1, LineInQueue
  <2>5. Aio!Line' = Aio!Line
    BY <1>1, LineIs
  <2> HIDE DEF n
  <2>6. AioTypes'
    BY <1>1, <2>1, <2>2, <2>4, TypesKept, ThreeRequests DEF AioTypes
  <2>7. /\ aio_nbytes'["stdout"] = n /\ error'["stdout"] = "progress"
        /\ aio_nbytes'["socket"] = aio_nbytes["socket"] /\ error'["socket"] = error["socket"]
    BY <2>1, <2>2, ThreeRequests DEF AioTypes
  <2>8. /\ ~Aio!Answered("stdout")' /\ Aio!Written' = 0
        /\ Aio!Answered("socket")' <=> Aio!Answered("socket")
        /\ Aio!Arrived' = Aio!Arrived
    BY <1>1, <2>7 DEF Aio!Answered, Aio!Written, Aio!Arrived
  <2>9. Queue(nodes, offset, Len(screen) - Aio!Written, received - Aio!Arrived)'
    BY <1>1, <2>2, <2>8 DEF AioOrder
  <2>10. StdoutInv'
    <3>1. lines_on_screen' < MaxLines
      BY <1>1, <2>1, <2>2, PagerAssumption
    <3> QED
      BY <1>1, <2>1, <2>4, <2>5, <2>7, <2>8, <3>1 DEF StdoutInv, n
  <2>11. SocketInv'
    BY <1>1, <2>7, <2>8 DEF AioOrder, SocketInv
  <2>12. missed \/ lines <= lines_on_screen
    BY <2>1 DEF AioOrder, Uncounted
  <2> QED
    BY <1>1, <2>6, <2>9, <2>10, <2>11, <2>12 DEF AioOrder, PageStep
<1> QED
  BY <1>2, <1>3

LEMMA AskSocket ==
  ASSUME AioOrder, Aio!socket_read, lost = 0, lost' = 0
  PROVE  AioOrder' /\ PageStep
<1>1. /\ UNCHANGED <<nodes, offset, finished, screen, received, sent, server, newlines, lines,
                     lines_on_screen, result, missed>>
      /\ place' # "done"
  BY DEF Aio!socket_read, Aio!Goto, Aio!network, Aio!io, Aio!terminal, Aio!queuebuffer
<1>2. CASE Aio!NoAsk
  BY <1>1, <1>2, StillFits DEF Aio!NoAsk
<1>3. CASE ~Aio!NoAsk
  <2>1. /\ ~finished /\ error["socket"] = "none"
        /\ error' = [error EXCEPT !["socket"] = "progress"]
        /\ aio_nbytes' = [aio_nbytes EXCEPT !["socket"] = AioSize]
        /\ ~Aio!Answered("socket")
    BY <1>3 DEF Aio!socket_read, Aio!Ask, Aio!CanAsk
  <2>2. AioTypes /\ lines_on_screen \in Nat
    BY DEF AioOrder, AioTypes
  <2>3. AioSize \in Nat /\ AioSize # 0
    BY ViewersAssumption
  <2>4. Aio!Line' = Aio!Line
    BY <1>1, LineIs
  <2>5. AioTypes'
    BY <1>1, <2>1, <2>2, <2>3, TypesKept, ThreeRequests DEF AioTypes
  <2>6. /\ aio_nbytes'["socket"] = AioSize /\ error'["socket"] = "progress"
        /\ aio_nbytes'["stdout"] = aio_nbytes["stdout"] /\ error'["stdout"] = error["stdout"]
    BY <2>1, <2>2, ThreeRequests DEF AioTypes
  <2>7. /\ ~Aio!Answered("socket")' /\ Aio!Arrived' = 0 /\ Aio!Arrived = 0
        /\ Aio!Answered("stdout")' <=> Aio!Answered("stdout")
        /\ Aio!Written' = Aio!Written
    BY <1>1, <2>1, <2>6 DEF Aio!Answered, Aio!Written, Aio!Arrived
  <2>8. Queue(nodes, offset, Len(screen) - Aio!Written, received - Aio!Arrived)'
    BY <1>1, <2>7 DEF AioOrder
  <2>9. StdoutInv'
    BY <1>1, <2>4, <2>6, <2>7 DEF AioOrder, StdoutInv
  <2>10. SocketInv'
    BY <1>1, <2>1, <2>3, <2>6, <2>7 DEF SocketInv
  <2>11. Uncounted' <=> Uncounted
    BY <1>1, <2>4, <2>6, <2>7 DEF Uncounted
  <2> QED
    BY <1>1, <2>5, <2>8, <2>9, <2>10, <2>11 DEF AioOrder, PageStep
<1> QED
  BY <1>2, <1>3

-----------------------------------------------------------------------------
(* Results looked at *)
LEMMA CheckStdout ==
  ASSUME AioOrder, ServerInv, Aio!check_stdout_write
  PROVE  AioOrder' /\ PageStep
<1>1. /\ UNCHANGED <<finished, screen, received, sent, server, newlines, lines, error>>
      /\ place' # "done"
  BY DEF Aio!check_stdout_write, Aio!Goto, Aio!network, Aio!io
<1>2. CASE ~Aio!Answered("stdout")
  <2>1. UNCHANGED <<nodes, offset, lines_on_screen, aio_nbytes, result, missed>>
    BY <1>2 DEF Aio!check_stdout_write
  <2> QED
    BY <1>1, <2>1, StillFits
<1>3. CASE Aio!Answered("stdout")
  <2> DEFINE n == result["stdout"]
             c == Len(screen)
             t == received - Aio!Arrived
  <2>0. PICK newline \in Aio!LastByteReadsAsNewline(n) :
           Aio!Counts(n, n = aio_nbytes["stdout"], newline)
    BY <1>3 DEF Aio!check_stdout_write
  <2>1. /\ Aio!HandleBytes(n)
        /\ lines_on_screen' = lines_on_screen \/ lines_on_screen' = lines_on_screen + 1
        /\ n = aio_nbytes["stdout"] /\ Aio!Line[n] \in newlines
              => missed' \/ lines_on_screen' = lines_on_screen + 1
        /\ missed => missed'
        /\ aio_nbytes' = [aio_nbytes EXCEPT !["stdout"] = 0]
        /\ result' = [result EXCEPT !["stdout"] = 0]
    BY <1>3, <2>0 DEF Aio!check_stdout_write, Aio!Seen, Aio!Counts
  <2>2. /\ AioTypes /\ lines_on_screen \in Nat /\ lines \in Nat /\ c \in Int
        /\ aio_nbytes["stdout"] # 0 /\ error["stdout"] = "none"
    BY <1>3, LenProperties DEF AioOrder, AioTypes, Aio!Answered
  <2>3. /\ nodes # <<>> /\ aio_nbytes["stdout"] = Len(Aio!Line)
        /\ n \in 1..aio_nbytes["stdout"] /\ aio_nbytes["stdout"] \in Nat /\ n \in Nat
        /\ n <= aio_nbytes["stdout"]
    <3>1. aio_nbytes["stdout"] \in Nat
      BY <2>2, ThreeRequests DEF AioTypes
    <3>2. n \in 1..aio_nbytes["stdout"]
      BY <1>3 DEF AioOrder, StdoutInv
    <3> QED
      BY <2>2, <3>1, <3>2 DEF AioOrder, StdoutInv
  <2>4. Queue(nodes, offset, c - n, t) /\ t \in Int /\ c - n \in Int
    <3>1. Queue(nodes, offset, c - n, t)
      BY <1>3 DEF AioOrder, Aio!Written
    <3>2. received - Aio!Arrived \in Int
      BY <2>2, AioNumbers
    <3> QED
      BY <2>2, <2>3, <3>1, <3>2
  <2>5. offset + n <= Len(nodes[1]) /\ offset \in Nat /\ Len(nodes[1]) \in Nat
    <3> HIDE DEF n, c, t
    <3>1. offset + Len(Aio!Line) <= Len(nodes[1]) /\ offset \in Nat /\ Len(nodes[1]) \in Nat
      BY <2>3, <2>4, LineInQueue
    <3> QED
      BY <2>3, <3>1
  <2>6. /\ aio_nbytes'["stdout"] = 0 /\ aio_nbytes'["socket"] = aio_nbytes["socket"]
        /\ result'["socket"] = result["socket"]
    BY <2>1, <2>2, ThreeRequests DEF AioTypes
  <2>7. /\ ~Aio!Answered("stdout")' /\ Aio!Written' = 0
        /\ Aio!Answered("socket")' <=> Aio!Answered("socket")
        /\ Aio!Arrived' = Aio!Arrived
    BY <1>1, <2>6 DEF Aio!Answered, Aio!Written, Aio!Arrived
  <2>8. lines_on_screen' \in Nat
    BY <2>1, <2>2
  <2>9. AioTypes'
    <3>1. error' \in {error, [error EXCEPT !["stdout"] = "none"]}
      BY <1>1
    <3>2. /\ finished' \in BOOLEAN /\ screen' \in Seq(Int) /\ lines' \in Nat
          /\ 0 \in Nat /\ 0 \in Int /\ "none" \in {"none", "progress", "error"}
      BY <1>1, <2>2 DEF AioTypes
    <3>3. /\ aio_nbytes' \in {aio_nbytes, [aio_nbytes EXCEPT !["stdout"] = 0]}
          /\ result' \in {result, [result EXCEPT !["stdout"] = 0]}
      BY <2>1
    <3> QED
      BY <2>2, <2>8, <3>1, <3>2, <3>3, TypesKept, ThreeRequests
  <2>10. Queue(nodes', offset', c, t)
    <3> DEFINE ns == nodes
               off == offset
               s == c - n
    <3>0. Queue(ns, off, s, t) /\ ns # <<>> /\ s \in Int /\ t \in Int /\ n \in Nat
          /\ s + n = c
      BY <2>2, <2>3, <2>4
    <3>1. CASE off + n = Len(ns[1])
      <4>1. nodes' = Tail(ns) /\ offset' = 0
        BY <2>1, <3>1 DEF Aio!HandleBytes
      <4> HIDE DEF ns, off, s, n, t, c
      <4>2. Queue(Tail(ns), 0, s + n, t)
        BY <3>0, <3>1, QueueDrops
      <4> QED
        BY <3>0, <4>1, <4>2
    <3>2. CASE off + n # Len(ns[1])
      <4>1. nodes' = ns /\ offset' = off + n /\ off + n < Len(ns[1])
        BY <2>1, <2>3, <2>5, <3>2 DEF Aio!HandleBytes
      <4> HIDE DEF ns, off, s, n, t, c
      <4>2. Queue(ns, off + n, s + n, t)
        BY <3>0, <4>1, QueueGoesOn
      <4> QED
        BY <3>0, <4>1, <4>2
    <3> QED
      BY <3>1, <3>2
  <2>11. Queue(nodes, offset, Len(screen) - Aio!Written, received - Aio!Arrived)'
    <3>1. Len(screen') - Aio!Written' = c /\ received' - Aio!Arrived' = t
      BY <1>1, <2>2, <2>7
    <3> HIDE DEF c, t
    <3> QED
      BY <2>10, <3>1
  <2>12. StdoutInv'
    <3>1. error["stdout"] # "progress"
      BY <2>2
    <3> QED
      BY <1>1, <2>6, <2>7, <3>1 DEF StdoutInv
  <2>13. SocketInv'
    BY <1>1, <2>6, <2>7 DEF AioOrder, SocketInv
  <2>14. missed' \/ lines <= lines_on_screen'
    <3>1. CASE missed \/ lines <= lines_on_screen
      BY <2>1, <2>2, <3>1
    <3>2. CASE Uncounted /\ lines <= lines_on_screen + 1
      BY <2>1, <3>2 DEF Uncounted
    <3> QED
      BY <3>1, <3>2 DEF AioOrder
  <2> QED
    BY <1>1, <2>9, <2>11, <2>12, <2>13, <2>14 DEF AioOrder, PageStep
<1> QED
  BY <1>2, <1>3

LEMMA CheckSocket ==
  ASSUME AioOrder, Aio!check_socket_read, lost = 0, lost' = 0, ServerInv
  PROVE  AioOrder' /\ PageStep
<1>1. /\ UNCHANGED <<offset, screen, received, sent, server, newlines, lines,
                     lines_on_screen, error, missed>>
      /\ place' = "done" => nodes' = <<>> /\ finished'
  BY DEF Aio!check_socket_read, Aio!LoopEnds, Aio!network, Aio!io, Aio!terminal
<1>2. AioTypes /\ lines_on_screen \in Nat /\ lines \in Nat /\ finished \in BOOLEAN
  BY DEF AioOrder, AioTypes
<1>3. CASE Aio!Answered("socket") /\ result["socket"] > 0
  <2> DEFINE n == result["socket"]
             c == Len(screen) - Aio!Written
             t == received - n
             new == [i \in 1..n |-> received - n + i]
  <2>1. /\ nodes' = Append(nodes, new) /\ finished' = finished
        /\ aio_nbytes' = [aio_nbytes EXCEPT !["socket"] = 0]
        /\ result' = [result EXCEPT !["socket"] = 0]
    BY <1>3 DEF Aio!check_socket_read, Aio!TakeBytes, Aio!Seen
  <2>2. /\ aio_nbytes'["socket"] = 0 /\ aio_nbytes'["stdout"] = aio_nbytes["stdout"]
        /\ result'["stdout"] = result["stdout"] /\ n \in Int
    BY <1>2, <2>1, ThreeRequests DEF AioTypes
  <2>3. n \in Nat \ {0} /\ received \in Int
    BY <1>3, <2>2 DEF ServerInv
  <2>4. new \in Seq(Int)
    <3> HIDE DEF n
    <3>1. \A i \in 1..n : received - n + i \in Int
      BY <2>3
    <3> QED
      BY <2>3, <3>1
  <2>5. Queue(nodes, offset, c, t) /\ c \in Int /\ t \in Int
    <3>1. Queue(nodes, offset, c, t)
      BY <1>3 DEF AioOrder, Aio!Arrived
    <3>2. Len(screen) \in Int /\ Aio!Written \in Int
      BY <1>2, ThreeRequests, LenProperties DEF AioTypes, Aio!Written
    <3> QED
      BY <2>3, <3>1, <3>2
  <2>6. /\ ~Aio!Answered("socket")' /\ Aio!Arrived' = 0
        /\ Aio!Answered("stdout")' <=> Aio!Answered("stdout")
        /\ Aio!Written' = Aio!Written
    BY <1>1, <2>2 DEF Aio!Answered, Aio!Written, Aio!Arrived
  <2>7. AioTypes'
    <3>1. error' \in {error, [error EXCEPT !["socket"] = "none"]}
      BY <1>1
    <3>2. finished' \in BOOLEAN /\ screen' \in Seq(Int) /\ lines' \in Nat
          /\ lines_on_screen' \in Nat
          /\ 0 \in Nat /\ 0 \in Int /\ "none" \in {"none", "progress", "error"}
      BY <1>1, <1>2, <2>1 DEF AioTypes
    <3>3. /\ aio_nbytes' \in {aio_nbytes, [aio_nbytes EXCEPT !["socket"] = 0]}
          /\ result' \in {result, [result EXCEPT !["socket"] = 0]}
      BY <2>1
    <3> QED
      BY <1>2, <3>1, <3>2, <3>3, TypesKept, ThreeRequests
  <2>8. Queue(nodes', offset', c, received)
    <3> DEFINE ns == nodes
               off == offset
    <3>0. Queue(ns, off, c, t) /\ c \in Int /\ t \in Int /\ n \in Nat \ {0} /\ t + n = received
      BY <2>3, <2>5
    <3>1. new = [i \in 1..n |-> t + i]
      OBVIOUS
    <3> HIDE DEF ns, off, c, t, n, new
    <3>2. Queue(Append(ns, new), off, c, received)
      BY <3>0, <3>1, QueueGrows
    <3> QED
      BY <1>1, <2>1, <3>2 DEF ns, off
  <2>9. Queue(nodes, offset, Len(screen) - Aio!Written, received - Aio!Arrived)'
    <3>1. Len(screen') - Aio!Written' = c /\ received' - Aio!Arrived' = received
      BY <1>1, <2>3, <2>6
    <3> HIDE DEF c
    <3> QED
      BY <2>8, <3>1
  <2>10. nodes' # <<>>
    <3> DEFINE S == Seq(Int)
    <3>1. nodes \in Seq(S) /\ new \in S
      BY <2>4 DEF AioOrder, Queue
    <3>2. nodes' = Append(nodes, new)
      BY <2>1
    <3> HIDE DEF new, S
    <3> QED
      BY <3>1, <3>2, AppendProperties
  <2>11. nodes # <<>> => Aio!Line' = Aio!Line
    <3>1. ASSUME nodes # <<>> PROVE nodes'[1] = nodes[1]
      <4> DEFINE S == Seq(Int)
      <4>1. nodes \in Seq(S) /\ new \in S
        BY <2>4 DEF AioOrder, Queue
      <4>2. nodes' = Append(nodes, new)
        BY <2>1
      <4> HIDE DEF new, S
      <4>3. 1 \in 1..Len(nodes)
        BY <3>1, <4>1, EmptySeq
      <4> QED
        BY <4>1, <4>2, <4>3, AppendProperties
    <3> QED
      BY <1>1, <3>1, LineIs
  <2>12. StdoutInv'
    BY <1>1, <2>2, <2>6, <2>10, <2>11 DEF AioOrder, StdoutInv
  <2>13. SocketInv'
    <3>1. (error["socket"] # "progress")'
      BY <1>1, <1>3 DEF Aio!Answered
    <3>2. (finished => server = "closed" /\ received = sent /\ Aio!Arrived = 0)'
      BY <1>1, <2>1, <2>6 DEF AioOrder, SocketInv
    <3> QED
      BY <1>1, <2>6, <2>10, <3>1, <3>2 DEF SocketInv
  <2>14. Uncounted => Uncounted'
    <3>1. ASSUME Uncounted PROVE nodes # <<>>
      BY <3>1 DEF Uncounted, Aio!Answered, AioOrder, StdoutInv
    <3> QED
      BY <1>1, <2>2, <2>6, <2>11, <3>1 DEF Uncounted
  <2> QED
    BY <1>1, <2>7, <2>9, <2>12, <2>13, <2>14 DEF AioOrder, PageStep
<1>4. CASE ~(Aio!Answered("socket") /\ result["socket"] > 0)
  <2>1. /\ finished' = (finished \/ Aio!Answered("socket"))
        /\ UNCHANGED <<nodes, aio_nbytes, result>>
    BY <1>4 DEF Aio!check_socket_read
  <2>2. /\ Aio!Written' = Aio!Written /\ Aio!Arrived' = Aio!Arrived
        /\ Aio!Answered("stdout")' <=> Aio!Answered("stdout")
        /\ Aio!Answered("socket")' <=> Aio!Answered("socket")
    BY <1>1, <2>1 DEF Aio!Written, Aio!Arrived, Aio!Answered
  <2>3. Aio!Answered("socket") => result["socket"] = 0 /\ Aio!Arrived = 0
    BY <1>4 DEF AioOrder, SocketInv, Aio!Arrived, ServerInv
  <2>4. Aio!Line' = Aio!Line
    BY <1>1, <2>1, LineIs
  <2>5. finished' \in BOOLEAN
    BY <1>2, <2>1 DEF Aio!Answered
  <2>6. AioTypes'
    BY <1>1, <2>1, <2>5 DEF AioOrder, AioTypes
  <2>7. SocketInv'
    BY <1>1, <2>1, <2>2, <2>3 DEF AioOrder, SocketInv
  <2>8. StdoutInv'
    BY <1>1, <2>1, <2>2, <2>4 DEF AioOrder, StdoutInv
  <2>9. Uncounted' <=> Uncounted
    BY <1>1, <2>1, <2>2, <2>4 DEF Uncounted
  <2>10. Queue(nodes, offset, Len(screen) - Aio!Written, received - Aio!Arrived)'
    BY <1>1, <2>1, <2>2 DEF AioOrder
  <2> QED
    BY <1>1, <2>6, <2>7, <2>8, <2>9, <2>10 DEF AioOrder, PageStep
<1> QED
  BY <1>3, <1>4
-----------------------------------------------------------------------------
(* Requests carried out *)
LEMMA StdoutFits ==
  ASSUME AioOrder, ServerInv, Aio!StdoutEnds
  PROVE  AioOrder' /\ (missed' \/ PageStep)
<1> DEFINE m == aio_nbytes["stdout"]
           c == Len(screen)
           t == received - Aio!Arrived
<1>1. PICK n \in 1..m : /\ Aio!Takes(n, m) /\ Aio!Display(SubSeq(Aio!Line, 1, n))
                        /\ Aio!End("stdout", "none", n)
  BY DEF Aio!StdoutEnds
<1>2. /\ UNCHANGED <<nodes, offset, finished, received, sent, server, newlines,
                     lines_on_screen, aio_nbytes, missed>>
      /\ place' # "done" /\ error["stdout"] = "progress"
      /\ error' = [error EXCEPT !["stdout"] = "none"]
      /\ result' = [result EXCEPT !["stdout"] = n]
  BY <1>1 DEF Aio!StdoutEnds, Aio!End, Aio!Over, Aio!network, Aio!queuebuffer
<1>3. /\ AioTypes /\ lines_on_screen \in Nat /\ lines \in Nat /\ screen \in Seq(Int)
      /\ finished \in BOOLEAN /\ c \in Nat /\ t \in Int /\ received \in Nat
      /\ Aio!Written \in Int
  BY AioNumbers DEF AioOrder, AioTypes
<1>4. /\ ~Aio!Answered("stdout") /\ Aio!Written = 0 /\ nodes # <<>> /\ m = Len(Aio!Line)
      /\ m # 0 /\ lines_on_screen < MaxLines /\ (missed \/ lines <= lines_on_screen)
  BY <1>2 DEF AioOrder, StdoutInv, Aio!Answered, Aio!Written, Uncounted
<1>5. Queue(nodes, offset, c, t)
  <2>1. c - Aio!Written = c
    BY <1>3, <1>4
  <2> QED
    BY <2>1 DEF AioOrder
<1>6. /\ Aio!Line \in Seq(Int) /\ m \in Nat /\ m >= 1 /\ c + m <= t
      /\ \A k \in 1..m : Aio!Line[k] = c + k
      /\ \A k \in 1..(m - 1) : c + k \notin newlines
  <2> HIDE DEF c, t, m
  <2> QED
    BY <1>3, <1>4, <1>5, LineInQueue
<1>7. n \in Nat /\ n # 0 /\ n >= 1 /\ n <= m
  BY <1>1, <1>6
<1> DEFINE bytes == SubSeq(Aio!Line, 1, n)
<1>8. bytes = [i \in 1..n |-> bytes[i]] /\ \A i \in 1..n : bytes[i] = c + i
  <2> DEFINE line == Aio!Line
  <2>1. \A i \in 1..n : i \in 1..m /\ line[i] \in Int
    <3>1. \A i \in 1..n : i \in 1..m
      BY <1>6, <1>7
    <3> QED
      BY <1>3, <1>6, <3>1
  <2>2. n \in Int /\ 1 \in Int /\ n - 1 + 1 = n
    BY <1>7
  <2> HIDE DEF line, m, c
  <2>3. /\ SubSeq(line, 1, n) \in Seq(Int) /\ Len(SubSeq(line, 1, n)) = n
        /\ \A i \in 1..n : SubSeq(line, 1, n)[i] = line[1 + i - 1]
    BY <1>7, <2>1, <2>2, SubSeqProperties
  <2>4. \A i \in 1..n : SubSeq(line, 1, n)[i] = line[i]
    BY <1>7, <2>3
  <2>5. SubSeq(line, 1, n) = [i \in 1..n |-> SubSeq(line, 1, n)[i]]
    BY <2>3
  <2> QED
    BY <1>6, <2>1, <2>4, <2>5 DEF line
<1>9. Display(bytes)
  BY <1>1 DEF Display, Aio!Display
<1>10. /\ screen' = screen \o [i \in 1..n |-> c + i]
       /\ screen' \in Seq(Int) /\ Len(screen') = c + n
       /\ lines' = IF c + n \in newlines THEN lines + 1 ELSE lines
       /\ lines' \in Nat
  <2> HIDE DEF bytes
  <2> QED
    BY <1>3, <1>7, <1>8, <1>9, Shown
<1>11. (\A k \in 1..Len(screen) : screen[k] = k)'
  <2> DEFINE more == [i \in 1..n |-> c + i]
  <2>1. more \in Seq(Int) /\ Len(more) = n /\ \A i \in 1..n : more[i] = c + i
    <3> HIDE DEF c
    <3> QED
      BY <1>3, <1>7
  <2>2. screen' = screen \o more
    BY <1>10
  <2> HIDE DEF more
  <2>3. /\ \A k \in 1..c : screen'[k] = screen[k]
        /\ \A k \in (c + 1)..(c + n) : screen'[k] = more[k - c]
    BY <1>3, <1>7, <2>1, <2>2, ConcatProperties
  <2>4. ASSUME NEW k \in 1..(c + n) PROVE screen'[k] = k
    <3>1. CASE k <= c
      BY <1>3, <2>3, <3>1 DEF AioOrder
    <3>2. CASE k > c
      <4>1. k \in (c + 1)..(c + n) /\ k - c \in 1..n /\ c + (k - c) = k
        BY <1>3, <1>7, <3>2
      <4> QED
        BY <2>1, <2>3, <4>1
    <3> QED
      BY <1>3, <1>7, <3>1, <3>2
  <2> QED
    BY <1>10, <2>4
<1>12. /\ error'["stdout"] = "none" /\ error'["socket"] = error["socket"]
       /\ result'["stdout"] = n /\ result'["socket"] = result["socket"]
  BY <1>2, <1>3, ThreeRequests DEF AioTypes
<1>13. /\ Aio!Answered("stdout")' /\ Aio!Written' = n
       /\ Aio!Answered("socket")' <=> Aio!Answered("socket")
       /\ Aio!Arrived' = Aio!Arrived
  BY <1>2, <1>4, <1>12 DEF Aio!Answered, Aio!Written, Aio!Arrived
<1>14. Aio!Line' = Aio!Line
  BY <1>2, LineIs
<1>15. AioTypes'
  <2>1. /\ error' \in {error, [error EXCEPT !["stdout"] = "none"]}
        /\ aio_nbytes' \in {aio_nbytes, [aio_nbytes EXCEPT !["stdout"] = 0]}
        /\ result' \in {result, [result EXCEPT !["stdout"] = n]}
        /\ finished' \in BOOLEAN /\ lines_on_screen' \in Nat
        /\ 0 \in Nat /\ n \in Int /\ "none" \in {"none", "progress", "error"}
    BY <1>2, <1>3, <1>7
  <2> QED
    BY <1>3, <1>10, <2>1, TypesKept, ThreeRequests
<1>16. Queue(nodes, offset, Len(screen) - Aio!Written, received - Aio!Arrived)'
  <2>1. Len(screen') - Aio!Written' = c /\ received' - Aio!Arrived' = t
    BY <1>2, <1>3, <1>7, <1>10, <1>13
  <2> HIDE DEF c, t
  <2> QED
    BY <1>2, <1>5, <2>1
<1>17. StdoutInv'
  BY <1>1, <1>2, <1>4, <1>12, <1>13, <1>14 DEF StdoutInv
<1>18. SocketInv'
  BY <1>2, <1>12, <1>13 DEF AioOrder, SocketInv
<1>19. (missed \/ lines <= lines_on_screen \/ (Uncounted /\ lines <= lines_on_screen + 1))'
  <2>1. CASE c + n \notin newlines
    BY <1>2, <1>4, <1>10, <2>1
  <2>2. CASE c + n \in newlines
    <3>1. n = m
      <4>1. CASE n < m
        <5>1. n \in 1..(m - 1)
          BY <1>6, <1>7, <4>1
        <5> QED
          BY <1>6, <2>2, <5>1
      <4> QED
        BY <1>6, <1>7, <4>1
    <3>2. Aio!Line[n] = c + n
      BY <1>1, <1>6
    <3>3. Uncounted'
      BY <1>2, <1>12, <1>13, <1>14, <2>2, <3>1, <3>2 DEF Uncounted
    <3>4. lines' = lines + 1
      BY <1>10, <2>2
    <3> QED
      BY <1>2, <1>3, <1>4, <3>3, <3>4
  <2> QED
    BY <2>1, <2>2
<1>20. missed' \/ PageStep
  <2> SUFFICES ASSUME ~missed PROVE PageStep
    BY <1>2
  <2>1. Aio!Arrived >= 0
    BY <1>3 DEF AioOrder, SocketInv, Aio!Arrived
  <2>2. c + n <= Total /\ n \in 1..Total /\ lines < MaxLines
    <3>1. t <= received /\ received <= Total
      BY <1>3, <2>1, AioNumbers, PagerAssumption DEF ServerInv
    <3> QED
      BY <1>3, <1>4, <1>6, <1>7, <3>1, PagerAssumption
  <2>3. \A i \in 1..(n - 1) : c + i \notin newlines
    <3>1. \A i \in 1..(n - 1) : i \in 1..(m - 1)
      BY <1>6, <1>7
    <3> QED
      BY <1>6, <3>1
  <2>4. Shows(n)
    BY <1>2, <1>10, <2>2, <2>3 DEF Shows
  <2> QED
    BY <2>2, <2>4 DEF PageStep
<1> QED
  BY <1>11, <1>15, <1>16, <1>17, <1>18, <1>19, <1>20 DEF AioOrder

LEMMA SocketFits ==
  ASSUME AioOrder, ServerInv, Aio!SocketEnds
  PROVE  AioOrder' /\ PageStep
<1>1. PICK n \in 0..AioSize : /\ n <= sent - received
                              /\ n = 0 => received = sent /\ server = "closed"
                              /\ received' = received + n
                              /\ Aio!End("socket", "none", n)
  BY DEF Aio!SocketEnds
<1>2. /\ UNCHANGED <<nodes, offset, finished, screen, sent, server, newlines, lines,
                     lines_on_screen, aio_nbytes, missed>>
      /\ place' # "done" /\ error["socket"] = "progress"
      /\ error' = [error EXCEPT !["socket"] = "none"]
      /\ result' = [result EXCEPT !["socket"] = n]
  BY <1>1 DEF Aio!SocketEnds, Aio!End, Aio!Over, Aio!network, Aio!queuebuffer
<1>3. /\ AioTypes /\ lines_on_screen \in Nat /\ lines \in Nat /\ screen \in Seq(Int)
      /\ finished \in BOOLEAN /\ received \in Nat /\ sent \in Nat
      /\ n \in Nat /\ n \in Int
  BY ViewersAssumption DEF AioOrder, AioTypes, ServerInv
<1>4. /\ error'["socket"] = "none" /\ error'["stdout"] = error["stdout"]
      /\ result'["socket"] = n /\ result'["stdout"] = result["stdout"]
  BY <1>2, <1>3, ThreeRequests DEF AioTypes
<1>5. /\ ~Aio!Answered("socket") /\ Aio!Arrived = 0 /\ Aio!Answered("socket")'
      /\ Aio!Arrived' = n
      /\ Aio!Answered("stdout")' <=> Aio!Answered("stdout")
      /\ Aio!Written' = Aio!Written
  BY <1>2, <1>4 DEF AioOrder, SocketInv, Aio!Answered, Aio!Written, Aio!Arrived
<1>6. Aio!Line' = Aio!Line
  BY <1>2, LineIs
<1>7. AioTypes'
  <2>1. /\ error' \in {error, [error EXCEPT !["socket"] = "none"]}
        /\ aio_nbytes' \in {aio_nbytes, [aio_nbytes EXCEPT !["socket"] = 0]}
        /\ result' \in {result, [result EXCEPT !["socket"] = n]}
        /\ finished' \in BOOLEAN /\ screen' \in Seq(Int) /\ lines' \in Nat
        /\ lines_on_screen' \in Nat
        /\ 0 \in Nat /\ "none" \in {"none", "progress", "error"}
    BY <1>2, <1>3
  <2> QED
    BY <1>3, <2>1, TypesKept, ThreeRequests
<1>8. Queue(nodes, offset, Len(screen) - Aio!Written, received - Aio!Arrived)'
  <2>1. received' - Aio!Arrived' = received - Aio!Arrived
    BY <1>1, <1>3, <1>5
  <2> QED
    BY <1>2, <1>5, <2>1 DEF AioOrder
<1>9. StdoutInv'
  BY <1>2, <1>4, <1>5, <1>6 DEF AioOrder, StdoutInv
<1>10. SocketInv'
  <2>1. result'["socket"] \in 0..received'
    BY <1>1, <1>3, <1>4
  <2>2. result'["socket"] = 0 => server' = "closed" /\ received' = sent'
    BY <1>1, <1>2, <1>3, <1>4
  <2>3. finished' => server' = "closed" /\ received' = sent' /\ Aio!Arrived' = 0
    <3>1. ASSUME finished' PROVE server = "closed" /\ received = sent
      BY <1>2, <3>1 DEF AioOrder, SocketInv
    <3>2. ASSUME finished' PROVE n = 0
      BY <1>1, <1>3, <3>1, <3>2
    <3> QED
      BY <1>1, <1>2, <1>3, <1>5, <3>1, <3>2
  <2> QED
    BY <1>2, <1>4, <2>1, <2>2, <2>3 DEF SocketInv
<1>11. Uncounted' <=> Uncounted
  BY <1>2, <1>4, <1>5, <1>6 DEF Uncounted
<1> QED
  BY <1>2, <1>7, <1>8, <1>9, <1>10, <1>11 DEF AioOrder, PageStep

-----------------------------------------------------------------------------
LEMMA AioOrderStep ==
  ASSUME AioOrder, ServerInv, Aio!Next, lost = 0, lost' = 0
  PROVE  AioOrder' /\ (missed' \/ PageStep)
<1>1. CASE Aio!stdin_read \/ Aio!StdinEnds \/ Aio!StdinCloses \/ Aio!check_stdin_read
  BY <1>1, StdinFits
<1>2. CASE Aio!stdout_write \/ Aio!socket_read
  BY <1>2, AskStdout, AskSocket
<1>3. CASE Aio!check_stdout_write \/ Aio!check_socket_read
  BY <1>3, CheckStdout, CheckSocket
<1>4. CASE Aio!aio_suspend \/ Aio!GiveUp \/ Aio!Interrupt
  <2>1. UNCHANGED <<nodes, offset, finished, screen, received, sent, server, newlines, lines,
                    lines_on_screen, error, aio_nbytes, result, missed>>
    BY <1>4 DEF Aio!aio_suspend, Aio!GiveUp, Aio!Interrupt, Aio!network, Aio!io,
           Aio!terminal, Aio!queuebuffer, Aio!requests
  <2>2. place' # "done"
    BY <1>4 DEF Aio!aio_suspend, Aio!GiveUp, Aio!Interrupt, Aio!Goto, Aio!Over
  <2> QED
    BY <2>1, <2>2, StillFits
<1>5. CASE Aio!StdoutEnds \/ Aio!SocketEnds
  BY <1>5, StdoutFits, SocketFits
<1>6. CASE \E r \in Aio!Requests : Aio!RequestFails(r)
  BY <1>6, FailsFits
<1> QED
  BY <1>1, <1>2, <1>3, <1>4, <1>5, <1>6 DEF Aio!Next, Aio!load_content_from_server

(* What holds whatever has been lost. *)
LEMMA AioAlwaysStep ==
  ASSUME AioAlways, ServerInv, Aio!Next
  PROVE  AioAlways' /\ ServerInv' /\ (AioExcused => AioExcused')
<1>1. lost' \in Nat /\ (lost # 0 => lost' # 0)
  <2>1. lost' = lost \/ lost' = lost + 1
    BY DEF Aio!Next, Aio!load_content_from_server, Aio!stdin_read, Aio!stdout_write,
           Aio!socket_read, Aio!aio_suspend, Aio!check_stdin_read, Aio!check_stdout_write,
           Aio!check_socket_read, Aio!TakeBytes, Aio!GiveUp, Aio!Ask, Aio!NoAsk,
           Aio!StdinEnds, Aio!StdinCloses, Aio!StdoutEnds, Aio!SocketEnds,
           Aio!RequestFails, Aio!End, Aio!Interrupt
  <2> QED
    BY <2>1 DEF AioAlways
<1>2. lines_on_screen' \in Nat /\ missed' \in BOOLEAN /\ (missed => missed')
  <2>1. CASE Aio!check_stdin_read
    <3>1. (lines_on_screen' = 0 \/ lines_on_screen' = lines_on_screen) /\ missed' = missed
      BY <2>1 DEF Aio!check_stdin_read, Aio!TurnPage
    <3> QED
      BY <3>1 DEF AioAlways
  <2>2. CASE Aio!check_stdout_write
    <3>1. CASE Aio!Answered("stdout")
      <4>1. PICK n, whole, newline : Aio!Counts(n, whole, newline)
        BY <2>2, <3>1 DEF Aio!check_stdout_write
      <4>2. missed' \in BOOLEAN /\ (missed => missed')
        BY <4>1 DEF Aio!Counts, AioAlways
      <4>3. lines_on_screen' = lines_on_screen + 1 \/ lines_on_screen' = lines_on_screen
        BY <4>1 DEF Aio!Counts
      <4> QED
        BY <4>2, <4>3 DEF AioAlways
    <3>2. CASE ~Aio!Answered("stdout")
      BY <2>2, <3>2 DEF Aio!check_stdout_write, AioAlways
    <3> QED
      BY <3>1, <3>2
  <2>3. CASE ~(Aio!check_stdin_read \/ Aio!check_stdout_write)
    <3>1. UNCHANGED <<lines_on_screen, missed>>
      BY <2>3 DEF Aio!Next, Aio!load_content_from_server, Aio!stdin_read, Aio!stdout_write,
           Aio!socket_read, Aio!aio_suspend, Aio!check_socket_read, Aio!GiveUp,
           Aio!StdinEnds, Aio!StdinCloses, Aio!StdoutEnds, Aio!SocketEnds,
           Aio!RequestFails, Aio!End, Aio!Interrupt, Aio!terminal
    <3> QED
      BY <3>1 DEF AioAlways
  <2> QED
    BY <2>1, <2>2, <2>3
<1>3. ServerInv'
  <2>1. CASE Aio!SocketEnds
    <3>1. PICK n \in 0..AioSize : n <= sent - received /\ received' = received + n
      BY <2>1 DEF Aio!SocketEnds
    <3>2. UNCHANGED <<sent, newlines>>
      BY <2>1 DEF Aio!SocketEnds, Aio!End, Aio!network
    <3>3. n \in Nat
      BY ViewersAssumption
    <3> QED
      BY <3>1, <3>2, <3>3 DEF ServerInv
  <2>2. CASE ~Aio!SocketEnds
    <3>1. UNCHANGED <<sent, received, newlines>>
      BY <2>2 DEF Aio!Next, Aio!load_content_from_server, Aio!stdin_read, Aio!stdout_write,
           Aio!socket_read, Aio!aio_suspend, Aio!check_stdin_read, Aio!check_stdout_write,
           Aio!check_socket_read, Aio!GiveUp, Aio!StdinEnds, Aio!StdinCloses,
           Aio!StdoutEnds, Aio!RequestFails, Aio!End, Aio!Interrupt, Aio!network, Aio!io
    <3> QED
      BY <3>1 DEF ServerInv
  <2> QED
    BY <2>1, <2>2
<1>4. error' \in [Aio!Requests -> {"none", "progress", "error"}]
  <2>1. \E r \in Aio!Requests : \E c \in {"none", "progress", "error"} :
           error' \in {error, [error EXCEPT ![r] = c]}
    BY ThreeRequests
       DEF Aio!Next, Aio!load_content_from_server, Aio!stdin_read, Aio!stdout_write,
           Aio!socket_read, Aio!aio_suspend, Aio!check_stdin_read, Aio!check_stdout_write,
           Aio!check_socket_read, Aio!GiveUp, Aio!Ask, Aio!NoAsk, Aio!requests,
           Aio!StdinEnds, Aio!StdinCloses, Aio!StdoutEnds, Aio!SocketEnds,
           Aio!RequestFails, Aio!End, Aio!Interrupt
  <2> QED
    BY <2>1 DEF AioAlways
<1> QED
  BY <1>1, <1>2, <1>3, <1>4 DEF AioAlways, AioExcused

(* The terminal *)
LEMMA TerminalStep ==
  ASSUME AioAlways, TerminalInv, Aio!Next
  PROVE  TerminalInv'
<1>1. CASE Aio!stdin_read
  <2>1. CASE Aio!Full /\ Aio!CanAsk("stdin")
    <3>1. raw' = TRUE /\ Aio!Full' /\ "stdin" \in rw_in_progress'
      BY <1>1, <2>1 DEF Aio!stdin_read, Aio!Ask, Aio!Full
    <3> QED
      BY <3>1 DEF TerminalInv
  <2>2. CASE ~(Aio!Full /\ Aio!CanAsk("stdin"))
    <3>1. UNCHANGED <<raw, error, rw_in_progress, lines_on_screen>>
      BY <1>1, <2>2 DEF Aio!stdin_read, Aio!NoAsk
    <3>2. Aio!Full => raw
      BY <2>2 DEF TerminalInv, Aio!CanAsk
    <3> QED
      BY <3>1, <3>2 DEF TerminalInv, Aio!Full
  <2> QED
    BY <2>1, <2>2
<1>2. CASE Aio!stdout_write \/ Aio!socket_read
  <2>1. /\ UNCHANGED <<raw, lines_on_screen>> /\ rw_in_progress \subseteq rw_in_progress'
        /\ place \in {"stdout_write", "socket_read"}
    BY <1>2 DEF Aio!stdout_write, Aio!socket_read, Aio!Goto, Aio!terminal, Aio!Ask, Aio!NoAsk
  <2>2. error'["stdin"] = error["stdin"]
    <3>1. \/ error' = error
          \/ error' = [error EXCEPT !["stdout"] = "progress"]
          \/ error' = [error EXCEPT !["socket"] = "progress"]
      BY <1>2 DEF Aio!stdout_write, Aio!socket_read, Aio!Ask, Aio!NoAsk
    <3> QED
      BY <3>1, ThreeRequests DEF AioAlways
  <2> QED
    BY <2>1, <2>2 DEF TerminalInv, Aio!Full
<1>3. CASE Aio!check_stdin_read
  <2>1. error' = error /\ place' = "check_stdout"
    BY <1>3 DEF Aio!check_stdin_read, Aio!Goto
  <2>2. CASE Aio!Answered("stdin") /\ click = "space"
    <3>1. error["stdin"] = "none" /\ raw' = FALSE
      BY <1>3, <2>2 DEF Aio!check_stdin_read, Aio!TurnPage, Aio!Answered
    <3> QED
      BY <2>1, <3>1 DEF TerminalInv
  <2>3. CASE ~(Aio!Answered("stdin") /\ click = "space")
    <3>1. UNCHANGED <<raw, lines_on_screen, rw_in_progress>>
      BY <1>3, <2>3 DEF Aio!check_stdin_read
    <3> QED
      BY <2>1, <3>1 DEF TerminalInv, Aio!Full
  <2> QED
    BY <2>2, <2>3
<1>4. CASE Aio!check_stdout_write
  <2>1. /\ error' = error /\ place' = "check_socket" /\ raw' = raw
        /\ rw_in_progress \ {"stdout"} \subseteq rw_in_progress'
    BY <1>4 DEF Aio!check_stdout_write, Aio!Goto
  <2>2. lines_on_screen' = lines_on_screen \/ lines_on_screen' = lines_on_screen + 1
    BY <1>4 DEF Aio!check_stdout_write, Aio!Counts
  <2>3. Aio!Full => Aio!Full'
    BY <2>2, PagerAssumption DEF Aio!Full, AioAlways
  <2> QED
    BY <2>1, <2>3 DEF TerminalInv
<1>5. CASE Aio!check_socket_read
  <2>1. /\ UNCHANGED <<raw, lines_on_screen, error>>
        /\ rw_in_progress \ {"socket"} \subseteq rw_in_progress'
        /\ place' \in {"done", "stdin_read", "stopped"}
    BY <1>5 DEF Aio!check_socket_read, Aio!TakeBytes, Aio!terminal
  <2> QED
    BY <2>1 DEF TerminalInv, Aio!Full
<1>6. CASE Aio!aio_suspend \/ Aio!GiveUp \/ Aio!Interrupt
  <2>1. /\ UNCHANGED <<raw, lines_on_screen, error, rw_in_progress>>
        /\ place' = place \/ place' \in {"check_stdin", "stopped"}
    BY <1>6 DEF Aio!aio_suspend, Aio!GiveUp, Aio!Interrupt, Aio!Goto, Aio!terminal,
           Aio!requests
  <2> QED
    BY <2>1 DEF TerminalInv, Aio!Full
<1>7. CASE \/ Aio!StdinEnds \/ Aio!StdinCloses \/ Aio!StdoutEnds \/ Aio!SocketEnds
           \/ \E r \in Aio!Requests : Aio!RequestFails(r)
  <2>1. PICK r \in Aio!Requests, c \in {"none", "error"} : \E n : Aio!End(r, c, n)
    BY <1>7, ThreeRequests
       DEF Aio!StdinEnds, Aio!StdinCloses, Aio!StdoutEnds, Aio!SocketEnds, Aio!RequestFails
  <2>2. /\ UNCHANGED <<raw, lines_on_screen, rw_in_progress, place>>
        /\ error[r] = "progress" /\ error' = [error EXCEPT ![r] = c]
    BY <2>1 DEF Aio!End
  <2>3. error'["stdin"] # "none" => error["stdin"] # "none"
    BY <2>2, ThreeRequests DEF AioAlways
  <2> QED
    BY <2>2, <2>3 DEF TerminalInv, Aio!Full
<1> QED
  BY <1>1, <1>2, <1>3, <1>4, <1>5, <1>6, <1>7 DEF Aio!Next, Aio!load_content_from_server

LEMMA AioStep == AioInv /\ ServerInv /\ Aio!Next => AioShown
<1> SUFFICES ASSUME AioInv, ServerInv, Aio!Next PROVE AioShown
  OBVIOUS
<1>1. AioAlways' /\ ServerInv' /\ (AioExcused => AioExcused') /\ TerminalInv'
  BY AioAlwaysStep, TerminalStep DEF AioInv
<1>2. lost # 0 => lost' # 0
  <2>1. lost' = lost \/ lost' = lost + 1
    BY DEF Aio!Next, Aio!load_content_from_server, Aio!stdin_read, Aio!stdout_write,
           Aio!socket_read, Aio!aio_suspend, Aio!check_stdin_read, Aio!check_stdout_write,
           Aio!check_socket_read, Aio!TakeBytes, Aio!GiveUp, Aio!Ask, Aio!NoAsk,
           Aio!StdinEnds, Aio!StdinCloses, Aio!StdoutEnds, Aio!SocketEnds,
           Aio!RequestFails, Aio!End, Aio!Interrupt
  <2> QED
    BY <2>1 DEF AioInv, AioAlways
<1>3. CASE lost' # 0
  BY <1>1, <1>3 DEF AioInv, AioShown, AioExcused
<1>4. CASE lost' = 0
  <2>1. lost = 0 /\ AioOrder
    BY <1>2, <1>4 DEF AioInv
  <2>2. AioOrder' /\ (missed' \/ PageStep)
    BY <1>4, <2>1, AioOrderStep
  <2> QED
    BY <1>1, <2>2 DEF AioInv, AioShown, AioExcused
<1> QED
  BY <1>3, <1>4

(* No more is shown than was read. *)
LEMMA NoMoreThanRead ==
  ASSUME AioOrder, ServerInv
  PROVE  Len(screen) <= received
<1> DEFINE c == Len(screen) - Aio!Written
           t == received - Aio!Arrived
<1>1. /\ AioTypes /\ c \in Int /\ t \in Int /\ Queue(nodes, offset, c, t)
      /\ Len(screen) \in Nat /\ received \in Nat /\ Aio!Written \in Int
      /\ Aio!Arrived \in Int
  BY AioNumbers DEF AioOrder
<1>2. t <= received
  BY <1>1 DEF AioOrder, SocketInv, Aio!Arrived
<1>3. CASE Aio!Answered("stdout")
  <2>1. nodes # <<>> /\ Aio!Written \in 1..Len(Aio!Line)
    BY <1>3 DEF AioOrder, StdoutInv, Aio!Answered, Aio!Written
  <2>2. c + Len(Aio!Line) <= t /\ Len(Aio!Line) \in Nat
    <3> HIDE DEF c, t
    <3> QED
      BY <1>1, <2>1, LineInQueue
  <2> QED
    BY <1>1, <1>2, <2>1, <2>2
<1>4. CASE ~Aio!Answered("stdout")
  <2>1. Aio!Written = 0 /\ c = Len(screen)
    BY <1>1, <1>4 DEF Aio!Written
  <2>2. c <= t
    <3>1. CASE nodes = <<>>
      BY <1>1, <3>1 DEF Queue
    <3>2. CASE nodes # <<>>
      <4> HIDE DEF c, t
      <4>1. c + Len(Aio!Line) <= t /\ Len(Aio!Line) \in Nat
        BY <1>1, <3>2, LineInQueue
      <4> QED
        BY <1>1, <4>1
    <3> QED
      BY <3>1, <3>2
  <2> QED
    BY <1>1, <1>2, <2>1, <2>2
<1> QED
  BY <1>3, <1>4

LEMMA AioServed ==
  ASSUME AioInv, ServerInv, Server \/ \E key \in Keys : Type(key),
         UNCHANGED <<lines_on_screen, aio>>
  PROVE  AioShown
<1>1. /\ UNCHANGED <<received, screen, lines, lines_on_screen, nodes, offset, finished, raw,
                     error, aio_nbytes, result, lost, missed, place, rw_in_progress>>
      /\ ServerInv' /\ (server = "closed" => server' = "closed" /\ sent' = sent)
      /\ \/ newlines' = newlines
         \/ sent + 1 \in 1..Total /\ newlines' = newlines \cup {sent + 1}
  BY ServerActs DEF aio
<1>2. AioAlways' /\ TerminalInv' /\ (AioExcused' <=> AioExcused)
  BY <1>1 DEF AioInv, AioAlways, TerminalInv, Aio!Full, AioExcused
<1>3. CASE lost # 0
  BY <1>1, <1>2, <1>3 DEF AioInv, AioShown, AioExcused
<1>4. CASE lost = 0
  <2>1. AioOrder /\ AioTypes /\ received \in Nat /\ sent \in Nat /\ received <= sent
    BY <1>4 DEF AioInv, AioOrder, ServerInv
  <2> DEFINE c == Len(screen) - Aio!Written
             t == received - Aio!Arrived
  <2>2. Aio!Written' = Aio!Written /\ Aio!Arrived' = Aio!Arrived
        /\ (Aio!Answered("stdout")' <=> Aio!Answered("stdout"))
        /\ (Aio!Answered("socket")' <=> Aio!Answered("socket"))
    BY <1>1 DEF Aio!Written, Aio!Arrived, Aio!Answered
  <2>3. c \in Int /\ t \in Int /\ Queue(nodes, offset, c, t) /\ t <= received
        /\ Aio!Written >= 0 /\ Len(screen) \in Nat
    <3>1. Aio!Arrived >= 0 /\ Aio!Arrived \in Int
      BY <2>1, AioNumbers DEF AioOrder, SocketInv, Aio!Arrived
    <3>2. Aio!Written >= 0
      <4>1. Aio!Answered("stdout") => result["stdout"] \in 1..aio_nbytes["stdout"]
        BY <2>1 DEF AioOrder, StdoutInv
      <4>2. aio_nbytes["stdout"] \in Nat
        BY <2>1, ThreeRequests DEF AioTypes
      <4> QED
        BY <4>1, <4>2 DEF Aio!Written
    <3> QED
      BY <2>1, <3>1, <3>2, AioNumbers DEF AioOrder
  <2>4. nodes # <<>> => Aio!Line' = Aio!Line
    <3>1. SUFFICES ASSUME nodes # <<>> PROVE Aio!Line' = Aio!Line
      OBVIOUS
    <3> DEFINE ns == nodes
               off == offset
    <3>2. /\ \A k \in 1..(Len(ns[1]) - off) : ns[1][off + k] = c + k
          /\ c + (Len(ns[1]) - off) <= t /\ Len(ns[1]) \in Nat /\ off \in Nat
      <4>1. Queue(ns, off, c, t) /\ ns # <<>> /\ c \in Int /\ t \in Int
        BY <2>3, <3>1
      <4> HIDE DEF ns, off, c, t
      <4> QED
        BY <4>1, QueueFirst
    <3> HIDE DEF ns, off, c, t
    <3>3. \A k \in 1..(Len(ns[1]) - off) : c + k # sent + 1
      BY <2>1, <2>3, <3>2
    <3>4. \A k \in 1..(Len(ns[1]) - off) : ns[1][off + k] \in newlines' <=> ns[1][off + k] \in newlines
      BY <1>1, <3>2, <3>3
    <3>5. LineOf(ns[1], off, newlines') = LineOf(ns[1], off, newlines)
      BY <3>4, LineStays
    <3> QED
      BY <1>1, <3>5, LineIs DEF ns, off
  <2>5. StdoutInv'
    BY <1>1, <2>1, <2>2, <2>4 DEF AioOrder, StdoutInv
  <2>6. SocketInv'
    BY <1>1, <2>1, <2>2 DEF AioOrder, SocketInv
  <2>7. Uncounted => Uncounted'
    <3>1. SUFFICES ASSUME Uncounted PROVE Uncounted'
      OBVIOUS
    <3>2. nodes # <<>>
      BY <2>1, <3>1 DEF AioOrder, StdoutInv, Uncounted, Aio!Answered
    <3>3. newlines \subseteq newlines'
      BY <1>1
    <3> QED
      BY <1>1, <2>2, <2>4, <3>1, <3>2, <3>3 DEF Uncounted
  <2>8. AioTypes'
    BY <1>1, <2>1 DEF AioTypes
  <2>9. Queue(nodes, offset, Len(screen) - Aio!Written, received - Aio!Arrived)'
    BY <1>1, <2>1, <2>2 DEF AioOrder
  <2>10. AioOrder'
    BY <1>1, <2>1, <2>5, <2>6, <2>7, <2>8, <2>9 DEF AioOrder
  <2>11. PageStep
    <3>1. CASE newlines' = newlines
      BY <1>1, <3>1 DEF PageStep
    <3>2. CASE sent + 1 \in 1..Total /\ newlines' = newlines \cup {sent + 1}
      <4>1. Len(screen) <= received
        BY <2>1, NoMoreThanRead
      <4> QED
        BY <1>1, <2>1, <2>3, <3>2, <4>1 DEF PageStep
    <3> QED
      BY <1>1, <3>1, <3>2
  <2> QED
    BY <1>1, <1>2, <2>10, <2>11 DEF AioInv, AioShown
<1> QED
  BY <1>3, <1>4
-----------------------------------------------------------------------------
(* The three together: each keeps its own invariant while it runs, and      *)
(* leaves the variables of the others as they were at the start.            *)
ViewInv ==
    /\ program \in {"lab26", "lab27", "lab28"} /\ ServerInv /\ gone \in BOOLEAN
    /\ program = "lab26" => SelectInv
    /\ program = "lab27" => AioInv
    /\ program = "lab28" => ThreadsInv /\ LinesInv /\ ThreadsEnd
    /\ program # "lab28" => reader = "start"

(* What is promised no more. *)
Free == CASE program = "lab26" -> gone
          [] program = "lab27" -> AioExcused
          [] OTHER -> cancelled \/ Threads!Stale

ViewShown == ViewInv' /\ (Free' \/ PageStep) /\ (Free => Free')

LEMMA ViewInitially == Init => ViewInv /\ ~Free
<1> SUFFICES ASSUME Init PROVE ViewInv /\ ~Free
  OBVIOUS
<1>1. /\ WorldInit /\ Select!Init /\ Threads!Init /\ Aio!Init
      /\ program \in {"lab26", "lab27", "lab28"}
  BY ViewersAssumption DEF Init
<1>2. ServerInv /\ SelectInv /\ ThreadsInv /\ LinesInv /\ ThreadsEnd /\ AioInv
  BY <1>1, ServerInitially, SelectInitially, ThreadsInitially, EndInitially, AioInitially
<1>3. reader = "start" /\ gone = FALSE /\ lost = 0 /\ missed = FALSE /\ cancelled = FALSE
  BY <1>1 DEF Threads!Init, Select!Init, Aio!Init
<1>4. Len(screen) = 0 /\ received = 0
  BY <1>1 DEF WorldInit
<1>5. ViewInv
  <2>1. gone \in BOOLEAN
    BY <1>3
  <2> QED
    BY <1>1, <1>2, <1>3, <2>1 DEF ViewInv
<1>6. ~Free
  <2>1. ~Threads!Stale
    BY <1>4 DEF Threads!Stale
  <2>2. ~AioExcused /\ ~gone /\ ~cancelled
    BY <1>3 DEF AioExcused
  <2> QED
    BY <1>1, <2>1, <2>2 DEF Free
<1> QED
  BY <1>5, <1>6

LEMMA GoneStays ==
  ASSUME Select!Next, gone \in BOOLEAN
  PROVE  gone' \in BOOLEAN
BY DEF Select!Next, Select!load_content_from_server, Select!update_select,
       Select!listen_stdin, Select!listen_stdout, Select!listen_socket, Select!SelectFails,
       Select!WriteFails, Select!ReadFails, Select!Interrupt

LEMMA ViewMoves ==
  ASSUME ViewInv, \/ Lab26(Select!Next) \/ Lab27(Aio!Next) \/ Lab28(Threads!Next)
  PROVE  ViewShown
<1>1. CASE Lab26(Select!Next)
  <2>1. /\ program = "lab26" /\ program' = "lab26" /\ Select!Next
        /\ reader' = reader
    BY <1>1 DEF Lab26, threads, aio
  <2>2. SelectShown
    BY <2>1, SelectStep DEF ViewInv
  <2>3. gone' \in BOOLEAN
    BY <2>1, GoneStays DEF ViewInv
  <2> QED
    BY <2>1, <2>2, <2>3 DEF ViewInv, ViewShown, Free, SelectShown
<1>2. CASE Lab27(Aio!Next)
  <2>1. /\ program = "lab27" /\ program' = "lab27" /\ Aio!Next
        /\ reader' = reader /\ gone' = gone
    BY <1>2 DEF Lab27, threads, select
  <2>2. AioShown
    BY <2>1, AioStep DEF ViewInv
  <2> QED
    BY <2>1, <2>2 DEF ViewInv, ViewShown, Free, AioShown
<1>3. CASE Lab28(Threads!Next)
  <2>1. /\ program = "lab28" /\ program' = "lab28" /\ Threads!Next
        /\ gone' = gone
    BY <1>3 DEF Lab28, aio, select
  <2>2. ThreadsShown
    BY <2>1, ThreadsStep DEF ViewInv
  <2>3. ThreadsEnd'
    BY <2>1, EndStep DEF ViewInv
  <2> QED
    BY <2>1, <2>2, <2>3 DEF ViewInv, ViewShown, Free, ThreadsShown, Excused
<1> QED
  BY <1>1, <1>2, <1>3

LEMMA ViewServed ==
  ASSUME ViewInv, World(Server) \/ \E key \in Keys : Types(key)
  PROVE  ViewShown
<1>1. /\ Server \/ \E key \in Keys : Type(key)
      /\ UNCHANGED <<program, lines_on_screen, shared, select, threads, aio>>
  BY DEF World, Types
<1>2. program' = program /\ gone' = gone /\ reader' = reader
  BY <1>1 DEF select, threads, aio
<1>3. ServerInv'
  BY <1>1, ServerActs DEF ViewInv
<1>4. CASE program = "lab26"
  <2>1. SelectShown
    BY <1>1, <1>4, SelectServed DEF ViewInv
  <2> QED
    BY <1>2, <1>4, <2>1 DEF ViewInv, ViewShown, Free, SelectShown
<1>5. CASE program = "lab27"
  <2>1. AioShown
    BY <1>1, <1>5, AioServed DEF ViewInv
  <2> QED
    BY <1>2, <1>5, <2>1 DEF ViewInv, ViewShown, Free, AioShown
<1>6. CASE program = "lab28"
  <2>1. ThreadsShown
    BY <1>1, <1>6, ThreadsServed DEF ViewInv
  <2>2. ThreadsEnd'
    BY <1>1, <1>6, EndServed DEF ViewInv
  <2> QED
    BY <1>2, <1>6, <2>1, <2>2 DEF ViewInv, ViewShown, Free, ThreadsShown, Excused
<1> QED
  BY <1>4, <1>5, <1>6 DEF ViewInv

LEMMA ViewStep == ViewInv /\ [Next]_vars => ViewShown
<1> SUFFICES ASSUME ViewInv, [Next]_vars PROVE ViewShown
  OBVIOUS
<1>1. CASE \/ Lab26(Select!Next) \/ Lab27(Aio!Next) \/ Lab28(Threads!Next)
  BY <1>1, ViewMoves
<1>2. CASE World(Server) \/ \E key \in Keys : Types(key)
  BY <1>2, ViewServed
<1>3. CASE UNCHANGED vars
  <2> USE <1>3 DEF vars, world, network, io, shared, select, threads, aio
  <2>1. ServerInv'
    BY DEF ViewInv, ServerInv
  <2>2. PageStep
    BY DEF PageStep
  <2>3. program = "lab26" => SelectInv'
    BY DEF ViewInv, SelectInv, Holds
  <2>4. program = "lab28" => ThreadsInv' /\ LinesInv' /\ ThreadsEnd'
    <3>1. CASE program = "lab28"
      <4>1. Kept' = Kept /\ (Dry' <=> Dry) /\ (Reading' <=> Reading)
            /\ Threads!Stocked' = Threads!Stocked /\ Threads!Taken' = Threads!Taken
        BY DEF Kept, Dry, Reading, Threads!Stocked, Threads!Taken
      <4>2. Holds(Kept, buf, Threads!Taken, Threads!Stocked)'
              <=> Holds(Kept, buf, Threads!Taken, Threads!Stocked)
        BY <4>1 DEF Holds
      <4>3. ThreadsInv /\ LinesInv /\ ThreadsEnd
        BY <3>1 DEF ViewInv
      <4>5. ThreadsEnd'
        BY <4>3, EndStays DEF AllRead
      <4>4. ThreadsTypes'
        BY <4>3 DEF ThreadsInv, ThreadsTypes
      <4> QED
        BY <4>1, <4>2, <4>3, <4>4, <4>5 DEF ThreadsInv, LinesInv
    <3> QED
      BY <3>1
  <2>5. program = "lab27" => AioInv'
    <3>1. CASE program = "lab27"
      <4>1. AioAlways' /\ TerminalInv' /\ (lost = 0 => AioOrder)
        BY <3>1 DEF ViewInv, AioInv, AioAlways, TerminalInv, Aio!Full
      <4>2. ASSUME lost = 0 PROVE AioOrder'
        <5>1. AioOrder
          BY <4>1, <4>2
        <5>2. AioTypes'
          BY <5>1 DEF AioOrder, AioTypes
        <5>3. AioQuiet
          BY <5>1 DEF AioQuiet, Aio!Answered, AioOrder, SocketInv
        <5> QED
          BY <5>1, <5>2, <5>3, QuietFits
      <4> QED
        BY <4>1, <4>2 DEF AioInv
    <3> QED
      BY <3>1
  <2>6. Free' <=> Free
    BY DEF Free, Threads!Stale, AioExcused
  <2>7. /\ program' \in {"lab26", "lab27", "lab28"} /\ gone' \in BOOLEAN
        /\ program' # "lab28" => reader' = "start"
        /\ program' = program
    BY DEF ViewInv
  <2> QED
    BY <2>1, <2>2, <2>3, <2>4, <2>5, <2>6, <2>7 DEF ViewInv, ViewShown
<1> QED
  BY <1>1, <1>2, <1>3 DEF Next

(* The invariant of the viewers holds of every reachable state. *)
THEOREM Invariance == Spec => []ViewInv
<1>1. Init => ViewInv
  BY ViewInitially
<1>2. ViewInv /\ [Next]_vars => ViewInv'
  BY ViewStep DEF ViewShown
<1> QED
  BY <1>1, <1>2, PTL DEF Spec

-----------------------------------------------------------------------------
LEMMA OrderFollows == ViewInv => BytesInOrder
<1> SUFFICES ASSUME ViewInv PROVE BytesInOrder
  OBVIOUS
<1>1. CASE program = "lab26"
  <2>1. Select!RingInOrder
    BY <1>1, SelectRing DEF ViewInv, SelectInv, Holds, Select!RingInOrder
  <2> QED
    BY <1>1, <2>1 DEF BytesInOrder
<1>2. CASE program = "lab27"
  <2>1. SUFFICES ASSUME lost = 0 PROVE Aio!QueueInOrder
    BY <1>2 DEF BytesInOrder, Aio!QueueInOrder
  <2> DEFINE c == Len(screen) - Aio!Written
             t == received - Aio!Arrived
  <2>2. /\ screen \in Seq(Int) /\ \A k \in 1..Len(screen) : screen[k] = k
        /\ Queue(nodes, offset, c, t)
    BY <1>2, <2>1 DEF ViewInv, AioInv, AioOrder, AioTypes
  <2>3. DOMAIN screen = 1..Len(screen) /\ nodes \in Seq(Seq(Int))
    BY <2>2, LenProperties DEF Queue
  <2>4. \A i \in DOMAIN nodes : \A j \in DOMAIN nodes[i] : nodes[i][j] = nodes[i][1] + j - 1
    <3> TAKE i \in DOMAIN nodes
    <3>1. i \in 1..Len(nodes)
      BY <2>3, LenProperties
    <3>2. DOMAIN nodes[i] = 1..Len(nodes[i])
      BY <2>3, <3>1, NodeFits, LenProperties
    <3> QED
      BY <2>2, <3>1, <3>2 DEF Queue, Runs
  <2> HIDE DEF c, t
  <2>5. /\ \A i \in 1..(Len(nodes) - 1) : nodes[i + 1][1] = nodes[i][1] + Len(nodes[i])
        /\ IF nodes = <<>> THEN c = t
           ELSE /\ nodes[1][1] + offset = c + 1
                /\ nodes[Len(nodes)][1] + Len(nodes[Len(nodes)]) - 1 = t
    BY <2>2 DEF Queue, EndOf
  <2> QED
    BY <2>2, <2>3, <2>4, <2>5 DEF Aio!QueueInOrder, c, t
<1>3. CASE program = "lab28"
  <2>1. SUFFICES ASSUME ~sock_end, user # "wrap" PROVE Threads!RingInOrder
    BY <1>3 DEF BytesInOrder, Threads!RingInOrder
  <2>2. Kept = ring /\ ~Dry /\ ThreadsInv
    BY <1>3, <2>1 DEF Kept, Dry, ViewInv
  <2>3. Coherent(ring) /\ Holds(ring, buf, Threads!Taken, Threads!Stocked)
    BY <2>2 DEF ThreadsInv
  <2> QED
    BY <2>3, ThreadsRing DEF Holds, Threads!RingInOrder
<1> QED
  BY <1>1, <1>2, <1>3 DEF ViewInv

(* Between the socket and the screen the bytes of the page lie in order and *)
(* each once, in the ring of lab26 and lab28 with its four fields, and in   *)
(* the queue of lab27: whatever the sizes of the array, the page and the    *)
(* screen, however much each read() and write() takes, and however the      *)
(* threads of lab28 take turns.                                             *)
THEOREM RingsKeepOrder == Spec => []BytesInOrder
BY Invariance, OrderFollows, PTL

LEMMA ShownFollows == ViewInv => AllShown
<1> SUFFICES ASSUME ViewInv PROVE AllShown
  OBVIOUS
<1>1. CASE program = "lab26"
  <2>1. SUFFICES ASSUME pc = "done", ~gone PROVE server = "closed" /\ Len(screen) = sent
    BY <1>1 DEF AllShown, Select!AllShown
  <2>2. SelectInv /\ sock_end /\ ring.empty
    BY <1>1, <2>1 DEF ViewInv, SelectInv
  <2>3. Held(ring) = received - Len(screen) /\ Held(ring) = 0 /\ server = "closed"
        /\ received = sent /\ Len(screen) \in Int
    BY <2>1, <2>2, LenProperties DEF SelectInv, Holds, Held
  <2> QED
    BY <2>3 DEF ViewInv, ServerInv
<1>2. CASE program = "lab27"
  <2>1. SUFFICES ASSUME place = "done", lost = 0
                 PROVE  server = "closed" /\ Len(screen) = sent
    BY <1>2 DEF AllShown, Aio!AllShown
  <2>2. AioOrder
    BY <1>2, <2>1 DEF ViewInv, AioInv
  <2>3. nodes = <<>> /\ finished /\ server = "closed" /\ received = sent /\ Aio!Arrived = 0
    BY <2>1, <2>2 DEF AioOrder, SocketInv
  <2>4. Aio!Written = 0
    BY <2>2, <2>3 DEF AioOrder, StdoutInv, Aio!Written, Aio!Answered
  <2>5. Len(screen) - 0 = received - 0
    BY <2>2, <2>3, <2>4 DEF AioOrder, Queue
  <2>6. Len(screen) \in Nat /\ received \in Nat
    BY <2>2, AioNumbers DEF AioOrder, ViewInv
  <2> QED
    BY <2>3, <2>5, <2>6
<1>3. CASE program = "lab28"
  BY <1>3, EndShows DEF ViewInv, AllShown
<1> QED
  BY <1>1, <1>2, <1>3 DEF ViewInv

(* A viewer that ends by itself has shown the whole page, in order: lab26   *)
(* always, lab27 unless the result of a request was lost, lab28 unless a    *)
(* read of no bytes was taken for the end of the page, and in lab28 stale   *)
(* bytes may follow the last one, at most as many as the array has.         *)
THEOREM WholePageShown == Spec => []AllShown
BY Invariance, ShownFollows, PTL

LEMMA DisjointFollows == ViewInv => Disjoint
<1> SUFFICES ASSUME ViewInv, reader = "read", user = "write"
             PROVE  (ring.up..(ring.up + room - 1)) \cap (ring.down..(ring.down + page - 1)) = {}
  BY DEF Disjoint, Threads!Disjoint
<1>1. ThreadsInv /\ Kept = ring /\ ~sock_end /\ ~Dry /\ ring \in Buffers
  BY DEF ViewInv, ThreadsInv, ThreadsTypes, Kept, Dry
<1>2. /\ ~ring.empty /\ Coherent(ring) /\ page \in 1..PageRoom(ring)
      /\ room <= BUF_SIZE - Held(ring) /\ ring.up + room <= BUF_SIZE
      /\ room \in Int /\ page \in Int
  BY <1>1 DEF ThreadsInv, ThreadsTypes
<1>3. ring.up \in Offsets /\ ring.down \in Offsets
  BY <1>1 DEF Buffers
<1> DEFINE up == ring.up
           down == ring.down
<1>4. up \in Nat /\ down \in Nat /\ BUF_SIZE \in Nat /\ up < BUF_SIZE /\ down < BUF_SIZE
  BY <1>3, BufferAssumption DEF Offsets
<1>5. CASE down < up
  <2>1. page <= up - down
    BY <1>2, <1>4, <1>5 DEF PageRoom
  <2> HIDE DEF up, down
  <2>2. (up..(up + room - 1)) \cap (down..(down + page - 1)) = {}
    BY <1>2, <1>4, <2>1
  <2> QED
    BY <2>2 DEF up, down
<1>6. CASE ~(down < up)
  <2>1. Held(ring) = BUF_SIZE - down + up
    BY <1>2, <1>6 DEF Held
  <2>2. room <= down - up
    BY <1>2, <1>4, <2>1
  <2> HIDE DEF up, down
  <2>3. (up..(up + room - 1)) \cap (down..(down + page - 1)) = {}
    BY <1>2, <1>4, <2>2
  <2> QED
    BY <2>3 DEF up, down
<1> QED
  BY <1>5, <1>6

(* lab28: read() and write(), made without the mutex, never touch the same  *)
(* place of the array.                                                      *)
THEOREM ReadAndWriteApart == Spec => []Disjoint
BY Invariance, DisjointFollows, PTL

LEMMA TerminalFollows == ViewInv => TerminalFollowsScreen
BY DEF ViewInv, AioInv, TerminalInv, TerminalFollowsScreen, Aio!TerminalFollowsScreen

(* lab27: while its loop runs the terminal is only switched over with a     *)
(* full screen and a key among what is waited for, and the program never    *)
(* waits in front of a full screen without having switched it over.         *)
THEOREM TerminalKeepsUp == Spec => []TerminalFollowsScreen
BY Invariance, TerminalFollows, PTL

-----------------------------------------------------------------------------

LEMMA PageInitially == Init => Page!Init
<1> SUFFICES ASSUME Init PROVE Page!Init
  OBVIOUS
<1>1. newlines \in SUBSET {0} /\ screen = <<>> /\ lines = 0 /\ received = 0
  BY DEF Init, WorldInit
<1>2. gone = FALSE /\ lost = 0 /\ missed = FALSE /\ cancelled = FALSE
  BY DEF Init, Threads!Init, Select!Init, Aio!Init
<1>3. ~Threads!Stale
  BY <1>1 DEF Threads!Stale
<1> QED
  BY <1>1, <1>2, <1>3 DEF Page!Init

LEMMA PageSteps == ViewInv /\ ViewInv' /\ (Free' \/ PageStep) /\ (Free => Free')
                     => [Page!Next]_Page!pagerVars
<1> SUFFICES ASSUME ViewInv, ViewInv', Free' \/ PageStep, Free => Free'
             PROVE  [Page!Next]_Page!pagerVars
  OBVIOUS
<1> DEFINE excused == CASE program = "lab26" -> gone
                        [] program = "lab27" -> lost > 0 \/ missed
                        [] OTHER -> cancelled \/ Threads!Stale
<1>1. (excused <=> Free) /\ excused \in BOOLEAN /\ (excused' <=> Free') /\ excused' \in BOOLEAN
  <2>1. /\ program \in {"lab26", "lab27", "lab28"} /\ gone \in BOOLEAN
        /\ program' \in {"lab26", "lab27", "lab28"} /\ gone' \in BOOLEAN
    BY DEF ViewInv
  <2>2. (excused <=> Free) /\ excused \in BOOLEAN
    <3>1. CASE program = "lab26"
      BY <2>1, <3>1 DEF Free
    <3>2. CASE program = "lab27"
      BY <3>2 DEF Free, ViewInv, AioInv, AioAlways, AioExcused
    <3>3. CASE program = "lab28"
      BY <3>3 DEF Free
    <3> QED
      BY <2>1, <3>1, <3>2, <3>3
  <2>3. (excused' <=> Free') /\ excused' \in BOOLEAN
    <3>1. CASE program' = "lab26"
      BY <2>1, <3>1 DEF Free
    <3>2. CASE program' = "lab27"
      BY <3>2 DEF Free, ViewInv, AioInv, AioAlways, AioExcused
    <3>3. CASE program' = "lab28"
      BY <3>3 DEF Free
    <3> QED
      BY <2>1, <3>1, <3>2, <3>3
  <2> QED
    BY <2>2, <2>3
<1>2. CASE Free'
  <2>1. excused' = TRUE
    BY <1>1, <1>2
  <2>2. Page!Excuse
    BY <2>1 DEF Page!Excuse
  <2> QED
    BY <2>2 DEF Page!Next
<1>3. CASE ~Free' /\ PageStep
  <2>1. excused' = excused
    BY <1>1, <1>3
  <2>2. CASE UNCHANGED <<newlines, screen, lines>>
    BY <2>1, <2>2 DEF Page!pagerVars
  <2>3. CASE \E k \in 1..Total : /\ k > Len(screen) /\ newlines' = newlines \cup {k}
                                 /\ UNCHANGED <<screen, lines>>
    <3>1. \E k \in 1..Total : Page!Send(k)
      BY <2>1, <2>3 DEF Page!Send
    <3> QED
      BY <3>1 DEF Page!Next
  <2>4. CASE \E n \in 1..Total : Shows(n)
    <3>1. \E n \in 1..Total : Page!Show(n)
      BY <2>1, <2>4 DEF Page!Show, Shows
    <3> QED
      BY <3>1 DEF Page!Next
  <2>5. CASE lines' = 0 /\ UNCHANGED <<newlines, screen>>
    <3>1. Page!Press
      BY <2>1, <2>5 DEF Page!Press
    <3> QED
      BY <3>1 DEF Page!Next
  <2> QED
    BY <1>3, <2>2, <2>3, <2>4, <2>5 DEF PageStep
<1> QED
  BY <1>2, <1>3

(* Each viewer does what Pager describes: the bytes of the page appear on   *)
(* the screen in order and each once, at most a line at a time and a        *)
(* screenful between two presses of SPACE.  Nothing is promised any more    *)
(* once lab26 has lost its server, lab27 has lost a result or left a line   *)
(* uncounted whose last byte it read in freed memory, and lab28 has         *)
(* cancelled its threads or has shown bytes it had not received.            *)
THEOREM ViewersShowThePage == Spec => ShowsThePage
<1>1. Init => Page!Init
  BY PageInitially
<1>2. ViewInv /\ ViewInv' /\ [Next]_vars => [Page!Next]_Page!pagerVars
  BY ViewStep, PageSteps DEF ViewShown
<1> QED
  BY <1>1, <1>2, Invariance, PTL DEF Spec, ShowsThePage, Page!Spec
=============================================================================
