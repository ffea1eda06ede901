------------------------------ MODULE UnitProofs ------------------------------
(***************************************************************************)
(* Lemmas about byte streams cut into units.  A message read so far is some*)
(* whole units and a rest shorter than one (CutInto), and what an engine   *)
(* keeps of it is determined by that: RawAt for the raw ciphers, WordAt for*)
(* the word-oriented one, GcmAt for GCM, PaddedState and FlowState for the *)
(* block modes.  Each is kept by a chunk of any length, and what an engine *)
(* makes of it in the end is what the one-shot form computes of the whole. *)
(* And about the CRC: division of polynomials is linear and steady         *)
(* (DividesDiff, DividesSteady), and a register holds what division leaves *)
(* of the message (CrcAt), from its first value (CrcBegins) over every octet*)
(* (CrcFed) to the end (CrcCloses, ReflectedIs).                           *)
(***************************************************************************)
EXTENDS ByteStreams, BlockModes, CyclicChecks, WellFoundedInduction, TLAPS

\* The order of the natural numbers, in which no set but the empty one is
\* without a least element: induction, with sets in the place of predicates.
LessThan == {p \in Nat \X Nat : p[1] < p[2]}

LEMMA Induction ==
  ASSUME NEW S \in SUBSET Nat, 0 \in S, \A n \in S : n + 1 \in S
  PROVE  \A n \in Nat : n \in S
<1>1. IsWellFoundedOn(LessThan, Nat)
  <2>1. LessThan = OpToRel(<, Nat)
    BY DEF LessThan, OpToRel
  <2> QED BY <2>1, NatLessThanWellFounded
<1> SUFFICES ASSUME Nat \ S # {}  PROVE FALSE
  OBVIOUS
<1> DEFINE T == Nat \ S
<1>2. T \subseteq Nat /\ T # {}
  OBVIOUS
<1> HIDE DEF T
<1>3. PICK n \in T : \A m \in T : <<m, n>> \notin LessThan
  BY <1>1, <1>2, WFMin
<1>4. n \in Nat /\ n \notin S /\ n # 0
  BY <1>2 DEF T
<1>5. n - 1 \in S
  <2>1. n - 1 \in Nat /\ n - 1 < n
    BY <1>4
  <2>2. <<n - 1, n>> \in LessThan
    BY <2>1, <1>4 DEF LessThan
  <2> QED BY <2>1, <2>2, <1>3 DEF T
<1>6. n - 1 + 1 \in S
  BY <1>5
<1> QED BY <1>4, <1>6

\* Up to a number only.
LEMMA Climbing ==
  ASSUME NEW n \in Nat, NEW S, 0 \in S, \A i \in 1 .. n : i - 1 \in S => i \in S
  PROVE  \A i \in 0 .. n : i \in S
<1> DEFINE T == {i \in Nat : i <= n => i \in S}
<1>1. 0 \in T
  OBVIOUS
<1>2. \A i \in T : i + 1 \in T
  <2> SUFFICES ASSUME NEW i \in T, i + 1 <= n  PROVE i + 1 \in S
    OBVIOUS
  <2>1. i \in Nat /\ i \in S /\ i + 1 \in 1 .. n /\ (i + 1) - 1 = i
    OBVIOUS
  <2> QED BY <2>1
<1>3. T \in SUBSET Nat
  OBVIOUS
<1> HIDE DEF T
<1>4. \A i \in Nat : i \in T
  BY <1>1, <1>2, <1>3, Induction
<1> QED BY <1>4 DEF T

\* Of some natural numbers, one is least.
LEMMA LeastIs ==
  ASSUME NEW S \in SUBSET Nat, S # {}
  PROVE  \E i \in S : \A j \in S : i <= j
<1> DEFINE none == {n \in Nat : \A i \in 0 .. n : i \notin S}
<1> SUFFICES ASSUME \A i \in S : \E j \in S : ~(i <= j)  PROVE FALSE
  OBVIOUS
<1>1. 0 \notin S
  OBVIOUS
<1>2. 0 \in none
  BY <1>1
<1>3. \A n \in none : n + 1 \in none
  <2> SUFFICES ASSUME NEW n \in none, NEW i \in 0 .. n + 1, i \in S  PROVE FALSE
    OBVIOUS
  <2>1. i = n + 1
    OBVIOUS
  <2>2. PICK j \in S : ~(i <= j)
    OBVIOUS
  <2>3. j \in 0 .. n
    BY <2>1, <2>2
  <2> QED BY <2>3
<1>4. none \in SUBSET Nat
  OBVIOUS
<1> HIDE DEF none
<1>5. \A n \in Nat : n \in none
  BY <1>2, <1>3, <1>4, Induction
<1>6. \A n \in Nat : n \notin S
  <2> TAKE n \in Nat
  <2>1. n \in none
    BY <1>5
  <2> QED BY <2>1 DEF none
<1> QED BY <1>6

\* Two recursive functions that begin alike and go on alike are the same.
GoAlike(f, h, n) == f[0] = h[0] /\ \A i \in 1 .. n : f[i - 1] = h[i - 1] => f[i] = h[i]

LEMMA SameRuns ==
  ASSUME NEW n \in Nat, NEW f, NEW h, GoAlike(f, h, n)
  PROVE  \A i \in 0 .. n : f[i] = h[i]
<1> DEFINE S == {i \in 0 .. n : f[i] = h[i]}
<1>1. 0 \in S
  BY DEF GoAlike
<1>2. \A i \in 1 .. n : i - 1 \in S => i \in S
  BY DEF GoAlike
<1> HIDE DEF S
<1>3. \A i \in 0 .. n : i \in S
  BY <1>1, <1>2, Climbing
<1> QED BY <1>3 DEF S

\* A recursion that stays in a set has a function.
RunsFrom(f, S, c, n, g) ==
  f \in [0 .. n -> S] /\ f[0] = c /\ \A i \in 1 .. n : f[i] = g[<<f[i - 1], i>>]

LEMMA Recursion ==
  ASSUME NEW S, NEW c \in S, NEW n \in Nat, NEW g \in [S \X (1 .. n) -> S]
  PROVE  \E f : RunsFrom(f, S, c, n, g)
<1> DEFINE Runs(f, m) == f[0] = c /\ \A i \in 1 .. m : f[i] = g[<<f[i - 1], i>>]
           T == {m \in 0 .. n : \E f \in [0 .. m -> S] : Runs(f, m)}
<1>1. 0 \in T
  <2> DEFINE alone == [i \in 0 .. 0 |-> c]
  <2>1. alone \in [0 .. 0 -> S] /\ Runs(alone, 0)
    OBVIOUS
  <2> HIDE DEF alone
  <2>2. \E f \in [0 .. 0 -> S] : Runs(f, 0)
    BY <2>1
  <2>3. 0 \in 0 .. n
    OBVIOUS
  <2> QED BY <2>2, <2>3
<1>2. ASSUME NEW m \in 1 .. n, m - 1 \in T  PROVE m \in T
  <2>1. PICK f \in [0 .. m - 1 -> S] : Runs(f, m - 1)
    BY <1>2
  <2> DEFINE x == g[<<f[m - 1], m>>]
             h == [i \in 0 .. m |-> IF i = m THEN x ELSE f[i]]
  <2>2. f[m - 1] \in S /\ x \in S
    <3>1. m - 1 \in 0 .. m - 1
      OBVIOUS
    <3>2. f[m - 1] \in S
      BY <3>1
    <3>3. <<f[m - 1], m>> \in S \X (1 .. n)
      BY <3>2
    <3> QED BY <3>2, <3>3
  <2> HIDE DEF x
  <2>3. h \in [0 .. m -> S] /\ h[0] = f[0] /\ h[m] = x /\ \A i \in 0 .. m - 1 : h[i] = f[i]
    BY <2>2
  <2>4. ASSUME NEW i \in 1 .. m  PROVE h[i] = g[<<h[i - 1], i>>]
    <3>1. CASE i = m
      <4>1. h[i - 1] = f[m - 1]
        BY <2>3, <3>1
      <4> QED BY <4>1, <2>3, <3>1 DEF x
    <3>2. CASE i # m
      <4>1. i \in 1 .. m - 1 /\ i - 1 \in 0 .. m - 1 /\ i \in 0 .. m - 1
        BY <3>2
      <4> QED BY <4>1, <2>1, <2>3
    <3> QED BY <3>1, <3>2
  <2> HIDE DEF h
  <2>5. Runs(h, m)
    BY <2>1, <2>3, <2>4
  <2> QED BY <2>3, <2>5
<1> HIDE DEF T
<1>3. \A m \in 0 .. n : m \in T
  BY <1>1, <1>2, Climbing
<1>4. \E f \in [0 .. n -> S] : Runs(f, n)
  BY <1>3 DEF T
<1> QED BY <1>4 DEF RunsFrom

\* Quotient and remainder put a number together again.
LEMMA DivMod ==
  ASSUME NEW a \in Nat, NEW b \in Nat \ {0}
  PROVE  a \div b \in Nat /\ a % b \in 0 .. b - 1 /\ a = (a \div b) * b + (a % b)
OBVIOUS

LEMMA Products == ASSUME NEW q \in Nat, NEW b \in Nat  PROVE q * b \in Nat
OBVIOUS

LEMMA Distributes ==
  ASSUME NEW p \in Nat, NEW q \in Nat, NEW b \in Nat
  PROVE  (p + q) * b = p * b + q * b
OBVIOUS

\* What a slice of a sequence is.
LEMMA Slices ==
  ASSUME NEW S, NEW s \in Seq(S), NEW a \in Int, NEW b \in Int, 1 <= a, a <= b + 1, b <= Len(s)
  PROVE  /\ SubSeq(s, a, b) \in Seq(S)
         /\ Len(SubSeq(s, a, b)) = b + 1 - a
         /\ \A i \in 1 .. b + 1 - a : SubSeq(s, a, b)[i] = s[a + i - 1]
OBVIOUS

\* What two sequences joined are.
LEMMA Joins ==
  ASSUME NEW S, NEW s \in Seq(S), NEW t \in Seq(S)
  PROVE  /\ s \o t \in Seq(S) /\ Len(s \o t) = Len(s) + Len(t)
         /\ \A i \in 1 .. Len(s) : (s \o t)[i] = s[i]
         /\ \A i \in 1 .. Len(t) : (s \o t)[Len(s) + i] = t[i]
OBVIOUS

\* What z is, part by part, s \o t is.
LEMMA JoinIs ==
  ASSUME NEW S, NEW s \in Seq(S), NEW t \in Seq(S), NEW z \in Seq(S), 
         Len(z) = Len(s) + Len(t),
         \A i \in 1 .. Len(s) : z[i] = s[i],
         \A i \in 1 .. Len(t) : z[Len(s) + i] = t[i]
  PROVE  s \o t = z
<1> DEFINE m == Len(s)
<1>0. m \in Nat /\ Len(t) \in Nat /\ s \o t \in Seq(S) /\ Len(s \o t) = Len(z)
  OBVIOUS
<1>1. \A i \in 1 .. Len(z) : (s \o t)[i] = z[i]
  <2> SUFFICES ASSUME NEW i \in 1 .. Len(z)  PROVE (s \o t)[i] = z[i]
    OBVIOUS
  <2>1. CASE i <= Len(s)
    BY <2>1
  <2>2. CASE i > Len(s)
    <3> DEFINE j == i - m
    <3>1. j \in 1 .. Len(t) /\ i = m + j
      BY <2>2, <1>0
    <3>2. (s \o t)[m + j] = t[j]
      BY <3>1, Joins
    <3>3. z[m + j] = t[j]
      BY <3>1
    <3> QED BY <3>1, <3>2, <3>3
  <2> QED BY <2>1, <2>2
<1> QED BY <1>0, <1>1

-----------------------------------------------------------------------------
\* The bytes of S under the keystream.
XBytes(S) == {"x"} \X S \X Nat

\* Byte i of what is xored from at on is under keystream byte at + i - 1.
LEMMA Xored ==
  ASSUME NEW S, NEW s \in Seq(S), NEW at \in Nat
  PROVE  /\ XorFrom(s, at) \in Seq(XBytes(S))
         /\ Len(XorFrom(s, at)) = Len(s)
         /\ \A i \in 1 .. Len(s) : XorFrom(s, at)[i] = <<"x", s[i], at + i - 1>>
<1>1. DOMAIN s = 1 .. Len(s) /\ Len(s) \in Nat
  OBVIOUS
<1>2. \A i \in 1 .. Len(s) : <<"x", s[i], at + i - 1>> \in XBytes(S)
  BY <1>1 DEF XBytes
<1> QED BY <1>1, <1>2 DEF XorFrom

\* The keystream goes on where it was left.
LEMMA XorJoins ==
  ASSUME NEW S, NEW s \in Seq(S), NEW t \in Seq(S), NEW at \in Nat
  PROVE  XorFrom(s, at) \o XorFrom(t, at + Len(s)) = XorFrom(s \o t, at)
<1> DEFINE x == XorFrom(s, at)
           y == XorFrom(t, at + Len(s))
           z == XorFrom(s \o t, at)
<1>1. s \o t \in Seq(S) /\ Len(s) \in Nat /\ Len(t) \in Nat /\ Len(s \o t) = Len(s) + Len(t) /\ at + Len(s) \in Nat
  OBVIOUS
<1>2. /\ x \in Seq(XBytes(S)) /\ Len(x) = Len(s)
      /\ \A i \in 1 .. Len(s) : x[i] = <<"x", s[i], at + i - 1>>
  BY Xored
<1>3. /\ y \in Seq(XBytes(S)) /\ Len(y) = Len(t)
      /\ \A i \in 1 .. Len(t) : y[i] = <<"x", t[i], at + Len(s) + i - 1>>
  BY <1>1, Xored
<1>4. /\ z \in Seq(XBytes(S)) /\ Len(z) = Len(s) + Len(t)
      /\ \A i \in 1 .. Len(s) + Len(t) : z[i] = <<"x", (s \o t)[i], at + i - 1>>
  BY <1>1, Xored
<1> HIDE DEF x, y, z
<1>5. \A i \in 1 .. Len(s) : z[i] = x[i]
  <2> SUFFICES ASSUME NEW i \in 1 .. Len(s)  PROVE z[i] = x[i]
    OBVIOUS
  <2>1. i \in 1 .. Len(s) + Len(t) /\ (s \o t)[i] = s[i]
    BY <1>1, Joins
  <2> QED BY <2>1, <1>2, <1>4
<1>6. \A i \in 1 .. Len(t) : z[Len(s) + i] = y[i]
  <2> SUFFICES ASSUME NEW i \in 1 .. Len(t)  PROVE z[Len(s) + i] = y[i]
    OBVIOUS
  <2>1. Len(s) + i \in 1 .. Len(s) + Len(t) /\ (s \o t)[Len(s) + i] = t[i]
    BY <1>1, Joins
  <2>2. z[Len(s) + i] = <<"x", t[i], at + (Len(s) + i) - 1>>
    BY <2>1, <1>4
  <2>3. at + (Len(s) + i) - 1 = at + Len(s) + i - 1
    BY <1>1
  <2> QED BY <2>2, <2>3, <1>3
<1>7. x \o y = z
  <2> DEFINE B == XBytes(S)
  <2>1. /\ x \in Seq(B) /\ y \in Seq(B) /\ z \in Seq(B)
        /\ Len(z) = Len(x) + Len(y)
        /\ \A i \in 1 .. Len(x) : z[i] = x[i]
        /\ \A i \in 1 .. Len(y) : z[Len(x) + i] = y[i]
    BY <1>2, <1>3, <1>4, <1>5, <1>6
  <2> HIDE DEF B
  <2> QED BY <2>1, JoinIs
<1> QED BY <1>7 DEF x, y, z

\* Three sequences in a row.
LEMMA Associates ==
  ASSUME NEW E, NEW x \in Seq(E), NEW y \in Seq(E), NEW z \in Seq(E)
  PROVE  x \o (y \o z) = (x \o y) \o z /\ x \o y \in Seq(E)
OBVIOUS

-----------------------------------------------------------------------------
(* arxEngine, and the generators under roundedEngine. *)

\* What is held after n bytes: the rest of the keystream unit last drawn.
RawAt(s, n) ==
  /\ s \in [unit : Nat, held : Seq(Nat)]
  /\ Len(s.held) < UnitSize
  /\ s.unit * UnitSize = n + Len(s.held)
  /\ \A i \in 1 .. Len(s.held) : s.held[i] = n + i - 1

\* Before the first byte nothing is held.
LEMMA RawStarts == RawAt(RawStart, 0)
BY UnitsAreUnits DEF RawAt, RawStart

\* arxEngine spends what it holds, then whole units, then begins one: the
\* chunk comes out under the next keystream bytes, and what is left is held.
LEMMA RawGoesOn ==
  ASSUME NEW S, NEW chunk \in Seq(S), NEW n \in Nat, NEW s, RawAt(s, n)
  PROVE  /\ RawAt(RawUpdate(s, chunk).state, n + Len(chunk))
         /\ RawUpdate(s, chunk).out = XorFrom(chunk, n)
<1> DEFINE h     == s.held
           used  == Least(Len(chunk), Len(s.held))
           left  == Len(chunk) - used
           whole == left \div UnitSize
           tail  == left % UnitSize
           drawn == IF tail = 0 THEN <<>>
                    ELSE [i \in 1 .. UnitSize |-> (s.unit + whole) * UnitSize + i - 1]
           unit  == s.unit + whole + (IF tail = 0 THEN 0 ELSE 1)
           held  == IF tail = 0 THEN Rest(s.held, used) ELSE Rest(drawn, tail)
           first == [i \in 1 .. used |-> <<"x", chunk[i], s.held[i]>>]
           middle == XorFrom(SubSeq(chunk, used + 1, used + whole * UnitSize), s.unit * UnitSize)
           last  == [i \in 1 .. tail |-> <<"x", chunk[used + whole * UnitSize + i], drawn[i]>>]
           \* in bytes
           size  == whole * UnitSize
           spent == s.unit * UnitSize
<1>1. RawUpdate(s, chunk) = [state |-> [unit |-> unit, held |-> held], out |-> first \o middle \o last]
  BY DEF RawUpdate
<1>d. /\ drawn = IF tail = 0 THEN <<>> ELSE [i \in 1 .. UnitSize |-> (s.unit + whole) * UnitSize + i - 1]
      /\ unit = s.unit + whole + (IF tail = 0 THEN 0 ELSE 1)
      /\ held = IF tail = 0 THEN SubSeq(h, used + 1, Len(h)) ELSE SubSeq(drawn, tail + 1, Len(drawn))
      /\ first = [i \in 1 .. used |-> <<"x", chunk[i], h[i]>>]
      /\ middle = XorFrom(SubSeq(chunk, used + 1, used + size), spent)
      /\ last  = [i \in 1 .. tail |-> <<"x", chunk[used + size + i], drawn[i]>>]
  BY DEF Rest
<1> HIDE DEF h, used, left, whole, tail, drawn, unit, held, first, middle, last, size, spent
<1>2. /\ UnitSize \in Nat \ {0} /\ s.unit \in Nat /\ h \in Seq(Nat) /\ Len(h) < UnitSize
      /\ Len(chunk) \in Nat /\ Len(h) \in Nat
      /\ \A i \in 1 .. Len(h) : h[i] = n + i - 1
  BY UnitsAreUnits DEF RawAt, h
<1>0. spent = n + Len(h) /\ spent \in Nat
  BY <1>2 DEF RawAt, spent, h
<1>3. /\ used \in Nat /\ used <= Len(chunk) /\ used <= Len(h) /\ left \in Nat
      /\ left = Len(chunk) - used
      /\ left > 0 => used = Len(h)
  BY <1>2 DEF Least, used, left, h
<1>4. whole \in Nat /\ tail \in 0 .. UnitSize - 1 /\ left = size + tail /\ size \in Nat
  BY <1>2, <1>3, DivMod, Products DEF whole, tail, size
<1>5. (s.unit + whole) * UnitSize = spent + size
  BY <1>2, <1>4, Distributes DEF spent, size
<1>6. (s.unit + whole + 1) * UnitSize = spent + size + UnitSize
  <2>0. s.unit + whole \in Nat
    BY <1>2, <1>4
  <2>1. 1 * UnitSize = UnitSize
    BY <1>2
  <2>2. (s.unit + whole + 1) * UnitSize = (s.unit + whole) * UnitSize + 1 * UnitSize
    BY <2>0, <1>2, Distributes
  <2> QED BY <2>1, <2>2, <1>5
<1>a. /\ unit = IF tail = 0 THEN s.unit + whole ELSE s.unit + whole + 1
      /\ unit \in Nat
  <2>1. unit = s.unit + whole + (IF tail = 0 THEN 0 ELSE 1)
    BY <1>d
  <2>2. s.unit \in Nat /\ whole \in Nat
    BY <1>2, <1>4
  <2>3. CASE tail = 0
    <3>1. unit = s.unit + whole + 0
      BY ONLY <2>1, <2>3, Zenon
    <3> QED BY ONLY <3>1, <2>2, <2>3
  <2>4. CASE tail # 0
    <3>1. unit = s.unit + whole + 1
      BY ONLY <2>1, <2>4, Zenon
    <3> QED BY ONLY <3>1, <2>2, <2>4
  <2> QED BY <2>3, <2>4
<1>b. unit * UnitSize = IF tail = 0 THEN spent + size ELSE spent + size + UnitSize
  BY <1>5, <1>6, <1>a
<1>c. tail # 0 => drawn = [i \in 1 .. UnitSize |-> spent + size + i - 1]
  BY <1>5, <1>d
<1> DEFINE L == Len(chunk)
           H == Len(h)
<1>n. /\ L \in Nat /\ H \in Nat /\ H < UnitSize /\ UnitSize \in Nat /\ n \in Nat
      /\ used \in Nat /\ used <= H /\ size \in Nat /\ tail \in Nat /\ tail < UnitSize
      /\ L = used + size + tail /\ spent = n + H
      /\ size + tail > 0 => used = H
  BY <1>2, <1>0, <1>3, <1>4
<1>h. h \in Seq(Nat) /\ Len(h) = H /\ \A i \in 1 .. H : h[i] = n + i - 1
  BY <1>2
<1> HIDE DEF L, H
<1>7. tail # 0 => /\ drawn \in Seq(Nat) /\ Len(drawn) = UnitSize
                  /\ \A i \in 1 .. UnitSize : drawn[i] = n + H + size + i - 1
  BY <1>c, <1>n
<1>8. RawAt([unit |-> unit, held |-> held], n + L)
  <2>1. CASE tail = 0
    <3>1. held \in Seq(Nat) /\ Len(held) = H - used /\ \A i \in 1 .. H - used : held[i] = h[used + i]
      BY <2>1, <1>d, <1>n, <1>h
    <3>2. H - used > 0 => L = used
      BY <2>1, <1>n
    <3>3. \A i \in 1 .. H - used : held[i] = n + L + i - 1
      <4> SUFFICES ASSUME NEW i \in 1 .. H - used  PROVE held[i] = n + L + i - 1
        OBVIOUS
      <4>1. used + i \in 1 .. H /\ L = used
        BY <3>2, <1>n
      <4>2. h[used + i] = n + (used + i) - 1
        BY <4>1, <1>h
      <4> QED BY <4>1, <4>2, <3>1, <1>n
    <3>4. unit * UnitSize = n + L + (H - used)
      <4>1. unit * UnitSize = n + H + size
        BY <2>1, <1>b, <1>n
      <4> QED BY <4>1, <2>1, <1>n
    <3>5. H - used \in Nat /\ H - used < UnitSize
      BY <1>n
    <3> QED BY <3>1, <3>3, <3>4, <3>5, <1>a DEF RawAt
  <2>2. CASE tail # 0
    <3>1. held \in Seq(Nat) /\ Len(held) = UnitSize - tail /\ \A i \in 1 .. UnitSize - tail : held[i] = drawn[tail + i]
      <4>1. held = SubSeq(drawn, tail + 1, Len(drawn))
        BY <2>2, <1>d
      <4> QED BY <2>2, <4>1, <1>7, <1>n
    <3>2. used = H /\ L = H + size + tail
      BY <2>2, <1>n
    <3>3. \A i \in 1 .. UnitSize - tail : held[i] = n + L + i - 1
      <4> SUFFICES ASSUME NEW i \in 1 .. UnitSize - tail  PROVE held[i] = n + L + i - 1
        OBVIOUS
      <4>1. tail + i \in 1 .. UnitSize
        BY <1>n
      <4>2. drawn[tail + i] = n + H + size + (tail + i) - 1
        BY <2>2, <4>1, <1>7
      <4> QED BY <4>2, <3>1, <3>2, <1>n
    <3>4. unit * UnitSize = n + L + (UnitSize - tail)
      <4>1. unit * UnitSize = n + H + size + UnitSize
        BY <2>2, <1>b, <1>n
      <4> QED BY <4>1, <3>2, <1>n
    <3>5. UnitSize - tail \in Nat /\ UnitSize - tail < UnitSize
      BY <2>2, <1>n
    <3> QED BY <3>1, <3>3, <3>4, <3>5, <1>a DEF RawAt
  <2> QED BY <2>1, <2>2
<1>9. first \o middle \o last = XorFrom(chunk, n)
  <2> DEFINE a == SubSeq(chunk, 1, used)
             b == SubSeq(chunk, used + 1, used + size)
             c == SubSeq(chunk, used + size + 1, L)
  <2>0. L = Len(chunk)
    BY DEF L
  <2>1. a \in Seq(S) /\ Len(a) = used /\ \A i \in 1 .. used : a[i] = chunk[i]
    <3>1. 1 <= used + 1 /\ used <= Len(chunk) /\ used \in Int /\ used + 1 - 1 = used
      BY <2>0, <1>n
    <3> QED BY <3>1, Slices
  <2>2. b \in Seq(S) /\ Len(b) = size
    <3> DEFINE p == used + 1
               q == used + size
    <3>1. p \in Int /\ q \in Int /\ 1 <= p /\ p <= q + 1 /\ q <= Len(chunk) /\ q + 1 - p = size
      BY <2>0, <1>n
    <3> HIDE DEF p, q
    <3>2. SubSeq(chunk, p, q) \in Seq(S) /\ Len(SubSeq(chunk, p, q)) = size
      BY <3>1, Slices
    <3> QED BY <3>2 DEF p, q
  <2>3. c \in Seq(S) /\ Len(c) = tail /\ \A i \in 1 .. tail : c[i] = chunk[used + size + i]
    <3> DEFINE p == used + size + 1
    <3>1. p \in Int /\ L \in Int /\ 1 <= p /\ p <= L + 1 /\ L <= Len(chunk) /\ L + 1 - p = tail
      BY <2>0, <1>n
    <3>2. \A i \in 1 .. tail : p + i - 1 = used + size + i
      BY <1>n
    <3> HIDE DEF p
    <3>3. SubSeq(chunk, p, L) \in Seq(S) /\ Len(SubSeq(chunk, p, L)) = tail
          /\ \A i \in 1 .. tail : SubSeq(chunk, p, L)[i] = chunk[p + i - 1]
      BY <3>1, Slices
    <3> QED BY <3>2, <3>3 DEF p
  <2>4. chunk = a \o b \o c
    <3>1. a \o b = SubSeq(chunk, 1, used + size)
      BY <2>0, <1>n
    <3>2. SubSeq(chunk, 1, used + size) \o c = SubSeq(chunk, 1, L)
      <4>1. used + size \in Nat /\ L \in Nat /\ used + size <= L /\ L <= Len(chunk)
        BY <2>0, <1>n
      <4> QED BY <4>1
    <3>3. SubSeq(chunk, 1, L) = chunk
      BY <2>0
    <3> QED BY <3>1, <3>2, <3>3
  <2>5. middle = XorFrom(b, spent)
    BY <1>d
  <2> HIDE DEF a, b, c
  <2>6. first = XorFrom(a, n)
    <3>1. first = [i \in 1 .. used |-> <<"x", chunk[i], h[i]>>]
      BY <1>d
    <3>2. \A i \in 1 .. used : <<"x", chunk[i], h[i]>> = <<"x", a[i], n + i - 1>>
      BY <2>1, <1>h, <1>n
    <3>3. DOMAIN a = 1 .. used
      BY <2>1
    <3> QED BY <3>1, <3>2, <3>3 DEF XorFrom
  <2>7. size > 0 => spent = n + used
    BY <1>n
  <2>8. middle = XorFrom(b, n + used)
    <3>1. CASE size > 0
      BY <3>1, <2>7, <2>5
    <3>2. CASE size = 0
      <4>1. DOMAIN b = {}
        BY <2>2, <3>2
      <4> QED BY <4>1, <2>5 DEF XorFrom
    <3> QED BY <3>1, <3>2, <1>n
  <2>9. last = XorFrom(c, n + used + size)
    <3>1. last = [i \in 1 .. tail |-> <<"x", chunk[used + size + i], drawn[i]>>]
      BY <1>d
    <3>2. \A i \in 1 .. tail : <<"x", chunk[used + size + i], drawn[i]>> = <<"x", c[i], n + used + size + i - 1>>
      <4> SUFFICES ASSUME NEW i \in 1 .. tail
                   PROVE  <<"x", chunk[used + size + i], drawn[i]>> = <<"x", c[i], n + used + size + i - 1>>
        OBVIOUS
      <4>1. tail # 0 /\ used = H /\ i \in 1 .. UnitSize
        BY <1>n
      <4>2. drawn[i] = n + used + size + i - 1
        BY <4>1, <1>7
      <4> QED BY <4>2, <2>3
    <3>3. DOMAIN c = 1 .. tail
      BY <2>3
    <3> QED BY <3>1, <3>2, <3>3 DEF XorFrom
  <2>10. a \o b \in Seq(S) /\ Len(a \o b) = used + size
    BY <2>1, <2>2
  <2>11. first \o middle = XorFrom(a \o b, n)
    BY <2>1, <2>2, <2>6, <2>8, XorJoins
  <2>12. XorFrom(a \o b, n) \o XorFrom(c, n + Len(a \o b)) = XorFrom((a \o b) \o c, n)
    BY <2>10, <2>3, XorJoins
  <2>13. n + Len(a \o b) = n + used + size
    BY <2>10, <1>n
  <2> QED BY <2>4, <2>9, <2>11, <2>12, <2>13
<1> QED BY <1>1, <1>8, <1>9 DEF L

-----------------------------------------------------------------------------
(* littleEndian64Engine. *)

\* After n bytes, of the word drawn last so many are spent that the next is
\* keystream byte n.
WordAt(s, n) ==
  /\ s \in [unit : Nat, at : 0 .. UnitSize]
  /\ (s.unit - 1) * UnitSize + s.at = n

LEMMA WordStarts == WordAt(WordStart, 0)
BY UnitsAreUnits DEF WordAt, WordStart

\* A full word is followed by the next.
WordNext(s) ==
  IF s.at = UnitSize THEN [unit |-> s.unit + 1, at |-> 0 + 1] ELSE [unit |-> s.unit, at |-> s.at + 1]
WordSpent(s) ==
  IF s.at = UnitSize THEN (s.unit + 1 - 1) * UnitSize + 0 ELSE (s.unit - 1) * UnitSize + s.at

LEMMA WordStep ==
  ASSUME NEW n \in Nat, NEW s, WordAt(s, n)
  PROVE  WordAt(WordNext(s), n + 1) /\ WordSpent(s) = n
<1>1. s.unit \in Nat /\ s.at \in 0 .. UnitSize /\ UnitSize \in Nat \ {0}
  BY UnitsAreUnits DEF WordAt
<1>2. s.unit * UnitSize = (s.unit - 1) * UnitSize + UnitSize /\ s.unit + 1 - 1 = s.unit
  BY <1>1
<1>3. (s.unit - 1) * UnitSize \in Int /\ s.unit * UnitSize \in Int
  BY <1>1
<1>4. (s.unit - 1) * UnitSize + s.at = n
  BY DEF WordAt
<1>5. CASE s.at = UnitSize
  <2>1. WordNext(s) = [unit |-> s.unit + 1, at |-> 0 + 1] /\ WordSpent(s) = s.unit * UnitSize + 0
    BY <1>2, <1>5 DEF WordNext, WordSpent
  <2>2. s.unit * UnitSize = n
    BY <1>2, <1>3, <1>4, <1>5
  <2>3. WordNext(s) \in [unit : Nat, at : 0 .. UnitSize]
    BY <2>1, <1>1
  <2>4. WordNext(s).unit - 1 = s.unit /\ WordNext(s).at = 1
    BY <2>1, <1>1
  <2>5. (WordNext(s).unit - 1) * UnitSize + WordNext(s).at = n + 1 /\ WordSpent(s) = n
    BY <2>1, <2>2, <2>4, <1>3
  <2> QED BY <2>3, <2>5 DEF WordAt
<1>6. CASE s.at # UnitSize
  <2>1. WordNext(s) = [unit |-> s.unit, at |-> s.at + 1] /\ WordSpent(s) = n
    BY <1>6, <1>4 DEF WordNext, WordSpent
  <2>2. WordNext(s).unit = s.unit /\ WordNext(s).at = s.at + 1 /\ WordNext(s) \in [unit : Nat, at : 0 .. UnitSize]
    BY <2>1, <1>1, <1>6
  <2>3. (WordNext(s).unit - 1) * UnitSize + WordNext(s).at = n + 1
    BY <2>2, <1>1, <1>3, <1>4
  <2> QED BY <2>1, <2>2, <2>3 DEF WordAt
<1> QED BY <1>5, <1>6

\* One byte more under the keystream.
LEMMA XorAppends ==
  ASSUME NEW S, NEW s \in Seq(S), NEW n \in Nat, NEW i \in 1 .. Len(s)
  PROVE  XorFrom(SubSeq(s, 1, i), n) = Append(XorFrom(SubSeq(s, 1, i - 1), n), <<"x", s[i], n + i - 1>>)
<1> DEFINE a == SubSeq(s, 1, i - 1)
           b == SubSeq(s, 1, i)
           B == XBytes(S)
<1>1. a \in Seq(S) /\ Len(a) = i - 1 /\ \A j \in 1 .. i - 1 : a[j] = s[j]
  OBVIOUS
<1>2. b \in Seq(S) /\ Len(b) = i /\ \A j \in 1 .. i : b[j] = s[j]
  OBVIOUS
<1> HIDE DEF a, b
<1>3. /\ XorFrom(a, n) \in Seq(B) /\ Len(XorFrom(a, n)) = i - 1
      /\ \A j \in 1 .. i - 1 : XorFrom(a, n)[j] = <<"x", a[j], n + j - 1>>
  BY <1>1, Xored
<1>4. /\ XorFrom(b, n) \in Seq(B) /\ Len(XorFrom(b, n)) = i
      /\ \A j \in 1 .. i : XorFrom(b, n)[j] = <<"x", b[j], n + j - 1>>
  BY <1>2, Xored
<1>5. <<"x", s[i], n + i - 1>> \in B
  BY DEF XBytes
<1> DEFINE x == XorFrom(a, n)
           y == XorFrom(b, n)
           e == <<"x", s[i], n + i - 1>>
<1>6. \A j \in 1 .. i : y[j] = IF j = i THEN e ELSE x[j]
  <2> SUFFICES ASSUME NEW j \in 1 .. i  PROVE y[j] = IF j = i THEN e ELSE x[j]
    OBVIOUS
  <2>1. y[j] = <<"x", s[j], n + j - 1>>
    BY <1>2, <1>4
  <2>2. CASE j = i
    BY <2>1, <2>2
  <2>3. CASE j # i
    <3>1. j \in 1 .. i - 1
      BY <2>3
    <3> QED BY <3>1, <2>1, <1>1, <1>3, <2>3
  <2> QED BY <2>2, <2>3
<1>7. x \in Seq(B) /\ y \in Seq(B) /\ e \in B /\ Len(x) = i - 1 /\ Len(y) = i
  BY <1>3, <1>4, <1>5
<1> HIDE DEF x, y, e, B
<1>8. y = Append(x, e)
  BY <1>6, <1>7
<1> QED BY <1>8 DEF x, y, e, a, b

\* It goes byte by byte.
LEMMA WordGoesOn ==
  ASSUME NEW S, NEW chunk \in Seq(S), NEW n \in Nat, NEW s, WordAt(s, n)
  PROVE  /\ WordAt(WordUpdate(s, chunk).state, n + Len(chunk))
         /\ WordUpdate(s, chunk).out = XorFrom(chunk, n)
<1> DEFINE N == Len(chunk)
           W == [unit : Nat, at : 0 .. UnitSize]
           g == [p \in W \X (1 .. N) |-> WordNext(p[1])]
           Unit(was) == IF was.state.at = UnitSize THEN was.state.unit + 1 ELSE was.state.unit
           At(was)   == IF was.state.at = UnitSize THEN 0 ELSE was.state.at
           Body(was, i) == [state |-> [unit |-> Unit(was), at |-> At(was) + 1],
                            out   |-> Append(was.out, <<"x", chunk[i], (Unit(was) - 1) * UnitSize + At(was)>>)]
           Eq(f) == f = [i \in 0 .. N |-> IF i = 0 THEN [state |-> s, out |-> <<>>] ELSE Body(f[i - 1], i)]
           after == CHOOSE f : Eq(f)
<1>1. WordUpdate(s, chunk) = after[N]
  BY DEF WordUpdate
<1>2. N \in Nat /\ s \in W /\ UnitSize \in Nat \ {0}
  BY UnitsAreUnits DEF WordAt
<1>0. SubSeq(chunk, 1, N) = chunk 
  OBVIOUS
<1>00. ASSUME NEW i \in 1 .. N
       PROVE  XorFrom(SubSeq(chunk, 1, i), n) = Append(XorFrom(SubSeq(chunk, 1, i - 1), n), <<"x", chunk[i], n + i - 1>>)
  BY XorAppends
<1> HIDE DEF N
<1>3. g \in [W \X (1 .. N) -> W]
  BY <1>2 DEF WordNext
<1>a. PICK st : RunsFrom(st, W, s, N, g)
  <2> HIDE DEF g, W
  <2> QED BY <1>2, <1>3, Recursion
<1>4. st \in [0 .. N -> W] /\ st[0] = s /\ \A i \in 1 .. N : st[i] = g[<<st[i - 1], i>>]
  BY <1>a DEF RunsFrom
<1>5. \A i \in 1 .. N : st[i] = WordNext(st[i - 1])
  <2> SUFFICES ASSUME NEW i \in 1 .. N  PROVE st[i] = WordNext(st[i - 1])
    OBVIOUS
  <2> HIDE DEF W
  <2>1. i - 1 \in 0 .. N
    BY <1>2
  <2>2. st[i - 1] \in W
    BY <2>1, <1>4
  <2>3. <<st[i - 1], i>> \in W \X (1 .. N)
    BY <2>2
  <2> QED BY <1>4, <2>3
<1> HIDE DEF g
<1>6. \A i \in 0 .. N : WordAt(st[i], n + i)
  <2> DEFINE T == {i \in 0 .. N : WordAt(st[i], n + i)}
  <2>1. 0 \in T
    BY <1>2, <1>4
  <2>2. ASSUME NEW i \in 1 .. N, i - 1 \in T  PROVE i \in T
    <3>1. n + (i - 1) \in Nat /\ n + (i - 1) + 1 = n + i /\ WordAt(st[i - 1], n + (i - 1))
      BY <2>2
    <3>2. WordAt(WordNext(st[i - 1]), n + i)
      BY <3>1, WordStep
    <3> QED BY <3>2, <1>5
  <2> HIDE DEF T
  <2>3. \A i \in 0 .. N : i \in T
    BY <1>2, <2>1, <2>2, Climbing
  <2> QED BY <2>3 DEF T
<1> DEFINE Out(i) == XorFrom(SubSeq(chunk, 1, i), n)
           h == [i \in 0 .. N |-> [state |-> st[i], out |-> Out(i)]]
<1>7. ASSUME NEW was, was.state \in W, NEW i
      PROVE  Body(was, i) = [state |-> WordNext(was.state), out |-> Append(was.out, <<"x", chunk[i], WordSpent(was.state)>>)]
  <2>1. CASE was.state.at = UnitSize
    <3>1. Unit(was) = was.state.unit + 1 /\ At(was) = 0
      BY <2>1
    <3> HIDE DEF Unit, At
    <3>2. WordNext(was.state) = [unit |-> was.state.unit + 1, at |-> 0 + 1]
      BY <2>1 DEF WordNext
    <3>3. WordSpent(was.state) = (was.state.unit + 1 - 1) * UnitSize + 0
      BY <2>1 DEF WordSpent
    <3>4. [unit |-> Unit(was), at |-> At(was) + 1] = WordNext(was.state)
      BY <3>1, <3>2
    <3>5. (Unit(was) - 1) * UnitSize + At(was) = WordSpent(was.state)
      <4>1. was.state.unit \in Nat /\ UnitSize \in Nat
        BY <1>2, <1>7
      <4> HIDE DEF W
      <4> QED BY <4>1, <3>1, <3>3
    <3> QED BY <3>4, <3>5
  <2>2. CASE was.state.at # UnitSize
    <3>1. Unit(was) = was.state.unit /\ At(was) = was.state.at
      BY <2>2
    <3> HIDE DEF Unit, At
    <3>2. WordNext(was.state) = [unit |-> was.state.unit, at |-> was.state.at + 1]
      BY <2>2 DEF WordNext
    <3>3. WordSpent(was.state) = (was.state.unit - 1) * UnitSize + was.state.at
      BY <2>2 DEF WordSpent
    <3>4. [unit |-> Unit(was), at |-> At(was) + 1] = WordNext(was.state)
      BY <3>1, <3>2
    <3>5. (Unit(was) - 1) * UnitSize + At(was) = WordSpent(was.state)
      BY <3>1, <3>3
    <3> QED BY <3>4, <3>5
  <2> QED BY <2>1, <2>2
<1> HIDE DEF Body, W
<1>8. Eq(h)
  <2>1. Out(0) = <<>>
    BY DEF XorFrom
  <2>2. ASSUME NEW i \in 1 .. N  PROVE h[i] = Body(h[i - 1], i)
    <3>1. i - 1 \in 0 .. N /\ i \in 0 .. N /\ n + (i - 1) \in Nat /\ n + (i - 1) = n + i - 1
      BY <1>2
    <3>2. WordSpent(st[i - 1]) = n + i - 1
      BY <3>1, <1>6, WordStep
    <3>3. Out(i) = Append(Out(i - 1), <<"x", chunk[i], n + i - 1>>)
      BY <1>00
    <3>4. h[i - 1] = [state |-> st[i - 1], out |-> Out(i - 1)] /\ h[i] = [state |-> st[i], out |-> Out(i)]
      BY <3>1
    <3>5. h[i - 1].state = st[i - 1] /\ h[i - 1].out = Out(i - 1)
      BY <3>4
    <3>6. h[i - 1].state \in W
      BY <3>1, <3>5, <1>4
    <3> HIDE DEF Out, h
    <3> QED BY <3>6, <3>2, <3>3, <3>4, <3>5, <1>5, <1>7
  <2>3. h[0] = [state |-> s, out |-> <<>>]
    BY <2>1, <1>2, <1>4
  <2>4. h = [i \in 0 .. N |-> h[i]]
    OBVIOUS
  <2> HIDE DEF h
  <2>5. \A i \in 0 .. N : h[i] = IF i = 0 THEN [state |-> s, out |-> <<>>] ELSE Body(h[i - 1], i)
    BY <1>2, <2>2, <2>3
  <2> QED BY <2>4, <2>5
<1>9. Eq(after)
  <2> HIDE DEF Eq, h
  <2> QED BY <1>8
<1> HIDE DEF after
<1> HIDE DEF h
<1>10. after[0] = h[0] /\ \A i \in 1 .. N : after[i] = Body(after[i - 1], i) /\ h[i] = Body(h[i - 1], i)
  <2>1. after[0] = [state |-> s, out |-> <<>>] /\ \A i \in 1 .. N : after[i] = Body(after[i - 1], i)
    BY <1>9, <1>2
  <2>2. h[0] = [state |-> s, out |-> <<>>] /\ \A i \in 1 .. N : h[i] = Body(h[i - 1], i)
    BY <1>8, <1>2
  <2> QED BY <2>1, <2>2
<1>12. after[N] = h[N]
  <2>1. \A i \in 0 .. N : after[i] = h[i]
    <3>1. GoAlike(after, h, N)
      BY <1>10 DEF GoAlike
    <3> QED BY <3>1, <1>2, SameRuns
  <2> QED BY <2>1, <1>2
<1>13. h[N].state = st[N] /\ h[N].out = Out(N)
  BY <1>2 DEF h
<1>14. WordAt(st[N], n + N)
  BY <1>2, <1>6
<1>15. WordUpdate(s, chunk).state = st[N] /\ WordUpdate(s, chunk).out = XorFrom(chunk, n)
  BY <1>0, <1>1, <1>12, <1>13
<1> QED BY <1>14, <1>15 DEF N

-----------------------------------------------------------------------------
\* A slice of two sequences joined: within the first, within the second, and
\* from the first to the end.
LEMMA LeftSlice ==
  ASSUME NEW S, NEW s \in Seq(S), NEW t \in Seq(S), NEW a \in Int, NEW b \in Int, 1 <= a, a <= b + 1, b <= Len(s)
  PROVE  SubSeq(s \o t, a, b) = SubSeq(s, a, b)
OBVIOUS

LEMMA RightSlice ==
  ASSUME NEW S, NEW s \in Seq(S), NEW t \in Seq(S), NEW a \in Int, NEW b \in Int, 1 <= a, a <= b + 1, b <= Len(t)
  PROVE  SubSeq(s \o t, Len(s) + a, Len(s) + b) = SubSeq(t, a, b)
OBVIOUS

LEMMA CrossSlice ==
  ASSUME NEW S, NEW s \in Seq(S), NEW t \in Seq(S), NEW a \in Int, 1 <= a, a <= Len(s) + 1
  PROVE  SubSeq(s \o t, a, Len(s) + Len(t)) = SubSeq(s, a, Len(s)) \o t
OBVIOUS

\* A sequence is its first m elements and the others.
LEMMA Splits ==
  ASSUME NEW S, NEW s \in Seq(S), NEW m \in Nat, m <= Len(s)
  PROVE  /\ s = SubSeq(s, 1, m) \o SubSeq(s, m + 1, Len(s))
         /\ SubSeq(s, 1, m) \in Seq(S) /\ Len(SubSeq(s, 1, m)) = m
         /\ SubSeq(s, m + 1, Len(s)) \in Seq(S) /\ Len(SubSeq(s, m + 1, Len(s))) = Len(s) - m
<1>1. Len(s) \in Nat
  OBVIOUS
<1> DEFINE x == SubSeq(s, 1, m)
           y == SubSeq(s, m + 1, Len(s))
<1>2. x \in Seq(S) /\ Len(x) = m /\ \A i \in 1 .. m : x[i] = s[i]
  OBVIOUS
<1>3. y \in Seq(S) /\ Len(y) = Len(s) - m /\ \A i \in 1 .. Len(s) - m : y[i] = s[m + i]
  BY <1>1
<1> HIDE DEF x, y
<1>4. x \o y = s
  <2>1. Len(s) = Len(x) + Len(y) /\ \A i \in 1 .. Len(x) : s[i] = x[i]
    BY <1>1, <1>2, <1>3
  <2>2. \A i \in 1 .. Len(y) : s[Len(x) + i] = y[i]
    BY <1>2, <1>3
  <2> QED BY <2>1, <2>2, <1>2, <1>3, JoinIs
<1> QED BY <1>2, <1>3, <1>4 DEF x, y

LEMMA SliceOfSlice ==
  ASSUME NEW S, NEW s \in Seq(S), NEW m \in Nat, NEW n \in Nat, m <= n, n <= Len(s),
         NEW a \in Int, NEW b \in Int, 1 <= a, a <= b + 1, b <= n - m
  PROVE  SubSeq(SubSeq(s, m + 1, n), a, b) = SubSeq(s, m + a, m + b)
OBVIOUS

\* The quotient and the remainder are the only such pair.
LEMMA DivIs ==
  ASSUME NEW b \in Nat \ {0}, NEW q \in Nat, NEW r \in 0 .. b - 1
  PROVE  (q * b + r) \div b = q /\ (q * b + r) % b = r
OBVIOUS

\* A multiple below another is a whole unit below it.
LEMMA ProductsGrow ==
  ASSUME NEW p \in Nat, NEW q \in Nat, p < q, NEW b \in Nat
  PROVE  p * b + b <= q * b
OBVIOUS

LEMMA UnitEnds == ASSUME NEW i \in Nat, NEW b \in Nat, i >= 1  PROVE i * b = (i - 1) * b + b /\ (i - 1) * b \in Nat /\ i * b \in Nat
OBVIOUS

-----------------------------------------------------------------------------
\* The i-th whole unit of s.
UnitOf(s, i) == SubSeq(s, (i - 1) * UnitSize + 1, i * UnitSize)

\* s is the units in bl, and t after them.
CutInto(s, bl, t) ==
  /\ Len(s) = Len(bl) * UnitSize + Len(t)
  /\ \A i \in 1 .. Len(bl) : bl[i] = UnitOf(s, i)
  /\ t = SubSeq(s, Len(bl) * UnitSize + 1, Len(s))

\* Where the i-th of q units is.
LEMMA UnitPlace ==
  ASSUME NEW q \in Nat, NEW i \in 1 .. q
  PROVE  /\ (i - 1) * UnitSize \in Nat /\ i * UnitSize = (i - 1) * UnitSize + UnitSize /\ i * UnitSize \in Nat
         /\ i * UnitSize <= q * UnitSize /\ q * UnitSize \in Nat
<1>1. UnitSize \in Nat /\ i \in Nat /\ i >= 1
  BY UnitsAreUnits
<1>2. q * UnitSize \in Nat
  BY <1>1, Products
<1>3. (i - 1) * UnitSize \in Nat /\ i * UnitSize = (i - 1) * UnitSize + UnitSize /\ i * UnitSize \in Nat
  BY <1>1, UnitEnds
<1>4. CASE i = q
  BY <1>4, <1>2, <1>3
<1>5. CASE i # q
  <2>1. i < q
    BY <1>5
  <2>2. i * UnitSize + UnitSize <= q * UnitSize
    BY <2>1, <1>1, ProductsGrow
  <2> QED BY <2>2, <1>1, <1>2, <1>3
<1> QED BY <1>4, <1>5, <1>2, <1>3

\* Nothing read is no unit and no rest.
LEMMA CutNothing == CutInto(<<>>, <<>>, <<>>)
BY UnitsAreUnits DEF CutInto

\* What comes after lengthens the tail.
LEMMA CutLonger ==
  ASSUME NEW S, NEW s \in Seq(S), NEW t, NEW bl, Len(bl) \in Nat, CutInto(s, bl, t), NEW e \in Seq(S)
  PROVE  t \in Seq(S) /\ CutInto(s \o e, bl, t \o e)
<1> DEFINE q == Len(bl)
           m == q * UnitSize
<1>1. UnitSize \in Nat /\ q \in Nat
  BY UnitsAreUnits
<1>2. m \in Nat
  BY <1>1, Products
<1>3. Len(s) = m + Len(t) /\ t = SubSeq(s, m + 1, Len(s)) /\ \A i \in 1 .. q : bl[i] = UnitOf(s, i)
  BY DEF CutInto
<1> HIDE DEF m, q
<1>4. Len(t) \in Nat /\ t \in Seq(S)
  BY <1>2, <1>3
<1>5. Len(s \o e) = m + Len(t \o e)
  BY <1>3, <1>4, <1>2
<1>6. t \o e = SubSeq(s \o e, m + 1, Len(s \o e))
  <2>1. m + 1 \in Int /\ 1 <= m + 1 /\ m + 1 <= Len(s) + 1
    BY <1>2, <1>3, <1>4
  <2>2. Len(s \o e) = Len(s) + Len(e)
    OBVIOUS
  <2> QED BY <2>1, <2>2, <1>3, CrossSlice
<1>7. \A i \in 1 .. q : bl[i] = UnitOf(s \o e, i)
  <2> SUFFICES ASSUME NEW i \in 1 .. q  PROVE UnitOf(s, i) = UnitOf(s \o e, i)
    BY <1>3
  <2> DEFINE a == (i - 1) * UnitSize + 1
             b == i * UnitSize
  <2>0. (i - 1) * UnitSize \in Nat /\ b = (i - 1) * UnitSize + UnitSize /\ b \in Nat /\ b <= m
    BY UnitPlace, <1>1 DEF m
  <2>1. a \in Int /\ b \in Int /\ 1 <= a /\ a <= b + 1 /\ b <= Len(s)
    <3> DEFINE c == (i - 1) * UnitSize
    <3> HIDE DEF c, b
    <3>1. c \in Nat /\ b = c + UnitSize /\ b \in Nat /\ b <= m
      BY <2>0 DEF c
    <3>2. a = c + 1
      BY DEF c
    <3> QED BY <3>1, <3>2, <1>1, <1>2, <1>3, <1>4
  <2>2. UnitOf(s, i) = SubSeq(s, a, b) /\ UnitOf(s \o e, i) = SubSeq(s \o e, a, b)
    BY DEF UnitOf
  <2> HIDE DEF a, b
  <2> QED BY <2>1, <2>2, LeftSlice
<1> QED BY <1>4, <1>5, <1>6, <1>7 DEF CutInto, m, q

\* A tail as long as a unit is the next one.
LEMMA CutFull ==
  ASSUME NEW S, NEW s \in Seq(S), NEW T, NEW bl \in Seq(T), NEW t \in T, CutInto(s, bl, t), Len(t) = UnitSize
  PROVE  CutInto(s, Append(bl, t), <<>>)
<1> DEFINE q == Len(bl)
           m == q * UnitSize
<1>1. UnitSize \in Nat /\ q \in Nat
  BY UnitsAreUnits
<1>2. m \in Nat
  BY <1>1, Products
<1>3. (q + 1) * UnitSize = m + UnitSize
  <2>1. (q + 1) * UnitSize = q * UnitSize + 1 * UnitSize
    BY <1>1, Distributes
  <2> QED BY <2>1, <1>1
<1>4. Len(s) = m + UnitSize /\ t = SubSeq(s, m + 1, m + UnitSize) /\ \A i \in 1 .. q : bl[i] = UnitOf(s, i)
  BY DEF CutInto
<1>5. Len(Append(bl, t)) = q + 1 /\ Append(bl, t)[q + 1] = t /\ \A i \in 1 .. q : Append(bl, t)[i] = bl[i]
  OBVIOUS
<1>6. t = UnitOf(s, q + 1)
  <2>1. (q + 1) - 1 = q
    BY <1>1
  <2>2. UnitOf(s, q + 1) = SubSeq(s, q * UnitSize + 1, (q + 1) * UnitSize)
    BY <2>1 DEF UnitOf
  <2> QED BY <2>2, <1>3, <1>4
<1> HIDE DEF m, q
<1>7. \A i \in 1 .. q + 1 : Append(bl, t)[i] = UnitOf(s, i)
  <2> DEFINE w == Append(bl, t)
  <2>1. w[q + 1] = UnitOf(s, q + 1) /\ \A i \in 1 .. q : w[i] = UnitOf(s, i)
    BY <1>4, <1>5, <1>6
  <2> HIDE DEF w
  <2>2. \A i \in 1 .. q + 1 : w[i] = UnitOf(s, i)
    BY <1>1, <2>1
  <2> QED BY <2>2 DEF w
<1>8. <<>> = SubSeq(s, m + UnitSize + 1, m + UnitSize)
  BY <1>1, <1>2, <1>4
<1>9. Len(Append(bl, t)) * UnitSize = m + UnitSize /\ Len(<<>>) = 0 /\ Len(s) = m + UnitSize
  BY <1>3, <1>4, <1>5
<1>10. m + UnitSize = m + UnitSize + 0
  BY <1>1, <1>2
<1> QED BY <1>5, <1>7, <1>8, <1>9, <1>10 DEF CutInto

\* What is cut on its own goes after what was cut without a rest.
LEMMA CutJoins ==
  ASSUME NEW S, NEW s \in Seq(S), NEW T, NEW bl \in Seq(T), CutInto(s, bl, <<>>),
         NEW e \in Seq(S), NEW cl \in Seq(T), NEW t, CutInto(e, cl, t)
  PROVE  CutInto(s \o e, bl \o cl, t)
<1> DEFINE q == Len(bl)
           p == Len(cl)
           m == q * UnitSize
           k == p * UnitSize
<1>1. UnitSize \in Nat /\ q \in Nat /\ p \in Nat
  BY UnitsAreUnits
<1>2. m \in Nat /\ k \in Nat
  BY <1>1, Products
<1>3. (q + p) * UnitSize = m + k
  BY <1>1, Distributes
<1>4. Len(s) = m /\ \A i \in 1 .. q : bl[i] = UnitOf(s, i)
  BY <1>2 DEF CutInto
<1>5. Len(e) = k + Len(t) /\ t = SubSeq(e, k + 1, Len(e)) /\ \A i \in 1 .. p : cl[i] = UnitOf(e, i)
  BY DEF CutInto
<1>6. Len(bl \o cl) = q + p
  OBVIOUS
<1>7. \A i \in 1 .. q : (bl \o cl)[i] = UnitOf(s \o e, i)
  <2> SUFFICES ASSUME NEW i \in 1 .. q  PROVE UnitOf(s, i) = UnitOf(s \o e, i)
    BY <1>4, Joins
  <2> DEFINE a == (i - 1) * UnitSize + 1
             b == i * UnitSize
  <2>1. a \in Int /\ b \in Int /\ 1 <= a /\ a <= b + 1 /\ b <= Len(s)
    BY UnitPlace, <1>1, <1>4
  <2>2. UnitOf(s, i) = SubSeq(s, a, b) /\ UnitOf(s \o e, i) = SubSeq(s \o e, a, b)
    BY DEF UnitOf
  <2> HIDE DEF a, b
  <2> QED BY <2>1, <2>2, LeftSlice
<1>8. \A i \in 1 .. p : (bl \o cl)[q + i] = UnitOf(s \o e, q + i)
  <2> SUFFICES ASSUME NEW i \in 1 .. p  PROVE UnitOf(e, i) = UnitOf(s \o e, q + i)
    BY <1>5, Joins
  <2> DEFINE a == (i - 1) * UnitSize
             b == i * UnitSize
  <2>1. a \in Nat /\ b \in Nat /\ b = a + UnitSize /\ b <= k
    BY UnitPlace, <1>1
  <2>2. (q + i - 1) * UnitSize = m + a /\ (q + i) * UnitSize = m + b
    <3>1. q + i - 1 = q + (i - 1) /\ i - 1 \in Nat /\ i \in Nat
      BY <1>1
    <3> QED BY <3>1, <1>1, Distributes
  <2>3. UnitOf(e, i) = SubSeq(e, a + 1, b) /\ UnitOf(s \o e, q + i) = SubSeq(s \o e, m + a + 1, m + b)
    <3>1. UnitOf(e, i) = SubSeq(e, a + 1, b)
      BY DEF UnitOf
    <3> DEFINE u == s \o e
               j == q + i
    <3>2. (j - 1) * UnitSize = m + a /\ j * UnitSize = m + b
      BY <2>2
    <3> HIDE DEF q, m, a, b, u, j
    <3>3. UnitOf(u, j) = SubSeq(u, m + a + 1, m + b)
      BY <3>2 DEF UnitOf
    <3> QED BY <3>1, <3>3 DEF u, j
  <2> HIDE DEF a, b, m, k
  <2>4. Len(t) \in Nat
    BY <1>5, <1>2
  <2>5. a + 1 \in Int /\ 1 <= a + 1 /\ a + 1 <= b + 1 /\ b <= Len(e) /\ m + (a + 1) = m + a + 1
    BY <2>1, <2>4, <1>5, <1>1, <1>2
  <2>6. SubSeq(s \o e, Len(s) + (a + 1), Len(s) + b) = SubSeq(e, a + 1, b)
    <3> DEFINE f == a + 1
    <3>1. s \in Seq(S) /\ e \in Seq(S) /\ f \in Int /\ b \in Int /\ 1 <= f /\ f <= b + 1 /\ b <= Len(e)
      BY <2>1, <2>5
    <3> HIDE DEF f
    <3>2. SubSeq(s \o e, Len(s) + f, Len(s) + b) = SubSeq(e, f, b)
      BY ONLY <3>1, RightSlice
    <3> QED BY <3>2 DEF f
  <2> QED BY <2>3, <2>5, <2>6, <1>4
<1> HIDE DEF m, k, q, p
<1>9. \A i \in 1 .. q + p : (bl \o cl)[i] = UnitOf(s \o e, i)
  <2> DEFINE w == bl \o cl
             u == s \o e
  <2>0. (\A i \in 1 .. q : w[i] = UnitOf(u, i)) /\ \A i \in 1 .. p : w[q + i] = UnitOf(u, q + i)
    BY <1>7, <1>8
  <2> HIDE DEF w, u
  <2>1. \A i \in 1 .. q + p : w[i] = UnitOf(u, i)
    <3> SUFFICES ASSUME NEW i \in 1 .. q + p  PROVE w[i] = UnitOf(u, i)
      OBVIOUS
    <3>1. CASE i <= q
      <4>1. i \in 1 .. q
        BY <3>1, <1>1
      <4> QED BY <4>1, <2>0
    <3>2. CASE i > q
      <4> DEFINE j == i - q
      <4>1. j \in 1 .. p /\ i = q + j
        BY <3>2, <1>1
      <4> HIDE DEF j
      <4> QED BY <4>1, <2>0
    <3> QED BY <3>1, <3>2, <1>1
  <2> QED BY <2>1 DEF w, u
<1>10. Len(s \o e) = m + k + Len(t)
  <2>1. Len(s \o e) = Len(s) + Len(e)
    OBVIOUS
  <2>2. Len(t) \in Nat
    BY <1>5, <1>2
  <2>3. Len(s) = m /\ Len(e) = k + Len(t)
    BY <1>4, <1>5
  <2> QED BY <2>1, <2>2, <2>3, <1>2
<1>11. t = SubSeq(s \o e, m + k + 1, Len(s \o e))
  <2>1. Len(t) \in Nat
    BY <1>5, <1>2
  <2>2. k + 1 \in Int /\ 1 <= k + 1 /\ k + 1 <= Len(e) + 1 /\ Len(e) \in Int /\ m + (k + 1) = m + k + 1
    BY <2>1, <1>2, <1>5
  <2>3. SubSeq(s \o e, Len(s) + (k + 1), Len(s) + Len(e)) = SubSeq(e, k + 1, Len(e))
    <3> DEFINE a == k + 1
               b == Len(e)
    <3>1. a \in Int /\ b \in Int /\ 1 <= a /\ a <= b + 1 /\ b <= Len(e)
      BY <2>2
    <3> HIDE DEF a, b
    <3>2. SubSeq(s \o e, Len(s) + a, Len(s) + b) = SubSeq(e, a, b)
      BY <3>1, RightSlice
    <3> QED BY <3>2 DEF a, b
  <2>4. Len(s \o e) = Len(s) + Len(e)
    OBVIOUS
  <2> QED BY <2>2, <2>3, <2>4, <1>4, <1>5
<1> QED BY <1>3, <1>6, <1>9, <1>10, <1>11 DEF CutInto

-----------------------------------------------------------------------------
(* Units and GHASH of what is cut. *)

\* The units of a sequence of q whole ones and r more bytes.
LEMMA UnitsAre ==
  ASSUME NEW S, NEW s \in Seq(S), NEW q \in Nat, NEW r \in 0 .. UnitSize - 1, Len(s) = q * UnitSize + r
  PROVE  /\ DOMAIN Units(s) = 1 .. (IF r = 0 THEN q ELSE q + 1)
         /\ \A i \in 1 .. q : Units(s)[i] = UnitOf(s, i)
         /\ r > 0 => Units(s)[q + 1] = SubSeq(s, q * UnitSize + 1, Len(s))
<1> DEFINE m == q * UnitSize
           n == (Len(s) + UnitSize - 1) \div UnitSize
<1>1. UnitSize \in Nat \ {0} /\ m \in Nat /\ (q + 1) * UnitSize = m + UnitSize
  <2>1. (q + 1) * UnitSize = q * UnitSize + 1 * UnitSize /\ UnitSize \in Nat \ {0}
    BY UnitsAreUnits, Distributes
  <2> QED BY <2>1, Products
<1>2. n = IF r = 0 THEN q ELSE q + 1
  <2>1. CASE r = 0
    <3>1. UnitSize - 1 \in 0 .. UnitSize - 1 /\ Len(s) + UnitSize - 1 = q * UnitSize + (UnitSize - 1)
      BY <1>1, <2>1
    <3> QED BY <3>1, <2>1, <1>1, DivIs
  <2>2. CASE r # 0
    <3>1. r - 1 \in 0 .. UnitSize - 1 /\ Len(s) + UnitSize - 1 = (q + 1) * UnitSize + (r - 1) /\ q + 1 \in Nat
      BY <1>1, <2>2
    <3> QED BY <3>1, <2>2, <1>1, DivIs
  <2> QED BY <2>1, <2>2
<1>3. Units(s) = [i \in 1 .. n |-> SubSeq(s, (i - 1) * UnitSize + 1, Least(i * UnitSize, Len(s)))]
  BY DEF Units
<1> HIDE DEF n
<1>4. ASSUME NEW i \in 1 .. q  PROVE Units(s)[i] = UnitOf(s, i)
  <2>1. i \in 1 .. n
    BY <1>2
  <2>2. i * UnitSize <= m /\ i * UnitSize \in Nat
    BY UnitPlace
  <2> DEFINE b == i * UnitSize
  <2> HIDE DEF b, m
  <2>3. Least(b, Len(s)) = b
    BY <2>2, <1>1 DEF Least, b, m
  <2> QED BY <2>1, <2>3, <1>3 DEF b, UnitOf
<1>5. ASSUME r > 0  PROVE Units(s)[q + 1] = SubSeq(s, m + 1, Len(s))
  <2>1. q + 1 \in 1 .. n /\ (q + 1) - 1 = q
    BY <1>2, <1>5
  <2>2. Units(s)[q + 1] = SubSeq(s, q * UnitSize + 1, Least((q + 1) * UnitSize, Len(s)))
    BY <2>1, <1>3
  <2>3. Least((q + 1) * UnitSize, Len(s)) = Len(s)
    BY <1>1 DEF Least
  <2> QED BY <2>2, <2>3
<1> QED BY <1>2, <1>3, <1>4, <1>5 DEF n

\* Whole units are their own padding; a short one gets its zeros.
LEMMA GhashIs ==
  ASSUME NEW S, NEW s \in Seq(S), NEW bl \in Seq(Seq(S)), NEW t \in Seq(S), CutInto(s, bl, t), Len(t) < UnitSize
  PROVE  /\ DOMAIN Ghash(s) = 1 .. (IF t = <<>> THEN Len(bl) ELSE Len(bl) + 1)
         /\ \A i \in 1 .. Len(bl) : Ghash(s)[i] = bl[i]
         /\ t # <<>> => Ghash(s)[Len(bl) + 1] = t \o [j \in 1 .. UnitSize - Len(t) |-> <<"0">>]
<1> DEFINE q == Len(bl)
           r == Len(t)
<1>1. r \in 0 .. UnitSize - 1 /\ q \in Nat /\ Len(s) = q * UnitSize + r /\ (r = 0 <=> t = <<>>)
  <2>1. Len(s) = q * UnitSize + r
    BY DEF CutInto
  <2>2. r \in 0 .. UnitSize - 1
    BY UnitsAreUnits
  <2>3. r = 0 <=> t = <<>>
    OBVIOUS
  <2> QED BY <2>1, <2>2, <2>3
<1>2. /\ DOMAIN Units(s) = 1 .. (IF r = 0 THEN q ELSE q + 1)
      /\ \A i \in 1 .. q : Units(s)[i] = UnitOf(s, i)
      /\ r > 0 => Units(s)[q + 1] = t
  BY <1>1, UnitsAre DEF CutInto
<1>3. \A i \in 1 .. q : bl[i] = UnitOf(s, i) /\ UnitOf(s, i) \in Seq(S) /\ Len(UnitOf(s, i)) = UnitSize
  <2> SUFFICES ASSUME NEW i \in 1 .. q  PROVE UnitOf(s, i) \in Seq(S) /\ Len(UnitOf(s, i)) = UnitSize
    BY DEF CutInto
  <2> DEFINE a == (i - 1) * UnitSize
             b == i * UnitSize
             m == q * UnitSize
  <2>1. a \in Nat /\ b = a + UnitSize /\ b <= m /\ m \in Nat /\ UnitSize \in Nat
    BY UnitPlace, <1>1, UnitsAreUnits
  <2>2. UnitOf(s, i) = SubSeq(s, a + 1, b) /\ Len(s) = m + r
    BY <1>1 DEF UnitOf
  <2> HIDE DEF a, b, m
  <2> QED BY <2>1, <2>2, <1>1
<1> DEFINE pad(u) == u \o [j \in 1 .. UnitSize - Len(u) |-> <<"0">>]
<1>4. Ghash(s) = [i \in DOMAIN Units(s) |-> pad(Units(s)[i])]
  BY DEF Ghash
<1>5. ASSUME NEW u \in Seq(S), Len(u) = UnitSize  PROVE pad(u) = u
  <2>1. UnitSize - Len(u) = 0
    BY <1>5, UnitsAreUnits
  <2>2. [j \in 1 .. 0 |-> <<"0">>] = <<>>
    OBVIOUS
  <2>3. u \o <<>> = u
    OBVIOUS
  <2> QED BY <2>1, <2>2, <2>3
<1> HIDE DEF q, r, pad
<1>6. \A i \in 1 .. q : Ghash(s)[i] = bl[i]
  <2> SUFFICES ASSUME NEW i \in 1 .. q  PROVE Ghash(s)[i] = bl[i]
    OBVIOUS
  <2>1. i \in DOMAIN Units(s) /\ Units(s)[i] = bl[i]
    BY <1>1, <1>2, <1>3
  <2>2. bl[i] \in Seq(S) /\ Len(bl[i]) = UnitSize
    BY <1>3
  <2>3. pad(bl[i]) = bl[i]
    BY <2>2, <1>5
  <2> QED BY <2>1, <2>3, <1>4
<1>7. r > 0 => Ghash(s)[q + 1] = pad(t)
  BY <1>1, <1>2, <1>4
<1>8. DOMAIN Ghash(s) = 1 .. (IF r = 0 THEN q ELSE q + 1)
  BY <1>2, <1>4
<1> QED
  <2>1. DOMAIN Ghash(s) = 1 .. (IF t = <<>> THEN q ELSE q + 1)
    BY <1>1, <1>8
  <2>2. t # <<>> => Ghash(s)[q + 1] = pad(t)
    BY <1>1, <1>7
  <2> QED BY <2>1, <2>2, <1>6 DEF q, pad

\* GHASH of whole units is those units.
LEMMA GhashOfWhole ==
  ASSUME NEW S, NEW s \in Seq(S), NEW bl \in Seq(Seq(S)), CutInto(s, bl, <<>>)
  PROVE  Ghash(s) = bl
<1>1. UnitSize \in Nat \ {0} /\ Len(bl) \in Nat /\ DOMAIN bl = 1 .. Len(bl) /\ <<>> \in Seq(S) /\ Len(<<>>) = 0
  BY UnitsAreUnits
<1>2. Len(<<>>) < UnitSize
  BY <1>1
<1>3. DOMAIN Ghash(s) = 1 .. Len(bl) /\ \A i \in 1 .. Len(bl) : Ghash(s)[i] = bl[i]
  <2> DEFINE t == <<>>
  <2>1. t \in Seq(S) /\ CutInto(s, bl, t) /\ Len(t) < UnitSize /\ t = <<>>
    BY <1>1, <1>2
  <2> HIDE DEF t
  <2>2. DOMAIN Ghash(s) = 1 .. (IF t = <<>> THEN Len(bl) ELSE Len(bl) + 1)
    BY <2>1, GhashIs
  <2>3. \A i \in 1 .. Len(bl) : Ghash(s)[i] = bl[i]
    BY <2>1, GhashIs
  <2> QED BY <2>1, <2>2, <2>3
<1>4. Ghash(s) = [i \in 1 .. Len(bl) |-> bl[i]]
  <2>1. Ghash(s) = [i \in DOMAIN Ghash(s) |-> Ghash(s)[i]]
    BY DEF Ghash
  <2> QED BY <2>1, <1>3
<1> QED BY <1>4, <1>1

\* All the whole units of s, and what is left.
LEMMA WholeUnits ==
  ASSUME NEW S, NEW s \in Seq(S)
  PROVE  LET w == (Len(s) \div UnitSize) * UnitSize
         IN /\ Ghash(Upto(s, w)) \in Seq(Seq(S)) /\ Units(Upto(s, w)) = Ghash(Upto(s, w))
            /\ Rest(s, w) \in Seq(S) /\ Len(Rest(s, w)) < UnitSize
            /\ CutInto(s, Ghash(Upto(s, w)), Rest(s, w))
<1> DEFINE q == Len(s) \div UnitSize
           r == Len(s) % UnitSize
           w == q * UnitSize
           x == Upto(s, w)
           y == Rest(s, w)
           bl == [i \in 1 .. q |-> UnitOf(s, i)]
<1>1. q \in Nat /\ r \in 0 .. UnitSize - 1 /\ Len(s) = w + r /\ w \in Nat /\ UnitSize \in Nat \ {0} /\ Len(s) \in Nat
  <2>1. UnitSize \in Nat \ {0} /\ Len(s) \in Nat
    BY UnitsAreUnits
  <2> QED BY <2>1, DivMod, Products
<1> HIDE DEF q, r
<1>2. /\ x \in Seq(S) /\ Len(x) = w /\ y \in Seq(S) /\ Len(y) = r
      /\ y = SubSeq(s, w + 1, Len(s)) /\ x = SubSeq(s, 1, w)
  <2> HIDE DEF w
  <2> QED BY <1>1 DEF Upto, Rest
<1>3. ASSUME NEW i \in 1 .. q
      PROVE  UnitOf(s, i) \in Seq(S) /\ UnitOf(x, i) = UnitOf(s, i)
  <2> DEFINE a == (i - 1) * UnitSize
             b == i * UnitSize
  <2>1. a \in Nat /\ b = a + UnitSize /\ b <= w
    BY UnitPlace, <1>1
  <2>2. UnitOf(s, i) = SubSeq(s, a + 1, b) /\ UnitOf(x, i) = SubSeq(x, a + 1, b)
    BY DEF UnitOf
  <2> HIDE DEF a, b, w, x
  <2>3. a + 1 \in Int /\ b \in Int /\ 1 <= a + 1 /\ a + 1 <= b + 1 /\ b <= w /\ b <= Len(s)
    BY <2>1, <1>1
  <2>4. SubSeq(s, a + 1, b) \in Seq(S)
    BY <2>3, Slices
  <2>5. SubSeq(SubSeq(s, 1, w), a + 1, b) = SubSeq(s, a + 1, b)
    BY <2>3, <1>1
  <2> QED BY <2>2, <2>4, <2>5, <1>2
<1>4. bl \in Seq(Seq(S)) /\ Len(bl) = q
  BY <1>1, <1>3
<1>5. CutInto(x, bl, <<>>)
  <2>1. \A i \in 1 .. q : bl[i] = UnitOf(x, i)
    BY <1>3
  <2>2. Len(x) = Len(bl) * UnitSize + Len(<<>>)
    BY <1>1, <1>2, <1>4
  <2>3. <<>> = SubSeq(x, w + 1, Len(x))
    BY <1>1, <1>2
  <2> QED BY <2>1, <2>2, <2>3, <1>4 DEF CutInto
<1>6. Ghash(x) = bl
  BY <1>2, <1>4, <1>5, GhashOfWhole
<1>7. CutInto(s, bl, y)
  BY <1>1, <1>2, <1>4 DEF CutInto
<1>8. Units(x) = bl
  <2>1. 0 \in 0 .. UnitSize - 1 /\ Len(x) = q * UnitSize + 0
    BY <1>1, <1>2
  <2>2. DOMAIN Units(x) = 1 .. q /\ \A i \in 1 .. q : Units(x)[i] = UnitOf(x, i)
    BY <2>1, <1>1, <1>2, UnitsAre
  <2>3. Units(x) = [i \in DOMAIN Units(x) |-> Units(x)[i]]
    BY DEF Units
  <2> QED BY <2>2, <2>3, <1>3
<1> HIDE DEF bl, x, y
<1>9. /\ Ghash(x) \in Seq(Seq(S)) /\ Units(x) = Ghash(x) /\ y \in Seq(S) /\ Len(y) < UnitSize
      /\ CutInto(s, Ghash(x), y)
  BY <1>1, <1>2, <1>4, <1>6, <1>7, <1>8
<1> QED BY <1>9 DEF x, y, q

-----------------------------------------------------------------------------
(* GCM's incremental encryptor. *)

\* What it keeps of a ciphertext c over the bytes of B.
GcmAt(B, s, c) ==
  /\ s \in [at : Nat, blocks : Seq(Seq(B)), tail : Seq(B)]
  /\ s.at = Len(c)
  /\ Len(s.tail) < UnitSize
  /\ CutInto(c, s.blocks, s.tail)

\* Before the first byte nothing is hashed and nothing held.
LEMMA GcmStarts == ASSUME NEW B  PROVE GcmAt(B, GcmStart, <<>>)
<1>1. GcmStart \in [at : Nat, blocks : Seq(Seq(B)), tail : Seq(B)]
  BY DEF GcmStart
<1>2. Len(<<>>) = 0 /\ 0 < UnitSize
  BY UnitsAreUnits
<1> QED BY <1>1, <1>2, CutNothing DEF GcmAt, GcmStart

\* createIncrementalGcmEncryptor.update: a short rest is filled up first and
\* hashed when it is a unit, then whole units, and what is over is the new
\* rest, so GHASH is given whole units only, in order.
LEMMA GcmGoesOn ==
  ASSUME NEW S, NEW chunk \in Seq(S), NEW c \in Seq(XBytes(S)), NEW s, GcmAt(XBytes(S), s, c)
  PROVE  /\ GcmUpdate(s, chunk).out = XorFrom(chunk, Len(c))
         /\ GcmAt(XBytes(S), GcmUpdate(s, chunk).state, c \o XorFrom(chunk, Len(c)))
<1> DEFINE B      == XBytes(S)
           cipher == XorFrom(chunk, s.at)
           take   == IF s.tail = <<>> THEN 0 ELSE Least(UnitSize - Len(s.tail), Len(cipher))
           up     == Upto(cipher, take)
           tail   == s.tail \o up
           filled == Len(tail) = UnitSize
           body   == Rest(cipher, take)
           whole  == (Len(body) \div UnitSize) * UnitSize
           over   == Rest(body, whole)
           last   == IF over # <<>> THEN over ELSE IF filled THEN <<>> ELSE tail
           full   == IF filled THEN Ghash(tail) ELSE <<>>
           units  == Ghash(Upto(body, whole))
           blocks == s.blocks \o full \o units
<1>1. GcmUpdate(s, chunk) = [state |-> [at |-> s.at + Len(chunk), blocks |-> blocks, tail |-> last], out |-> cipher]
  BY DEF GcmUpdate
<1>2. /\ s.at = Len(c) /\ s.blocks \in Seq(Seq(B)) /\ s.tail \in Seq(B) /\ Len(s.tail) < UnitSize
      /\ CutInto(c, s.blocks, s.tail)
  BY DEF GcmAt
<1>3. UnitSize \in Nat \ {0} /\ Len(chunk) \in Nat /\ Len(c) \in Nat /\ Len(s.tail) \in Nat /\ c \in Seq(B)
  BY <1>2, UnitsAreUnits
<1>4. cipher \in Seq(B) /\ Len(cipher) = Len(chunk)
  BY <1>2, <1>3, Xored
<1> HIDE DEF B, cipher
<1>5. take \in Nat /\ take <= Len(cipher) /\ take <= UnitSize
  BY <1>2, <1>3, <1>4 DEF Least
<1>6. up \in Seq(B) /\ body \in Seq(B) /\ cipher = up \o body /\ Len(up) = take /\ Len(body) = Len(cipher) - take
  <2> HIDE DEF take
  <2>1. up = SubSeq(cipher, 1, take) /\ body = SubSeq(cipher, take + 1, Len(cipher))
    BY DEF Upto, Rest
  <2>2. Len(cipher) \in Nat
    BY <1>4
  <2> HIDE DEF up, body
  <2> QED BY <2>1, <1>4, <1>5, Splits
<1>7. tail \in Seq(B) /\ Len(tail) = Len(s.tail) + take
  <2> HIDE DEF take, up
  <2> DEFINE x == s.tail
  <2>1. tail = x \o up /\ x \in Seq(B)
    BY <1>2
  <2> HIDE DEF x, tail
  <2>2. tail \in Seq(B) /\ Len(tail) = Len(x) + take
    BY <2>1, <1>6, Joins
  <2> QED BY <2>2 DEF x
<1>8. /\ units \in Seq(Seq(B)) /\ over \in Seq(B) /\ Len(over) < UnitSize /\ CutInto(body, units, over)
  <2> HIDE DEF body
  <2> QED BY <1>6, WholeUnits
<1>9. CutInto(c \o up, s.blocks, tail)
  <2> HIDE DEF up
  <2> QED BY <1>2, <1>3, <1>6, CutLonger
<1>10. c \o cipher = (c \o up) \o body /\ c \o up \in Seq(B)
  <2> HIDE DEF up, body
  <2> QED BY <1>3, <1>6
<1> DEFINE Stays == /\ blocks \in Seq(Seq(B)) /\ last \in Seq(B) /\ Len(last) < UnitSize
                   /\ CutInto(c \o cipher, blocks, last)
<1>11. ASSUME filled  PROVE Stays
  <2>1. full = <<tail>> /\ full \in Seq(Seq(B))
    <3> HIDE DEF tail
    <3>1. CutInto(tail, <<>>, tail)
      <4>1. Len(<<>>) = 0 /\ 0 * UnitSize = 0
        BY <1>3
      <4>2. tail = SubSeq(tail, 1, Len(tail)) /\ Len(tail) = 0 + Len(tail)
        BY <1>7
      <4> QED BY <4>1, <4>2 DEF CutInto
    <3>2. <<>> \in Seq(Seq(B)) /\ tail \in Seq(B)
      BY <1>7
    <3>3. CutInto(tail, Append(<<>>, tail), <<>>)
      BY <3>1, <3>2, <1>11, CutFull
    <3>4. Append(<<>>, tail) = <<tail>> /\ <<tail>> \in Seq(Seq(B))
      BY <1>7
    <3> QED BY <3>3, <3>4, <1>7, <1>11, GhashOfWhole
  <2>2. CutInto(c \o up, Append(s.blocks, tail), <<>>)
    <3> HIDE DEF up, tail
    <3> QED BY <1>2, <1>7, <1>9, <1>10, <1>11, CutFull
  <2>3. last = over
    <3> HIDE DEF over, tail
    <3> QED BY <1>11
  <2>4. blocks = Append(s.blocks, tail) \o units /\ Append(s.blocks, tail) \in Seq(Seq(B))
    <3> HIDE DEF full, units, tail
    <3> DEFINE b == s.blocks
    <3>1. b \in Seq(Seq(B)) /\ blocks = b \o full \o units
      BY <1>2
    <3> HIDE DEF b, blocks
    <3>2. b \o <<tail>> = Append(b, tail) /\ Append(b, tail) \in Seq(Seq(B))
      BY <3>1, <1>7
    <3> QED BY <3>1, <3>2, <2>1 DEF b
  <2> HIDE DEF up, tail, body, units, over, full, last, blocks
  <2>5. CutInto((c \o up) \o body, blocks, over)
    BY <2>2, <2>4, <1>6, <1>8, <1>10, CutJoins
  <2>6. blocks \in Seq(Seq(B))
    BY <2>4, <1>8
  <2> QED BY <2>3, <2>5, <2>6, <1>8, <1>10
<1>12. ASSUME ~filled, s.tail = <<>>  PROVE Stays
  <2>1. take = 0
    BY <1>12
  <2>2. up = <<>> /\ tail = <<>>
    <3> HIDE DEF take, up, tail
    <3>1. up = <<>>
      BY <2>1, <1>6
    <3>2. tail = <<>>
      BY <2>1, <1>7, <1>12
    <3> QED BY <3>1, <3>2
  <2> HIDE DEF take, up, tail, filled
  <2>3. last = over /\ full = <<>>
    BY <1>12, <2>2
  <2>4. c \o up = c
    BY <2>2, <1>3
  <2> HIDE DEF body, units, over, full, last
  <2>5. blocks = s.blocks \o units
    BY <2>3, <1>2, <1>8
  <2>6. CutInto(c, s.blocks, <<>>)
    BY <1>2, <1>12
  <2> HIDE DEF blocks
  <2>7. CutInto(c \o body, blocks, over)
    BY <2>5, <2>6, <1>2, <1>3, <1>6, <1>8, CutJoins
  <2>8. blocks \in Seq(Seq(B))
    BY <2>5, <1>2, <1>8
  <2> QED BY <2>3, <2>4, <2>7, <2>8, <1>8, <1>10
<1>13. ASSUME ~filled, s.tail # <<>>  PROVE Stays
  <2>1. take = Len(cipher) /\ Len(tail) < UnitSize
    <3>1. take = Least(UnitSize - Len(s.tail), Len(cipher))
      BY <1>13
    <3> HIDE DEF take, tail
    <3>2. Len(tail) # UnitSize
      BY <1>13
    <3> DEFINE x == Len(s.tail)
               y == Len(cipher)
    <3>3. x \in Nat /\ y \in Nat /\ x < UnitSize /\ UnitSize \in Nat /\ Len(tail) = x + take /\ take \in Nat
      BY <1>2, <1>3, <1>4, <1>5, <1>7
    <3>4. take = Least(UnitSize - x, y)
      BY <3>1
    <3> HIDE DEF x, y
    <3>5. take = y /\ Len(tail) < UnitSize
      BY <3>2, <3>3, <3>4 DEF Least
    <3> QED BY <3>5 DEF y
  <2> HIDE DEF take, up, tail
  <2>2. body = <<>> /\ Len(body) = 0
    <3> HIDE DEF body
    <3> QED BY <2>1, <1>4, <1>6
  <2> HIDE DEF body
  <2>3. whole = 0
    <3>1. 0 \div UnitSize = 0
      BY <1>3
    <3> QED BY <2>2, <3>1, <1>3
  <2> HIDE DEF whole
  <2>4. over = <<>> /\ Upto(body, whole) = <<>>
    BY <2>2, <2>3 DEF Rest, Upto
  <2> HIDE DEF over
  <2>5. units = <<>>
    <3>1. <<>> \in Seq(B) /\ <<>> \in Seq(Seq(B))
      OBVIOUS
    <3> QED BY <2>4, <3>1, CutNothing, GhashOfWhole
  <2>6. last = tail /\ full = <<>>
    BY <1>13, <2>4
  <2> HIDE DEF units, full, last
  <2>7. blocks = s.blocks
    BY <2>5, <2>6, <1>2
  <2> HIDE DEF blocks
  <2>8. c \o cipher = c \o up
    BY <2>2, <1>6, <1>10
  <2> QED BY <2>1, <2>6, <2>7, <2>8, <1>2, <1>7, <1>9
<1>14. Stays
  <2> HIDE DEF Stays, filled
  <2> QED BY <1>11, <1>12, <1>13
<1> HIDE DEF blocks, last
<1>15. GcmAt(B, [at |-> s.at + Len(chunk), blocks |-> blocks, tail |-> last], c \o cipher)
  <2>1. s.at + Len(chunk) = Len(c \o cipher) /\ s.at + Len(chunk) \in Nat
    <3>1. Len(c \o cipher) = Len(c) + Len(cipher)
      BY <1>3, <1>4
    <3> QED BY <3>1, <1>2, <1>3, <1>4
  <2> QED BY <2>1, <1>14 DEF GcmAt
<1> QED BY <1>1, <1>15, <1>2 DEF B, cipher

\* The tag is over the whole ciphertext: what was hashed on the way and the
\* rest, padded, are its blocks.
LEMMA GhashSplits ==
  ASSUME NEW B, NEW c \in Seq(B), NEW s, GcmAt(B, s, c)
  PROVE  Ghash(c) = s.blocks \o Ghash(s.tail)
<1> DEFINE bl  == s.blocks
           t   == s.tail
           pad == t \o [j \in 1 .. UnitSize - Len(t) |-> <<"0">>]
           T   == Seq(B) \cup {pad}
           x   == Ghash(t)
           z   == Ghash(c)
<1>1. bl \in Seq(Seq(B)) /\ t \in Seq(B) /\ Len(t) < UnitSize /\ CutInto(c, bl, t)
  BY DEF GcmAt
<1> HIDE DEF bl, t
<1>2. /\ DOMAIN z = 1 .. (IF t = <<>> THEN Len(bl) ELSE Len(bl) + 1)
      /\ \A i \in 1 .. Len(bl) : z[i] = bl[i]
      /\ t # <<>> => z[Len(bl) + 1] = pad
  BY <1>1, GhashIs
<1>3. /\ DOMAIN x = 1 .. (IF t = <<>> THEN 0 ELSE 1)
      /\ t # <<>> => x[1] = pad
  <2> DEFINE none == <<>>
  <2>1. none \in Seq(Seq(B)) /\ Len(none) = 0
    OBVIOUS
  <2>2. CutInto(t, none, t)
    <3>1. Len(t) = 0 * UnitSize + Len(t) /\ t = SubSeq(t, 0 * UnitSize + 1, Len(t))
      <4>1. 0 * UnitSize = 0
        BY UnitsAreUnits
      <4> QED BY <4>1, <1>1
    <3> QED BY <2>1, <3>1 DEF CutInto
  <2> HIDE DEF none
  <2>3. /\ DOMAIN x = 1 .. (IF t = <<>> THEN Len(none) ELSE Len(none) + 1)
        /\ \A i \in 1 .. Len(none) : x[i] = none[i]
        /\ t # <<>> => x[Len(none) + 1] = pad
    <3>1. t \in Seq(B) /\ none \in Seq(Seq(B)) /\ CutInto(t, none, t) /\ Len(t) < UnitSize
      BY <1>1, <2>1, <2>2
    <3> QED BY <3>1, GhashIs
  <2>4. Len(none) = 0 /\ Len(none) + 1 = 1
    BY <2>1
  <2> HIDE DEF x, pad
  <2>5. DOMAIN x = 1 .. (IF t = <<>> THEN 0 ELSE 1)
    BY <2>3, <2>4
  <2> QED BY <2>3, <2>4, <2>5
<1>4. x = [i \in DOMAIN x |-> x[i]] /\ z = [i \in DOMAIN z |-> z[i]]
  BY DEF Ghash
<1>5. pad \in T /\ \A u \in Seq(B) : u \in T
  OBVIOUS
<1> HIDE DEF x, z, pad, T
<1>6. bl \in Seq(T) /\ Len(bl) \in Nat /\ \A i \in 1 .. Len(bl) : bl[i] \in T
  BY <1>1, <1>5
<1>7. x \in Seq(T) /\ Len(x) = IF t = <<>> THEN 0 ELSE 1
  <2>1. CASE t = <<>>
    BY <2>1, <1>3, <1>4
  <2>2. CASE t # <<>>
    <3>1. x = [i \in 1 .. 1 |-> x[i]] /\ \A i \in 1 .. 1 : x[i] \in T
      BY <2>2, <1>3, <1>4, <1>5
    <3> QED BY <2>2, <3>1
  <2> QED BY <2>1, <2>2
<1>8. z \in Seq(T) /\ Len(z) = Len(bl) + Len(x)
  <2>1. CASE t = <<>>
    BY <2>1, <1>2, <1>4, <1>6, <1>7
  <2>2. CASE t # <<>>
    <3>1. \A i \in 1 .. Len(bl) + 1 : z[i] \in T
      BY <2>2, <1>2, <1>5, <1>6
    <3> QED BY <2>2, <3>1, <1>2, <1>4, <1>6, <1>7
  <2> QED BY <2>1, <2>2
<1>9. \A i \in 1 .. Len(x) : z[Len(bl) + i] = x[i]
  <2> SUFFICES ASSUME NEW i \in 1 .. Len(x)  PROVE z[Len(bl) + i] = x[i]
    OBVIOUS
  <2>1. t # <<>> /\ i = 1
    BY <1>7
  <2> QED BY <2>1, <1>2, <1>3
<1>10. bl \o x = z
  BY <1>2, <1>6, <1>7, <1>8, <1>9, JoinIs
<1> QED BY <1>10 DEF bl, x, z, t


\* gcmDecrypt gives back what has the tag of its ciphertext.
LEMMA GcmOpens ==
  ASSUME NEW S, NEW s \in Seq(S), NEW sealed,
         sealed = XorFrom(s, 0) \o <<Tag(Ghash(XorFrom(s, 0)), Len(s))>>
  PROVE  GcmDecrypt(sealed) = [ok |-> TRUE, out |-> s]
<1> DEFINE c   == XorFrom(s, 0)
           tag == Tag(Ghash(c), Len(s))
           B   == XBytes(S) \cup {tag}
           n   == Len(s)
<1>1. n \in Nat /\ Len(c) = n /\ c \in Seq(XBytes(S)) /\ \A i \in 1 .. n : c[i] = <<"x", s[i], i - 1>>
  BY Xored
<1>2. DOMAIN c = 1 .. n
  BY <1>1
<1> DEFINE X == XBytes(S)
<1> HIDE DEF c, n, X
<1>3. c \in Seq(B) /\ tag \in B
  BY <1>1 DEF X
<1> HIDE DEF B, tag
<1>4. sealed = c \o <<tag>>
  BY DEF c, tag
<1>5. Len(sealed) = n + 1 /\ sealed[n + 1] = tag /\ SubSeq(sealed, 1, n) = c
  <2>1. <<tag>> \in Seq(B) /\ Len(<<tag>>) = 1 /\ <<tag>>[1] = tag
    BY <1>3
  <2>2. Len(c \o <<tag>>) = n + 1
    BY <1>1, <1>3, <2>1
  <2>3. (c \o <<tag>>)[n + 1] = tag
    BY <1>1, <1>3, <2>1
  <2>4. SubSeq(c \o <<tag>>, 1, n) = c
    BY <1>1, <1>3, <2>1
  <2> QED BY <1>4, <2>2, <2>3, <2>4
<1>6. Upto(sealed, Len(sealed) - 1) = c
  <2>1. Len(sealed) - 1 = n
    BY <1>1, <1>5
  <2> QED BY <2>1, <1>5 DEF Upto
<1>7. Len(sealed) > 0 /\ sealed[Len(sealed)] = Tag(Ghash(c), Len(c))
  BY <1>1, <1>5 DEF tag, n
<1>8. [i \in DOMAIN c |-> c[i][2]] = s
  <2>1. s = [i \in 1 .. n |-> s[i]]
    BY DEF n
  <2> QED BY <2>1, <1>1, <1>2
<1> QED BY <1>6, <1>7, <1>8 DEF GcmDecrypt

-----------------------------------------------------------------------------
(* The block modes: blocks. *)

Octets   == 0 .. Radix - 1
OneBlock == [1 .. BlockSize -> Octets]

\* The blocks of the cipher, and what Xor is to a byte.
LEMMA BlocksAre ==
  /\ BlockSize \in Nat /\ BlockSize > 0 /\ Radix \in Nat /\ BlockSize < Radix
  /\ Iv \in OneBlock
  /\ \A a, b \in Octets : Xor(a, b) \in Octets /\ Xor(Xor(a, b), b) = a
  /\ \A b \in OneBlock : /\ EncryptBlock(b) \in OneBlock /\ DecryptBlock(b) \in OneBlock
                         /\ DecryptBlock(EncryptBlock(b)) = b
<1>1. BlockSize \in Nat /\ BlockSize > 0 /\ Radix \in Nat /\ BlockSize < Radix
  BY BlocksAreBlocks
<1>2. Iv \in OneBlock
  BY BlocksAreBlocks DEF Octets, OneBlock
<1>3. \A a, b \in Octets : Xor(a, b) \in Octets /\ Xor(Xor(a, b), b) = a
  BY BlocksAreBlocks DEF Octets
<1>4. \A b \in OneBlock : /\ EncryptBlock(b) \in OneBlock /\ DecryptBlock(b) \in OneBlock
                           /\ DecryptBlock(EncryptBlock(b)) = b
  BY BlocksAreBlocks DEF Octets, OneBlock
<1> QED BY <1>1, <1>2, <1>3, <1>4

\* Where the i-th of q blocks is.
LEMMA BlockEnds ==
  ASSUME NEW q \in Nat, NEW i \in 1 .. q
  PROVE  /\ (i - 1) * BlockSize \in Nat /\ i * BlockSize = (i - 1) * BlockSize + BlockSize /\ i * BlockSize \in Nat
         /\ i * BlockSize <= q * BlockSize /\ q * BlockSize \in Nat
<1>1. BlockSize \in Nat /\ i \in Nat /\ i >= 1
  BY BlocksAre
<1>2. q * BlockSize \in Nat
  BY <1>1, Products
<1>3. (i - 1) * BlockSize \in Nat /\ i * BlockSize = (i - 1) * BlockSize + BlockSize /\ i * BlockSize \in Nat
  BY <1>1, UnitEnds
<1>4. CASE i = q
  BY <1>4, <1>2, <1>3
<1>5. CASE i # q
  <2>1. i < q
    BY <1>5
  <2>2. i * BlockSize + BlockSize <= q * BlockSize
    BY <2>1, <1>1, ProductsGrow
  <2> QED BY <2>2, <1>1, <1>2, <1>3
<1> QED BY <1>4, <1>5, <1>2, <1>3

\* A position is one of a block, at one offset.
LEMMA PositionIs ==
  ASSUME NEW n \in Nat, NEW j \in 1 .. BlockSize
  PROVE  BlockOf(n * BlockSize + j) = n + 1 /\ OffsetOf(n * BlockSize + j) = j
<1>1. BlockSize \in Nat \ {0} /\ j - 1 \in 0 .. BlockSize - 1 /\ n * BlockSize \in Nat
  BY BlocksAre, Products
<1>2. (n * BlockSize + (j - 1)) \div BlockSize = n /\ (n * BlockSize + (j - 1)) % BlockSize = j - 1
  BY <1>1, DivIs
<1> DEFINE m == n * BlockSize
<1>3. m + j - 1 = m + (j - 1)
  <2> HIDE DEF m
  <2> QED BY <1>1 DEF m
<1> QED BY <1>1, <1>2, <1>3 DEF BlockOf, OffsetOf

LEMMA PositionOf ==
  ASSUME NEW at \in Nat, at > 0
  PROVE  /\ BlockOf(at) \in Nat /\ BlockOf(at) > 0 /\ OffsetOf(at) \in 1 .. BlockSize
         /\ at = (BlockOf(at) - 1) * BlockSize + OffsetOf(at)
<1> DEFINE q == (at - 1) \div BlockSize
           r == (at - 1) % BlockSize
<1>1. BlockSize \in Nat \ {0} /\ at - 1 \in Nat
  BY BlocksAre
<1>2. q \in Nat /\ r \in 0 .. BlockSize - 1 /\ at - 1 = q * BlockSize + r
  BY <1>1, DivMod
<1>3. BlockOf(at) = q + 1 /\ OffsetOf(at) = r + 1
  BY DEF BlockOf, OffsetOf
<1> HIDE DEF q, r
<1>4. q * BlockSize \in Nat /\ BlockOf(at) - 1 = q
  BY <1>1, <1>2, <1>3, Products
<1> DEFINE m == q * BlockSize
<1>5. (BlockOf(at) - 1) * BlockSize = m
  BY <1>4
<1>6. m \in Nat /\ at - 1 = m + r
  BY <1>2, <1>4
<1> HIDE DEF m
<1> QED BY <1>1, <1>2, <1>3, <1>5, <1>6

\* A position up to the end of q blocks is in one of them.
LEMMA PositionUpto ==
  ASSUME NEW q \in Nat, NEW at \in Nat, at > 0, at <= q * BlockSize
  PROVE  BlockOf(at) \in 1 .. q
<1>1. /\ BlockOf(at) \in Nat /\ BlockOf(at) > 0 /\ OffsetOf(at) \in 1 .. BlockSize
      /\ at = (BlockOf(at) - 1) * BlockSize + OffsetOf(at)
  BY PositionOf
<1>2. BlockSize \in Nat
  BY BlocksAre
<1> SUFFICES ASSUME BlockOf(at) > q  PROVE FALSE
  BY <1>1
<1> DEFINE p == BlockOf(at) - 1
<1>3. p \in Nat /\ q <= p
  BY <1>1
<1>4. q * BlockSize <= p * BlockSize /\ q * BlockSize \in Nat /\ p * BlockSize \in Nat
  <2>1. CASE q = p
    BY <2>1, <1>2, Products
  <2>2. CASE q # p
    <3>1. q < p
      BY <2>2, <1>3
    <3> HIDE DEF p
    <3>2. q * BlockSize + BlockSize <= p * BlockSize
      BY <3>1, <1>2, <1>3, ProductsGrow
    <3>3. q * BlockSize \in Nat /\ p * BlockSize \in Nat
      BY <1>2, <1>3, Products
    <3> QED BY <3>2, <3>3, <1>2
  <2> QED BY <2>1, <2>2
<1>5. at = p * BlockSize + OffsetOf(at)
  BY <1>1
<1> HIDE DEF p
<1> QED BY <1>1, <1>2, <1>4, <1>5

\* A block of a sequence.
LEMMA BlockIs ==
  ASSUME NEW S, NEW s \in Seq(S), NEW q \in Nat, q * BlockSize <= Len(s), NEW i \in 1 .. q
  PROVE  /\ Block(s, i) \in [1 .. BlockSize -> S]
         /\ \A j \in 1 .. BlockSize : Block(s, i)[j] = s[(i - 1) * BlockSize + j]
<1> DEFINE m == (i - 1) * BlockSize
<1>1. m \in Nat /\ i * BlockSize = m + BlockSize /\ m + BlockSize <= Len(s) /\ BlockSize \in Nat
  BY BlockEnds, BlocksAre
<1> HIDE DEF m
<1>2. /\ SubSeq(s, m + 1, m + BlockSize) \in Seq(S) /\ Len(SubSeq(s, m + 1, m + BlockSize)) = BlockSize
      /\ \A j \in 1 .. BlockSize : SubSeq(s, m + 1, m + BlockSize)[j] = s[m + j]
  BY <1>1
<1>3. Block(s, i) = SubSeq(s, m + 1, m + BlockSize)
  BY <1>1 DEF Block, m
<1> DEFINE b == SubSeq(s, m + 1, m + BlockSize)
<1> HIDE DEF b
<1>4. b \in [1 .. BlockSize -> S]
  <2>1. b \in Seq(S) /\ Len(b) = BlockSize
    BY <1>2 DEF b
  <2>2. b \in [1 .. Len(b) -> S]
    BY <2>1
  <2> QED BY <2>1, <2>2
<1> QED BY <1>2, <1>3, <1>4 DEF m, b

\* Two blocks xored are a block, and xored again the first.
LEMMA XorSeqIs ==
  ASSUME NEW a \in OneBlock, NEW b \in OneBlock
  PROVE  XorSeq(a, b) \in OneBlock /\ XorSeq(XorSeq(a, b), b) = a
         /\ \A j \in 1 .. BlockSize : XorSeq(a, b)[j] = Xor(a[j], b[j])
<1>1. XorSeq(a, b) = [j \in 1 .. BlockSize |-> Xor(a[j], b[j])]
  BY DEF XorSeq, OneBlock
<1>2. XorSeq(a, b) \in OneBlock
  BY <1>1, BlocksAre DEF OneBlock
<1>3. XorSeq(XorSeq(a, b), b) = [j \in 1 .. BlockSize |-> Xor(XorSeq(a, b)[j], b[j])]
  BY <1>2 DEF XorSeq, OneBlock
<1>4. \A j \in 1 .. BlockSize : Xor(XorSeq(a, b)[j], b[j]) = a[j]
  BY <1>1, BlocksAre DEF OneBlock
<1>5. a = [j \in 1 .. BlockSize |-> a[j]]
  BY DEF OneBlock
<1> QED BY <1>1, <1>2, <1>3, <1>4, <1>5

-----------------------------------------------------------------------------
(* ECB and CBC over whole blocks. *)

SealedRun(mode, D, f) ==
  f = [i \in 0 .. Len(D) \div BlockSize |->
         IF i = 0 THEN Iv
         ELSE EncryptBlock(IF mode = "cbc" THEN XorSeq(Block(D, i), f[i - 1]) ELSE Block(D, i))]
SealedBlocks(mode, D) == CHOOSE f : SealedRun(mode, D, f)

\* How many whole blocks there are.
LEMMA WholeBlocks ==
  ASSUME NEW S, NEW D \in Seq(S)
  PROVE  /\ Len(D) \div BlockSize \in Nat /\ (Len(D) \div BlockSize) * BlockSize \in Nat
         /\ (Len(D) \div BlockSize) * BlockSize <= Len(D)
         /\ Whole(D) => (Len(D) \div BlockSize) * BlockSize = Len(D)
<1> DEFINE q == Len(D) \div BlockSize
           m == q * BlockSize
<1>1. Len(D) \in Nat /\ BlockSize \in Nat \ {0}
  BY BlocksAre
<1>2. q \in Nat /\ Len(D) % BlockSize \in 0 .. BlockSize - 1 /\ Len(D) = m + (Len(D) % BlockSize)
  BY <1>1, DivMod
<1> HIDE DEF q
<1>3. m \in Nat
  BY <1>1, <1>2, Products
<1> HIDE DEF m
<1>4. m <= Len(D) /\ (Whole(D) => m = Len(D))
  BY <1>1, <1>2, <1>3 DEF Whole
<1> QED BY <1>2, <1>3, <1>4 DEF q, m

\* The blocks ECB and CBC seal one after another, as the recursion gives them.
LEMMA SealedAre ==
  ASSUME NEW mode, NEW D \in Seq(Octets)
  PROVE  LET f == SealedBlocks(mode, D) N == Len(D) \div BlockSize
         IN /\ f \in [0 .. N -> OneBlock] /\ f[0] = Iv
            /\ \A i \in 1 .. N : f[i] = EncryptBlock(IF mode = "cbc" THEN XorSeq(Block(D, i), f[i - 1]) ELSE Block(D, i))
<1> DEFINE N == Len(D) \div BlockSize
           Body(x, i) == EncryptBlock(IF mode = "cbc" THEN XorSeq(Block(D, i), x) ELSE Block(D, i))
           g == [p \in OneBlock \X (1 .. N) |-> Body(p[1], p[2])]
           s == SealedBlocks(mode, D)
<1>1. N \in Nat /\ N * BlockSize <= Len(D)
  BY WholeBlocks
<1>2. ASSUME NEW f  PROVE SealedRun(mode, D, f) <=> f = [i \in 0 .. N |-> IF i = 0 THEN Iv ELSE Body(f[i - 1], i)]
  BY DEF SealedRun
<1>3. \A i \in 1 .. N : Block(D, i) \in OneBlock
  <2> HIDE DEF N
  <2> QED BY <1>1, BlockIs DEF OneBlock
<1> HIDE DEF N
<1>4. ASSUME NEW x \in OneBlock, NEW i \in 1 .. N  PROVE Body(x, i) \in OneBlock
  <2>1. CASE mode = "cbc"
    BY <2>1, <1>3, BlocksAre, XorSeqIs
  <2>2. CASE mode # "cbc"
    BY <2>2, <1>3, BlocksAre
  <2> QED BY <2>1, <2>2
<1> HIDE DEF Body
<1>5. g \in [OneBlock \X (1 .. N) -> OneBlock]
  BY <1>4
<1>6. ASSUME NEW x \in OneBlock, NEW i \in 1 .. N  PROVE g[<<x, i>>] = Body(x, i)
  OBVIOUS
<1> HIDE DEF g
<1>7. PICK h : RunsFrom(h, OneBlock, Iv, N, g)
  BY <1>1, <1>5, BlocksAre, Recursion
<1>8. h \in [0 .. N -> OneBlock] /\ h[0] = Iv /\ \A i \in 1 .. N : h[i] = g[<<h[i - 1], i>>]
  BY <1>7 DEF RunsFrom
<1>9. \A i \in 1 .. N : h[i] = Body(h[i - 1], i)
  <2> SUFFICES ASSUME NEW i \in 1 .. N  PROVE h[i] = Body(h[i - 1], i)
    OBVIOUS
  <2>1. h[i - 1] \in OneBlock
    BY <1>1, <1>8
  <2> QED BY <2>1, <1>6, <1>8
<1>10. SealedRun(mode, D, h)
  <2>1. h = [i \in 0 .. N |-> h[i]]
    BY <1>8
  <2>2. \A i \in 0 .. N : h[i] = IF i = 0 THEN Iv ELSE Body(h[i - 1], i)
    BY <1>1, <1>8, <1>9
  <2>3. h = [i \in 0 .. N |-> IF i = 0 THEN Iv ELSE Body(h[i - 1], i)]
    BY <2>1, <2>2
  <2> QED BY <2>3, <1>2
<1>11. SealedRun(mode, D, s)
  BY <1>10 DEF SealedBlocks
<1> HIDE DEF s
<1>12. s = [i \in 0 .. N |-> IF i = 0 THEN Iv ELSE Body(s[i - 1], i)]
  BY <1>2, <1>11
<1>13. s[0] = Iv /\ \A i \in 1 .. N : s[i] = Body(s[i - 1], i)
  BY <1>1, <1>12
<1>14. \A i \in 0 .. N : s[i] = h[i]
  <2>1. GoAlike(s, h, N)
    BY <1>8, <1>9, <1>13 DEF GoAlike
  <2> QED BY <1>1, <2>1, SameRuns
<1>15. s \in [0 .. N -> OneBlock]
  BY <1>8, <1>12, <1>14
<1> QED BY <1>13, <1>15 DEF s, Body, N

\* The i-th block that comes out, and what the next is chained to.
OpenedBlock(mode, D, i) ==
  LET plain == DecryptBlock(Block(D, i))
  IN IF mode = "ecb" THEN plain ELSE XorSeq(plain, IF i = 1 THEN Iv ELSE Block(D, i - 1))
MadeBlock(c, D, i) ==
  IF c.direction = "encrypt" THEN SealedBlocks(c.mode, D)[i] ELSE OpenedBlock(c.mode, D, i)
Chained(c, D, i) ==
  IF c.mode # "cbc" \/ i = 0 THEN Iv
  ELSE IF c.direction = "encrypt" THEN SealedBlocks(c.mode, D)[i] ELSE Block(D, i)

\* What comes out between two positions.
MadeAt(c, D, at)      == MadeBlock(c, D, BlockOf(at))[OffsetOf(at)]
MadeFrom(c, D, a, b)  == [j \in 1 .. b - a |-> MadeAt(c, D, a + j)]

\* What the engine makes of the i-th block, out of what it holds then.
LEMMA MadeIs ==
  ASSUME NEW c, c.mode \in PaddedModes, NEW D \in Seq(Octets), NEW i \in 1 .. Len(D) \div BlockSize
  PROVE  LET was == Chained(c, D, i - 1)
             source == Block(D, i)
             cbc == c.mode = "cbc"
             target == IF c.direction = "encrypt"
                       THEN EncryptBlock(IF cbc THEN XorSeq(source, was) ELSE source)
                       ELSE IF cbc THEN XorSeq(DecryptBlock(source), was) ELSE DecryptBlock(source)
         IN /\ source \in OneBlock /\ was \in OneBlock /\ MadeBlock(c, D, i) \in OneBlock
            /\ MadeBlock(c, D, i) = target
            /\ Chained(c, D, i) = IF ~cbc THEN was ELSE IF c.direction = "encrypt" THEN target ELSE source
<1> DEFINE N == Len(D) \div BlockSize
           f == SealedBlocks(c.mode, D)
           was == Chained(c, D, i - 1)
           source == Block(D, i)
           cbc == c.mode = "cbc"
<1>1. N \in Nat /\ N * BlockSize <= Len(D)
  BY WholeBlocks
<1>2. /\ f \in [0 .. N -> OneBlock] /\ f[0] = Iv
      /\ \A k \in 1 .. N : f[k] = EncryptBlock(IF cbc THEN XorSeq(Block(D, k), f[k - 1]) ELSE Block(D, k))
  BY SealedAre
<1>3. i \in 1 .. N
  OBVIOUS
<1> HIDE DEF N, f
<1>4. \A k \in 1 .. N : Block(D, k) \in OneBlock
  BY <1>1, BlockIs DEF OneBlock
<1>5. i - 1 \in 0 .. N /\ (i # 1 => i - 1 \in 1 .. N) /\ i # 0 /\ i \in Int
  BY <1>1, <1>3
<1>6. source \in OneBlock /\ DecryptBlock(source) \in OneBlock
  BY <1>3, <1>4, BlocksAre
<1>7. was \in OneBlock
  <2>1. Block(D, i - 1) \in OneBlock \/ i = 1
    BY <1>4, <1>5
  <2>2. f[i - 1] \in OneBlock
    BY <1>2, <1>5
  <2> QED BY <2>1, <2>2, <1>5, BlocksAre DEF Chained, f
<1>8. CASE c.direction = "encrypt"
  <2>1. was = IF cbc THEN f[i - 1] ELSE Iv
    <3>1. CASE i = 1
      BY <3>1, <1>2, <1>8 DEF Chained
    <3>2. CASE i # 1
      BY <3>2, <1>8, <1>5 DEF Chained, f
    <3> QED BY <3>1, <3>2
  <2>2. MadeBlock(c, D, i) = f[i]
    BY <1>8 DEF MadeBlock, f
  <2>3. f[i] = EncryptBlock(IF cbc THEN XorSeq(source, f[i - 1]) ELSE source) /\ f[i] \in OneBlock
    BY <1>2, <1>3
  <2>4. f[i] = EncryptBlock(IF cbc THEN XorSeq(source, was) ELSE source)
    BY <2>1, <2>3
  <2>5. Chained(c, D, i) = IF ~cbc THEN was ELSE f[i]
    BY <1>5, <1>8, <2>1 DEF Chained, f
  <2> HIDE DEF was, source, cbc
  <2>6. Chained(c, D, i) = IF ~cbc THEN was ELSE MadeBlock(c, D, i)
    BY <2>2, <2>5
  <2> QED BY <1>6, <1>7, <1>8, <2>2, <2>3, <2>4, <2>6 DEF was, source, cbc
<1>9. CASE c.direction # "encrypt"
  <2>1. was = IF cbc THEN IF i = 1 THEN Iv ELSE Block(D, i - 1) ELSE Iv
    BY <1>9, <1>5 DEF Chained
  <2>2. MadeBlock(c, D, i) = IF cbc THEN XorSeq(DecryptBlock(source), was) ELSE DecryptBlock(source)
    BY <1>9, <2>1 DEF MadeBlock, OpenedBlock, PaddedModes
  <2>3. MadeBlock(c, D, i) \in OneBlock
    <3>1. XorSeq(DecryptBlock(source), was) \in OneBlock
      BY <1>6, <1>7, XorSeqIs
    <3> QED BY <3>1, <2>2, <1>6
  <2>4. Chained(c, D, i) = IF ~cbc THEN was ELSE source
    BY <1>9, <1>5, <2>1 DEF Chained
  <2> QED BY <1>6, <1>7, <1>9, <2>2, <2>3, <2>4
<1> QED BY <1>8, <1>9

\* What is made between two places is the blocks made there, byte by byte.
LEMMA MadeFromIs ==
  ASSUME NEW c, c.mode \in PaddedModes, NEW D \in Seq(Octets), NEW a \in Nat, NEW b \in Nat, a <= b,
         b <= (Len(D) \div BlockSize) * BlockSize
  PROVE  /\ MadeFrom(c, D, a, b) \in Seq(Octets) /\ Len(MadeFrom(c, D, a, b)) = b - a
         /\ \A j \in 1 .. b - a : MadeFrom(c, D, a, b)[j] = MadeAt(c, D, a + j)
<1> DEFINE N == Len(D) \div BlockSize
<1>1. N \in Nat /\ N * BlockSize \in Nat
  BY WholeBlocks
<1>2. ASSUME NEW i \in 1 .. N  PROVE MadeBlock(c, D, i) \in OneBlock
  BY MadeIs
<1>3. b <= N * BlockSize
  OBVIOUS
<1> HIDE DEF N
<1>4. ASSUME NEW j \in 1 .. b - a  PROVE MadeAt(c, D, a + j) \in Octets
  <2> DEFINE m == N * BlockSize
  <2>1. m \in Nat /\ b <= m
    BY <1>1, <1>3
  <2> HIDE DEF m
  <2>2. a + j \in Nat /\ a + j > 0 /\ a + j <= m
    BY <2>1
  <2>3. BlockOf(a + j) \in 1 .. N /\ OffsetOf(a + j) \in 1 .. BlockSize
    BY <2>2, <1>1, PositionUpto, PositionOf DEF m
  <2> QED BY <2>3, <1>2 DEF MadeAt, OneBlock
<1>5. b - a \in Nat
  OBVIOUS
<1> QED BY <1>4, <1>5 DEF MadeFrom

\* What is made is made in any pieces.
LEMMA MadeFromJoins ==
  ASSUME NEW c, c.mode \in PaddedModes, NEW D \in Seq(Octets), NEW a \in Nat, NEW b \in Nat, NEW e \in Nat,
         a <= b, b <= e, e <= (Len(D) \div BlockSize) * BlockSize
  PROVE  MadeFrom(c, D, a, b) \o MadeFrom(c, D, b, e) = MadeFrom(c, D, a, e)
<1> DEFINE m == (Len(D) \div BlockSize) * BlockSize
           x == MadeFrom(c, D, a, b)
           y == MadeFrom(c, D, b, e)
           z == MadeFrom(c, D, a, e)
<1>1. m \in Nat /\ b <= m /\ a <= e
  <2>1. m \in Nat /\ e <= m
    BY WholeBlocks
  <2> HIDE DEF m
  <2> QED BY <2>1
<1>2. x \in Seq(Octets) /\ Len(x) = b - a /\ \A j \in 1 .. b - a : x[j] = MadeAt(c, D, a + j)
  BY <1>1, MadeFromIs
<1>3. y \in Seq(Octets) /\ Len(y) = e - b /\ \A j \in 1 .. e - b : y[j] = MadeAt(c, D, b + j)
  BY MadeFromIs
<1>4. z \in Seq(Octets) /\ Len(z) = e - a /\ \A j \in 1 .. e - a : z[j] = MadeAt(c, D, a + j)
  BY <1>1, MadeFromIs
<1> HIDE DEF x, y, z, m
<1>5. Len(z) = Len(x) + Len(y) /\ \A j \in 1 .. Len(x) : z[j] = x[j]
  BY <1>2, <1>3, <1>4
<1>6. \A j \in 1 .. Len(y) : z[Len(x) + j] = y[j]
  <2> SUFFICES ASSUME NEW j \in 1 .. Len(y)  PROVE z[Len(x) + j] = y[j]
    OBVIOUS
  <2>1. (b - a) + j \in 1 .. e - a /\ a + ((b - a) + j) = b + j
    BY <1>3
  <2>2. z[(b - a) + j] = MadeAt(c, D, b + j)
    BY <2>1, <1>4
  <2> QED BY <2>2, <1>2, <1>3
<1>7. x \o y = z
  BY <1>2, <1>3, <1>4, <1>5, <1>6, JoinIs
<1> QED BY <1>7 DEF x, y, z

\* The piece of one block is that block.
LEMMA MadeFromOne ==
  ASSUME NEW c, c.mode \in PaddedModes, NEW D \in Seq(Octets), NEW i \in 1 .. Len(D) \div BlockSize
  PROVE  MadeFrom(c, D, (i - 1) * BlockSize, i * BlockSize) = MadeBlock(c, D, i)
<1> DEFINE N == Len(D) \div BlockSize
           m == (i - 1) * BlockSize
           e == i * BlockSize
           b == MadeBlock(c, D, i)
<1>1. N \in Nat /\ i \in 1 .. N
  BY WholeBlocks
<1>2. b \in OneBlock
  BY MadeIs
<1> HIDE DEF N
<1>3. m \in Nat /\ e = m + BlockSize /\ BlockSize \in Nat /\ i - 1 \in Nat
  BY <1>1, BlockEnds, BlocksAre
<1>4. \A j \in 1 .. BlockSize : MadeAt(c, D, m + j) = b[j]
  <2> SUFFICES ASSUME NEW j \in 1 .. BlockSize  PROVE MadeAt(c, D, m + j) = b[j]
    OBVIOUS
  <2>1. BlockOf(m + j) = i - 1 + 1 /\ OffsetOf(m + j) = j
    BY <1>3, PositionIs
  <2>2. i - 1 + 1 = i
    BY <1>1
  <2> QED BY <2>1, <2>2 DEF MadeAt
<1> HIDE DEF m, e
<1>5. e - m = BlockSize
  BY <1>3
<1>6. MadeFrom(c, D, m, e) = [j \in 1 .. BlockSize |-> b[j]]
  BY <1>4, <1>5 DEF MadeFrom
<1> HIDE DEF b
<1>7. b = [j \in 1 .. BlockSize |-> b[j]]
  BY <1>2 DEF OneBlock
<1> QED BY <1>6, <1>7 DEF m, e, b

\* processAligned goes on where it was left.
LEMMA ProcessIs ==
  ASSUME NEW c, c.mode \in PaddedModes, NEW D \in Seq(Octets), NEW n \in Nat, NEW k \in Nat,
         n + k <= Len(D) \div BlockSize
  PROVE  ProcessAligned(c, Chained(c, D, n), SubSeq(D, n * BlockSize + 1, (n + k) * BlockSize))
         = [chain |-> Chained(c, D, n + k), out |-> MadeFrom(c, D, n * BlockSize, (n + k) * BlockSize)]
<1> DEFINE N == Len(D) \div BlockSize
           a == n * BlockSize
           e == (n + k) * BlockSize
           src == SubSeq(D, a + 1, e)
           chain == Chained(c, D, n)
           count == Len(src) \div BlockSize
           cbc == c.mode = "cbc"
           Target(was, i) ==
             IF c.direction = "encrypt"
             THEN EncryptBlock(IF cbc THEN XorSeq(Block(src, i), was.chain) ELSE Block(src, i))
             ELSE IF cbc THEN XorSeq(DecryptBlock(Block(src, i)), was.chain)
                  ELSE DecryptBlock(Block(src, i))
           Body(was, i) ==
             [out |-> was.out \o Target(was, i),
              chain |-> IF ~cbc THEN was.chain
                        ELSE IF c.direction = "encrypt" THEN Target(was, i) ELSE Block(src, i)]
           Eq(f) == f = [i \in 0 .. count |-> IF i = 0 THEN [chain |-> chain, out |-> <<>>] ELSE Body(f[i - 1], i)]
           done == CHOOSE f : Eq(f)
<1>1. ProcessAligned(c, chain, src) = done[count]
  BY DEF ProcessAligned
<1>2. N \in Nat /\ N * BlockSize \in Nat /\ N * BlockSize <= Len(D) /\ n + k <= N /\ BlockSize \in Nat \ {0} /\ Len(D) \in Nat
  BY WholeBlocks, BlocksAre
<1> HIDE DEF N
<1>3. a \in Nat /\ e \in Nat /\ k * BlockSize \in Nat /\ e = a + k * BlockSize /\ e <= Len(D)
  <2>1. a \in Nat /\ e \in Nat /\ k * BlockSize \in Nat /\ e = a + k * BlockSize
    BY <1>2, Products, Distributes
  <2>2. e <= N * BlockSize
    <3>1. CASE n + k = N
      BY <3>1, <1>2
    <3>2. CASE n + k # N
      <4>1. n + k < N /\ n + k \in Nat
        BY <3>2, <1>2
      <4>2. e + BlockSize <= N * BlockSize
        BY <4>1, <1>2, ProductsGrow
      <4> QED BY <4>2, <2>1, <1>2
    <3> QED BY <3>1, <3>2
  <2> HIDE DEF a, e
  <2> QED BY <2>1, <2>2, <1>2
<1>4. src \in Seq(Octets) /\ Len(src) = k * BlockSize /\ \A j \in 1 .. k * BlockSize : src[j] = D[a + j]
  <2> DEFINE w == k * BlockSize
  <2>1. a \in Nat /\ e \in Nat /\ w \in Nat /\ e = a + w /\ e <= Len(D)
    BY <1>3
  <2> HIDE DEF a, e, w
  <2>2. SubSeq(D, a + 1, e) \in Seq(Octets) /\ Len(SubSeq(D, a + 1, e)) = w /\ \A j \in 1 .. w : SubSeq(D, a + 1, e)[j] = D[a + j]
    BY <2>1
  <2> QED BY <2>2 DEF w
<1>5. count = k
  <2>1. (k * BlockSize + 0) \div BlockSize = k /\ k * BlockSize + 0 = k * BlockSize
    BY <1>2, <1>3, DivIs
  <2> QED BY <2>1, <1>4
<1> HIDE DEF src, count
<1>6. ASSUME NEW i \in 1 .. k
      PROVE  /\ Block(src, i) = Block(D, n + i) /\ n + i \in 1 .. N
             /\ (n + i) - 1 = n + (i - 1)
             /\ n + (i - 1) \in Nat /\ a <= (n + (i - 1)) * BlockSize
             /\ (n + (i - 1)) * BlockSize \in Nat /\ (n + i) * BlockSize \in Nat
             /\ (n + (i - 1)) * BlockSize <= (n + i) * BlockSize /\ (n + i) * BlockSize <= N * BlockSize
  <2>1. n + i \in 1 .. N /\ (n + i) - 1 = n + (i - 1) /\ n + (i - 1) \in Nat /\ i - 1 \in Nat
    BY <1>2
  <2>2. /\ (i - 1) * BlockSize \in Nat /\ (n + (i - 1)) * BlockSize = a + (i - 1) * BlockSize
    BY <2>1, <1>2, Products, Distributes
  <2>3. /\ ((n + i) - 1) * BlockSize \in Nat /\ (n + i) * BlockSize = ((n + i) - 1) * BlockSize + BlockSize
        /\ (n + i) * BlockSize \in Nat /\ (n + i) * BlockSize <= N * BlockSize
    BY <2>1, <1>2, BlockEnds
  <2> DEFINE x == (i - 1) * BlockSize
             y == (n + (i - 1)) * BlockSize
             z == (n + i) * BlockSize
             w == N * BlockSize
  <2>4. y = ((n + i) - 1) * BlockSize
    BY <2>1
  <2>5. x \in Nat /\ y = a + x /\ y \in Nat /\ z = y + BlockSize /\ z \in Nat /\ z <= w /\ w <= Len(D) /\ w \in Nat
    BY <2>2, <2>3, <2>4, <1>2
  <2>6. i * BlockSize = x + BlockSize
    BY <2>1, <1>2, BlockEnds
  <2> HIDE DEF x, y, z, w, a, e
  <2>7. y <= z /\ a <= y /\ x + BlockSize = z - a
    BY <2>5, <1>2, <1>3
  <2>8. Block(src, i) = SubSeq(src, x + 1, x + BlockSize)
    BY <2>6 DEF Block, x
  <2>9. Block(D, n + i) = SubSeq(D, y + 1, z)
    BY <2>4 DEF Block, y, z
  <2>10. x + BlockSize <= k * BlockSize
    <3>1. k \in Nat
      OBVIOUS
    <3>2. i * BlockSize <= k * BlockSize
      BY <3>1, BlockEnds
    <3> QED BY <3>2, <2>6
  <2>11. SubSeq(SubSeq(D, a + 1, e), x + 1, x + BlockSize) = SubSeq(D, a + (x + 1), a + (x + BlockSize))
    <3> DEFINE v == k * BlockSize
    <3>1. v \in Nat /\ e = a + v /\ x + BlockSize <= v
      BY <1>3, <2>10
    <3> HIDE DEF v
    <3>2. a <= e /\ e <= Len(D) /\ 1 <= x + 1 /\ x + 1 <= (x + BlockSize) + 1 /\ x + BlockSize <= e - a /\ x + 1 \in Int /\ x + BlockSize \in Int
      BY <3>1, <1>2, <1>3, <2>5
    <3> DEFINE p == x + 1
               q == x + BlockSize
    <3>3. p \in Int /\ q \in Int /\ 1 <= p /\ p <= q + 1 /\ q <= e - a /\ a \in Nat /\ e \in Nat /\ a <= e /\ e <= Len(D)
      BY <3>2, <1>3
    <3> HIDE DEF p, q
    <3>4. SubSeq(SubSeq(D, a + 1, e), p, q) = SubSeq(D, a + p, a + q)
      BY <3>3, SliceOfSlice
    <3> QED BY <3>4 DEF p, q
  <2>12. a + (x + 1) = y + 1 /\ a + (x + BlockSize) = z
    BY <2>5, <1>2, <1>3
  <2>13. Block(src, i) = Block(D, n + i)
    BY <2>8, <2>9, <2>11, <2>12 DEF src
  <2> QED BY <2>1, <2>5, <2>7, <2>13 DEF y, z, w
<1> HIDE DEF N, a, e, chain
<1> DEFINE Out(i) == MadeFrom(c, D, a, (n + i) * BlockSize)
           h == [i \in 0 .. k |-> [chain |-> Chained(c, D, n + i), out |-> Out(i)]]
<1>7. ASSUME NEW was, NEW i \in 1 .. k, was.chain = Chained(c, D, n + (i - 1)), was.out = Out(i - 1)
      PROVE  Body(was, i) = [chain |-> Chained(c, D, n + i), out |-> Out(i)]
  <2> DEFINE made == MadeBlock(c, D, n + i)
  <2>1. Target(was, i) = made
    BY <1>6, <1>7, MadeIs DEF N
  <2>2. Chained(c, D, n + i) = IF ~cbc THEN was.chain ELSE IF c.direction = "encrypt" THEN made ELSE Block(src, i)
    BY <1>6, <1>7, MadeIs DEF N
  <2>3. Out(i) = Out(i - 1) \o made
    <3> DEFINE y == (n + (i - 1)) * BlockSize
               z == (n + i) * BlockSize
    <3>1. a \in Nat /\ y \in Nat /\ z \in Nat /\ a <= y /\ y <= z /\ z <= N * BlockSize
      BY <1>3, <1>6
    <3>2. MadeFrom(c, D, y, z) = made
      <4>1. ((n + i) - 1) * BlockSize = y /\ n + i \in 1 .. N
        BY <1>6
      <4>2. MadeFrom(c, D, ((n + i) - 1) * BlockSize, z) = made
        BY <4>1, MadeFromOne DEF N
      <4> QED BY <4>1, <4>2
    <3> HIDE DEF y, z, made
    <3>3. MadeFrom(c, D, a, y) \o MadeFrom(c, D, y, z) = MadeFrom(c, D, a, z)
      BY <3>1, MadeFromJoins DEF N
    <3> QED BY <3>2, <3>3 DEF y, z
  <2> HIDE DEF Target, made, Out, cbc
  <2> QED BY <2>1, <2>2, <2>3, <1>7
<1> HIDE DEF Body
<1>8. Eq(h)
  <2>1. Out(0) = <<>>
    <3>1. (n + 0) * BlockSize = a /\ a - a = 0
      BY <1>3 DEF a
    <3>2. MadeFrom(c, D, a, a) = <<>>
      BY <3>1 DEF MadeFrom
    <3> QED BY <3>1, <3>2
  <2>2. h[0] = [chain |-> chain, out |-> <<>>]
    <3>1. n + 0 = n /\ 0 \in 0 .. k
      OBVIOUS
    <3> HIDE DEF Out
    <3> QED BY <2>1, <3>1 DEF chain
  <2>3. \A i \in 1 .. k : h[i] = Body(h[i - 1], i)
    <3> SUFFICES ASSUME NEW i \in 1 .. k  PROVE h[i] = Body(h[i - 1], i)
      OBVIOUS
    <3>1. i - 1 \in 0 .. k /\ i \in 0 .. k
      OBVIOUS
    <3> HIDE DEF Out
    <3>2. h[i - 1].chain = Chained(c, D, n + (i - 1)) /\ h[i - 1].out = Out(i - 1) /\ h[i] = [chain |-> Chained(c, D, n + i), out |-> Out(i)]
      BY <3>1
    <3> HIDE DEF h
    <3> QED BY <3>2, <1>7 DEF Out
  <2>4. h = [i \in 0 .. k |-> h[i]]
    OBVIOUS
  <2> HIDE DEF h
  <2>5. \A i \in 0 .. k : h[i] = IF i = 0 THEN [chain |-> chain, out |-> <<>>] ELSE Body(h[i - 1], i)
    BY <2>2, <2>3
  <2> QED BY <1>5, <2>4, <2>5
<1>9. Eq(done)
  <2> HIDE DEF Eq, h
  <2> QED BY <1>8
<1> HIDE DEF done, h
<1>10. GoAlike(done, h, k)
  <2>1. done[0] = [chain |-> chain, out |-> <<>>] /\ \A i \in 1 .. k : done[i] = Body(done[i - 1], i)
    BY <1>5, <1>9
  <2>2. h[0] = [chain |-> chain, out |-> <<>>] /\ \A i \in 1 .. k : h[i] = Body(h[i - 1], i)
    BY <1>5, <1>8
  <2> QED BY <2>1, <2>2 DEF GoAlike
<1>11. done[k] = h[k]
  BY <1>10, SameRuns
<1>12. h[k] = [chain |-> Chained(c, D, n + k), out |-> Out(k)]
  BY DEF h
<1> QED BY <1>1, <1>5, <1>11, <1>12 DEF chain, src, a, e

\* The one-shot form, and each direction undoing the other.
AlignedText(c, D) == IF c.direction = "encrypt" THEN EncryptAligned(c.mode, D) ELSE DecryptAligned(c.mode, D)

\* The one-shot form of a message in whole blocks is all that is made of it.
LEMMA AlignedIs ==
  ASSUME NEW c, NEW D \in Seq(Octets)
  PROVE  AlignedText(c, D) = MadeFrom(c, D, 0, Len(D))
<1>1. Len(D) \in Nat /\ Len(D) - 0 = Len(D) /\ \A j \in 1 .. Len(D) : 0 + j = j
  OBVIOUS
<1>2. MadeFrom(c, D, 0, Len(D)) = [at \in 1 .. Len(D) |-> MadeAt(c, D, at)]
  BY <1>1 DEF MadeFrom
<1>3. CASE c.direction = "encrypt"
  <2>1. EncryptAligned(c.mode, D) = [at \in 1 .. Len(D) |-> SealedBlocks(c.mode, D)[BlockOf(at)][OffsetOf(at)]]
    BY DEF EncryptAligned, SealedBlocks, SealedRun
  <2>2. \A at \in 1 .. Len(D) : MadeAt(c, D, at) = SealedBlocks(c.mode, D)[BlockOf(at)][OffsetOf(at)]
    BY <1>3 DEF MadeAt, MadeBlock
  <2> QED BY <1>2, <1>3, <2>1, <2>2 DEF AlignedText
<1>4. CASE c.direction # "encrypt"
  <2>1. DecryptAligned(c.mode, D) = [at \in 1 .. Len(D) |-> OpenedBlock(c.mode, D, BlockOf(at))[OffsetOf(at)]]
    BY DEF DecryptAligned, OpenedBlock
  <2>2. \A at \in 1 .. Len(D) : MadeAt(c, D, at) = OpenedBlock(c.mode, D, BlockOf(at))[OffsetOf(at)]
    BY <1>4 DEF MadeAt, MadeBlock
  <2> QED BY <1>2, <1>4, <2>1, <2>2 DEF AlignedText
<1> QED BY <1>3, <1>4

\* A message in whole blocks comes back from ECB and from CBC.
LEMMA AlignedComesBack ==
  ASSUME NEW mode \in PaddedModes, NEW D \in Seq(Octets), Whole(D)
  PROVE  /\ EncryptAligned(mode, D) \in Seq(Octets) /\ Len(EncryptAligned(mode, D)) = Len(D)
         /\ DecryptAligned(mode, EncryptAligned(mode, D)) = D
<1> DEFINE c == [mode |-> mode, direction |-> "encrypt"]
           b == [mode |-> mode, direction |-> "decrypt"]
           C == MadeFrom(c, D, 0, Len(D))
           N == Len(D) \div BlockSize
<1>1. c.mode = mode /\ b.mode = mode /\ c.direction = "encrypt" /\ b.direction # "encrypt"
  OBVIOUS
<1> HIDE DEF c, b
<1>2. EncryptAligned(mode, D) = C
  BY <1>1, AlignedIs DEF AlignedText
<1>3. N \in Nat /\ N * BlockSize = Len(D) /\ Len(D) \in Nat /\ 0 <= Len(D) /\ BlockSize \in Nat \ {0}
  BY WholeBlocks, BlocksAre
<1>4. C \in Seq(Octets) /\ Len(C) = Len(D) /\ \A j \in 1 .. Len(D) : C[j] = MadeAt(c, D, j)
  <2>1. Len(D) <= (Len(D) \div BlockSize) * BlockSize
    BY <1>3
  <2>2. /\ C \in Seq(Octets) /\ Len(C) = Len(D) - 0
        /\ \A j \in 1 .. Len(D) - 0 : C[j] = MadeAt(c, D, 0 + j)
    <3>1. c.mode \in PaddedModes /\ 0 \in Nat
      BY <1>1
    <3> QED BY <2>1, <3>1, <1>3, MadeFromIs
  <2> QED BY <2>2, <1>3
<1> HIDE DEF C
<1>5. DecryptAligned(mode, C) = MadeFrom(b, C, 0, Len(C))
  BY <1>1, <1>4, AlignedIs DEF AlignedText
<1>6. \A i \in 1 .. N : Block(C, i) = MadeBlock(c, D, i) /\ MadeBlock(c, D, i) \in OneBlock
  <2> SUFFICES ASSUME NEW i \in 1 .. N  PROVE Block(C, i) = MadeBlock(c, D, i) /\ MadeBlock(c, D, i) \in OneBlock
    OBVIOUS
  <2> DEFINE x == Block(C, i)
             y == MadeBlock(c, D, i)
             m == (i - 1) * BlockSize
  <2>1. y \in OneBlock
    BY <1>1, MadeIs
  <2> HIDE DEF N
  <2>2. x \in [1 .. BlockSize -> Octets] /\ \A j \in 1 .. BlockSize : x[j] = C[m + j]
    <3>1. C \in Seq(Octets) /\ N \in Nat /\ N * BlockSize <= Len(C) /\ i \in 1 .. N
      BY <1>3, <1>4
    <3> QED BY ONLY <3>1, BlockIs
  <2>3. m \in Nat /\ m + BlockSize <= Len(D) /\ i - 1 \in Nat /\ i - 1 + 1 = i
    BY <1>3, BlockEnds
  <2>4. \A j \in 1 .. BlockSize : BlockOf(m + j) = i /\ OffsetOf(m + j) = j
    BY <2>3, PositionIs
  <2> HIDE DEF m, x
  <2>5. \A j \in 1 .. BlockSize : m + j \in 1 .. Len(D)
    BY <2>3, <1>3
  <2>6. \A j \in 1 .. BlockSize : x[j] = y[j]
    BY <2>2, <2>4, <2>5, <1>4 DEF MadeAt
  <2> HIDE DEF y
  <2>7. x = y
    <3>1. x = [j \in 1 .. BlockSize |-> x[j]] /\ y = [j \in 1 .. BlockSize |-> y[j]]
      BY <2>1, <2>2 DEF OneBlock
    <3> QED BY <3>1, <2>6
  <2> QED BY <2>1, <2>7 DEF x, y
<1>7. ASSUME NEW i \in 1 .. N  PROVE MadeBlock(b, C, i) = Block(D, i)
  <2> DEFINE was == Chained(c, D, i - 1)
             source == Block(D, i)
             target == EncryptBlock(IF mode = "cbc" THEN XorSeq(source, was) ELSE source)
  <2>1. source \in OneBlock /\ was \in OneBlock /\ MadeBlock(c, D, i) = target
    BY <1>1, MadeIs
  <2>2. MadeBlock(b, C, i) = IF mode = "cbc" THEN XorSeq(DecryptBlock(Block(C, i)), Chained(b, C, i - 1)) ELSE DecryptBlock(Block(C, i))
    <3>1. i \in 1 .. Len(C) \div BlockSize
      BY <1>4
    <3> QED BY <1>1, <1>4, <3>1, MadeIs
  <2>3. Chained(b, C, i - 1) = was
    <3>1. CASE i = 1 \/ mode # "cbc"
      <4>1. i - 1 = 0 \/ mode # "cbc"
        BY <3>1
      <4> QED BY <4>1, <1>1 DEF Chained
    <3>2. CASE ~(i = 1 \/ mode # "cbc")
      <4>1. i - 1 # 0 /\ i - 1 \in 1 .. N
        BY <3>2, <1>3
      <4>2. Chained(b, C, i - 1) = Block(C, i - 1)
        BY <4>1, <3>2, <1>1 DEF Chained
      <4>3. was = MadeBlock(c, D, i - 1)
        BY <4>1, <3>2, <1>1 DEF Chained, MadeBlock
      <4> QED BY <4>1, <4>2, <4>3, <1>6
    <3> QED BY <3>1, <3>2
  <2>4. Block(C, i) = target
    BY <2>1, <1>6
  <2> HIDE DEF was, source
  <2>5. CASE mode = "cbc"
    <3>1. XorSeq(source, was) \in OneBlock /\ XorSeq(XorSeq(source, was), was) = source
      BY <2>1, XorSeqIs
    <3>2. DecryptBlock(target) = XorSeq(source, was)
      BY <3>1, <2>5, BlocksAre
    <3> QED BY <3>1, <3>2, <2>2, <2>3, <2>4, <2>5 DEF source
  <2>6. CASE mode # "cbc"
    <3>1. DecryptBlock(target) = source
      BY <2>1, <2>6, BlocksAre
    <3> QED BY <3>1, <2>2, <2>4, <2>6 DEF source
  <2> QED BY <2>5, <2>6
<1>8. \A j \in 1 .. Len(D) : MadeAt(b, C, j) = D[j]
  <2> SUFFICES ASSUME NEW j \in 1 .. Len(D)  PROVE MadeAt(b, C, j) = D[j]
    OBVIOUS
  <2>1. /\ BlockOf(j) \in 1 .. N /\ OffsetOf(j) \in 1 .. BlockSize
        /\ j = (BlockOf(j) - 1) * BlockSize + OffsetOf(j)
    <3>1. j \in Nat /\ j > 0 /\ j <= N * BlockSize
      BY <1>3
    <3> HIDE DEF N
    <3> QED BY <3>1, <1>3, PositionUpto, PositionOf
  <2>2. MadeBlock(b, C, BlockOf(j)) = Block(D, BlockOf(j))
    BY <2>1, <1>7
  <2> HIDE DEF N
  <2>3. N * BlockSize <= Len(D)
    BY <1>3
  <2>4. Block(D, BlockOf(j))[OffsetOf(j)] = D[(BlockOf(j) - 1) * BlockSize + OffsetOf(j)]
    <3> DEFINE q == BlockOf(j)
               o == OffsetOf(j)
    <3>1. q \in 1 .. N /\ o \in 1 .. BlockSize
      BY <2>1
    <3> HIDE DEF q, o
    <3>2. Block(D, q)[o] = D[(q - 1) * BlockSize + o]
      BY <1>3, <2>3, <3>1, BlockIs
    <3> QED BY <3>2 DEF q, o
  <2> QED BY <2>1, <2>2, <2>4 DEF MadeAt
<1>9. MadeFrom(b, C, 0, Len(D)) = [j \in 1 .. Len(D) |-> MadeAt(b, C, j)]
  <2>1. Len(D) - 0 = Len(D) /\ \A j \in 1 .. Len(D) : 0 + j = j
    BY <1>3
  <2> QED BY <2>1 DEF MadeFrom
<1>10. D = [j \in 1 .. Len(D) |-> D[j]]
  OBVIOUS
<1>11. DecryptAligned(mode, C) = D
  BY <1>4, <1>5, <1>8, <1>9, <1>10
<1> QED BY <1>2, <1>4, <1>11

-----------------------------------------------------------------------------
(* Padding. *)

\* What is put after r bytes of a last block.
PadTail(r, s) ==
  LET n == BlockSize - r
  IN CASE s = "none"    -> <<>>
       [] s = "pkcs7"   -> Fill(n, n)
       [] s = "iso7816" -> <<Marker>> \o Fill(n - 1, 0)
       [] s = "zero"    -> Fill(n, 0)
       [] s = "x923"    -> Fill(n - 1, 0) \o <<n>>

Fillers == Paddings \ {"iso10126"}

\* Byte j of n bytes of padding.
PadByte(n, j, s) ==
  CASE s = "pkcs7"   -> n
    [] s = "iso7816" -> IF j = 1 THEN Marker ELSE 0
    [] s = "zero"    -> 0
    [] s = "x923"    -> IF j = n THEN n ELSE 0

\* The bytes padding is made of are bytes.
LEMMA MarkerIs == Marker \in Octets /\ Marker # 0 /\ 0 \in Octets /\ \A n \in 1 .. BlockSize : n \in Octets
<1>1. BlockSize \in Nat /\ BlockSize > 0 /\ Radix \in Nat /\ BlockSize < Radix
  BY BlocksAre
<1>2. Marker \in Nat /\ Marker > 0 /\ Marker < Radix
  BY <1>1 DEF Marker
<1> QED BY <1>1, <1>2 DEF Octets

\* A run of one byte.
LEMMA FillIs ==
  ASSUME NEW n \in Nat, NEW x \in Octets
  PROVE  Fill(n, x) \in Seq(Octets) /\ Len(Fill(n, x)) = n /\ \A j \in 1 .. n : Fill(n, x)[j] = x
BY DEF Fill

\* What is put after r bytes of a last block.
LEMMA PadTailIs ==
  ASSUME NEW r \in 0 .. BlockSize - 1, NEW s \in Fillers
  PROVE  /\ PadTail(r, s) \in Seq(Octets)
         /\ Len(PadTail(r, s)) = IF s = "none" THEN 0 ELSE BlockSize - r
         /\ s # "none" => \A j \in 1 .. BlockSize - r : PadTail(r, s)[j] = PadByte(BlockSize - r, j, s)
<1> DEFINE n == BlockSize - r
           t == PadTail(r, s)
<1>1. n \in 1 .. BlockSize /\ n \in Nat /\ n - 1 \in Nat
  BY BlocksAre
<1>2. n \in Octets /\ 0 \in Octets /\ Marker \in Octets
  BY <1>1, MarkerIs
<1> HIDE DEF n
<1>3. CASE s = "none"
  BY <1>3 DEF PadTail
<1>4. CASE s = "pkcs7"
  <2>1. t = Fill(n, n)
    BY <1>4 DEF PadTail, n
  <2>2. \A j \in 1 .. n : PadByte(n, j, s) = n
    BY <1>4 DEF PadByte
  <2>3. Fill(n, n) \in Seq(Octets) /\ Len(Fill(n, n)) = n /\ \A j \in 1 .. n : Fill(n, n)[j] = n
    BY <1>1, <1>2, FillIs
  <2> HIDE DEF t
  <2>4. t \in Seq(Octets) /\ Len(t) = n /\ \A j \in 1 .. n : t[j] = PadByte(n, j, s)
    BY <2>1, <2>2, <2>3
  <2> QED BY <1>4, <2>4 DEF n, t
<1>5. CASE s = "zero"
  <2>1. t = Fill(n, 0)
    BY <1>5 DEF PadTail, n
  <2>2. \A j \in 1 .. n : PadByte(n, j, s) = 0
    BY <1>5 DEF PadByte
  <2>3. Fill(n, 0) \in Seq(Octets) /\ Len(Fill(n, 0)) = n /\ \A j \in 1 .. n : Fill(n, 0)[j] = 0
    BY <1>1, <1>2, FillIs
  <2> HIDE DEF t
  <2>4. t \in Seq(Octets) /\ Len(t) = n /\ \A j \in 1 .. n : t[j] = PadByte(n, j, s)
    BY <2>1, <2>2, <2>3
  <2> QED BY <1>5, <2>4 DEF n, t
<1>6. CASE s = "iso7816"
  <2> DEFINE z == Fill(n - 1, 0)
             o == <<Marker>>
  <2>1. t = o \o z
    BY <1>6 DEF PadTail, n
  <2>2. \A j \in 1 .. n : PadByte(n, j, s) = IF j = 1 THEN Marker ELSE 0
    BY <1>6 DEF PadByte
  <2>3. z \in Seq(Octets) /\ Len(z) = n - 1 /\ \A j \in 1 .. n - 1 : z[j] = 0
    BY <1>1, <1>2, FillIs
  <2>4. o \in Seq(Octets) /\ Len(o) = 1 /\ o[1] = Marker
    BY <1>2
  <2> HIDE DEF z, o
  <2>5. o \o z \in Seq(Octets) /\ Len(o \o z) = n /\ \A j \in 1 .. n : (o \o z)[j] = IF j = 1 THEN Marker ELSE 0
    <3>0. /\ o \o z \in Seq(Octets) /\ Len(o \o z) = Len(o) + Len(z)
          /\ \A i \in 1 .. Len(o) : (o \o z)[i] = o[i]
          /\ \A i \in 1 .. Len(z) : (o \o z)[Len(o) + i] = z[i]
      <4>1. o \in Seq(Octets) /\ z \in Seq(Octets)
        BY <2>3, <2>4
      <4> QED BY <4>1, Joins
    <3>1. o \o z \in Seq(Octets) /\ Len(o \o z) = n
      BY <3>0, <2>3, <2>4, <1>1
    <3>2. ASSUME NEW j \in 1 .. n  PROVE (o \o z)[j] = IF j = 1 THEN Marker ELSE 0
      <4>1. CASE j = 1
        BY <4>1, <3>0, <2>3, <2>4, <1>1
      <4>2. CASE j # 1
        <5>1. j - 1 \in 1 .. n - 1 /\ j = 1 + (j - 1)
          BY <4>2, <1>1
        <5> DEFINE i == j - 1
        <5>2. i \in 1 .. n - 1 /\ j = 1 + i
          BY <5>1
        <5> HIDE DEF i
        <5>3. (o \o z)[1 + i] = z[i]
          BY <5>2, <3>0, <2>3, <2>4
        <5> QED BY <4>2, <5>2, <5>3, <2>3
      <4> QED BY <4>1, <4>2
    <3> QED BY <3>1, <3>2
  <2> HIDE DEF t
  <2> QED BY <1>1, <1>6, <2>1, <2>2, <2>5 DEF n, t
<1>7. CASE s = "x923"
  <2> DEFINE z == Fill(n - 1, 0)
             o == <<n>>
  <2>1. t = z \o o
    BY <1>7 DEF PadTail, n
  <2>2. \A j \in 1 .. n : PadByte(n, j, s) = IF j = n THEN n ELSE 0
    BY <1>7 DEF PadByte
  <2>3. z \in Seq(Octets) /\ Len(z) = n - 1 /\ \A j \in 1 .. n - 1 : z[j] = 0
    BY <1>1, <1>2, FillIs
  <2>4. o \in Seq(Octets) /\ Len(o) = 1 /\ o[1] = n
    BY <1>2
  <2> HIDE DEF z, o
  <2>5. z \o o \in Seq(Octets) /\ Len(z \o o) = n /\ \A j \in 1 .. n : (z \o o)[j] = IF j = n THEN n ELSE 0
    <3>0. /\ z \o o \in Seq(Octets) /\ Len(z \o o) = Len(z) + Len(o)
          /\ \A i \in 1 .. Len(z) : (z \o o)[i] = z[i]
          /\ \A i \in 1 .. Len(o) : (z \o o)[Len(z) + i] = o[i]
      <4>1. o \in Seq(Octets) /\ z \in Seq(Octets)
        BY <2>3, <2>4
      <4> QED BY <4>1, Joins
    <3>1. z \o o \in Seq(Octets) /\ Len(z \o o) = n
      BY <3>0, <2>3, <2>4, <1>1
    <3>2. ASSUME NEW j \in 1 .. n  PROVE (z \o o)[j] = IF j = n THEN n ELSE 0
      <4>1. CASE j = n
        <5>1. j = Len(z) + 1 /\ 1 \in 1 .. Len(o)
          BY <4>1, <2>3, <2>4, <1>1
        <5> QED BY <4>1, <5>1, <3>0, <2>4
      <4>2. CASE j # n
        <5>1. j \in 1 .. Len(z)
          BY <4>2, <2>3, <1>1
        <5> QED BY <4>2, <5>1, <3>0, <2>3
      <4> QED BY <4>1, <4>2
    <3> QED BY <3>1, <3>2
  <2> HIDE DEF t
  <2> QED BY <1>1, <1>7, <2>1, <2>2, <2>5 DEF n, t
<1> QED BY <1>3, <1>4, <1>5, <1>6, <1>7 DEF Fillers, Paddings

\* What padding adds depends on the last block only.
LEMMA PadIs ==
  ASSUME NEW d \in Seq(Octets), NEW s \in Fillers
  PROVE  /\ Len(d) % BlockSize \in 0 .. BlockSize - 1
         /\ PadBlocks(d, s) = IF s = "none" /\ ~Whole(d) THEN Refused ELSE Good(d \o PadTail(Len(d) % BlockSize, s))
<1>1. Len(d) % BlockSize \in 0 .. BlockSize - 1
  BY BlocksAre, DivMod
<1> DEFINE n == BlockSize - (Len(d) % BlockSize)
           w == <<Marker>>
<1>2. CASE s = "none"
  <2>1. PadTail(Len(d) % BlockSize, s) = <<>>
    BY <1>2 DEF PadTail
  <2>2. d \o <<>> = d
    OBVIOUS
  <2> QED BY <1>1, <1>2, <2>1, <2>2 DEF PadBlocks
<1>3. CASE s = "pkcs7"
  BY <1>1, <1>3 DEF PadBlocks, PadTail
<1>4. CASE s = "zero"
  BY <1>1, <1>4 DEF PadBlocks, PadTail
<1>a. n \in Nat /\ n - 1 \in Nat /\ 0 \in Octets /\ n \in Octets /\ Marker \in Octets
  BY <1>1, MarkerIs, BlocksAre
<1> DEFINE z == Fill(n - 1, 0)
           k == <<n>>
<1>b. z \in Seq(Octets) /\ w \in Seq(Octets) /\ k \in Seq(Octets)
  BY <1>a, FillIs
<1>5. CASE s = "iso7816"
  <2>1. PadTail(Len(d) % BlockSize, s) = w \o z
    BY <1>5 DEF PadTail
  <2>2. PadBlocks(d, s) = Good((d \o w) \o z)
    BY <1>5 DEF PadBlocks
  <2> HIDE DEF w, z, k
  <2>3. (d \o w) \o z = d \o (w \o z)
    BY <1>b, Associates
  <2> QED BY <1>1, <1>5, <2>1, <2>2, <2>3
<1>6. CASE s = "x923"
  <2>1. PadTail(Len(d) % BlockSize, s) = z \o k
    BY <1>6 DEF PadTail
  <2>2. PadBlocks(d, s) = Good((d \o z) \o k)
    BY <1>6 DEF PadBlocks
  <2> HIDE DEF w, z, k
  <2>3. (d \o z) \o k = d \o (z \o k)
    BY <1>b, Associates
  <2> QED BY <1>1, <1>6, <2>1, <2>2, <2>3
<1> QED BY <1>1, <1>2, <1>3, <1>4, <1>5, <1>6 DEF Fillers, Paddings

\* Sums of whole blocks and a rest.
LEMMA RestOf ==
  ASSUME NEW q \in Nat, NEW l \in Nat
  PROVE  /\ q * BlockSize \in Nat
         /\ (q * BlockSize + l) % BlockSize = l % BlockSize
         /\ (q * BlockSize + l) \div BlockSize = q + (l \div BlockSize)
<1> DEFINE p == l \div BlockSize
           r == l % BlockSize
           m == q * BlockSize
<1>1. BlockSize \in Nat \ {0}
  BY BlocksAre
<1>2. p \in Nat /\ r \in 0 .. BlockSize - 1 /\ l = p * BlockSize + r
  BY <1>1, DivMod
<1> HIDE DEF p, r
<1>3. m \in Nat /\ p * BlockSize \in Nat /\ (q + p) * BlockSize = m + p * BlockSize /\ q + p \in Nat
  BY <1>1, <1>2, Products, Distributes
<1>4. ((q + p) * BlockSize + r) \div BlockSize = q + p /\ ((q + p) * BlockSize + r) % BlockSize = r
  BY <1>1, <1>2, <1>3, DivIs
<1> DEFINE u == p * BlockSize
           v == (q + p) * BlockSize
<1>5. u \in Nat /\ v = m + u /\ l = u + r
  BY <1>2, <1>3
<1> HIDE DEF u, v, m
<1>6. m + l = v + r
  BY <1>2, <1>3, <1>5
<1> QED BY <1>3, <1>4, <1>6 DEF m, v, p, r

\* What is padded is in whole blocks, and begins with what it was made of.
LEMMA PaddedIs ==
  ASSUME NEW d \in Seq(Octets), NEW s \in Fillers, s # "none" \/ Whole(d)
  PROVE  LET p == PadBlocks(d, s).out t == PadTail(Len(d) % BlockSize, s)
         IN /\ PadBlocks(d, s).ok /\ p = d \o t /\ t \in Seq(Octets) /\ p \in Seq(Octets)
            /\ Whole(p) /\ Len(p) = Len(d) + Len(t)
            /\ Len(t) = IF s = "none" THEN 0 ELSE BlockSize - (Len(d) % BlockSize)
            /\ Len(p) \div BlockSize = IF s = "none" THEN Len(d) \div BlockSize ELSE (Len(d) \div BlockSize) + 1
<1> DEFINE r == Len(d) % BlockSize
           q == Len(d) \div BlockSize
           t == PadTail(r, s)
           p == d \o t
<1>1. r \in 0 .. BlockSize - 1 /\ PadBlocks(d, s) = Good(p)
  BY PadIs
<1>2. PadBlocks(d, s).ok /\ PadBlocks(d, s).out = p
  BY <1>1 DEF Good
<1>3. t \in Seq(Octets) /\ Len(t) = IF s = "none" THEN 0 ELSE BlockSize - r
  BY <1>1, PadTailIs
<1>4. p \in Seq(Octets) /\ Len(p) = Len(d) + Len(t)
  BY <1>3
<1>5. q \in Nat /\ Len(d) = q * BlockSize + r /\ BlockSize \in Nat \ {0} /\ Len(d) \in Nat
  <2>1. Len(d) \in Nat /\ BlockSize \in Nat \ {0}
    BY BlocksAre
  <2> QED BY <2>1, DivMod
<1>6. Whole(p) /\ Len(p) \div BlockSize = IF s = "none" THEN q ELSE q + 1
  <2>1. CASE s = "none"
    <3>1. Len(p) = Len(d) + 0
      BY <2>1, <1>3, <1>4
    <3>2. Len(p) = Len(d)
      BY <3>1, <1>5
    <3> QED BY <2>1, <3>2 DEF Whole
  <2>2. CASE s # "none"
    <3> DEFINE m == q * BlockSize
    <3>1. m \in Nat /\ (m + BlockSize) % BlockSize = BlockSize % BlockSize /\ (m + BlockSize) \div BlockSize = q + (BlockSize \div BlockSize)
      BY <1>5, RestOf
    <3> HIDE DEF m
    <3>2. Len(d) = m + r
      BY <1>5 DEF m
    <3> HIDE DEF q, r, t, p
    <3>3. Len(p) = m + BlockSize
      BY <2>2, <3>1, <3>2, <1>1, <1>3, <1>4, <1>5
    <3>4. BlockSize % BlockSize = 0 /\ BlockSize \div BlockSize = 1
      BY <1>5
    <3> QED BY <2>2, <3>1, <3>3, <3>4 DEF Whole
  <2> QED BY <2>1, <2>2
<1> QED BY <1>2, <1>3, <1>4, <1>6

\* Whole blocks before it do not change the padding.
LEMMA PadJoins ==
  ASSUME NEW x \in Seq(Octets), NEW q \in Nat, Len(x) = q * BlockSize, NEW d \in Seq(Octets), NEW s \in Fillers
  PROVE  PadBlocks(x \o d, s) = IF PadBlocks(d, s).ok THEN Good(x \o PadBlocks(d, s).out) ELSE Refused
<1>1. x \o d \in Seq(Octets) /\ Len(x \o d) = q * BlockSize + Len(d) /\ Len(d) \in Nat
  OBVIOUS
<1>2. Len(x \o d) % BlockSize = Len(d) % BlockSize
  BY <1>1, RestOf
<1>3. Whole(x \o d) = Whole(d)
  BY <1>2 DEF Whole
<1> DEFINE t == PadTail(Len(d) % BlockSize, s)
<1>4. PadBlocks(x \o d, s) = IF s = "none" /\ ~Whole(d) THEN Refused ELSE Good((x \o d) \o t)
  BY <1>1, <1>2, <1>3, PadIs
<1>5. PadBlocks(d, s) = IF s = "none" /\ ~Whole(d) THEN Refused ELSE Good(d \o t)
  BY PadIs
<1>6. t \in Seq(Octets)
  BY PadIs, PadTailIs
<1> HIDE DEF t
<1>7. (x \o d) \o t = x \o (d \o t)
  BY <1>6, Associates
<1>8. CASE s = "none" /\ ~Whole(d)
  BY <1>4, <1>5, <1>8 DEF Refused
<1>9. CASE ~(s = "none" /\ ~Whole(d))
  <2>1. PadBlocks(x \o d, s) = Good(x \o (d \o t))
    BY <1>4, <1>7, <1>9
  <2>2. PadBlocks(d, s).ok /\ PadBlocks(d, s).out = d \o t
    BY <1>5, <1>9 DEF Good
  <2> QED BY <2>1, <2>2
<1> QED BY <1>8, <1>9

\* How much is left of s when the zeros at its end go, of its last block at most.
KeptOf(s, n) ==
  /\ \A i \in n + 1 .. Len(s) : s[i] = 0
  /\ n = Len(s) - BlockSize \/ s[n] # 0
KeptLast(s) == CHOOSE n \in Len(s) - BlockSize .. Len(s) : KeptOf(s, n)

\* The zeros at the end of the last block are found,
LEMMA KeptIs ==
  ASSUME NEW s \in Seq(Octets), BlockSize <= Len(s)
  PROVE  KeptLast(s) \in Len(s) - BlockSize .. Len(s) /\ KeptOf(s, KeptLast(s))
<1> DEFINE floor == Len(s) - BlockSize
           Z == {n \in floor .. Len(s) : \A i \in n + 1 .. Len(s) : s[i] = 0}
<1>1. BlockSize \in Nat /\ Len(s) \in Nat /\ floor \in Nat
  BY BlocksAre
<1> HIDE DEF floor
<1>2. floor <= Len(s)
  BY <1>1 DEF floor
<1>3. Len(s) \in Z /\ Z \in SUBSET Nat
  BY <1>1, <1>2
<1> HIDE DEF Z
<1>4. Z # {}
  BY <1>3
<1>5. PICK n \in Z : \A j \in Z : n <= j
  BY <1>3, <1>4, LeastIs
<1>6. n \in floor .. Len(s) /\ \A i \in n + 1 .. Len(s) : s[i] = 0
  BY <1>5 DEF Z
<1>7. n = floor \/ s[n] # 0
  <2> SUFFICES ASSUME n # floor, s[n] = 0  PROVE FALSE
    OBVIOUS
  <2>1. n - 1 \in floor .. Len(s) /\ n \in Nat
    BY <1>1, <1>6
  <2>2. \A i \in (n - 1) + 1 .. Len(s) : s[i] = 0
    BY <1>6, <2>1
  <2>3. n - 1 \in Z
    BY <2>1, <2>2 DEF Z
  <2>4. n <= n - 1
    BY <1>5, <2>3
  <2> QED BY <2>1, <2>4
<1>8. KeptOf(s, n)
  BY <1>6, <1>7 DEF KeptOf, floor
<1>9. \E m \in Len(s) - BlockSize .. Len(s) : KeptOf(s, m)
  BY <1>6, <1>8 DEF floor
<1> QED BY <1>9 DEF KeptLast

\* and found at one place.
LEMMA KeptOnce ==
  ASSUME NEW s \in Seq(Octets), BlockSize <= Len(s), NEW n \in Len(s) - BlockSize .. Len(s), KeptOf(s, n)
  PROVE  KeptLast(s) = n
<1> DEFINE m == KeptLast(s)
<1>1. BlockSize \in Nat /\ Len(s) \in Nat
  BY BlocksAre
<1>2. m \in Len(s) - BlockSize .. Len(s) /\ KeptOf(s, m)
  BY KeptIs
<1> HIDE DEF m
<1>3. m \in Int /\ n \in Int
  BY <1>1, <1>2
<1>4. CASE m < n
  <2>1. s[n] # 0 /\ n \in m + 1 .. Len(s)
    BY <1>1, <1>2, <1>3, <1>4 DEF KeptOf
  <2> QED BY <2>1, <1>2 DEF KeptOf
<1>5. CASE n < m
  <2>1. s[m] # 0 /\ m \in n + 1 .. Len(s)
    BY <1>1, <1>2, <1>3, <1>5 DEF KeptOf
  <2> QED BY <2>1 DEF KeptOf
<1> QED BY <1>3, <1>4, <1>5 DEF m

\* What unpadding does, of each scheme.
Counted(s, scheme) ==
  LET size == Len(s) count == s[size]
  IN /\ count \in 1 .. BlockSize
     /\ scheme = "pkcs7" => \A i \in size - count + 1 .. size : s[i] = count
     /\ scheme = "x923" => \A i \in size - count + 1 .. size - 1 : s[i] = 0

\* How many bytes unpadding leaves.
Left(s, scheme) ==
  CASE scheme = "iso7816" -> KeptLast(s) - 1
    [] scheme = "zero" -> KeptLast(s)
    [] OTHER -> Len(s) - s[Len(s)]

Unpadded(s, scheme) ==
  CASE scheme = "iso7816" -> KeptLast(s) > Len(s) - BlockSize /\ s[KeptLast(s)] = Marker
    [] scheme = "zero" -> TRUE
    [] OTHER -> Counted(s, scheme)

\* Unpadding takes what is left, if it is padded as the scheme says.
LEMMA UnpadIs ==
  ASSUME NEW s \in Seq(Octets), s # <<>>, Whole(s), NEW scheme \in Paddings, scheme # "none"
  PROVE  UnpadBlocks(s, scheme) = IF Unpadded(s, scheme) THEN Good(Take(s, Left(s, scheme))) ELSE Refused
<1>1. Len(s) # 0
  OBVIOUS
<1>2. KeptLast(s) = CHOOSE n \in Len(s) - BlockSize .. Len(s) :
                  (\A i \in n + 1 .. Len(s) : s[i] = 0) /\ (n = Len(s) - BlockSize \/ s[n] # 0)
  BY DEF KeptLast, KeptOf
<1>3. CASE scheme = "iso7816"
  BY <1>1, <1>2, <1>3 DEF UnpadBlocks, Unpadded, Left
<1>4. CASE scheme = "zero"
  BY <1>1, <1>2, <1>4 DEF UnpadBlocks, Unpadded, Left
<1>5. CASE scheme # "iso7816" /\ scheme # "zero"
  <2>1. UnpadBlocks(s, scheme) = IF Counted(s, scheme) THEN Good(Take(s, Len(s) - s[Len(s)])) ELSE Refused
    BY <1>1, <1>5 DEF UnpadBlocks, Counted
  <2>2. Unpadded(s, scheme) = Counted(s, scheme) /\ Left(s, scheme) = Len(s) - s[Len(s)]
    BY <1>5 DEF Unpadded, Left
  <2> QED BY <2>1, <2>2
<1> QED BY <1>3, <1>4, <1>5

\* How much unpadding leaves is some of it, and less unless it was zeros.
LEMMA LeftIs ==
  ASSUME NEW s \in Seq(Octets), BlockSize <= Len(s), NEW scheme, Unpadded(s, scheme)
  PROVE  /\ Left(s, scheme) \in Len(s) - BlockSize .. Len(s) /\ Left(s, scheme) \in Nat
         /\ scheme # "zero" => Left(s, scheme) < Len(s)
<1>1. BlockSize \in Nat /\ Len(s) \in Nat
  BY BlocksAre
<1>2. KeptLast(s) \in Len(s) - BlockSize .. Len(s)
  BY KeptIs
<1>3. CASE scheme = "iso7816"
  BY <1>1, <1>2, <1>3 DEF Left, Unpadded
<1>4. CASE scheme = "zero"
  BY <1>1, <1>2, <1>4 DEF Left, Unpadded
<1>5. CASE scheme # "iso7816" /\ scheme # "zero"
  <2>1. Left(s, scheme) = Len(s) - s[Len(s)] /\ s[Len(s)] \in 1 .. BlockSize
    BY <1>5 DEF Left, Unpadded, Counted
  <2> QED BY <2>1, <1>1
<1> QED BY <1>3, <1>4, <1>5

\* Whole blocks before the last do not change what unpadding does.
LEMMA UnpadJoins ==
  ASSUME NEW x \in Seq(Octets), NEW q \in Nat, Len(x) = q * BlockSize,
         NEW t \in Seq(Octets), Len(t) = BlockSize, NEW scheme \in Paddings, scheme # "none"
  PROVE  UnpadBlocks(x \o t, scheme)
         = IF UnpadBlocks(t, scheme).ok THEN Good(x \o UnpadBlocks(t, scheme).out) ELSE Refused
<1> DEFINE s == x \o t
           m == q * BlockSize
<1>1. BlockSize \in Nat /\ BlockSize > 0 /\ m \in Nat
  BY BlocksAre, Products
<1>2. s \in Seq(Octets) /\ Len(s) = m + BlockSize /\ (\A i \in 1 .. m : s[i] = x[i]) /\ \A i \in 1 .. BlockSize : s[m + i] = t[i]
  <2>1. /\ s \in Seq(Octets) /\ Len(s) = Len(x) + Len(t)
        /\ \A i \in 1 .. Len(x) : s[i] = x[i]
        /\ \A i \in 1 .. Len(t) : s[Len(x) + i] = t[i]
    <3>1. s \in Seq(Octets) /\ Len(s) = Len(x) + Len(t)
      OBVIOUS
    <3>2. ASSUME NEW i \in 1 .. Len(x)  PROVE s[i] = x[i]
      OBVIOUS
    <3>3. ASSUME NEW i \in 1 .. Len(t)  PROVE s[Len(x) + i] = t[i]
      OBVIOUS
    <3> QED BY <3>1, <3>2, <3>3
  <2> QED BY <2>1
<1>3. Whole(s) /\ Whole(t) /\ s # <<>> /\ t # <<>>
  <2>1. (m + BlockSize) % BlockSize = BlockSize % BlockSize /\ BlockSize % BlockSize = 0
    BY <1>1, RestOf
  <2>2. Whole(s) /\ Whole(t)
    BY <1>2, <2>1 DEF Whole
  <2>3. Len(s) > 0 /\ Len(t) > 0
    <3> HIDE DEF m, s
    <3> QED BY <1>1, <1>2
  <2> QED BY <2>2, <2>3
<1>4. UnpadBlocks(s, scheme) = IF Unpadded(s, scheme) THEN Good(Take(s, Left(s, scheme))) ELSE Refused
  <2> HIDE DEF s
  <2> QED BY <1>2, <1>3, UnpadIs
<1>5. UnpadBlocks(t, scheme) = IF Unpadded(t, scheme) THEN Good(Take(t, Left(t, scheme))) ELSE Refused
  BY <1>3, UnpadIs
<1> HIDE DEF s, m
<1> DEFINE n == KeptLast(t)
<1>6. n \in 0 .. BlockSize /\ KeptOf(t, n)
  <2>1. n \in Len(t) - BlockSize .. Len(t) /\ KeptOf(t, n)
    BY <1>1, KeptIs
  <2> HIDE DEF n
  <2> QED BY <2>1, <1>1
<1> HIDE DEF n
<1>7. KeptLast(s) = m + n
  <2>1. ASSUME NEW i \in (m + n) + 1 .. Len(s)  PROVE s[i] = 0
    <3> DEFINE j == i - m
    <3>1. j \in n + 1 .. BlockSize /\ j \in 1 .. BlockSize /\ i = m + j
      BY <1>1, <1>2, <1>6
    <3> HIDE DEF j
    <3>2. t[j] = 0
      BY <3>1, <1>6 DEF KeptOf
    <3> QED BY <3>1, <3>2, <1>2
  <2>2. m + n = Len(s) - BlockSize \/ s[m + n] # 0
    <3>1. CASE n = 0
      BY <3>1, <1>1, <1>2
    <3>2. CASE n # 0
      <4>1. n \in 1 .. BlockSize /\ n # Len(t) - BlockSize
        BY <3>2, <1>1, <1>6
      <4>2. t[n] # 0
        BY <4>1, <1>6 DEF KeptOf
      <4> QED BY <4>1, <4>2, <1>2
    <3> QED BY <3>1, <3>2
  <2>3. KeptOf(s, m + n) /\ m + n \in Len(s) - BlockSize .. Len(s) /\ BlockSize <= Len(s)
    BY <2>1, <2>2, <1>1, <1>2, <1>6 DEF KeptOf
  <2> QED BY <2>3, <1>2, KeptOnce
<1>8. s[Len(s)] = t[Len(t)]
  BY <1>1, <1>2
<1>9. Unpadded(s, scheme) = Unpadded(t, scheme)
  <2>1. CASE scheme = "iso7816"
    <3>1. (KeptLast(s) > Len(s) - BlockSize) = (n > 0)
      BY <1>1, <1>2, <1>6, <1>7
    <3>2. (KeptLast(t) > Len(t) - BlockSize) = (n > 0)
      BY <1>1, <1>6 DEF n
    <3>3. n > 0 => s[KeptLast(s)] = t[n]
      BY <1>1, <1>2, <1>6, <1>7
    <3>4. Unpadded(s, scheme) = (n > 0 /\ t[n] = Marker)
      BY <2>1, <3>1, <3>3 DEF Unpadded
    <3>5. Unpadded(t, scheme) = (n > 0 /\ t[n] = Marker)
      BY <2>1, <3>2 DEF Unpadded, n
    <3> QED BY <3>4, <3>5
  <2>2. CASE scheme = "zero"
    BY <2>2 DEF Unpadded
  <2>3. CASE scheme # "iso7816" /\ scheme # "zero"
    <3> DEFINE k == t[Len(t)]
    <3>1. ASSUME k \in 1 .. BlockSize, NEW v
          PROVE  /\ (\A i \in Len(s) - k + 1 .. Len(s) : s[i] = v) <=> (\A i \in Len(t) - k + 1 .. Len(t) : t[i] = v)
                 /\ (\A i \in Len(s) - k + 1 .. Len(s) - 1 : s[i] = v) <=> (\A i \in Len(t) - k + 1 .. Len(t) - 1 : t[i] = v)
      <4> HIDE DEF k
      <4>1. ASSUME NEW e \in 0 .. 1, \A i \in Len(s) - k + 1 .. Len(s) - e : s[i] = v, NEW i \in Len(t) - k + 1 .. Len(t) - e
            PROVE  t[i] = v
        <5>1. m + i \in Len(s) - k + 1 .. Len(s) - e /\ i \in 1 .. BlockSize
          BY <1>1, <1>2, <3>1
        <5> QED BY <4>1, <5>1, <1>2
      <4>2. ASSUME NEW e \in 0 .. 1, \A i \in Len(t) - k + 1 .. Len(t) - e : t[i] = v, NEW i \in Len(s) - k + 1 .. Len(s) - e
            PROVE  s[i] = v
        <5> DEFINE j == i - m
        <5>1. j \in Len(t) - k + 1 .. Len(t) - e /\ j \in 1 .. BlockSize /\ i = m + j
          BY <1>1, <1>2, <3>1
        <5> HIDE DEF j
        <5> QED BY <4>2, <5>1, <1>2
      <4>3. Len(s) - 0 = Len(s) /\ Len(t) - 0 = Len(t)
        BY <1>1, <1>2
      <4>4. (\A i \in Len(s) - k + 1 .. Len(s) : s[i] = v) <=> (\A i \in Len(t) - k + 1 .. Len(t) : t[i] = v)
        <5>1. 0 \in 0 .. 1
          OBVIOUS
        <5>2. ASSUME \A i \in Len(s) - k + 1 .. Len(s) : s[i] = v  PROVE \A i \in Len(t) - k + 1 .. Len(t) : t[i] = v
          BY <4>1, <4>3, <5>1, <5>2
        <5>3. ASSUME \A i \in Len(t) - k + 1 .. Len(t) : t[i] = v  PROVE \A i \in Len(s) - k + 1 .. Len(s) : s[i] = v
          BY <4>2, <4>3, <5>1, <5>3
        <5> QED BY <5>2, <5>3
      <4>5. (\A i \in Len(s) - k + 1 .. Len(s) - 1 : s[i] = v) <=> (\A i \in Len(t) - k + 1 .. Len(t) - 1 : t[i] = v)
        <5>1. 1 \in 0 .. 1
          OBVIOUS
        <5> QED BY <4>1, <4>2, <5>1
      <4> QED BY <4>4, <4>5
    <3>2. Counted(s, scheme) = Counted(t, scheme)
      <4>1. CASE k \in 1 .. BlockSize
        <5>1. (\A i \in Len(s) - k + 1 .. Len(s) : s[i] = k) <=> (\A i \in Len(t) - k + 1 .. Len(t) : t[i] = k)
          BY <3>1, <4>1
        <5>2. (\A i \in Len(s) - k + 1 .. Len(s) - 1 : s[i] = 0) <=> (\A i \in Len(t) - k + 1 .. Len(t) - 1 : t[i] = 0)
          BY <3>1, <4>1
        <5> QED BY <5>1, <5>2, <1>8 DEF Counted
      <4>2. CASE k \notin 1 .. BlockSize
        BY <4>2, <1>8 DEF Counted
      <4> QED BY <4>1, <4>2
    <3>3. Unpadded(s, scheme) = Counted(s, scheme) /\ Unpadded(t, scheme) = Counted(t, scheme)
      BY <2>3 DEF Unpadded
    <3> QED BY <3>2, <3>3
  <2> QED BY <2>1, <2>2, <2>3
<1>10. CASE ~Unpadded(t, scheme)
  BY <1>4, <1>5, <1>9, <1>10 DEF Refused, s
<1>11. CASE Unpadded(t, scheme)
  <2> DEFINE l == Left(t, scheme)
  <2>1. l \in 0 .. BlockSize
    <3>1. l \in Len(t) - BlockSize .. Len(t) /\ l \in Nat
      BY <1>1, <1>11, LeftIs
    <3> HIDE DEF l
    <3> QED BY <3>1, <1>1
  <2>2. Left(s, scheme) = m + l
    <3>1. CASE scheme = "iso7816"
      <4>1. n > 0 /\ l = n - 1
        BY <3>1, <1>1, <1>6, <1>11 DEF Unpadded, Left, n
      <4>2. Left(s, scheme) = KeptLast(s) - 1
        BY <3>1 DEF Left
      <4> HIDE DEF l
      <4> QED BY <4>1, <4>2, <1>1, <1>6, <1>7
    <3>2. CASE scheme = "zero"
      BY <3>2, <1>7 DEF Left, n
    <3>3. CASE scheme # "iso7816" /\ scheme # "zero"
      <4>1. l = Len(t) - t[Len(t)] /\ t[Len(t)] \in 1 .. BlockSize
        BY <3>3, <1>11 DEF Left, Unpadded, Counted
      <4>2. Left(s, scheme) = Len(s) - t[Len(t)]
        BY <3>3, <1>8 DEF Left
      <4> HIDE DEF l
      <4> QED BY <4>1, <4>2, <1>1, <1>2
    <3> QED BY <3>1, <3>2, <3>3
  <2> HIDE DEF l
  <2>3. Take(s, m + l) = x \o Take(t, l)
    <3> DEFINE u == SubSeq(t, 1, l)
               z == SubSeq(s, 1, m + l)
    <3>1. u \in Seq(Octets) /\ Len(u) = l /\ \A i \in 1 .. l : u[i] = t[i]
      BY <2>1
    <3>2. z \in Seq(Octets) /\ Len(z) = m + l /\ \A i \in 1 .. m + l : z[i] = s[i]
      BY <2>1, <1>1, <1>2
    <3> HIDE DEF u, z
    <3>3. Len(x) = m
      BY DEF m
    <3>4. Len(z) = Len(x) + Len(u) /\ \A i \in 1 .. Len(x) : z[i] = x[i]
      BY <3>1, <3>2, <3>3, <1>1, <1>2, <2>1
    <3>5. \A i \in 1 .. Len(u) : z[Len(x) + i] = u[i]
      <4> SUFFICES ASSUME NEW i \in 1 .. Len(u)  PROVE z[Len(x) + i] = u[i]
        OBVIOUS
      <4>1. i \in 1 .. l /\ i \in 1 .. BlockSize /\ m + i \in 1 .. m + l
        BY <3>1, <1>1, <2>1
      <4>2. z[m + i] = t[i]
        BY <4>1, <3>2, <1>2
      <4> QED BY <4>1, <4>2, <3>1, <3>3
    <3>6. x \o u = z
      BY <3>1, <3>2, <3>4, <3>5, JoinIs
    <3> QED BY <3>6 DEF Take, u, z
  <2>4. UnpadBlocks(t, scheme).ok /\ UnpadBlocks(t, scheme).out = Take(t, l)
    BY <1>5, <1>11 DEF Good, l
  <2>5. UnpadBlocks(s, scheme) = Good(x \o Take(t, l))
    BY <1>4, <1>9, <1>11, <2>2, <2>3
  <2> QED BY <2>4, <2>5 DEF s
<1> QED BY <1>10, <1>11

Marking == {"pkcs7", "iso7816", "x923"}

\* Padding is removed by unpadding, but for the zeros a message ended with.
LEMMA UnpadPad ==
  ASSUME NEW d \in Seq(Octets), NEW s \in Fillers, s # "none"
  PROVE  LET u == UnpadBlocks(PadBlocks(d, s).out, s)
         IN /\ u.ok
            /\ s \in Marking => u.out = d
            /\ s = "zero" => \E l \in 0 .. Len(d) : u.out = SubSeq(d, 1, l) /\ \A i \in l + 1 .. Len(d) : d[i] = 0
<1> DEFINE p == PadBlocks(d, s).out
           r == Len(d) % BlockSize
           t == PadTail(r, s)
           n == BlockSize - r
           L == Len(d)
           u == UnpadBlocks(p, s)
<1>1. p = d \o t /\ p \in Seq(Octets) /\ Whole(p) /\ Len(p) = L + Len(t) /\ t \in Seq(Octets)
  BY PaddedIs
<1>2. r \in 0 .. BlockSize - 1
  BY PadIs
<1>3. Len(t) = n /\ \A j \in 1 .. n : t[j] = PadByte(n, j, s)
  BY <1>2, PadTailIs
<1>4. n \in 1 .. BlockSize /\ L \in Nat /\ BlockSize \in Nat /\ BlockSize > 0
  BY <1>2, BlocksAre
<1>a. d \in Seq(Octets)
  OBVIOUS
<1>b. BlockSize <= L + n
  <2>1. r <= L
    <3> DEFINE q == L \div BlockSize
    <3>1. L = q * BlockSize + r /\ q \in Nat
      <4>1. L \in Nat /\ BlockSize \in Nat \ {0}
        BY <1>4
      <4> QED BY <4>1, DivMod
    <3>2. q * BlockSize \in Nat
      BY <1>4, <3>1, Products
    <3> DEFINE m == q * BlockSize
    <3>3. m \in Nat /\ L = m + r
      BY <3>1, <3>2
    <3> HIDE DEF m, L, r
    <3> QED BY <3>3, <1>2
  <2> QED BY <2>1, <1>2, <1>4
<1> HIDE DEF p, r, t, n, L
<1>5. ASSUME NEW j \in 1 .. n  PROVE p[L + j] = PadByte(n, j, s)
  <2>1. p[Len(d) + j] = t[j]
    <3>1. j \in 1 .. Len(t)
      BY <1>3
    <3> QED BY <3>1, <1>1, <1>a
  <2> QED BY <2>1, <1>3 DEF L
<1>6. ASSUME NEW i \in 1 .. L  PROVE p[i] = d[i]
  <2>1. i \in 1 .. Len(d)
    BY DEF L
  <2> QED BY <2>1, <1>1, <1>a
<1>7. Len(p) = L + n /\ p # <<>> /\ BlockSize <= Len(p)
  <2>1. Len(p) = L + n /\ Len(p) > 0
    BY <1>1, <1>3, <1>4
  <2>2. BlockSize <= Len(p)
    BY <2>1, <1>b
  <2> QED BY <2>1, <2>2
<1>8. u = IF Unpadded(p, s) THEN Good(Take(p, Left(p, s))) ELSE Refused
  BY <1>1, <1>7, UnpadIs DEF Fillers
<1>9. Take(p, L) = d
  <2>1. SubSeq(p, 1, L) \in Seq(Octets) /\ Len(SubSeq(p, 1, L)) = L /\ \A i \in 1 .. L : SubSeq(p, 1, L)[i] = p[i]
    BY <1>1, <1>4, <1>7
  <2> DEFINE x == SubSeq(p, 1, L)
  <2>2. x \in Seq(Octets) /\ Len(x) = L /\ \A i \in 1 .. L : x[i] = d[i]
    BY <2>1, <1>6
  <2> HIDE DEF x
  <2>3. x = d
    BY <2>2, <1>a DEF L
  <2> QED BY <2>3 DEF Take, x
<1>10. CASE s \in {"pkcs7", "x923"}
  <2>1. p[Len(p)] = n
    <3>1. n \in 1 .. n
      BY <1>4
    <3>2. p[L + n] = PadByte(n, n, s)
      BY <3>1, <1>5
    <3>3. PadByte(n, n, s) = n
      BY <1>10 DEF PadByte
    <3> QED BY <3>2, <3>3, <1>7
  <2>2. Left(p, s) = L
    <3>1. Left(p, s) = Len(p) - p[Len(p)]
      BY <1>10 DEF Left
    <3> QED BY <3>1, <2>1, <1>4, <1>7
  <2>3. ASSUME NEW i \in Len(p) - n + 1 .. Len(p)
        PROVE  p[i] = PadByte(n, i - L, s) /\ i - L \in 1 .. n
    <3> DEFINE j == i - L
    <3>1. j \in 1 .. n /\ i = L + j
      BY <1>4, <1>7
    <3> HIDE DEF j
    <3>2. p[i] = PadByte(n, j, s)
      BY <3>1, <1>5
    <3> QED BY <3>1, <3>2 DEF j
  <2>4. Unpadded(p, s)
    <3>1. s = "pkcs7" => \A i \in Len(p) - n + 1 .. Len(p) : p[i] = n
      BY <2>3 DEF PadByte
    <3>2. s = "x923" => \A i \in Len(p) - n + 1 .. Len(p) - 1 : p[i] = 0
      <4> SUFFICES ASSUME s = "x923", NEW i \in Len(p) - n + 1 .. Len(p) - 1  PROVE p[i] = 0
        OBVIOUS
      <4>1. i \in Len(p) - n + 1 .. Len(p) /\ i - L # n
        BY <1>4, <1>7
      <4> QED BY <4>1, <2>3 DEF PadByte
    <3>3. Counted(p, s)
      BY <3>1, <3>2, <2>1, <1>4 DEF Counted
    <3> QED BY <3>3, <1>10 DEF Unpadded
  <2> QED BY <1>8, <1>9, <1>10, <2>2, <2>4 DEF Good, p
<1>11. CASE s = "iso7816"
  <2>1. \A j \in 1 .. n : p[L + j] = IF j = 1 THEN Marker ELSE 0
    BY <1>5, <1>11 DEF PadByte
  <2>2. p[L + 1] = Marker /\ Marker # 0
    <3>1. 1 \in 1 .. n
      BY <1>4
    <3> QED BY <3>1, <2>1, MarkerIs
  <2>3. ASSUME NEW i \in (L + 1) + 1 .. Len(p)  PROVE p[i] = 0
    <3> DEFINE j == i - L
    <3>1. j \in 1 .. n /\ j # 1 /\ i = L + j
      BY <1>4, <1>7
    <3> HIDE DEF j
    <3> QED BY <3>1, <2>1
  <2>4. KeptOf(p, L + 1) /\ L + 1 \in Len(p) - BlockSize .. Len(p)
    BY <2>2, <2>3, <1>4, <1>7 DEF KeptOf
  <2>5. KeptLast(p) = L + 1
    BY <2>4, <1>1, <1>7, KeptOnce
  <2>6. Unpadded(p, s)
    <3>1. L + 1 > Len(p) - BlockSize
      BY <1>4, <1>7
    <3> QED BY <3>1, <2>2, <2>5, <1>11 DEF Unpadded
  <2>7. Left(p, s) = L
    BY <2>5, <1>4, <1>11 DEF Left
  <2> QED BY <1>8, <1>9, <1>11, <2>6, <2>7 DEF Good, p
<1>12. CASE s = "zero"
  <2> DEFINE l == KeptLast(p)
  <2>1. \A j \in 1 .. n : p[L + j] = 0
    BY <1>5, <1>12 DEF PadByte
  <2>2. l \in Len(p) - BlockSize .. Len(p) /\ KeptOf(p, l)
    BY <1>1, <1>7, KeptIs
  <2>3. Unpadded(p, s) /\ Left(p, s) = l
    BY <1>12 DEF Unpadded, Left
  <2> HIDE DEF l
  <2>4. l \in 0 .. L
    <3>1. l \in Nat /\ l <= L + n
      BY <2>2, <1>4, <1>7
    <3> SUFFICES ASSUME l > L  PROVE FALSE
      BY <3>1, <1>4
    <3> DEFINE j == l - L
    <3>2. j \in 1 .. n /\ l = L + j /\ l # Len(p) - BlockSize
      BY <3>1, <1>4, <1>7
    <3> HIDE DEF j
    <3>3. p[l] = 0 /\ p[l] # 0
      BY <3>2, <2>1, <2>2 DEF KeptOf
    <3> QED BY <3>3
  <2>5. ASSUME NEW i \in l + 1 .. L  PROVE d[i] = 0
    <3>1. i \in 1 .. L /\ i \in l + 1 .. Len(p)
      BY <2>4, <1>4, <1>7
    <3>2. p[i] = 0
      BY <3>1, <2>2 DEF KeptOf
    <3> QED BY <3>1, <3>2, <1>6
  <2>6. Take(p, l) = SubSeq(d, 1, l)
    <3> DEFINE x == SubSeq(p, 1, l)
               y == SubSeq(d, 1, l)
    <3>1. x \in Seq(Octets) /\ Len(x) = l /\ \A i \in 1 .. l : x[i] = p[i]
      BY <2>4, <1>1, <1>4, <1>7
    <3>2. y \in Seq(Octets) /\ Len(y) = l /\ \A i \in 1 .. l : y[i] = d[i]
      <4>1. l \in 0 .. Len(d)
        BY <2>4 DEF L
      <4> QED BY <4>1, <1>a
    <3> HIDE DEF x, y
    <3>3. \A i \in 1 .. l : x[i] = y[i]
      BY <3>1, <3>2, <1>4, <1>6, <2>4
    <3>4. x = y
      BY <3>1, <3>2, <3>3
    <3> QED BY <3>4 DEF Take, x, y
  <2>7. u = Good(SubSeq(d, 1, l))
    BY <1>8, <2>3, <2>6
  <2> HIDE DEF u
  <2>8. u.ok /\ u.out = SubSeq(d, 1, l)
    BY <2>7 DEF Good
  <2>9. \E k \in 0 .. Len(d) : u.out = SubSeq(d, 1, k) /\ \A i \in k + 1 .. Len(d) : d[i] = 0
    BY <2>4, <2>5, <2>8 DEF L
  <2> QED BY <1>12, <2>8, <2>9 DEF u, p, Marking
<1> QED BY <1>10, <1>11, <1>12 DEF Fillers, Paddings, Marking

\* What is unpadded was padded.
LEMMA PadUnpad ==
  ASSUME NEW p \in Seq(Octets), p # <<>>, Whole(p), NEW s \in Marking, Unpadded(p, s)
  PROVE  /\ Left(p, s) \in 0 .. Len(p) - 1
         /\ PadBlocks(Take(p, Left(p, s)), s) = Good(p)
<1> DEFINE l == Left(p, s)
           d == Take(p, l)
           r == l % BlockSize
           k == Len(p) - l
           t == PadTail(r, s)
           q == Len(p) \div BlockSize
           m == (q - 1) * BlockSize
<1>1. BlockSize \in Nat /\ BlockSize > 0 /\ BlockSize \in Nat \ {0} /\ Len(p) \in Nat /\ s # "zero" /\ s # "none" /\ s \in Fillers
  BY BlocksAre DEF Marking, Fillers, Paddings
<1>2. m \in Nat /\ Len(p) = m + BlockSize /\ q - 1 \in Nat
  <2>1. q \in Nat /\ q * BlockSize = Len(p)
    BY WholeBlocks
  <2>2. q # 0
    <3> SUFFICES ASSUME q = 0  PROVE FALSE
      OBVIOUS
    <3>1. Len(p) = 0
      BY <2>1, <1>1
    <3> QED BY <3>1
  <2>3. q >= 1
    BY <2>1, <2>2
  <2> HIDE DEF q
  <2> QED BY <2>1, <2>3, <1>1, UnitEnds
<1>3. BlockSize <= Len(p)
  <2> HIDE DEF m
  <2> QED BY <1>1, <1>2
<1>4. l \in Len(p) - BlockSize .. Len(p) /\ l \in Nat /\ l < Len(p)
  BY <1>1, <1>3, LeftIs
<1> HIDE DEF l
<1>5. k \in 1 .. BlockSize /\ l = m + (BlockSize - k) /\ BlockSize - k \in 0 .. BlockSize - 1
  <2> HIDE DEF m
  <2> QED BY <1>1, <1>2, <1>4
<1>6. r = BlockSize - k
  <2>1. ((q - 1) * BlockSize + (BlockSize - k)) % BlockSize = BlockSize - k
    <3> DEFINE a == q - 1
               b == BlockSize - k
    <3>1. a \in Nat /\ b \in 0 .. BlockSize - 1
      BY <1>2, <1>5
    <3> HIDE DEF a, b
    <3>2. (a * BlockSize + b) % BlockSize = b
      BY <3>1, <1>1, DivIs
    <3> QED BY <3>2 DEF a, b
  <2> QED BY <2>1, <1>5
<1> HIDE DEF m, r, k, q
<1>7. r \in 0 .. BlockSize - 1 /\ BlockSize - r = k /\ k \in Nat
  BY <1>1, <1>5, <1>6
<1>8. d \in Seq(Octets) /\ Len(d) = l /\ \A i \in 1 .. l : d[i] = p[i]
  BY <1>4 DEF Take
<1>9. Len(d) % BlockSize = r
  BY <1>8 DEF r
<1> HIDE DEF d
<1>10. t \in Seq(Octets) /\ Len(t) = k /\ \A j \in 1 .. k : t[j] = PadByte(k, j, s)
  BY <1>1, <1>7, PadTailIs
<1>11. PadBlocks(d, s) = Good(d \o t)
  BY <1>1, <1>8, <1>9, PadIs
<1>12. \A j \in 1 .. k : p[l + j] = PadByte(k, j, s)
  <2> SUFFICES ASSUME NEW j \in 1 .. k  PROVE p[l + j] = PadByte(k, j, s)
    OBVIOUS
  <2>1. CASE s = "iso7816"
    <3>1. l = KeptLast(p) - 1 /\ KeptLast(p) > Len(p) - BlockSize /\ p[KeptLast(p)] = Marker
      BY <2>1 DEF l, Left, Unpadded
    <3>2. KeptLast(p) \in Len(p) - BlockSize .. Len(p) /\ KeptOf(p, KeptLast(p))
      BY <1>3, KeptIs
    <3>3. KeptLast(p) = l + 1
      BY <3>1, <3>2, <1>1, <1>4
    <3>4. CASE j = 1
      BY <3>1, <3>3, <3>4, <2>1 DEF PadByte
    <3>5. CASE j # 1
      <4>1. l + j \in KeptLast(p) + 1 .. Len(p)
        BY <3>3, <3>5, <1>1, <1>4, <1>5 DEF k
      <4>2. p[l + j] = 0
        BY <4>1, <3>2 DEF KeptOf
      <4> QED BY <4>2, <3>5, <2>1 DEF PadByte
    <3> QED BY <3>4, <3>5
  <2>2. CASE s # "iso7816"
    <3>1. Counted(p, s) /\ l = Len(p) - p[Len(p)] /\ p[Len(p)] \in 1 .. BlockSize
      BY <2>2, <1>1 DEF l, Left, Unpadded, Counted
    <3>2. p[Len(p)] = k
      BY <3>1, <1>1 DEF k
    <3>3. l + j \in Len(p) - k + 1 .. Len(p) /\ (j # k => l + j \in Len(p) - k + 1 .. Len(p) - 1) /\ (j = k => l + j = Len(p))
      BY <1>1, <1>4, <1>5 DEF k
    <3>4. CASE s = "pkcs7"
      <4>1. \A i \in Len(p) - k + 1 .. Len(p) : p[i] = k
        BY <3>1, <3>2, <3>4 DEF Counted
      <4> QED BY <4>1, <3>3, <3>4 DEF PadByte
    <3>5. CASE s = "x923"
      <4>1. \A i \in Len(p) - k + 1 .. Len(p) - 1 : p[i] = 0
        BY <3>1, <3>2, <3>5 DEF Counted
      <4>2. CASE j = k
        BY <4>2, <3>2, <3>3, <3>5 DEF PadByte
      <4>3. CASE j # k
        BY <4>1, <4>3, <3>3, <3>5 DEF PadByte
      <4> QED BY <4>2, <4>3
    <3> QED BY <3>4, <3>5, <2>2 DEF Marking
  <2> QED BY <2>1, <2>2
<1> HIDE DEF t
<1>13. d \o t = p
  <2>1. Len(p) = Len(d) + Len(t)
    BY <1>1, <1>4, <1>8, <1>10 DEF k
  <2>2. \A i \in 1 .. Len(d) : p[i] = d[i]
    BY <1>8
  <2>3. \A i \in 1 .. Len(t) : p[Len(d) + i] = t[i]
    BY <1>8, <1>10, <1>12
  <2> QED BY <2>1, <2>2, <2>3, <1>8, <1>10, JoinIs
<1>14. l \in 0 .. Len(p) - 1
  BY <1>1, <1>4
<1> QED BY <1>11, <1>13, <1>14 DEF d, l

\* The lengths a padded message may have had: some just if it is unpadded.
PaddedFrom(p, s) == {n \in 0 .. Len(p) - 1 : PadBlocks(Take(p, n), s).out = p}

\* A padding that marks its length is accepted just if some message was padded so.
LEMMA CheckedIs ==
  ASSUME NEW p \in Seq(Octets), p # <<>>, Whole(p), NEW s \in Marking
  PROVE  LET u == UnpadBlocks(p, s)
         IN /\ u.ok <=> PaddedFrom(p, s) # {}
            /\ u.ok => Len(u.out) \in PaddedFrom(p, s) /\ u.out = Take(p, Len(u.out))
<1> DEFINE u == UnpadBlocks(p, s)
           l == Left(p, s)
<1>1. s \in Fillers /\ s # "none" /\ s \in Paddings
  BY DEF Marking, Fillers, Paddings
<1>2. u = IF Unpadded(p, s) THEN Good(Take(p, l)) ELSE Refused
  BY <1>1, UnpadIs
<1>3. u.ok <=> Unpadded(p, s)
  <2>1. CASE Unpadded(p, s)
    <3> HIDE DEF u
    <3> QED BY <1>2, <2>1 DEF Good
  <2>2. CASE ~Unpadded(p, s)
    <3> HIDE DEF u
    <3> QED BY <1>2, <2>2 DEF Refused
  <2> QED BY <2>1, <2>2
<1>4. ASSUME u.ok  PROVE Len(u.out) \in PaddedFrom(p, s) /\ u.out = Take(p, Len(u.out))
  <2>1. l \in 0 .. Len(p) - 1 /\ PadBlocks(Take(p, l), s) = Good(p)
    BY <1>3, <1>4, PadUnpad
  <2> HIDE DEF l, u
  <2>2. u.out = Take(p, l)
    BY <1>2, <1>3, <1>4 DEF Good
  <2>3. Len(u.out) = l
    BY <2>1, <2>2 DEF Take
  <2>4. PadBlocks(Take(p, l), s).out = p
    BY <2>1 DEF Good
  <2> QED BY <2>1, <2>2, <2>3, <2>4 DEF PaddedFrom
<1>5. ASSUME NEW n \in PaddedFrom(p, s)  PROVE u.ok
  <2>1. n \in 0 .. Len(p) - 1 /\ PadBlocks(Take(p, n), s).out = p
    BY <1>5 DEF PaddedFrom
  <2>2. Take(p, n) \in Seq(Octets)
    BY <2>1 DEF Take
  <2> DEFINE d == Take(p, n)
  <2> HIDE DEF d
  <2>3. UnpadBlocks(PadBlocks(d, s).out, s).ok
    BY <1>1, <2>2, UnpadPad DEF d
  <2> QED BY <2>1, <2>3 DEF d
<1> QED BY <1>4, <1>5

-----------------------------------------------------------------------------
(* The incremental form of ECB and CBC. *)

Padding(c) ==
  /\ c.mode \in PaddedModes /\ c.direction \in Directions /\ c.padding \in Paddings
  /\ c.direction = "encrypt" => c.padding # "iso10126"

\* What the blocks are of: the input, padded when encrypting.
Processed(c, d) ==
  IF c.direction = "encrypt" /\ PadBlocks(d, c.padding).ok THEN PadBlocks(d, c.padding).out ELSE d

\* How many blocks are out after m bytes.
Held(c)     == c.direction = "decrypt" /\ c.padding # "none"
Ready(c, m) == IF Held(c) /\ m \div BlockSize > 0 THEN (m \div BlockSize) - 1 ELSE m \div BlockSize

\* What the engine keeps then, and what is out.
PaddedState(c, d, m) ==
  [chain |-> Chained(c, Processed(c, d), Ready(c, m)), keystream |-> Fill(BlockSize, 0), offset |-> BlockSize,
   exhausted |-> FALSE, pending |-> SubSeq(d, Ready(c, m) * BlockSize + 1, m), length |-> m]
PaddedOut(c, d, m) == MadeFrom(c, Processed(c, d), 0, Ready(c, m) * BlockSize)

\* What is processed in the end begins with what was read.
LEMMA ProcessedIs ==
  ASSUME NEW c, Padding(c), NEW d \in Seq(Octets)
  PROVE  LET P == Processed(c, d)
         IN /\ P \in Seq(Octets) /\ Len(d) <= Len(P)
            /\ \A a, b \in Nat : 1 <= a /\ a <= b + 1 /\ b <= Len(d) => SubSeq(P, a, b) = SubSeq(d, a, b)
            /\ c.direction = "encrypt" /\ PadBlocks(d, c.padding).ok => P = PadBlocks(d, c.padding).out /\ Whole(P)
            /\ c.direction # "encrypt" => P = d
<1> DEFINE P == Processed(c, d)
<1>1. CASE c.direction = "encrypt" /\ PadBlocks(d, c.padding).ok
  <2>1. c.padding \in Fillers
    BY <1>1 DEF Padding, Fillers
  <2>2. c.padding # "none" \/ Whole(d)
    <3> SUFFICES ASSUME c.padding = "none", ~Whole(d)  PROVE FALSE
      OBVIOUS
    <3>1. PadBlocks(d, c.padding) = Refused
      BY <2>1, PadIs
    <3> QED BY <3>1, <1>1 DEF Refused
  <2> DEFINE t == PadTail(Len(d) % BlockSize, c.padding)
             p == PadBlocks(d, c.padding).out
  <2>3. p = d \o t /\ t \in Seq(Octets) /\ p \in Seq(Octets) /\ Whole(p)
    BY <2>1, <2>2, PaddedIs
  <2> HIDE DEF t, p
  <2>4. Len(d) <= Len(p) /\ \A a, b \in Nat : 1 <= a /\ a <= b + 1 /\ b <= Len(d) => SubSeq(p, a, b) = SubSeq(d, a, b)
    BY <2>3
  <2>5. P = p
    BY <1>1 DEF Processed, p
  <2> QED BY <1>1, <2>3, <2>4, <2>5 DEF p
<1>2. CASE ~(c.direction = "encrypt" /\ PadBlocks(d, c.padding).ok)
  <2>1. P = d
    BY <1>2 DEF Processed
  <2> QED BY <1>2, <2>1
<1> QED BY <1>1, <1>2

\* The quotient grows.
LEMMA DivGrows ==
  ASSUME NEW l \in Nat, NEW m \in Nat, l <= m
  PROVE  /\ l \div BlockSize \in Nat /\ m \div BlockSize \in Nat
         /\ l \div BlockSize <= m \div BlockSize
         /\ (m \div BlockSize) * BlockSize \in Nat /\ (m \div BlockSize) * BlockSize <= m
         /\ m < (m \div BlockSize) * BlockSize + BlockSize
<1> DEFINE p == l \div BlockSize
           q == m \div BlockSize
<1>1. BlockSize \in Nat \ {0}
  BY BlocksAre
<1>2. /\ p \in Nat /\ q \in Nat /\ p * BlockSize <= l /\ q * BlockSize <= m /\ m < q * BlockSize + BlockSize
      /\ p * BlockSize \in Nat /\ q * BlockSize \in Nat
  <2>1. p \in Nat /\ l % BlockSize \in 0 .. BlockSize - 1 /\ l = p * BlockSize + (l % BlockSize)
    BY <1>1, DivMod
  <2>2. q \in Nat /\ m % BlockSize \in 0 .. BlockSize - 1 /\ m = q * BlockSize + (m % BlockSize)
    BY <1>1, DivMod
  <2> HIDE DEF p, q
  <2>3. p * BlockSize \in Nat /\ q * BlockSize \in Nat
    BY <1>1, <2>1, <2>2, Products
  <2> DEFINE u == p * BlockSize
             v == q * BlockSize
  <2>4. u \in Nat /\ v \in Nat /\ l = u + (l % BlockSize) /\ m = v + (m % BlockSize)
    BY <2>1, <2>2, <2>3
  <2> HIDE DEF u, v
  <2>5. u <= l /\ v <= m /\ m < v + BlockSize
    BY <1>1, <2>1, <2>2, <2>4
  <2> QED BY <2>1, <2>2, <2>4, <2>5 DEF u, v
<1>3. p <= q
  <2> SUFFICES ASSUME q < p  PROVE FALSE
    BY <1>2
  <2> HIDE DEF p, q
  <2>1. q * BlockSize + BlockSize <= p * BlockSize
    BY <1>1, <1>2, ProductsGrow
  <2> DEFINE u == p * BlockSize
             v == q * BlockSize
  <2>2. u \in Nat /\ v \in Nat /\ v + BlockSize <= u /\ u <= l /\ m < v + BlockSize
    BY <2>1, <1>2
  <2> HIDE DEF u, v
  <2> QED BY <2>2, <1>1
<1> QED BY <1>2, <1>3

\* How many blocks are out after m bytes: all that are whole, but for one if one is held back.
LEMMA ReadyIs ==
  ASSUME NEW c, NEW m \in Nat
  PROVE  /\ Ready(c, m) \in Nat /\ Ready(c, m) <= m \div BlockSize
         /\ Ready(c, m) * BlockSize \in Nat /\ Ready(c, m) * BlockSize <= m
         /\ m < Ready(c, m) * BlockSize + 2 * BlockSize
         /\ ~Held(c) => m < Ready(c, m) * BlockSize + BlockSize
         /\ \A l \in Nat : l <= m => Ready(c, l) <= Ready(c, m)
<1> DEFINE q == m \div BlockSize
           n == Ready(c, m)
<1>1. BlockSize \in Nat \ {0} /\ q \in Nat /\ q * BlockSize \in Nat /\ q * BlockSize <= m /\ m < q * BlockSize + BlockSize
  BY BlocksAre, DivGrows
<1>2. n = IF Held(c) /\ q > 0 THEN q - 1 ELSE q
  BY DEF Ready
<1>3. ASSUME NEW l \in Nat, l <= m  PROVE Ready(c, l) <= n
  <2>1. l \div BlockSize \in Nat /\ l \div BlockSize <= q
    BY <1>3, DivGrows
  <2> DEFINE p == l \div BlockSize
  <2>2. p \in Nat /\ p <= q /\ Ready(c, l) = IF Held(c) /\ p > 0 THEN p - 1 ELSE p
    BY <2>1 DEF Ready
  <2> HIDE DEF p, q, n
  <2> QED BY <2>2, <1>1, <1>2
<1> HIDE DEF q, n
<1>4. CASE Held(c) /\ q > 0
  <2>1. n = q - 1 /\ n \in Nat /\ n * BlockSize \in Nat /\ q * BlockSize = n * BlockSize + BlockSize
    BY <1>1, <1>2, <1>4, UnitEnds
  <2> DEFINE u == n * BlockSize
             v == q * BlockSize
  <2>2. u \in Nat /\ v \in Nat /\ v = u + BlockSize /\ v <= m /\ m < v + BlockSize
    BY <2>1, <1>1
  <2> HIDE DEF u, v
  <2>3. u <= m /\ m < u + 2 * BlockSize
    BY <2>2, <1>1
  <2> QED BY <2>1, <2>2, <2>3, <1>1, <1>3, <1>4 DEF u, q, n
<1>5. CASE ~(Held(c) /\ q > 0)
  <2>1. n = q
    BY <1>2, <1>5
  <2> DEFINE v == q * BlockSize
  <2>2. v \in Nat /\ v <= m /\ m < v + BlockSize
    BY <1>1
  <2> HIDE DEF v
  <2>3. m < v + 2 * BlockSize
    BY <2>2, <1>1
  <2> QED BY <2>1, <2>2, <2>3, <1>1, <1>3 DEF v, q, n
<1> QED BY <1>4, <1>5

\* What is out is within what is processed.
LEMMA ReadyFits ==
  ASSUME NEW c, Padding(c), NEW d \in Seq(Octets), NEW m \in Nat, m <= Len(d)
  PROVE  /\ Ready(c, m) <= Len(Processed(c, d)) \div BlockSize
         /\ Ready(c, m) * BlockSize <= (Len(Processed(c, d)) \div BlockSize) * BlockSize
<1> DEFINE P == Processed(c, d)
           n == Ready(c, m)
           N == Len(P) \div BlockSize
<1>1. P \in Seq(Octets) /\ Len(d) <= Len(P)
  BY ProcessedIs
<1>2. m \in Nat /\ Len(P) \in Nat /\ m <= Len(P)
  <2> HIDE DEF P
  <2> QED BY <1>1
<1>3. m \div BlockSize \in Nat /\ N \in Nat /\ m \div BlockSize <= N
  <2> DEFINE l == Len(P)
  <2>1. l \in Nat /\ m <= l
    BY <1>2
  <2> HIDE DEF l
  <2>2. m \div BlockSize \in Nat /\ l \div BlockSize \in Nat /\ m \div BlockSize <= l \div BlockSize
    BY <2>1, DivGrows
  <2> QED BY <2>2 DEF l
<1>4. n \in Nat /\ n <= N
  <2>1. n \in Nat /\ n <= m \div BlockSize
    BY ReadyIs
  <2> HIDE DEF n, N
  <2> QED BY <2>1, <1>3
<1> HIDE DEF n, N
<1>5. n * BlockSize <= N * BlockSize
  <2>1. BlockSize \in Nat /\ n * BlockSize \in Nat
    BY <1>4, BlocksAre, Products
  <2>2. CASE n = N
    BY <2>1, <2>2
  <2>3. CASE n # N
    <3>1. n < N
      BY <2>3, <1>3, <1>4
    <3>2. n * BlockSize + BlockSize <= N * BlockSize
      BY <3>1, <2>1, <1>3, <1>4, ProductsGrow
    <3>3. N * BlockSize \in Nat
      BY <2>1, <1>3, Products
    <3> DEFINE u == n * BlockSize
               v == N * BlockSize
    <3> HIDE DEF u, v
    <3>4. u \in Nat /\ v \in Nat /\ u + BlockSize <= v
      BY <2>1, <3>2, <3>3 DEF u, v
    <3> QED BY <3>4, <2>1 DEF u, v
  <2> QED BY <2>2, <2>3
<1> QED BY <1>4, <1>5 DEF n, N, P

\* The engine of a padded mode starts with nothing read.
LEMMA PaddedStarts ==
  ASSUME NEW c, Padding(c), NEW d \in Seq(Octets)
  PROVE  BlockStart = PaddedState(c, d, 0) /\ PaddedOut(c, d, 0) = <<>>
<1>1. BlockSize \in Nat \ {0} /\ 0 \div BlockSize = 0
  BY BlocksAre
<1>2. Ready(c, 0) = 0
  BY <1>1 DEF Ready
<1>3. 0 * BlockSize = 0
  BY <1>1
<1>4. SubSeq(d, 0 + 1, 0) = <<>>
  OBVIOUS
<1>5. Chained(c, Processed(c, d), 0) = Iv
  BY DEF Chained
<1>6. MadeFrom(c, Processed(c, d), 0, 0) = <<>>
  BY DEF MadeFrom
<1> QED BY <1>2, <1>3, <1>4, <1>5, <1>6 DEF PaddedState, PaddedOut, BlockStart

\* A chunk completes blocks, one of which may be held back.
LEMMA PaddedGoesOn ==
  ASSUME NEW c, Padding(c), NEW d \in Seq(Octets), NEW l \in Nat, NEW m \in Nat, l <= m, m <= Len(d)
  PROVE  LET r == BlockUpdate(c, PaddedState(c, d, l), SubSeq(d, l + 1, m))
         IN r.ok /\ r.state = PaddedState(c, d, m) /\ PaddedOut(c, d, l) \o r.out = PaddedOut(c, d, m)
<1> DEFINE P == Processed(c, d)
           N == Len(P) \div BlockSize
           s == PaddedState(c, d, l)
           chunk == SubSeq(d, l + 1, m)
           n == Ready(c, l)
           e == Ready(c, m)
           k == e - n
           a == n * BlockSize
           b == e * BlockSize
           pending == s.pending \o chunk
           blocks == Len(pending) \div BlockSize
           held == c.direction = "decrypt" /\ c.padding # "none" /\ blocks > 0
           length == (IF held THEN blocks - 1 ELSE blocks) * BlockSize
           done == ProcessAligned(c, s.chain, Take(pending, length))
           r == BlockUpdate(c, s, chunk)
<1>1. c.mode \in PaddedModes /\ c.mode \notin StreamModes
  BY DEF Padding, PaddedModes, StreamModes
<1>2. /\ n \in Nat /\ a \in Nat /\ a <= l /\ e \in Nat /\ b \in Nat /\ b <= m /\ n <= e
      /\ n <= l \div BlockSize /\ e <= m \div BlockSize
  BY ReadyIs
<1>3. /\ e <= N /\ b <= N * BlockSize /\ P \in Seq(Octets)
      /\ \A x, y \in Nat : 1 <= x /\ x <= y + 1 /\ y <= Len(d) => SubSeq(P, x, y) = SubSeq(d, x, y)
  BY ReadyFits, ProcessedIs
<1>4. BlockSize \in Nat \ {0} /\ k \in Nat /\ n + k = e /\ a + k * BlockSize = b /\ k * BlockSize \in Nat
  <2>1. BlockSize \in Nat \ {0}
    BY BlocksAre
  <2> HIDE DEF n, e
  <2>2. k \in Nat /\ n + k = e
    BY <1>2
  <2> HIDE DEF k
  <2>3. (n + k) * BlockSize = n * BlockSize + k * BlockSize /\ k * BlockSize \in Nat
    BY <1>2, <2>1, <2>2, Products, Distributes
  <2> QED BY <2>1, <2>2, <2>3
<1>5. s.pending = SubSeq(d, a + 1, l) /\ s.chain = Chained(c, P, n) /\ s.length = l
  BY DEF PaddedState
<1>6. s = [chain |-> Chained(c, P, n), keystream |-> Fill(BlockSize, 0), offset |-> BlockSize,
           exhausted |-> FALSE, pending |-> SubSeq(d, a + 1, l), length |-> l]
  BY DEF PaddedState
<1>7. r = Step([s EXCEPT !.pending = Drop(pending, length), !.chain = done.chain, !.length = @ + Len(chunk)], done.out)
  BY <1>1 DEF BlockUpdate
<1> HIDE DEF P, N, s, n, e, k
<1>8. pending = SubSeq(d, a + 1, m) /\ Len(pending) = m - a /\ Len(chunk) = m - l /\ pending \in Seq(Octets)
  <2> HIDE DEF a
  <2>1. SubSeq(d, a + 1, l) \o SubSeq(d, l + 1, m) = SubSeq(d, a + 1, m)
    BY <1>2
  <2> QED BY <2>1, <1>2, <1>5
<1>9. (IF held THEN blocks - 1 ELSE blocks) = k
  <2> DEFINE p == l \div BlockSize
             q == m \div BlockSize
  <2>1. p \in Nat /\ q \in Nat /\ p <= q
    BY DivGrows
  <2>2. n = (IF Held(c) /\ p > 0 THEN p - 1 ELSE p) /\ e = IF Held(c) /\ q > 0 THEN q - 1 ELSE q
    BY DEF n, e, Ready
  <2>3. blocks = q - n
    <3> DEFINE w == m - a
    <3>1. w \in Nat /\ m = a + w
      <4> HIDE DEF a
      <4> QED BY <1>2
    <3> HIDE DEF w
    <3>2. (n * BlockSize + w) \div BlockSize = n + (w \div BlockSize)
      BY <1>2, <3>1, RestOf
    <3>3. w \div BlockSize \in Nat
      BY <1>4, <3>1, DivMod
    <3>4. blocks = w \div BlockSize
      BY <1>8 DEF w
    <3>5. q = n + (w \div BlockSize)
      BY <3>1, <3>2
    <3> HIDE DEF blocks, q
    <3> DEFINE z == w \div BlockSize
    <3> HIDE DEF z
    <3>6. z \in Nat /\ q = n + z /\ blocks = z
      BY <3>3, <3>4, <3>5 DEF z
    <3> QED BY <3>6, <1>2
  <2>4. held <=> Held(c) /\ blocks > 0
    BY DEF Held
  <2>5. k = e - n /\ n \in Nat /\ e \in Nat /\ n <= e
    BY <1>2 DEF k
  <2> HIDE DEF p, q, blocks, held, k, n, e
  <2>6. CASE Held(c) /\ q = 0
    <3>1. p = 0 /\ n = 0 /\ e = 0
      BY <2>1, <2>2, <2>6
    <3>2. k = 0 /\ blocks = 0
      BY <3>1, <2>3, <2>5, <2>6
    <3>3. ~held
      BY <3>2, <2>4
    <3> QED BY <3>2, <3>3
  <2>7. CASE Held(c) /\ q # 0
    <3>1. e = q - 1 /\ n < q
      BY <2>1, <2>2, <2>5, <2>7
    <3>2. blocks > 0
      BY <3>1, <2>1, <2>3, <2>5
    <3>3. held
      BY <3>2, <2>4, <2>7
    <3>4. blocks - 1 = k
      BY <3>1, <2>1, <2>3, <2>5
    <3> QED BY <3>3, <3>4
  <2>8. CASE ~Held(c)
    <3>1. ~held
      BY <2>4, <2>8
    <3>2. e = q
      BY <2>2, <2>8
    <3>3. blocks = k
      BY <3>2, <2>3, <2>5
    <3> QED BY <3>1, <3>3
  <2> QED BY <2>6, <2>7, <2>8
<1>10. length = k * BlockSize
  BY <1>9
<1> HIDE DEF length, pending, blocks, held
<1>11. Take(pending, length) = SubSeq(P, a + 1, b) /\ Drop(pending, length) = SubSeq(d, b + 1, m)
  <2> DEFINE w == k * BlockSize
  <2>1. w \in Nat /\ a + w = b /\ length = w
    BY <1>4, <1>10
  <2> HIDE DEF a, b, w
  <2>2. SubSeq(SubSeq(d, a + 1, m), 1, w) = SubSeq(d, a + 1, b) /\ SubSeq(SubSeq(d, a + 1, m), w + 1, m - a) = SubSeq(d, b + 1, m)
    BY <2>1, <1>2
  <2>3. SubSeq(P, a + 1, b) = SubSeq(d, a + 1, b)
    <3>1. a + 1 \in Nat /\ b \in Nat /\ 1 <= a + 1 /\ a + 1 <= b + 1 /\ b <= Len(d)
      BY <2>1, <1>2
    <3> QED BY <3>1, <1>3
  <2> QED BY <2>1, <2>2, <2>3, <1>8 DEF Take, Drop
<1>12. done = [chain |-> Chained(c, P, e), out |-> MadeFrom(c, P, a, b)]
  <2>1. n + k <= Len(P) \div BlockSize
    BY <1>3, <1>4 DEF N
  <2>2. ProcessAligned(c, Chained(c, P, n), SubSeq(P, n * BlockSize + 1, (n + k) * BlockSize))
        = [chain |-> Chained(c, P, n + k), out |-> MadeFrom(c, P, n * BlockSize, (n + k) * BlockSize)]
    <3>1. P \in Seq(Octets) /\ n \in Nat /\ k \in Nat /\ c.mode \in PaddedModes
      BY <1>1, <1>2, <1>3, <1>4
    <3>2. c.direction \in Directions
      BY DEF Padding
    <3> HIDE DEF a, b
    <3> QED BY <2>1, <3>1, <3>2, ProcessIs
  <2>3. n + k = e
    BY <1>4
  <2> QED BY <2>2, <2>3, <1>5, <1>11
<1> HIDE DEF done
<1>13. r.state = PaddedState(c, d, m)
  <2>1. l + Len(chunk) = m
    <3> HIDE DEF chunk
    <3> QED BY <1>8
  <2> HIDE DEF r
  <2>2. r.state = [s EXCEPT !.pending = Drop(pending, length), !.chain = done.chain, !.length = @ + Len(chunk)]
    BY <1>7 DEF Step
  <2> HIDE DEF chunk
  <2>3. r.state = [chain |-> Chained(c, P, e), keystream |-> Fill(BlockSize, 0), offset |-> BlockSize,
                   exhausted |-> FALSE, pending |-> SubSeq(d, b + 1, m), length |-> m]
    BY <2>1, <2>2, <1>6, <1>11, <1>12
  <2> QED BY <2>3 DEF PaddedState, P, e
<1>14. r.ok /\ r.out = MadeFrom(c, P, a, b)
  <2> HIDE DEF r
  <2> QED BY <1>7, <1>12 DEF Step
<1>15. MadeFrom(c, P, 0, a) \o MadeFrom(c, P, a, b) = MadeFrom(c, P, 0, b)
  <2>1. a <= b
    <3> HIDE DEF a, b
    <3> DEFINE w == k * BlockSize
    <3>1. w \in Nat /\ a + w = b
      BY <1>4
    <3> HIDE DEF w
    <3> QED BY <3>1, <1>2
  <2>2. 0 \in Nat /\ 0 <= a
    <3> HIDE DEF a
    <3> QED BY <1>2
  <2>3. b <= (Len(P) \div BlockSize) * BlockSize
    BY <1>3 DEF N
  <2> HIDE DEF a, b
  <2> QED BY <2>1, <2>2, <2>3, <1>1, <1>2, <1>3, MadeFromJoins
<1> QED BY <1>13, <1>14, <1>15 DEF PaddedOut, P, n, e, r, s

\* What is pending at the end, and where it begins.
LEMMA PendingIs ==
  ASSUME NEW d \in Seq(Octets), NEW n \in Nat, n * BlockSize <= Len(d)
  PROVE  LET x == SubSeq(d, 1, n * BlockSize) t == SubSeq(d, n * BlockSize + 1, Len(d))
         IN /\ n * BlockSize \in Nat /\ x \in Seq(Octets) /\ t \in Seq(Octets)
            /\ Len(x) = n * BlockSize /\ Len(t) = Len(d) - n * BlockSize /\ d = x \o t
            /\ Whole(d) <=> Whole(t)
<1> DEFINE a == n * BlockSize
           x == SubSeq(d, 1, a)
           t == SubSeq(d, a + 1, Len(d))
<1>1. a \in Nat
  BY BlocksAre, Products
<1>2. Len(d) \in Nat /\ a <= Len(d)
  OBVIOUS
<1> HIDE DEF a
<1>3. x \in Seq(Octets) /\ t \in Seq(Octets) /\ Len(x) = a /\ Len(t) = Len(d) - a /\ d = x \o t
  BY <1>1, <1>2, Splits
<1> HIDE DEF x, t
<1>4. (n * BlockSize + Len(t)) % BlockSize = Len(t) % BlockSize
  <2>1. Len(t) \in Nat
    BY <1>3
  <2> QED BY <2>1, RestOf
<1>5. Len(d) = a + Len(t)
  BY <1>1, <1>2, <1>3
<1>6. Whole(d) <=> Whole(t)
  BY <1>4, <1>5 DEF a, Whole
<1> QED BY <1>1, <1>3, <1>6 DEF a, x, t

\* Finishing an encryption in a padded mode gives what the one-shot form does, or refuses with it.
LEMMA PaddedSeals ==
  ASSUME NEW c, Padding(c), c.direction = "encrypt", NEW d \in Seq(Octets)
  PROVE  LET r == BlockFinish(c, PaddedState(c, d, Len(d)))
             a == BlockOneShot(c, d)
         IN /\ r.ok \in BOOLEAN /\ a.ok = r.ok
            /\ IF r.ok THEN a.out = PaddedOut(c, d, Len(d)) \o r.out /\ r.out \in Seq(Octets) ELSE r.out = <<>>
<1> DEFINE L == Len(d)
           q == L \div BlockSize
           w == q * BlockSize
           s == PaddedState(c, d, L)
           x == SubSeq(d, 1, w)
           t == SubSeq(d, w + 1, L)
           y == PadBlocks(t, c.padding)
           z == PadBlocks(d, c.padding)
           P == Processed(c, d)
           r == BlockFinish(c, s)
           a == BlockOneShot(c, d)
<1>0. c.mode \in PaddedModes /\ c.mode \notin StreamModes /\ c.padding \in Fillers /\ c.direction \in Directions
  BY DEF Padding, PaddedModes, StreamModes, Fillers
<1>1. BlockSize \in Nat \ {0} /\ L \in Nat /\ q \in Nat /\ w \in Nat /\ w <= L
  <2>1. L \in Nat
    OBVIOUS
  <2> HIDE DEF L
  <2> QED BY <2>1, BlocksAre, DivGrows
<1>2. Ready(c, L) = q
  BY DEF Ready, Held
<1>3. s.pending = t /\ s.chain = Chained(c, P, q) /\ PaddedOut(c, d, L) = MadeFrom(c, P, 0, w)
  BY <1>2 DEF PaddedState, PaddedOut
<1>4. r = IF y.ok THEN Good(ProcessAligned(c, s.chain, y.out).out) ELSE Refused
  BY <1>0, <1>3 DEF BlockFinish
<1>5. a = IF z.ok THEN Good(EncryptAligned(c.mode, z.out)) ELSE Refused
  BY <1>0 DEF BlockOneShot, EncryptBlockMode
<1>6. x \in Seq(Octets) /\ t \in Seq(Octets) /\ Len(x) = w /\ d = x \o t
  <2> HIDE DEF L, q
  <2> QED BY <1>1, PendingIs DEF L
<1> HIDE DEF s, x, t, y, z, P, r, a, q
<1>7. z = IF y.ok THEN Good(x \o y.out) ELSE Refused
  BY <1>0, <1>1, <1>6, PadJoins DEF y, z
<1>8. CASE y.ok
  <2>1. z.ok /\ z.out = x \o y.out
    BY <1>7, <1>8 DEF Good
  <2>2. P \in Seq(Octets) /\ Whole(P) /\ P = x \o y.out
    <3>1. P \in Seq(Octets) /\ (z.ok => P = z.out /\ Whole(P))
      BY ProcessedIs DEF P, z
    <3> QED BY <2>1, <3>1
  <2> DEFINE N == Len(P) \div BlockSize
             k == N - q
  <2>3. N \in Nat /\ N * BlockSize = Len(P) /\ Len(P) \in Nat
    <3>1. Len(P) \in Nat
      BY <2>2
    <3> QED BY <2>2, <3>1, WholeBlocks
  <2>4. q <= N
    <3>1. PaddedState(c, d, L) = s /\ L \in Nat /\ L <= Len(d)
      BY <1>1 DEF s
    <3>2. Ready(c, L) <= Len(Processed(c, d)) \div BlockSize
      <4> HIDE DEF L
      <4> QED BY <3>1, ReadyFits
    <3> QED BY <1>2, <3>2 DEF P
  <2> HIDE DEF N
  <2>5. k \in Nat /\ q + k = N
    BY <1>1, <2>3, <2>4
  <2> HIDE DEF k
  <2>6. y.out \in Seq(Octets) /\ y.out = SubSeq(P, w + 1, Len(P))
    <3>1. y.out \in Seq(Octets)
      <4>1. c.padding # "none" \/ Whole(t)
        <5> SUFFICES ASSUME c.padding = "none", ~Whole(t)  PROVE FALSE
          OBVIOUS
        <5>1. y = Refused
          BY <1>0, <1>6, PadIs DEF y
        <5> QED BY <1>8, <5>1 DEF Refused
      <4>2. PadBlocks(t, c.padding).out \in Seq(Octets)
        BY <1>0, <1>6, <4>1, PaddedIs
      <4> QED BY <4>2 DEF y
    <3> DEFINE v == y.out
    <3>2. v \in Seq(Octets) /\ P = x \o v /\ x \in Seq(Octets) /\ Len(x) = w /\ w \in Nat
      BY <1>1, <1>6, <2>2, <3>1
    <3> HIDE DEF v, w
    <3>3. SubSeq(x \o v, w + 1, Len(x \o v)) = v
      <4>1. Len(x \o v) = w + Len(v) /\ Len(v) \in Nat
        BY <3>2
      <4>2. SubSeq(x \o v, Len(x) + 1, Len(x) + Len(v)) = SubSeq(v, 1, Len(v))
        <5>1. 1 \in Int /\ Len(v) \in Int /\ 1 <= 1 /\ 1 <= Len(v) + 1 /\ Len(v) <= Len(v)
          BY <4>1
        <5> QED BY <3>2, <5>1, RightSlice
      <4>3. SubSeq(v, 1, Len(v)) = v
        BY <3>2
      <4> QED BY <3>2, <4>1, <4>2, <4>3
    <3> QED BY <3>1, <3>2, <3>3 DEF v
  <2>7. ProcessAligned(c, s.chain, y.out).out = MadeFrom(c, P, w, Len(P))
    <3>1. ProcessAligned(c, Chained(c, P, q), SubSeq(P, q * BlockSize + 1, (q + k) * BlockSize))
          = [chain |-> Chained(c, P, q + k), out |-> MadeFrom(c, P, q * BlockSize, (q + k) * BlockSize)]
      <4>0. q + k <= N
        BY <2>3, <2>5
      <4>1. q \in Nat /\ k \in Nat /\ q + k <= Len(P) \div BlockSize /\ c.mode \in PaddedModes /\ P \in Seq(Octets)
        BY <1>0, <1>1, <2>2, <2>5, <4>0 DEF N
      <4> HIDE DEF w
      <4> QED BY <4>1, ProcessIs
    <3>2. (q + k) * BlockSize = Len(P)
      BY <2>3, <2>5
    <3> QED BY <1>3, <2>6, <3>1, <3>2
  <2>8. EncryptAligned(c.mode, z.out) = MadeFrom(c, P, 0, Len(P))
    <3>1. AlignedText(c, P) = MadeFrom(c, P, 0, Len(P))
      BY <2>2, AlignedIs
    <3> QED BY <2>1, <2>2, <3>1 DEF AlignedText
  <2>9. /\ MadeFrom(c, P, 0, w) \o MadeFrom(c, P, w, Len(P)) = MadeFrom(c, P, 0, Len(P))
        /\ MadeFrom(c, P, w, Len(P)) \in Seq(Octets)
    <3> DEFINE v == y.out
               l == Len(P)
    <3>1. v \in Seq(Octets) /\ x \in Seq(Octets) /\ P = x \o v /\ Len(x) = w /\ w \in Nat
      BY <1>1, <1>6, <2>2, <2>6
    <3>2. l = (l \div BlockSize) * BlockSize
      BY <2>3 DEF N
    <3> HIDE DEF v, w
    <3>3. l \in Nat /\ 0 <= w /\ w <= l
      BY <3>1
    <3>4. l <= (l \div BlockSize) * BlockSize /\ l <= l
      <4> DEFINE u == (l \div BlockSize) * BlockSize
      <4>1. l = u
        BY <3>2
      <4> HIDE DEF u, l
      <4>2. l <= u /\ l <= l
        BY <3>3, <4>1
      <4> QED BY <4>2 DEF u
    <3>5. P \in Seq(Octets) /\ c.mode \in PaddedModes
      BY <1>0, <2>2
    <3>6. MadeFrom(c, P, w, l) \in Seq(Octets)
      BY <3>1, <3>3, <3>4, <3>5, MadeFromIs
    <3>7. MadeFrom(c, P, 0, w) \o MadeFrom(c, P, w, l) = MadeFrom(c, P, 0, l)
      <4> DEFINE o == 0
                 h == (Len(P) \div BlockSize) * BlockSize
      <4>1. o \in Nat /\ w \in Nat /\ l \in Nat /\ o <= w /\ w <= l /\ l <= h
        BY <3>1, <3>3, <3>4
      <4> HIDE DEF l, o
      <4>2. MadeFrom(c, P, o, w) \o MadeFrom(c, P, w, l) = MadeFrom(c, P, o, l)
        BY ONLY <3>5, <4>1, MadeFromJoins
      <4> QED BY <4>2 DEF o
    <3> QED BY <3>6, <3>7
  <2>10. r = Good(MadeFrom(c, P, w, Len(P))) /\ a = Good(MadeFrom(c, P, 0, Len(P)))
    BY <1>4, <1>5, <1>8, <2>1, <2>7, <2>8
  <2> HIDE DEF w
  <2>11. r.ok = TRUE /\ a.ok = TRUE /\ r.out = MadeFrom(c, P, w, Len(P)) /\ a.out = MadeFrom(c, P, 0, Len(P))
    BY <2>10 DEF Good
  <2> QED BY <1>3, <2>9, <2>11 DEF r, a, s
<1>9. CASE ~y.ok
  <2>1. z = Refused
    BY <1>7, <1>9
  <2>2. r = Refused /\ a = Refused
    BY <1>4, <1>5, <1>9, <2>1 DEF Refused
  <2>3. r.ok = FALSE /\ a.ok = FALSE /\ r.out = <<>>
    BY <2>2 DEF Refused
  <2> QED BY <2>3 DEF r, a, s
<1> QED BY <1>8, <1>9

\* Less than a block is whole just if it is nothing.
LEMMA ShortIsWhole ==
  ASSUME NEW t \in Seq(Octets), Len(t) < BlockSize
  PROVE  Whole(t) <=> t = <<>>
<1>1. Len(t) \in Nat /\ BlockSize \in Nat \ {0}
  BY BlocksAre
<1>2. Len(t) % BlockSize = Len(t)
  <2>1. (0 * BlockSize + Len(t)) % BlockSize = Len(t)
    <3>1. Len(t) \in 0 .. BlockSize - 1 /\ 0 \in Nat
      BY <1>1
    <3> QED BY <1>1, <3>1, DivIs
  <2>2. 0 * BlockSize + Len(t) = Len(t)
    BY <1>1
  <2> QED BY <2>1, <2>2
<1> QED BY <1>1, <1>2 DEF Whole

\* What is done at the end and in one call when decrypting.
LEMMA DecryptingIs ==
  ASSUME NEW c, Padding(c), c.direction = "decrypt", NEW d
  PROVE  /\ BlockOneShot(c, d)
            = IF Len(d) = 0 \/ ~Whole(d) THEN Refused ELSE UnpadBlocks(DecryptAligned(c.mode, d), c.padding)
         /\ \A s : BlockFinish(c, s)
                = IF c.padding = "none" /\ Len(s.pending) = 0
                  THEN IF s.length = 0 THEN Refused ELSE Good(<<>>)
                  ELSE IF Len(s.pending) = 0 \/ ~Whole(s.pending) THEN Refused
                       ELSE UnpadBlocks(ProcessAligned(c, s.chain, s.pending).out, c.padding)
<1>1. c.mode \in PaddedModes /\ c.mode \notin StreamModes /\ c.direction # "encrypt"
  BY DEF Padding, PaddedModes, StreamModes
<1> DEFINE m == c.mode \in PaddedModes
           n == c.mode \in StreamModes
           e == c.direction = "encrypt"
<1>2. m /\ ~n /\ ~e
  BY <1>1
<1>3. BlockOneShot(c, d)
      = IF Len(d) = 0 \/ ~Whole(d) THEN Refused ELSE UnpadBlocks(DecryptAligned(c.mode, d), c.padding)
  <2> DEFINE x == IF Len(d) = 0 \/ ~Whole(d) THEN Refused ELSE UnpadBlocks(DecryptAligned(c.mode, d), c.padding)
             y == StreamOneShot(c.mode, "decrypt", d)
             z == EncryptBlockMode(c.mode, c.padding, d)
             f == c.mode = "cfb"
  <2>1. BlockOneShot(c, d) = IF e THEN z ELSE CASE m -> x [] f -> y [] OTHER -> z
    BY DEF BlockOneShot, DecryptBlockMode
  <2>2. ~f
    BY <1>1 DEF PaddedModes
  <2> HIDE DEF x, y, z, e, m, f
  <2>3. (IF e THEN z ELSE CASE m -> x [] f -> y [] OTHER -> z) = x
    BY ONLY <1>2, <2>2
  <2> QED BY <2>1, <2>3 DEF x
<1>4. ASSUME NEW s
      PROVE  BlockFinish(c, s)
                = IF c.padding = "none" /\ Len(s.pending) = 0
                  THEN IF s.length = 0 THEN Refused ELSE Good(<<>>)
                  ELSE IF Len(s.pending) = 0 \/ ~Whole(s.pending) THEN Refused
                       ELSE UnpadBlocks(ProcessAligned(c, s.chain, s.pending).out, c.padding)
  <2> DEFINE p == PadBlocks(s.pending, c.padding)
             x == IF p.ok THEN Good(ProcessAligned(c, s.chain, p.out).out) ELSE Refused
             y == Good(<<>>)
             z == IF c.padding = "none" /\ Len(s.pending) = 0
                  THEN IF s.length = 0 THEN Refused ELSE Good(<<>>)
                  ELSE IF Len(s.pending) = 0 \/ ~Whole(s.pending) THEN Refused
                       ELSE UnpadBlocks(ProcessAligned(c, s.chain, s.pending).out, c.padding)
  <2>1. BlockFinish(c, s) = CASE n -> y [] m /\ e -> x [] OTHER -> z
    BY DEF BlockFinish
  <2> HIDE DEF x, y, z, e, m, n
  <2>2. (CASE n -> y [] m /\ e -> x [] OTHER -> z) = z
    BY ONLY <1>2
  <2> QED BY <2>1, <2>2 DEF z
<1> QED BY <1>3, <1>4

\* Decrypting without padding.
LEMMA BareOpens ==
  ASSUME NEW c, Padding(c), c.direction = "decrypt", c.padding = "none", NEW d \in Seq(Octets)
  PROVE  LET r == BlockFinish(c, PaddedState(c, d, Len(d)))
             a == BlockOneShot(c, d)
         IN /\ r.ok \in BOOLEAN /\ a.ok = r.ok
            /\ IF r.ok THEN a.out = PaddedOut(c, d, Len(d)) \o r.out /\ r.out \in Seq(Octets) ELSE r.out = <<>>
<1> DEFINE L == Len(d)
           q == L \div BlockSize
           w == q * BlockSize
           s == PaddedState(c, d, L)
           t == SubSeq(d, w + 1, L)
           r == BlockFinish(c, s)
           a == BlockOneShot(c, d)
           o == PaddedOut(c, d, L)
<1>0. c.mode \in PaddedModes /\ c.mode \notin StreamModes /\ c.direction # "encrypt"
  BY DEF Padding, PaddedModes, StreamModes
<1>1. BlockSize \in Nat \ {0} /\ L \in Nat /\ q \in Nat /\ w \in Nat /\ w <= L /\ L < w + BlockSize
  <2>1. L \in Nat
    OBVIOUS
  <2> HIDE DEF L
  <2> QED BY <2>1, BlocksAre, DivGrows
<1>2. Ready(c, L) = q /\ Processed(c, d) = d
  BY <1>0 DEF Ready, Held, Processed
<1>3. s.pending = t /\ s.length = L /\ o = MadeFrom(c, d, 0, w)
  BY <1>2 DEF PaddedState, PaddedOut
<1>4. r = IF Len(s.pending) = 0 THEN IF s.length = 0 THEN Refused ELSE Good(<<>>)
          ELSE IF ~Whole(s.pending) THEN Refused
               ELSE UnpadBlocks(ProcessAligned(c, s.chain, s.pending).out, c.padding)
  BY DecryptingIs
<1>5. a = IF L = 0 \/ ~Whole(d) THEN Refused ELSE Good(DecryptAligned(c.mode, d))
  <2>1. UnpadBlocks(DecryptAligned(c.mode, d), c.padding) = Good(DecryptAligned(c.mode, d))
    BY DEF UnpadBlocks
  <2>2. a = IF L = 0 \/ ~Whole(d) THEN Refused ELSE UnpadBlocks(DecryptAligned(c.mode, d), c.padding)
    BY DecryptingIs
  <2> HIDE DEF a
  <2> QED BY <2>1, <2>2
<1>6. t \in Seq(Octets) /\ Len(t) = L - w /\ (Whole(d) <=> Whole(t))
  <2> HIDE DEF L, q
  <2> QED BY <1>1, PendingIs DEF L
<1> HIDE DEF s, t, r, a, o, q
<1>7. Len(t) < BlockSize /\ (Whole(t) <=> t = <<>>)
  <2>1. Len(t) < BlockSize
    <3> HIDE DEF w, L
    <3> QED BY <1>1, <1>6
  <2> QED BY <1>6, <2>1, ShortIsWhole
<1>8. CASE L # 0 /\ t = <<>>
  <2>1. r = Good(<<>>)
    BY <1>3, <1>4, <1>8
  <2>2. a = Good(DecryptAligned(c.mode, d))
    BY <1>5, <1>6, <1>7, <1>8
  <2>3. DecryptAligned(c.mode, d) = MadeFrom(c, d, 0, L)
    <3>1. AlignedText(c, d) = MadeFrom(c, d, 0, Len(d))
      BY AlignedIs
    <3> QED BY <1>0, <3>1 DEF AlignedText
  <2>4. L = w
    <3> HIDE DEF L, w
    <3> QED BY <1>1, <1>6, <1>8
  <2>5. o \in Seq(Octets)
    <3> DEFINE b == 0
    <3>1. b \in Nat /\ b <= w /\ w <= (Len(d) \div BlockSize) * BlockSize
      <4> HIDE DEF L
      <4> QED BY <1>1, <2>4 DEF q, L
    <3> HIDE DEF b, w
    <3>2. MadeFrom(c, d, b, w) \in Seq(Octets)
      BY <1>0, <1>1, <3>1, MadeFromIs
    <3> QED BY <1>3, <3>2 DEF b
  <2>6. r.ok = TRUE /\ a.ok = TRUE /\ r.out = <<>> /\ a.out = o
    BY <1>3, <2>1, <2>2, <2>3, <2>4 DEF Good
  <2>7. o \o <<>> = o /\ <<>> \in Seq(Octets)
    BY <2>5
  <2> QED BY <2>6, <2>7 DEF r, a, s, o
<1>9. CASE ~(L # 0 /\ t = <<>>)
  <2>1. r = Refused
    <3>1. CASE L = 0
      <4>1. Len(t) = 0
        <5> HIDE DEF w, L
        <5> QED BY <1>1, <1>6, <3>1
      <4> QED BY <1>3, <1>4, <3>1, <4>1
    <3>2. CASE t # <<>>
      <4>1. Len(t) # 0
        BY <1>6, <3>2
      <4> QED BY <1>3, <1>4, <1>7, <3>2, <4>1
    <3> QED BY <1>9, <3>1, <3>2
  <2>2. a = Refused
    BY <1>5, <1>6, <1>7, <1>9
  <2>3. r.ok = FALSE /\ a.ok = FALSE /\ r.out = <<>>
    BY <2>1, <2>2 DEF Refused
  <2> QED BY <2>3 DEF r, a, s
<1> QED BY <1>8, <1>9

\* Decrypting what has to be unpadded.
LEMMA HeldOpens ==
  ASSUME NEW c, Padding(c), c.direction = "decrypt", c.padding # "none", NEW d \in Seq(Octets)
  PROVE  LET r == BlockFinish(c, PaddedState(c, d, Len(d)))
             a == BlockOneShot(c, d)
         IN /\ r.ok \in BOOLEAN /\ a.ok = r.ok
            /\ IF r.ok THEN a.out = PaddedOut(c, d, Len(d)) \o r.out /\ r.out \in Seq(Octets) ELSE r.out = <<>>
<1> DEFINE L == Len(d)
           q == L \div BlockSize
           v == q * BlockSize
           n == IF q > 0 THEN q - 1 ELSE q
           w == n * BlockSize
           s == PaddedState(c, d, L)
           t == SubSeq(d, w + 1, L)
           r == BlockFinish(c, s)
           a == BlockOneShot(c, d)
           o == PaddedOut(c, d, L)
<1>0. c.mode \in PaddedModes /\ c.mode \notin StreamModes /\ c.direction # "encrypt" /\ c.padding \in Paddings
  BY DEF Padding, PaddedModes, StreamModes
<1>1. BlockSize \in Nat \ {0} /\ L \in Nat /\ q \in Nat /\ v \in Nat /\ v <= L /\ L < v + BlockSize
  <2>1. L \in Nat
    OBVIOUS
  <2> HIDE DEF L
  <2> QED BY <2>1, BlocksAre, DivGrows
<1>2. Ready(c, L) = n /\ Processed(c, d) = d
  BY <1>0 DEF Ready, Held, Processed
<1>3. s.pending = t /\ s.chain = Chained(c, d, n) /\ o = MadeFrom(c, d, 0, w)
  BY <1>2 DEF PaddedState, PaddedOut
<1>4. r = IF Len(t) = 0 \/ ~Whole(t) THEN Refused
          ELSE UnpadBlocks(ProcessAligned(c, s.chain, t).out, c.padding)
  BY <1>3, DecryptingIs
<1>5. a = IF L = 0 \/ ~Whole(d) THEN Refused ELSE UnpadBlocks(DecryptAligned(c.mode, d), c.padding)
  BY DecryptingIs
<1>6. n \in Nat /\ w \in Nat /\ w <= v
  <2>1. n \in Nat /\ n * BlockSize \in Nat /\ n * BlockSize <= L
    <3>1. Ready(c, L) \in Nat /\ Ready(c, L) * BlockSize \in Nat /\ Ready(c, L) * BlockSize <= L
      <4>1. L \in Nat
        BY <1>1
      <4> HIDE DEF L
      <4> QED BY <4>1, ReadyIs
    <3> QED BY <1>2, <3>1
  <2>2. CASE q = 0
    <3>1. w = v
      BY <2>2
    <3> HIDE DEF v, w
    <3> QED BY <1>1, <2>1, <3>1
  <2>3. CASE q # 0
    <3>1. n = q - 1
      BY <1>1, <2>3
    <3>2. q * BlockSize = (q - 1) * BlockSize + BlockSize
      <4>1. q \in Nat /\ BlockSize \in Nat /\ q >= 1
        <5> HIDE DEF q
        <5> QED BY <1>1, <2>3
      <4> HIDE DEF q
      <4> QED BY <4>1, UnitEnds
    <3>3. v = w + BlockSize /\ w \in Nat
      BY <2>1, <3>1, <3>2
    <3> HIDE DEF v, w
    <3> QED BY <1>1, <2>1, <3>3
  <2> QED BY <2>2, <2>3
<1>7. t \in Seq(Octets) /\ Len(t) = L - w /\ (Whole(d) <=> Whole(t))
  <2>1. w <= L
    <3> HIDE DEF L, q, v, n, w
    <3> QED BY <1>1, <1>6
  <2> HIDE DEF L, q, n
  <2> QED BY <1>6, <2>1, PendingIs DEF L
<1>8. q > 0 => v = w + BlockSize
  <2> SUFFICES ASSUME q > 0  PROVE v = w + BlockSize
    OBVIOUS
  <2>1. n = q - 1
    OBVIOUS
  <2>2. q * BlockSize = (q - 1) * BlockSize + BlockSize
    <3>1. q \in Nat /\ BlockSize \in Nat /\ q >= 1
      <4> HIDE DEF q
      <4> QED BY <1>1
    <3> HIDE DEF q
    <3> QED BY <3>1, UnitEnds
  <2> QED BY <2>1, <2>2
<1>9. q = 0 => v = 0 /\ w = 0
  BY <1>1
<1>10. AlignedText(c, d) = DecryptAligned(c.mode, d) /\ AlignedText(c, d) = MadeFrom(c, d, 0, L)
  BY <1>0, AlignedIs DEF AlignedText
<1> HIDE DEF s, t, r, a, o, q, v, w, n, L
<1>11. CASE q > 0 /\ Whole(d)
  <2>1. L = v /\ L # 0 /\ Len(t) = BlockSize
    <3>1. L = v
      BY <1>11, WholeBlocks DEF v, q, L
    <3> QED BY <1>1, <1>6, <1>7, <1>8, <1>11, <3>1
  <2> DEFINE y == MadeFrom(c, d, w, v)
             x == MadeFrom(c, d, 0, w)
             u == UnpadBlocks(y, c.padding)
             f == UnpadBlocks(x \o y, c.padding)
  <2>2. ProcessAligned(c, s.chain, t).out = y
    <3>1. n + 1 = q /\ n \in Nat /\ 1 \in Nat
      BY <1>1, <1>11 DEF n
    <3>2. ProcessAligned(c, Chained(c, d, n), SubSeq(d, n * BlockSize + 1, (n + 1) * BlockSize))
          = [chain |-> Chained(c, d, n + 1), out |-> MadeFrom(c, d, n * BlockSize, (n + 1) * BlockSize)]
      <4>1. n + 1 <= Len(d) \div BlockSize
        BY <1>1, <3>1 DEF q, L
      <4> QED BY <1>0, <3>1, <4>1, ProcessIs
    <3>3. (n + 1) * BlockSize = v /\ n * BlockSize = w
      BY <3>1 DEF v, w
    <3>4. t = SubSeq(d, w + 1, v)
      BY <2>1 DEF t
    <3> QED BY <1>3, <3>2, <3>3, <3>4
  <2>3. /\ x \in Seq(Octets) /\ y \in Seq(Octets) /\ Len(x) = w /\ Len(y) = BlockSize
        /\ x \o y = MadeFrom(c, d, 0, v)
    <3> DEFINE b == 0
               X == MadeFrom(c, d, b, w)
               h == (Len(d) \div BlockSize) * BlockSize
    <3>1. b \in Nat /\ b <= w /\ w <= v /\ v <= h /\ w <= h /\ v \in Nat /\ w \in Nat
      <4>1. h = v
        BY DEF v, q, L
      <4> HIDE DEF h
      <4> QED BY <1>1, <1>6, <4>1
    <3> HIDE DEF b
    <3>2. X \in Seq(Octets) /\ Len(X) = w - b
      BY ONLY <1>0, <3>1, d \in Seq(Octets), MadeFromIs
    <3>3. y \in Seq(Octets) /\ Len(y) = v - w
      BY ONLY <1>0, <3>1, d \in Seq(Octets), MadeFromIs
    <3>4. X \o y = MadeFrom(c, d, b, v)
      BY ONLY <1>0, <3>1, d \in Seq(Octets), MadeFromJoins
    <3>5. w - b = w /\ v - w = BlockSize
      BY <1>1, <1>6, <1>8, <1>11 DEF b
    <3>6. X = x /\ MadeFrom(c, d, b, v) = MadeFrom(c, d, 0, v)
      BY DEF b
    <3> QED BY <3>2, <3>3, <3>4, <3>5, <3>6
  <2>4. r = u
    <3>1. ~(Len(t) = 0 \/ ~Whole(t))
      BY <1>1, <1>7, <1>11, <2>1
    <3> QED BY <1>4, <2>2, <3>1
  <2>5. a = f
    BY <1>5, <1>10, <1>11, <2>1, <2>3
  <2>6. o = x
    BY <1>3
  <2> HIDE DEF x, y
  <2>7. f = IF u.ok THEN Good(x \o u.out) ELSE Refused
    <3>1. x \in Seq(Octets) /\ y \in Seq(Octets) /\ n \in Nat /\ Len(x) = n * BlockSize /\ Len(y) = BlockSize
      BY <1>6, <2>3 DEF w
    <3> QED BY <1>0, <3>1, UnpadJoins
  <2>8. u = IF Unpadded(y, c.padding) THEN Good(Take(y, Left(y, c.padding))) ELSE Refused
    <3>1. y \in Seq(Octets) /\ y # <<>> /\ Whole(y)
      <4>1. Len(y) % BlockSize = 0
        <5>1. (1 * BlockSize + 0) % BlockSize = 0
          BY <1>1, DivIs
        <5> QED BY <1>1, <2>3, <5>1
      <4>2. y # <<>>
        BY <1>1, <2>3
      <4> QED BY <2>3, <4>1, <4>2 DEF Whole
    <3> QED BY <1>0, <3>1, UnpadIs
  <2>9. CASE Unpadded(y, c.padding)
    <3>1. Left(y, c.padding) \in Len(y) - BlockSize .. Len(y) /\ Left(y, c.padding) \in Nat
      <4>1. BlockSize <= Len(y)
        BY <1>1, <2>3
      <4> QED BY <2>3, <2>9, <4>1, LeftIs
    <3>2. Take(y, Left(y, c.padding)) \in Seq(Octets)
      <4> DEFINE e == Left(y, c.padding)
      <4>1. e \in Nat /\ e <= Len(y)
        <5>1. Len(y) \in Nat /\ e \in Len(y) - BlockSize .. Len(y) /\ e \in Nat
          BY <1>1, <2>3, <3>1
        <5> HIDE DEF e
        <5> QED BY <5>1
      <4> HIDE DEF e
      <4>2. y \in Seq(Octets) /\ Len(y) \in Nat
        BY <2>3
      <4>3. SubSeq(y, 1, e) \in Seq(Octets)
        BY <4>1, <4>2
      <4> QED BY <4>3 DEF Take, e
    <3>3. u.ok = TRUE /\ u.out \in Seq(Octets)
      BY <2>8, <2>9, <3>2 DEF Good
    <3> HIDE DEF u, f
    <3>4. f.ok = TRUE /\ f.out = x \o u.out
      BY <2>7, <3>3 DEF Good
    <3> QED BY <2>4, <2>5, <2>6, <3>3, <3>4 DEF r, a, o, s, L
  <2>10. CASE ~Unpadded(y, c.padding)
    <3>1. u.ok = FALSE /\ u.out = <<>>
      BY <2>8, <2>10 DEF Refused
    <3> HIDE DEF u, f
    <3>2. f.ok = FALSE
      BY <2>7, <3>1 DEF Refused
    <3> QED BY <2>4, <2>5, <3>1, <3>2 DEF r, a, o, s, L
  <2> QED BY <2>9, <2>10
<1>12. CASE ~(q > 0 /\ Whole(d))
  <2>1. r = Refused /\ a = Refused
    <3>1. CASE ~Whole(d)
      BY <1>4, <1>5, <1>7, <3>1
    <3>2. CASE Whole(d) /\ q = 0
      <4>1. Len(t) < BlockSize
        BY <1>1, <1>7, <1>9, <3>2
      <4>2. t = <<>>
        BY <1>7, <3>2, <4>1, ShortIsWhole
      <4>3. Len(t) = 0 /\ L = 0
        BY <1>1, <1>7, <1>9, <3>2, <4>2
      <4> QED BY <1>4, <1>5, <4>3
    <3> QED BY <1>1, <1>12, <3>1, <3>2
  <2>2. r.ok = FALSE /\ a.ok = FALSE /\ r.out = <<>>
    BY <2>1 DEF Refused
  <2> QED BY <2>2 DEF r, a, s, L
<1> QED BY <1>11, <1>12

-----------------------------------------------------------------------------
(* The stream modes.  The i-th block of the keystream is made from the state *)
(* after i - 1 blocks, and a byte is spent on the byte at its place.         *)

\* How many blocks the keystream has to have.
BlocksOf(D) == (Len(D) + BlockSize - 1) \div BlockSize

\* The state after the i-th block.
StateAfter(mode, dir, D, was, i) ==
  CASE mode = "ofb" -> EncryptBlock(was)
    [] mode = "ctr" -> IncrementCounter(was)
    [] mode = "cfb" ->
         [j \in 1 .. BlockSize |->
            IF (i - 1) * BlockSize + j > Len(D) THEN was[j]
            ELSE IF dir = "encrypt" THEN Xor(D[(i - 1) * BlockSize + j], EncryptBlock(was)[j])
            ELSE D[(i - 1) * BlockSize + j]]

StatesRun(mode, dir, D, f) ==
  f = [i \in 0 .. BlocksOf(D) |-> IF i = 0 THEN Iv ELSE StateAfter(mode, dir, D, f[i - 1], i)]
KeyStates(mode, dir, D) == CHOOSE f : StatesRun(mode, dir, D, f)

\* The keystream's i-th block, and what it makes of the input.
KeyBlock(mode, dir, D, i)  == EncryptBlock(KeyStates(mode, dir, D)[i - 1])
FlowAt(mode, dir, D, at)   == Xor(D[at], KeyBlock(mode, dir, D, BlockOf(at))[OffsetOf(at)])
Flow(mode, dir, D, a, b)   == [j \in 1 .. b - a |-> FlowAt(mode, dir, D, a + j)]

\* The blocks of keystream an input takes.
LEMMA BlocksOfIs ==
  ASSUME NEW D \in Seq(Octets)
  PROVE  /\ BlocksOf(D) \in Nat /\ (Len(D) = 0 => BlocksOf(D) = 0) /\ (Len(D) > 0 => BlocksOf(D) = BlockOf(Len(D)))
         /\ BlocksOf(D) > 0 => Len(D) > 0 /\ (BlocksOf(D) - 1) * BlockSize < Len(D)
         /\ (BlocksOf(D) - 1) * BlockSize \in Int /\ Len(D) <= BlocksOf(D) * BlockSize
         /\ \A at \in 1 .. Len(D) : BlockOf(at) \in 1 .. BlocksOf(D)
<1> DEFINE L == Len(D)
           N == BlocksOf(D)
<1>1. L \in Nat /\ BlockSize \in Nat /\ BlockSize > 0
  BY BlocksAre
<1>2. CASE L = 0
  <2>1. N = 0
    <3>1. (0 * BlockSize + (BlockSize - 1)) \div BlockSize = 0
      <4>1. 0 \in Nat /\ BlockSize - 1 \in 0 .. BlockSize - 1 /\ BlockSize \in Nat \ {0}
        BY <1>1
      <4> QED BY <4>1, DivIs
    <3>2. 0 * BlockSize + (BlockSize - 1) = L + BlockSize - 1
      BY <1>1, <1>2
    <3> QED BY <3>1, <3>2 DEF BlocksOf
  <2>2. N * BlockSize = 0 /\ (N - 1) * BlockSize \in Int
    BY <1>1, <2>1
  <2> QED BY <1>1, <1>2, <2>1, <2>2
<1>3. CASE L > 0
  <2> DEFINE m == L - 1
  <2>1. m \in Nat /\ L + BlockSize - 1 = 1 * BlockSize + m
    <3> HIDE DEF L
    <3> QED BY <1>1, <1>3
  <2>2. N = 1 + (m \div BlockSize)
    <3>1. (1 * BlockSize + m) \div BlockSize = 1 + (m \div BlockSize)
      <4>1. m \in Nat /\ 1 \in Nat
        BY <2>1
      <4> HIDE DEF m
      <4> QED BY <4>1, RestOf
    <3> QED BY <2>1, <3>1 DEF BlocksOf
  <2>3. m \div BlockSize \in Nat
    <3> HIDE DEF m
    <3> QED BY <1>1, <2>1, DivGrows
  <2>4. BlockOf(L) = N /\ N \in Nat /\ N > 0
    <3> HIDE DEF N
    <3>1. BlockOf(L) = (m \div BlockSize) + 1
      BY DEF BlockOf
    <3> HIDE DEF m
    <3> DEFINE q == m \div BlockSize
    <3> HIDE DEF q
    <3>2. q \in Nat /\ N = 1 + q /\ BlockOf(L) = q + 1
      BY <2>2, <2>3, <3>1 DEF q
    <3> QED BY <3>2
  <2>5. /\ OffsetOf(L) \in 1 .. BlockSize /\ L = (N - 1) * BlockSize + OffsetOf(L)
    <3> HIDE DEF L, N
    <3> QED BY <1>1, <1>3, <2>4, PositionOf
  <2>6. N * BlockSize = (N - 1) * BlockSize + BlockSize /\ (N - 1) * BlockSize \in Nat /\ N * BlockSize \in Nat
    <3> HIDE DEF N
    <3>1. N >= 1
      BY <2>4
    <3> QED BY <1>1, <2>4, <3>1, UnitEnds
  <2> DEFINE u == (N - 1) * BlockSize
             v == N * BlockSize
  <2>7. u \in Nat /\ v \in Nat /\ v = u + BlockSize /\ L = u + OffsetOf(L) /\ u < L /\ L <= v
    <3>1. u \in Nat /\ v \in Nat /\ v = u + BlockSize /\ L = u + OffsetOf(L)
      BY <2>5, <2>6
    <3> HIDE DEF u, v
    <3> DEFINE w == OffsetOf(L)
    <3>2. w \in 1 .. BlockSize /\ L = u + w
      BY <2>5, <3>1
    <3> HIDE DEF w
    <3> QED BY <1>1, <3>1, <3>2 DEF w
  <2>8. ASSUME NEW at \in 1 .. L  PROVE BlockOf(at) \in 1 .. N
    <3>1. at \in Nat /\ at > 0 /\ at <= v
      BY <1>1, <2>7
    <3> HIDE DEF N
    <3> QED BY <2>4, <3>1, PositionUpto
  <2> QED BY <1>3, <2>4, <2>7, <2>8
<1> QED BY <1>1, <1>2, <1>3

\* A counter is counted within its block.
LEMMA CounterIs == ASSUME NEW b \in OneBlock  PROVE IncrementCounter(b) \in OneBlock /\ Wraps(b) \in BOOLEAN
<1>1. Radix \in Nat \ {0}
  BY BlocksAre
<1>2. DOMAIN b = 1 .. BlockSize
  BY DEF OneBlock
<1>3. ASSUME NEW i \in 1 .. BlockSize  PROVE (b[i] + 1) % Radix \in Octets /\ b[i] \in Octets
  <2>1. b[i] \in Octets
    BY DEF OneBlock
  <2>2. b[i] + 1 \in Nat
    BY <2>1, <1>1 DEF Octets
  <2>3. (b[i] + 1) % Radix \in 0 .. Radix - 1
    BY <2>2, <1>1, DivMod
  <2> QED BY <2>1, <2>3 DEF Octets
<1>4. IncrementCounter(b) \in OneBlock
  BY <1>2, <1>3 DEF IncrementCounter, OneBlock
<1> QED BY <1>4 DEF Wraps

\* The keystream's state is a block.
LEMMA StateAfterIs ==
  ASSUME NEW mode \in StreamModes, NEW dir, NEW D \in Seq(Octets), NEW b \in OneBlock, NEW i \in Nat, i > 0
  PROVE  StateAfter(mode, dir, D, b, i) \in OneBlock
<1>1. EncryptBlock(b) \in OneBlock /\ \A j \in 1 .. BlockSize : EncryptBlock(b)[j] \in Octets /\ b[j] \in Octets
  BY BlocksAre DEF OneBlock
<1>2. CASE mode = "ofb"
  BY <1>1, <1>2 DEF StateAfter
<1>3. CASE mode = "ctr"
  BY <1>3, CounterIs DEF StateAfter
<1>4. CASE mode = "cfb"
  <2> DEFINE x(j) == IF (i - 1) * BlockSize + j > Len(D) THEN b[j]
            ELSE IF dir = "encrypt" THEN Xor(D[(i - 1) * BlockSize + j], EncryptBlock(b)[j])
            ELSE D[(i - 1) * BlockSize + j]
  <2>1. StateAfter(mode, dir, D, b, i) = [j \in 1 .. BlockSize |-> x(j)]
    BY <1>4 DEF StateAfter
  <2>2. ASSUME NEW j \in 1 .. BlockSize  PROVE x(j) \in Octets
    <3> DEFINE at == (i - 1) * BlockSize + j
    <3>1. CASE at > Len(D)
      BY <1>1, <3>1
    <3>2. CASE ~(at > Len(D))
      <4>1. at \in Nat /\ at > 0
        <5>1. i \in 1 .. i
          OBVIOUS
        <5>2. (i - 1) * BlockSize \in Nat
          BY <5>1, BlockEnds
        <5> DEFINE u == (i - 1) * BlockSize
        <5>3. u \in Nat /\ at = u + j /\ j \in Nat /\ j > 0
          BY <5>2
        <5> HIDE DEF u, at
        <5> QED BY <5>3
      <4>2. D[at] \in Octets
        <5> HIDE DEF at
        <5>1. at \in 1 .. Len(D)
          BY <3>2, <4>1
        <5> QED BY <5>1
      <4>3. Xor(D[at], EncryptBlock(b)[j]) \in Octets
        BY <1>1, <4>2, BlocksAre
      <4> QED BY <3>2, <4>2, <4>3
    <3> QED BY <3>1, <3>2
  <2> HIDE DEF x
  <2>3. [j \in 1 .. BlockSize |-> x(j)] \in OneBlock
    BY <2>2 DEF OneBlock
  <2> QED BY <2>1, <2>3
<1> QED BY <1>2, <1>3, <1>4 DEF StreamModes

\* The states of the keystream, as the recursion gives them.
LEMMA KeyStatesAre ==
  ASSUME NEW mode \in StreamModes, NEW dir, NEW D \in Seq(Octets)
  PROVE  LET f == KeyStates(mode, dir, D) N == BlocksOf(D)
         IN /\ f \in [0 .. N -> OneBlock] /\ f[0] = Iv
            /\ \A i \in 1 .. N : f[i] = StateAfter(mode, dir, D, f[i - 1], i)
<1> DEFINE N == BlocksOf(D)
           Body(x, i) == StateAfter(mode, dir, D, x, i)
           g == [p \in OneBlock \X (1 .. N) |-> Body(p[1], p[2])]
           s == KeyStates(mode, dir, D)
<1>1. N \in Nat
  BY BlocksOfIs
<1>2. ASSUME NEW f  PROVE StatesRun(mode, dir, D, f) <=> f = [i \in 0 .. N |-> IF i = 0 THEN Iv ELSE Body(f[i - 1], i)]
  BY DEF StatesRun
<1> HIDE DEF N
<1>4. ASSUME NEW x \in OneBlock, NEW i \in 1 .. N  PROVE Body(x, i) \in OneBlock
  <2>1. i \in Nat /\ i > 0
    BY <1>1
  <2> QED BY <2>1, StateAfterIs
<1> HIDE DEF Body
<1>5. g \in [OneBlock \X (1 .. N) -> OneBlock]
  BY <1>4
<1>6. ASSUME NEW x \in OneBlock, NEW i \in 1 .. N  PROVE g[<<x, i>>] = Body(x, i)
  OBVIOUS
<1> HIDE DEF g
<1>7. PICK h : RunsFrom(h, OneBlock, Iv, N, g)
  BY <1>1, <1>5, BlocksAre, Recursion
<1>8. h \in [0 .. N -> OneBlock] /\ h[0] = Iv /\ \A i \in 1 .. N : h[i] = g[<<h[i - 1], i>>]
  BY <1>7 DEF RunsFrom
<1>9. \A i \in 1 .. N : h[i] = Body(h[i - 1], i)
  <2> SUFFICES ASSUME NEW i \in 1 .. N  PROVE h[i] = Body(h[i - 1], i)
    OBVIOUS
  <2>1. h[i - 1] \in OneBlock
    BY <1>1, <1>8
  <2> QED BY <2>1, <1>6, <1>8
<1>10. StatesRun(mode, dir, D, h)
  <2>1. h = [i \in 0 .. N |-> h[i]]
    BY <1>8
  <2>2. \A i \in 0 .. N : h[i] = IF i = 0 THEN Iv ELSE Body(h[i - 1], i)
    BY <1>1, <1>8, <1>9
  <2>3. h = [i \in 0 .. N |-> IF i = 0 THEN Iv ELSE Body(h[i - 1], i)]
    BY <2>1, <2>2
  <2> QED BY <2>3, <1>2
<1>11. StatesRun(mode, dir, D, s)
  BY <1>10 DEF KeyStates
<1> HIDE DEF s
<1>12. s = [i \in 0 .. N |-> IF i = 0 THEN Iv ELSE Body(s[i - 1], i)]
  BY <1>2, <1>11
<1>13. s[0] = Iv /\ \A i \in 1 .. N : s[i] = Body(s[i - 1], i)
  BY <1>1, <1>12
<1>14. \A i \in 0 .. N : s[i] = h[i]
  <2>1. GoAlike(s, h, N)
    BY <1>8, <1>9, <1>13 DEF GoAlike
  <2> QED BY <1>1, <2>1, SameRuns
<1>15. s \in [0 .. N -> OneBlock]
  BY <1>8, <1>12, <1>14
<1> QED BY <1>13, <1>15 DEF s, Body, N

\* What a stream mode makes between two places, byte by byte.
LEMMA FlowIs ==
  ASSUME NEW mode \in StreamModes, NEW dir, NEW D \in Seq(Octets),
         NEW a \in Nat, NEW b \in Nat, a <= b, b <= Len(D)
  PROVE  /\ Flow(mode, dir, D, a, b) \in Seq(Octets) /\ Len(Flow(mode, dir, D, a, b)) = b - a
         /\ \A j \in 1 .. b - a : Flow(mode, dir, D, a, b)[j] = FlowAt(mode, dir, D, a + j)
         /\ \A at \in 1 .. Len(D) : FlowAt(mode, dir, D, at) \in Octets
<1> DEFINE x(at) == FlowAt(mode, dir, D, at)
<1>1. ASSUME NEW at \in 1 .. Len(D)  PROVE x(at) \in Octets
  <2>1. BlockOf(at) \in 1 .. BlocksOf(D) /\ BlocksOf(D) \in Nat
    BY BlocksOfIs
  <2>2. BlockOf(at) - 1 \in 0 .. BlocksOf(D)
    <3> DEFINE m == BlockOf(at)
               n == BlocksOf(D)
    <3>1. m \in 1 .. n /\ n \in Nat
      BY <2>1
    <3> HIDE DEF m, n
    <3>2. m - 1 \in 0 .. n
      BY <3>1
    <3> QED BY <3>2 DEF m, n
  <2>3. KeyStates(mode, dir, D)[BlockOf(at) - 1] \in OneBlock
    BY <2>2, KeyStatesAre
  <2>4. KeyBlock(mode, dir, D, BlockOf(at)) \in OneBlock
    BY <2>3, BlocksAre DEF KeyBlock
  <2>5. OffsetOf(at) \in 1 .. BlockSize
    <3>1. at \in Nat /\ at > 0
      OBVIOUS
    <3> QED BY <3>1, PositionOf
  <2>6. D[at] \in Octets
    OBVIOUS
  <2> QED BY <2>4, <2>5, <2>6, BlocksAre DEF FlowAt, OneBlock
<1> HIDE DEF x
<1>2. Flow(mode, dir, D, a, b) = [j \in 1 .. b - a |-> x(a + j)]
  BY DEF Flow, x
<1>3. b - a \in Nat /\ \A j \in 1 .. b - a : a + j \in 1 .. Len(D)
  OBVIOUS
<1>4. \A j \in 1 .. b - a : x(a + j) \in Octets
  BY <1>1, <1>3
<1> DEFINE f == [j \in 1 .. b - a |-> x(a + j)]
           n == b - a
<1>5. n \in Nat /\ f = [j \in 1 .. n |-> x(a + j)] /\ \A j \in 1 .. n : x(a + j) \in Octets
  BY <1>3, <1>4
<1> HIDE DEF n
<1>6. f \in Seq(Octets) /\ Len(f) = n /\ \A j \in 1 .. n : f[j] = x(a + j)
  BY <1>5
<1> QED BY <1>1, <1>2, <1>6 DEF x, n

\* The same of the run alone.
FlowRuns(mode, dir, D, a, b) == Flow(mode, dir, D, a, b) \in Seq(Octets) /\ Len(Flow(mode, dir, D, a, b)) = b - a

LEMMA FlowRunsOn ==
  ASSUME NEW mode \in StreamModes, NEW dir, NEW D \in Seq(Octets),
         NEW a \in Nat, NEW b \in Nat, a <= b, b <= Len(D)
  PROVE  FlowRuns(mode, dir, D, a, b)
<1>1. Flow(mode, dir, D, a, b) \in Seq(Octets) /\ Len(Flow(mode, dir, D, a, b)) = b - a
  BY FlowIs
<1> QED BY ONLY <1>1 DEF FlowRuns

\* What flows, flows in any pieces.
LEMMA FlowJoins ==
  ASSUME NEW mode \in StreamModes, NEW dir, NEW D \in Seq(Octets),
         NEW a \in Nat, NEW b \in Nat, NEW e \in Nat, a <= b, b <= e, e <= Len(D)
  PROVE  Flow(mode, dir, D, a, b) \o Flow(mode, dir, D, b, e) = Flow(mode, dir, D, a, e)
<1> DEFINE s == Flow(mode, dir, D, a, b)
           t == Flow(mode, dir, D, b, e)
           z == Flow(mode, dir, D, a, e)
           x(at) == FlowAt(mode, dir, D, at)
<1>0. Len(D) \in Nat /\ a <= e /\ b <= Len(D)
  OBVIOUS
<1>1. s \in Seq(Octets) /\ Len(s) = b - a /\ \A j \in 1 .. b - a : s[j] = x(a + j)
  BY <1>0, FlowIs
<1>2. t \in Seq(Octets) /\ Len(t) = e - b /\ \A j \in 1 .. e - b : t[j] = x(b + j)
  BY <1>0, FlowIs
<1>3. z \in Seq(Octets) /\ Len(z) = e - a /\ \A j \in 1 .. e - a : z[j] = x(a + j)
  BY <1>0, FlowIs
<1> HIDE DEF s, t, z, x
<1>4. Len(z) = Len(s) + Len(t)
  BY <1>1, <1>2, <1>3
<1>5. \A i \in 1 .. Len(s) : z[i] = s[i]
  BY <1>1, <1>3
<1>6. \A i \in 1 .. Len(t) : z[Len(s) + i] = t[i]
  <2> SUFFICES ASSUME NEW i \in 1 .. Len(t)  PROVE z[Len(s) + i] = t[i]
    OBVIOUS
  <2>1. Len(s) + i \in 1 .. e - a /\ a + (Len(s) + i) = b + i /\ i \in 1 .. e - b
    BY <1>1, <1>2
  <2> QED BY <2>1, <1>2, <1>3
<1>7. s \o t = z
  BY <1>1, <1>2, <1>3, <1>4, <1>5, <1>6, JoinIs
<1> QED BY <1>7 DEF s, t, z

\* The counter wraps with input left.
Exhausts(mode, dir, D) == mode = "ctr" /\ \E j \in 1 .. BlocksOf(D) - 1 : Wraps(KeyStates(mode, dir, D)[j - 1])

\* Where the i-th block of the input ends: the last may be short.
SourceEnd(D, i) == IF i = BlocksOf(D) THEN Len(D) ELSE i * BlockSize

\* The i-th block of the input, and where it lies.
LEMMA SourceIs ==
  ASSUME NEW D \in Seq(Octets), NEW i \in 1 .. BlocksOf(D)
  PROVE  LET a == (i - 1) * BlockSize e == SourceEnd(D, i) source == SubSeq(D, a + 1, e)
         IN /\ a \in Nat /\ e \in Nat /\ a <= e /\ e <= Len(D) /\ e <= a + BlockSize
            /\ SourceEnd(D, i - 1) = a
            /\ source \in Seq(Octets) /\ Len(source) = e - a
            /\ \A j \in 1 .. e - a : source[j] = D[a + j]
            /\ \A j \in 1 .. BlockSize : a + j > Len(D) <=> j > e - a
<1> DEFINE a == (i - 1) * BlockSize
           e == SourceEnd(D, i)
           N == BlocksOf(D)
           L == Len(D)
           f == i * BlockSize
           b == (N - 1) * BlockSize
           g == N * BlockSize
<1>1. N \in Nat /\ N > 0 /\ i \in Nat /\ i >= 1 /\ i <= N /\ L \in Nat
  <2>1. N \in Nat
    BY BlocksOfIs
  <2> HIDE DEF N
  <2> QED BY <2>1 DEF N
<1>2. b < L /\ L <= g /\ b \in Int
  BY <1>1, BlocksOfIs
<1>3. BlockSize \in Nat /\ BlockSize > 0
  BY BlocksAre
<1>4. a \in Nat /\ f = a + BlockSize /\ f \in Nat
  <2> HIDE DEF N
  <2> QED BY <1>1, <1>3, UnitEnds
<1>5. i < N => f <= b
  <2> SUFFICES ASSUME i < N  PROVE f <= b
    OBVIOUS
  <2> HIDE DEF N
  <2>1. CASE i = N - 1
    <3>1. f = b
      BY <2>1
    <3> HIDE DEF f, b
    <3> QED BY <1>2, <1>4, <3>1
  <2>2. CASE i # N - 1
    <3>1. N - 1 \in Nat /\ i < N - 1
      BY <1>1, <2>2
    <3>2. i * BlockSize + BlockSize <= (N - 1) * BlockSize
      BY <1>1, <1>3, <3>1, ProductsGrow
    <3>3. f + BlockSize <= b
      BY <3>2
    <3> HIDE DEF f, b
    <3> QED BY <1>2, <1>3, <1>4, <3>3
  <2> QED BY <2>1, <2>2
<1>6. g = f => i = N \/ TRUE
  OBVIOUS
<1>7. e = IF i = N THEN L ELSE f
  BY DEF SourceEnd
<1>8. i = N => f = g /\ a = b
  OBVIOUS
<1>9. SourceEnd(D, i - 1) = a
  <2>1. i - 1 # N
    <3> HIDE DEF N
    <3> QED BY <1>1
  <2> QED BY <2>1 DEF SourceEnd
<1> HIDE DEF a, e, f, g, b, N, L
<1>10. a <= e /\ e <= L /\ e <= a + BlockSize /\ e \in Nat
  <2>1. CASE i = N
    BY <2>1, <1>1, <1>2, <1>3, <1>4, <1>7, <1>8
  <2>2. CASE i # N
    BY <2>2, <1>1, <1>2, <1>3, <1>4, <1>5, <1>7
  <2> QED BY <2>1, <2>2
<1>11. \A j \in 1 .. BlockSize : a + j > L <=> j > e - a
  <2>1. CASE i = N
    BY <2>1, <1>1, <1>2, <1>3, <1>4, <1>7, <1>8
  <2>2. CASE i # N
    BY <2>2, <1>1, <1>2, <1>3, <1>4, <1>5, <1>7
  <2> QED BY <2>1, <2>2
<1>12. SubSeq(D, a + 1, e) \in Seq(Octets) /\ Len(SubSeq(D, a + 1, e)) = e - a /\ \A j \in 1 .. e - a : SubSeq(D, a + 1, e)[j] = D[a + j]
  BY <1>1, <1>4, <1>10 DEF L
<1> QED BY <1>4, <1>9, <1>10, <1>11, <1>12 DEF a, e, L

\* What the one-shot function makes of a block, and the state it goes on with.
LEMMA TargetIs ==
  ASSUME NEW mode \in StreamModes, NEW dir, NEW D \in Seq(Octets), NEW i \in 1 .. BlocksOf(D)
  PROVE  LET was    == KeyStates(mode, dir, D)[i - 1]
             source == SubSeq(D, (i - 1) * BlockSize + 1, SourceEnd(D, i))
             key    == EncryptBlock(was)
             target == XorSeq(source, key)
             cipher == IF dir = "encrypt" THEN target ELSE source
         IN /\ target = Flow(mode, dir, D, (i - 1) * BlockSize, SourceEnd(D, i))
            /\ mode = "ofb" => KeyStates(mode, dir, D)[i] = key
            /\ mode = "ctr" => KeyStates(mode, dir, D)[i] = IncrementCounter(was)
            /\ mode = "cfb" => KeyStates(mode, dir, D)[i] = cipher \o Drop(was, Len(cipher))
<1> DEFINE was    == KeyStates(mode, dir, D)[i - 1]
           a      == (i - 1) * BlockSize
           e      == SourceEnd(D, i)
           source == SubSeq(D, a + 1, e)
           key    == EncryptBlock(was)
           target == XorSeq(source, key)
           cipher == IF dir = "encrypt" THEN target ELSE source
           next   == StateAfter(mode, dir, D, was, i)
           n      == e - a
<1>0. BlocksOf(D) \in Nat /\ i \in Nat /\ i - 1 \in Nat /\ i - 1 \in 0 .. BlocksOf(D)
  <2> DEFINE N == BlocksOf(D)
  <2>1. N \in Nat /\ i \in 1 .. N
    BY BlocksOfIs
  <2> HIDE DEF N
  <2>2. N \in Nat /\ i \in Nat /\ i - 1 \in Nat /\ i - 1 \in 0 .. N
    BY <2>1
  <2> QED BY <2>2 DEF N
<1>1. was \in OneBlock /\ KeyStates(mode, dir, D)[i] = next
  BY <1>0, KeyStatesAre
<1>2. key \in OneBlock
  BY <1>1, BlocksAre
<1>3. /\ a \in Nat /\ e \in Nat /\ n \in Nat /\ e <= Len(D) /\ n <= BlockSize
      /\ source \in Seq(Octets) /\ Len(source) = n /\ \A j \in 1 .. n : source[j] = D[a + j]
      /\ \A j \in 1 .. BlockSize : a + j > Len(D) <=> j > n
  <2>1. /\ a \in Nat /\ e \in Nat /\ a <= e /\ e <= Len(D) /\ e <= a + BlockSize
        /\ source \in Seq(Octets) /\ Len(source) = e - a
        /\ \A j \in 1 .. e - a : source[j] = D[a + j]
        /\ \A j \in 1 .. BlockSize : a + j > Len(D) <=> j > e - a
    BY SourceIs
  <2> HIDE DEF a, e, source
  <2> QED BY <2>1, BlocksAre
<1>4. ASSUME NEW j \in 1 .. n
      PROVE  /\ FlowAt(mode, dir, D, a + j) = Xor(source[j], key[j]) /\ Xor(source[j], key[j]) \in Octets
             /\ j \in 1 .. BlockSize
  <2>1. j \in 1 .. BlockSize
    <3> HIDE DEF n
    <3> QED BY <1>3, BlocksAre
  <2>2. BlockOf(a + j) = i /\ OffsetOf(a + j) = j
    <3>1. BlockOf((i - 1) * BlockSize + j) = (i - 1) + 1 /\ OffsetOf((i - 1) * BlockSize + j) = j
      BY <1>0, <2>1, PositionIs
    <3> QED BY <1>0, <3>1
  <2>3. KeyBlock(mode, dir, D, i) = key
    BY DEF KeyBlock
  <2>4. source[j] = D[a + j] /\ source[j] \in Octets
    <3> HIDE DEF source, a, n
    <3> QED BY <1>3
  <2>5. key[j] \in Octets
    BY <1>2, <2>1 DEF OneBlock
  <2> HIDE DEF source, key, a, n
  <2> QED BY <2>1, <2>2, <2>3, <2>4, <2>5, BlocksAre DEF FlowAt
<1>5. target = Flow(mode, dir, D, a, e)
  <2>1. DOMAIN source = 1 .. n
    <3> HIDE DEF source, n
    <3> QED BY <1>3
  <2>2. target = [j \in 1 .. n |-> Xor(source[j], key[j])]
    BY <2>1 DEF XorSeq
  <2>3. Flow(mode, dir, D, a, e) = [j \in 1 .. n |-> FlowAt(mode, dir, D, a + j)]
    BY DEF Flow
  <2> HIDE DEF target, source, key, a, e
  <2> QED BY <1>4, <2>2, <2>3
<1>6. target \in Seq(Octets) /\ Len(target) = n /\ \A j \in 1 .. n : target[j] = Xor(source[j], key[j])
  <2>1. target = [j \in 1 .. n |-> Xor(source[j], key[j])]
    <3>1. DOMAIN source = 1 .. n
      <4> HIDE DEF source, n
      <4> QED BY <1>3
    <3> QED BY <3>1 DEF XorSeq
  <2> HIDE DEF target, source, key, n
  <2> QED BY <1>3, <1>4, <2>1
<1>7. mode = "cfb" => next = cipher \o Drop(was, Len(cipher))
  <2> SUFFICES ASSUME mode = "cfb"  PROVE next = cipher \o Drop(was, Len(cipher))
    OBVIOUS
  <2> DEFINE x(j) == IF a + j > Len(D) THEN was[j]
                     ELSE IF dir = "encrypt" THEN Xor(D[a + j], key[j]) ELSE D[a + j]
             rest == Drop(was, Len(cipher))
  <2>1. next = [j \in 1 .. BlockSize |-> x(j)]
    BY DEF StateAfter
  <2>2. cipher \in Seq(Octets) /\ Len(cipher) = n
    <3> HIDE DEF target, source, n
    <3> QED BY <1>3, <1>6
  <2>3. next \in OneBlock
    <3>1. i \in Nat /\ i > 0
      BY <1>0
    <3> QED BY <1>1, <3>1, StateAfterIs
  <2>4. was \in Seq(Octets) /\ Len(was) = BlockSize /\ next \in Seq(Octets) /\ Len(next) = BlockSize /\ BlockSize \in Nat
    <3> HIDE DEF was, next
    <3> QED BY <1>1, <2>3, BlocksAre DEF OneBlock
  <2>5. rest \in Seq(Octets) /\ Len(rest) = BlockSize - n /\ \A j \in 1 .. BlockSize - n : rest[j] = was[n + j]
    <3>1. rest = SubSeq(was, n + 1, BlockSize)
      BY <2>2, <2>4 DEF Drop
    <3> HIDE DEF rest, was, n
    <3> QED BY <1>3, <2>4, <3>1
  <2>6. \A j \in 1 .. n : next[j] = cipher[j]
    <3> SUFFICES ASSUME NEW j \in 1 .. n  PROVE next[j] = cipher[j]
      OBVIOUS
    <3>1. j \in 1 .. BlockSize /\ ~(j > n)
      <4>1. j \in 1 .. BlockSize
        BY <1>4
      <4> HIDE DEF n
      <4> QED BY <1>3, <4>1
    <3>2. ~(a + j > Len(D))
      BY <1>3, <3>1
    <3>3. next[j] = x(j)
      BY <2>1, <3>1
    <3>4. source[j] = D[a + j] /\ target[j] = Xor(source[j], key[j])
      BY <1>3, <1>6
    <3> HIDE DEF source, target, next, key, a, n
    <3> QED BY <3>2, <3>3, <3>4
  <2>7. \A j \in 1 .. BlockSize - n : next[n + j] = rest[j]
    <3> SUFFICES ASSUME NEW j \in 1 .. BlockSize - n  PROVE next[n + j] = rest[j]
      OBVIOUS
    <3>1. n + j \in 1 .. BlockSize /\ n + j > n
      <4> HIDE DEF n
      <4> QED BY <1>3, <2>4
    <3>2. a + (n + j) > Len(D)
      BY <1>3, <3>1
    <3>3. next[n + j] = x(n + j)
      BY <2>1, <3>1
    <3>4. rest[j] = was[n + j]
      BY <2>5
    <3> HIDE DEF next, rest, was, a, n
    <3> QED BY <3>2, <3>3, <3>4
  <2> HIDE DEF next, cipher, rest, n
  <2>8. Len(next) = Len(cipher) + Len(rest)
    BY <1>3, <2>2, <2>4, <2>5
  <2>9. \A j \in 1 .. Len(cipher) : next[j] = cipher[j]
    BY <2>2, <2>6
  <2>10. \A j \in 1 .. Len(rest) : next[Len(cipher) + j] = rest[j]
    BY <2>2, <2>5, <2>7
  <2>11. cipher \o rest = next
    BY <2>2, <2>4, <2>5, <2>8, <2>9, <2>10, JoinIs
  <2> QED BY <2>11 DEF rest
<1>8. (mode = "ofb" => next = key) /\ (mode = "ctr" => next = IncrementCounter(was))
  BY DEF StateAfter
<1> HIDE DEF was, key, cipher, target, source, next, a, e
<1> QED BY <1>1, <1>5, <1>7, <1>8 DEF was, key, cipher, target, source, next, a, e

\* The one-shot function spends the keystream on the input.
LEMMA OneShotFlows ==
  ASSUME NEW mode \in StreamModes, NEW dir, NEW D \in Seq(Octets)
  PROVE  StreamOneShot(mode, dir, D) = IF Exhausts(mode, dir, D) THEN Refused ELSE Good(Flow(mode, dir, D, 0, Len(D)))
<1> DEFINE N == BlocksOf(D)
           KS == KeyStates(mode, dir, D)
           Source(i) == SubSeq(D, (i - 1) * BlockSize + 1, SourceEnd(D, i))
           Target(was, i) == XorSeq(Source(i), EncryptBlock(was.state))
           Cipher(was, i) == IF dir = "encrypt" THEN Target(was, i) ELSE Source(i)
           Body(was, i) ==
             [out   |-> was.out \o Target(was, i),
              bad   |-> was.bad \/ (mode = "ctr" /\ i < N /\ Wraps(was.state)),
              state |-> CASE mode = "ofb" -> EncryptBlock(was.state)
                          [] mode = "ctr" -> IncrementCounter(was.state)
                          [] mode = "cfb" -> Cipher(was, i) \o Drop(was.state, Len(Cipher(was, i)))]
           Base == [state |-> Iv, out |-> <<>>, bad |-> FALSE]
           Eq(f) == f = [i \in 0 .. N |-> IF i = 0 THEN Base ELSE Body(f[i - 1], i)]
           after == CHOOSE f : Eq(f)
           Bad(i) == mode = "ctr" /\ \E j \in 1 .. i : j < N /\ Wraps(KS[j - 1])
           H(i) == [state |-> KS[i], out |-> Flow(mode, dir, D, 0, SourceEnd(D, i)), bad |-> Bad(i)]
           h == [i \in 0 .. N |-> H(i)]
<1>1. StreamOneShot(mode, dir, D) = IF after[N].bad THEN Refused ELSE Good(after[N].out)
  BY DEF StreamOneShot, BlocksOf, SourceEnd
<1>2. N \in Nat
  BY BlocksOfIs
<1>3. ASSUME NEW i \in 1 .. N  PROVE H(i) = Body(H(i - 1), i)
  <2> DEFINE was == H(i - 1)
             key == EncryptBlock(KS[i - 1])
             t   == XorSeq(Source(i), key)
             cph == IF dir = "encrypt" THEN t ELSE Source(i)
             a == (i - 1) * BlockSize
             e == SourceEnd(D, i)
  <2>1. was.state = KS[i - 1] /\ was.out = Flow(mode, dir, D, 0, SourceEnd(D, i - 1)) /\ was.bad = Bad(i - 1)
    OBVIOUS
  <2>2. Source(i) = SubSeq(D, a + 1, e)
    OBVIOUS
  <2>3. /\ t = Flow(mode, dir, D, a, e)
        /\ mode = "ofb" => KS[i] = key
        /\ mode = "ctr" => KS[i] = IncrementCounter(KS[i - 1])
        /\ mode = "cfb" => KS[i] = cph \o Drop(KS[i - 1], Len(cph))
    BY <2>2, TargetIs
  <2>4. Target(was, i) = t /\ Cipher(was, i) = cph
    BY <2>1
  <2>5. Flow(mode, dir, D, 0, SourceEnd(D, i - 1)) \o Flow(mode, dir, D, a, e) = Flow(mode, dir, D, 0, e)
    <3>1. a \in Nat /\ e \in Nat /\ a <= e /\ e <= Len(D) /\ SourceEnd(D, i - 1) = a
      BY SourceIs
    <3> DEFINE o == 0
    <3>2. o \in Nat /\ o <= a
      <4> HIDE DEF a
      <4> QED BY <3>1
    <3> HIDE DEF o, a, e
    <3>3. Flow(mode, dir, D, o, a) \o Flow(mode, dir, D, a, e) = Flow(mode, dir, D, o, e)
      <4>1. mode \in StreamModes /\ D \in Seq(Octets) /\ o \in Nat /\ a \in Nat /\ e \in Nat /\ o <= a /\ a <= e /\ e <= Len(D)
        BY <3>1, <3>2
      <4> QED BY ONLY <4>1, FlowJoins
    <3> QED BY <3>1, <3>3 DEF o
  <2>6. Bad(i) <=> Bad(i - 1) \/ (mode = "ctr" /\ i < N /\ Wraps(KS[i - 1]))
    <3>1. \A j : j \in 1 .. i <=> j \in 1 .. i - 1 \/ j = i
      <4> HIDE DEF N
      <4> QED BY <1>2
    <3> HIDE DEF N, KS
    <3> QED BY <3>1
  <2> HIDE DEF was, t, cph, key, a, e, KS, Source
  <2>7. Body(was, i) = [out |-> Flow(mode, dir, D, 0, e), bad |-> Bad(i), state |-> KS[i]]
    <3>1. was.out \o Target(was, i) = Flow(mode, dir, D, 0, e)
      BY <2>1, <2>3, <2>4, <2>5
    <3>2. (was.bad \/ (mode = "ctr" /\ i < N /\ Wraps(was.state))) = Bad(i)
      BY <2>1, <2>6
    <3>3. (CASE mode = "ofb" -> EncryptBlock(was.state)
             [] mode = "ctr" -> IncrementCounter(was.state)
             [] mode = "cfb" -> Cipher(was, i) \o Drop(was.state, Len(Cipher(was, i)))) = KS[i]
      BY <2>1, <2>3, <2>4 DEF key, StreamModes
    <3> HIDE DEF Target, Cipher, Bad
    <3> QED BY <3>1, <3>2, <3>3
  <2> QED BY <2>7 DEF was, e
<1>4. H(0) = Base
  <2>1. KS[0] = Iv
    BY KeyStatesAre
  <2>2. SourceEnd(D, 0) = 0
    BY BlocksOfIs, BlocksAre DEF SourceEnd
  <2>3. Flow(mode, dir, D, 0, 0) = <<>>
    BY DEF Flow
  <2>4. ~Bad(0)
    OBVIOUS
  <2> QED BY <2>1, <2>2, <2>3, <2>4
<1> HIDE DEF H, Body, Base, N
<1>5. Eq(h)
  <2>1. h = [i \in 0 .. N |-> h[i]] /\ \A i \in 0 .. N : h[i] = H(i)
    OBVIOUS
  <2>2. \A i \in 1 .. N : i - 1 \in 0 .. N /\ i \in 0 .. N
    BY <1>2
  <2>3. \A i \in 0 .. N : h[i] = IF i = 0 THEN Base ELSE Body(h[i - 1], i)
    <3> SUFFICES ASSUME NEW i \in 0 .. N  PROVE h[i] = IF i = 0 THEN Base ELSE Body(h[i - 1], i)
      OBVIOUS
    <3> HIDE DEF h
    <3>1. CASE i = 0
      BY <3>1, <2>1, <1>4
    <3>2. CASE i # 0
      <4>1. i \in 1 .. N /\ i - 1 \in 0 .. N
        BY <3>2, <1>2
      <4> QED BY <3>2, <4>1, <2>1, <1>3
    <3> QED BY <3>1, <3>2
  <2> QED BY <2>1, <2>3
<1>6. Eq(after)
  BY <1>5
<1> HIDE DEF after
<1>7. after[0] = Base /\ \A i \in 1 .. N : after[i] = Body(after[i - 1], i)
  BY <1>2, <1>6
<1>8. h[0] = Base /\ \A i \in 1 .. N : h[i] = Body(h[i - 1], i)
  <2> HIDE DEF h
  <2> QED BY <1>2, <1>5
<1>9. after[N] = h[N]
  <2> HIDE DEF h
  <2>1. GoAlike(after, h, N)
    BY <1>7, <1>8 DEF GoAlike
  <2>2. \A i \in 0 .. N : after[i] = h[i]
    BY <1>2, <2>1, SameRuns
  <2> QED BY <1>2, <2>2
<1>10. after[N] = H(N)
  BY <1>2, <1>9
<1>11. SourceEnd(D, N) = Len(D)
  BY DEF SourceEnd, N
<1>12. after[N].out = Flow(mode, dir, D, 0, Len(D)) /\ after[N].bad = Bad(N)
  BY <1>10, <1>11 DEF H
<1>13. Bad(N) <=> Exhausts(mode, dir, D)
  <2>1. \A j : j \in 1 .. N /\ j < N <=> j \in 1 .. N - 1
    BY <1>2
  <2> HIDE DEF KS
  <2> QED BY <2>1 DEF Exhausts, N, KS
<1> QED BY <1>1, <1>12, <1>13 DEF N

\* How many blocks of the keystream are begun after p bytes, and how far the
\* last of them is spent.
Begun(p)   == IF p = 0 THEN 0 ELSE BlockOf(p)
Reached(p) == IF p = 0 THEN BlockSize ELSE OffsetOf(p)

\* OFB and CTR decrypt by encrypting.
FlowDir(c) == IF c.mode = "cfb" THEN c.direction ELSE "encrypt"

StatesOf(c, D)    == KeyStates(c.mode, FlowDir(c), D)
KeyOf(c, D, i)    == KeyBlock(c.mode, FlowDir(c), D, i)
MadeByte(c, D, at) == FlowAt(c.mode, FlowDir(c), D, at)
CipherAt(c, D, at) == IF c.direction = "encrypt" THEN MadeByte(c, D, at) ELSE D[at]

\* CFB replaces its last block byte by byte.
FlowChain(c, D, p) ==
  IF c.mode = "cfb" /\ p > 0
  THEN [j \in 1 .. BlockSize |->
          IF j <= Reached(p) THEN CipherAt(c, D, (Begun(p) - 1) * BlockSize + j) ELSE StatesOf(c, D)[Begun(p) - 1][j]]
  ELSE StatesOf(c, D)[Begun(p)]

LastOfCounter(c, D, p) == c.mode = "ctr" /\ p > 0 /\ Wraps(StatesOf(c, D)[Begun(p) - 1])

\* What the engine keeps after p bytes.
FlowState(c, D, p) ==
  [chain |-> FlowChain(c, D, p), keystream |-> IF p = 0 THEN Fill(BlockSize, 0) ELSE KeyOf(c, D, Begun(p)),
   offset |-> Reached(p), exhausted |-> LastOfCounter(c, D, p), pending |-> <<>>, length |-> 0]

\* The place of the next byte in the keystream.
LEMMA NextPlace ==
  ASSUME NEW p \in Nat
  PROVE  /\ Begun(p) \in Nat /\ Reached(p) \in 1 .. BlockSize /\ p + 1 > 0
         /\ Begun(p + 1) = BlockOf(p + 1) /\ Reached(p + 1) = OffsetOf(p + 1)
         /\ IF Reached(p) = BlockSize
            THEN Begun(p + 1) = Begun(p) + 1 /\ Reached(p + 1) = 1 /\ p = Begun(p) * BlockSize
            ELSE Begun(p + 1) = Begun(p) /\ Reached(p + 1) = Reached(p) + 1 /\ p > 0
         /\ p > 0 => Begun(p) > 0 /\ p = (Begun(p) - 1) * BlockSize + Reached(p)
<1> DEFINE m == p \div BlockSize
           o == p % BlockSize
<1>1. BlockSize \in Nat \ {0}
  BY BlocksAre
<1>2. m \in Nat /\ o \in 0 .. BlockSize - 1 /\ p = m * BlockSize + o
  BY <1>1, DivMod
<1> HIDE DEF m, o
<1>3. m * BlockSize \in Nat
  BY <1>1, <1>2, Products
<1>4. BlockOf(p + 1) = m + 1 /\ OffsetOf(p + 1) = o + 1
  <2>1. o + 1 \in 1 .. BlockSize
    BY <1>1, <1>2
  <2>2. BlockOf(m * BlockSize + (o + 1)) = m + 1 /\ OffsetOf(m * BlockSize + (o + 1)) = o + 1
    BY <1>2, <2>1, PositionIs
  <2> DEFINE u == m * BlockSize
  <2>3. u \in Nat /\ p = u + o
    BY <1>2, <1>3
  <2> HIDE DEF u
  <2>4. u + (o + 1) = p + 1
    BY <1>2, <2>3
  <2> QED BY <2>2, <2>4 DEF u
<1>5. p + 1 # 0 /\ p + 1 > 0
  OBVIOUS
<1>6. Begun(p + 1) = m + 1 /\ Reached(p + 1) = o + 1
  BY <1>4, <1>5 DEF Begun, Reached
<1>7. CASE o # 0
  <2>1. p # 0 /\ p > 0 /\ o \in 1 .. BlockSize /\ o # BlockSize
    <3> DEFINE u == m * BlockSize
    <3>1. u \in Nat /\ p = u + o
      BY <1>2, <1>3
    <3> HIDE DEF u
    <3> QED BY <1>1, <1>2, <1>7, <3>1
  <2>2. BlockOf(p) = m + 1 /\ OffsetOf(p) = o
    BY <1>2, <2>1, PositionIs
  <2>3. Begun(p) = m + 1 /\ Reached(p) = o
    BY <2>1, <2>2 DEF Begun, Reached
  <2>4. (m + 1 - 1) * BlockSize + o = p
    BY <1>2
  <2> QED BY <1>2, <1>4, <1>5, <1>6, <2>1, <2>3, <2>4
<1>8. CASE o = 0 /\ m = 0
  <2>1. p = 0
    BY <1>1, <1>2, <1>8
  <2>2. Begun(p) = 0 /\ Reached(p) = BlockSize
    BY <2>1 DEF Begun, Reached
  <2>3. 0 * BlockSize = 0 /\ BlockSize \in 1 .. BlockSize
    BY <1>1
  <2> QED BY <1>4, <1>5, <1>6, <1>8, <2>1, <2>2, <2>3
<1>9. CASE o = 0 /\ m # 0
  <2>1. m - 1 \in Nat /\ BlockSize \in 1 .. BlockSize /\ m >= 1 /\ m > 0
    BY <1>1, <1>2, <1>9
  <2>2. m * BlockSize = (m - 1) * BlockSize + BlockSize /\ (m - 1) * BlockSize \in Nat
    BY <1>1, <1>2, <2>1, UnitEnds
  <2>3. p = m * BlockSize
    BY <1>2, <1>3, <1>9
  <2>4. p = (m - 1) * BlockSize + BlockSize
    BY <2>2, <2>3
  <2>5. p # 0 /\ p > 0
    <3> DEFINE u == (m - 1) * BlockSize
    <3>1. u \in Nat /\ p = u + BlockSize
      BY <2>2, <2>4
    <3> HIDE DEF u
    <3> QED BY <1>1, <3>1
  <2>6. BlockOf(p) = m /\ OffsetOf(p) = BlockSize
    <3>1. BlockOf((m - 1) * BlockSize + BlockSize) = (m - 1) + 1 /\ OffsetOf((m - 1) * BlockSize + BlockSize) = BlockSize
      BY <2>1, PositionIs
    <3> QED BY <1>2, <2>4, <3>1
  <2>7. Begun(p) = m /\ Reached(p) = BlockSize
    BY <2>5, <2>6 DEF Begun, Reached
  <2> QED BY <1>2, <1>4, <1>5, <1>6, <1>9, <2>1, <2>3, <2>4, <2>5, <2>7
<1> QED BY <1>7, <1>8, <1>9

\* A byte's block is in the keystream.
LEMMA BlockInReach ==
  ASSUME NEW c, c.mode \in StreamModes, NEW D \in Seq(Octets), NEW p \in Nat, p <= Len(D)
  PROVE  /\ Begun(p) \in 0 .. BlocksOf(D) /\ StatesOf(c, D)[Begun(p)] \in OneBlock
         /\ p > 0 => /\ Begun(p) \in 1 .. BlocksOf(D) /\ Begun(p) - 1 \in 0 .. BlocksOf(D)
                     /\ StatesOf(c, D)[Begun(p) - 1] \in OneBlock
                     /\ StatesOf(c, D)[Begun(p)] = StateAfter(c.mode, FlowDir(c), D, StatesOf(c, D)[Begun(p) - 1], Begun(p))
<1> DEFINE N == BlocksOf(D)
           b == Begun(p)
<1>1. N \in Nat
  BY BlocksOfIs
<1>2. p = 0 => b = 0
  BY DEF Begun
<1>3. p > 0 => b \in 1 .. N
  <2>1. p > 0 => p \in 1 .. Len(D) /\ b = BlockOf(p)
    BY DEF Begun
  <2> QED BY <2>1, BlocksOfIs
<1>4. /\ StatesOf(c, D) \in [0 .. N -> OneBlock]
      /\ \A i \in 1 .. N : StatesOf(c, D)[i] = StateAfter(c.mode, FlowDir(c), D, StatesOf(c, D)[i - 1], i)
  BY KeyStatesAre DEF StatesOf
<1> HIDE DEF N, b
<1>5. b \in 0 .. N /\ (p > 0 => b - 1 \in 0 .. N)
  BY <1>1, <1>2, <1>3
<1> QED BY <1>3, <1>4, <1>5 DEF N, b

\* A byte at its place in its block.
LEMMA CipherByteIs ==
  ASSUME NEW c, c.mode = "cfb", NEW D \in Seq(Octets), NEW i \in 1 .. BlocksOf(D), NEW j \in 1 .. BlockSize,
         (i - 1) * BlockSize + j <= Len(D)
  PROVE  StatesOf(c, D)[i][j] = CipherAt(c, D, (i - 1) * BlockSize + j)
<1> DEFINE was == StatesOf(c, D)[i - 1]
           at == (i - 1) * BlockSize + j
<1>1. i - 1 \in Nat /\ BlocksOf(D) \in Nat /\ c.mode \in StreamModes
  <2> DEFINE n == BlocksOf(D)
  <2>1. n \in Nat /\ i \in 1 .. n
    BY BlocksOfIs
  <2> HIDE DEF n
  <2>2. i - 1 \in Nat
    BY <2>1
  <2> QED BY <2>1, <2>2 DEF n, StreamModes
<1>2. StatesOf(c, D)[i] = StateAfter(c.mode, FlowDir(c), D, was, i)
  BY <1>1, KeyStatesAre DEF StatesOf
<1>3. ~(at > Len(D))
  <2>1. at \in Int /\ Len(D) \in Nat
    <3>1. (i - 1) * BlockSize \in Nat
      BY <1>1, BlocksAre, Products
    <3> DEFINE u == (i - 1) * BlockSize
    <3>2. u \in Nat /\ at = u + j
      BY <3>1
    <3> HIDE DEF u, at
    <3> QED BY <3>2
  <2>2. at <= Len(D)
    OBVIOUS
  <2> HIDE DEF at
  <2> QED BY <2>1, <2>2
<1>4. StatesOf(c, D)[i][j] = IF FlowDir(c) = "encrypt" THEN Xor(D[at], EncryptBlock(was)[j]) ELSE D[at]
  <2>1. StatesOf(c, D)[i] = [k \in 1 .. BlockSize |->
            IF (i - 1) * BlockSize + k > Len(D) THEN was[k]
            ELSE IF FlowDir(c) = "encrypt" THEN Xor(D[(i - 1) * BlockSize + k], EncryptBlock(was)[k])
            ELSE D[(i - 1) * BlockSize + k]]
    BY <1>2 DEF StateAfter
  <2> HIDE DEF was
  <2>2. StatesOf(c, D)[i][j] = IF at > Len(D) THEN was[j]
            ELSE IF FlowDir(c) = "encrypt" THEN Xor(D[at], EncryptBlock(was)[j]) ELSE D[at]
    BY <2>1
  <2> QED BY <1>3, <2>2
<1>5. BlockOf(at) = i /\ OffsetOf(at) = j
  <2>1. BlockOf(at) = (i - 1) + 1 /\ OffsetOf(at) = j
    BY <1>1, PositionIs
  <2> QED BY <1>1, <2>1
<1>6. FlowDir(c) = c.direction
  BY DEF FlowDir
<1>7. MadeByte(c, D, at) = Xor(D[at], EncryptBlock(was)[j])
  <2> HIDE DEF at
  <2> QED BY <1>5 DEF MadeByte, FlowAt, KeyBlock, StatesOf
<1> HIDE DEF was, at
<1> QED BY <1>4, <1>6, <1>7 DEF CipherAt, at

\* When a block is spent the state is that of the next.
LEMMA ChainBetween ==
  ASSUME NEW c, c.mode \in StreamModes, NEW D \in Seq(Octets), NEW p \in Nat, p <= Len(D),
         c.mode # "cfb" \/ Reached(p) = BlockSize
  PROVE  FlowChain(c, D, p) = StatesOf(c, D)[Begun(p)]
<1>1. CASE c.mode # "cfb" \/ p = 0
  BY <1>1 DEF FlowChain
<1>2. CASE c.mode = "cfb" /\ p > 0
  <2> DEFINE b == Begun(p)
             S == StatesOf(c, D)
  <2>1. b \in 1 .. BlocksOf(D) /\ S[b] \in OneBlock
    BY <1>2, BlockInReach
  <2>2. Reached(p) = BlockSize /\ p = b * BlockSize /\ b \in Nat /\ BlockSize \in Nat
    BY <1>2, NextPlace, BlocksAre
  <2>3. ASSUME NEW j \in 1 .. BlockSize  PROVE S[b][j] = CipherAt(c, D, (b - 1) * BlockSize + j) /\ j <= Reached(p)
    <3>1. (b - 1) * BlockSize + j <= Len(D)
      <4>1. b * BlockSize = (b - 1) * BlockSize + BlockSize /\ (b - 1) * BlockSize \in Nat
        <5>1. b \in 1 .. b
          <6>1. b > 0
            BY <1>2, NextPlace
          <6> HIDE DEF b
          <6> QED BY <2>2, <6>1
        <5> HIDE DEF b
        <5> QED BY <2>2, <5>1, BlockEnds
      <4> DEFINE u == (b - 1) * BlockSize
                 v == b * BlockSize
      <4>2. u \in Nat /\ v = u + BlockSize /\ p = v
        BY <2>2, <4>1
      <4> HIDE DEF u, v
      <4>3. u + j <= Len(D)
        BY <2>2, <4>2
      <4> QED BY <4>3 DEF u
    <3> HIDE DEF b
    <3>2. S[b][j] = CipherAt(c, D, (b - 1) * BlockSize + j)
      BY <1>2, <2>1, <3>1, CipherByteIs
    <3> QED BY <2>2, <3>2
  <2>4. FlowChain(c, D, p) = [j \in 1 .. BlockSize |-> IF j <= Reached(p) THEN CipherAt(c, D, (b - 1) * BlockSize + j) ELSE S[b - 1][j]]
    BY <1>2 DEF FlowChain
  <2> HIDE DEF b, S
  <2>5. S[b] = [j \in 1 .. BlockSize |-> S[b][j]]
    BY <2>1 DEF OneBlock
  <2>6. FlowChain(c, D, p) = S[b]
    BY <2>3, <2>4, <2>5
  <2> QED BY <2>6 DEF b, S
<1> QED BY <1>1, <1>2

\* A block of the keystream is due, and the counter has wrapped.
Wrapped(c, D, p) == Reached(p) = BlockSize /\ LastOfCounter(c, D, p)

\* What the next byte's block is made from, and what is chained after the byte.
LEMMA NextChain ==
  ASSUME NEW c, c.mode \in StreamModes, NEW D \in Seq(Octets), NEW p \in Nat, p < Len(D)
  PROVE  LET fresh == Reached(p) = BlockSize
             s     == FlowChain(c, D, p)
             key   == KeyOf(c, D, Begun(p + 1))
         IN /\ fresh => EncryptBlock(s) = key /\ s = StatesOf(c, D)[Begun(p + 1) - 1]
            /\ ~fresh => key = KeyOf(c, D, Begun(p)) /\ p > 0
            /\ c.mode = "ofb" => FlowChain(c, D, p + 1) = IF fresh THEN key ELSE s
            /\ c.mode = "ctr" => FlowChain(c, D, p + 1) = IF fresh THEN IncrementCounter(s) ELSE s
            /\ c.mode = "cfb" => FlowChain(c, D, p + 1) = [s EXCEPT ![Reached(p + 1)] = CipherAt(c, D, p + 1)]
            /\ Xor(D[p + 1], key[Reached(p + 1)]) = MadeByte(c, D, p + 1)
<1> DEFINE b == Begun(p)
           e == Begun(p + 1)
           t == Reached(p)
           r == Reached(p + 1)
           S == StatesOf(c, D)
           s == FlowChain(c, D, p)
           z == FlowChain(c, D, p + 1)
           key == KeyOf(c, D, e)
<1>1. /\ b \in Nat /\ t \in 1 .. BlockSize /\ e = BlockOf(p + 1) /\ r = OffsetOf(p + 1)
      /\ IF t = BlockSize THEN e = b + 1 /\ r = 1 /\ p = b * BlockSize ELSE e = b /\ r = t + 1 /\ p > 0
      /\ p > 0 => b > 0 /\ p = (b - 1) * BlockSize + t
  BY NextPlace
<1>2. p + 1 \in Nat /\ p + 1 <= Len(D) /\ p <= Len(D) /\ p + 1 > 0
  OBVIOUS
<1>3. /\ e \in 1 .. BlocksOf(D) /\ e - 1 \in 0 .. BlocksOf(D) /\ S[e - 1] \in OneBlock
      /\ S[e] = StateAfter(c.mode, FlowDir(c), D, S[e - 1], e)
  BY <1>2, BlockInReach
<1>4. b + 1 - 1 = b
  BY <1>1
<1>5. key = EncryptBlock(S[e - 1])
  BY DEF KeyOf, KeyBlock, StatesOf
<1>6. (t = BlockSize \/ c.mode # "cfb") => s = S[b]
  BY <1>2, ChainBetween
<1>7. t = BlockSize => EncryptBlock(s) = key /\ s = S[e - 1]
  <2> SUFFICES ASSUME t = BlockSize  PROVE EncryptBlock(s) = key /\ s = S[e - 1]
    OBVIOUS
  <2>1. e - 1 = b
    BY <1>1, <1>4
  <2> HIDE DEF s, e, b, S, key
  <2> QED BY <2>1, <1>5, <1>6
<1>8. t # BlockSize => key = KeyOf(c, D, b) /\ p > 0
  BY <1>1
<1>9. c.mode # "cfb" => z = S[e]
  <2>1. c.mode # "cfb" => FlowChain(c, D, p + 1) = StatesOf(c, D)[Begun(p + 1)]
    BY <1>2, ChainBetween
  <2> QED BY <2>1
<1>10. c.mode = "ofb" => z = IF t = BlockSize THEN key ELSE s
  <2> SUFFICES ASSUME c.mode = "ofb"  PROVE z = IF t = BlockSize THEN key ELSE s
    OBVIOUS
  <2>1. S[e] = EncryptBlock(S[e - 1])
    BY <1>3 DEF StateAfter
  <2> HIDE DEF s, e, b, S, key, z, t
  <2> QED BY <2>1, <1>1, <1>5, <1>6, <1>9
<1>11. c.mode = "ctr" => z = IF t = BlockSize THEN IncrementCounter(s) ELSE s
  <2> SUFFICES ASSUME c.mode = "ctr"  PROVE z = IF t = BlockSize THEN IncrementCounter(s) ELSE s
    OBVIOUS
  <2>1. S[e] = IncrementCounter(S[e - 1])
    BY <1>3 DEF StateAfter
  <2> HIDE DEF s, e, b, S, key, z, t
  <2> QED BY <2>1, <1>1, <1>6, <1>7, <1>9
<1>12. c.mode = "cfb" => z = [s EXCEPT ![r] = CipherAt(c, D, p + 1)]
  <2> SUFFICES ASSUME c.mode = "cfb"  PROVE z = [s EXCEPT ![r] = CipherAt(c, D, p + 1)]
    OBVIOUS
  <2> DEFINE y(j) == CipherAt(c, D, (e - 1) * BlockSize + j)
  <2>1. z = [j \in 1 .. BlockSize |-> IF j <= r THEN y(j) ELSE S[e - 1][j]]
    BY <1>2 DEF FlowChain
  <2>2. p + 1 = (e - 1) * BlockSize + r /\ r \in 1 .. BlockSize
    <3>1. p + 1 \in Nat
      OBVIOUS
    <3> QED BY <3>1, <1>2, NextPlace
  <2>3. y(r) = CipherAt(c, D, p + 1)
    BY <2>2
  <2>4. CASE t = BlockSize
    <3>1. s = S[e - 1] /\ s = [j \in 1 .. BlockSize |-> s[j]] /\ r = 1
      BY <1>1, <1>3, <1>7, <2>4 DEF OneBlock
    <3> HIDE DEF s, e, b, S, key, z, t, r, y
    <3>2. [s EXCEPT ![r] = y(r)] = [j \in 1 .. BlockSize |-> IF j = r THEN y(r) ELSE s[j]]
      BY <3>1
    <3>3. \A j \in 1 .. BlockSize : (IF j <= r THEN y(j) ELSE S[e - 1][j]) = IF j = r THEN y(r) ELSE s[j]
      BY <3>1
    <3> QED BY <2>1, <2>3, <3>2, <3>3
  <2>5. CASE t # BlockSize
    <3>1. e = b /\ r = t + 1 /\ t \in Nat
      BY <1>1, <2>5
    <3>2. s = [j \in 1 .. BlockSize |-> IF j <= t THEN CipherAt(c, D, (b - 1) * BlockSize + j) ELSE S[b - 1][j]]
      BY <1>8, <2>5 DEF FlowChain
    <3>3. s = [j \in 1 .. BlockSize |-> IF j <= t THEN y(j) ELSE S[e - 1][j]]
      BY <3>1, <3>2
    <3> HIDE DEF s, e, b, S, key, z, t, r, y
    <3>4. [s EXCEPT ![r] = y(r)] = [j \in 1 .. BlockSize |-> IF j = r THEN y(r) ELSE IF j <= t THEN y(j) ELSE S[e - 1][j]]
      BY <3>3
    <3>5. \A j \in 1 .. BlockSize : (IF j <= r THEN y(j) ELSE S[e - 1][j]) = IF j = r THEN y(r) ELSE IF j <= t THEN y(j) ELSE S[e - 1][j]
      BY <3>1
    <3> QED BY <2>1, <2>3, <3>4, <3>5
  <2> QED BY <2>4, <2>5
<1>13. Xor(D[p + 1], key[r]) = MadeByte(c, D, p + 1)
  <2>1. MadeByte(c, D, p + 1) = Xor(D[p + 1], KeyOf(c, D, BlockOf(p + 1))[OffsetOf(p + 1)])
    BY DEF MadeByte, FlowAt, KeyOf
  <2> QED BY <2>1, <1>1
<1> HIDE DEF s, e, b, S, key, z, t, r
<1> QED BY <1>7, <1>8, <1>10, <1>11, <1>12, <1>13 DEF s, e, b, S, key, z, t, r

\* Two Booleans of one truth are equal.
LEMMA SameTruth == ASSUME NEW a \in BOOLEAN, NEW b \in BOOLEAN, a <=> b  PROVE a = b
OBVIOUS

\* One byte is spent, or refused where the counter has wrapped.
LEMMA StreamByteIs ==
  ASSUME NEW c, c.mode \in StreamModes, NEW D \in Seq(Octets), NEW p \in Nat, p < Len(D)
  PROVE  StreamByte(c, FlowState(c, D, p), D[p + 1])
         = IF Wrapped(c, D, p) THEN Thrown(FlowState(c, D, p)) ELSE Step(FlowState(c, D, p + 1), <<MadeByte(c, D, p + 1)>>)
<1> DEFINE s     == FlowState(c, D, p)
           byte  == D[p + 1]
           fresh == s.offset = BlockSize
           key   == IF fresh THEN EncryptBlock(s.chain) ELSE s.keystream
           at    == IF fresh THEN 1 ELSE s.offset + 1
           out   == Xor(byte, key[at])
           next  == CASE c.mode = "ofb" -> IF fresh THEN key ELSE s.chain
                      [] c.mode = "ctr" -> IF fresh THEN IncrementCounter(s.chain) ELSE s.chain
                      [] c.mode = "cfb" -> [s.chain EXCEPT ![at] = IF c.direction = "encrypt" THEN out ELSE byte]
           last  == IF fresh /\ c.mode = "ctr" THEN Wraps(s.chain) ELSE s.exhausted
           b == Begun(p)
           e == Begun(p + 1)
           r == Reached(p + 1)
           K == KeyOf(c, D, e)
           F == FlowChain(c, D, p)
           Z == FlowChain(c, D, p + 1)
           m == MadeByte(c, D, p + 1)
<1>1. StreamByte(c, s, byte)
      = IF fresh /\ c.mode = "ctr" /\ s.exhausted THEN Thrown(s)
        ELSE Step([s EXCEPT !.chain = next, !.keystream = key, !.offset = at, !.exhausted = last], <<out>>)
  BY DEF StreamByte
<1>2. /\ s.chain = F /\ s.offset = Reached(p)
      /\ (p > 0 => s.keystream = KeyOf(c, D, b))
      /\ s.exhausted = LastOfCounter(c, D, p)
  BY DEF FlowState
<1>3. fresh <=> Reached(p) = BlockSize
  BY <1>2
<1>4. /\ fresh => EncryptBlock(F) = K /\ F = StatesOf(c, D)[e - 1]
      /\ ~fresh => K = KeyOf(c, D, b) /\ p > 0
      /\ c.mode = "ofb" => Z = IF fresh THEN K ELSE F
      /\ c.mode = "ctr" => Z = IF fresh THEN IncrementCounter(F) ELSE F
      /\ c.mode = "cfb" => Z = [F EXCEPT ![r] = CipherAt(c, D, p + 1)]
      /\ Xor(byte, K[r]) = m
  BY <1>3, NextChain
<1>5. key = K
  <2> HIDE DEF s, K, F
  <2> QED BY <1>2, <1>4
<1>6. at = r
  <2>1. IF Reached(p) = BlockSize THEN r = 1 ELSE r = Reached(p) + 1
    BY NextPlace
  <2> QED BY <2>1, <1>2, <1>3
<1>7. out = m
  <2> HIDE DEF key, at, K, m, r
  <2> QED BY <1>4, <1>5, <1>6
<1>8. CipherAt(c, D, p + 1) = IF c.direction = "encrypt" THEN out ELSE byte
  BY <1>7 DEF CipherAt
<1>9. next = Z
  <2> HIDE DEF s, key, at, out, Z, F, r, fresh, byte
  <2> QED BY <1>2, <1>4, <1>5, <1>6, <1>8 DEF StreamModes
<1>10. last <=> LastOfCounter(c, D, p + 1)
  <2>1. p + 1 > 0
    OBVIOUS
  <2>2. LastOfCounter(c, D, p + 1) <=> c.mode = "ctr" /\ Wraps(StatesOf(c, D)[e - 1])
    BY <2>1 DEF LastOfCounter
  <2>3. CASE fresh
    <3>1. F = StatesOf(c, D)[e - 1]
      BY <1>4, <2>3
    <3>2. c.mode # "ctr" => ~LastOfCounter(c, D, p)
      BY DEF LastOfCounter
    <3> HIDE DEF s, fresh, F, e
    <3> QED BY <1>2, <2>2, <2>3, <3>1, <3>2
  <2>4. CASE ~fresh
    <3>1. e = b /\ p > 0
      <4>1. Reached(p) # BlockSize
        BY <1>3, <2>4
      <4> QED BY <4>1, NextPlace
    <3>2. LastOfCounter(c, D, p) <=> c.mode = "ctr" /\ Wraps(StatesOf(c, D)[e - 1])
      BY <3>1 DEF LastOfCounter
    <3>3. s.exhausted <=> LastOfCounter(c, D, p)
      BY <1>2
    <3> HIDE DEF s, fresh, F, e
    <3> QED BY <2>2, <2>4, <3>2, <3>3
  <2> QED BY <2>3, <2>4
<1>11. [s EXCEPT !.chain = next, !.keystream = key, !.offset = at, !.exhausted = last] = FlowState(c, D, p + 1)
  <2> DEFINE x == LastOfCounter(c, D, p + 1)
             old == LastOfCounter(c, D, p)
             ks == IF p = 0 THEN Fill(BlockSize, 0) ELSE KeyOf(c, D, b)
  <2>1. last = x
    <3>1. last \in BOOLEAN /\ x \in BOOLEAN
      BY <1>2 DEF LastOfCounter, Wraps
    <3> HIDE DEF last, x
    <3>2. last <=> x
      BY <1>10 DEF x
    <3> QED BY <3>1, <3>2, SameTruth
  <2>2. s = [chain |-> F, keystream |-> ks, offset |-> Reached(p), exhausted |-> old, pending |-> <<>>, length |-> 0]
    BY DEF FlowState
  <2>3. p + 1 # 0
    OBVIOUS
  <2>4. FlowState(c, D, p + 1) = [chain |-> Z, keystream |-> K, offset |-> r, exhausted |-> x, pending |-> <<>>, length |-> 0]
    BY <2>3 DEF FlowState
  <2> HIDE DEF s, F, Z, K, r, x, old, ks, next, key, at, last
  <2>5. [s EXCEPT !.chain = next, !.keystream = key, !.offset = at, !.exhausted = last]
        = [chain |-> next, keystream |-> key, offset |-> at, exhausted |-> last, pending |-> <<>>, length |-> 0]
    <3> DEFINE nil  == <<>>
               zero == 0
               was  == Reached(p)
    <3>1. s = [chain |-> F, keystream |-> ks, offset |-> was, exhausted |-> old, pending |-> nil, length |-> zero]
      BY <2>2
    <3> DEFINE t == [s EXCEPT !.chain = next]
               u == [t EXCEPT !.keystream = key]
               v == [u EXCEPT !.offset = at]
    <3> HIDE DEF nil, zero, was
    <3>2. t = [chain |-> next, keystream |-> ks, offset |-> was, exhausted |-> old, pending |-> nil, length |-> zero]
      BY ONLY <3>1
    <3> HIDE DEF t
    <3>3. u = [chain |-> next, keystream |-> key, offset |-> was, exhausted |-> old, pending |-> nil, length |-> zero]
      BY ONLY <3>2
    <3> HIDE DEF u
    <3>4. v = [chain |-> next, keystream |-> key, offset |-> at, exhausted |-> old, pending |-> nil, length |-> zero]
      BY ONLY <3>3
    <3> HIDE DEF v
    <3>5. [v EXCEPT !.exhausted = last]
          = [chain |-> next, keystream |-> key, offset |-> at, exhausted |-> last, pending |-> nil, length |-> zero]
      BY ONLY <3>4
    <3>6. [s EXCEPT !.chain = next, !.keystream = key, !.offset = at, !.exhausted = last]
          = [chain |-> next, keystream |-> key, offset |-> at, exhausted |-> last, pending |-> nil, length |-> zero]
      BY <3>5 DEF v, u, t
    <3> QED BY <3>6 DEF nil, zero
  <2> QED BY <2>1, <2>4, <2>5, <1>5, <1>6, <1>9
<1>12. (fresh /\ c.mode = "ctr" /\ s.exhausted) <=> Wrapped(c, D, p)
  BY <1>2, <1>3 DEF Wrapped, LastOfCounter
<1> HIDE DEF next, key, at, last, out, m, fresh, s, byte
<1> QED BY <1>1, <1>7, <1>11, <1>12 DEF s, byte, m

\* The first p bytes can be spent.
Spendable(c, D, p) == \A m \in 0 .. p - 1 : ~Wrapped(c, D, m)

FlowOf(c, D, a, b) == Flow(c.mode, FlowDir(c), D, a, b)

\* What can be spent has a beginning that can, and there is one place where it stops.
LEMMA SpendableIs ==
  ASSUME NEW c, NEW D
  PROVE  /\ Spendable(c, D, 0)
         /\ \A p \in Nat : Spendable(c, D, p + 1) <=> Spendable(c, D, p) /\ ~Wrapped(c, D, p)
         /\ \A p, q \in Nat : p <= q /\ Spendable(c, D, q) => Spendable(c, D, p)
         /\ \A p, q \in Nat :
              Spendable(c, D, p) /\ Wrapped(c, D, p) /\ Spendable(c, D, q) /\ Wrapped(c, D, q) => p = q
<1> DEFINE W(p) == Wrapped(c, D, p)
           G(p) == \A m \in 0 .. p - 1 : ~W(m)
<1>1. ASSUME NEW p  PROVE Spendable(c, D, p) <=> G(p)
  BY DEF Spendable
<1> HIDE DEF W
<1>2. G(0)
  OBVIOUS
<1>3. ASSUME NEW p \in Nat  PROVE G(p + 1) <=> G(p) /\ ~W(p)
  OBVIOUS
<1>4. ASSUME NEW p \in Nat, NEW q \in Nat, p <= q, G(q)  PROVE G(p)
  BY <1>4
<1>5. ASSUME NEW p \in Nat, NEW q \in Nat, G(p), W(p), G(q), W(q)  PROVE p = q
  <2>1. ~(p < q)
    BY <1>5
  <2>2. ~(q < p)
    BY <1>5
  <2> QED BY <2>1, <2>2
<1> HIDE DEF G
<1>6. Spendable(c, D, 0)
  BY <1>1, <1>2
<1>7. \A p \in Nat : Spendable(c, D, p + 1) <=> Spendable(c, D, p) /\ ~W(p)
  BY <1>1, <1>3
<1>8. \A p, q \in Nat : p <= q /\ Spendable(c, D, q) => Spendable(c, D, p)
  BY <1>1, <1>4
<1>9. \A p, q \in Nat : Spendable(c, D, p) /\ W(p) /\ Spendable(c, D, q) /\ W(q) => p = q
  BY <1>1, <1>5
<1> QED BY <1>6, <1>7, <1>8, <1>9 DEF W

\* A chunk is spent byte by byte, unless the counter wraps.
LEMMA UpdateFlows ==
  ASSUME NEW c, c.mode \in StreamModes, NEW D \in Seq(Octets), NEW l \in Nat, NEW m \in Nat, l <= m, m <= Len(D),
         Spendable(c, D, l)
  PROVE  LET r == UpdateStreamMode(c, FlowState(c, D, l), SubSeq(D, l + 1, m))
         IN IF Spendable(c, D, m) THEN r = Step(FlowState(c, D, m), FlowOf(c, D, l, m))
            ELSE r.ok = FALSE /\ r.out = <<>> /\ r.state.pending = <<>>
<1> DEFINE n == m - l
           chunk == SubSeq(D, l + 1, m)
           Now(was, i) == StreamByte(c, was.state, chunk[i])
           Body(was, i) == IF ~was.ok THEN was
                           ELSE IF ~Now(was, i).ok THEN Now(was, i)
                           ELSE Step(Now(was, i).state, was.out \o Now(was, i).out)
           Base == Step(FlowState(c, D, l), <<>>)
           Eq(f) == f = [i \in 0 .. Len(chunk) |-> IF i = 0 THEN Base ELSE Body(f[i - 1], i)]
           after == CHOOSE f : Eq(f)
           Stop == CHOOSE u \in Nat : Spendable(c, D, u) /\ Wrapped(c, D, u)
           Out(i) == FlowOf(c, D, l, l + i)
           St(i)  == FlowState(c, D, l + i)
           H(i) == IF Spendable(c, D, l + i) THEN Step(St(i), Out(i)) ELSE Thrown(FlowState(c, D, Stop))
           h == [i \in 0 .. n |-> H(i)]
<1>1. UpdateStreamMode(c, FlowState(c, D, l), chunk) = after[Len(chunk)]
  BY DEF UpdateStreamMode
<1>2. n \in Nat /\ Len(chunk) = n /\ l + n = m /\ \A i \in 1 .. n : chunk[i] = D[l + i] /\ l + i - 1 \in Nat /\ l + i - 1 < Len(D)
  OBVIOUS
<1> HIDE DEF chunk, n, Stop
<1>3. ASSUME NEW i \in 1 .. n  PROVE H(i) = Body(H(i - 1), i)
  <2> DEFINE x == l + i - 1
  <2>1. x \in Nat /\ x < Len(D) /\ l + (i - 1) = x /\ l + i = x + 1 /\ chunk[i] = D[x + 1] /\ l <= x /\ x + 1 <= Len(D) /\ Len(D) \in Nat
    <3>1. i \in Nat /\ i >= 1 /\ Len(D) \in Nat
      BY <1>2
    <3>2. chunk[i] = D[l + i]
      BY <1>2
    <3>3. x \in Nat /\ x < Len(D)
      BY <1>2
    <3>4. l + i = x + 1 /\ l + (i - 1) = x /\ l <= x
      BY <3>1
    <3> HIDE DEF x
    <3>5. x + 1 <= Len(D)
      BY <3>1, <3>3
    <3> QED BY <3>1, <3>2, <3>3, <3>4, <3>5
  <2> HIDE DEF x
  <2>2. Spendable(c, D, x + 1) <=> Spendable(c, D, x) /\ ~Wrapped(c, D, x)
    BY <2>1, SpendableIs
  <2>3. StreamByte(c, FlowState(c, D, x), D[x + 1])
        = IF Wrapped(c, D, x) THEN Thrown(FlowState(c, D, x)) ELSE Step(FlowState(c, D, x + 1), <<MadeByte(c, D, x + 1)>>)
    BY <2>1, StreamByteIs
  <2>4. H(i - 1) = IF Spendable(c, D, x) THEN Step(FlowState(c, D, x), FlowOf(c, D, l, x)) ELSE Thrown(FlowState(c, D, Stop))
    BY <2>1
  <2>5. H(i) = IF Spendable(c, D, x + 1) THEN Step(FlowState(c, D, x + 1), FlowOf(c, D, l, x + 1)) ELSE Thrown(FlowState(c, D, Stop))
    BY <2>1
  <2> HIDE DEF H
  <2>6. CASE Spendable(c, D, x + 1)
    <3>1. FlowOf(c, D, l, x) \o <<MadeByte(c, D, x + 1)>> = FlowOf(c, D, l, x + 1)
      <4>1. FlowOf(c, D, x, x + 1) = <<MadeByte(c, D, x + 1)>>
        <5> DEFINE y == x + 1
                   f == FlowOf(c, D, x, y)
        <5>1. x \in Nat /\ y \in Nat /\ x <= y /\ y <= Len(D) /\ y - x = 1
          BY <2>1
        <5> HIDE DEF y
        <5>2. f \in Seq(Octets) /\ Len(f) = y - x /\ \A j \in 1 .. y - x : f[j] = MadeByte(c, D, x + j)
          <6> DEFINE mode == c.mode
                     dir  == FlowDir(c)
          <6>1. mode \in StreamModes
            OBVIOUS
          <6> HIDE DEF mode, dir
          <6>2. Flow(mode, dir, D, x, y) \in Seq(Octets) /\ Len(Flow(mode, dir, D, x, y)) = y - x
            <7>1. FlowRuns(mode, dir, D, x, y)
              BY ONLY <5>1, <6>1, D \in Seq(Octets), FlowRunsOn
            <7> QED BY ONLY <7>1 DEF FlowRuns
          <6>3. \A j \in 1 .. y - x : Flow(mode, dir, D, x, y)[j] = FlowAt(mode, dir, D, x + j)
            BY DEF Flow
          <6> QED BY <6>2, <6>3 DEF FlowOf, MadeByte, mode, dir
        <5> HIDE DEF f
        <5>3. f \in Seq(Octets) /\ Len(f) = 1 /\ f[1] = MadeByte(c, D, x + 1)
          BY <5>1, <5>2
        <5>4. f = <<MadeByte(c, D, x + 1)>>
          BY <5>3
        <5> QED BY <5>4 DEF f, y
      <4>2. FlowOf(c, D, l, x) \o FlowOf(c, D, x, x + 1) = FlowOf(c, D, l, x + 1)
        <5> DEFINE y == x + 1
                   mode == c.mode
                   dir  == FlowDir(c)
        <5>1. mode \in StreamModes /\ D \in Seq(Octets) /\ l \in Nat /\ x \in Nat /\ y \in Nat
              /\ l <= x /\ x <= y /\ y <= Len(D)
          BY <2>1
        <5> HIDE DEF y, mode, dir
        <5>2. Flow(mode, dir, D, l, x) \o Flow(mode, dir, D, x, y) = Flow(mode, dir, D, l, y)
          BY ONLY <5>1, FlowJoins
        <5> QED BY ONLY <5>2 DEF FlowOf, y, mode, dir
      <4> QED BY <4>1, <4>2
    <3> DEFINE was == H(i - 1)
               now == Now(was, i)
               b   == <<MadeByte(c, D, x + 1)>>
    <3>2. was = Step(FlowState(c, D, x), FlowOf(c, D, l, x))
      BY <2>2, <2>4, <2>6
    <3> HIDE DEF b
    <3>3. was.ok = TRUE /\ was.state = FlowState(c, D, x) /\ was.out = FlowOf(c, D, l, x)
      BY <3>2 DEF Step
    <3>4. now = Step(FlowState(c, D, x + 1), b)
      BY <2>1, <2>2, <2>3, <2>6, <3>3 DEF b
    <3> HIDE DEF was, now
    <3>5. now.ok = TRUE /\ now.state = FlowState(c, D, x + 1) /\ now.out = b
      BY <3>4 DEF Step
    <3>6. Body(was, i) = Step(now.state, was.out \o now.out)
      BY <3>3, <3>5 DEF now
    <3>7. Body(was, i) = Step(FlowState(c, D, x + 1), FlowOf(c, D, l, x + 1))
      <4> HIDE DEF Body
      <4> QED BY <3>1, <3>3, <3>5, <3>6 DEF b
    <3> QED BY <2>5, <2>6, <3>7 DEF was
  <2>7. CASE Spendable(c, D, x) /\ Wrapped(c, D, x)
    <3>1. Stop = x
      <4>1. Stop \in Nat /\ Spendable(c, D, Stop) /\ Wrapped(c, D, Stop)
        BY <2>1, <2>7 DEF Stop
      <4> QED BY <2>1, <2>7, <4>1, SpendableIs
    <3> DEFINE was == H(i - 1)
               now == Now(was, i)
    <3>2. was = Step(FlowState(c, D, x), FlowOf(c, D, l, x))
      BY <2>4, <2>7
    <3>3. was.ok = TRUE /\ was.state = FlowState(c, D, x)
      BY <3>2 DEF Step
    <3>4. now = Thrown(FlowState(c, D, x))
      BY <2>1, <2>3, <2>7, <3>3
    <3> HIDE DEF was, now
    <3>5. now.ok = FALSE
      BY <3>4 DEF Thrown
    <3>6. Body(was, i) = now
      BY <3>3, <3>5 DEF now
    <3> HIDE DEF Body
    <3> QED BY <2>2, <2>5, <2>7, <3>1, <3>4, <3>6 DEF was
  <2>8. CASE ~Spendable(c, D, x)
    <3> DEFINE was == H(i - 1)
    <3>1. was = Thrown(FlowState(c, D, Stop)) /\ H(i) = was
      BY <2>2, <2>4, <2>5, <2>8
    <3> HIDE DEF was
    <3>2. was.ok = FALSE
      BY <3>1 DEF Thrown
    <3>3. Body(was, i) = was
      BY <3>2
    <3> HIDE DEF Body
    <3> QED BY <3>1, <3>3 DEF was
  <2> QED BY <2>2, <2>6, <2>7, <2>8
<1>4. H(0) = Base
  <2>1. l + 0 = l
    OBVIOUS
  <2>2. FlowOf(c, D, l, l) = <<>>
    <3>1. l - l = 0
      OBVIOUS
    <3> QED BY <3>1 DEF FlowOf, Flow
  <2> QED BY <2>1, <2>2
<1> HIDE DEF Body, Base
<1>5. h = [i \in 0 .. n |-> h[i]] /\ \A i \in 0 .. n : h[i] = H(i)
  <2> HIDE DEF H
  <2> QED OBVIOUS
<1> HIDE DEF h, H
<1>6. Eq(h)
  <2>1. \A i \in 0 .. n : h[i] = IF i = 0 THEN Base ELSE Body(h[i - 1], i)
    <3> SUFFICES ASSUME NEW i \in 0 .. n  PROVE h[i] = IF i = 0 THEN Base ELSE Body(h[i - 1], i)
      OBVIOUS
    <3>1. CASE i = 0
      BY <3>1, <1>4, <1>5
    <3>2. CASE i # 0
      <4>1. i \in 1 .. n /\ i - 1 \in 0 .. n
        BY <3>2, <1>2
      <4> QED BY <3>2, <4>1, <1>3, <1>5
    <3> QED BY <3>1, <3>2
  <2> QED BY <2>1, <1>2, <1>5
<1>7. Eq(after)
  BY <1>6
<1> HIDE DEF after
<1>8. after[0] = Base /\ \A i \in 1 .. n : after[i] = Body(after[i - 1], i)
  BY <1>2, <1>7
<1>9. h[0] = Base /\ \A i \in 1 .. n : h[i] = Body(h[i - 1], i)
  BY <1>2, <1>6
<1>10. after[n] = h[n]
  <2>1. GoAlike(after, h, n)
    BY <1>8, <1>9 DEF GoAlike
  <2>2. \A i \in 0 .. n : after[i] = h[i]
    BY <1>2, <2>1, SameRuns
  <2> QED BY <1>2, <2>2
<1>11. after[n] = H(n)
  BY <1>2, <1>5, <1>10
<1>12. H(n) = IF Spendable(c, D, m) THEN Step(FlowState(c, D, m), FlowOf(c, D, l, m)) ELSE Thrown(FlowState(c, D, Stop))
  BY <1>2 DEF H
<1>13. /\ Thrown(FlowState(c, D, Stop)).ok = FALSE /\ Thrown(FlowState(c, D, Stop)).out = <<>>
       /\ Thrown(FlowState(c, D, Stop)).state.pending = <<>>
  BY DEF Thrown, FlowState
<1> QED BY <1>1, <1>2, <1>11, <1>12, <1>13 DEF chunk

\* All of the input can be spent just if the counter does not wrap before its end.
LEMMA SpendsAll ==
  ASSUME NEW c, c.mode \in StreamModes, NEW D \in Seq(Octets)
  PROVE  Spendable(c, D, Len(D)) <=> ~Exhausts(c.mode, FlowDir(c), D)
<1> DEFINE L == Len(D)
           N == BlocksOf(D)
           S == StatesOf(c, D)
<1>1. /\ N \in Nat /\ L \in Nat /\ (N > 0 => L > 0 /\ (N - 1) * BlockSize < L)
      /\ (N - 1) * BlockSize \in Int /\ BlockSize \in Nat \ {0}
  BY BlocksOfIs, BlocksAre
<1>2. Spendable(c, D, L) <=> ~\E m \in 0 .. L - 1 : Wrapped(c, D, m)
  BY DEF Spendable
<1>3. Exhausts(c.mode, FlowDir(c), D) <=> c.mode = "ctr" /\ \E j \in 1 .. N - 1 : Wraps(S[j - 1])
  BY DEF Exhausts, StatesOf
<1>4. ASSUME NEW m \in 0 .. L - 1, Wrapped(c, D, m)  PROVE c.mode = "ctr" /\ \E j \in 1 .. N - 1 : Wraps(S[j - 1])
  <2> DEFINE b == Begun(m)
  <2>1. Reached(m) = BlockSize /\ c.mode = "ctr" /\ m > 0 /\ Wraps(S[b - 1])
    BY <1>4 DEF Wrapped, LastOfCounter
  <2>2. m \in Nat /\ m + 1 \in Nat /\ m + 1 > 0 /\ m + 1 <= L
    BY <1>1
  <2>3. b \in Nat /\ b > 0 /\ Begun(m + 1) = b + 1
    BY <2>1, <2>2, NextPlace
  <2>4. Begun(m + 1) \in 1 .. N
    BY <2>2, BlockInReach
  <2> HIDE DEF b, N
  <2>5. b \in 1 .. N - 1
    BY <1>1, <2>3, <2>4
  <2> QED BY <2>1, <2>5
<1>5. ASSUME c.mode = "ctr", NEW j \in 1 .. N - 1, Wraps(S[j - 1])  PROVE \E m \in 0 .. L - 1 : Wrapped(c, D, m)
  <2> DEFINE m == j * BlockSize
             v == (N - 1) * BlockSize
  <2>1. j \in Nat /\ j >= 1 /\ j - 1 \in Nat /\ N - 1 \in Nat /\ j <= N - 1 /\ N > 0
    <3> HIDE DEF N
    <3> QED BY <1>1
  <2>2. m = (j - 1) * BlockSize + BlockSize /\ m \in Nat /\ (j - 1) * BlockSize \in Nat
    BY <1>1, <2>1, UnitEnds
  <2>3. m > 0
    <3> DEFINE u == (j - 1) * BlockSize
    <3>1. u \in Nat /\ m = u + BlockSize
      BY <2>2
    <3> HIDE DEF u, m
    <3> QED BY <1>1, <3>1
  <2>4. BlockOf(m) = j /\ OffsetOf(m) = BlockSize
    <3>1. BlockSize \in 1 .. BlockSize
      BY <1>1
    <3>2. BlockOf((j - 1) * BlockSize + BlockSize) = (j - 1) + 1 /\ OffsetOf((j - 1) * BlockSize + BlockSize) = BlockSize
      BY <2>1, <3>1, PositionIs
    <3> QED BY <2>1, <2>2, <3>2
  <2>5. m <= v
    <3>1. CASE j = N - 1
      <4>1. m = v
        BY <3>1
      <4>2. m \in Nat
        BY <2>2
      <4> HIDE DEF m, v
      <4> QED BY <4>1, <4>2
    <3>2. CASE j # N - 1
      <4>1. j < N - 1
        <5> HIDE DEF N
        <5> QED BY <2>1, <3>2
      <4>2. j * BlockSize + BlockSize <= (N - 1) * BlockSize
        <5> HIDE DEF N
        <5> QED BY <1>1, <2>1, <4>1, ProductsGrow
      <4>3. m + BlockSize <= v
        BY <4>2
      <4>4. m \in Nat /\ BlockSize \in Nat /\ v \in Int
        BY <1>1, <2>2
      <4> HIDE DEF m, v
      <4> QED BY <4>3, <4>4
    <3> QED BY <3>1, <3>2
  <2>6. m \in 0 .. L - 1
    <3>1. v < L /\ v \in Int
      BY <1>1, <2>1
    <3> HIDE DEF m, v, L
    <3> QED BY <1>1, <2>2, <2>5, <3>1
  <2>7. Begun(m) = j /\ Reached(m) = BlockSize
    <3> HIDE DEF m
    <3> QED BY <2>3, <2>4 DEF Begun, Reached
  <2> HIDE DEF m
  <2>8. Wrapped(c, D, m)
    BY <1>5, <2>3, <2>7 DEF Wrapped, LastOfCounter
  <2> QED BY <2>6, <2>8
<1> HIDE DEF L, N, S
<1>6. (\E m \in 0 .. L - 1 : Wrapped(c, D, m)) <=> (c.mode = "ctr" /\ \E j \in 1 .. N - 1 : Wraps(S[j - 1]))
  BY <1>4, <1>5
<1> QED BY <1>2, <1>3, <1>6 DEF L

\* The engine of a stream mode starts with nothing spent.
LEMMA FlowStarts ==
  ASSUME NEW c, c.mode \in StreamModes, NEW D \in Seq(Octets)
  PROVE  BlockStart = FlowState(c, D, 0) /\ FlowOf(c, D, 0, 0) = <<>> /\ Spendable(c, D, 0)
<1>1. StatesOf(c, D)[0] = Iv
  BY KeyStatesAre DEF StatesOf
<1>2. Begun(0) = 0 /\ Reached(0) = BlockSize /\ (LastOfCounter(c, D, 0) = FALSE)
  BY DEF Begun, Reached, LastOfCounter
<1>3. FlowChain(c, D, 0) = Iv
  BY <1>1, <1>2 DEF FlowChain
<1>4. FlowOf(c, D, 0, 0) = <<>>
  BY DEF FlowOf, Flow
<1> QED BY <1>2, <1>3, <1>4, SpendableIs DEF FlowState, BlockStart

\* The function a typed input goes through.
LEMMA StreamAnswer ==
  ASSUME NEW c, c.mode \in StreamModes, c.direction \in Directions, NEW D \in Seq(Octets)
  PROVE  /\ BlockOneShot(c, D) = IF Spendable(c, D, Len(D)) THEN Good(FlowOf(c, D, 0, Len(D))) ELSE Refused
         /\ \A s : BlockFinish(c, s) = Good(<<>>)
<1>1. c.mode \notin PaddedModes
  BY DEF StreamModes, PaddedModes
<1>2. BlockOneShot(c, D) = StreamOneShot(c.mode, FlowDir(c), D)
  <2>1. CASE c.direction = "encrypt"
    BY <2>1 DEF BlockOneShot, EncryptBlockMode, FlowDir
  <2>2. CASE c.direction # "encrypt"
    <3>1. c.direction = "decrypt"
      BY <2>2 DEF Directions
    <3>2. BlockOneShot(c, D) = DecryptBlockMode(c.mode, c.padding, D)
      BY <2>2 DEF BlockOneShot
    <3>3. CASE c.mode = "cfb"
      BY <1>1, <3>1, <3>2, <3>3 DEF DecryptBlockMode, FlowDir
    <3>4. CASE c.mode # "cfb"
      <4> DEFINE x == IF Len(D) = 0 \/ ~Whole(D) THEN Refused ELSE UnpadBlocks(DecryptAligned(c.mode, D), c.padding)
                 y == StreamOneShot(c.mode, "decrypt", D)
                 z == EncryptBlockMode(c.mode, c.padding, D)
                 m == c.mode \in PaddedModes
                 f == c.mode = "cfb"
      <4>1. DecryptBlockMode(c.mode, c.padding, D) = CASE m -> x [] f -> y [] OTHER -> z
        BY DEF DecryptBlockMode
      <4>2. ~m /\ ~f
        BY <1>1, <3>4
      <4>3. z = StreamOneShot(c.mode, FlowDir(c), D)
        BY <3>4 DEF EncryptBlockMode, FlowDir
      <4> HIDE DEF x, y, z, m, f
      <4>4. (CASE m -> x [] f -> y [] OTHER -> z) = z
        BY ONLY <4>2
      <4> QED BY <3>2, <4>1, <4>3, <4>4
    <3> QED BY <3>3, <3>4
  <2> QED BY <2>1, <2>2
<1>3. StreamOneShot(c.mode, FlowDir(c), D)
      = IF Exhausts(c.mode, FlowDir(c), D) THEN Refused ELSE Good(Flow(c.mode, FlowDir(c), D, 0, Len(D)))
  BY OneShotFlows
<1>4. Spendable(c, D, Len(D)) <=> ~Exhausts(c.mode, FlowDir(c), D)
  BY SpendsAll
<1>5. ASSUME NEW s  PROVE BlockFinish(c, s) = Good(<<>>)
  <2> DEFINE p == PadBlocks(s.pending, c.padding)
             n == c.mode \in StreamModes
             e == c.mode \in PaddedModes /\ c.direction = "encrypt"
             x == IF p.ok THEN Good(ProcessAligned(c, s.chain, p.out).out) ELSE Refused
             y == Good(<<>>)
             z == IF c.padding = "none" /\ Len(s.pending) = 0
                  THEN IF s.length = 0 THEN Refused ELSE Good(<<>>)
                  ELSE IF Len(s.pending) = 0 \/ ~Whole(s.pending) THEN Refused
                       ELSE UnpadBlocks(ProcessAligned(c, s.chain, s.pending).out, c.padding)
  <2>1. BlockFinish(c, s) = CASE n -> y [] e -> x [] OTHER -> z
    BY DEF BlockFinish
  <2>2. n /\ ~e
    BY <1>1
  <2> HIDE DEF x, y, z, e, n
  <2>3. (CASE n -> y [] e -> x [] OTHER -> z) = y
    BY ONLY <2>2
  <2> QED BY <2>1, <2>3 DEF y
<1> QED BY <1>2, <1>3, <1>4, <1>5 DEF FlowOf

\* What a stream mode encrypted comes back.
LEMMA FlowComesBack ==
  ASSUME NEW mode \in StreamModes, NEW padding, NEW D \in Seq(Octets), ~Exhausts(mode, "encrypt", D)
  PROVE  DecryptBlockMode(mode, padding, Flow(mode, "encrypt", D, 0, Len(D))) = Good(D)
<1> DEFINE L == Len(D)
           N == BlocksOf(D)
           C == Flow(mode, "encrypt", D, 0, L)
           back == IF mode = "cfb" THEN "decrypt" ELSE "encrypt"
           K == KeyStates(mode, "encrypt", D)
           M == KeyStates(mode, back, C)
<1>1. L \in Nat /\ N \in Nat
  BY BlocksOfIs
<1>2. C \in Seq(Octets) /\ Len(C) = L /\ \A j \in 1 .. L : C[j] = FlowAt(mode, "encrypt", D, j)
  <2> DEFINE o == 0
  <2>1. o \in Nat /\ o <= L /\ L <= L /\ L - o = L /\ \A j \in 1 .. L : o + j = j
    BY <1>1
  <2> HIDE DEF o, L
  <2>2. L <= Len(D)
    BY <1>1 DEF L
  <2>3. Flow(mode, "encrypt", D, o, L) \in Seq(Octets) /\ Len(Flow(mode, "encrypt", D, o, L)) = L - o
    <3>1. FlowRuns(mode, "encrypt", D, o, L)
      BY ONLY mode \in StreamModes, D \in Seq(Octets), <1>1, <2>1, <2>2, FlowRunsOn
    <3> QED BY ONLY <3>1 DEF FlowRuns
  <2>4. \A j \in 1 .. L - o : Flow(mode, "encrypt", D, o, L)[j] = FlowAt(mode, "encrypt", D, o + j)
    BY DEF Flow
  <2> QED BY <2>1, <2>3, <2>4 DEF o
<1>3. BlocksOf(C) = N
  BY <1>2 DEF BlocksOf
<1>4. /\ K \in [0 .. N -> OneBlock] /\ K[0] = Iv
      /\ \A i \in 1 .. N : K[i] = StateAfter(mode, "encrypt", D, K[i - 1], i)
  BY KeyStatesAre
<1>5. /\ M[0] = Iv
      /\ \A i \in 1 .. N : M[i] = StateAfter(mode, back, C, M[i - 1], i)
  <2> HIDE DEF C, back
  <2> QED BY <1>2, <1>3, KeyStatesAre
<1> HIDE DEF C, K, M, N
<1>6. ASSUME NEW i \in 1 .. N  PROVE StateAfter(mode, back, C, K[i - 1], i) = K[i]
  <2> DEFINE b == K[i - 1]
             w == (i - 1) * BlockSize
  <2>1. CASE mode = "ofb" \/ mode = "ctr"
    BY <2>1, <1>4 DEF StateAfter
  <2>2. CASE mode = "cfb"
    <3>1. K[i] = [j \in 1 .. BlockSize |-> IF w + j > L THEN b[j] ELSE Xor(D[w + j], EncryptBlock(b)[j])]
      BY <1>4, <2>2 DEF StateAfter
    <3>2. StateAfter(mode, back, C, b, i) = [j \in 1 .. BlockSize |-> IF w + j > L THEN b[j] ELSE C[w + j]]
      BY <1>2, <2>2 DEF StateAfter
    <3>3. ASSUME NEW j \in 1 .. BlockSize, ~(w + j > L)  PROVE C[w + j] = Xor(D[w + j], EncryptBlock(b)[j])
      <4>1. i - 1 \in Nat /\ i - 1 + 1 = i
        BY <1>1
      <4>2. BlockOf(w + j) = i /\ OffsetOf(w + j) = j
        <5>1. BlockOf((i - 1) * BlockSize + j) = (i - 1) + 1 /\ OffsetOf((i - 1) * BlockSize + j) = j
          BY <4>1, PositionIs
        <5> QED BY <4>1, <5>1
      <4>3. w + j \in 1 .. L
        <5>1. w \in Nat
          BY <4>1, BlocksAre, Products
        <5> HIDE DEF w, L
        <5> QED BY <1>1, <3>3, <5>1
      <4>4. C[w + j] = FlowAt(mode, "encrypt", D, w + j)
        BY <1>2, <4>3
      <4> HIDE DEF w
      <4> QED BY <4>2, <4>4 DEF FlowAt, KeyBlock, K
    <3> HIDE DEF b, w, L
    <3>4. StateAfter(mode, back, C, b, i) = K[i]
      BY <3>1, <3>2, <3>3
    <3> QED BY <3>4 DEF b
  <2> QED BY <2>1, <2>2 DEF StreamModes
<1>7. \A i \in 0 .. N : M[i] = K[i]
  <2>1. GoAlike(M, K, N)
    BY <1>4, <1>5, <1>6 DEF GoAlike
  <2> QED BY <1>1, <2>1, SameRuns
<1>8. ~Exhausts(mode, back, C)
  <2>1. \A j \in 1 .. N - 1 : j - 1 \in 0 .. N
    BY <1>1
  <2>2. mode = "ctr" => ~\E j \in 1 .. N - 1 : Wraps(K[j - 1])
    BY DEF Exhausts, K, N
  <2>3. mode = "ctr" => ~\E j \in 1 .. N - 1 : Wraps(M[j - 1])
    BY <1>7, <2>1, <2>2
  <2> QED BY <1>3, <2>3 DEF Exhausts, M
<1>9. StreamOneShot(mode, back, C) = Good(Flow(mode, back, C, 0, L))
  <2>1. StreamOneShot(mode, back, C) = IF Exhausts(mode, back, C) THEN Refused ELSE Good(Flow(mode, back, C, 0, Len(C)))
    BY <1>2, OneShotFlows
  <2> QED BY <1>2, <1>8, <2>1
<1>10. ASSUME NEW at \in 1 .. L  PROVE FlowAt(mode, back, C, at) = D[at]
  <2> DEFINE i == BlockOf(at)
             j == OffsetOf(at)
             k == EncryptBlock(K[i - 1])
  <2>1. i \in 1 .. N /\ j \in 1 .. BlockSize
    <3>1. i \in 1 .. N
      BY BlocksOfIs DEF N
    <3>2. at \in Nat /\ at > 0
      BY <1>1
    <3> QED BY <3>1, <3>2, PositionOf
  <2>2. i - 1 \in 0 .. N
    <3> HIDE DEF i
    <3> QED BY <1>1, <2>1
  <2>3. M[i - 1] = K[i - 1] /\ K[i - 1] \in OneBlock
    BY <1>4, <1>7, <2>2
  <2>4. k[j] \in Octets /\ D[at] \in Octets
    <3>1. k \in OneBlock
      BY <2>3, BlocksAre
    <3>2. D[at] \in Octets
      BY <1>1
    <3> HIDE DEF k, j
    <3>3. k[j] \in Octets
      BY <2>1, <3>1 DEF OneBlock
    <3> QED BY <3>2, <3>3
  <2>5. C[at] = Xor(D[at], k[j])
    <3>1. C[at] = FlowAt(mode, "encrypt", D, at)
      BY <1>2
    <3> QED BY <3>1 DEF FlowAt, KeyBlock, K
  <2>6. FlowAt(mode, back, C, at) = Xor(C[at], k[j])
    BY <2>3 DEF FlowAt, KeyBlock, M
  <2> HIDE DEF k, i, j
  <2> QED BY <2>4, <2>5, <2>6, BlocksAre
<1>11. Flow(mode, back, C, 0, L) = D
  <2>1. L - 0 = L /\ \A j \in 1 .. L : 0 + j = j
    BY <1>1
  <2>2. Flow(mode, back, C, 0, L) = [j \in 1 .. L |-> D[j]]
    <3>1. Flow(mode, back, C, 0, L) = [j \in 1 .. L - 0 |-> FlowAt(mode, back, C, 0 + j)]
      BY DEF Flow
    <3> HIDE DEF L, back
    <3> QED BY <2>1, <3>1, <1>10
  <2>3. [j \in 1 .. L |-> D[j]] = D
    OBVIOUS
  <2> QED BY <2>2, <2>3
<1>12. DecryptBlockMode(mode, padding, C) = StreamOneShot(mode, back, C)
  <2>1. mode \notin PaddedModes
    BY DEF PaddedModes, StreamModes
  <2> DEFINE x == IF Len(C) = 0 \/ ~Whole(C) THEN Refused ELSE UnpadBlocks(DecryptAligned(mode, C), padding)
             y == StreamOneShot(mode, "decrypt", C)
             z == EncryptBlockMode(mode, padding, C)
             m == mode \in PaddedModes
             f == mode = "cfb"
  <2>2. DecryptBlockMode(mode, padding, C) = CASE m -> x [] f -> y [] OTHER -> z
    BY DEF DecryptBlockMode
  <2>3. z = StreamOneShot(mode, "encrypt", C)
    BY DEF EncryptBlockMode
  <2>4. ~m
    BY <2>1
  <2>5. StreamOneShot(mode, back, C) = IF f THEN y ELSE z
    BY <2>3
  <2> HIDE DEF x, y, z, m, f
  <2>6. (CASE m -> x [] f -> y [] OTHER -> z) = IF f THEN y ELSE z
    BY ONLY <2>4
  <2> QED BY <2>2, <2>5, <2>6
<1> QED BY <1>9, <1>11, <1>12 DEF C, L

-----------------------------------------------------------------------------
(* Both kinds of mode in one form. *)

\* What a mode can be asked to stream.
Streaming(c) ==
  /\ c.mode \in PaddedModes \cup StreamModes /\ c.direction \in Directions /\ c.padding \in Paddings
  /\ c.mode \in PaddedModes /\ c.direction = "encrypt" => c.padding # "iso10126"

\* The first m bytes are taken, what is kept then, and what is out.
Passable(c, d, m)   == c.mode \in StreamModes => Spendable(c, d, m)
BlockState(c, d, m) == IF c.mode \in StreamModes THEN FlowState(c, d, m) ELSE PaddedState(c, d, m)
BlockOut(c, d, m)   == IF c.mode \in StreamModes THEN FlowOf(c, d, 0, m) ELSE PaddedOut(c, d, m)

\* A mode is of one kind.
LEMMA KindOf ==
  ASSUME NEW c, Streaming(c)
  PROVE  /\ c.direction \in Directions /\ c.padding \in Paddings
         /\ \/ c.mode \in StreamModes /\ c.mode \notin PaddedModes
            \/ c.mode \in PaddedModes /\ c.mode \notin StreamModes /\ Padding(c)
BY DEF Streaming, Padding, PaddedModes, StreamModes

\* Nothing read.
LEMMA BlockBegins ==
  ASSUME NEW c, Streaming(c), NEW d \in Seq(Octets)
  PROVE  Passable(c, d, 0) /\ BlockStart = BlockState(c, d, 0) /\ BlockOut(c, d, 0) = <<>>
<1>1. CASE c.mode \in StreamModes
  BY <1>1, FlowStarts DEF Passable, BlockState, BlockOut
<1>2. CASE c.mode \notin StreamModes
  BY <1>2, KindOf, PaddedStarts DEF Passable, BlockState, BlockOut
<1> QED BY <1>1, <1>2

\* A chunk more, of any length.
LEMMA BlockGoesOn ==
  ASSUME NEW c, Streaming(c), NEW d \in Seq(Octets), NEW l \in Nat, NEW m \in Nat, l <= m, m <= Len(d), Passable(c, d, l)
  PROVE  LET r == BlockUpdate(c, BlockState(c, d, l), SubSeq(d, l + 1, m))
         IN /\ Passable(c, d, m) => /\ r.ok = TRUE /\ r.state = BlockState(c, d, m)
                                    /\ BlockOut(c, d, l) \o r.out = BlockOut(c, d, m)
            /\ ~Passable(c, d, m) => r.ok = FALSE /\ r.out = <<>> /\ r.state.pending = <<>>
<1> DEFINE x == SubSeq(d, l + 1, m)
           r == BlockUpdate(c, BlockState(c, d, l), x)
<1>1. CASE c.mode \in StreamModes
  <2>1. r = UpdateStreamMode(c, FlowState(c, d, l), x)
    BY <1>1 DEF BlockUpdate, BlockState
  <2>2. Spendable(c, d, l) /\ (Passable(c, d, m) <=> Spendable(c, d, m)) /\ BlockState(c, d, m) = FlowState(c, d, m)
        /\ BlockOut(c, d, l) = FlowOf(c, d, 0, l) /\ BlockOut(c, d, m) = FlowOf(c, d, 0, m)
    BY <1>1 DEF Passable, BlockState, BlockOut
  <2> DEFINE u == UpdateStreamMode(c, FlowState(c, d, l), x)
  <2>5. IF Spendable(c, d, m) THEN u = Step(FlowState(c, d, m), FlowOf(c, d, l, m))
        ELSE u.ok = FALSE /\ u.out = <<>> /\ u.state.pending = <<>>
    <3> HIDE DEF u, x
    <3>1. LET v == UpdateStreamMode(c, FlowState(c, d, l), SubSeq(d, l + 1, m))
          IN IF Spendable(c, d, m) THEN v = Step(FlowState(c, d, m), FlowOf(c, d, l, m))
             ELSE v.ok = FALSE /\ v.out = <<>> /\ v.state.pending = <<>>
      BY <1>1, <2>2, UpdateFlows
    <3> QED BY <3>1 DEF u, x
  <2>3. IF Spendable(c, d, m) THEN r = Step(FlowState(c, d, m), FlowOf(c, d, l, m))
        ELSE r.ok = FALSE /\ r.out = <<>> /\ r.state.pending = <<>>
    <3>1. r = u
      BY <2>1
    <3> HIDE DEF r, u
    <3> QED BY <2>5, <3>1
  <2> HIDE DEF u
  <2> HIDE DEF r
  <2>4. FlowOf(c, d, 0, l) \o FlowOf(c, d, l, m) = FlowOf(c, d, 0, m)
    <3>1. 0 \in Nat /\ 0 <= l
      OBVIOUS
    <3> QED BY <1>1, <3>1, FlowJoins DEF FlowOf
  <2> QED BY <2>2, <2>3, <2>4 DEF Step, r
<1>2. CASE c.mode \notin StreamModes
  <2>1. Padding(c) /\ Passable(c, d, m) /\ BlockState(c, d, l) = PaddedState(c, d, l) /\ BlockState(c, d, m) = PaddedState(c, d, m)
        /\ BlockOut(c, d, l) = PaddedOut(c, d, l) /\ BlockOut(c, d, m) = PaddedOut(c, d, m)
    BY <1>2, KindOf DEF Passable, BlockState, BlockOut
  <2>2. r.ok = TRUE
    BY <1>2, KindOf DEF BlockUpdate, Step
  <2> HIDE DEF r
  <2>3. r.state = PaddedState(c, d, m) /\ PaddedOut(c, d, l) \o r.out = PaddedOut(c, d, m)
    BY <2>1, PaddedGoesOn DEF r
  <2> QED BY <2>1, <2>2, <2>3 DEF r
<1> QED BY <1>1, <1>2

\* Less than two blocks are held back.
LEMMA BlockHolds ==
  ASSUME NEW c, Streaming(c), NEW d \in Seq(Octets), NEW m \in Nat, m <= Len(d)
  PROVE  Len(BlockState(c, d, m).pending) < 2 * BlockSize
<1>0. BlockSize \in Nat /\ BlockSize > 0
  BY BlocksAre
<1>1. CASE c.mode \in StreamModes
  <2>1. BlockState(c, d, m).pending = <<>>
    BY <1>1 DEF BlockState, FlowState
  <2> QED BY <1>0, <2>1
<1>2. CASE c.mode \notin StreamModes
  <2> DEFINE q == Ready(c, m) * BlockSize
             p == SubSeq(d, q + 1, m)
  <2>1. BlockState(c, d, m).pending = p
    BY <1>2 DEF BlockState, PaddedState
  <2>2. q \in Nat /\ q <= m /\ m < q + 2 * BlockSize
    BY ReadyIs
  <2> HIDE DEF q
  <2>3. Len(p) = m - q
    BY <2>2
  <2> QED BY <1>0, <2>1, <2>2, <2>3
<1> QED BY <1>1, <1>2

\* What is out is the beginning of what is out in the end.
LEMMA BlockOutIs ==
  ASSUME NEW c, Streaming(c), NEW d \in Seq(Octets), NEW m \in Nat, m <= Len(d)
  PROVE  BlockOut(c, d, m) \in Seq(Octets) /\ \E o \in Seq(Octets) : BlockOut(c, d, m) \o o = BlockOut(c, d, Len(d))
<1>0. Len(d) \in Nat /\ 0 \in Nat /\ 0 <= m
  OBVIOUS
<1>1. CASE c.mode \in StreamModes
  <2> DEFINE n == Len(d)
  <2>2. n \in Nat /\ m <= n /\ n <= Len(d)
    BY <1>0
  <2> HIDE DEF n
  <2>1. FlowOf(c, d, 0, m) \o FlowOf(c, d, m, n) = FlowOf(c, d, 0, n)
    BY <1>0, <1>1, <2>2, FlowJoins DEF FlowOf
  <2>3. FlowOf(c, d, 0, m) \in Seq(Octets) /\ FlowOf(c, d, m, n) \in Seq(Octets)
    BY <1>0, <1>1, <2>2, FlowIs DEF FlowOf
  <2> QED BY <1>1, <2>1, <2>3 DEF BlockOut, n
<1>2. CASE c.mode \notin StreamModes
  <2> DEFINE P == Processed(c, d)
             b == Ready(c, m) * BlockSize
             e == Ready(c, Len(d)) * BlockSize
             N == (Len(P) \div BlockSize) * BlockSize
  <2>1. Padding(c) /\ c.mode \in PaddedModes
    BY <1>2, KindOf
  <2>2. P \in Seq(Octets)
    BY <2>1, ProcessedIs
  <2>3. b \in Nat /\ e \in Nat
    BY <1>0, ReadyIs
  <2>4. e <= N
    BY <1>0, <2>1, ReadyFits
  <2>5. b <= e
    <3>1. Ready(c, m) \in Nat /\ Ready(c, Len(d)) \in Nat /\ BlockSize \in Nat
      BY <1>0, ReadyIs, BlocksAre
    <3>2. Ready(c, m) <= Ready(c, Len(d))
      BY <1>0, ReadyIs
    <3> DEFINE x == Ready(c, m)
               y == Ready(c, Len(d))
    <3> HIDE DEF x, y
    <3>3. CASE x = y
      BY <2>3, <3>3 DEF x, y
    <3>4. CASE x < y
      <4>1. x \in Nat /\ y \in Nat /\ BlockSize \in Nat
        BY <3>1 DEF x, y
      <4>2. x * BlockSize + BlockSize <= y * BlockSize
        BY <3>4, <4>1, ProductsGrow
      <4>3. x * BlockSize \in Nat /\ y * BlockSize \in Nat
        BY <4>1, Products
      <4> QED BY <4>1, <4>2, <4>3 DEF x, y
    <3> QED BY <3>1, <3>2, <3>3, <3>4 DEF x, y
  <2>6. BlockOut(c, d, m) = MadeFrom(c, P, 0, b) /\ BlockOut(c, d, Len(d)) = MadeFrom(c, P, 0, e)
    BY <1>2 DEF BlockOut, PaddedOut
  <2> HIDE DEF P, b, e
  <2>7. 0 <= b /\ b <= N
    BY <2>3, <2>4, <2>5, Products, BlocksAre
  <2>8. MadeFrom(c, P, 0, b) \in Seq(Octets)
    BY <1>0, <2>1, <2>2, <2>3, <2>7, MadeFromIs
  <2>9. MadeFrom(c, P, b, e) \in Seq(Octets)
    BY <2>1, <2>2, <2>3, <2>4, <2>5, MadeFromIs
  <2>10. MadeFrom(c, P, 0, b) \o MadeFrom(c, P, b, e) = MadeFrom(c, P, 0, e)
    BY <1>0, <2>1, <2>2, <2>3, <2>4, <2>5, <2>7, MadeFromJoins
  <2> QED BY <2>6, <2>8, <2>9, <2>10
<1> QED BY <1>1, <1>2

\* The end of the input, and the function a typed input goes through.
LEMMA BlockCloses ==
  ASSUME NEW c, Streaming(c), NEW d \in Seq(Octets)
  PROVE  LET r == BlockFinish(c, BlockState(c, d, Len(d)))
             a == BlockOneShot(c, d)
             y == Passable(c, d, Len(d))
             o == BlockOut(c, d, Len(d))
         IN /\ r.ok \in BOOLEAN /\ (r.ok => r.out \in Seq(Octets)) /\ (~r.ok => r.out = <<>>)
            /\ a.ok \in BOOLEAN /\ (a.ok <=> y /\ r.ok)
            /\ a.ok => a.out = o \o r.out
<1> DEFINE n == Len(d)
           r == BlockFinish(c, BlockState(c, d, n))
           a == BlockOneShot(c, d)
           y == Passable(c, d, n)
           o == BlockOut(c, d, n)
<1>1. CASE c.mode \in StreamModes
  <2>1. a = (IF Spendable(c, d, n) THEN Good(FlowOf(c, d, 0, n)) ELSE Refused) /\ r = Good(<<>>)
    <3>1. c.direction \in Directions
      BY DEF Streaming
    <3> QED BY <1>1, <3>1, StreamAnswer
  <2>2. (Passable(c, d, n) <=> Spendable(c, d, n)) /\ BlockOut(c, d, n) = FlowOf(c, d, 0, n)
    BY <1>1 DEF Passable, BlockOut
  <2>3. BlockOut(c, d, n) \in Seq(Octets)
    BY BlockOutIs
  <2> HIDE DEF r, a
  <2>4. r.ok = TRUE /\ r.out = <<>>
    BY <2>1 DEF Good
  <2>5. CASE Spendable(c, d, n)
    <3>1. a.ok = TRUE /\ a.out = FlowOf(c, d, 0, n)
      BY <2>1, <2>5 DEF Good
    <3>2. o \o <<>> = o
      <4> HIDE DEF o
      <4>1. o \in Seq(Octets)
        BY <2>3 DEF o
      <4> QED BY <4>1
    <3>3. y /\ a.out = o
      BY <2>2, <2>5, <3>1
    <3> HIDE DEF y, o
    <3>4. r.out \in Seq(Octets)
      BY <2>4
    <3> QED BY <2>4, <3>1, <3>2, <3>3, <3>4 DEF r, a, y, o, n
  <2>6. CASE ~Spendable(c, d, n)
    <3>1. a.ok = FALSE
      BY <2>1, <2>6 DEF Refused
    <3>2. ~y
      BY <2>2, <2>6
    <3> HIDE DEF y, o
    <3>4. r.out \in Seq(Octets)
      BY <2>4
    <3> QED BY <2>4, <3>1, <3>2, <3>4 DEF r, a, y, o, n
  <2> QED BY <2>5, <2>6
<1>2. CASE c.mode \notin StreamModes
  <2>1. Padding(c) /\ c.mode \in PaddedModes /\ (c.direction = "encrypt" \/ c.direction = "decrypt")
    BY <1>2, KindOf DEF Directions
  <2>2. (Passable(c, d, n) <=> TRUE) /\ r = BlockFinish(c, PaddedState(c, d, n)) /\ BlockOut(c, d, n) = PaddedOut(c, d, n)
    BY <1>2 DEF Passable, BlockState, BlockOut
  <2> HIDE DEF r, a
  <2>3. /\ r.ok \in BOOLEAN /\ a.ok = r.ok
        /\ IF r.ok THEN a.out = PaddedOut(c, d, n) \o r.out /\ r.out \in Seq(Octets) ELSE r.out = <<>>
    <3>1. CASE c.direction = "encrypt"
      BY <2>1, <2>2, <3>1, PaddedSeals DEF a
    <3>2. CASE c.direction = "decrypt" /\ c.padding = "none"
      BY <2>1, <2>2, <3>2, BareOpens DEF a
    <3>3. CASE c.direction = "decrypt" /\ c.padding # "none"
      BY <2>1, <2>2, <3>3, HeldOpens DEF a
    <3> QED BY <2>1, <3>1, <3>2, <3>3
  <2> QED BY <2>2, <2>3 DEF r, a
<1> QED BY <1>1, <1>2

\* A decryption ends well just if what was decrypted is some message padded.
LEMMA BlockChecks ==
  ASSUME NEW c, Streaming(c), c.mode \in PaddedModes, c.direction = "decrypt", c.padding \in Marking,
         NEW d \in Seq(Octets), Whole(d)
  PROVE  LET a == BlockOneShot(c, d)
             p == DecryptAligned(c.mode, d)
         IN /\ a.ok <=> PaddedFrom(p, c.padding) # {}
            /\ a.ok => Len(a.out) \in PaddedFrom(p, c.padding) /\ a.out = Take(p, Len(a.out))
<1> DEFINE a == BlockOneShot(c, d)
           p == DecryptAligned(c.mode, d)
           s == c.padding
           L == Len(d)
<1>0. Padding(c) /\ c.direction # "encrypt" /\ L \in Nat /\ s \in Marking
  BY KindOf
<1>1. a = IF L = 0 \/ ~Whole(d) THEN Refused ELSE UnpadBlocks(p, s)
  BY <1>0, DecryptingIs
<1>2. p \in Seq(Octets) /\ Len(p) = L
  <2> DEFINE b == 0
  <2>1. p = MadeFrom(c, d, b, L)
    BY <1>0, AlignedIs DEF AlignedText
  <2>2. L = (L \div BlockSize) * BlockSize
    BY WholeBlocks
  <2>3. b \in Nat /\ b <= L /\ L <= (Len(d) \div BlockSize) * BlockSize /\ L - b = L
    <3>1. L \in Nat
      OBVIOUS
    <3> HIDE DEF L
    <3> QED BY <3>1, <2>2 DEF L
  <2> HIDE DEF b, p, L
  <2>4. MadeFrom(c, d, b, L) \in Seq(Octets) /\ Len(MadeFrom(c, d, b, L)) = L - b
    BY <1>0, <2>3, MadeFromIs
  <2> QED BY <2>1, <2>3, <2>4
<1> HIDE DEF a, p, s, L
<1>3. CASE L = 0
  <2>1. a.ok = FALSE
    BY <1>1, <1>3 DEF Refused
  <2>2. PaddedFrom(p, s) = {}
    BY <1>2, <1>3 DEF PaddedFrom
  <2> QED BY <2>1, <2>2 DEF a, p, s
<1>4. CASE L # 0
  <2>1. a = UnpadBlocks(p, s)
    BY <1>1, <1>4
  <2>2. p # <<>> /\ Whole(p)
    BY <1>2, <1>4 DEF Whole, L
  <2>3. LET u == UnpadBlocks(p, s)
        IN /\ u.ok <=> PaddedFrom(p, s) # {}
           /\ u.ok => Len(u.out) \in PaddedFrom(p, s) /\ u.out = Take(p, Len(u.out))
    BY <1>0, <1>2, <2>2, CheckedIs
  <2> QED BY <2>1, <2>3 DEF a, p, s
<1> QED BY <1>3, <1>4

\* What a mode encrypted comes back, but for zeros under zero padding.
LEMMA BlockComesBack ==
  ASSUME NEW c, Streaming(c), c.direction = "encrypt", NEW d \in Seq(Octets),
         BlockOneShot(c, d).ok, ~(BlockOneShot(c, d).out = <<>> /\ c.mode \in PaddedModes)
  PROVE  LET back == DecryptBlockMode(c.mode, c.padding, BlockOneShot(c, d).out)
         IN /\ back.ok
            /\ ~(c.mode \in PaddedModes /\ c.padding = "zero") => back.out = d
            /\ c.mode \in PaddedModes /\ c.padding = "zero" =>
                 \E l \in 0 .. Len(d) : back.out = SubSeq(d, 1, l) /\ \A i \in l + 1 .. Len(d) : d[i] = 0
<1> DEFINE a == BlockOneShot(c, d)
           o == a.out
           back == DecryptBlockMode(c.mode, c.padding, o)
           s == c.padding
<1>1. CASE c.mode \in StreamModes
  <2>1. c.mode \notin PaddedModes /\ FlowDir(c) = "encrypt"
    BY <1>1 DEF PaddedModes, StreamModes, FlowDir
  <2>2. a = IF Spendable(c, d, Len(d)) THEN Good(FlowOf(c, d, 0, Len(d))) ELSE Refused
    <3>1. c.direction \in Directions
      BY DEF Streaming
    <3> QED BY <1>1, <3>1, StreamAnswer
  <2> HIDE DEF a
  <2>3. Spendable(c, d, Len(d)) /\ o = Flow(c.mode, "encrypt", d, 0, Len(d))
    <3>1. Refused.ok = FALSE /\ Good(FlowOf(c, d, 0, Len(d))).out = FlowOf(c, d, 0, Len(d))
      BY DEF Refused, Good
    <3>2. a.ok
      BY DEF a
    <3> QED BY <2>1, <2>2, <3>1, <3>2 DEF FlowOf
  <2>4. ~Exhausts(c.mode, "encrypt", d)
    BY <1>1, <2>1, <2>3, SpendsAll
  <2>5. back = Good(d)
    <3> HIDE DEF o
    <3> QED BY <1>1, <2>3, <2>4, FlowComesBack
  <2> HIDE DEF back
  <2>6. back.ok /\ back.out = d
    BY <2>5 DEF Good
  <2> QED BY <2>1, <2>6 DEF back, a
<1>2. CASE c.mode \notin StreamModes
  <2> DEFINE z == PadBlocks(d, s)
             p == z.out
  <2>0. /\ c.mode \in PaddedModes /\ c.mode \notin StreamModes /\ s \in Fillers /\ s \in Paddings
        /\ s \in Marking \/ s = "zero" \/ s = "none"
    BY <1>2 DEF Streaming, Fillers, Paddings, Marking
  <2>1. a = IF z.ok THEN Good(EncryptAligned(c.mode, p)) ELSE Refused
    BY <2>0 DEF BlockOneShot, EncryptBlockMode
  <2> HIDE DEF a
  <2>2. z.ok /\ o = EncryptAligned(c.mode, p)
    <3> HIDE DEF z, p
    <3>1. Refused.ok = FALSE /\ Good(EncryptAligned(c.mode, p)).out = EncryptAligned(c.mode, p)
      BY DEF Refused, Good
    <3>2. a.ok
      BY DEF a
    <3> QED BY <2>1, <3>1, <3>2
  <2>3. s = "none" => Whole(d) /\ p = d
    <3> SUFFICES ASSUME s = "none"  PROVE Whole(d) /\ p = d
      OBVIOUS
    <3>1. z = IF Whole(d) THEN Good(d) ELSE Refused
      BY DEF PadBlocks
    <3> HIDE DEF z, s
    <3>2. Refused.ok = FALSE /\ Good(d).out = d
      BY DEF Refused, Good
    <3> QED BY <2>2, <3>1, <3>2
  <2>4. p \in Seq(Octets) /\ Whole(p)
    <3>1. s # "none" \/ Whole(d)
      BY <2>3
    <3> HIDE DEF s
    <3> QED BY <2>0, <3>1, PaddedIs DEF s
  <2> HIDE DEF z, p, s
  <2>5. o \in Seq(Octets) /\ Len(o) = Len(p) /\ DecryptAligned(c.mode, o) = p
    <3> HIDE DEF o
    <3> QED BY <2>0, <2>2, <2>4, AlignedComesBack
  <2>6. o # <<>>
    BY <2>0 DEF a
  <2> HIDE DEF o
  <2>7. back = UnpadBlocks(p, s)
    <3>1. Len(o) # 0 /\ Whole(o)
      BY <2>4, <2>5, <2>6 DEF Whole
    <3> DEFINE e == "cfb"
    <3>2. back = IF Len(o) = 0 \/ ~Whole(o) THEN Refused ELSE UnpadBlocks(DecryptAligned(c.mode, o), s)
      <4>1. c.mode \in PaddedModes /\ c.mode # "cfb"
        BY <2>0 DEF StreamModes
      <4> QED BY <4>1 DEF DecryptBlockMode, s
    <3> HIDE DEF back
    <3> QED BY <2>5, <3>1, <3>2
  <2> HIDE DEF back
  <2>8. CASE s = "none"
    <3>1. UnpadBlocks(p, s) = Good(p)
      BY <2>8 DEF UnpadBlocks
    <3>2. back.ok /\ back.out = d
      BY <2>3, <2>7, <2>8, <3>1 DEF Good
    <3> QED BY <2>8, <3>2 DEF back, o, a, s
  <2>9. CASE s # "none"
    <3>1. /\ back.ok
          /\ s \in Marking => back.out = d
          /\ s = "zero" => \E l \in 0 .. Len(d) : back.out = SubSeq(d, 1, l) /\ \A i \in l + 1 .. Len(d) : d[i] = 0
      <4>1. LET u == UnpadBlocks(PadBlocks(d, s).out, s)
            IN /\ u.ok
               /\ s \in Marking => u.out = d
               /\ s = "zero" => \E l \in 0 .. Len(d) : u.out = SubSeq(d, 1, l) /\ \A i \in l + 1 .. Len(d) : d[i] = 0
        BY <2>0, <2>9, UnpadPad
      <4> QED BY <2>7, <4>1 DEF p, z
    <3> QED BY <2>0, <2>9, <3>1 DEF back, o, a, s
  <2> QED BY <2>8, <2>9
<1> QED BY <1>1, <1>2

-----------------------------------------------------------------------------
(* FlattenSeq. *)

\* What FlattenSeq adds up is what its recursion says.
Adding(s, f) == f = [i \in 1 .. Len(s) |-> IF i = 1 THEN s[i] ELSE f[i - 1] \o s[i]]

LEMMA FlattenUnfolds ==
  ASSUME NEW T, NEW s \in Seq(Seq(T)), Len(s) # 0
  PROVE  FlattenSeq(s) = (CHOOSE f : Adding(s, f))[Len(s)]
BY DEF FlattenSeq, Adding

LEMMA AddingIs ==
  ASSUME NEW T, NEW s \in Seq(Seq(T)), NEW f, Adding(s, f), NEW i \in 1 .. Len(s)
  PROVE  f[i] = IF i = 1 THEN s[i] ELSE f[i - 1] \o s[i]
<1> DEFINE h == [j \in 1 .. Len(s) |-> IF j = 1 THEN s[j] ELSE f[j - 1] \o s[j]]
<1>1. f = h
  BY DEF Adding
<1>2. h[i] = IF i = 1 THEN s[i] ELSE f[i - 1] \o s[i]
  OBVIOUS
<1> HIDE DEF h
<1> QED BY <1>1, <1>2

AddsUp(s, g, n) == \A i \in 1 .. n : g[i] = IF i = 1 THEN s[i] ELSE g[i - 1] \o s[i]

LEMMA AddingIsOne ==
  ASSUME NEW T, NEW s \in Seq(Seq(T)), NEW f, NEW g, Adding(s, f),
         NEW n \in Nat, n <= Len(s), n > 0,
         AddsUp(s, g, n)
  PROVE  f[n] = g[n]
<1> DEFINE S == {i \in Nat : i \in 1 .. n => f[i] = g[i]}
<1>1. 0 \in S
  OBVIOUS
<1>a. ASSUME NEW i \in Nat, i \in 1 .. n => f[i] = g[i], i + 1 \in 1 .. n  PROVE f[i + 1] = g[i + 1]
  <2>1. i + 1 \in 1 .. Len(s) /\ (i + 1) - 1 = i
    BY <1>a
  <2>2. f[i + 1] = IF i + 1 = 1 THEN s[i + 1] ELSE f[(i + 1) - 1] \o s[i + 1]
    BY <2>1, AddingIs
  <2>3. g[i + 1] = IF i + 1 = 1 THEN s[i + 1] ELSE g[(i + 1) - 1] \o s[i + 1]
    BY <1>a DEF AddsUp
  <2>4. CASE i = 0
    BY <2>2, <2>3, <2>4
  <2>5. CASE i # 0
    <3>1. f[i] = g[i]
      BY <2>5, <1>a
    <3> QED BY <2>1, <2>2, <2>3, <2>5, <3>1
  <2> QED BY <2>4, <2>5
<1>2. \A i \in S : i + 1 \in S
  <2> TAKE i \in S
  <2>1. i \in Nat /\ (i \in 1 .. n => f[i] = g[i])
    OBVIOUS
  <2>2. i + 1 \in 1 .. n => f[i + 1] = g[i + 1]
    BY <2>1, <1>a
  <2> QED BY <2>1, <2>2
<1> HIDE DEF S
<1>3. S \in SUBSET Nat
  BY DEF S
<1>4. n \in S
  BY <1>1, <1>2, <1>3, Induction
<1> QED BY <1>4 DEF S

LEMMA AddingExists ==
  ASSUME NEW T, NEW n \in Nat, n > 0
  PROVE  \A s \in Seq(Seq(T)) : Len(s) = n => \E f \in [1 .. n -> Seq(T)] : Adding(s, f)
<1> DEFINE Has(m) == \A s \in Seq(Seq(T)) : Len(s) = m => \E f \in [1 .. m -> Seq(T)] : Adding(s, f)
           S == {m \in Nat : m > 0 => Has(m)}
<1>1. 0 \in S
  OBVIOUS
<1>2. ASSUME NEW m \in Nat, m > 0 => Has(m)  PROVE Has(m + 1)
  <2> SUFFICES ASSUME NEW s \in Seq(Seq(T)), Len(s) = m + 1
               PROVE  \E f \in [1 .. m + 1 -> Seq(T)] : Adding(s, f)
    OBVIOUS
  <2>1. CASE m = 0
    <3> DEFINE f == [i \in 1 .. 1 |-> s[1]]
    <3>1. f \in [1 .. m + 1 -> Seq(T)]
      BY <2>1
    <3>2. Adding(s, f)
      BY <2>1 DEF Adding
    <3> QED BY <3>1, <3>2
  <2>2. CASE m > 0
    <3> DEFINE r == SubSeq(s, 1, m)
    <3>1. r \in Seq(Seq(T)) /\ Len(r) = m /\ \A i \in 1 .. m : r[i] = s[i]
      OBVIOUS
    <3>2. PICK g \in [1 .. m -> Seq(T)] : Adding(r, g)
      BY <2>2, <3>1, <1>2
    <3> HIDE DEF r
    <3> DEFINE f == [i \in 1 .. m + 1 |-> IF i = m + 1 THEN g[m] \o s[m + 1] ELSE g[i]]
    <3>3. f \in [1 .. m + 1 -> Seq(T)]
      <4> SUFFICES ASSUME NEW i \in 1 .. m + 1  PROVE (IF i = m + 1 THEN g[m] \o s[m + 1] ELSE g[i]) \in Seq(T)
        OBVIOUS
      <4>1. g[m] \in Seq(T) /\ s[m + 1] \in Seq(T)
        BY <2>2
      <4>2. g[m] \o s[m + 1] \in Seq(T)
        BY <4>1
      <4>3. i # m + 1 => g[i] \in Seq(T)
        OBVIOUS
      <4> QED BY <4>2, <4>3
    <3>4. \A i \in 1 .. m + 1 : f[i] = IF i = 1 THEN s[i] ELSE f[i - 1] \o s[i]
      <4> SUFFICES ASSUME NEW i \in 1 .. m + 1  PROVE f[i] = IF i = 1 THEN s[i] ELSE f[i - 1] \o s[i]
        OBVIOUS
      <4>1. CASE i = m + 1
        <5>1. m \in 1 .. m + 1 /\ m # m + 1 /\ i # 1 /\ i - 1 = m
          BY <4>1, <2>2
        <5>2. f[i] = g[m] \o s[m + 1] /\ f[m] = g[m]
          BY <5>1, <4>1
        <5> QED BY <5>1, <5>2, <4>1
      <4>2. CASE i # m + 1
        <5>1. i \in 1 .. m
          BY <4>2
        <5>2. g[i] = IF i = 1 THEN r[i] ELSE g[i - 1] \o r[i]
          BY <5>1, <3>1, <3>2, AddingIs
        <5>3. f[i] = g[i]
          BY <5>1, <4>2
        <5>4. i # 1 => i - 1 \in 1 .. m + 1 /\ i - 1 # m + 1
          BY <5>1
        <5>5. i # 1 => f[i - 1] = g[i - 1]
          BY <5>4
        <5> QED BY <5>1, <5>2, <5>3, <5>5, <3>1
      <4> QED BY <4>1, <4>2
    <3>5. f = [i \in 1 .. m + 1 |-> IF i = 1 THEN s[i] ELSE f[i - 1] \o s[i]]
      <4> DEFINE h == [i \in 1 .. m + 1 |-> IF i = 1 THEN s[i] ELSE f[i - 1] \o s[i]]
      <4>1. \A i \in 1 .. m + 1 : h[i] = IF i = 1 THEN s[i] ELSE f[i - 1] \o s[i]
        OBVIOUS
      <4>2. \A i \in 1 .. m + 1 : f[i] = h[i]
        BY <3>4, <4>1
      <4>3. f = [i \in 1 .. m + 1 |-> f[i]] /\ h = [i \in 1 .. m + 1 |-> h[i]]
        OBVIOUS
      <4> HIDE DEF f, h
      <4>4. f = h
        BY <4>2, <4>3
      <4> QED BY <4>4 DEF h
    <3> HIDE DEF f
    <3>6. Adding(s, f)
      BY <3>5 DEF Adding
    <3> QED BY <3>3, <3>6
  <2> QED BY <2>1, <2>2
<1> HIDE DEF Has
<1>3. \A m \in S : m + 1 \in S
  BY <1>2
<1>4. S \in SUBSET Nat
  OBVIOUS
<1> HIDE DEF S
<1>5. n \in S
  BY <1>1, <1>3, <1>4, Induction
<1>6. Has(n)
  BY <1>5 DEF S
<1> QED BY <1>6 DEF Has

\* Flattening a sequence of sequences, part by part.
LEMMA FlattenAppends ==
  ASSUME NEW T, NEW s \in Seq(Seq(T)), NEW x \in Seq(T)
  PROVE  FlattenSeq(s) \in Seq(T) /\ FlattenSeq(Append(s, x)) = FlattenSeq(s) \o x
<1>0. Append(s, x) \in Seq(Seq(T)) /\ Len(Append(s, x)) = Len(s) + 1 /\ Len(s) \in Nat
  OBVIOUS
<1>1. ASSUME NEW r \in Seq(Seq(T)), Len(r) # 0
      PROVE  \E f \in [1 .. Len(r) -> Seq(T)] : Adding(r, f) /\ FlattenSeq(r) = f[Len(r)]
  <2>1. Len(r) \in Nat /\ Len(r) > 0
    BY <1>1
  <2>2. PICK g \in [1 .. Len(r) -> Seq(T)] : Adding(r, g)
    BY <2>1, AddingExists
  <2> DEFINE f == CHOOSE f : Adding(r, f)
  <2>3. Adding(r, f)
    BY <2>2
  <2>4. FlattenSeq(r) = f[Len(r)]
    BY <1>1, FlattenUnfolds
  <2> HIDE DEF f
  <2>5. \A i \in 1 .. Len(r) : g[i] = IF i = 1 THEN r[i] ELSE g[i - 1] \o r[i]
    BY <2>2, AddingIs
  <2>6. f[Len(r)] = g[Len(r)]
    <3>1. Len(r) <= Len(r)
      BY <2>1
    <3> DEFINE n == Len(r)
    <3>2. n \in Nat /\ n <= Len(r) /\ n > 0 /\ AddsUp(r, g, n)
      BY <3>1, <2>1, <2>5 DEF AddsUp
    <3> HIDE DEF n
    <3>3. f[n] = g[n]
      BY ONLY <3>2, <2>3, r \in Seq(Seq(T)), AddingIsOne
    <3> QED BY <3>3 DEF n
  <2> QED BY <2>2, <2>4, <2>6
<1>2. CASE Len(s) = 0
  <2>1. s = <<>>
    BY <1>2
  <2>2. FlattenSeq(s) = <<>>
    BY <2>1 DEF FlattenSeq
  <2>3. PICK f \in [1 .. 1 -> Seq(T)] : Adding(Append(s, x), f) /\ FlattenSeq(Append(s, x)) = f[1]
    <3>1. Len(Append(s, x)) = 1
      BY <1>2
    <3> DEFINE a == Append(s, x)
    <3>2. a \in Seq(Seq(T)) /\ Len(a) = 1 /\ Len(a) # 0
      BY <1>0, <3>1
    <3> HIDE DEF a
    <3>3. \E f \in [1 .. Len(a) -> Seq(T)] : Adding(a, f) /\ FlattenSeq(a) = f[Len(a)]
      BY <3>2, <1>1
    <3> QED BY <3>2, <3>3 DEF a
  <2>4. f[1] = Append(s, x)[1]
    <3>1. Len(Append(s, x)) = 1 /\ 1 \in 1 .. Len(Append(s, x))
      BY <1>2
    <3> QED BY <1>0, <3>1, <2>3, AddingIs
  <2>5. Append(s, x)[1] = x
    BY <1>2
  <2> QED BY <2>2, <2>3, <2>4, <2>5
<1>3. CASE Len(s) # 0
  <2> DEFINE a == Append(s, x)
             n == Len(s)
  <2>1. PICK f \in [1 .. n -> Seq(T)] : Adding(s, f) /\ FlattenSeq(s) = f[n]
    BY <1>1, <1>3
  <2>2. PICK g \in [1 .. n + 1 -> Seq(T)] : Adding(a, g) /\ FlattenSeq(a) = g[n + 1]
    <3>1. a \in Seq(Seq(T)) /\ Len(a) = n + 1 /\ n + 1 # 0
      BY <1>0
    <3> HIDE DEF a, n
    <3> QED BY <3>1, <1>1
  <2>3. a \in Seq(Seq(T)) /\ Len(a) = n + 1 /\ a[n + 1] = x /\ \A i \in 1 .. n : a[i] = s[i]
    OBVIOUS
  <2>n. n \in Nat /\ n > 0 /\ n <= Len(s)
    BY <1>3
  <2> HIDE DEF a, n
  <2>4. \A i \in 1 .. n + 1 : g[i] = IF i = 1 THEN a[i] ELSE g[i - 1] \o a[i]
    <3> SUFFICES ASSUME NEW i \in 1 .. n + 1  PROVE g[i] = IF i = 1 THEN a[i] ELSE g[i - 1] \o a[i]
      OBVIOUS
    <3>1. i \in 1 .. Len(a)
      BY <2>3
    <3> QED BY ONLY <3>1, <2>2, <2>3, AddingIs
  <2>5. \A i \in 1 .. n : g[i] = IF i = 1 THEN s[i] ELSE g[i - 1] \o s[i]
    <3> SUFFICES ASSUME NEW i \in 1 .. n  PROVE g[i] = IF i = 1 THEN s[i] ELSE g[i - 1] \o s[i]
      OBVIOUS
    <3>1. i \in 1 .. n + 1 /\ a[i] = s[i]
      BY <2>3, <2>n
    <3> QED BY <3>1, <2>4
  <2>6. f[n] = g[n]
    <3>1. AddsUp(s, g, n)
      BY <2>5 DEF AddsUp
    <3>2. n \in Nat /\ n <= Len(s) /\ n > 0 /\ AddsUp(s, g, n) /\ Adding(s, f)
      BY <3>1, <2>n, <2>1
    <3> QED BY ONLY <3>2, s \in Seq(Seq(T)), AddingIsOne, SMTT(60) DEF n
  <2>7. g[n + 1] = g[n] \o x
    <3>1. n + 1 \in 1 .. n + 1 /\ n + 1 # 1 /\ (n + 1) - 1 = n
      BY <2>n
    <3>2. g[n + 1] = g[(n + 1) - 1] \o a[n + 1]
      BY <3>1, <2>4
    <3> QED BY <3>1, <3>2, <2>3
  <2>8. f[n] \in Seq(T)
    BY <2>1, <2>n
  <2> QED BY <2>1, <2>2, <2>6, <2>7, <2>8 DEF a
<1> QED BY <1>2, <1>3

LEMMA FlattenNothing == FlattenSeq(<<>>) = <<>>
BY DEF FlattenSeq

\* The first n elements and the next one.
LEMMA OneMore ==
  ASSUME NEW S, NEW s \in Seq(S), NEW n \in Nat, n + 1 <= Len(s)
  PROVE  /\ SubSeq(s, 1, n) \in Seq(S) /\ Len(SubSeq(s, 1, n)) = n /\ s[n + 1] \in S
         /\ SubSeq(s, 1, n + 1) = Append(SubSeq(s, 1, n), s[n + 1])
OBVIOUS

LEMMA FlattenJoins ==
  ASSUME NEW T, NEW s \in Seq(Seq(T)), NEW t \in Seq(Seq(T))
  PROVE  FlattenSeq(s \o t) = FlattenSeq(s) \o FlattenSeq(t)
<1> DEFINE u(n) == SubSeq(t, 1, n)
           Holds(n) == FlattenSeq(s \o u(n)) = FlattenSeq(s) \o FlattenSeq(u(n))
           S == {n \in Nat : n <= Len(t) => Holds(n)}
<1>1. Holds(0)
  <2>1. u(0) = <<>> /\ s \o <<>> = s
    OBVIOUS
  <2>2. FlattenSeq(s) \in Seq(T)
    BY <<>> \in Seq(T), FlattenAppends
  <2>3. FlattenSeq(s) \o <<>> = FlattenSeq(s)
    BY <2>2
  <2>4. FlattenSeq(s \o u(0)) = FlattenSeq(s) /\ FlattenSeq(u(0)) = <<>>
    BY <2>1, FlattenNothing
  <2> QED BY <2>3, <2>4
<1>2. ASSUME NEW n \in Nat, n + 1 <= Len(t), Holds(n)  PROVE Holds(n + 1)
  <2> DEFINE v == u(n)
             x == t[n + 1]
  <2>1. v \in Seq(Seq(T)) /\ x \in Seq(T) /\ u(n + 1) = Append(v, x)
    BY <1>2, OneMore
  <2>h. FlattenSeq(s \o v) = FlattenSeq(s) \o FlattenSeq(v)
    BY <1>2
  <2> HIDE DEF v, x
  <2>2. s \o v \in Seq(Seq(T)) /\ s \o Append(v, x) = Append(s \o v, x)
    BY <2>1
  <2> DEFINE w == s \o v
  <2> HIDE DEF w
  <2>3. FlattenSeq(Append(w, x)) = FlattenSeq(w) \o x
    BY <2>1, <2>2, FlattenAppends DEF w
  <2>4. FlattenSeq(Append(v, x)) = FlattenSeq(v) \o x /\ FlattenSeq(v) \in Seq(T)
    BY <2>1, FlattenAppends
  <2>5. FlattenSeq(s) \in Seq(T)
    BY <2>1, FlattenAppends
  <2>6. FlattenSeq(w) = FlattenSeq(s) \o FlattenSeq(v)
    BY <2>h DEF w
  <2> DEFINE a == FlattenSeq(s)
             b == FlattenSeq(v)
  <2>a. a \in Seq(T) /\ b \in Seq(T)
    BY <2>4, <2>5
  <2> HIDE DEF a, b
  <2>7. a \o (b \o x) = (a \o b) \o x
    BY ONLY <2>1, <2>a, Associates
  <2>8. FlattenSeq(Append(w, x)) = a \o (b \o x)
    BY <2>3, <2>6, <2>7 DEF a, b
  <2> QED BY <2>1, <2>2, <2>4, <2>8 DEF w, a, b
<1>3. 0 \in S
  BY <1>1
<1>4. \A n \in S : n + 1 \in S
  <2> HIDE DEF Holds
  <2> TAKE n \in S
  <2>1. n \in Nat /\ (n <= Len(t) => Holds(n)) /\ Len(t) \in Nat
    OBVIOUS
  <2>2. n + 1 <= Len(t) => Holds(n + 1)
    BY <2>1, <1>2
  <2> QED BY <2>1, <2>2
<1>a. S \in SUBSET Nat /\ Len(t) \in Nat
  OBVIOUS
<1> HIDE DEF S
<1>5. Len(t) \in S
  BY <1>a, <1>3, <1>4, Induction
<1>6. Holds(Len(t)) /\ u(Len(t)) = t
  BY <1>5 DEF S
<1> QED BY <1>6

\* Parts of one length: how long they are together, and where each is.
LEMMA FlattenEven ==
  ASSUME NEW T, NEW s \in Seq(Seq(T)), NEW c \in Nat, \A i \in 1 .. Len(s) : Len(s[i]) = c
  PROVE  /\ FlattenSeq(s) \in Seq(T) /\ Len(FlattenSeq(s)) = Len(s) * c
         /\ \A i \in 1 .. Len(s) : SubSeq(FlattenSeq(s), (i - 1) * c + 1, i * c) = s[i]
<1> DEFINE u(n) == SubSeq(s, 1, n)
           f(n) == FlattenSeq(u(n))
           Holds(n) == /\ Len(f(n)) = n * c
                       /\ \A i \in 1 .. n : SubSeq(f(n), (i - 1) * c + 1, i * c) = s[i]
           S == {n \in Nat : n <= Len(s) => Holds(n)}
<1>0. \A n \in Nat : n <= Len(s) => f(n) \in Seq(T)
  <2> TAKE n \in Nat
  <2>1. n <= Len(s) => u(n) \in Seq(Seq(T))
    OBVIOUS
  <2> QED BY <2>1, <<>> \in Seq(T), FlattenAppends
<1>1. Holds(0)
  <2>1. u(0) = <<>> /\ 0 * c = 0
    OBVIOUS
  <2>2. f(0) = <<>>
    BY <2>1, FlattenNothing
  <2>3. Len(f(0)) = 0 * c
    BY <2>1, <2>2
  <2> QED BY <2>3
<1>2. ASSUME NEW n \in Nat, n + 1 <= Len(s), Holds(n)  PROVE Holds(n + 1)
  <2> DEFINE v == u(n)
             x == s[n + 1]
             a == f(n)
             b == f(n + 1)
  <2>1. v \in Seq(Seq(T)) /\ x \in Seq(T) /\ u(n + 1) = Append(v, x)
    BY <1>2, OneMore
  <2>2. n + 1 \in 1 .. Len(s) /\ n <= Len(s)
    BY <1>2
  <2>3. Len(x) = c
    BY <2>2
  <2>4. a \in Seq(T) /\ b = a \o x
    BY <2>1, FlattenAppends
  <2>h. Len(a) = n * c /\ \A i \in 1 .. n : SubSeq(a, (i - 1) * c + 1, i * c) = s[i]
    BY <1>2
  <2>5. n * c \in Nat /\ (n + 1) * c = n * c + c
    <3>1. n + 1 >= 1 /\ (n + 1) - 1 = n /\ n + 1 \in Nat
      OBVIOUS
    <3> QED BY <3>1, UnitEnds
  <2> HIDE DEF v, x, a, b
  <2>6. Len(b) = (n + 1) * c
    <3>1. Len(b) = Len(a) + Len(x)
      BY <2>1, <2>4
    <3> QED BY <3>1, <2>3, <2>5, <2>h
  <2>7. \A i \in 1 .. n + 1 : SubSeq(b, (i - 1) * c + 1, i * c) = s[i]
    <3> SUFFICES ASSUME NEW i \in 1 .. n + 1  PROVE SubSeq(b, (i - 1) * c + 1, i * c) = s[i]
      OBVIOUS
    <3>1. CASE i = n + 1
      <4>1. i - 1 = n /\ i * c = n * c + c
        BY <3>1, <2>5
      <4> DEFINE m == n * c
      <4> HIDE DEF m
      <4>2. SubSeq(a \o x, m + 1, m + c) = SubSeq(x, 1, c)
        <5>1. m = Len(a) /\ 1 <= 1 /\ 1 <= c + 1 /\ c <= Len(x) /\ 1 \in Int /\ c \in Int
          BY <2>h, <2>3 DEF m
        <5> QED BY <5>1, <2>1, <2>4, RightSlice
      <4>3. SubSeq(x, 1, c) = x
        BY <2>1, <2>3
      <4> QED BY <4>1, <4>2, <4>3, <2>4, <3>1 DEF m, x
    <3>2. CASE i # n + 1
      <4>1. i \in 1 .. n /\ i \in Nat /\ i >= 1
        BY <3>2
      <4>2. (i - 1) * c \in Nat /\ i * c = (i - 1) * c + c /\ i * c <= n * c /\ i * c \in Nat
        <5>1. (i - 1) * c \in Nat /\ i * c = (i - 1) * c + c /\ i * c \in Nat
          BY <4>1, UnitEnds
        <5>2. CASE i = n
          BY <5>1, <5>2
        <5>3. CASE i # n
          <6>1. i < n
            BY <4>1, <5>3
          <6>2. i * c + c <= n * c
            BY <6>1, <4>1, ProductsGrow
          <6> QED BY <6>2, <5>1, <2>5
        <5> QED BY <5>1, <5>2, <5>3
      <4> DEFINE p == (i - 1) * c
                 q == i * c
      <4>3. p \in Nat /\ q = p + c /\ q <= Len(a) /\ q \in Nat
        BY <4>2, <2>h
      <4> HIDE DEF p, q
      <4>4. SubSeq(a \o x, p + 1, q) = SubSeq(a, p + 1, q)
        BY <4>3, <2>1, <2>4, LeftSlice
      <4>5. SubSeq(a, p + 1, q) = s[i]
        BY <2>h, <4>1 DEF p, q
      <4> QED BY <4>4, <4>5, <2>4 DEF p, q
    <3> QED BY <3>1, <3>2
  <2> QED BY <2>6, <2>7 DEF b
<1> HIDE DEF Holds
<1>3. 0 \in S
  BY <1>1
<1>4. \A n \in S : n + 1 \in S
  <2> TAKE n \in S
  <2>1. n \in Nat /\ (n <= Len(s) => Holds(n)) /\ Len(s) \in Nat
    OBVIOUS
  <2>2. n + 1 <= Len(s) => Holds(n + 1)
    BY <2>1, <1>2
  <2> QED BY <2>1, <2>2
<1>a. S \in SUBSET Nat /\ Len(s) \in Nat
  OBVIOUS
<1> HIDE DEF S
<1>5. Len(s) \in S
  BY <1>a, <1>3, <1>4, Induction
<1>6. Holds(Len(s)) /\ f(Len(s)) = FlattenSeq(s) /\ FlattenSeq(s) \in Seq(T)
  <2>1. u(Len(s)) = s /\ Len(s) <= Len(s)
    BY <1>a
  <2> QED BY <2>1, <1>a, <1>5, <1>0 DEF S
<1> QED BY <1>6 DEF Holds

\* The parts of one length that a sequence is cut into, put together again.
Parted(s, c, n) == [i \in 1 .. n |-> SubSeq(s, (i - 1) * c + 1, i * c)]

LEMMA PartIs ==
  ASSUME NEW T, NEW s \in Seq(T), NEW c \in Nat, NEW n \in Nat, n * c <= Len(s), NEW i \in 1 .. n
  PROVE  /\ (i - 1) * c \in Nat /\ i * c = (i - 1) * c + c /\ i * c \in Nat /\ i * c <= n * c /\ n * c \in Nat
         /\ SubSeq(s, (i - 1) * c + 1, i * c) \in Seq(T) /\ Len(SubSeq(s, (i - 1) * c + 1, i * c)) = c
<1>1. (i - 1) * c \in Nat /\ i * c = (i - 1) * c + c /\ i * c \in Nat /\ n * c \in Nat
  BY UnitEnds, Products
<1>2. i * c <= n * c
  <2>1. CASE i = n
    BY <1>1, <2>1
  <2>2. CASE i # n
    <3>1. i < n /\ i \in Nat
      BY <2>2
    <3>2. i * c + c <= n * c
      BY <3>1, ProductsGrow
    <3> QED BY <3>2, <1>1
  <2> QED BY <2>1, <2>2
<1> DEFINE p == (i - 1) * c
           q == i * c
           m == n * c
<1>3. p \in Nat /\ q = p + c /\ q <= m /\ m <= Len(s) /\ m \in Nat /\ q \in Nat
  BY <1>1, <1>2
<1> HIDE DEF p, q, m
<1>4. SubSeq(s, p + 1, q) \in Seq(T) /\ Len(SubSeq(s, p + 1, q)) = c
  BY <1>3
<1> QED BY <1>1, <1>2, <1>4 DEF p, q

LEMMA PartedIs ==
  ASSUME NEW T, NEW s \in Seq(T), NEW c \in Nat, NEW n \in Nat, n * c <= Len(s)
  PROVE  /\ Parted(s, c, n) \in Seq(Seq(T)) /\ Len(Parted(s, c, n)) = n
         /\ \A i \in 1 .. n : Parted(s, c, n)[i] = SubSeq(s, (i - 1) * c + 1, i * c)
<1>1. \A i \in 1 .. n : SubSeq(s, (i - 1) * c + 1, i * c) \in Seq(T)
  BY PartIs
<1> DEFINE part(i) == SubSeq(s, (i - 1) * c + 1, i * c)
           w == [i \in 1 .. n |-> part(i)]
<1>2. \A i \in 1 .. n : part(i) \in Seq(T)
  BY <1>1
<1>3. w = Parted(s, c, n)
  BY DEF Parted
<1> HIDE DEF part
<1>4. w \in Seq(Seq(T)) /\ Len(w) = n /\ \A i \in 1 .. n : w[i] = part(i)
  BY <1>2
<1> QED BY <1>3, <1>4 DEF part

LEMMA FlattenParted ==
  ASSUME NEW T, NEW s \in Seq(T), NEW c \in Nat, NEW n \in Nat, n * c <= Len(s)
  PROVE  Parted(s, c, n) \in Seq(Seq(T)) /\ FlattenSeq(Parted(s, c, n)) = SubSeq(s, 1, n * c)
<1>1. Parted(s, c, n) \in Seq(Seq(T)) /\ Len(Parted(s, c, n)) = n
  BY PartedIs
<1> DEFINE Holds(m) == FlattenSeq(Parted(s, c, m)) = SubSeq(s, 1, m * c)
           S == {m \in Nat : m <= n => Holds(m)}
<1>2. Holds(0)
  <2>1. Parted(s, c, 0) = <<>> /\ 0 * c = 0 /\ SubSeq(s, 1, 0) = <<>>
    BY DEF Parted
  <2> QED BY <2>1, FlattenNothing
<1>3. ASSUME NEW m \in Nat, m + 1 <= n, Holds(m)  PROVE Holds(m + 1)
  <2> DEFINE v == Parted(s, c, m)
             x == SubSeq(s, m * c + 1, (m + 1) * c)
  <2>1. m + 1 \in 1 .. n /\ (m + 1) - 1 = m
    BY <1>3
  <2>2. /\ m * c \in Nat /\ (m + 1) * c = m * c + c /\ (m + 1) * c \in Nat /\ (m + 1) * c <= n * c
        /\ n * c \in Nat /\ x \in Seq(T) /\ Len(x) = c
    BY <2>1, PartIs
  <2>3. m * c <= Len(s) /\ (m + 1) * c <= Len(s)
    <3> DEFINE p == m * c
               q == (m + 1) * c
               z == n * c
    <3>1. p \in Nat /\ q = p + c /\ q <= z /\ z <= Len(s) /\ z \in Nat /\ q \in Nat
      BY <2>2
    <3> HIDE DEF p, q, z
    <3>2. p <= Len(s) /\ q <= Len(s)
      BY <3>1
    <3> QED BY <3>2 DEF p, q
  <2>4. v \in Seq(Seq(T)) /\ Len(v) = m /\ \A i \in 1 .. m : v[i] = SubSeq(s, (i - 1) * c + 1, i * c)
    BY <2>3, PartedIs
  <2>5. Parted(s, c, m + 1) = Append(v, x)
    <3> DEFINE w == Parted(s, c, m + 1)
    <3>2. w \in Seq(Seq(T)) /\ Len(w) = m + 1 /\ \A i \in 1 .. m + 1 : w[i] = SubSeq(s, (i - 1) * c + 1, i * c)
      BY <2>3, PartedIs
    <3>4. w[m + 1] = x
      BY <3>2, <2>1
    <3> HIDE DEF v, w
    <3>5. \A i \in 1 .. m : w[i] = v[i]
      <4> TAKE i \in 1 .. m
      <4>1. i \in 1 .. m + 1
        OBVIOUS
      <4> QED BY <4>1, <3>2, <2>4
    <3> HIDE DEF w, v, x
    <3>6. w = Append(v, x)
      BY <3>2, <3>4, <3>5, <2>2, <2>4
    <3> QED BY <3>6 DEF w
  <2>h. FlattenSeq(v) = SubSeq(s, 1, m * c)
    BY <1>3
  <2>6. FlattenSeq(Append(v, x)) = SubSeq(s, 1, m * c) \o x
    <3> HIDE DEF v, x
    <3> QED BY <2>2, <2>4, <2>h, FlattenAppends
  <2>7. SubSeq(s, 1, m * c) \o x = SubSeq(s, 1, (m + 1) * c)
    <3> DEFINE p == m * c
               q == (m + 1) * c
               z == n * c
    <3>1. p \in Nat /\ q = p + c /\ q <= z /\ z <= Len(s) /\ z \in Nat /\ q \in Nat
      BY <2>2
    <3> HIDE DEF p, q, z
    <3>2. SubSeq(s, 1, p) \o SubSeq(s, p + 1, q) = SubSeq(s, 1, q)
      <4> DEFINE y == SubSeq(s, 1, q)
      <4>1. y \in Seq(T) /\ Len(y) = q
        BY <3>1
      <4>2. y = SubSeq(y, 1, p) \o SubSeq(y, p + 1, Len(y))
        <5>1. p <= Len(y)
          BY <3>1, <4>1
        <5> HIDE DEF y
        <5> QED BY <5>1, <4>1, <3>1, Splits
      <4>3. SubSeq(y, 1, p) = SubSeq(s, 1, p) /\ SubSeq(y, p + 1, q) = SubSeq(s, p + 1, q)
        BY <3>1
      <4> QED BY <4>1, <4>2, <4>3
    <3> QED BY <3>2 DEF p, q
  <2> QED BY <2>5, <2>6, <2>7
<1> HIDE DEF Holds
<1>4. 0 \in S
  BY <1>2
<1>5. \A m \in S : m + 1 \in S
  <2> TAKE m \in S
  <2>1. m \in Nat /\ (m <= n => Holds(m))
    OBVIOUS
  <2>2. m + 1 <= n => Holds(m + 1)
    BY <2>1, <1>3
  <2> QED BY <2>1, <2>2
<1>a. S \in SUBSET Nat
  OBVIOUS
<1> HIDE DEF S
<1>6. n \in S
  BY <1>a, <1>4, <1>5, Induction
<1>7. Holds(n)
  BY <1>6 DEF S
<1> QED BY <1>1, <1>7 DEF Holds

-----------------------------------------------------------------------------
(* The CRC: sets of places. *)

\* What is in a set that was moved up, down, or turned around.
LEMMA InUp ==
  ASSUME NEW r \in SUBSET Nat, NEW n \in Nat
  PROVE  Up(r, n) \in SUBSET Nat /\ \A x \in Nat : x \in Up(r, n) <=> x - n \in r
BY DEF Up

LEMMA InDown ==
  ASSUME NEW r \in SUBSET Nat, NEW n \in Nat
  PROVE  Down(r, n) \in SUBSET Nat /\ \A x \in Nat : x \in Down(r, n) <=> x + n \in r
<1>1. ASSUME NEW x \in Down(r, n)  PROVE x \in Nat /\ x + n \in r
  <2>1. PICK i \in r : i >= n /\ x = i - n
    BY DEF Down
  <2> QED BY <2>1
<1>2. ASSUME NEW x \in Nat, x + n \in r  PROVE x \in Down(r, n)
  <2>1. x + n >= n /\ x = (x + n) - n
    OBVIOUS
  <2>2. x + n \in {j \in r : j >= n}
    BY <2>1, <1>2
  <2> QED BY <2>1, <2>2 DEF Down
<1> QED BY <1>1, <1>2

LEMMA InReflect ==
  ASSUME NEW w \in Nat, NEW r \in SUBSET (0 .. w - 1)
  PROVE  Reflect(r, w) \in SUBSET (0 .. w - 1) /\ \A x \in 0 .. w - 1 : x \in Reflect(r, w) <=> w - 1 - x \in r
<1>1. ASSUME NEW x \in Reflect(r, w)  PROVE x \in 0 .. w - 1 /\ w - 1 - x \in r
  <2>1. PICK i \in r : x = w - 1 - i
    BY DEF Reflect
  <2>2. i \in 0 .. w - 1 /\ w - 1 - x = i
    BY <2>1
  <2> QED BY <2>1, <2>2
<1>2. ASSUME NEW x \in 0 .. w - 1, w - 1 - x \in r  PROVE x \in Reflect(r, w)
  <2>1. x = w - 1 - (w - 1 - x)
    OBVIOUS
  <2> QED BY <2>1, <1>2 DEF Reflect
<1> QED BY <1>1, <1>2

LEMMA InMasked ==
  ASSUME NEW r \in SUBSET Nat, NEW w \in Nat
  PROVE  Masked(r, w) \in SUBSET (0 .. w - 1) /\ \A x \in 0 .. w - 1 : x \in Masked(r, w) <=> x \in r
<1>1. ASSUME NEW x \in Masked(r, w)  PROVE x \in 0 .. w - 1 /\ x \in r
  <2>1. x \in r /\ x < w
    BY DEF Masked
  <2>2. x \in Nat
    BY <2>1
  <2> QED BY <2>1, <2>2
<1>2. ASSUME NEW x \in 0 .. w - 1, x \in r  PROVE x \in Masked(r, w)
  <2>1. x < w
    OBVIOUS
  <2> QED BY <2>1, <1>2 DEF Masked
<1> QED BY <1>1, <1>2

\* Sums: what is in just one of the two.
LEMMA InDiff ==
  ASSUME NEW a, NEW b  PROVE \A x : x \in SymDiff(a, b) <=> ~(x \in a <=> x \in b)
BY DEF SymDiff

LEMMA DiffIn ==
  ASSUME NEW S, NEW a \in SUBSET S, NEW b \in SUBSET S
  PROVE  SymDiff(a, b) \in SUBSET S /\ SymDiff(a, {}) = a /\ SymDiff({}, a) = a /\ SymDiff(a, a) = {}
BY DEF SymDiff

LEMMA DiffMoves ==
  ASSUME NEW a, NEW b, NEW c, NEW d
  PROVE  /\ SymDiff(SymDiff(a, b), c) = SymDiff(SymDiff(a, c), b)
         /\ SymDiff(SymDiff(a, b), SymDiff(c, d)) = SymDiff(SymDiff(a, c), SymDiff(b, d))
         /\ SymDiff(SymDiff(a, b), b) = a
BY DEF SymDiff

LEMMA UpDiff ==
  ASSUME NEW a \in SUBSET Nat, NEW b \in SUBSET Nat, NEW n \in Nat
  PROVE  Up(SymDiff(a, b), n) = SymDiff(Up(a, n), Up(b, n))
<1>1. SymDiff(a, b) \in SUBSET Nat /\ Up(a, n) \in SUBSET Nat /\ Up(b, n) \in SUBSET Nat
  BY DiffIn, InUp
<1>2. SymDiff(Up(a, n), Up(b, n)) \in SUBSET Nat /\ Up(SymDiff(a, b), n) \in SUBSET Nat
  <2>1. SymDiff(Up(a, n), Up(b, n)) \in SUBSET Nat
    BY <1>1 DEF SymDiff
  <2>2. Up(SymDiff(a, b), n) \in SUBSET Nat
    BY <1>1, InUp
  <2> QED BY <2>1, <2>2
<1>3. ASSUME NEW x \in Nat  PROVE x \in Up(SymDiff(a, b), n) <=> x \in SymDiff(Up(a, n), Up(b, n))
  <2>1. x \in Up(SymDiff(a, b), n) <=> x - n \in SymDiff(a, b)
    BY <1>1, InUp
  <2>2. (x \in Up(a, n) <=> x - n \in a) /\ (x \in Up(b, n) <=> x - n \in b)
    BY InUp
  <2> QED BY <2>1, <2>2, InDiff
<1> QED BY <1>2, <1>3

LEMMA UpUp ==
  ASSUME NEW a \in SUBSET Nat, NEW m \in Nat, NEW n \in Nat
  PROVE  Up(Up(a, m), n) = Up(a, m + n) /\ Up({}, m) = {} /\ Up(a, 0) = a
<1>1. Up(a, m) \in SUBSET Nat /\ m + n \in Nat
  BY InUp
<1>2. Up(Up(a, m), n) \in SUBSET Nat /\ Up(a, m + n) \in SUBSET Nat
  BY <1>1, InUp
<1>3. ASSUME NEW x \in Nat  PROVE x \in Up(Up(a, m), n) <=> x \in Up(a, m + n)
  <2>1. x \in Up(Up(a, m), n) <=> x - n \in Up(a, m)
    BY <1>1, InUp
  <2>2. x \in Up(a, m + n) <=> x - (m + n) \in a
    BY <1>1, InUp
  <2>3. ASSUME x - n \in Nat  PROVE x - n \in Up(a, m) <=> x - n - m \in a
    BY <2>3, InUp
  <2>4. x - n \notin Nat => x - n \notin Up(a, m) /\ x - (m + n) \notin a
    BY <1>1
  <2>5. x - n - m = x - (m + n)
    OBVIOUS
  <2> QED BY <2>1, <2>2, <2>3, <2>4, <2>5
<1>4. Up({}, m) = {}
  BY DEF Up
<1>5. Up(a, 0) = a
  <2>1. Up(a, 0) \in SUBSET Nat /\ \A x \in Nat : x \in Up(a, 0) <=> x - 0 \in a
    BY InUp
  <2>2. \A x \in Nat : x - 0 = x
    OBVIOUS
  <2>3. \A x \in Nat : x \in Up(a, 0) <=> x \in a
    BY <2>1, <2>2
  <2> QED BY <2>1, <2>3
<1> QED BY <1>2, <1>3, <1>4, <1>5

LEMMA UpTwice ==
  ASSUME NEW a \in SUBSET Nat, NEW m \in Nat, NEW n \in Nat, NEW k, k = m + n  PROVE Up(Up(a, m), n) = Up(a, k)
BY UpUp

\* Bounds of what is moved.
LEMMA UpFits ==
  ASSUME NEW k \in Nat, NEW a \in SUBSET (0 .. k - 1), NEW n \in Nat
  PROVE  Up(a, n) \in SUBSET (0 .. k + n - 1) /\ Up(a, n) \in SUBSET Nat /\ a \in SUBSET Nat
BY DEF Up

-----------------------------------------------------------------------------
(* The CRC: division. *)

\* One step of the division: the divisor taken from the term i.
LEMMA CancelledIs ==
  ASSUME NEW w \in Nat, NEW D \in SUBSET (0 .. w), w \in D, NEW i \in Nat, i >= w, NEW q \in SUBSET Nat
  PROVE  /\ Cancelled(q, i, D, w) \in SUBSET Nat
         /\ Cancelled(q, i, D, w) = q \/ Cancelled(q, i, D, w) = SymDiff(q, Up(D, i - w))
         /\ q \subseteq 0 .. i - 1 => Cancelled(q, i, D, w) = q
         /\ q \subseteq 0 .. i => Cancelled(q, i, D, w) \subseteq 0 .. i - 1
<1>1. i - w \in Nat /\ D \in SUBSET Nat
  OBVIOUS
<1>2. Up(D, i - w) \in SUBSET Nat /\ \A x \in Nat : x \in Up(D, i - w) <=> x - (i - w) \in D
  BY <1>1, InUp
<1>3. Up(D, i - w) \subseteq 0 .. i /\ i \in Up(D, i - w)
  <2>1. i - (i - w) = w
    OBVIOUS
  <2> QED BY <1>2, <2>1
<1> DEFINE u == Up(D, i - w)
<1> HIDE DEF u
<1>4. Cancelled(q, i, D, w) = IF i \in q THEN SymDiff(q, u) ELSE q
  BY DEF Cancelled, u
<1>5. u \in SUBSET Nat /\ u \subseteq 0 .. i /\ i \in u
  BY <1>2, <1>3 DEF u
<1>6. SymDiff(q, u) \in SUBSET Nat
  BY <1>5 DEF SymDiff
<1>7. ASSUME q \subseteq 0 .. i, i \in q  PROVE SymDiff(q, u) \subseteq 0 .. i - 1
  <2>1. ASSUME NEW x \in SymDiff(q, u)  PROVE x \in 0 .. i - 1
    <3>1. x \in 0 .. i /\ x # i
      BY <1>5, <1>7, <2>1 DEF SymDiff
    <3> QED BY <3>1
  <2> QED BY <2>1
<1>8. ASSUME q \subseteq 0 .. i, i \notin q  PROVE q \subseteq 0 .. i - 1
  <2>1. ASSUME NEW x \in q  PROVE x \in 0 .. i - 1
    <3>1. x \in 0 .. i /\ x # i
      BY <1>8
    <3> QED BY <3>1
  <2> QED BY <2>1
<1>9. q \subseteq 0 .. i - 1 => i \notin q
  OBVIOUS
<1> QED BY <1>4, <1>6, <1>7, <1>8, <1>9 DEF u

\* It is linear.
LEMMA CancelledDiff ==
  ASSUME NEW w \in Nat, NEW D \in SUBSET (0 .. w), NEW i \in Nat, i >= w, NEW a \in SUBSET Nat, NEW b \in SUBSET Nat
  PROVE  Cancelled(SymDiff(a, b), i, D, w) = SymDiff(Cancelled(a, i, D, w), Cancelled(b, i, D, w))
<1> DEFINE u == Up(D, i - w)
<1> HIDE DEF u
<1>1. ASSUME NEW q  PROVE Cancelled(q, i, D, w) = IF i \in q THEN SymDiff(q, u) ELSE q
  BY DEF Cancelled, u
<1>2. i \in SymDiff(a, b) <=> ~(i \in a <=> i \in b)
  BY DEF SymDiff
<1> DEFINE s == SymDiff(a, b)
<1>3. /\ SymDiff(s, u) = SymDiff(SymDiff(a, u), b)
      /\ SymDiff(s, u) = SymDiff(a, SymDiff(b, u))
      /\ SymDiff(SymDiff(a, u), SymDiff(b, u)) = s
  BY DEF SymDiff
<1>4. SymDiff(a, b) = s /\ (i \in s <=> ~(i \in a <=> i \in b))
  BY <1>2
<1> HIDE DEF s
<1>5. CASE i \in a /\ i \in b
  BY <1>1, <1>3, <1>4, <1>5
<1>6. CASE i \in a /\ i \notin b
  BY <1>1, <1>3, <1>4, <1>6
<1>7. CASE i \notin a /\ i \in b
  BY <1>1, <1>3, <1>4, <1>7
<1>8. CASE i \notin a /\ i \notin b
  BY <1>1, <1>3, <1>4, <1>8
<1> QED BY <1>5, <1>6, <1>7, <1>8

\* And made so much higher, it is the step of what is so much higher.
LEMMA CancelledUp ==
  ASSUME NEW w \in Nat, NEW D \in SUBSET (0 .. w), NEW i \in Nat, i >= w, NEW a \in SUBSET Nat, NEW j \in Nat
  PROVE  Cancelled(Up(a, j), i + j, D, w) = Up(Cancelled(a, i, D, w), j)
<1> DEFINE u == Up(D, i - w)
<1> HIDE DEF u
<1>0. D \in SUBSET Nat /\ i - w \in Nat /\ (i + j) - w = (i - w) + j /\ i + j \in Nat /\ (i + j) - j = i
  OBVIOUS
<1>1. Up(D, (i + j) - w) = Up(u, j) /\ u \in SUBSET Nat
  <2> DEFINE k == i - w
  <2>1. k \in Nat /\ (i + j) - w = k + j
    BY <1>0
  <2> HIDE DEF k
  <2>2. Up(Up(D, k), j) = Up(D, k + j)
    BY <1>0, <2>1, UpUp
  <2>3. Up(D, k) \in SUBSET Nat
    BY <1>0, <2>1, InUp
  <2> QED BY <2>1, <2>2, <2>3 DEF u, k
<1>2. i + j \in Up(a, j) <=> i \in a
  BY <1>0, InUp
<1>3. Up(SymDiff(a, u), j) = SymDiff(Up(a, j), Up(u, j))
  BY <1>1, UpDiff
<1>4. Cancelled(a, i, D, w) = IF i \in a THEN SymDiff(a, u) ELSE a
  BY DEF Cancelled, u
<1>5. Cancelled(Up(a, j), i + j, D, w) = IF i + j \in Up(a, j) THEN SymDiff(Up(a, j), Up(u, j)) ELSE Up(a, j)
  BY <1>1 DEF Cancelled
<1> QED BY <1>2, <1>3, <1>4, <1>5

\* The steps for the terms above v, n of them at most, from the highest down.
Divides(g, D, w, v, n) ==
  /\ g \in [0 .. n -> [SUBSET Nat -> SUBSET Nat]]
  /\ g[0] = [p \in SUBSET Nat |-> p]
  /\ \A m \in 1 .. n : g[m] = [p \in SUBSET Nat |-> g[m - 1][Cancelled(p, v + m - 1, D, w)]]

Dividing(g, D, w, v, n) ==
  /\ w \in Nat /\ v \in Nat /\ v >= w /\ n \in Nat /\ D \in SUBSET (0 .. w) /\ w \in D
  /\ Divides(g, D, w, v, n)

LEMMA DivisionIs ==
  ASSUME NEW w \in Nat, NEW v \in Nat, v >= w, NEW n \in Nat, NEW D \in SUBSET (0 .. w), w \in D
  PROVE  \E g : Dividing(g, D, w, v, n)
<1> DEFINE S == [SUBSET Nat -> SUBSET Nat]
           c == [p \in SUBSET Nat |-> p]
           h == [x \in S \X (1 .. n) |-> [p \in SUBSET Nat |-> x[1][Cancelled(p, v + x[2] - 1, D, w)]]]
<1>1. c \in S
  OBVIOUS
<1>2. h \in [S \X (1 .. n) -> S]
  <2>1. ASSUME NEW x \in S \X (1 .. n), NEW p \in SUBSET Nat  PROVE x[1][Cancelled(p, v + x[2] - 1, D, w)] \in SUBSET Nat
    <3>1. x[2] \in 1 .. n /\ x[1] \in S
      OBVIOUS
    <3>2. v + x[2] - 1 \in Nat /\ v + x[2] - 1 >= w
      BY <3>1
    <3>3. Cancelled(p, v + x[2] - 1, D, w) \in SUBSET Nat
      BY <3>2, CancelledIs
    <3> QED BY <3>1, <3>3
  <2>2. ASSUME NEW x \in S \X (1 .. n)  PROVE [p \in SUBSET Nat |-> x[1][Cancelled(p, v + x[2] - 1, D, w)]] \in S
    BY <2>1
  <2> QED BY <2>2
<1>3. ASSUME NEW s \in S, NEW m \in 1 .. n  PROVE h[<<s, m>>] = [p \in SUBSET Nat |-> s[Cancelled(p, v + m - 1, D, w)]]
  <2>1. <<s, m>> \in S \X (1 .. n)
    OBVIOUS
  <2> QED BY <2>1
<1> HIDE DEF h, c
<1>4. PICK g : RunsFrom(g, S, c, n, h)
  BY <1>1, <1>2, Recursion
<1>5. g \in [0 .. n -> S] /\ g[0] = c /\ \A m \in 1 .. n : g[m] = h[<<g[m - 1], m>>]
  BY <1>4 DEF RunsFrom
<1>6. ASSUME NEW m \in 1 .. n  PROVE g[m] = [p \in SUBSET Nat |-> g[m - 1][Cancelled(p, v + m - 1, D, w)]]
  <2>1. g[m - 1] \in S /\ g[m] = h[<<g[m - 1], m>>]
    BY <1>5
  <2> QED BY <2>1, <1>3
<1> QED BY <1>5, <1>6 DEF Dividing, Divides, c

\* One step and the rest.
LEMMA DividesNext ==
  ASSUME NEW g, NEW D, NEW w, NEW v, NEW n, Dividing(g, D, w, v, n)
  PROVE  /\ \A p \in SUBSET Nat : g[0][p] = p
         /\ \A m \in 0 .. n, p \in SUBSET Nat : g[m][p] \in SUBSET Nat
         /\ \A m \in 1 .. n, p \in SUBSET Nat :
              /\ v + m - 1 \in Nat /\ v + m - 1 >= w
              /\ Cancelled(p, v + m - 1, D, w) \in SUBSET Nat
              /\ g[m][p] = g[m - 1][Cancelled(p, v + m - 1, D, w)]
<1>0. w \in Nat /\ v \in Nat /\ v >= w /\ n \in Nat /\ D \in SUBSET (0 .. w) /\ w \in D /\ Divides(g, D, w, v, n)
  BY DEF Dividing
<1>1. /\ g \in [0 .. n -> [SUBSET Nat -> SUBSET Nat]]
      /\ g[0] = [p \in SUBSET Nat |-> p]
      /\ \A m \in 1 .. n : g[m] = [p \in SUBSET Nat |-> g[m - 1][Cancelled(p, v + m - 1, D, w)]]
  BY <1>0 DEF Divides
<1>2. ASSUME NEW m \in 1 .. n, NEW p \in SUBSET Nat
      PROVE  /\ v + m - 1 \in Nat /\ v + m - 1 >= w
             /\ Cancelled(p, v + m - 1, D, w) \in SUBSET Nat
             /\ g[m][p] = g[m - 1][Cancelled(p, v + m - 1, D, w)]
  <2>1. v + m - 1 \in Nat /\ v + m - 1 >= w
    BY <1>0
  <2>2. Cancelled(p, v + m - 1, D, w) \in SUBSET Nat
    BY <1>0, <2>1, CancelledIs
  <2>3. g[m] = [q \in SUBSET Nat |-> g[m - 1][Cancelled(q, v + m - 1, D, w)]]
    BY <1>1
  <2> QED BY <2>1, <2>2, <2>3
<1>3. \A p \in SUBSET Nat : g[0][p] = p
  BY <1>1
<1>4. ASSUME NEW m \in 0 .. n, NEW p \in SUBSET Nat  PROVE g[m][p] \in SUBSET Nat
  <2>1. g[m] \in [SUBSET Nat -> SUBSET Nat]
    BY <1>1
  <2> QED BY <2>1
<1> QED BY <1>2, <1>3, <1>4

\* What is below v stays; what is below v + m ends up there.
LEMMA DividesSmall ==
  ASSUME NEW g, NEW D, NEW w, NEW v, NEW n, Dividing(g, D, w, v, n), NEW p \in SUBSET (0 .. v - 1), NEW m \in 0 .. n
  PROVE  g[m][p] = p
<1>0. w \in Nat /\ v \in Nat /\ v >= w /\ n \in Nat /\ D \in SUBSET (0 .. w) /\ w \in D
  BY DEF Dividing
<1> DEFINE T == {i \in 0 .. n : g[i][p] = p}
<1>1. p \in SUBSET Nat
  OBVIOUS
<1>2. 0 \in T
  BY <1>0, <1>1, DividesNext
<1>3. \A i \in 1 .. n : i - 1 \in T => i \in T
  <2> SUFFICES ASSUME NEW i \in 1 .. n, i - 1 \in T  PROVE i \in T
    OBVIOUS
  <2>1. v + i - 1 \in Nat /\ v + i - 1 >= w /\ p \subseteq 0 .. v + i - 1 - 1
    BY <1>0
  <2>2. Cancelled(p, v + i - 1, D, w) = p
    BY <1>0, <1>1, <2>1, CancelledIs
  <2>3. g[i][p] = g[i - 1][Cancelled(p, v + i - 1, D, w)]
    BY <1>1, DividesNext
  <2> QED BY <2>2, <2>3
<1> HIDE DEF T
<1>4. \A i \in 0 .. n : i \in T
  BY <1>0, <1>2, <1>3, Climbing
<1> QED BY <1>4 DEF T

LEMMA DividesFit ==
  ASSUME NEW g, NEW D, NEW w, NEW v, NEW n, Dividing(g, D, w, v, n), NEW m \in 0 .. n, NEW p \in SUBSET (0 .. v + m - 1)
  PROVE  g[m][p] \in SUBSET (0 .. v - 1)
<1>0. w \in Nat /\ v \in Nat /\ v >= w /\ n \in Nat /\ D \in SUBSET (0 .. w) /\ w \in D
  BY DEF Dividing
<1> DEFINE T == {i \in 0 .. n : \A q \in SUBSET (0 .. v + i - 1) : g[i][q] \in SUBSET (0 .. v - 1)}
<1>2. 0 \in T
  <2>1. ASSUME NEW q \in SUBSET (0 .. v + 0 - 1)  PROVE g[0][q] \in SUBSET (0 .. v - 1)
    <3>1. q \in SUBSET Nat /\ v + 0 - 1 = v - 1
      BY <1>0
    <3>2. g[0][q] = q
      BY <3>1, DividesNext
    <3> QED BY <3>1, <3>2
  <2> QED BY <2>1, <1>0
<1>3. \A i \in 1 .. n : i - 1 \in T => i \in T
  <2> SUFFICES ASSUME NEW i \in 1 .. n, i - 1 \in T, NEW q \in SUBSET (0 .. v + i - 1)  PROVE g[i][q] \in SUBSET (0 .. v - 1)
    OBVIOUS
  <2> DEFINE c == Cancelled(q, v + i - 1, D, w)
  <2>1. v + i - 1 \in Nat /\ v + i - 1 >= w /\ q \in SUBSET Nat
    BY <1>0
  <2>2. c \subseteq 0 .. v + i - 1 - 1
    BY <1>0, <2>1, CancelledIs
  <2>3. g[i][q] = g[i - 1][c]
    BY <2>1, DividesNext
  <2> HIDE DEF c
  <2>4. v + i - 1 - 1 = v + (i - 1) - 1
    BY <1>0
  <2>5. c \in SUBSET (0 .. v + (i - 1) - 1)
    BY <2>2, <2>4
  <2>6. \A x \in SUBSET (0 .. v + (i - 1) - 1) : g[i - 1][x] \in SUBSET (0 .. v - 1)
    OBVIOUS
  <2> QED BY <2>3, <2>5, <2>6
<1> HIDE DEF T
<1>4. \A i \in 0 .. n : i \in T
  BY <1>0, <1>2, <1>3, Climbing
<1> QED BY <1>4 DEF T

\* Division is linear.
LEMMA DividesDiff ==
  ASSUME NEW g, NEW D, NEW w, NEW v, NEW n, Dividing(g, D, w, v, n), NEW m \in 0 .. n,
         NEW a \in SUBSET Nat, NEW b \in SUBSET Nat
  PROVE  g[m][SymDiff(a, b)] = SymDiff(g[m][a], g[m][b])
<1>0. w \in Nat /\ v \in Nat /\ v >= w /\ n \in Nat /\ D \in SUBSET (0 .. w) /\ w \in D
  BY DEF Dividing
<1> DEFINE T == {i \in 0 .. n : \A x, y \in SUBSET Nat : g[i][SymDiff(x, y)] = SymDiff(g[i][x], g[i][y])}
<1>2. 0 \in T
  <2>1. ASSUME NEW x \in SUBSET Nat, NEW y \in SUBSET Nat  PROVE g[0][SymDiff(x, y)] = SymDiff(g[0][x], g[0][y])
    <3>1. SymDiff(x, y) \in SUBSET Nat
      BY DiffIn
    <3> QED BY <3>1, DividesNext
  <2> QED BY <2>1, <1>0
<1>3. \A i \in 1 .. n : i - 1 \in T => i \in T
  <2> SUFFICES ASSUME NEW i \in 1 .. n, i - 1 \in T, NEW x \in SUBSET Nat, NEW y \in SUBSET Nat
               PROVE  g[i][SymDiff(x, y)] = SymDiff(g[i][x], g[i][y])
    OBVIOUS
  <2> DEFINE C(q) == Cancelled(q, v + i - 1, D, w)
             s == SymDiff(x, y)
  <2>1. v + i - 1 \in Nat /\ v + i - 1 >= w /\ s \in SUBSET Nat
    BY <1>0 DEF SymDiff
  <2>2. C(s) = SymDiff(C(x), C(y))
    BY <1>0, <2>1, CancelledDiff
  <2>3. g[i][x] = g[i - 1][C(x)] /\ g[i][y] = g[i - 1][C(y)] /\ g[i][s] = g[i - 1][C(s)]
    BY <2>1, DividesNext
  <2>4. C(x) \in SUBSET Nat /\ C(y) \in SUBSET Nat
    BY <2>1, DividesNext
  <2> HIDE DEF C
  <2>5. g[i - 1][SymDiff(C(x), C(y))] = SymDiff(g[i - 1][C(x)], g[i - 1][C(y)])
    BY <2>4
  <2> QED BY <2>2, <2>3, <2>5
<1> HIDE DEF T
<1>4. \A i \in 0 .. n : i \in T
  BY <1>0, <1>2, <1>3, Climbing
<1> QED BY <1>4 DEF T

\* Of a multiple nothing is left.
LEMMA DividesMultiple ==
  ASSUME NEW g, NEW D, NEW w, NEW v, NEW n, Dividing(g, D, w, v, n), NEW m \in 0 .. n, NEW j \in Nat,
         w + j >= v, w + j < v + m
  PROVE  g[m][Up(D, j)] = {}
<1>0. w \in Nat /\ v \in Nat /\ v >= w /\ n \in Nat /\ D \in SUBSET (0 .. w) /\ w \in D /\ D \in SUBSET Nat
  BY DEF Dividing
<1> DEFINE u == Up(D, j)
           T == {i \in 0 .. n : w + j < v + i => g[i][u] = {}}
<1>1. u \in SUBSET Nat /\ u \subseteq 0 .. w + j /\ w + j \in u
  <2>1. (w + j) - j = w
    BY <1>0
  <2>2. u \in SUBSET Nat /\ \A x \in Nat : x \in u <=> x - j \in D
    BY <1>0, InUp
  <2>3. w + j \in u
    BY <2>1, <2>2, <1>0
  <2>4. ASSUME NEW x \in u  PROVE x \in 0 .. w + j
    BY <2>2, <1>0
  <2> QED BY <2>2, <2>3, <2>4
<1> HIDE DEF u
<1>2. 0 \in T
  BY <1>0
<1>3. \A i \in 1 .. n : i - 1 \in T => i \in T
  <2> SUFFICES ASSUME NEW i \in 1 .. n, i - 1 \in T, w + j < v + i  PROVE g[i][u] = {}
    OBVIOUS
  <2> DEFINE k == v + i - 1
  <2>1. k \in Nat /\ k >= w /\ i - 1 \in 0 .. n /\ g[i][u] = g[i - 1][Cancelled(u, k, D, w)]
    BY <1>1, <1>0, DividesNext
  <2>2. CASE w + j = k
    <3>1. k \in u /\ k - w = j
      BY <2>2, <1>1, <1>0
    <3>2. Cancelled(u, k, D, w) = SymDiff(u, u)
      BY <3>1 DEF Cancelled, u
    <3>3. SymDiff(u, u) = {}
      BY DEF SymDiff
    <3>4. {} \in SUBSET (0 .. v - 1)
      OBVIOUS
    <3>5. g[i - 1][{}] = {}
      BY <2>1, <3>4, DividesSmall
    <3> QED BY <2>1, <3>2, <3>3, <3>5
  <2>3. CASE w + j # k
    <3>1. w + j < k /\ w + j < v + (i - 1)
      BY <2>3, <1>0
    <3>2. u \subseteq 0 .. k - 1
      BY <3>1, <1>1, <1>0, <2>1
    <3>3. Cancelled(u, k, D, w) = u
      BY <3>2, <1>0, <1>1, <2>1, CancelledIs
    <3> QED BY <2>1, <3>1, <3>3
  <2> QED BY <2>2, <2>3
<1> HIDE DEF T
<1>4. \A i \in 0 .. n : i \in T
  BY <1>0, <1>2, <1>3, Climbing
<1>5. m \in T
  BY <1>4
<1> QED BY <1>5 DEF T, u

\* More steps than needed change nothing.
LEMMA DividesSteady ==
  ASSUME NEW g, NEW D, NEW w, NEW v, NEW n, Dividing(g, D, w, v, n), NEW m \in 0 .. n, NEW k \in m .. n,
         NEW p \in SUBSET (0 .. v + m - 1)
  PROVE  g[k][p] = g[m][p]
<1>0. w \in Nat /\ v \in Nat /\ v >= w /\ n \in Nat /\ D \in SUBSET (0 .. w) /\ w \in D /\ p \in SUBSET Nat
  BY DEF Dividing
<1> DEFINE T == {i \in 0 .. n : i >= m => g[i][p] = g[m][p]}
<1>2. 0 \in T
  <2>1. 0 >= m => m = 0
    OBVIOUS
  <2> QED BY <2>1, <1>0
<1>3. \A i \in 1 .. n : i - 1 \in T => i \in T
  <2> SUFFICES ASSUME NEW i \in 1 .. n, i - 1 \in T, i >= m  PROVE g[i][p] = g[m][p]
    OBVIOUS
  <2>1. CASE i = m
    BY <2>1
  <2>2. CASE i # m
    <3>1. i - 1 >= m /\ v + i - 1 \in Nat /\ v + i - 1 >= w
      BY <2>2, <1>0
    <3>2. p \subseteq 0 .. v + i - 1 - 1
      BY <3>1, <1>0
    <3>3. Cancelled(p, v + i - 1, D, w) = p
      BY <3>1, <3>2, <1>0, CancelledIs
    <3>4. g[i][p] = g[i - 1][Cancelled(p, v + i - 1, D, w)]
      BY <1>0, DividesNext
    <3> QED BY <3>1, <3>3, <3>4
  <2> QED BY <2>1, <2>2
<1> HIDE DEF T
<1>4. \A i \in 0 .. n : i \in T
  BY <1>0, <1>2, <1>3, Climbing
<1>5. k \in T /\ k >= m
  BY <1>4
<1> QED BY <1>5 DEF T

\* The step at one coefficient.
LEMMA DividesAt ==
  ASSUME NEW g, NEW D, NEW w, NEW v, NEW n, Dividing(g, D, w, v, n), NEW m \in 1 .. n, NEW p \in SUBSET Nat,
         NEW k, k = v + m - 1
  PROVE  k \in Nat /\ k >= w /\ Cancelled(p, k, D, w) \in SUBSET Nat /\ g[m][p] = g[m - 1][Cancelled(p, k, D, w)]
<1>1. \A i \in 1 .. n, q \in SUBSET Nat :
        /\ v + i - 1 \in Nat /\ v + i - 1 >= w
        /\ Cancelled(q, v + i - 1, D, w) \in SUBSET Nat
        /\ g[i][q] = g[i - 1][Cancelled(q, v + i - 1, D, w)]
  BY ONLY Dividing(g, D, w, v, n), DividesNext
<1>2. /\ v + m - 1 \in Nat /\ v + m - 1 >= w
      /\ Cancelled(p, v + m - 1, D, w) \in SUBSET Nat
      /\ g[m][p] = g[m - 1][Cancelled(p, v + m - 1, D, w)]
  BY ONLY <1>1, m \in 1 .. n, p \in SUBSET Nat
<1> QED BY ONLY <1>2, k = v + m - 1

\* Division of what is j higher gives what is j higher.
LEMMA DividesUp ==
  ASSUME NEW g, NEW h, NEW D, NEW w, NEW n, NEW j \in Nat, Dividing(g, D, w, w, n), Dividing(h, D, w, w + j, n),
         NEW m \in 0 .. n, NEW a \in SUBSET Nat
  PROVE  h[m][Up(a, j)] = Up(g[m][a], j)
<1>0. w \in Nat /\ n \in Nat /\ D \in SUBSET (0 .. w) /\ w \in D
  BY DEF Dividing
<1> DEFINE T == {i \in 0 .. n : \A p \in SUBSET Nat : h[i][Up(p, j)] = Up(g[i][p], j)}
<1>2. 0 \in T
  <2>1. ASSUME NEW p \in SUBSET Nat  PROVE h[0][Up(p, j)] = Up(g[0][p], j)
    <3>1. Up(p, j) \in SUBSET Nat
      BY InUp
    <3>2. g[0][p] = p
      BY DividesNext
    <3>3. h[0][Up(p, j)] = Up(p, j)
      BY <3>1, DividesNext
    <3> QED BY <3>2, <3>3
  <2> QED BY <2>1, <1>0
<1>3. \A i \in 1 .. n : i - 1 \in T => i \in T
  <2> SUFFICES ASSUME NEW i \in 1 .. n, i - 1 \in T  PROVE i \in T
    OBVIOUS
  <2> SUFFICES ASSUME NEW p \in SUBSET Nat  PROVE h[i][Up(p, j)] = Up(g[i][p], j)
    BY <1>0
  <2> DEFINE k == w + i - 1
             l == w + j + i - 1
             c == Cancelled(p, k, D, w)
  <2>1. k \in Nat /\ k >= w /\ l = k + j /\ Up(p, j) \in SUBSET Nat
    BY <1>0, InUp
  <2>2. g[i][p] = g[i - 1][c] /\ c \in SUBSET Nat
    <3>1. Dividing(g, D, w, w, n) /\ i \in 1 .. n /\ p \in SUBSET Nat /\ k = w + i - 1
      OBVIOUS
    <3> HIDE DEF k
    <3> QED BY ONLY <3>1, DividesAt
  <2>3. h[i][Up(p, j)] = h[i - 1][Cancelled(Up(p, j), l, D, w)]
    <3>1. Dividing(h, D, w, w + j, n) /\ i \in 1 .. n /\ Up(p, j) \in SUBSET Nat /\ l = (w + j) + i - 1
      BY <2>1
    <3> HIDE DEF l
    <3> QED BY ONLY <3>1, DividesAt
  <2> HIDE DEF k, l
  <2>4. Cancelled(Up(p, j), k + j, D, w) = Up(c, j)
    BY <1>0, <2>1, CancelledUp
  <2> HIDE DEF c
  <2>5. h[i - 1][Up(c, j)] = Up(g[i - 1][c], j)
    BY <2>2
  <2> QED BY <2>1, <2>2, <2>3, <2>4, <2>5
<1> HIDE DEF T
<1>4. \A i \in 0 .. n : i \in T
  BY <1>0, <1>2, <1>3, Climbing
<1> QED BY <1>4 DEF T

\* Multiples that are added make no difference.
LEMMA DividesModulo ==
  ASSUME NEW g, NEW D, NEW w, NEW v, NEW n, Dividing(g, D, w, v, n), NEW m \in 0 .. n, NEW a \in SUBSET Nat,
         NEW j \in Nat, w + j >= v, w + j < v + m
  PROVE  g[m][SymDiff(a, Up(D, j))] = g[m][a]
<1>0. D \in SUBSET Nat
  BY DEF Dividing
<1> DEFINE u == Up(D, j)
<1>1. u \in SUBSET Nat
  BY <1>0, InUp
<1>2. g[m][u] = {}
  BY DividesMultiple
<1> HIDE DEF u
<1>3. g[m][SymDiff(a, u)] = SymDiff(g[m][a], g[m][u])
  BY <1>1, DividesDiff
<1>4. SymDiff(g[m][a], {}) = g[m][a]
  BY DEF SymDiff
<1> QED BY <1>2, <1>3, <1>4 DEF u

\* Nor does dividing before what is left is made k higher.
LEMMA DividesTwice ==
  ASSUME NEW g, NEW D, NEW w, NEW v, NEW n, Dividing(g, D, w, v, n), NEW m \in 0 .. n, NEW k \in Nat, m + k <= n,
         NEW p \in SUBSET (0 .. v + m - 1)
  PROVE  g[n][Up(p, k)] = g[n][Up(g[m][p], k)]
<1>0. w \in Nat /\ v \in Nat /\ v >= w /\ n \in Nat /\ D \in SUBSET (0 .. w) /\ w \in D /\ D \in SUBSET Nat
  BY DEF Dividing
<1> DEFINE T == {i \in 0 .. n : i + k <= n => \A q \in SUBSET (0 .. v + i - 1) : g[n][Up(q, k)] = g[n][Up(g[i][q], k)]}
<1>2. 0 \in T
  <2>1. ASSUME NEW q \in SUBSET (0 .. v + 0 - 1)  PROVE g[n][Up(q, k)] = g[n][Up(g[0][q], k)]
    <3>1. q \in SUBSET Nat
      BY <1>0
    <3>2. g[0][q] = q
      BY <3>1, DividesNext
    <3> QED BY <3>2
  <2> QED BY <2>1, <1>0
<1>3. \A i \in 1 .. n : i - 1 \in T => i \in T
  <2> SUFFICES ASSUME NEW i \in 1 .. n, i - 1 \in T, i + k <= n, NEW q \in SUBSET (0 .. v + i - 1)
               PROVE  g[n][Up(q, k)] = g[n][Up(g[i][q], k)]
    OBVIOUS
  <2> DEFINE l == v + i - 1
             c == Cancelled(q, l, D, w)
             j == l - w
  <2>1. l \in Nat /\ l >= w /\ j \in Nat /\ q \in SUBSET Nat /\ q \subseteq 0 .. l /\ l - 1 = v + (i - 1) - 1
    BY <1>0
  <2>2. g[i][q] = g[i - 1][c] /\ c \in SUBSET Nat
    BY <2>1, DividesNext
  <2>3. c \subseteq 0 .. l - 1 /\ (c = q \/ c = SymDiff(q, Up(D, l - w)))
    BY <1>0, <2>1, CancelledIs
  <2>4. w + (j + k) >= v /\ w + (j + k) < v + n /\ j + k \in Nat
    BY <1>0
  <2>5. SymDiff(q, Up(D, l - w)) = SymDiff(q, Up(D, j))
    OBVIOUS
  <2> HIDE DEF c
  <2>6. g[n][Up(c, k)] = g[n][Up(g[i - 1][c], k)]
    <3>1. c \in SUBSET (0 .. v + (i - 1) - 1)
      BY <2>1, <2>3
    <3>2. (i - 1) + k <= n
      BY <1>0
    <3>3. (i - 1) + k <= n => \A x \in SUBSET (0 .. v + (i - 1) - 1) : g[n][Up(x, k)] = g[n][Up(g[i - 1][x], k)]
      OBVIOUS
    <3> QED BY <3>1, <3>2, <3>3
  <2> HIDE DEF j, l
  <2>7. g[n][Up(c, k)] = g[n][Up(q, k)]
    <3>1. CASE c = q
      BY <3>1
    <3>2. CASE c = SymDiff(q, Up(D, j))
      <4> DEFINE u == Up(D, j)
      <4>1. u \in SUBSET Nat
        BY <1>0, <2>1, InUp
      <4>2. Up(u, k) = Up(D, j + k)
        <5> DEFINE r == j + k
        <5>1. D \in SUBSET Nat /\ j \in Nat /\ k \in Nat /\ r = j + k
          BY <1>0, <2>1
        <5> HIDE DEF r, u
        <5>2. Up(Up(D, j), k) = Up(D, r)
          BY ONLY <5>1, UpTwice
        <5> QED BY <5>2 DEF r, u
      <4> HIDE DEF u
      <4>3. Up(SymDiff(q, u), k) = SymDiff(Up(q, k), Up(u, k)) /\ Up(q, k) \in SUBSET Nat
        BY <2>1, <4>1, UpDiff, InUp
      <4> DEFINE r == j + k
                 y == Up(q, k)
      <4>4. r \in Nat /\ w + r >= v /\ w + r < v + n /\ n \in 0 .. n
        BY <2>4, <1>0
      <4>5. y \in SUBSET Nat
        BY <4>3
      <4> HIDE DEF r, y
      <4>6. g[n][SymDiff(y, Up(D, r))] = g[n][y]
        BY <4>4, <4>5, DividesModulo
      <4> QED BY <3>2, <4>2, <4>3, <4>6 DEF r, y, u
    <3> QED BY <3>1, <3>2, <2>3, <2>5
  <2> QED BY <2>2, <2>6, <2>7
<1> HIDE DEF T
<1>4. \A i \in 0 .. n : i \in T
  BY <1>0, <1>2, <1>3, Climbing
<1>5. m \in T
  BY <1>4
<1> QED BY <1>5 DEF T

\* Of some numbers below a bound, one is greatest.
LEMMA MaxIs ==
  ASSUME NEW k \in Nat, NEW S \in SUBSET (0 .. k), S # {}
  PROVE  Max(S) \in S /\ \A x \in S : x <= Max(S)
<1> DEFINE R == {y \in Nat : k - y \in S}
<1>1. PICK z \in S : TRUE
  OBVIOUS
<1>2. k - z \in Nat /\ k - (k - z) = z
  OBVIOUS
<1>3. R \in SUBSET Nat /\ R # {}
  BY <1>2
<1>4. \A y \in R : k - y \in S
  OBVIOUS
<1>5. \A x \in S : k - x \in R
  <2> SUFFICES ASSUME NEW x \in S  PROVE k - x \in R
    OBVIOUS
  <2>1. k - x \in Nat /\ k - (k - x) = x
    OBVIOUS
  <2> QED BY <2>1
<1> HIDE DEF R
<1>6. PICK m \in R : \A y \in R : m <= y
  BY <1>3, LeastIs
<1>7. k - m \in S /\ \A x \in S : k - m >= x
  <2>1. k - m \in S /\ m \in Nat
    BY <1>3, <1>4
  <2>2. ASSUME NEW x \in S  PROVE k - m >= x
    <3>1. m <= k - x /\ x \in Nat
      BY <1>5, <1>6
    <3> QED BY <3>1, <2>1
  <2> QED BY <2>1, <2>2
<1>8. Max(S) \in S /\ \A x \in S : Max(S) >= x
  BY <1>7 DEF Max
<1> QED BY <1>8

\* Long division leaves what the steps leave.
LEMMA ModuloIs ==
  ASSUME NEW g, NEW D, NEW w, NEW n, n # 0, Dividing(g, D, w, w, n), NEW p \in SUBSET (0 .. w + n - 1)
  PROVE  Modulo(p, D, w) = g[n][p]
<1>0. w \in Nat /\ n \in Nat \ {0} /\ D \in SUBSET (0 .. w) /\ w \in D /\ p \in SUBSET Nat
  BY DEF Dividing
<1> DEFINE S == SUBSET Nat
           top == Max(p \cup {w})
           m == top - w + 1
           Eq(f) == f = [k \in 0 .. m |-> IF k = 0 THEN p ELSE Cancelled(f[k - 1], top + 1 - k, D, w)]
           left == CHOOSE f : Eq(f)
           h == [x \in S \X (1 .. m) |-> Cancelled(x[1], top + 1 - x[2], D, w)]
<1>1. Modulo(p, D, w) = left[m]
  BY DEF Modulo
<1>2. top \in 0 .. w + n - 1 /\ top >= w /\ p \subseteq 0 .. top
  <2>1. w + n - 1 \in Nat /\ p \cup {w} \in SUBSET (0 .. w + n - 1) /\ p \cup {w} # {}
    BY <1>0
  <2>2. top \in p \cup {w} /\ \A x \in p \cup {w} : x <= top
    BY <2>1, MaxIs
  <2> HIDE DEF top
  <2>3. top \in 0 .. w + n - 1
    BY <2>1, <2>2
  <2>4. ASSUME NEW x \in p  PROVE x \in 0 .. top
    BY <2>2, <2>3, <1>0
  <2> QED BY <2>2, <2>3, <2>4
<1> HIDE DEF top
<1>3. m \in 1 .. n /\ m \in Nat /\ w + m - 1 = top /\ top \in Nat
  BY <1>0, <1>2
<1>4. ASSUME NEW k \in 1 .. m  PROVE top + 1 - k \in Nat /\ top + 1 - k >= w /\ top + 1 - k = w + (m - k + 1) - 1 /\ m - k + 1 \in 1 .. n
  BY <1>0, <1>2, <1>3
<1> HIDE DEF m
<1>5. ASSUME NEW k \in 1 .. m, NEW s \in S  PROVE Cancelled(s, top + 1 - k, D, w) \in S
  BY <1>0, <1>4, CancelledIs
<1>6. Eq(left)
  <2>1. h \in [S \X (1 .. m) -> S]
    <3>1. ASSUME NEW x \in S \X (1 .. m)  PROVE Cancelled(x[1], top + 1 - x[2], D, w) \in S
      <4>1. x[1] \in S /\ x[2] \in 1 .. m
        OBVIOUS
      <4> QED BY <4>1, <1>5
    <3> QED BY <3>1
  <2>2. ASSUME NEW s \in S, NEW k \in 1 .. m  PROVE h[<<s, k>>] = Cancelled(s, top + 1 - k, D, w)
    <3>1. <<s, k>> \in S \X (1 .. m)
      OBVIOUS
    <3> QED BY <3>1
  <2> HIDE DEF h
  <2>3. PICK f : RunsFrom(f, S, p, m, h)
    BY <1>0, <1>3, <2>1, Recursion
  <2>4. f \in [0 .. m -> S] /\ f[0] = p /\ \A k \in 1 .. m : f[k] = h[<<f[k - 1], k>>]
    BY <2>3 DEF RunsFrom
  <2>5. ASSUME NEW k \in 0 .. m  PROVE f[k] = IF k = 0 THEN p ELSE Cancelled(f[k - 1], top + 1 - k, D, w)
    <3>1. CASE k = 0
      BY <3>1, <2>4
    <3>2. CASE k # 0
      <4>1. k \in 1 .. m /\ k - 1 \in 0 .. m
        BY <3>2, <1>3
      <4>2. f[k - 1] \in S
        BY <4>1, <2>4
      <4> QED BY <4>1, <4>2, <2>2, <2>4, <3>2
    <3> QED BY <3>1, <3>2
  <2>6. f = [k \in 0 .. m |-> f[k]]
    BY <2>4
  <2>7. Eq(f)
    BY <2>5, <2>6
  <2> HIDE DEF Eq
  <2>8. \E e : Eq(e)
    BY <2>7
  <2> QED BY <2>8
<1> HIDE DEF left
<1>7. left[0] = p /\ \A k \in 1 .. m : left[k] = Cancelled(left[k - 1], top + 1 - k, D, w)
  BY <1>3, <1>6
<1> HIDE DEF Eq
<1> DEFINE T == {k \in 0 .. m : left[k] \in S /\ g[m - k][left[k]] = g[m][p]}
<1>8. 0 \in T
  <2>1. m - 0 = m /\ 0 \in 0 .. m
    BY <1>3
  <2> QED BY <2>1, <1>0, <1>7
<1>9. \A k \in 1 .. m : k - 1 \in T => k \in T
  <2> SUFFICES ASSUME NEW k \in 1 .. m, k - 1 \in T  PROVE k \in T
    OBVIOUS
  <2> DEFINE q == left[k - 1]
             l == m - k + 1
  <2>1. q \in S /\ m - (k - 1) = l /\ l - 1 = m - k
    BY <1>3
  <2>2. g[m - (k - 1)][q] = g[m][p]
    OBVIOUS
  <2>3. l \in 1 .. n /\ top + 1 - k = w + l - 1
    BY <1>4
  <2>4. left[k] = Cancelled(q, top + 1 - k, D, w)
    BY <1>7
  <2> HIDE DEF q, l
  <2>5. g[l][q] = g[l - 1][Cancelled(q, w + l - 1, D, w)]
    BY <2>1, <2>3, DividesNext
  <2>6. left[k] \in S
    BY <2>1, <2>4, <1>5
  <2> QED BY <2>1, <2>2, <2>3, <2>4, <2>5, <2>6
<1> HIDE DEF T
<1>10. \A k \in 0 .. m : k \in T
  BY <1>3, <1>8, <1>9, Climbing
<1>11. left[m] \in S /\ g[m - m][left[m]] = g[m][p] /\ m - m = 0
  <2>1. m \in T
    BY <1>3, <1>10
  <2> QED BY <2>1, <1>3 DEF T
<1>12. g[0][left[m]] = left[m]
  BY <1>11, DividesNext
<1>13. g[n][p] = g[m][p]
  <2>1. p \in SUBSET (0 .. w + m - 1) /\ m \in 0 .. n /\ n \in m .. n
    BY <1>0, <1>2, <1>3
  <2> QED BY <2>1, DividesSteady
<1> QED BY <1>1, <1>11, <1>12, <1>13

-----------------------------------------------------------------------------
(* The CRC: the register. *)

\* A model's values fit its register.
Modelled(m) ==
  m.width \in Nat \ {0} /\ m.poly \in SUBSET (0 .. m.width - 1) /\ m.init \in SUBSET (0 .. m.width - 1)

\* The polynomial with its highest term.
Divisor(m) == m.poly \cup {m.width}

LEMMA LayoutIs ==
  ASSUME NEW m, Modelled(m), NEW l, l = RegisterLayout(m)
  PROVE  /\ l.justify \in Nat /\ l.width \in Nat \ {0} /\ l.width = m.width + l.justify /\ l.width >= OctetBits
         /\ OctetBits \in Nat \ {0} /\ l.poly = Up(m.poly, l.justify) /\ l.init = Up(m.init, l.justify)
         /\ m.width \in Nat /\ m.width <= l.width /\ Divisor(m) \in SUBSET (0 .. m.width) /\ m.width \in Divisor(m)
         /\ l.width \in {m.width, OctetBits}
<1>1. OctetBits \in Nat \ {0} /\ m.width \in Nat \ {0} /\ m.poly \in SUBSET (0 .. m.width - 1)
  BY OctetsHaveBits DEF Modelled
<1> DEFINE j == IF m.width >= OctetBits THEN 0 ELSE OctetBits - m.width
<1>2. l = [width |-> m.width + j, poly |-> Up(m.poly, j), init |-> Up(m.init, j), justify |-> j]
  BY DEF RegisterLayout
<1>3. j \in Nat /\ m.width + j \in Nat \ {0} /\ m.width + j >= OctetBits /\ m.width + j \in {m.width, OctetBits} /\ m.width <= m.width + j
  BY <1>1
<1> HIDE DEF j
<1>4. Divisor(m) \in SUBSET (0 .. m.width) /\ m.width \in Divisor(m)
  BY <1>1 DEF Divisor
<1> QED BY <1>1, <1>2, <1>3, <1>4

\* A step of the register is one of the division.
LEMMA SteppedIs ==
  ASSUME NEW m, Modelled(m), NEW l, l = RegisterLayout(m), NEW c \in SUBSET (0 .. l.width - 1)
  PROVE  Stepped(l, c) = Cancelled(Up(c, 1), l.width, Divisor(m), m.width) /\ Stepped(l, c) \in SUBSET (0 .. l.width - 1)
<1> DEFINE W == l.width
           J == l.justify
           w == m.width
           D == Divisor(m)
           P == l.poly
           u == Up(c, 1)
<1>1. /\ J \in Nat /\ W \in Nat \ {0} /\ W = w + J /\ w \in Nat /\ P = Up(m.poly, J) /\ w <= W
      /\ D \in SUBSET (0 .. w) /\ w \in D
  BY LayoutIs
<1>2. m.poly \in SUBSET (0 .. w - 1) /\ D = m.poly \cup {w}
  BY DEF Modelled, Divisor
<1> HIDE DEF W, J, w, D, P
<1>3. W - w = J /\ c \in SUBSET (0 .. W - 1) /\ c \in SUBSET Nat /\ 1 \in Nat
  BY <1>1 DEF W
<1>4. u \in SUBSET Nat /\ (W \in u <=> W - 1 \in c)
  BY <1>1, <1>3, InUp
<1>5. u \subseteq 0 .. W
  <2>1. ASSUME NEW x \in u  PROVE x \in 0 .. W
    <3>1. PICK i \in c : x = i + 1
      BY DEF Up
    <3> QED BY <3>1, <1>3, <1>1
  <2> QED BY <2>1
<1> HIDE DEF u
<1>6. Up(D, J) = P \cup {W}
  <2>1. D = m.poly \cup {w}
    BY <1>2
  <2>2. ASSUME NEW x  PROVE x \in Up(D, J) <=> x \in P \/ x = w + J
    BY <1>1, <2>1 DEF Up
  <2> QED BY <2>2, <1>1
<1>7. P \subseteq 0 .. W - 1
  <2>1. ASSUME NEW x \in P  PROVE x \in 0 .. W - 1
    <3>1. PICK i \in m.poly : x = i + J
      BY <1>1 DEF Up
    <3> QED BY <3>1, <1>1, <1>2
  <2> QED BY <2>1
<1>8. Masked(u, W) = u \ {W}
  <2>1. ASSUME NEW x \in u  PROVE x < W <=> x # W
    <3>1. x \in 0 .. W
      BY <1>5
    <3> QED BY <3>1, <1>1
  <2> QED BY <2>1 DEF Masked
<1>9. Stepped(l, c) = IF W \in u THEN SymDiff(u \ {W}, P) ELSE u \ {W}
  BY <1>4, <1>8 DEF Stepped, W, P, u
<1>10. W \notin P
  BY <1>7, <1>1
<1>11. W \in u => SymDiff(u \ {W}, P) = SymDiff(u, P \cup {W})
  BY <1>10 DEF SymDiff
<1>12. W \notin u => u \ {W} = u
  OBVIOUS
<1>13. Stepped(l, c) = Cancelled(u, W, D, w)
  BY <1>3, <1>6, <1>9, <1>11, <1>12 DEF Cancelled
<1>14. Cancelled(u, W, D, w) \subseteq 0 .. W - 1
  <2>1. W \in Nat /\ W >= w
    BY <1>1
  <2> QED BY <2>1, <1>1, <1>4, <1>5, CancelledIs
<1> QED BY <1>13, <1>14 DEF W, D, w, u

\* And k higher, it leaves what its argument leaves that is k + 1 higher.
LEMMA SteppedLeaves ==
  ASSUME NEW m, Modelled(m), NEW l, l = RegisterLayout(m), NEW n,
         NEW h, Dividing(h, Divisor(m), m.width, l.width, n), NEW c \in SUBSET (0 .. l.width - 1), NEW k \in Nat, k < n
  PROVE  h[n][Up(Stepped(l, c), k)] = h[n][Up(c, k + 1)]
<1> DEFINE W == l.width
           J == l.justify
           w == m.width
           D == Divisor(m)
           u == Up(c, 1)
           e == k + 1
           y == Up(c, e)
<1>1. /\ J \in Nat /\ W \in Nat \ {0} /\ W = w + J /\ w \in Nat /\ w <= W
      /\ D \in SUBSET (0 .. w) /\ w \in D
  BY LayoutIs
<1>2. Stepped(l, c) = Cancelled(u, W, D, w)
  BY SteppedIs
<1>3. Dividing(h, D, w, W, n) /\ c \in SUBSET (0 .. W - 1)
  OBVIOUS
<1> HIDE DEF W, J, w, D
<1>4. c \in SUBSET Nat /\ D \in SUBSET Nat /\ 1 \in Nat /\ e \in Nat /\ e = 1 + k /\ W - w = J /\ W \in Nat /\ W >= w /\ n \in Nat
  BY <1>1, <1>3 DEF Dividing
<1> HIDE DEF e
<1>5. u \in SUBSET Nat /\ y \in SUBSET Nat
  BY <1>4, InUp
<1>6. Up(u, k) = y
  BY <1>4, UpTwice
<1>7. Cancelled(u, W, D, w) = u \/ Cancelled(u, W, D, w) = SymDiff(u, Up(D, J))
  BY <1>1, <1>4, <1>5, CancelledIs
<1>8. CASE Stepped(l, c) = u
  BY <1>6, <1>8 DEF e
<1>9. CASE Stepped(l, c) = SymDiff(u, Up(D, J))
  <2> DEFINE r == J + k
             z == Up(D, J)
  <2>1. r \in Nat /\ w + r >= W /\ w + r < W + n /\ n \in 0 .. n
    BY <1>1, <1>4
  <2>2. z \in SUBSET Nat
    BY <1>1, <1>4, InUp
  <2>3. Up(z, k) = Up(D, r)
    <3>1. r = J + k
      OBVIOUS
    <3> HIDE DEF r, z
    <3>2. Up(Up(D, J), k) = Up(D, r)
      BY <1>1, <1>4, <3>1, UpTwice
    <3> QED BY <3>2 DEF z
  <2> HIDE DEF r, z, u, y
  <2>4. Up(SymDiff(u, z), k) = SymDiff(Up(u, k), Up(z, k))
    BY <1>5, <2>2, UpDiff
  <2>5. h[n][SymDiff(y, Up(D, r))] = h[n][y]
    BY <1>3, <1>5, <2>1, DividesModulo
  <2> QED BY <1>6, <1>9, <2>3, <2>4, <2>5 DEF z, y, e
<1> QED BY <1>2, <1>7, <1>8, <1>9

\* An entry of the table is what is left of its index put above the register.
LEMMA EntryIs ==
  ASSUME NEW m, Modelled(m), NEW l, l = RegisterLayout(m), NEW n, OctetBits <= n,
         NEW h, Dividing(h, Divisor(m), m.width, l.width, n), NEW index \in SUBSET (0 .. OctetBits - 1)
  PROVE  Entry(l, index) = h[n][Up(index, l.width)]
<1> DEFINE W == l.width
           B == OctetBits
           S == SUBSET (0 .. W - 1)
           c == Up(index, W - B)
           Eq(f) == f = [bit \in 0 .. B |-> IF bit = 0 THEN c ELSE Stepped(l, f[bit - 1])]
           crc == CHOOSE f : Eq(f)
           s == [x \in S \X (1 .. B) |-> Stepped(l, x[1])]
<1>0. Entry(l, index) = crc[B]
  BY DEF Entry
<1>1. W \in Nat \ {0} /\ B \in Nat \ {0} /\ W >= B /\ n \in Nat
  BY LayoutIs DEF Dividing
<1>2. Dividing(h, Divisor(m), m.width, W, n)
  OBVIOUS
<1>3. \A x \in S : Stepped(l, x) \in S
  BY SteppedIs
<1>4. ASSUME NEW x \in S, NEW k \in Nat, k < n  PROVE h[n][Up(Stepped(l, x), k)] = h[n][Up(x, k + 1)]
  BY <1>4, SteppedLeaves
<1> HIDE DEF W, B
<1>5. W - B \in Nat /\ index \in SUBSET (0 .. B - 1) /\ index \in SUBSET Nat /\ B + (W - B) - 1 = W - 1 /\ (W - B) + B = W
  BY <1>1 DEF B
<1>6. c \in S
  <2> DEFINE d == W - B
  <2>1. d \in Nat /\ B + d - 1 = W - 1
    BY <1>5
  <2> HIDE DEF d
  <2>2. Up(index, d) \in SUBSET (0 .. B + d - 1)
    BY <2>1, <1>1, <1>5, UpFits
  <2> QED BY <2>1, <2>2 DEF d
<1>7. Up(c, B) = Up(index, W)
  <2> DEFINE d == W - B
  <2>1. d \in Nat /\ W = d + B
    BY <1>5
  <2> HIDE DEF d
  <2>2. Up(Up(index, d), B) = Up(index, W)
    BY <2>1, <1>1, <1>5, UpTwice
  <2> QED BY <2>2 DEF d
<1>8. Eq(crc)
  <2>1. s \in [S \X (1 .. B) -> S]
    BY <1>3
  <2>2. ASSUME NEW x \in S, NEW k \in 1 .. B  PROVE s[<<x, k>>] = Stepped(l, x)
    <3>1. <<x, k>> \in S \X (1 .. B)
      OBVIOUS
    <3> QED BY <3>1
  <2> HIDE DEF s, c, S
  <2>3. PICK f : RunsFrom(f, S, c, B, s)
    BY <1>1, <1>6, <2>1, Recursion
  <2>4. f \in [0 .. B -> S] /\ f[0] = c /\ \A k \in 1 .. B : f[k] = s[<<f[k - 1], k>>]
    BY <2>3 DEF RunsFrom
  <2>5. ASSUME NEW k \in 0 .. B  PROVE f[k] = IF k = 0 THEN c ELSE Stepped(l, f[k - 1])
    <3>1. CASE k = 0
      BY <3>1, <2>4
    <3>2. CASE k # 0
      <4>1. k \in 1 .. B /\ k - 1 \in 0 .. B
        BY <3>2, <1>1
      <4>2. f[k - 1] \in S
        BY <4>1, <2>4
      <4> QED BY <4>1, <4>2, <2>2, <2>4, <3>2
    <3> QED BY <3>1, <3>2
  <2>6. f = [k \in 0 .. B |-> f[k]]
    BY <2>4
  <2>7. Eq(f)
    BY <2>5, <2>6
  <2> HIDE DEF Eq
  <2>8. \E e : Eq(e)
    BY <2>7
  <2> QED BY <2>8
<1> HIDE DEF crc, c
<1>9. crc[0] = c /\ \A k \in 1 .. B : crc[k] = Stepped(l, crc[k - 1])
  BY <1>1, <1>8
<1> HIDE DEF Eq
<1> DEFINE y == Up(index, W)
           T == {k \in 0 .. B : crc[k] \in S /\ h[n][Up(crc[k], B - k)] = h[n][y]}
<1>10. 0 \in T
  <2>1. B - 0 = B /\ 0 \in 0 .. B
    BY <1>1
  <2> QED BY <2>1, <1>6, <1>7, <1>9
<1>11. \A k \in 1 .. B : k - 1 \in T => k \in T
  <2> SUFFICES ASSUME NEW k \in 1 .. B, k - 1 \in T  PROVE k \in T
    OBVIOUS
  <2> DEFINE r == B - k
             x == crc[k - 1]
  <2>1. r \in Nat /\ r < n /\ B - (k - 1) = r + 1
    BY <1>1 DEF B
  <2>2. x \in S /\ h[n][Up(x, B - (k - 1))] = h[n][y]
    OBVIOUS
  <2>3. crc[k] = Stepped(l, x)
    BY <1>9
  <2> HIDE DEF r, x
  <2>4. h[n][Up(Stepped(l, x), r)] = h[n][Up(x, r + 1)]
    BY <2>1, <2>2, <1>4
  <2>5. Stepped(l, x) \in S
    BY <2>2, <1>3
  <2> QED BY <2>1, <2>2, <2>3, <2>4, <2>5 DEF r
<1> HIDE DEF T
<1>12. \A k \in 0 .. B : k \in T
  BY <1>1, <1>10, <1>11, Climbing
<1>13. crc[B] \in S /\ h[n][Up(crc[B], B - B)] = h[n][y] /\ B - B = 0
  <2>1. B \in T
    BY <1>1, <1>12
  <2> QED BY <2>1, <1>1 DEF T
<1>14. Up(crc[B], 0) = crc[B]
  <2>1. crc[B] \in SUBSET Nat /\ 0 \in Nat
    BY <1>1, <1>13
  <2> QED BY <2>1, UpUp
<1>15. h[n][crc[B]] = crc[B]
  <2>1. n \in 0 .. n
    BY <1>1
  <2> QED BY <2>1, <1>2, <1>13, DividesSmall
<1> QED BY <1>0, <1>13, <1>14, <1>15 DEF W, B

\* An octet as it is taken, and what it makes of the register: what is left of
\* the register an octet higher with the octet above the width.
Taken(m, octet) == IF m.refIn THEN ReflectOctet(octet) ELSE octet

LEMMA TakenIs ==
  ASSUME NEW m, NEW octet \in SUBSET (0 .. OctetBits - 1)  PROVE Taken(m, octet) \in SUBSET (0 .. OctetBits - 1)
<1>1. OctetBits \in Nat
  BY OctetsHaveBits
<1>2. Reflect(octet, OctetBits) \in SUBSET (0 .. OctetBits - 1)
  BY <1>1, InReflect
<1> QED BY <1>2 DEF Taken, ReflectOctet

LEMMA FedIs ==
  ASSUME NEW m, Modelled(m), NEW l, l = RegisterLayout(m), NEW n, OctetBits <= n,
         NEW h, Dividing(h, Divisor(m), m.width, l.width, n),
         NEW c \in SUBSET (0 .. l.width - 1), NEW octet \in SUBSET (0 .. OctetBits - 1)
  PROVE  Fed(m, c, octet) = h[n][SymDiff(Up(c, OctetBits), Up(Taken(m, octet), l.width))]
<1> DEFINE W == l.width
           B == OctetBits
           o == Taken(m, octet)
           low == Masked(Up(c, B), W)
           high == Down(c, W - B)
           index == SymDiff(high, o)
<1>0. Fed(m, c, octet) = SymDiff(low, Entry(l, index))
  BY DEF Fed, Taken
<1>1. W \in Nat \ {0} /\ B \in Nat \ {0} /\ W >= B /\ n \in Nat /\ n \in 0 .. n
  BY LayoutIs DEF Dividing
<1>2. Dividing(h, Divisor(m), m.width, W, n)
  OBVIOUS
<1>3. o \in SUBSET (0 .. B - 1)
  BY TakenIs
<1>4. \A i \in SUBSET (0 .. B - 1) : Entry(l, i) = h[n][Up(i, W)]
  BY EntryIs
<1> HIDE DEF o, W, B
<1>5. c \in SUBSET (0 .. W - 1) /\ c \in SUBSET Nat /\ W - B \in Nat
  BY <1>1 DEF W
<1>6. Up(c, B) \in SUBSET Nat /\ \A x \in Nat : x \in Up(c, B) <=> x - B \in c
  BY <1>1, <1>5, InUp
<1>7. high \in SUBSET Nat /\ \A x \in Nat : x \in high <=> x + (W - B) \in c
  BY <1>5, InDown
<1>8. high \in SUBSET (0 .. B - 1)
  <2>1. ASSUME NEW x \in high  PROVE x \in 0 .. B - 1
    <3>1. x \in Nat /\ x + (W - B) \in c
      BY <1>7
    <3>2. x + (W - B) \in 0 .. W - 1
      BY <3>1, <1>5
    <3> QED BY <3>1, <3>2, <1>1
  <2> QED BY <2>1
<1> HIDE DEF high
<1>9. index \in SUBSET (0 .. B - 1) /\ o \in SUBSET Nat /\ high \in SUBSET Nat
  BY <1>3, <1>8 DEF SymDiff
<1>10. low \in SUBSET (0 .. W - 1) /\ low \in SUBSET Nat
  <2>1. ASSUME NEW x \in low  PROVE x \in 0 .. W - 1
    BY <1>1, <1>6 DEF Masked
  <2> QED BY <2>1
<1>11. SymDiff(low, Up(high, W)) = Up(c, B)
  <2>1. Up(high, W) \in SUBSET Nat /\ \A x \in Nat : x \in Up(high, W) <=> x - W \in high
    BY <1>1, <1>9, InUp
  <2>2. ASSUME NEW x \in Nat  PROVE x \in Up(c, B) <=> x \in SymDiff(low, Up(high, W))
    <3>1. CASE x < W
      <4>1. x - W \notin high
        BY <3>1, <1>1, <1>9
      <4>2. x \in low <=> x \in Up(c, B)
        BY <3>1 DEF Masked
      <4> QED BY <4>1, <4>2, <2>1 DEF SymDiff
    <3>2. CASE x >= W
      <4>1. x - W \in Nat /\ (x - W) + (W - B) = x - B
        BY <3>2, <1>1
      <4>2. x - W \in high <=> x - B \in c
        BY <4>1, <1>7
      <4>3. x \notin low
        BY <3>2, <1>1 DEF Masked
      <4> QED BY <4>2, <4>3, <1>6, <2>1 DEF SymDiff
    <3> QED BY <3>1, <3>2, <1>1
  <2>3. SymDiff(low, Up(high, W)) \in SUBSET Nat
    BY <1>10, <2>1 DEF SymDiff
  <2> QED BY <1>6, <2>2, <2>3
<1>12. Up(index, W) = SymDiff(Up(high, W), Up(o, W))
  BY <1>1, <1>9, UpDiff
<1> DEFINE p == Up(high, W)
           q == Up(o, W)
<1>13. p \in SUBSET Nat /\ q \in SUBSET Nat
  BY <1>1, <1>9, InUp
<1> HIDE DEF low, index, p, q
<1>14. h[n][low] = low
  BY <1>1, <1>2, <1>10, DividesSmall
<1>15. h[n][SymDiff(low, SymDiff(p, q))] = SymDiff(h[n][low], h[n][SymDiff(p, q)])
  <2>1. SymDiff(p, q) \in SUBSET Nat
    BY <1>13 DEF SymDiff
  <2> QED BY <2>1, <1>1, <1>2, <1>10, DividesDiff
<1>16. SymDiff(low, SymDiff(p, q)) = SymDiff(SymDiff(low, p), q)
  BY DEF SymDiff
<1>17. Entry(l, index) = h[n][SymDiff(p, q)]
  BY <1>4, <1>9, <1>12 DEF p, q
<1> QED BY <1>0, <1>11, <1>14, <1>15, <1>16, <1>17 DEF p, q, W, B, o

-----------------------------------------------------------------------------
(* The CRC: the message. *)

\* How high the octets of i more lift a term.
Lifted(i) == i * OctetBits

LEMMA LiftedIs ==
  /\ Lifted(0) = 0 /\ \A i \in Nat : Lifted(i) \in Nat
  /\ \A i \in Nat : Lifted(i + 1) = Lifted(i) + OctetBits
  /\ \A i, j \in Nat : i <= j => Lifted(i) <= Lifted(j)
<1>1. OctetBits \in Nat
  BY OctetsHaveBits
<1>2. \A i \in Nat : Lifted(i) \in Nat
  BY <1>1, Products DEF Lifted
<1>3. ASSUME NEW i \in Nat, NEW j \in Nat  PROVE Lifted(i + j) = Lifted(i) + Lifted(j)
  BY <1>1, Distributes DEF Lifted
<1>4. Lifted(1) = OctetBits /\ Lifted(0) = 0
  BY <1>1 DEF Lifted
<1>5. ASSUME NEW i \in Nat, NEW j \in Nat, i <= j  PROVE Lifted(i) <= Lifted(j)
  <2> DEFINE e == j - i
  <2>1. e \in Nat /\ i + e = j
    BY <1>5
  <2> HIDE DEF e
  <2>2. Lifted(i + e) = Lifted(i) + Lifted(e)
    BY <2>1, <1>3
  <2>3. Lifted(i + e) = Lifted(j)
    BY <2>1
  <2>4. Lifted(e) \in Nat /\ Lifted(i) \in Nat
    BY <2>1, <1>2
  <2> DEFINE p == Lifted(i)
             q == Lifted(e)
             s == Lifted(j)
  <2>5. s = p + q /\ p \in Nat /\ q \in Nat
    BY <2>2, <2>3, <2>4
  <2> HIDE DEF p, q, s
  <2>6. p <= s
    BY <2>5
  <2> QED BY <2>6 DEF p, s
<1>6. \A i \in Nat : Lifted(i + 1) = Lifted(i) + OctetBits
  BY <1>3, <1>4
<1> QED BY <1>2, <1>4, <1>5, <1>6

InOctets(d) == d \in Seq(SUBSET (0 .. OctetBits - 1))

\* The message's own terms.
Terms(m, d) == UNION {Up(Taken(m, d[k]), Lifted(Len(d) - k) + m.width) : k \in 1 .. Len(d)}

LEMMA TermsAre ==
  ASSUME NEW m, Modelled(m), NEW d, InOctets(d)
  PROVE  /\ Terms(m, d) \in SUBSET Nat
         /\ \A x \in Terms(m, d) : x >= m.width /\ x < m.width + Lifted(Len(d))
<1> DEFINE B == OctetBits
           w == m.width
<1>1. w \in Nat /\ B \in Nat \ {0} /\ Len(d) \in Nat /\ \A k \in 1 .. Len(d) : d[k] \in SUBSET (0 .. B - 1)
  BY OctetsHaveBits DEF Modelled, InOctets
<1> SUFFICES ASSUME NEW k \in 1 .. Len(d), NEW x \in Up(Taken(m, d[k]), Lifted(Len(d) - k) + w)
             PROVE  x \in Nat /\ x >= w /\ x < w + Lifted(Len(d))
  BY DEF Terms
<1> DEFINE t == Taken(m, d[k])
           e == Len(d) - k
<1>2. t \in SUBSET (0 .. B - 1)
  BY <1>1, TakenIs
<1>3. e \in Nat /\ e + 1 <= Len(d) /\ e + 1 \in Nat
  BY <1>1
<1>4. Lifted(e) \in Nat /\ Lifted(e + 1) = Lifted(e) + B /\ Lifted(e + 1) <= Lifted(Len(d)) /\ Lifted(Len(d)) \in Nat
  BY <1>1, <1>3, LiftedIs
<1> HIDE DEF t, e, B, w
<1>5. PICK i \in t : x = i + (Lifted(e) + w)
  BY DEF Up, t, e
<1>6. i \in 0 .. B - 1
  BY <1>2, <1>5
<1> QED BY <1>1, <1>4, <1>5, <1>6

LEMMA TermsNext ==
  ASSUME NEW m, Modelled(m), NEW d, InOctets(d), NEW o \in SUBSET (0 .. OctetBits - 1)
  PROVE  Terms(m, Append(d, o)) = SymDiff(Up(Terms(m, d), OctetBits), Up(Taken(m, o), m.width))
<1> DEFINE B == OctetBits
           w == m.width
           z == Append(d, o)
           n == Len(d)
           a == Up(Terms(m, d), B)
           b == Up(Taken(m, o), w)
<1>1. w \in Nat /\ B \in Nat \ {0} /\ n \in Nat /\ \A k \in 1 .. n : d[k] \in SUBSET (0 .. B - 1)
  BY OctetsHaveBits DEF Modelled, InOctets
<1>2. Len(z) = n + 1 /\ z[n + 1] = o /\ \A k \in 1 .. n : z[k] = d[k]
  BY DEF InOctets
<1>3. Terms(m, d) \in SUBSET Nat /\ \A x \in Terms(m, d) : x >= w
  BY TermsAre
<1>4. Taken(m, o) \in SUBSET (0 .. B - 1)
  BY TakenIs
<1> HIDE DEF z
<1>5. Terms(m, z) = UNION {Up(Taken(m, z[k]), Lifted(n + 1 - k) + w) : k \in 1 .. n + 1}
  BY <1>2 DEF Terms
<1>6. Lifted(0) = 0 /\ \A i \in Nat : Lifted(i) \in Nat /\ Lifted(i + 1) = Lifted(i) + B
  BY LiftedIs
<1>a. Terms(m, d) = UNION {Up(Taken(m, d[k]), Lifted(n - k) + w) : k \in 1 .. n}
  BY DEF Terms
<1> DEFINE R == Terms(m, d)
<1> HIDE DEF n, B, w, R
<1>7. ASSUME NEW k \in 1 .. n  PROVE Up(Taken(m, z[k]), Lifted(n + 1 - k) + w) = Up(Up(Taken(m, d[k]), Lifted(n - k) + w), B)
  <2> DEFINE t == Taken(m, d[k])
             e == n - k
             f == Lifted(e) + w
             g == Lifted(e + 1) + w
  <2>1. e \in Nat /\ n + 1 - k = e + 1 /\ z[k] = d[k]
    BY <1>1, <1>2
  <2>2. t \in SUBSET Nat
    <3>1. d[k] \in SUBSET (0 .. OctetBits - 1)
      BY <1>1 DEF B
    <3>2. t \in SUBSET (0 .. OctetBits - 1)
      BY <3>1, TakenIs
    <3> QED BY <3>2
  <2> HIDE DEF e
  <2>3. f \in Nat /\ g = f + B
    BY <2>1, <1>1, <1>6
  <2> HIDE DEF f, g, t
  <2>4. Up(Up(t, f), B) = Up(t, g)
    BY <1>1, <2>2, <2>3, UpTwice
  <2> QED BY <2>1, <2>4 DEF t, f, g, e
<1>8. Up(Taken(m, z[n + 1]), Lifted(n + 1 - (n + 1)) + w) = b
  <2>1. n + 1 - (n + 1) = 0 /\ 0 + w = w
    BY <1>1
  <2> QED BY <2>1, <1>2, <1>6 DEF w
<1>9. ASSUME NEW x  PROVE x \in a <=> \E k \in 1 .. n : x \in Up(Up(Taken(m, d[k]), Lifted(n - k) + w), B)
  <2>1. x \in a <=> \E y \in R : x = y + B
    BY DEF Up, R, B
  <2>2. ASSUME NEW y  PROVE y \in R <=> \E k \in 1 .. n : y \in Up(Taken(m, d[k]), Lifted(n - k) + w)
    BY <1>a DEF R
  <2>3. ASSUME NEW k \in 1 .. n  PROVE x \in Up(Up(Taken(m, d[k]), Lifted(n - k) + w), B) <=> \E y \in Up(Taken(m, d[k]), Lifted(n - k) + w) : x = y + B
    <3> DEFINE u == Up(Taken(m, d[k]), Lifted(n - k) + w)
    <3> HIDE DEF u
    <3>1. x \in Up(u, B) <=> \E y \in u : x = y + B
      BY DEF Up
    <3> QED BY <3>1 DEF u
  <2> QED BY <2>1, <2>2, <2>3
<1> HIDE DEF a, b
<1>10. ASSUME NEW x  PROVE x \in Terms(m, z) <=> x \in a \/ x \in b
  <2>1. x \in Terms(m, z) <=> \E k \in 1 .. n + 1 : x \in Up(Taken(m, z[k]), Lifted(n + 1 - k) + w)
    BY <1>5
  <2> DEFINE P(k) == x \in Up(Taken(m, z[k]), Lifted(n + 1 - k) + w)
  <2>2. (\E k \in 1 .. n + 1 : P(k)) <=> (\E k \in 1 .. n : P(k)) \/ P(n + 1)
    <3> HIDE DEF P
    <3>1. \A k \in 1 .. n + 1 : k \in 1 .. n \/ k = n + 1
      BY <1>1
    <3>2. n + 1 \in 1 .. n + 1 /\ \A k \in 1 .. n : k \in 1 .. n + 1
      BY <1>1
    <3> QED BY <3>1, <3>2
  <2>3. P(n + 1) <=> x \in b
    BY <1>8
  <2>4. (\E k \in 1 .. n : P(k)) <=> x \in a
    <3>1. \A k \in 1 .. n : P(k) <=> x \in Up(Up(Taken(m, d[k]), Lifted(n - k) + w), B)
      BY <1>7
    <3> HIDE DEF P
    <3> QED BY <3>1, <1>9
  <2> HIDE DEF P
  <2>5. x \in Terms(m, z) <=> \E k \in 1 .. n + 1 : P(k)
    BY <2>1 DEF P
  <2> QED BY <2>2, <2>3, <2>4, <2>5
<1>11. ASSUME NEW x, x \in a, x \in b  PROVE FALSE
  <2>1. PICK y \in R : x = y + B
    BY <1>11 DEF a, Up, R, B
  <2>2. PICK i \in Taken(m, o) : x = i + w
    BY <1>11 DEF b, Up, w
  <2>3. y \in Nat /\ y >= w
    BY <1>3, <2>1 DEF R
  <2>4. i \in 0 .. B - 1
    BY <1>4, <2>2
  <2> QED BY <2>1, <2>2, <2>3, <2>4, <1>1
<1>12. Terms(m, z) = SymDiff(a, b)
  BY <1>10, <1>11 DEF SymDiff
<1> QED BY <1>12 DEF a, b, z, B, w

\* The register's first value is added to the message's beginning.
LEMMA DividendIs ==
  ASSUME NEW m, Modelled(m), NEW d, InOctets(d)
  PROVE  /\ Dividend(m, d) \in SUBSET Nat
         /\ Dividend(m, d) \in SUBSET (0 .. m.width + Lifted(Len(d)) - 1)
         /\ Dividend(m, d) = SymDiff(Terms(m, d), Up(m.init, Lifted(Len(d))))
<1>1. Dividend(m, d) = SymDiff(Terms(m, d), Up(m.init, Lifted(Len(d))))
  BY DEF Dividend, Terms, Lifted, Taken
<1> DEFINE n == Lifted(Len(d))
           w == m.width
           R == Terms(m, d)
           i == Up(m.init, n)
<1>2. n \in Nat /\ w \in Nat \ {0} /\ m.init \in SUBSET (0 .. w - 1)
  <2>1. Len(d) \in Nat
    BY DEF InOctets
  <2> QED BY <2>1, LiftedIs DEF Modelled
<1>3. R \in SUBSET Nat /\ \A x \in R : x < w + n
  BY TermsAre
<1> HIDE DEF n, w
<1>4. i \in SUBSET (0 .. w + n - 1)
  BY <1>2, UpFits
<1> HIDE DEF i, R
<1>5. ASSUME NEW x \in SymDiff(R, i)  PROVE x \in 0 .. w + n - 1
  <2>1. x \in R \/ x \in i
    BY <1>5 DEF SymDiff
  <2>2. x \in R => x \in 0 .. w + n - 1
    BY <1>2, <1>3
  <2> QED BY <2>1, <2>2, <1>4
<1>6. SymDiff(R, i) \in SUBSET (0 .. w + n - 1) /\ 0 .. w + n - 1 \subseteq Nat
  BY <1>5, <1>2
<1> QED BY <1>1, <1>6 DEF R, i, n, w

LEMMA DividendNext ==
  ASSUME NEW m, Modelled(m), NEW d, InOctets(d), NEW o \in SUBSET (0 .. OctetBits - 1)
  PROVE  Dividend(m, Append(d, o)) = SymDiff(Up(Dividend(m, d), OctetBits), Up(Taken(m, o), m.width))
<1> DEFINE B == OctetBits
           z == Append(d, o)
           n == Len(d)
           R == Terms(m, d)
           i == Up(m.init, Lifted(n))
           b == Up(Taken(m, o), m.width)
           N == Lifted(n + 1)
<1>1. InOctets(z) /\ Len(z) = n + 1 /\ n \in Nat
  BY DEF InOctets
<1>2. /\ Dividend(m, d) = SymDiff(R, i)
      /\ Dividend(m, z) = SymDiff(Terms(m, z), Up(m.init, N))
  BY <1>1, DividendIs
<1>3. Terms(m, z) = SymDiff(Up(R, B), b)
  BY TermsNext
<1>4. N = Lifted(n) + B /\ Lifted(n) \in Nat /\ B \in Nat /\ m.init \in SUBSET Nat
  <2>1. N = Lifted(n) + B /\ Lifted(n) \in Nat
    BY <1>1, LiftedIs
  <2>2. B \in Nat
    BY OctetsHaveBits
  <2>3. m.init \in SUBSET Nat
    BY DEF Modelled
  <2> QED BY <2>1, <2>2, <2>3
<1>5. R \in SUBSET Nat
  BY TermsAre
<1> DEFINE l == Lifted(n)
<1>6. Up(i, B) = Up(m.init, N) /\ i \in SUBSET Nat
  <2>1. l \in Nat /\ N = l + B
    BY <1>4
  <2> HIDE DEF l, N, B
  <2>2. Up(Up(m.init, l), B) = Up(m.init, N)
    BY <2>1, <1>4, UpTwice
  <2>3. Up(m.init, l) \in SUBSET Nat
    BY <2>1, <1>4, InUp
  <2> QED BY <2>2, <2>3 DEF l
<1> HIDE DEF R, i, b, N, z
<1>7. Up(SymDiff(R, i), B) = SymDiff(Up(R, B), Up(i, B))
  BY <1>4, <1>5, <1>6, UpDiff
<1>8. SymDiff(SymDiff(Up(R, B), b), Up(i, B)) = SymDiff(SymDiff(Up(R, B), Up(i, B)), b)
  BY DEF SymDiff
<1> QED BY <1>2, <1>3, <1>6, <1>7, <1>8 DEF b, z

\* What a register holds after the message d: what long division leaves of it,
\* at the register's upper end.
CrcAt(m, c, d) ==
  /\ Residue(m, d) \in SUBSET (0 .. m.width - 1)
  /\ c = Up(Residue(m, d), RegisterLayout(m).justify)

\* Division, of as many octets as are asked for, as it is and that much higher.
LEMMA BothDivide ==
  ASSUME NEW m, Modelled(m), NEW n \in Nat, NEW l, l = RegisterLayout(m)
  PROVE  \E g, h : Dividing(g, Divisor(m), m.width, m.width, n) /\ Dividing(h, Divisor(m), m.width, m.width + l.justify, n)
<1> DEFINE w == m.width
           v == m.width + l.justify
           D == Divisor(m)
<1>1. w \in Nat /\ v \in Nat /\ v >= w /\ w >= w /\ D \in SUBSET (0 .. w) /\ w \in D
  BY LayoutIs
<1> HIDE DEF w, v, D
<1>2. (\E g : Dividing(g, D, w, w, n)) /\ \E h : Dividing(h, D, w, v, n)
  BY <1>1, DivisionIs
<1> QED BY <1>2 DEF w, v, D

LEMMA ResidueIs ==
  ASSUME NEW m, Modelled(m), NEW d, InOctets(d), NEW n \in Nat \ {0}, Lifted(Len(d)) <= n,
         NEW g, Dividing(g, Divisor(m), m.width, m.width, n)
  PROVE  Residue(m, d) = g[n][Dividend(m, d)] /\ Residue(m, d) \in SUBSET (0 .. m.width - 1)
<1> DEFINE w == m.width
           D == Divisor(m)
           p == Dividend(m, d)
           k == Lifted(Len(d))
<1>1. p \in SUBSET (0 .. w + k - 1) /\ k \in Nat /\ w \in Nat /\ n \in 0 .. n
  <2>1. Len(d) \in Nat
    BY DEF InOctets
  <2>2. Lifted(Len(d)) \in Nat /\ n \in 0 .. n
    BY <2>1, LiftedIs
  <2> QED BY <2>2, DividendIs DEF Modelled
<1>2. Residue(m, d) = Modulo(p, D, w)
  BY DEF Residue, Divisor
<1> HIDE DEF w, D, p, k
<1>3. Dividing(g, D, w, w, n) /\ k <= n
  BY DEF w, D, k
<1>4. p \in SUBSET (0 .. w + n - 1)
  BY <1>1, <1>3
<1>5. Modulo(p, D, w) = g[n][p]
  BY <1>3, <1>4, ModuloIs
<1>6. g[n][p] \in SUBSET (0 .. w - 1)
  BY <1>1, <1>3, <1>4, DividesFit
<1>7. Residue(m, d) = g[n][p] /\ Residue(m, d) \in SUBSET (0 .. w - 1)
  BY <1>2, <1>5, <1>6
<1> QED BY <1>7 DEF p, w

LEMMA ResidueFits ==
  ASSUME NEW m, Modelled(m), NEW e, InOctets(e)
  PROVE  Residue(m, e) \in SUBSET (0 .. m.width - 1)
<1>1. InOctets(e) /\ Len(e) \in Nat
  BY DEF InOctets
<1> DEFINE N == Lifted(Len(e) + 1)
<1>2. N \in Nat \ {0} /\ Lifted(Len(e)) <= N
  <2>1. N = Lifted(Len(e)) + OctetBits /\ Lifted(Len(e)) \in Nat
    BY <1>1, LiftedIs
  <2> HIDE DEF N
  <2> QED BY <2>1, OctetsHaveBits
<1>3. PICK g : Dividing(g, Divisor(m), m.width, m.width, N)
  BY <1>2, BothDivide
<1> HIDE DEF N
<1> QED BY <1>1, <1>2, <1>3, ResidueIs

LEMMA CrcBegins ==
  ASSUME NEW m, Modelled(m), NEW l, l = RegisterLayout(m)
  PROVE  CrcAt(m, l.init, <<>>)
<1> DEFINE w == m.width
           d == <<>>
<1>1. InOctets(d) /\ Len(d) = 0 /\ 1 \in Nat \ {0} /\ Lifted(Len(d)) <= 1
  <2>1. Lifted(0) <= 1
    BY LiftedIs
  <2> QED BY <2>1 DEF InOctets
<1>2. PICK g : Dividing(g, Divisor(m), w, w, 1)
  BY BothDivide
<1> HIDE DEF d
<1>3. Residue(m, d) = g[1][Dividend(m, d)] /\ Residue(m, d) \in SUBSET (0 .. w - 1)
  BY <1>1, <1>2, ResidueIs
<1>4. Dividend(m, d) = m.init
  <2>1. Lifted(Len(d)) = 0
    BY <1>1, LiftedIs
  <2>2. Dividend(m, d) = SymDiff(Terms(m, d), Up(m.init, 0))
    BY <1>1, <2>1, DividendIs
  <2>3. Terms(m, d) = {}
    BY <1>1 DEF Terms
  <2>4. m.init \in SUBSET Nat
    BY DEF Modelled
  <2>5. Up(m.init, 0) = m.init
    BY <2>4, UpUp
  <2>6. SymDiff({}, m.init) = m.init
    BY DEF SymDiff
  <2> QED BY <2>2, <2>3, <2>5, <2>6
<1>5. g[1][m.init] = m.init
  <2>1. m.init \in SUBSET (0 .. w - 1) /\ 1 \in 0 .. 1
    BY DEF Modelled
  <2> QED BY <2>1, <1>2, DividesSmall
<1>6. l.init = Up(m.init, l.justify)
  BY LayoutIs
<1> QED BY <1>3, <1>4, <1>5, <1>6 DEF CrcAt, d, w

\* An octet fed to the register is one more of the message.
LEMMA CrcFed ==
  ASSUME NEW m, Modelled(m), NEW d, InOctets(d), NEW o \in SUBSET (0 .. OctetBits - 1), NEW c, CrcAt(m, c, d)
  PROVE  CrcAt(m, Fed(m, c, o), Append(d, o))
<1> DEFINE l == RegisterLayout(m)
           w == m.width
           W == l.width
           J == l.justify
           B == OctetBits
           D == Divisor(m)
           n == Len(d)
           k == Lifted(n)
           N == Lifted(n + 1)
           a == Residue(m, d)
           z == Append(d, o)
           p == Dividend(m, d)
           t == Taken(m, o)
<1>1. /\ J \in Nat /\ W \in Nat \ {0} /\ W = w + J /\ B \in Nat \ {0} /\ w \in Nat
      /\ D \in SUBSET (0 .. w) /\ w \in D /\ w - 1 + J = W - 1
  BY LayoutIs
<1>2. n \in Nat /\ Len(z) = n + 1 /\ InOctets(z)
  BY DEF InOctets
<1>3. /\ k \in Nat /\ N = k + B /\ N \in Nat \ {0} /\ B <= N /\ k <= N /\ k \in 0 .. N /\ N \in 0 .. N /\ N \in k .. N
  <2>1. k \in Nat /\ N = k + B
    BY <1>2, LiftedIs
  <2> HIDE DEF k, N
  <2> QED BY <2>1, <1>1
<1>4. t \in SUBSET (0 .. B - 1) /\ t \in SUBSET Nat
  <2>1. t \in SUBSET (0 .. B - 1)
    BY TakenIs
  <2> HIDE DEF t
  <2> QED BY <2>1, <1>1
<1>5. PICK g, h : Dividing(g, D, w, w, N) /\ Dividing(h, D, w, w + J, N)
  BY <1>3, BothDivide
<1>6. a = g[N][p] /\ a \in SUBSET (0 .. w - 1)
  BY <1>3, <1>5, ResidueIs
<1>7. Residue(m, z) = g[N][Dividend(m, z)] /\ Residue(m, z) \in SUBSET (0 .. w - 1)
  <2>1. Lifted(Len(z)) <= N
    BY <1>2, <1>3
  <2> HIDE DEF z
  <2> QED BY <2>1, <1>2, <1>3, <1>5, ResidueIs
<1>8. Dividend(m, z) = SymDiff(Up(p, B), Up(t, w))
  BY DividendNext
<1>9. p \in SUBSET (0 .. w + k - 1) /\ p \in SUBSET Nat
  BY DividendIs
<1>10. c = Up(a, J) /\ a \in SUBSET Nat
  <2>1. c = Up(a, J)
    BY DEF CrcAt
  <2>2. a \in SUBSET Nat
    BY <1>6
  <2> QED BY <2>1, <2>2
<1>11. c \in SUBSET (0 .. W - 1)
  <2>1. Up(a, J) \in SUBSET (0 .. w + J - 1)
    BY <1>1, <1>6, UpFits
  <2>2. w + J - 1 = W - 1
    BY <1>1
  <2> QED BY <2>1, <2>2, <1>10
<1>12. Fed(m, c, o) = h[N][SymDiff(Up(c, B), Up(t, W))]
  <2>1. Dividing(h, Divisor(m), m.width, l.width, N)
    BY <1>1, <1>5
  <2> HIDE DEF l
  <2>2. l = RegisterLayout(m)
    BY DEF l
  <2> QED BY <2>1, <2>2, <1>3, <1>11, FedIs
<1> HIDE DEF l, w, W, J, B, D, n, k, N, a, z, p, t
<1>13. g[k][p] = a
  <2>1. g[N][p] = g[k][p]
    BY <1>3, <1>5, <1>9, DividesSteady
  <2> QED BY <2>1, <1>6
<1>14. g[N][Up(p, B)] = g[N][Up(a, B)]
  <2>1. k + B <= N /\ B \in Nat
    BY <1>1, <1>3
  <2>2. g[N][Up(p, B)] = g[N][Up(g[k][p], B)]
    BY <2>1, <1>3, <1>5, <1>9, DividesTwice
  <2> QED BY <2>2, <1>13
<1> DEFINE e == Up(a, B)
           f == Up(p, B)
           u == Up(t, w)
           x == SymDiff(e, u)
<1>15. e \in SUBSET Nat /\ f \in SUBSET Nat /\ u \in SUBSET Nat
  BY <1>1, <1>4, <1>9, <1>10, InUp
<1>16. Up(e, J) = Up(c, B)
  <2> DEFINE q == B + J
  <2>1. B \in Nat /\ J \in Nat /\ q = B + J /\ q = J + B
    BY <1>1
  <2> HIDE DEF q
  <2>2. Up(Up(a, B), J) = Up(a, q)
    BY <2>1, <1>10, UpTwice
  <2>3. Up(Up(a, J), B) = Up(a, q)
    BY <2>1, <1>10, UpTwice
  <2> QED BY <2>2, <2>3, <1>10
<1>17. Up(u, J) = Up(t, W)
  BY <1>1, <1>4, UpTwice
<1> HIDE DEF e, f, u
<1>18. g[N][SymDiff(f, u)] = g[N][x]
  <2>1. g[N][SymDiff(f, u)] = SymDiff(g[N][f], g[N][u])
    BY <1>3, <1>5, <1>15, DividesDiff
  <2>2. g[N][SymDiff(e, u)] = SymDiff(g[N][e], g[N][u])
    BY <1>3, <1>5, <1>15, DividesDiff
  <2>3. g[N][f] = g[N][e]
    BY <1>14 DEF e, f
  <2> QED BY <2>1, <2>2, <2>3
<1>19. Up(x, J) = SymDiff(Up(e, J), Up(u, J)) /\ x \in SUBSET Nat
  <2>1. x \in SUBSET Nat
    BY <1>15 DEF SymDiff
  <2> QED BY <2>1, <1>1, <1>15, UpDiff
<1> HIDE DEF x
<1>20. h[N][Up(x, J)] = Up(g[N][x], J)
  <2>1. J \in Nat /\ Dividing(g, D, w, w, N) /\ Dividing(h, D, w, w + J, N) /\ N \in 0 .. N /\ x \in SUBSET Nat
    BY <1>1, <1>3, <1>5, <1>19
  <2> QED BY ONLY <2>1, DividesUp
<1>21. Residue(m, z) = g[N][x]
  BY <1>7, <1>8, <1>18 DEF f, u
<1>22. Fed(m, c, o) = Up(Residue(m, z), J)
  BY <1>12, <1>16, <1>17, <1>19, <1>20, <1>21
<1> QED BY <1>7, <1>22 DEF CrcAt, z, J, l, w

\* One more of a chunk.
GrowsBy(S, d, s) ==
  /\ d \o SubSeq(s, 1, 0) = d /\ d \o SubSeq(s, 1, Len(s)) = d \o s
  /\ \A k \in 1 .. Len(s) :
       /\ s[k] \in S /\ d \o SubSeq(s, 1, k - 1) \in Seq(S)
       /\ d \o SubSeq(s, 1, k) = Append(d \o SubSeq(s, 1, k - 1), s[k])

LEMMA ChunkGrows ==
  ASSUME NEW S, NEW d \in Seq(S), NEW s \in Seq(S)
  PROVE  GrowsBy(S, d, s)
<1>1. d \o SubSeq(s, 1, 0) = d /\ SubSeq(s, 1, Len(s)) = s
  OBVIOUS
<1>2. ASSUME NEW k \in 1 .. Len(s)
      PROVE  /\ s[k] \in S /\ d \o SubSeq(s, 1, k - 1) \in Seq(S)
             /\ d \o SubSeq(s, 1, k) = Append(d \o SubSeq(s, 1, k - 1), s[k])
  <2> DEFINE a == SubSeq(s, 1, k - 1)
             b == SubSeq(s, 1, k)
  <2>1. a \in Seq(S) /\ Len(a) = k - 1 /\ b \in Seq(S) /\ Len(b) = k /\ s[k] \in S
    OBVIOUS
  <2>2. \A i \in 1 .. k : b[i] = Append(a, s[k])[i]
    OBVIOUS
  <2>3. Append(a, s[k]) \in Seq(S) /\ Len(Append(a, s[k])) = k
    BY <2>1
  <2> HIDE DEF a, b
  <2>4. b = Append(a, s[k])
    BY <2>1, <2>2, <2>3
  <2>5. d \o Append(a, s[k]) = Append(d \o a, s[k]) /\ d \o a \in Seq(S)
    BY <2>1
  <2> QED BY <2>1, <2>4, <2>5 DEF a, b
<1> QED BY <1>1, <1>2 DEF GrowsBy

LEMMA CrcGoesOn ==
  ASSUME NEW form, NEW m, ResolveModel(form).ok, m = ResolveModel(form).model, Modelled(m),
         NEW d, InOctets(d), NEW chunk, InOctets(chunk), NEW c, CrcAt(m, c, d)
  PROVE  CrcAt(m, CrcUpdate(form, c, chunk), d \o chunk)
<1> DEFINE O == SUBSET (0 .. OctetBits - 1)
           J == RegisterLayout(m).justify
           S == {Up(Residue(m, e), J) : e \in Seq(O)}
           n == Len(chunk)
           At(k) == d \o SubSeq(chunk, 1, k)
           Eq(f) == f = [k \in 0 .. n |-> IF k = 0 THEN c ELSE Fed(m, f[k - 1], chunk[k])]
           after == CHOOSE f : Eq(f)
           s == [x \in S \X (1 .. n) |-> Fed(m, x[1], chunk[x[2]])]
<1>1. CrcUpdate(form, c, chunk) = after[n]
  BY DEF CrcUpdate
<1>2. d \in Seq(O) /\ chunk \in Seq(O) /\ n \in Nat
  BY DEF InOctets
<1> HIDE DEF n
<1>3. At(0) = d /\ At(n) = d \o chunk /\ \A k \in 1 .. n : chunk[k] \in O /\ At(k - 1) \in Seq(O) /\ At(k) = Append(At(k - 1), chunk[k])
  <2> HIDE DEF O
  <2>1. d \in Seq(O) /\ chunk \in Seq(O)
    BY <1>2
  <2>2. GrowsBy(O, d, chunk)
    BY ONLY <2>1, ChunkGrows
  <2> QED BY ONLY <2>2 DEF At, n, GrowsBy
<1>4. ASSUME NEW e \in Seq(O), NEW o \in O, NEW x, CrcAt(m, x, e)  PROVE CrcAt(m, Fed(m, x, o), Append(e, o))
  BY <1>4, CrcFed DEF InOctets
<1>5. ASSUME NEW e \in Seq(O)  PROVE Residue(m, e) \in SUBSET (0 .. m.width - 1)
  BY ResidueFits DEF InOctets
<1>6. c \in S
  BY <1>2 DEF CrcAt
<1>7. ASSUME NEW x \in S, NEW o \in O  PROVE Fed(m, x, o) \in S
  <2>1. PICK e \in Seq(O) : x = Up(Residue(m, e), J)
    OBVIOUS
  <2>2. CrcAt(m, x, e)
    BY <2>1, <1>5 DEF CrcAt
  <2>3. CrcAt(m, Fed(m, x, o), Append(e, o))
    BY <2>2, <1>4
  <2>4. Append(e, o) \in Seq(O)
    OBVIOUS
  <2> QED BY <2>3, <2>4 DEF CrcAt
<1>8. Eq(after)
  <2>1. s \in [S \X (1 .. n) -> S]
    <3>1. ASSUME NEW x \in S \X (1 .. n)  PROVE Fed(m, x[1], chunk[x[2]]) \in S
      <4>1. x[1] \in S /\ chunk[x[2]] \in O
        BY <1>3
      <4> HIDE DEF S, O
      <4> QED BY <4>1, <1>7
    <3> HIDE DEF S
    <3> QED BY <3>1
  <2>2. ASSUME NEW x \in S, NEW k \in 1 .. n  PROVE s[<<x, k>>] = Fed(m, x, chunk[k])
    <3> HIDE DEF S
    <3>1. <<x, k>> \in S \X (1 .. n)
      OBVIOUS
    <3> QED BY <3>1
  <2> HIDE DEF s, S
  <2>3. PICK f : RunsFrom(f, S, c, n, s)
    BY <1>2, <1>6, <2>1, Recursion
  <2>4. f \in [0 .. n -> S] /\ f[0] = c /\ \A k \in 1 .. n : f[k] = s[<<f[k - 1], k>>]
    BY <2>3 DEF RunsFrom
  <2>5. ASSUME NEW k \in 0 .. n  PROVE f[k] = IF k = 0 THEN c ELSE Fed(m, f[k - 1], chunk[k])
    <3>1. CASE k = 0
      BY <3>1, <2>4
    <3>2. CASE k # 0
      <4>1. k \in 1 .. n /\ k - 1 \in 0 .. n
        BY <3>2, <1>2
      <4>2. f[k - 1] \in S
        BY <4>1, <2>4
      <4> QED BY <4>1, <4>2, <2>2, <2>4, <3>2
    <3> QED BY <3>1, <3>2
  <2>6. f = [k \in 0 .. n |-> f[k]]
    BY <2>4
  <2>7. Eq(f)
    BY <2>5, <2>6
  <2> HIDE DEF Eq
  <2>8. \E e : Eq(e)
    BY <2>7
  <2> QED BY <2>8
<1> HIDE DEF after, S, At, O
<1>9. after[0] = c /\ \A k \in 1 .. n : after[k] = Fed(m, after[k - 1], chunk[k])
  BY <1>2, <1>8
<1> HIDE DEF Eq
<1> DEFINE T == {k \in 0 .. n : CrcAt(m, after[k], At(k))}
<1>10. 0 \in T
  BY <1>2, <1>3, <1>9
<1>11. \A k \in 1 .. n : k - 1 \in T => k \in T
  <2> SUFFICES ASSUME NEW k \in 1 .. n, k - 1 \in T  PROVE k \in T
    OBVIOUS
  <2>1. CrcAt(m, after[k - 1], At(k - 1)) /\ At(k - 1) \in Seq(O) /\ chunk[k] \in O
    BY <1>3
  <2>2. CrcAt(m, Fed(m, after[k - 1], chunk[k]), Append(At(k - 1), chunk[k]))
    BY <2>1, <1>4
  <2>3. CrcAt(m, after[k], At(k))
    BY <2>2, <1>3, <1>9
  <2> QED BY <2>3
<1> HIDE DEF T
<1>12. \A k \in 0 .. n : k \in T
  BY <1>2, <1>10, <1>11, Climbing
<1>13. CrcAt(m, after[n], At(n))
  <2>1. n \in T
    BY <1>2, <1>12
  <2> QED BY <2>1 DEF T
<1> QED BY <1>1, <1>3, <1>13

\* At the end the register gives the remainder back.
LEMMA DownIs ==
  ASSUME NEW a \in SUBSET Nat, NEW n \in Nat  PROVE Down(Up(a, n), n) = a
<1> DEFINE u == Up(a, n)
<1>1. u \in SUBSET Nat /\ \A x \in Nat : x \in u <=> x - n \in a
  BY InUp
<1> HIDE DEF u
<1>2. Down(u, n) \in SUBSET Nat /\ \A x \in Nat : x \in Down(u, n) <=> x + n \in u
  BY <1>1, InDown
<1>3. \A x \in Nat : x \in Down(u, n) <=> x \in a
  <2> SUFFICES ASSUME NEW x \in Nat  PROVE x \in Down(u, n) <=> x \in a
    OBVIOUS
  <2>1. x + n \in Nat /\ (x + n) - n = x
    OBVIOUS
  <2> QED BY <2>1, <1>1, <1>2
<1> QED BY <1>2, <1>3 DEF u

LEMMA CrcCloses ==
  ASSUME NEW form, NEW m, ResolveModel(form).ok, m = ResolveModel(form).model, Modelled(m),
         NEW d, InOctets(d), NEW c, CrcAt(m, c, d)
  PROVE  CrcFinish(form, c) = CrcOneShot(form, d) /\ CrcFinish(form, c).ok
<1> DEFINE l == RegisterLayout(m)
           a == Residue(m, d)
<1>1. a \in SUBSET Nat /\ l.justify \in Nat /\ c = Up(a, l.justify)
  BY LayoutIs DEF CrcAt, Modelled
<1>2. Down(c, l.justify) = a
  BY <1>1, DownIs
<1>3. CrcDigest(m, c) = CrcOf(m, d)
  BY <1>2 DEF CrcDigest, CrcOf
<1> QED BY <1>3 DEF CrcFinish, CrcOneShot

\* The same by the reflected table.
LEMMA ReflectDiff ==
  ASSUME NEW w \in Nat, NEW a \in SUBSET (0 .. w - 1), NEW b \in SUBSET (0 .. w - 1)
  PROVE  Reflect(SymDiff(a, b), w) = SymDiff(Reflect(a, w), Reflect(b, w)) /\ SymDiff(a, b) \in SUBSET (0 .. w - 1)
<1> DEFINE s == SymDiff(a, b)
           A == Reflect(a, w)
           C == Reflect(b, w)
           r == Reflect(s, w)
<1>1. s \in SUBSET (0 .. w - 1)
  BY DEF SymDiff
<1>2. /\ A \in SUBSET (0 .. w - 1) /\ \A x \in 0 .. w - 1 : x \in A <=> w - 1 - x \in a
      /\ C \in SUBSET (0 .. w - 1) /\ \A x \in 0 .. w - 1 : x \in C <=> w - 1 - x \in b
  BY InReflect
<1>3. \A x : x \in s <=> ~(x \in a <=> x \in b)
  BY InDiff
<1> HIDE DEF s, A, C
<1>4. r \in SUBSET (0 .. w - 1) /\ \A x \in 0 .. w - 1 : x \in r <=> w - 1 - x \in s
  BY <1>1, InReflect
<1> HIDE DEF r
<1>5. \A x : x \in SymDiff(A, C) <=> ~(x \in A <=> x \in C)
  BY InDiff
<1>6. \A x \in 0 .. w - 1 : x \in r <=> x \in SymDiff(A, C)
  BY <1>2, <1>3, <1>4, <1>5
<1>7. SymDiff(A, C) \in SUBSET (0 .. w - 1)
  BY <1>2 DEF SymDiff
<1>8. r = SymDiff(A, C)
  BY <1>4, <1>6, <1>7
<1> QED BY <1>1, <1>8 DEF r, s, A, C

\* Turned around, what was shifted up and out is shifted down and out; and the
\* octet at the upper end is the one at the lower end.
LEMMA ReflectShifts ==
  ASSUME NEW W \in Nat, NEW B \in Nat, B <= W, NEW c \in SUBSET (0 .. W - 1)
  PROVE  /\ Masked(Up(c, B), W) \in SUBSET (0 .. W - 1)
         /\ Reflect(Masked(Up(c, B), W), W) = Down(Reflect(c, W), B)
         /\ Masked(Reflect(c, W), B) \in SUBSET (0 .. B - 1)
         /\ Reflect(Masked(Reflect(c, W), B), B) = Down(c, W - B)
         /\ Down(c, W - B) \in SUBSET (0 .. B - 1)
<1> DEFINE u == Up(c, B)
           low == Masked(u, W)
           r == Reflect(c, W)
           end == Masked(r, B)
<1>1. c \in SUBSET Nat /\ W - B \in Nat
  OBVIOUS
<1>2. u \in SUBSET Nat /\ \A x \in Nat : x \in u <=> x - B \in c
  BY <1>1, InUp
<1>3. r \in SUBSET (0 .. W - 1) /\ r \in SUBSET Nat /\ \A x \in 0 .. W - 1 : x \in r <=> W - 1 - x \in c
  BY InReflect
<1> HIDE DEF u, r
<1>4. low \in SUBSET (0 .. W - 1) /\ \A x \in 0 .. W - 1 : x \in low <=> x \in u
  BY <1>2, InMasked
<1>5. end \in SUBSET (0 .. B - 1) /\ \A x \in 0 .. B - 1 : x \in end <=> x \in r
  BY <1>3, InMasked
<1> HIDE DEF low, end
<1>6. Reflect(low, W) \in SUBSET (0 .. W - 1) /\ \A x \in 0 .. W - 1 : x \in Reflect(low, W) <=> W - 1 - x \in low
  BY <1>4, InReflect
<1>7. Reflect(end, B) \in SUBSET (0 .. B - 1) /\ \A x \in 0 .. B - 1 : x \in Reflect(end, B) <=> B - 1 - x \in end
  BY <1>5, InReflect
<1>8. Down(r, B) \in SUBSET Nat /\ \A x \in Nat : x \in Down(r, B) <=> x + B \in r
  BY <1>3, InDown
<1>9. Down(c, W - B) \in SUBSET Nat /\ \A x \in Nat : x \in Down(c, W - B) <=> x + (W - B) \in c
  BY <1>1, InDown
<1>10. Down(c, W - B) \in SUBSET (0 .. B - 1)
  <2>1. ASSUME NEW x \in Down(c, W - B)  PROVE x \in 0 .. B - 1
    <3>1. x \in Nat /\ x + (W - B) \in 0 .. W - 1
      BY <1>9
    <3> QED BY <3>1
  <2> QED BY <2>1
<1>11. Reflect(low, W) = Down(r, B)
  <2>1. ASSUME NEW x \in 0 .. W - 1  PROVE x \in Reflect(low, W) <=> x \in Down(r, B)
    <3>1. W - 1 - x \in 0 .. W - 1 /\ (W - 1 - x) - B = W - 1 - (x + B) /\ x + B \in Nat
      OBVIOUS
    <3>2. x \in Reflect(low, W) <=> W - 1 - (x + B) \in c
      BY <3>1, <1>2, <1>4, <1>6
    <3>3. CASE x + B \in 0 .. W - 1
      BY <3>2, <3>3, <1>3, <1>8
    <3>4. CASE x + B \notin 0 .. W - 1
      <4>1. W - 1 - (x + B) < 0
        BY <3>4, <3>1
      <4>2. W - 1 - (x + B) \notin c
        BY <4>1
      <4> QED BY <4>2, <3>2, <3>4, <1>3, <1>8
    <3> QED BY <3>3, <3>4
  <2>2. ASSUME NEW x \in Down(r, B)  PROVE x \in 0 .. W - 1
    <3>1. x \in Nat /\ x + B \in 0 .. W - 1
      BY <1>3, <1>8
    <3> QED BY <3>1
  <2> QED BY <2>1, <2>2, <1>6
<1>12. Reflect(end, B) = Down(c, W - B)
  <2>1. ASSUME NEW x \in 0 .. B - 1  PROVE x \in Reflect(end, B) <=> x \in Down(c, W - B)
    <3>1. B - 1 - x \in 0 .. B - 1 /\ B - 1 - x \in 0 .. W - 1 /\ W - 1 - (B - 1 - x) = x + (W - B)
      OBVIOUS
    <3>2. x \in Reflect(end, B) <=> W - 1 - (B - 1 - x) \in c
      BY <3>1, <1>3, <1>5, <1>7
    <3> QED BY <3>1, <3>2, <1>9
  <2> QED BY <2>1, <1>7, <1>10
<1> QED BY <1>4, <1>5, <1>10, <1>11, <1>12 DEF low, end, u, r

LEMMA EntryFits ==
  ASSUME NEW m, Modelled(m), NEW l, l = RegisterLayout(m), NEW index \in SUBSET (0 .. OctetBits - 1)
  PROVE  Entry(l, index) \in SUBSET (0 .. l.width - 1)
<1> DEFINE W == l.width
           B == OctetBits
           p == Up(index, W)
<1>1. W \in Nat \ {0} /\ B \in Nat \ {0} /\ W = m.width + l.justify
  BY LayoutIs
<1>2. PICK h : Dividing(h, Divisor(m), m.width, m.width + l.justify, B)
  BY <1>1, BothDivide
<1>3. Dividing(h, Divisor(m), m.width, W, B)
  BY <1>1, <1>2
<1>4. Entry(l, index) = h[B][p]
  <2>1. OctetBits <= B
    BY <1>1
  <2> QED BY <2>1, <1>3, EntryIs
<1> HIDE DEF W
<1>5. p \in SUBSET (0 .. B + W - 1)
  BY <1>1, UpFits
<1>6. B + W - 1 = W + B - 1 /\ B \in 0 .. B
  BY <1>1
<1> HIDE DEF p, B
<1>7. h[B][p] \in SUBSET (0 .. W - 1)
  <2>1. p \in SUBSET (0 .. W + B - 1)
    BY <1>5, <1>6
  <2> QED BY <2>1, <1>3, <1>6, DividesFit
<1> QED BY <1>4, <1>7 DEF W

LEMMA TakenLowIs ==
  ASSUME NEW m, Modelled(m), m.refIn, NEW l, l = RegisterLayout(m),
         NEW c \in SUBSET (0 .. l.width - 1), NEW o \in SUBSET (0 .. OctetBits - 1)
  PROVE  TakenLow(l, Reflect(c, l.width), o) = Reflect(Fed(m, c, o), l.width)
<1> DEFINE W == l.width
           B == OctetBits
           r == Reflect(c, W)
           low == Masked(Up(c, B), W)
           end == Masked(r, B)
           high == Down(c, W - B)
           t == Reflect(o, B)
           i == SymDiff(high, t)
           e == Entry(l, i)
<1>1. W \in Nat /\ B \in Nat /\ B <= W
  BY LayoutIs
<1>2. Fed(m, c, o) = SymDiff(low, e)
  BY DEF Fed, ReflectOctet
<1>3. TakenLow(l, r, o) = SymDiff(Down(r, B), Reflect(Entry(l, Reflect(SymDiff(end, o), B)), W))
  BY DEF TakenLow, ReflectedEntry, ReflectOctet
<1>4. \A x \in SUBSET (0 .. B - 1) : Entry(l, x) \in SUBSET (0 .. W - 1)
  BY EntryFits
<1> HIDE DEF W, B
<1>5. /\ low \in SUBSET (0 .. W - 1) /\ Reflect(low, W) = Down(r, B)
      /\ end \in SUBSET (0 .. B - 1) /\ Reflect(end, B) = high /\ high \in SUBSET (0 .. B - 1)
  <2>1. c \in SUBSET (0 .. W - 1)
    BY DEF W
  <2> QED BY <2>1, <1>1, ReflectShifts
<1>6. o \in SUBSET (0 .. B - 1) /\ t \in SUBSET (0 .. B - 1)
  <2>1. o \in SUBSET (0 .. B - 1)
    BY DEF B
  <2> QED BY <2>1, <1>1, InReflect
<1> HIDE DEF r, low, end, high
<1>7. Reflect(SymDiff(end, o), B) = i
  <2>1. Reflect(SymDiff(end, o), B) = SymDiff(Reflect(end, B), Reflect(o, B))
    BY <1>1, <1>5, <1>6, ReflectDiff
  <2> QED BY <2>1, <1>5
<1>8. i \in SUBSET (0 .. B - 1)
  BY <1>5, <1>6 DEF SymDiff
<1> HIDE DEF i
<1>9. e \in SUBSET (0 .. W - 1)
  BY <1>4, <1>8
<1> HIDE DEF e
<1>10. Reflect(SymDiff(low, e), W) = SymDiff(Reflect(low, W), Reflect(e, W))
  BY <1>1, <1>5, <1>9, ReflectDiff
<1> QED BY <1>2, <1>3, <1>5, <1>7, <1>10 DEF W, B, r, e

LEMMA ReflectUp ==
  ASSUME NEW w \in Nat, NEW j \in Nat, NEW W, W = w + j, NEW a \in SUBSET (0 .. w - 1)
  PROVE  Reflect(Up(a, j), W) = Reflect(a, w) /\ Up(a, j) \in SUBSET (0 .. W - 1)
<1> DEFINE u == Up(a, j)
<1>1. a \in SUBSET Nat /\ W \in Nat
  OBVIOUS
<1>2. u \in SUBSET Nat /\ \A x \in Nat : x \in u <=> x - j \in a
  BY <1>1, InUp
<1>3. u \in SUBSET (0 .. W - 1)
  BY <1>1, UpFits
<1> HIDE DEF u
<1>4. Reflect(u, W) \in SUBSET (0 .. W - 1) /\ \A x \in 0 .. W - 1 : x \in Reflect(u, W) <=> W - 1 - x \in u
  BY <1>1, <1>3, InReflect
<1>5. Reflect(a, w) \in SUBSET (0 .. w - 1) /\ \A x \in 0 .. w - 1 : x \in Reflect(a, w) <=> w - 1 - x \in a
  BY InReflect
<1>6. ASSUME NEW x \in 0 .. W - 1  PROVE x \in Reflect(u, W) <=> x \in Reflect(a, w)
  <2>1. W - 1 - x \in Nat /\ (W - 1 - x) - j = w - 1 - x
    OBVIOUS
  <2>2. x \in Reflect(u, W) <=> w - 1 - x \in a
    BY <2>1, <1>2, <1>4
  <2>3. CASE x \in 0 .. w - 1
    BY <2>2, <2>3, <1>5
  <2>4. CASE x \notin 0 .. w - 1
    <3>1. w - 1 - x < 0
      BY <2>4
    <3>2. w - 1 - x \notin a
      BY <3>1
    <3> QED BY <3>2, <2>2, <2>4, <1>5
  <2> QED BY <2>3, <2>4
<1>7. 0 .. w - 1 \subseteq 0 .. W - 1
  OBVIOUS
<1>8. Reflect(u, W) = Reflect(a, w)
  BY <1>4, <1>5, <1>6, <1>7
<1> QED BY <1>3, <1>8 DEF u

LEMMA ReflectedIs ==
  ASSUME NEW m, Modelled(m), m.refIn, m.refOut, NEW d, InOctets(d)
  PROVE  ByReflectedTable(m, d) = CrcOf(m, d)
<1> DEFINE O == SUBSET (0 .. OctetBits - 1)
           l == RegisterLayout(m)
           w == m.width
           W == l.width
           J == l.justify
           S == {Reflect(Up(Residue(m, e), J), W) : e \in Seq(O)}
           n == Len(d)
           At(k) == SubSeq(d, 1, k)
           first == Reflect(l.init, W)
           Eq(f) == f = [k \in 0 .. n |-> IF k = 0 THEN first ELSE TakenLow(l, f[k - 1], d[k])]
           after == CHOOSE f : Eq(f)
           s == [x \in S \X (1 .. n) |-> TakenLow(l, x[1], d[x[2]])]
<1>1. ByReflectedTable(m, d) = SymDiff(after[n], m.xorOut)
  BY DEF ByReflectedTable
<1>2. d \in Seq(O) /\ n \in Nat /\ <<>> \in Seq(O)
  BY DEF InOctets
<1> HIDE DEF n
<1>3. At(0) = <<>> /\ At(n) = d /\ \A k \in 1 .. n : d[k] \in O /\ At(k - 1) \in Seq(O) /\ At(k) = Append(At(k - 1), d[k])
  <2> HIDE DEF O
  <2>1. <<>> \in Seq(O) /\ d \in Seq(O)
    BY <1>2
  <2>2. GrowsBy(O, <<>>, d)
    BY ONLY <2>1, ChunkGrows
  <2>3. \A k \in 0 .. n : <<>> \o SubSeq(d, 1, k) = SubSeq(d, 1, k)
    BY <1>2 DEF n
  <2>4. SubSeq(d, 1, 0) = <<>> /\ SubSeq(d, 1, n) = d
    BY <1>2 DEF n
  <2>5. ASSUME NEW k \in 1 .. n  PROVE d[k] \in O /\ SubSeq(d, 1, k - 1) \in Seq(O) /\ SubSeq(d, 1, k) = Append(SubSeq(d, 1, k - 1), d[k])
    <3>1. k - 1 \in 0 .. n /\ k \in 0 .. n
      BY <1>2
    <3>2. <<>> \o SubSeq(d, 1, k - 1) = SubSeq(d, 1, k - 1) /\ <<>> \o SubSeq(d, 1, k) = SubSeq(d, 1, k)
      BY <3>1, <2>3
    <3>3. d[k] \in O /\ <<>> \o SubSeq(d, 1, k - 1) \in Seq(O) /\ <<>> \o SubSeq(d, 1, k) = Append(<<>> \o SubSeq(d, 1, k - 1), d[k])
      BY <2>2 DEF GrowsBy, n
    <3> QED BY ONLY <3>2, <3>3
  <2> QED BY <2>4, <2>5
<1>4. ASSUME NEW e \in Seq(O)  PROVE Residue(m, e) \in SUBSET (0 .. w - 1)
  BY ResidueFits DEF InOctets
<1>5. /\ w \in Nat /\ J \in Nat /\ W = w + J
  BY LayoutIs
<1>6. ASSUME NEW e \in Seq(O), NEW o \in O
      PROVE  TakenLow(l, Reflect(Up(Residue(m, e), J), W), o) = Reflect(Up(Residue(m, Append(e, o)), J), W)
  <2> DEFINE c == Up(Residue(m, e), J)
  <2>1. CrcAt(m, c, e)
    BY <1>4 DEF CrcAt
  <2>2. CrcAt(m, Fed(m, c, o), Append(e, o))
    BY <2>1, CrcFed DEF InOctets
  <2>3. c \in SUBSET (0 .. W - 1)
    <3> HIDE DEF w, J, W
    <3> QED BY <1>4, <1>5, ReflectUp
  <2> HIDE DEF c, O
  <2>4. TakenLow(l, Reflect(c, W), o) = Reflect(Fed(m, c, o), W)
    <3>1. o \in SUBSET (0 .. OctetBits - 1) /\ l = RegisterLayout(m) /\ c \in SUBSET (0 .. l.width - 1)
      BY <2>3 DEF O
    <3> HIDE DEF l
    <3> QED BY <3>1, TakenLowIs
  <2>5. Fed(m, c, o) = Up(Residue(m, Append(e, o)), J)
    BY <2>2 DEF CrcAt
  <2> QED BY <2>4, <2>5 DEF c
<1>7. first = Reflect(Up(Residue(m, <<>>), J), W)
  <2>1. CrcAt(m, l.init, <<>>)
    BY CrcBegins
  <2> QED BY <2>1 DEF CrcAt
<1>8. first \in S
  BY <1>2, <1>7
<1>9. ASSUME NEW x \in S, NEW o \in O  PROVE TakenLow(l, x, o) \in S
  <2>1. PICK e \in Seq(O) : x = Reflect(Up(Residue(m, e), J), W)
    OBVIOUS
  <2>2. Append(e, o) \in Seq(O)
    OBVIOUS
  <2> QED BY <2>1, <2>2, <1>6
<1>10. Eq(after)
  <2> HIDE DEF first, l, W, J, O
  <2>1. s \in [S \X (1 .. n) -> S]
    <3>1. ASSUME NEW x \in S \X (1 .. n)  PROVE TakenLow(l, x[1], d[x[2]]) \in S
      <4>1. x[1] \in S /\ d[x[2]] \in O
        BY <1>3
      <4> HIDE DEF S
      <4> QED BY <4>1, <1>9
    <3> HIDE DEF S
    <3> QED BY <3>1
  <2>2. ASSUME NEW x \in S, NEW k \in 1 .. n  PROVE s[<<x, k>>] = TakenLow(l, x, d[k])
    <3> HIDE DEF S
    <3>1. <<x, k>> \in S \X (1 .. n)
      OBVIOUS
    <3> QED BY <3>1
  <2> HIDE DEF s, S
  <2>3. PICK f : RunsFrom(f, S, first, n, s)
    BY <1>2, <1>8, <2>1, Recursion
  <2>4. f \in [0 .. n -> S] /\ f[0] = first /\ \A k \in 1 .. n : f[k] = s[<<f[k - 1], k>>]
    BY <2>3 DEF RunsFrom
  <2>5. ASSUME NEW k \in 0 .. n  PROVE f[k] = IF k = 0 THEN first ELSE TakenLow(l, f[k - 1], d[k])
    <3>1. CASE k = 0
      BY <3>1, <2>4
    <3>2. CASE k # 0
      <4>1. k \in 1 .. n /\ k - 1 \in 0 .. n
        BY <3>2, <1>2
      <4>2. f[k - 1] \in S
        BY <4>1, <2>4
      <4> QED BY <4>1, <4>2, <2>2, <2>4, <3>2
    <3> QED BY <3>1, <3>2
  <2>6. f = [k \in 0 .. n |-> f[k]]
    BY <2>4
  <2>7. Eq(f)
    BY <2>5, <2>6
  <2> HIDE DEF Eq
  <2>8. \E e : Eq(e)
    BY <2>7
  <2> QED BY <2>8
<1> HIDE DEF after, S, first, l, W, J
<1>11. after[0] = first /\ \A k \in 1 .. n : after[k] = TakenLow(l, after[k - 1], d[k])
  BY <1>2, <1>10
<1> HIDE DEF Eq, At, O, w
<1> DEFINE T == {k \in 0 .. n : after[k] = Reflect(Up(Residue(m, At(k)), J), W)}
<1>12. 0 \in T
  BY <1>2, <1>3, <1>7, <1>11
<1>13. \A k \in 1 .. n : k - 1 \in T => k \in T
  <2> SUFFICES ASSUME NEW k \in 1 .. n, k - 1 \in T  PROVE k \in T
    OBVIOUS
  <2>1. after[k - 1] = Reflect(Up(Residue(m, At(k - 1)), J), W) /\ At(k - 1) \in Seq(O) /\ d[k] \in O
    BY <1>3
  <2>2. TakenLow(l, after[k - 1], d[k]) = Reflect(Up(Residue(m, Append(At(k - 1), d[k])), J), W)
    BY <2>1, <1>6
  <2>3. after[k] = TakenLow(l, after[k - 1], d[k]) /\ At(k) = Append(At(k - 1), d[k]) /\ k \in 0 .. n
    BY <1>3, <1>11
  <2>4. after[k] = Reflect(Up(Residue(m, At(k)), J), W)
    BY <2>2, <2>3
  <2> QED BY <2>3, <2>4
<1> HIDE DEF T
<1>14. \A k \in 0 .. n : k \in T
  BY <1>2, <1>12, <1>13, Climbing
<1>15. after[n] = Reflect(Up(Residue(m, d), J), W)
  <2>1. n \in T
    BY <1>2, <1>14
  <2> QED BY <2>1, <1>3 DEF T
<1>16. Reflect(Up(Residue(m, d), J), W) = Reflect(Residue(m, d), w)
  BY <1>2, <1>4, <1>5, ReflectUp
<1> QED BY <1>1, <1>15, <1>16 DEF CrcOf, w

-----------------------------------------------------------------------------
(* The CRC: its form. *)

\* A form has its fields, and the values of a published model fit its register.
FilledIn(form) ==
  /\ {"model", "width", "poly", "init", "xorOut", "refIn", "refOut"} \subseteq DOMAIN form
  /\ form.width \in Nat \ {0}
  /\ form.model # "custom" => form.poly \in SUBSET (0 .. form.width - 1) /\ form.init \in SUBSET (0 .. form.width - 1)

\* What it resolves to, if it does, is a model of that width.
LEMMA ResolvedIs ==
  ASSUME NEW form, FilledIn(form), NEW r, r = ResolveModel(form)
  PROVE  /\ r.ok \in BOOLEAN
         /\ r.ok => Modelled(r.model) /\ r.model.width = form.width /\ r.model.refIn = form.refIn /\ r.model.refOut = form.refOut
<1> DEFINE w == form.width
           i == IF form["init"] = NoValue THEN {} ELSE form["init"]
           x == IF form["xorOut"] = NoValue THEN {} ELSE form["xorOut"]
           f == [form EXCEPT !.init = i]
           g == [form EXCEPT !.init = i, !.xorOut = x]
<1>1. CASE form.model # "custom"
  <2>1. r = [ok |-> TRUE, problem |-> "none", model |-> form]
    BY <1>1 DEF ResolveModel
  <2> QED BY <2>1, <1>1 DEF FilledIn, Modelled
<1>2. CASE form.model = "custom"
  <2>1. /\ {"width", "poly", "init", "xorOut", "refIn", "refOut"} \subseteq DOMAIN form
        /\ w \in Nat \ {0}
    BY DEF FilledIn
  <2>2. g = [f EXCEPT !.xorOut = x]
    OBVIOUS
  <2>3. DOMAIN f = DOMAIN form /\ \A a \in DOMAIN form : f[a] = IF a = "init" THEN i ELSE form[a]
    BY <2>1
  <2>4. DOMAIN g = DOMAIN form /\ \A a \in DOMAIN form : g[a] = IF a = "xorOut" THEN x ELSE f[a]
    BY <2>1, <2>2, <2>3
  <2> HIDE DEF f, g
  <2>5. g.width = w /\ g.poly = form.poly /\ g.init = i /\ g.refIn = form.refIn /\ g.refOut = form.refOut
    BY <2>1, <2>3, <2>4
  <2>6. /\ r.ok \in BOOLEAN
        /\ r.ok => /\ r.model = g /\ form.poly # NoValue
                   /\ form["poly"] = NoValue \/ form["poly"] \subseteq 0 .. w - 1
                   /\ form["init"] = NoValue \/ form["init"] \subseteq 0 .. w - 1
    BY <1>2 DEF ResolveModel, g
  <2>7. r.ok => form.poly \in SUBSET (0 .. w - 1) /\ i \in SUBSET (0 .. w - 1)
    BY <2>6
  <2> HIDE DEF i
  <2> QED BY <2>1, <2>5, <2>6, <2>7 DEF Modelled
<1> QED BY <1>1, <1>2

\* The register of a form, after the message d.
Registered(form, c, d) ==
  IF ResolveModel(form).ok THEN CrcAt(ResolveModel(form).model, c, d) ELSE c = {}

LEMMA RegisterBegins == ASSUME NEW form, FilledIn(form)  PROVE Registered(form, CrcStart(form), <<>>)
<1> DEFINE r == ResolveModel(form)
<1>1. r.ok => Modelled(r.model)
  BY ResolvedIs
<1> HIDE DEF r
<1>2. r.ok => CrcAt(r.model, RegisterLayout(r.model).init, <<>>)
  BY <1>1, CrcBegins
<1> QED BY <1>2 DEF Registered, CrcStart, r

LEMMA RegisterGoesOn ==
  ASSUME NEW form, FilledIn(form), NEW c, NEW d, InOctets(d), Registered(form, c, d), NEW chunk, InOctets(chunk)
  PROVE  Registered(form, CrcUpdate(form, c, chunk), d \o chunk)
<1>1. CASE ResolveModel(form).ok
  <2> DEFINE m == ResolveModel(form).model
  <2>1. Modelled(m) /\ CrcAt(m, c, d) /\ m = ResolveModel(form).model
    BY <1>1, ResolvedIs DEF Registered
  <2> HIDE DEF m
  <2>2. CrcAt(m, CrcUpdate(form, c, chunk), d \o chunk)
    BY <1>1, <2>1, CrcGoesOn
  <2> QED BY <1>1, <2>2 DEF Registered, m
<1>2. CASE ~ResolveModel(form).ok
  BY <1>2 DEF Registered, CrcUpdate
<1> QED BY <1>1, <1>2

LEMMA OctetsAreCounted == ASSUME NEW v, NEW w \in Nat  PROVE \E T : ToOctets(v, w) \in Seq(T)
<1> DEFINE n == (w + OctetBits - 1) \div OctetBits
           T == {Masked(Down(v, (n - k) * OctetBits), OctetBits) : k \in 1 .. n}
           s == [k \in 1 .. n |-> Masked(Down(v, (n - k) * OctetBits), OctetBits)]
<1>1. n \in Nat
  <2> DEFINE q == w + OctetBits - 1
             B == OctetBits
  <2>1. q \in Nat /\ B \in Nat \ {0}
    BY OctetsHaveBits
  <2> HIDE DEF q, B
  <2>2. q \div B \in Nat
    BY <2>1
  <2> QED BY <2>2 DEF q, B
<1>2. ToOctets(v, w) = s
  BY DEF ToOctets
<1> HIDE DEF n
<1>3. s \in [1 .. n -> T]
  OBVIOUS
<1> HIDE DEF T, s
<1>4. s \in Seq(T)
  BY <1>1, <1>3
<1> QED BY <1>2, <1>4

LEMMA RegisterCloses ==
  ASSUME NEW form, FilledIn(form), NEW c, NEW d, InOctets(d), Registered(form, c, d), NEW r, r = ResolveModel(form)
  PROVE  /\ CrcFinish(form, c) = CrcOneShot(form, d) /\ CrcFinish(form, c).ok = r.ok /\ r.ok \in BOOLEAN
         /\ ~r.ok => CrcFinish(form, c).out = <<>>
         /\ \E T : CrcFinish(form, c).out \in Seq(T)
         /\ r.ok /\ form.refIn /\ form.refOut => ToOctets(ByReflectedTable(r.model, d), r.model.width) = CrcFinish(form, c).out
<1>1. CASE r.ok
  <2> DEFINE m == r.model
             l == RegisterLayout(m)
  <2>1. Modelled(m) /\ CrcAt(m, c, d) /\ m = ResolveModel(form).model /\ ResolveModel(form).ok /\ m.width \in Nat
    BY <1>1, ResolvedIs DEF Registered, Modelled
  <2>2. m.refIn = form.refIn /\ m.refOut = form.refOut /\ r.ok \in BOOLEAN
    BY <1>1, ResolvedIs
  <2> HIDE DEF m
  <2>3. CrcFinish(form, c) = CrcOneShot(form, d) /\ CrcFinish(form, c).ok
    BY <2>1, CrcCloses
  <2>4. CrcOneShot(form, d).out = ToOctets(CrcOf(m, d), m.width)
    BY <2>1 DEF CrcOneShot
  <2>5. m.refIn /\ m.refOut => ByReflectedTable(m, d) = CrcOf(m, d)
    BY <2>1, ReflectedIs
  <2>6. \E T : ToOctets(CrcOf(m, d), m.width) \in Seq(T)
    BY <2>1, OctetsAreCounted
  <2>7. CrcFinish(form, c).ok = r.ok
    BY <1>1, <2>1 DEF CrcFinish
  <2> QED BY <1>1, <2>2, <2>3, <2>4, <2>5, <2>6, <2>7 DEF m
<1>2. CASE ~r.ok
  <2>1. CrcFinish(form, c) = [ok |-> r.ok, out |-> <<>>] /\ CrcOneShot(form, d) = [ok |-> r.ok, out |-> <<>>]
    BY <1>2 DEF CrcFinish, CrcOneShot
  <2>2. r.ok \in BOOLEAN
    BY ResolvedIs
  <2>3. <<>> \in Seq({})
    OBVIOUS
  <2> QED BY <1>2, <2>1, <2>2, <2>3
<1> QED BY <1>1, <1>2

\* It is no wider than its width or an octet.
LEMMA RegisterIsLittle ==
  ASSUME NEW form, FilledIn(form), NEW c, NEW d, Registered(form, c, d)
  PROVE  c \subseteq 0 .. Max({form.width, OctetBits}) - 1
<1> DEFINE w == form.width
           B == OctetBits
           top == Max({w, B})
<1>1. w \in Nat \ {0} /\ B \in Nat \ {0}
  BY OctetsHaveBits DEF FilledIn
<1>2. top \in Nat /\ w <= top /\ B <= top
  <2> DEFINE k == w + B
             Z == {w, B}
  <2>1. k \in Nat /\ Z \in SUBSET (0 .. k) /\ Z # {} /\ w \in Z /\ B \in Z
    BY <1>1
  <2> HIDE DEF k, Z
  <2>2. Max(Z) \in Z /\ \A x \in Z : x <= Max(Z)
    BY <2>1, MaxIs
  <2> QED BY <2>1, <2>2, <1>1 DEF Z
<1>3. CASE ResolveModel(form).ok
  <2> DEFINE m == ResolveModel(form).model
             l == RegisterLayout(m)
             W == l.width
             J == l.justify
             a == Residue(m, d)
  <2>1. Modelled(m) /\ m.width = w /\ CrcAt(m, c, d)
    BY <1>3, ResolvedIs DEF Registered
  <2>2. W = w + J /\ J \in Nat /\ W \in {w, B}
    BY <2>1, LayoutIs
  <2>3. a \in SUBSET (0 .. w - 1) /\ c = Up(a, J)
    BY <2>1 DEF CrcAt
  <2> HIDE DEF m, W, J, a, w, B, top
  <2>4. Up(a, J) \in SUBSET (0 .. W - 1)
    BY <1>1, <2>2, <2>3, ReflectUp
  <2>5. W - 1 <= top - 1 /\ W \in Nat
    BY <1>1, <1>2, <2>2
  <2>6. 0 .. W - 1 \subseteq 0 .. top - 1
    BY <2>5, <1>2
  <2> QED BY <2>3, <2>4, <2>6 DEF w, B, top
<1>4. CASE ~ResolveModel(form).ok
  BY <1>4 DEF Registered
<1> QED BY <1>3, <1>4
=============================================================================
