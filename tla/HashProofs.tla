----------------------------- MODULE HashProofs -----------------------------
(***************************************************************************)
(* Lemmas about the incremental hashes, for all messages and all cuts.     *)
(* What a hash holds of a message read so far is determined by the message *)
(* (Hashed): HashAt for the designs that take whole blocks from the chunk, *)
(* FillAt for those that fill their buffer first, HoldAt and BeetleAt for  *)
(* Esch and PHOTON-Beetle, SkeinAt, Xxh3At, and Md6At with the tree over   *)
(* the leaves (TreeAs).  An empty message starts it (HashedBegins), a      *)
(* chunk of any length keeps it (HashedGoesOn), it stays within the buffer *)
(* (HashedIsLittle), and the digest made of it is the one-shot form's of   *)
(* the whole message (HashedCloses).                                       *)
(***************************************************************************)
EXTENDS HashStreams, UnitProofs

-----------------------------------------------------------------------------
(* MerkleDamgard, and the others that take whole blocks from the chunk. *)

\* What may be in a buffer besides the message.
Marks == {<<"0">>, <<"80">>} \cup ({"length"} \X Nat) \cup ({"pad"} \X Nat)

\* A buffer of one unit, its first bytes known.
Buffer(E, b) == b \in Seq(E) /\ Len(b) = UnitSize

\* Bytes written into a buffer go behind the ones that count.
LEMMA WrittenIs ==
  ASSUME NEW E, NEW b, Buffer(E, b), NEW at \in Nat, NEW x \in Seq(E), at + Len(x) <= UnitSize
  PROVE  /\ Buffer(E, Written(b, at, x))
         /\ Upto(Written(b, at, x), at + Len(x)) = Upto(b, at) \o x
         /\ x = <<>> => Written(b, at, x) = b
<1> DEFINE w == Written(b, at, x)
           n == Len(x)
           c == Upto(b, at)
<1>1. n \in Nat /\ UnitSize \in Nat \ {0} /\ b \in Seq(E) /\ Len(b) = UnitSize
  BY UnitsAreUnits DEF Buffer
<1>2. w = [i \in 1 .. UnitSize |-> IF i \in at + 1 .. at + n THEN x[i - at] ELSE b[i]]
  BY DEF Written
<1> HIDE DEF w, n
<1>3. \A i \in 1 .. UnitSize : (IF i \in at + 1 .. at + n THEN x[i - at] ELSE b[i]) \in E
  BY <1>1 DEF n
<1>4. w \in Seq(E) /\ Len(w) = UnitSize /\ \A i \in 1 .. UnitSize : w[i] = IF i \in at + 1 .. at + n THEN x[i - at] ELSE b[i]
  BY <1>1, <1>2, <1>3
<1>5. c \in Seq(E) /\ Len(c) = at /\ \A i \in 1 .. at : c[i] = b[i]
  BY <1>1 DEF Upto, n
<1>6. /\ Upto(w, at + n) \in Seq(E) /\ Len(Upto(w, at + n)) = at + n
      /\ \A i \in 1 .. at + n : Upto(w, at + n)[i] = w[i]
  <2>1. at + n \in Nat /\ at + n <= Len(w)
    BY <1>1, <1>4 DEF n
  <2> QED BY <1>4, <2>1 DEF Upto
<1> HIDE DEF c
<1>7. c \o x = Upto(w, at + n)
  <2> DEFINE z == Upto(w, at + n)
  <2>1. z \in Seq(E) /\ Len(z) = Len(c) + Len(x)
    BY <1>5, <1>6 DEF n
  <2>2. \A i \in 1 .. Len(c) : z[i] = c[i]
    <3> SUFFICES ASSUME NEW i \in 1 .. at  PROVE z[i] = c[i]
      BY <1>5
    <3>1. i \in 1 .. at + n /\ i \in 1 .. UnitSize /\ i \notin at + 1 .. at + n
      BY <1>1 DEF n
    <3> QED BY <3>1, <1>4, <1>5, <1>6
  <2>3. \A i \in 1 .. Len(x) : z[Len(c) + i] = x[i]
    <3> SUFFICES ASSUME NEW i \in 1 .. n  PROVE z[at + i] = x[i]
      BY <1>5 DEF n
    <3>1. at + i \in 1 .. at + n /\ at + i \in 1 .. UnitSize /\ at + i \in at + 1 .. at + n /\ (at + i) - at = i
      BY <1>1 DEF n
    <3> QED BY <3>1, <1>4, <1>6
  <2> HIDE DEF z
  <2>4. c \in Seq(E) /\ x \in Seq(E)
    BY <1>5
  <2>5. c \o x = z
    BY <2>1, <2>2, <2>3, <2>4, JoinIs
  <2> QED BY <2>5 DEF z
<1>8. x = <<>> => w = b
  <2> SUFFICES ASSUME x = <<>>  PROVE w = b
    OBVIOUS
  <2>1. n = 0
    BY DEF n
  <2>2. \A i \in 1 .. UnitSize : w[i] = b[i]
    BY <2>1, <1>1, <1>4
  <2> QED BY <2>2, <1>1, <1>4
<1> QED BY <1>4, <1>7, <1>8 DEF Buffer, w, n, c

\* What a MerkleDamgard hash holds of a message d: the blocks it compressed,
\* and in the first bytes of its buffer, whatever the others are, the rest.
HashAt(E, s, d) ==
  /\ s \in [buffer : Seq(E), buffered : 0 .. UnitSize - 1, length : Nat, blocks : Seq(Seq(E))]
  /\ Buffer(E, s.buffer) /\ s.length = Len(d)
  /\ CutInto(d, s.blocks, Upto(s.buffer, s.buffered))

\* A new hash has an empty buffer.
LEMMA HashBegins == ASSUME NEW E, <<"0">> \in E  PROVE HashAt(E, HashStart, <<>>)
<1>1. UnitSize \in Nat \ {0}
  BY UnitsAreUnits
<1> DEFINE b == [i \in 1 .. UnitSize |-> <<"0">>]
<1>2. b \in Seq(E) /\ Len(b) = UnitSize
  BY <1>1
<1>3. HashStart = [buffer |-> b, buffered |-> 0, length |-> 0, blocks |-> <<>>]
  BY DEF HashStart
<1> HIDE DEF b
<1>4. Upto(b, 0) = <<>>
  BY <1>2 DEF Upto
<1>5. <<>> \in Seq(Seq(E)) /\ Len(<<>>) = 0 /\ 0 \in 0 .. UnitSize - 1
  BY <1>1
<1> QED BY <1>2, <1>3, <1>4, <1>5, CutNothing DEF HashAt, Buffer

\* MerkleDamgard.update: a buffer begun is filled up and compressed, then
\* whole blocks from the chunk, and what is over is the new rest, whatever
\* stays behind it in the buffer.
LEMMA HashGoesOn ==
  ASSUME NEW E, NEW d \in Seq(E), NEW chunk \in Seq(E), NEW s, HashAt(E, s, d)
  PROVE  HashAt(E, HashUpdate(s, chunk), d \o chunk)
<1> DEFINE k      == s.buffered
           b      == s.buffer
           bl     == s.blocks
           t      == Upto(b, k)
           take   == IF k = 0 THEN 0 ELSE Least(UnitSize - k, Len(chunk))
           up     == Upto(chunk, take)
           merged == Written(b, k, up)
           short  == k > 0 /\ k + take < UnitSize
           body   == Rest(chunk, take)
           whole  == (Len(body) \div UnitSize) * UnitSize
           over   == Rest(body, whole)
           units  == Units(Upto(body, whole))
           full   == IF k > 0 THEN <<merged>> ELSE <<>>
           tail   == t \o up
           blocks == bl \o full \o units
           buffer == Written(merged, 0, over)
<1>1. HashUpdate(s, chunk) =
        IF short THEN [s EXCEPT !.buffer = merged, !.buffered = @ + take, !.length = @ + Len(chunk)]
        ELSE [buffer |-> buffer, buffered |-> Len(over), length |-> s.length + Len(chunk), blocks |-> blocks]
  BY DEF HashUpdate
<1>2. /\ k \in 0 .. UnitSize - 1 /\ b \in Seq(E) /\ Len(b) = UnitSize /\ bl \in Seq(Seq(E)) /\ CutInto(d, bl, t)
      /\ s.length = Len(d) /\ UnitSize \in Nat \ {0} /\ Len(chunk) \in Nat /\ Len(d) \in Nat
      /\ s = [buffer |-> b, buffered |-> k, length |-> Len(d), blocks |-> bl]
  BY UnitsAreUnits DEF HashAt, Buffer
<1> HIDE DEF k, b, bl
<1>3. t \in Seq(E) /\ Len(t) = k
  BY <1>2 DEF Upto
<1>5. take \in Nat /\ take <= Len(chunk) /\ k + take <= UnitSize
  BY <1>2 DEF Least
<1>6. up \in Seq(E) /\ body \in Seq(E) /\ chunk = up \o body /\ Len(up) = take /\ Len(body) = Len(chunk) - take
  <2> HIDE DEF take
  <2>1. up = SubSeq(chunk, 1, take) /\ body = SubSeq(chunk, take + 1, Len(chunk))
    BY DEF Upto, Rest
  <2> HIDE DEF up, body
  <2> QED BY <2>1, <1>5, Splits
<1>7. tail \in Seq(E) /\ Len(tail) = k + take
  <2>1. tail = t \o up
    OBVIOUS
  <2> HIDE DEF take, up, t, tail
  <2> QED BY <2>1, <1>3, <1>6, Joins
<1>8. /\ units \in Seq(Seq(E)) /\ over \in Seq(E) /\ Len(over) < UnitSize /\ CutInto(body, units, over)
  <2> HIDE DEF body
  <2> QED BY <1>6, WholeUnits
<1>9. CutInto(d \o up, bl, tail)
  <2> HIDE DEF up, t
  <2>1. Len(bl) \in Nat
    BY <1>2
  <2> QED BY <2>1, <1>2, <1>6, CutLonger
<1>10. d \o chunk = (d \o up) \o body /\ d \o up \in Seq(E) /\ Len(d \o chunk) = Len(d) + Len(chunk)
  <2> HIDE DEF up, body
  <2>1. Len(d \o chunk) = Len(d) + Len(chunk) /\ d \o up \in Seq(E)
    BY <1>6, Joins
  <2>2. d \o (up \o body) = (d \o up) \o body
    BY <1>6
  <2> QED BY <2>1, <2>2, <1>6
<1>11. Buffer(E, merged) /\ Upto(merged, k + take) = tail /\ (up = <<>> => merged = b)
  <2> HIDE DEF up, take
  <2>1. Buffer(E, b) /\ k \in Nat /\ k + Len(up) <= UnitSize /\ k + Len(up) = k + take
    BY <1>2, <1>5, <1>6 DEF Buffer
  <2> QED BY <2>1, <1>6, WrittenIs
<1>12. Buffer(E, buffer) /\ Upto(buffer, Len(over)) = over
  <2> HIDE DEF over, merged
  <2> DEFINE n == Len(over)
  <2>1. 0 \in Nat /\ 0 + Len(over) <= UnitSize /\ 0 + Len(over) = Len(over) /\ over \in Seq(E)
    BY <1>2, <1>8
  <2>2. Buffer(E, buffer) /\ Upto(buffer, 0 + Len(over)) = Upto(merged, 0) \o over
    BY <2>1, <1>11, WrittenIs
  <2>3. Upto(merged, 0) = <<>>
    BY <1>11 DEF Upto, Buffer
  <2>4. <<>> \o over = over
    BY <2>1
  <2> QED BY <2>1, <2>2, <2>3, <2>4
<1> DEFINE Stays(now) == HashAt(E, now, d \o chunk)
<1>13. ASSUME short  PROVE Stays([buffer |-> merged, buffered |-> k + take, length |-> Len(d) + Len(chunk), blocks |-> bl])
  <2>1. take = Len(chunk) /\ k + take \in 0 .. UnitSize - 1
    BY <1>2, <1>5, <1>13 DEF Least
  <2> HIDE DEF take, merged, tail
  <2>2. body = <<>>
    <3> HIDE DEF up, body
    <3> QED BY <2>1, <1>2, <1>6
  <2>3. d \o up = d \o chunk
    <3> HIDE DEF up, body
    <3> QED BY <2>2, <1>6, <1>10
  <2>4. CutInto(d \o chunk, bl, Upto(merged, k + take)) /\ merged \in Seq(E) /\ Len(d) + Len(chunk) \in Nat
    BY <2>3, <1>2, <1>9, <1>11 DEF Buffer
  <2> QED BY <2>1, <2>4, <1>2, <1>10, <1>11 DEF HashAt
<1>14. ASSUME blocks \in Seq(Seq(E)), CutInto((d \o up) \o body, blocks, over)
       PROVE  Stays([buffer |-> buffer, buffered |-> Len(over), length |-> Len(d) + Len(chunk), blocks |-> blocks])
  <2> HIDE DEF over, buffer, blocks, up, body
  <2>1. Len(over) \in 0 .. UnitSize - 1 /\ buffer \in Seq(E) /\ Len(d) + Len(chunk) \in Nat
    BY <1>2, <1>8, <1>12 DEF Buffer
  <2> QED BY <2>1, <1>10, <1>12, <1>14 DEF HashAt
<1>15. ASSUME ~short, k > 0  PROVE blocks \in Seq(Seq(E)) /\ CutInto((d \o up) \o body, blocks, over)
  <2>1. k + take = UnitSize
    <3> HIDE DEF take
    <3>1. ~(k + take < UnitSize)
      BY <1>15
    <3> QED BY <3>1, <1>2, <1>5
  <2>2. merged = tail /\ Len(tail) = UnitSize
    <3> HIDE DEF merged, tail, take
    <3>1. Upto(merged, UnitSize) = merged
      BY <1>11 DEF Upto, Buffer
    <3> QED BY <2>1, <3>1, <1>7, <1>11
  <2> HIDE DEF merged, tail, take
  <2>3. blocks = Append(bl, tail) \o units /\ Append(bl, tail) \in Seq(Seq(E))
    <3>1. full = <<tail>>
      BY <2>2, <1>15
    <3> HIDE DEF full, units
    <3> QED BY <3>1, <1>2, <1>7
  <2> HIDE DEF up, body, units, over, blocks
  <2>4. CutInto(d \o up, Append(bl, tail), <<>>)
    BY <2>2, <1>2, <1>7, <1>9, <1>10, CutFull
  <2>5. CutInto((d \o up) \o body, blocks, over)
    BY <2>3, <2>4, <1>6, <1>8, <1>10, CutJoins
  <2> QED BY <2>3, <2>5, <1>8
<1>16. ASSUME ~short, k = 0  PROVE blocks \in Seq(Seq(E)) /\ CutInto((d \o up) \o body, blocks, over)
  <2>1. take = 0
    BY <1>16
  <2> HIDE DEF take
  <2>2. full = <<>> /\ t = <<>> /\ tail = <<>> /\ d \o up = d
    <3>1. full = <<>>
      BY <1>16
    <3> HIDE DEF up, t, tail, full
    <3>2. up = <<>> /\ t = <<>> /\ tail = <<>>
      BY <2>1, <1>16, <1>3, <1>6, <1>7
    <3> QED BY <3>1, <3>2
  <2> HIDE DEF up, body, units, over, full, tail, t
  <2>3. blocks = bl \o units
    BY <2>2, <1>2, <1>8
  <2> HIDE DEF blocks
  <2>4. CutInto(d, bl, <<>>)
    BY <2>2, <1>2
  <2>5. CutInto(d \o body, blocks, over)
    BY <2>3, <2>4, <1>2, <1>6, <1>8, CutJoins
  <2> QED BY <2>2, <2>3, <2>5, <1>2, <1>8
<1> HIDE DEF up, body, over, buffer, blocks, merged, take
<1>17. CASE short
  <2>1. HashUpdate(s, chunk) = [buffer |-> merged, buffered |-> k + take, length |-> Len(d) + Len(chunk), blocks |-> bl]
    BY <1>1, <1>2, <1>17 DEF k, b, bl
  <2> QED BY <2>1, <1>13, <1>17
<1>18. CASE ~short
  <2>1. HashUpdate(s, chunk) = [buffer |-> buffer, buffered |-> Len(over), length |-> Len(d) + Len(chunk), blocks |-> blocks]
    BY <1>1, <1>2, <1>18
  <2>2. k > 0 \/ k = 0
    BY <1>2
  <2> QED BY <2>1, <2>2, <1>14, <1>15, <1>16, <1>18
<1> QED BY <1>17, <1>18
-----------------------------------------------------------------------------
\* Whole units are cut back into themselves.
LEMMA UnitsOfWhole ==
  ASSUME NEW S, NEW s \in Seq(S), NEW bl \in Seq(Seq(S)), CutInto(s, bl, <<>>)
  PROVE  Units(s) = bl
<1> DEFINE q == Len(bl)
<1>1. q \in Nat /\ UnitSize \in Nat \ {0}
  BY UnitsAreUnits
<1>2. Len(s) = q * UnitSize + 0 /\ 0 \in 0 .. UnitSize - 1 /\ \A i \in 1 .. q : bl[i] = UnitOf(s, i)
  <2>1. Len(s) = q * UnitSize + Len(<<>>) /\ Len(<<>>) = 0
    BY DEF CutInto
  <2> QED BY <2>1, <1>1 DEF CutInto
<1>3. DOMAIN Units(s) = 1 .. q /\ \A i \in 1 .. q : Units(s)[i] = UnitOf(s, i)
  BY <1>1, <1>2, UnitsAre
<1>4. Units(s) = [i \in DOMAIN Units(s) |-> Units(s)[i]]
  BY DEF Units
<1>5. bl = [i \in 1 .. q |-> bl[i]]
  OBVIOUS
<1> HIDE DEF q
<1> QED BY <1>2, <1>3, <1>4, <1>5

\* A cut with less than a unit left is the only one.
LEMMA CutIs ==
  ASSUME NEW S, NEW s \in Seq(S), NEW bl \in Seq(Seq(S)), NEW t \in Seq(S), CutInto(s, bl, t), Len(t) < UnitSize
  PROVE  /\ Len(s) \div UnitSize = Len(bl) /\ Len(s) % UnitSize = Len(t)
         /\ Units(Aligned(s)) = bl /\ Remainder(s) = t
<1> DEFINE q == Len(bl)
           r == Len(t)
           w == (Len(s) \div UnitSize) * UnitSize
           al == Ghash(Upto(s, w))
           u  == Rest(s, w)
<1>1. q \in Nat /\ r \in 0 .. UnitSize - 1 /\ UnitSize \in Nat \ {0} /\ Len(s) = q * UnitSize + r /\ Len(s) \in Nat
  <2>1. UnitSize \in Nat \ {0} /\ Len(s) \in Nat /\ q \in Nat /\ r \in Nat
    BY UnitsAreUnits
  <2>2. r < UnitSize /\ Len(s) = q * UnitSize + r
    BY DEF CutInto
  <2> QED BY <2>1, <2>2
<1>2. Len(s) \div UnitSize = q /\ Len(s) % UnitSize = r
  BY <1>1, DivIs
<1>3. al \in Seq(Seq(S)) /\ Units(Upto(s, w)) = al /\ u \in Seq(S) /\ Len(u) < UnitSize /\ CutInto(s, al, u)
  BY WholeUnits
<1>4. w = q * UnitSize
  BY <1>2
<1> HIDE DEF w, al, u
<1>5. Len(al) = q
  <2>1. Len(al) \in Nat /\ Len(u) \in 0 .. UnitSize - 1 /\ Len(s) = Len(al) * UnitSize + Len(u)
    <3>1. Len(s) = Len(al) * UnitSize + Len(u)
      BY <1>3 DEF CutInto
    <3>2. Len(al) \in Nat /\ Len(u) \in Nat /\ Len(u) < UnitSize
      BY <1>3
    <3> QED BY <3>1, <3>2, <1>1
  <2> QED BY <2>1, <1>1, <1>2, DivIs
<1>6. al = bl
  <2>1. \A i \in 1 .. q : al[i] = bl[i]
    BY <1>3, <1>5 DEF CutInto
  <2> HIDE DEF q
  <2>2. bl \in Seq(Seq(S)) /\ al \in Seq(Seq(S)) /\ Len(al) = Len(bl) /\ \A i \in 1 .. Len(bl) : al[i] = bl[i]
    BY <2>1, <1>3, <1>5 DEF q
  <2> QED BY <2>2
<1>7. u = t
  BY <1>3, <1>5 DEF CutInto
<1>8. Len(Upto(s, w)) = w
  <2> DEFINE m == q * UnitSize
  <2>1. m \in Nat /\ m <= Len(s)
    BY <1>1, Products
  <2> HIDE DEF m
  <2>2. Len(SubSeq(s, 1, m)) = m
    BY <2>1
  <2> QED BY <2>2, <1>4 DEF Upto, m
<1> QED BY <1>2, <1>3, <1>6, <1>7, <1>8 DEF Aligned, Remainder, w, u

\* What fills the last unit up.
LEMMA LastUnit ==
  ASSUME NEW S, NEW s \in Seq(S), NEW bl \in Seq(Seq(S)), NEW t \in Seq(S), CutInto(s, bl, t),
         NEW e \in Seq(S), Len(t \o e) = UnitSize
  PROVE  /\ Append(bl, t \o e) \in Seq(Seq(S)) /\ CutInto(s \o e, Append(bl, t \o e), <<>>)
         /\ Units(s \o e) = Append(bl, t \o e)
<1>1. s \o e \in Seq(S) /\ t \o e \in Seq(S) /\ Append(bl, t \o e) \in Seq(Seq(S)) /\ Len(bl) \in Nat
  <2>1. s \o e \in Seq(S) /\ t \o e \in Seq(S)
    OBVIOUS
  <2> DEFINE x == t \o e
  <2> HIDE DEF x
  <2>2. x \in Seq(S) => Append(bl, x) \in Seq(Seq(S))
    OBVIOUS
  <2> QED BY <2>1, <2>2 DEF x
<1>2. CutInto(s \o e, bl, t \o e)
  BY <1>1, CutLonger
<1>3. CutInto(s \o e, Append(bl, t \o e), <<>>)
  BY <1>1, <1>2, CutFull
<1> QED BY <1>1, <1>3, UnitsOfWhole

\* A buffer written over from k to its end.
LEMMA FilledUp ==
  ASSUME NEW E, NEW b, Buffer(E, b), NEW k \in Nat, NEW e \in Seq(E), k + Len(e) = UnitSize
  PROVE  /\ Written(b, k, e) = Upto(b, k) \o e
         /\ Upto(b, k) \in Seq(E) /\ Len(Upto(b, k)) = k /\ Len(Upto(b, k) \o e) = UnitSize
<1>1. Buffer(E, Written(b, k, e)) /\ Upto(Written(b, k, e), k + Len(e)) = Upto(b, k) \o e
  BY UnitsAreUnits, WrittenIs
<1>2. Upto(Written(b, k, e), UnitSize) = Written(b, k, e) /\ Len(Written(b, k, e)) = UnitSize
  BY <1>1 DEF Upto, Buffer
<1>3. Upto(b, k) \in Seq(E) /\ Len(Upto(b, k)) = k
  BY UnitsAreUnits DEF Upto, Buffer
<1> QED BY <1>1, <1>2, <1>3

LEMMA ZerosAre ==
  ASSUME NEW E, <<"0">> \in E, NEW n \in Nat
  PROVE  Zeros(n) \in Seq(E) /\ Len(Zeros(n)) = n /\ \A i \in 1 .. n : Zeros(n)[i] = <<"0">>
BY DEF Zeros

\* What a buffer still holds of an earlier block is written over.
LEMMA ZeroedIs ==
  ASSUME NEW E, <<"0">> \in E, NEW b, Buffer(E, b), NEW k \in 0 .. UnitSize
  PROVE  /\ Zeroed(b, k) = Upto(b, k) \o Zeros(UnitSize - k)
         /\ Zeros(UnitSize - k) \in Seq(E) /\ Len(Zeros(UnitSize - k)) = UnitSize - k
<1> DEFINE n == UnitSize - k
           z == Zeros(n)
<1>1. UnitSize \in Nat \ {0} /\ n \in Nat /\ k \in Nat /\ k + n = UnitSize
  BY UnitsAreUnits
<1>2. z \in Seq(E) /\ Len(z) = n /\ \A i \in 1 .. n : z[i] = <<"0">>
  BY <1>1, ZerosAre
<1>3. Zeroed(b, k) = Written(b, k, z)
  <2> HIDE DEF z, n
  <2>1. \A i \in 1 .. UnitSize : (IF i > k THEN <<"0">> ELSE b[i]) = (IF i \in k + 1 .. k + Len(z) THEN z[i - k] ELSE b[i])
    <3> SUFFICES ASSUME NEW i \in 1 .. UnitSize
                 PROVE  (IF i > k THEN <<"0">> ELSE b[i]) = (IF i \in k + 1 .. k + Len(z) THEN z[i - k] ELSE b[i])
      OBVIOUS
    <3>1. CASE i > k
      <4>1. i \in k + 1 .. k + Len(z) /\ i - k \in 1 .. n
        BY <3>1, <1>1, <1>2
      <4> QED BY <4>1, <3>1, <1>2
    <3>2. CASE ~(i > k)
      <4>1. i \notin k + 1 .. k + Len(z)
        BY <3>2, <1>1, <1>2
      <4> QED BY <4>1, <3>2
    <3> QED BY <3>1, <3>2
  <2> QED BY <2>1 DEF Zeroed, Written
<1> HIDE DEF z, n
<1>4. Written(b, k, z) = Upto(b, k) \o z
  <2>1. k + Len(z) = UnitSize /\ z \in Seq(E) /\ k \in Nat
    BY <1>1, <1>2
  <2> QED BY <2>1, FilledUp
<1> QED BY <1>2, <1>3, <1>4 DEF z, n

-----------------------------------------------------------------------------
(* The closings. *)

\* A sum of words closes with the rest and zeros, or with nothing.
LEMMA WordsClose ==
  ASSUME NEW E, Marks \subseteq E, NEW d \in Seq(E), NEW s, HashAt(E, s, d)
  PROVE  WordsDigest(s) = Units(Filled(d)) /\ WordsDigest(s) \in Seq(Seq(E))
<1> DEFINE k  == s.buffered
           b  == s.buffer
           bl == s.blocks
           t  == Upto(b, k)
<1>1. /\ k \in 0 .. UnitSize - 1 /\ Buffer(E, b) /\ bl \in Seq(Seq(E)) /\ CutInto(d, bl, t) /\ <<"0">> \in E
      /\ UnitSize \in Nat \ {0}
  BY UnitsAreUnits DEF HashAt, Marks
<1>2. WordsDigest(s) = IF k = 0 THEN bl ELSE Append(bl, Zeroed(b, k))
  BY DEF WordsDigest, ZeroFilled
<1> HIDE DEF k, b, bl
<1>3. t \in Seq(E) /\ Len(t) = k
  BY <1>1 DEF Upto, Buffer
<1> HIDE DEF t
<1>4. Len(d) % UnitSize = k
  <2>1. Len(t) < UnitSize
    BY <1>1, <1>3
  <2> QED BY <2>1, <1>1, <1>3, CutIs
<1>5. CASE k = 0
  <2>1. UnitSize % UnitSize = 0
    <3>1. 1 * UnitSize + 0 = UnitSize /\ 1 \in Nat /\ 0 \in 0 .. UnitSize - 1
      BY <1>1
    <3>2. (1 * UnitSize + 0) % UnitSize = 0
      BY <3>1, <1>1, DivIs
    <3> QED BY <3>1, <3>2
  <2>2. (UnitSize - (Len(d) % UnitSize)) % UnitSize = 0
    <3>1. UnitSize - (Len(d) % UnitSize) = UnitSize
      BY <1>4, <1>5, <1>1
    <3> QED BY <2>1, <3>1
  <2>3. Zeros(0) = <<>> /\ d \o <<>> = d
    BY DEF Zeros
  <2>4. Filled(d) = d
    BY <2>2, <2>3 DEF Filled
  <2>5. t = <<>>
    BY <1>3, <1>5
  <2> QED BY <2>4, <2>5, <1>1, <1>2, <1>5, UnitsOfWhole
<1>6. CASE k # 0
  <2> DEFINE z == Zeros(UnitSize - k)
  <2>1. Zeroed(b, k) = t \o z /\ z \in Seq(E) /\ Len(z) = UnitSize - k
    BY <1>1, ZeroedIs DEF t
  <2>2. (UnitSize - k) % UnitSize = UnitSize - k
    <3> DEFINE r == UnitSize - k
    <3>1. r \in 0 .. UnitSize - 1 /\ 0 \in Nat /\ 0 * UnitSize + r = r
      BY <1>1, <1>6
    <3> HIDE DEF r
    <3>2. (0 * UnitSize + r) % UnitSize = r
      BY <3>1, <1>1, DivIs
    <3> QED BY <3>1, <3>2 DEF r
  <2>3. Filled(d) = d \o z
    BY <2>2, <1>4 DEF Filled
  <2> HIDE DEF z
  <2>4. Len(t \o z) = UnitSize
    BY <2>1, <1>1, <1>3
  <2>5. Units(d \o z) = Append(bl, t \o z) /\ Append(bl, t \o z) \in Seq(Seq(E))
    BY <2>1, <2>4, <1>1, <1>3, LastUnit
  <2> QED BY <2>1, <2>3, <2>5, <1>2, <1>6
<1> QED BY <1>5, <1>6

\* MD2 closes with n bytes of n, and the checksum of all before it.
LEMMA Md2Closes ==
  ASSUME NEW E, Marks \subseteq E, NEW d \in Seq(E), NEW s, HashAt(E, s, d)
  PROVE  Md2Digest(s) = Md2Of(d) /\ \E T : Md2Digest(s) \in Seq(T)
<1> DEFINE k  == s.buffered
           b  == s.buffer
           bl == s.blocks
           t  == Upto(b, k)
           n  == UnitSize - k
           e  == [i \in 1 .. n |-> <<"pad", n>>]
           p  == [i \in 1 .. UnitSize |-> IF i > k THEN <<"pad", n>> ELSE b[i]]
<1>1. /\ k \in 0 .. UnitSize - 1 /\ Buffer(E, b) /\ bl \in Seq(Seq(E)) /\ CutInto(d, bl, t)
      /\ UnitSize \in Nat \ {0}
  BY UnitsAreUnits DEF HashAt
<1>2. Md2Digest(s) = Append(Append(bl, p), <<"checksum", Append(bl, p)>>)
  BY DEF Md2Digest
<1> HIDE DEF k, b, bl
<1>3. t \in Seq(E) /\ Len(t) = k
  BY <1>1 DEF Upto, Buffer
<1> HIDE DEF t
<1>4. Len(d) % UnitSize = k
  <2>1. Len(t) < UnitSize
    BY <1>1, <1>3
  <2> QED BY <2>1, <1>1, <1>3, CutIs
<1>5. Md2Of(d) = Append(Units(d \o e), <<"checksum", Units(d \o e)>>)
  BY <1>4 DEF Md2Of
<1>6. n \in Nat /\ k + n = UnitSize /\ k \in Nat
  BY <1>1
<1> HIDE DEF n
<1>7. e \in Seq(E) /\ Len(e) = n /\ \A i \in 1 .. n : e[i] = <<"pad", n>>
  <2>1. <<"pad", n>> \in E
    BY <1>6 DEF Marks
  <2> QED BY <2>1, <1>6
<1>8. p = Written(b, k, e)
  <2> HIDE DEF e
  <2>1. \A i \in 1 .. UnitSize : (IF i > k THEN <<"pad", n>> ELSE b[i]) = (IF i \in k + 1 .. k + Len(e) THEN e[i - k] ELSE b[i])
    <3> SUFFICES ASSUME NEW i \in 1 .. UnitSize
                 PROVE  (IF i > k THEN <<"pad", n>> ELSE b[i]) = (IF i \in k + 1 .. k + Len(e) THEN e[i - k] ELSE b[i])
      OBVIOUS
    <3>1. CASE i > k
      <4>1. i \in k + 1 .. k + Len(e) /\ i - k \in 1 .. n
        BY <3>1, <1>1, <1>6, <1>7
      <4> QED BY <4>1, <3>1, <1>7
    <3>2. CASE ~(i > k)
      <4>1. i \notin k + 1 .. k + Len(e)
        BY <3>2, <1>1, <1>6, <1>7
      <4> QED BY <4>1, <3>2
    <3> QED BY <3>1, <3>2
  <2> QED BY <2>1 DEF Written
<1> HIDE DEF e, p
<1>9. p = t \o e /\ Len(t \o e) = UnitSize
  BY <1>1, <1>6, <1>7, <1>8, FilledUp DEF t
<1>10. Units(d \o e) = Append(bl, p) /\ Append(bl, p) \in Seq(Seq(E))
  <2>1. /\ d \in Seq(E) /\ bl \in Seq(Seq(E)) /\ t \in Seq(E) /\ CutInto(d, bl, t)
        /\ e \in Seq(E) /\ Len(t \o e) = UnitSize
    BY <1>1, <1>3, <1>7, <1>9
  <2>2. Units(d \o e) = Append(bl, t \o e) /\ Append(bl, t \o e) \in Seq(Seq(E))
    BY ONLY <2>1, LastUnit, SMTT(30)
  <2> QED BY <2>2, <1>9
<1>11. Md2Digest(s) \in Seq(Seq(E) \cup {<<"checksum", Append(bl, p)>>})
  <2> DEFINE x == Append(bl, p)
             y == <<"checksum", x>>
  <2>1. x \in Seq(Seq(E))
    BY <1>10
  <2>2. Md2Digest(s) = Append(x, y)
    BY <1>2
  <2> HIDE DEF x, y
  <2>3. Append(x, y) \in Seq(Seq(E) \cup {y})
    <3> DEFINE T == Seq(E) \cup {y}
    <3>1. x \in Seq(T)
      BY <2>1
    <3>2. y \in T
      OBVIOUS
    <3> HIDE DEF T
    <3>3. Append(x, y) \in Seq(T)
      BY <3>1, <3>2
    <3> QED BY <3>3 DEF T
  <2> QED BY <2>2, <2>3 DEF y, x
<1> QED BY <1>2, <1>5, <1>10, <1>11

\* xxHash closes with the rest itself.
LEMMA XxhCloses ==
  ASSUME NEW E, NEW d \in Seq(E), NEW s, HashAt(E, s, d)
  PROVE  /\ XxhDigest(s) = Append(Units(Aligned(d)), <<IF Len(d) >= UnitSize THEN "long" ELSE "short", Remainder(d), Len(d)>>)
         /\ \E T : XxhDigest(s) \in Seq(T)
<1> DEFINE k  == s.buffered
           b  == s.buffer
           bl == s.blocks
           t  == Upto(b, k)
           y  == <<IF Len(d) >= UnitSize THEN "long" ELSE "short", t, Len(d)>>
<1>1. /\ k \in 0 .. UnitSize - 1 /\ Buffer(E, b) /\ bl \in Seq(Seq(E)) /\ CutInto(d, bl, t)
      /\ UnitSize \in Nat \ {0} /\ s.length = Len(d)
  BY UnitsAreUnits DEF HashAt
<1>2. XxhDigest(s) = Append(bl, y)
  BY <1>1 DEF XxhDigest
<1> HIDE DEF k, b, bl
<1>3. t \in Seq(E) /\ Len(t) = k
  BY <1>1 DEF Upto, Buffer
<1> HIDE DEF t
<1>4. Units(Aligned(d)) = bl /\ Remainder(d) = t
  BY <1>1, <1>3, CutIs
<1>5. Append(bl, y) \in Seq(Seq(E) \cup {y})
  <2> DEFINE T == Seq(E) \cup {y}
  <2> HIDE DEF y
  <2>1. bl \in Seq(T) /\ y \in T
    BY <1>1
  <2> HIDE DEF T
  <2>2. Append(bl, y) \in Seq(T)
    BY <2>1
  <2> QED BY <2>2 DEF T
<1> QED BY <1>2, <1>4, <1>5
-----------------------------------------------------------------------------
\* A whole number of units within a unit of another is that number.
LEMMA OneMultiple ==
  ASSUME NEW b \in Nat \ {0}, NEW x \in Nat, NEW y \in Nat, x % b = 0, y % b = 0, x < y + b, y < x + b
  PROVE  x = y
<1> DEFINE p == x \div b
           q == y \div b
           m == p * b
           n == q * b
<1>1. p \in Nat /\ q \in Nat /\ x = m /\ y = n
  BY DivMod
<1> HIDE DEF p, q
<1>2. ~(p < q)
  <2> SUFFICES ASSUME p < q  PROVE FALSE
    OBVIOUS
  <2>1. m + b <= n
    BY <1>1, ProductsGrow
  <2> HIDE DEF m, n
  <2> QED BY <2>1, <1>1
<1>3. ~(q < p)
  <2> SUFFICES ASSUME q < p  PROVE FALSE
    OBVIOUS
  <2>1. n + b <= m
    BY <1>1, ProductsGrow
  <2> HIDE DEF m, n
  <2> QED BY <2>1, <1>1
<1> QED BY <1>1, <1>2, <1>3

\* How many zeros make the marker, themselves and the length fill up a unit.
LEMMA PaddingIs ==
  ASSUME NEW q \in Nat, NEW k \in 0 .. UnitSize - 1, NEW l \in Nat, l = q * UnitSize + k,
         NEW z0 \in Nat, z0 = IF k + 1 + LengthField > UnitSize THEN 2 * UnitSize - (k + 1) - LengthField
                              ELSE UnitSize - (k + 1) - LengthField
  PROVE  (CHOOSE z \in 0 .. UnitSize - 1 : (l + 1 + z + LengthField) % UnitSize = 0) = z0
<1> DEFINE U == UnitSize
           F == LengthField
           P(z) == (l + 1 + z + F) % U = 0
<1>1. U \in Nat \ {0} /\ F \in 1 .. U /\ k \in Nat /\ k < U
  BY UnitsAreUnits
<1>2. z0 \in 0 .. U - 1
  BY <1>1
<1>3. P(z0)
  <2> DEFINE j == IF k + 1 + F > U THEN q + 2 ELSE q + 1
  <2>1. (q + 1) * U = q * U + U /\ (q + 2) * U = q * U + 2 * U
    <3>1. (q + 1) * U = q * U + 1 * U /\ (q + 2) * U = q * U + 2 * U
      BY <1>1, Distributes
    <3>2. 1 * U = U
      BY <1>1
    <3> QED BY <3>1, <3>2
  <2> DEFINE m == q * U
  <2>2. m \in Nat /\ l = m + k
    BY <1>1, Products
  <2>3. j \in Nat /\ j * U = IF k + 1 + F > U THEN m + 2 * U ELSE m + U
    BY <2>1
  <2> HIDE DEF m
  <2>4. l + 1 + z0 + F = j * U + 0
    <3> DEFINE n == j * U
    <3>1. n = IF k + 1 + F > U THEN m + 2 * U ELSE m + U
      BY <2>3
    <3> HIDE DEF n, j
    <3>2. l + 1 + z0 + F = n + 0
      BY <3>1, <2>2, <1>1
    <3> QED BY <3>2 DEF n
  <2>5. (j * U + 0) % U = 0
    <3> HIDE DEF j
    <3>1. j \in Nat /\ 0 \in 0 .. U - 1 /\ U \in Nat \ {0}
      BY <2>3, <1>1 DEF j
    <3> QED BY <3>1, DivIs
  <2> QED BY <2>4, <2>5
<1> HIDE DEF U, F
<1>4. ASSUME NEW z \in 0 .. U - 1, P(z)  PROVE z = z0
  <2> DEFINE x == l + 1 + z + F
             y == l + 1 + z0 + F
  <2>1. x \in Nat /\ y \in Nat /\ x < y + U /\ y < x + U /\ x - y = z - z0
    BY <1>1, <1>2
  <2>2. x % U = 0 /\ y % U = 0
    BY <1>3, <1>4
  <2> HIDE DEF x, y
  <2>3. x = y
    BY <2>1, <2>2, <1>1, OneMultiple
  <2> QED BY <2>1, <2>3, <1>2
<1>5. (CHOOSE z \in 0 .. U - 1 : P(z)) = z0
  <2> HIDE DEF P
  <2> QED BY <1>2, <1>3, <1>4
<1> QED BY <1>5 DEF U, F

\* The same, as what is known of the length and the zeros.
PaddedBy(l, z0) == (CHOOSE z \in 0 .. UnitSize - 1 : (l + 1 + z + LengthField) % UnitSize = 0) = z0

LEMMA Pads ==
  ASSUME NEW q \in Nat, NEW k \in 0 .. UnitSize - 1, NEW l \in Nat, l = q * UnitSize + k,
         NEW z0 \in Nat, z0 = IF k + 1 + LengthField > UnitSize THEN 2 * UnitSize - (k + 1) - LengthField
                              ELSE UnitSize - (k + 1) - LengthField
  PROVE  PaddedBy(l, z0)
BY PaddingIs DEF PaddedBy

LEMMA ExceptIs ==
  ASSUME NEW E, NEW b \in Seq(E), NEW n \in 1 .. Len(b), NEW v \in E
  PROVE  /\ [b EXCEPT ![n] = v] \in Seq(E) /\ Len([b EXCEPT ![n] = v]) = Len(b)
         /\ [b EXCEPT ![n] = v][n] = v
         /\ \A i \in 1 .. Len(b) : i # n => [b EXCEPT ![n] = v][i] = b[i]
OBVIOUS

LEMMA Between ==
  ASSUME NEW E, NEW m \in Seq(E), NEW x \in Seq(E), NEW l \in Seq(E), Len(m) = 1, Len(l) = 1
  PROVE  /\ m \o x \o l \in Seq(E) /\ Len(m \o x \o l) = Len(x) + 2
         /\ (m \o x \o l)[1] = m[1] /\ (m \o x \o l)[Len(x) + 2] = l[1]
         /\ \A i \in 1 .. Len(x) : (m \o x \o l)[1 + i] = x[i]
<1> DEFINE y == m \o x
           n == Len(x)
<1>1. y \in Seq(E) /\ Len(y) = 1 + n /\ y[1] = m[1] /\ n \in Nat /\ \A i \in 1 .. n : y[1 + i] = x[i]
  <2>1. /\ y \in Seq(E) /\ Len(y) = Len(m) + Len(x) /\ \A i \in 1 .. Len(m) : y[i] = m[i]
        /\ \A i \in 1 .. Len(x) : y[Len(m) + i] = x[i]
    BY Joins
  <2> HIDE DEF y
  <2>2. 1 \in 1 .. Len(m) /\ Len(x) \in Nat
    OBVIOUS
  <2> QED BY <2>1, <2>2
<1>2. \A i \in 1 .. n : y[1 + i] = x[i]
  BY <1>1
<1> HIDE DEF y
<1>0. /\ y \o l \in Seq(E) /\ Len(y \o l) = Len(y) + Len(l) /\ \A i \in 1 .. Len(y) : (y \o l)[i] = y[i]
      /\ \A i \in 1 .. Len(l) : (y \o l)[Len(y) + i] = l[i]
  <2>1. y \in Seq(E)
    BY <1>1
  <2> QED BY <2>1, Joins
<1> DEFINE w == y \o l
<1> HIDE DEF w, n
<1>3. /\ w \in Seq(E) /\ Len(w) = n + 2 /\ w[n + 2] = l[1]
  <2>1. 1 \in 1 .. Len(l) /\ Len(y) + 1 = n + 2
    BY <1>1
  <2> QED BY <2>1, <1>0, <1>1 DEF w
<1>4. \A i \in 1 .. n + 1 : w[i] = y[i]
  BY <1>0, <1>1 DEF w
<1>5. \A i \in 1 .. n : w[1 + i] = x[i]
  <2> SUFFICES ASSUME NEW i \in 1 .. n  PROVE w[1 + i] = x[i]
    OBVIOUS
  <2>1. 1 + i \in 1 .. n + 1
    BY <1>1
  <2> QED BY <2>1, <1>2, <1>4
<1>6. w[1] = m[1]
  BY <1>1, <1>4
<1> QED BY <1>3, <1>5, <1>6 DEF y, w, n

\* MerkleDamgard.digest: the marker, zeros and the length, in the block the
\* rest is in, or in that and one more, make the blocks of the padded message.
LEMMA MarkedCloses ==
  ASSUME NEW E, Marks \subseteq E, NEW d \in Seq(E), NEW s, HashAt(E, s, d)
  PROVE  HashDigest(s) = Units(Padded(d)) /\ HashDigest(s) \in Seq(Seq(E))
<1> DEFINE k  == s.buffered
           b  == s.buffer
           bl == s.blocks
           t  == Upto(b, k)
           U  == UnitSize
           F  == LengthField
           L  == Len(d)
           q  == Len(bl)
           at == k + 1
           spills == at + F > U
           mark == <<<<"80">>>>
           lend == <<<<"length", L>>>>
           z0   == IF spills THEN 2 * U - at - F ELSE U - at - F
           marked == [b EXCEPT ![at] = <<"80">>]
           flushed == IF spills THEN <<Zeroed(marked, at)>> ELSE <<>>
<1>1. /\ k \in 0 .. U - 1 /\ Buffer(E, b) /\ bl \in Seq(Seq(E)) /\ CutInto(d, bl, t) /\ s.length = L
      /\ U \in Nat \ {0} /\ F \in 1 .. U
  BY UnitsAreUnits DEF HashAt
<1>2. HashDigest(s) = bl \o flushed \o <<WithLength(Zeroed(marked, IF spills THEN 0 ELSE at), L)>>
  BY <1>1 DEF HashDigest
<1> HIDE DEF k, b, bl
<1>3. t \in Seq(E) /\ Len(t) = k /\ b \in Seq(E) /\ Len(b) = U
  BY <1>1 DEF Upto, Buffer
<1>4. z0 \in Nat
  BY <1>1
<1>5. Padded(d) = d \o mark \o Zeros(z0 + F - 1) \o lend
  <2>1. q \in Nat /\ L = q * U + k /\ L \in Nat
    <3>1. L = q * U + Len(t)
      BY <1>1 DEF CutInto
    <3>2. q \in Nat /\ L \in Nat
      BY <1>1
    <3> QED BY <3>1, <3>2, <1>3
  <2>2. (CHOOSE z \in 0 .. U - 1 : (L + 1 + z + F) % U = 0) = z0
    <3>1. /\ q \in Nat /\ k \in 0 .. UnitSize - 1 /\ L \in Nat /\ L = q * UnitSize + k /\ z0 \in Nat
          /\ z0 = IF k + 1 + LengthField > UnitSize THEN 2 * UnitSize - (k + 1) - LengthField
                  ELSE UnitSize - (k + 1) - LengthField
      BY <2>1, <1>1, <1>4
    <3> HIDE DEF q, L, z0
    <3>2. PaddedBy(L, z0)
      BY ONLY <3>1, Pads
    <3> QED BY ONLY <3>2 DEF PaddedBy
  <2> QED BY <2>2 DEF Padded
<1>6. /\ mark \in Seq(E) /\ Len(mark) = 1 /\ mark[1] = <<"80">>
      /\ lend \in Seq(E) /\ Len(lend) = 1 /\ lend[1] = <<"length", L>> /\ <<"0">> \in E /\ <<"80">> \in E
  <2>1. <<"80">> \in E /\ <<"length", L>> \in E /\ <<"0">> \in E
    BY DEF Marks
  <2> QED BY <2>1
<1> HIDE DEF U, F, L, q, mark, lend, t
<1>7. marked \in Seq(E) /\ Len(marked) = U /\ Buffer(E, marked) /\ Upto(marked, at) = t \o mark
  <2>1. /\ marked \in Seq(E) /\ Len(marked) = U /\ marked[at] = <<"80">> /\ at \in 1 .. U
        /\ \A i \in 1 .. k : marked[i] = b[i]
    BY <1>1, <1>3, <1>6
  <2> HIDE DEF marked
  <2> DEFINE w == Upto(marked, at)
  <2>2. w \in Seq(E) /\ Len(w) = k + 1 /\ \A i \in 1 .. k + 1 : w[i] = marked[i]
    BY <2>1, <1>1 DEF Upto
  <2>3. \A i \in 1 .. k : t[i] = b[i]
    BY <1>1, <1>3 DEF Upto, t
  <2> HIDE DEF w
  <2>4. Len(w) = Len(t) + Len(mark) /\ \A i \in 1 .. Len(t) : w[i] = t[i]
    BY <2>1, <2>2, <2>3, <1>1, <1>3, <1>6
  <2>5. \A i \in 1 .. Len(mark) : w[Len(t) + i] = mark[i]
    <3>1. w[k + 1] = marked[at] /\ k + 1 \in 1 .. k + 1
      BY <2>2, <1>1
    <3>2. w[Len(t) + 1] = mark[1]
      BY <3>1, <2>1, <1>3, <1>6
    <3> QED BY <3>2, <1>6
  <2>6. t \o mark = w
    BY <2>2, <2>4, <2>5, <1>3, <1>6, JoinIs
  <2> QED BY <2>1, <2>6 DEF Buffer, U, w
<1> HIDE DEF marked
<1> DEFINE r  == U - at
           zr == Zeros(r)
           e1 == mark \o zr
           b1 == Zeroed(marked, at)
<1>8. /\ r \in Nat /\ zr \in Seq(E) /\ Len(zr) = r /\ \A i \in 1 .. r : zr[i] = <<"0">>
  <2>1. r \in Nat
    BY <1>1
  <2> HIDE DEF r
  <2> QED BY <2>1, <1>6, ZerosAre
<1>9. b1 = t \o e1 /\ e1 \in Seq(E) /\ Len(t \o e1) = U /\ b1 \in Seq(E) /\ Len(b1) = U
  <2>1. at \in 0 .. UnitSize /\ UnitSize - at = r
    BY <1>1 DEF U
  <2> HIDE DEF at, r
  <2>2. b1 = Upto(marked, at) \o zr
    BY <2>1, <1>6, <1>7, ZeroedIs
  <2> HIDE DEF zr, b1, e1
  <2>3. b1 = t \o mark \o zr
    BY <2>2, <1>7
  <2>4. e1 \in Seq(E) /\ Len(e1) = 1 + r
    <3>1. mark \o zr \in Seq(E) /\ Len(mark \o zr) = Len(mark) + Len(zr)
      BY <1>6, <1>8, Joins
    <3> QED BY <3>1, <1>6, <1>8 DEF e1
  <2>5. b1 = t \o e1
    <3>1. (t \o mark) \o zr = t \o (mark \o zr)
      BY <1>3, <1>6, <1>8
    <3> QED BY <2>3, <3>1 DEF e1
  <2>6. t \o e1 \in Seq(E) /\ Len(t \o e1) = Len(t) + Len(e1)
    BY <2>4, <1>3
  <2>7. Len(t) + Len(e1) = U
    BY <2>4, <1>1, <1>3 DEF r, at
  <2> QED BY <2>4, <2>5, <2>6, <2>7
<1> DEFINE x == Zeros(z0 + F - 1)
<1>10. CASE ~spills
  <2> DEFINE e  == mark \o x \o lend
             b2 == WithLength(b1, L)
  <2>1. z0 + F - 1 = r - 1 /\ r - 1 \in Nat /\ r >= 1
    BY <1>1, <1>10
  <2>2. x \in Seq(E) /\ Len(x) = r - 1 /\ \A i \in 1 .. r - 1 : x[i] = <<"0">>
    <3> HIDE DEF z0, r
    <3> QED BY <2>1, <1>6, ZerosAre
  <2>3. Padded(d) = d \o e
    <3> HIDE DEF z0, x
    <3>1. d \o mark \o x \o lend = d \o (mark \o x \o lend)
      BY <2>2, <1>6
    <3> QED BY <1>5, <3>1 DEF x
  <2> HIDE DEF z0, x
  <2>4. /\ e \in Seq(E) /\ Len(e) = 1 + r /\ e[1] = <<"80">> /\ e[1 + r] = <<"length", L>>
        /\ \A i \in 2 .. r : e[i] = <<"0">>
    <3>1. /\ e \in Seq(E) /\ Len(e) = Len(x) + 2 /\ e[1] = mark[1] /\ e[Len(x) + 2] = lend[1]
          /\ \A i \in 1 .. Len(x) : e[1 + i] = x[i]
      <4>1. mark \in Seq(E) /\ x \in Seq(E) /\ lend \in Seq(E) /\ Len(mark) = 1 /\ Len(lend) = 1
        BY <2>2, <1>6
      <4> QED BY <4>1, Between, SMTT(30)
    <3> HIDE DEF e, r
    <3>2. Len(x) + 2 = 1 + r
      BY <2>1, <2>2, <1>8
    <3>3. \A i \in 2 .. r : e[i] = <<"0">>
      <4> SUFFICES ASSUME NEW i \in 2 .. r  PROVE e[i] = <<"0">>
        OBVIOUS
      <4>1. i - 1 \in 1 .. r - 1 /\ 1 + (i - 1) = i
        BY <2>1, <1>8
      <4> QED BY <4>1, <3>1, <2>2
    <3> QED BY <3>1, <3>2, <3>3, <1>6
  <2>5. /\ e1 \in Seq(E) /\ Len(e1) = 1 + r /\ e1[1] = <<"80">>
        /\ \A i \in 2 .. r : e1[i] = <<"0">>
    <3> HIDE DEF zr, r
    <3>1. /\ e1 \in Seq(E) /\ Len(e1) = Len(mark) + Len(zr) /\ \A i \in 1 .. Len(mark) : e1[i] = mark[i]
          /\ \A i \in 1 .. Len(zr) : e1[Len(mark) + i] = zr[i]
      BY <1>6, <1>8, Joins
    <3> HIDE DEF e1
    <3>2. \A i \in 2 .. r : e1[i] = <<"0">>
      <4> SUFFICES ASSUME NEW i \in 2 .. r  PROVE e1[i] = <<"0">>
        OBVIOUS
      <4>1. i - 1 \in 1 .. r /\ 1 + (i - 1) = i
        BY <2>1, <1>8
      <4> QED BY <4>1, <3>1, <1>6, <1>8
    <3> QED BY <3>1, <3>2, <1>6, <1>8
  <2> HIDE DEF e, e1, b1
  <2>6. /\ b2 \in Seq(E) /\ Len(b2) = U /\ b2[U] = <<"length", L>>
        /\ \A i \in 1 .. U - 1 : b2[i] = b1[i]
    <3>1. <<"length", L>> \in E
      BY <1>6
    <3>2. b2 = [b1 EXCEPT ![U] = <<"length", L>>]
      BY DEF WithLength, U
    <3>3. b1 \in Seq(E) /\ Len(b1) = U /\ U \in 1 .. Len(b1)
      BY <1>1, <1>9
    <3>4. \A i \in 1 .. U - 1 : i \in 1 .. U /\ i # U
      BY <1>1
    <3> HIDE DEF b2
    <3> QED BY <3>1, <3>2, <3>3, <3>4, ExceptIs
  <2> HIDE DEF b2, r, at
  <2>7. k + 1 + r = U /\ r \in Nat /\ r >= 1 /\ k \in Nat
    BY <1>1, <2>1 DEF r, at
  <2>8. b2 = t \o e
    <3>1. Len(b2) = Len(t) + Len(e)
      BY <2>4, <2>6, <2>7, <1>3
    <3>2. \A i \in 1 .. Len(t) : b2[i] = t[i]
      <4> SUFFICES ASSUME NEW i \in 1 .. k  PROVE b2[i] = t[i]
        BY <1>3
      <4>1. i \in 1 .. U - 1 /\ (t \o e1)[i] = t[i]
        BY <2>5, <2>7, <1>3, Joins
      <4> QED BY <4>1, <2>6, <1>9
    <3>3. \A i \in 1 .. Len(e) : b2[Len(t) + i] = e[i]
      <4> SUFFICES ASSUME NEW i \in 1 .. 1 + r  PROVE b2[k + i] = e[i]
        BY <2>4, <1>3
      <4>1. CASE i = 1 + r
        BY <4>1, <2>4, <2>6, <2>7
      <4>2. CASE i # 1 + r
        <5>1. k + i \in 1 .. U - 1 /\ i \in 1 .. r
          BY <4>2, <2>7
        <5>2. (t \o e1)[k + i] = e1[i]
          BY <5>1, <2>5, <2>7, <1>3, Joins
        <5>3. e1[i] = e[i]
          <6>1. CASE i = 1
            BY <6>1, <2>4, <2>5
          <6>2. CASE i # 1
            <7>1. i \in 2 .. r
              BY <6>2, <5>1, <2>7
            <7> QED BY <7>1, <2>4, <2>5
          <6> QED BY <6>1, <6>2
        <5> QED BY <5>1, <5>2, <5>3, <2>6, <1>9
      <4> QED BY <4>1, <4>2
    <3> QED BY <3>1, <3>2, <3>3, <2>4, <2>6, <1>3, JoinIs
  <2>9. Units(d \o e) = Append(bl, t \o e) /\ Append(bl, t \o e) \in Seq(Seq(E))
    <3>1. /\ d \in Seq(E) /\ bl \in Seq(Seq(E)) /\ t \in Seq(E) /\ CutInto(d, bl, t)
          /\ e \in Seq(E) /\ Len(t \o e) = UnitSize
      <4>1. Len(t \o e) = UnitSize
        BY <2>6, <2>8 DEF U
      <4> QED BY <4>1, <2>4, <1>1, <1>3
    <3> QED BY ONLY <3>1, LastUnit, SMTT(30)
  <2>10. HashDigest(s) = Append(bl, b2)
    <3>1. HashDigest(s) = bl \o <<>> \o <<b2>>
      BY <1>2, <1>10 DEF b2, b1, at
    <3>2. bl \o <<>> \o <<b2>> = Append(bl, b2)
      BY <1>1, <2>6
    <3> QED BY <3>1, <3>2
  <2> QED BY <2>3, <2>8, <2>9, <2>10
<1>11. CASE spills
  <2> DEFINE zu == Zeros(U - 1)
             e2 == zu \o lend
             b2 == WithLength(Zeroed(marked, 0), L)
  <2>1. z0 + F - 1 = r + (U - 1) /\ U - 1 \in Nat
    BY <1>1, <1>11
  <2>2. zu \in Seq(E) /\ Len(zu) = U - 1 /\ \A i \in 1 .. U - 1 : zu[i] = <<"0">>
    BY <2>1, <1>6, ZerosAre
  <2>3. x \in Seq(E) /\ Len(x) = r + (U - 1) /\ \A i \in 1 .. r + (U - 1) : x[i] = <<"0">>
    <3>1. r + (U - 1) \in Nat
      BY <1>8, <2>1
    <3> HIDE DEF z0, r
    <3> QED BY <3>1, <2>1, <1>6, ZerosAre
  <2> HIDE DEF x, z0, zu
  <2>4. x = zr \o zu
    <3> HIDE DEF zr, r
    <3>0. Len(zr) = r /\ Len(zu) = U - 1 /\ r \in Nat /\ U - 1 \in Nat
      BY <1>8, <2>1, <2>2
    <3>1. Len(x) = Len(zr) + Len(zu)
      BY <3>0, <2>3
    <3>2. \A i \in 1 .. Len(zr) : x[i] = zr[i]
      <4> SUFFICES ASSUME NEW i \in 1 .. r  PROVE x[i] = zr[i]
        BY <3>0
      <4>1. i \in 1 .. r + (U - 1)
        BY <3>0
      <4> QED BY <4>1, <1>8, <2>3
    <3>3. \A i \in 1 .. Len(zu) : x[Len(zr) + i] = zu[i]
      <4> SUFFICES ASSUME NEW i \in 1 .. U - 1  PROVE x[r + i] = zu[i]
        BY <3>0
      <4>1. r + i \in 1 .. r + (U - 1)
        BY <3>0
      <4> QED BY <4>1, <2>2, <2>3
    <3> QED BY <3>1, <3>2, <3>3, <2>2, <2>3, <1>8, JoinIs
  <2>5. Padded(d) = (d \o e1) \o e2
    <3> HIDE DEF zr
    <3>1. d \o mark \o (zr \o zu) \o lend = (d \o (mark \o zr)) \o (zu \o lend)
      <4>1. mark \in Seq(E) /\ zr \in Seq(E) /\ zu \in Seq(E) /\ lend \in Seq(E)
        BY <2>2, <1>6, <1>8
      <4> DEFINE dm == d \o mark
                 u  == dm \o zr
      <4>2. dm \in Seq(E) /\ d \o (mark \o zr) = dm \o zr
        BY <4>1, Associates
      <4> HIDE DEF dm
      <4>3. u \in Seq(E) /\ dm \o (zr \o zu) = u \o zu
        <5>1. dm \in Seq(E) /\ zr \in Seq(E) /\ zu \in Seq(E)
          BY <4>1, <4>2
        <5> QED BY ONLY <5>1, Associates
      <4> HIDE DEF u
      <4>4. u \o (zu \o lend) = (u \o zu) \o lend
        BY <4>1, <4>3, Associates
      <4> QED BY <4>2, <4>3, <4>4 DEF dm, u
    <3> QED BY <1>5, <2>4, <3>1 DEF x
  <2>6. e2 \in Seq(E) /\ Len(e2) = U
    <3>1. zu \o lend \in Seq(E) /\ Len(zu \o lend) = Len(zu) + Len(lend)
      BY <2>2, <1>6, Joins
    <3> HIDE DEF e2
    <3> QED BY <3>1, <2>1, <2>2, <1>1, <1>6 DEF e2
  <2>7. b2 = e2
    <3>1. b2 = [Zeroed(marked, 0) EXCEPT ![U] = <<"length", L>>]
      BY DEF WithLength, U
    <3>2. Zeroed(marked, 0) = [i \in 1 .. U |-> <<"0">>]
      BY DEF Zeroed, U
    <3>3. b2 \in Seq(E) /\ Len(b2) = U /\ b2[U] = <<"length", L>> /\ \A i \in 1 .. U - 1 : b2[i] = <<"0">>
      <4>1. <<"length", L>> \in E
        BY <1>6
      <4> DEFINE zero == <<"0">>
                 c    == [i \in 1 .. U |-> zero]
      <4>2. zero \in E
        BY <1>6
      <4> HIDE DEF zero
      <4>3. c \in Seq(E) /\ Len(c) = U /\ \A i \in 1 .. U : c[i] = zero
        BY <1>1, <4>2
      <4>4. b2 = [c EXCEPT ![U] = <<"length", L>>]
        BY <3>1, <3>2 DEF zero
      <4> HIDE DEF c, b2
      <4>5. U \in 1 .. Len(c) /\ \A i \in 1 .. U - 1 : i \in 1 .. U /\ i # U
        BY <1>1, <4>3
      <4>6. b2 \in Seq(E) /\ Len(b2) = U /\ b2[U] = <<"length", L>> /\ \A i \in 1 .. U : i # U => b2[i] = c[i]
        BY <4>1, <4>3, <4>4, <4>5, ExceptIs
      <4> QED BY <4>3, <4>5, <4>6 DEF zero
    <3> HIDE DEF b2
    <3>0. Len(zu) = U - 1 /\ U \in Nat \ {0}
      BY <2>2, <1>1
    <3>4. Len(b2) = Len(zu) + Len(lend) /\ \A i \in 1 .. Len(zu) : b2[i] = zu[i]
      <4>1. Len(b2) = Len(zu) + Len(lend)
        BY <3>3, <3>0, <1>6
      <4>2. ASSUME NEW i \in 1 .. Len(zu)  PROVE b2[i] = zu[i]
        BY <3>3, <3>0, <2>2
      <4> QED BY <4>1, <4>2
    <3>5. \A i \in 1 .. Len(lend) : b2[Len(zu) + i] = lend[i]
      <4>1. Len(zu) + 1 = U
        BY <3>0
      <4>2. b2[Len(zu) + 1] = lend[1]
        BY <4>1, <3>3, <1>6
      <4> QED BY <4>2, <1>6
    <3> QED BY <3>3, <3>4, <3>5, <2>2, <1>6, JoinIs
  <2> HIDE DEF e1, e2, b1, b2
  <2>8. /\ Append(bl, t \o e1) \in Seq(Seq(E)) /\ CutInto(d \o e1, Append(bl, t \o e1), <<>>)
    <3>1. Len(t \o e1) = UnitSize
      BY <1>9 DEF U
    <3> QED BY <3>1, <1>1, <1>3, <1>9, LastUnit
  <2>9. CutInto(e2, <<e2>>, <<>>) /\ <<e2>> \in Seq(Seq(E))
    <3> DEFINE none == <<>>
    <3>1. none \in Seq(E) /\ none \in Seq(Seq(E)) /\ none \o e2 = e2 /\ Append(none, none \o e2) = <<e2>>
      BY <2>6
    <3>2. CutInto(none, none, none)
      BY CutNothing
    <3>3. Len(none \o e2) = UnitSize
      BY <3>1, <2>6 DEF U
    <3> HIDE DEF none
    <3>4. Append(none, none \o e2) \in Seq(Seq(E)) /\ CutInto(none \o e2, Append(none, none \o e2), <<>>)
      BY <3>1, <3>2, <3>3, <2>6, LastUnit
    <3> QED BY <3>1, <3>4
  <2>10. Units((d \o e1) \o e2) = Append(bl, t \o e1) \o <<e2>>
    <3> DEFINE y == Append(bl, t \o e1)
    <3>1. y \in Seq(Seq(E)) /\ CutInto(d \o e1, y, <<>>) /\ d \o e1 \in Seq(E)
      BY <2>8, <1>9
    <3> HIDE DEF y
    <3>2. CutInto((d \o e1) \o e2, y \o <<e2>>, <<>>)
      BY <3>1, <2>6, <2>9, CutJoins
    <3>3. y \o <<e2>> \in Seq(Seq(E)) /\ (d \o e1) \o e2 \in Seq(E)
      BY <3>1, <2>6, <2>9
    <3> QED BY <3>2, <3>3, UnitsOfWhole DEF y
  <2>11. HashDigest(s) = Append(bl, t \o e1) \o <<e2>> /\ HashDigest(s) \in Seq(Seq(E))
    <3>1. HashDigest(s) = bl \o <<b1>> \o <<b2>>
      BY <1>2, <1>11 DEF b2, b1, at
    <3>2. bl \o <<b1>> = Append(bl, b1) /\ Append(bl, b1) \in Seq(Seq(E))
      BY <1>1, <1>9
    <3>3. HashDigest(s) = Append(bl, t \o e1) \o <<e2>>
      BY <3>1, <3>2, <2>7, <1>9
    <3> QED BY <3>3, <2>8, <2>9
  <2> QED BY <2>5, <2>10, <2>11
<1> QED BY <1>10, <1>11

\* What each of them compresses in the end is what it compresses of the whole.
LEMMA DigestIs ==
  ASSUME NEW E, Marks \subseteq E, NEW d \in Seq(E), NEW s, HashAt(E, s, d), NEW g \in Bulk
  PROVE  DigestOf(g, s) = DigestOneShot(g, d) /\ \E T : DigestOf(g, s) \in Seq(T)
<1>1. CASE g = "marked"
  <2>1. DigestOf(g, s) = HashDigest(s) /\ DigestOneShot(g, d) = Units(Padded(d))
    BY <1>1 DEF DigestOf, DigestOneShot
  <2> QED BY <2>1, MarkedCloses
<1>2. CASE g = "md2"
  <2>1. DigestOf(g, s) = Md2Digest(s) /\ DigestOneShot(g, d) = Md2Of(d)
    BY <1>2 DEF DigestOf, DigestOneShot
  <2> QED BY <2>1, Md2Closes
<1>3. CASE g = "xxh"
  <2>1. /\ DigestOf(g, s) = XxhDigest(s)
        /\ DigestOneShot(g, d) =
             Append(Units(Aligned(d)), <<IF Len(d) >= UnitSize THEN "long" ELSE "short", Remainder(d), Len(d)>>)
    BY <1>3 DEF DigestOf, DigestOneShot
  <2> QED BY <2>1, XxhCloses
<1>4. CASE g = "words"
  <2>1. DigestOf(g, s) = WordsDigest(s) /\ DigestOneShot(g, d) = Units(Filled(d))
    BY <1>4 DEF DigestOf, DigestOneShot
  <2> QED BY <2>1, WordsClose
<1> QED BY <1>1, <1>2, <1>3, <1>4 DEF Bulk

-----------------------------------------------------------------------------
(* A message poured into a buffer, a piece at a time. *)

\* A recursion every step of which leads from what it may have reached so far
\* to what it may reach next has a function, and that goes there.
Leads(n, S, A, c, g) ==
  /\ c \in A[0] /\ \A i \in 0 .. n : A[i] \subseteq S
  /\ \A i \in 1 .. n : \A s \in A[i - 1] : g[<<s, i>>] \in A[i]

LedBy(f, n, S, A, c, g) ==
  f \in [0 .. n -> S] /\ f[0] = c /\ \A i \in 0 .. n : f[i] \in A[i] /\ (i > 0 => f[i] = g[<<f[i - 1], i>>])

\* What leads from each state to one it may have has run its course.
LEMMA Reaches ==
  ASSUME NEW n \in Nat, NEW S, NEW A, NEW c, NEW g, Leads(n, S, A, c, g)
  PROVE  \E f : LedBy(f, n, S, A, c, g)
<1>0. c \in A[0] /\ (\A i \in 0 .. n : A[i] \subseteq S) /\ \A i \in 1 .. n : \A s \in A[i - 1] : g[<<s, i>>] \in A[i]
  BY DEF Leads
<1> DEFINE k == [p \in S \X (1 .. n) |-> IF p[1] \in A[p[2] - 1] THEN g[p] ELSE c]
<1>1. 0 \in 0 .. n /\ c \in S
  BY <1>0
<1>2. ASSUME NEW s \in S, NEW i \in 1 .. n  PROVE k[<<s, i>>] = IF s \in A[i - 1] THEN g[<<s, i>>] ELSE c
  OBVIOUS
<1>3. k \in [S \X (1 .. n) -> S]
  <2>1. ASSUME NEW p \in S \X (1 .. n)  PROVE (IF p[1] \in A[p[2] - 1] THEN g[p] ELSE c) \in S
    <3>1. p[1] \in S /\ p[2] \in 1 .. n /\ p = <<p[1], p[2]>> /\ p[2] \in 0 .. n
      OBVIOUS
    <3>2. p[1] \in A[p[2] - 1] => g[<<p[1], p[2]>>] \in A[p[2]]
      BY <3>1, <1>0
    <3> QED BY <3>1, <3>2, <1>0, <1>1
  <2> QED BY <2>1
<1> HIDE DEF k
<1>4. PICK f : RunsFrom(f, S, c, n, k)
  BY <1>1, <1>3, Recursion
<1>5. f \in [0 .. n -> S] /\ f[0] = c /\ \A i \in 1 .. n : f[i] = k[<<f[i - 1], i>>]
  BY <1>4 DEF RunsFrom
<1> DEFINE T == {i \in 0 .. n : f[i] \in A[i]}
<1>6. ASSUME NEW i \in 1 .. n, f[i - 1] \in A[i - 1]  PROVE f[i] = g[<<f[i - 1], i>>] /\ f[i] \in A[i]
  <2>1. i - 1 \in 0 .. n /\ f[i - 1] \in S
    BY <1>5
  <2>2. f[i] = g[<<f[i - 1], i>>]
    BY <2>1, <1>2, <1>5, <1>6
  <2> QED BY <2>2, <1>0, <1>6
<1>7. 0 \in T
  BY <1>0, <1>1, <1>5
<1>8. \A i \in 1 .. n : i - 1 \in T => i \in T
  <2> SUFFICES ASSUME NEW i \in 1 .. n, i - 1 \in T  PROVE i \in T
    OBVIOUS
  <2>1. f[i - 1] \in A[i - 1] /\ i \in 0 .. n
    OBVIOUS
  <2>2. f[i] \in A[i]
    BY <2>1, <1>6
  <2> QED BY <2>1, <2>2
<1> HIDE DEF T
<1>9. \A i \in 0 .. n : i \in T
  BY <1>7, <1>8, Climbing
<1>10. \A i \in 0 .. n : f[i] \in A[i] /\ (i > 0 => f[i] = g[<<f[i - 1], i>>])
  <2> SUFFICES ASSUME NEW i \in 0 .. n  PROVE f[i] \in A[i] /\ (i > 0 => f[i] = g[<<f[i - 1], i>>])
    OBVIOUS
  <2>1. f[i] \in A[i]
    BY <1>9 DEF T
  <2>2. ASSUME i > 0  PROVE f[i] = g[<<f[i - 1], i>>]
    <3>1. i \in 1 .. n /\ i - 1 \in 0 .. n
      BY <2>2
    <3>2. f[i - 1] \in A[i - 1]
      BY <3>1, <1>9 DEF T
    <3> QED BY <3>1, <3>2, <1>6
  <2> QED BY <2>1, <2>2
<1> QED BY <1>5, <1>10 DEF LedBy

\* How many units there are, the last of them perhaps short.
LEMMA UnitCount ==
  ASSUME NEW r \in Nat
  PROVE  LET n == (r + UnitSize - 1) \div UnitSize
         IN n \in Nat /\ r <= n * UnitSize /\ n * UnitSize < r + UnitSize /\ n * UnitSize \in Nat
<1> DEFINE m == r + UnitSize - 1
           n == m \div UnitSize
           e == m % UnitSize
           p == n * UnitSize
<1>1. UnitSize \in Nat \ {0} /\ m \in Nat
  BY UnitsAreUnits
<1>2. n \in Nat /\ e \in 0 .. UnitSize - 1 /\ m = p + e
  <2> HIDE DEF m
  <2> QED BY <1>1, DivMod
<1>3. p \in Nat
  <2> HIDE DEF n
  <2> QED BY <1>1, <1>2, Products
<1> HIDE DEF p, e, n
<1>4. r <= p /\ p < r + UnitSize
  BY <1>1, <1>2, <1>3
<1> QED BY <1>2, <1>3, <1>4 DEF p, n

\* One element before a sequence.
LEMMA Prepends ==
  ASSUME NEW S, NEW e \in S, NEW s \in Seq(S)
  PROVE  /\ <<e>> \o s \in Seq(S) /\ Len(<<e>> \o s) = Len(s) + 1 /\ (<<e>> \o s)[1] = e
         /\ \A j \in 1 .. Len(s) : (<<e>> \o s)[j + 1] = s[j]
OBVIOUS

\* Where the i-th piece of a chunk ends.
PieceEnd(room, chunk, i) == IF i = 0 THEN 0 ELSE Least(room + (i - 1) * UnitSize, Len(chunk))

\* A piece is a slice that goes on where the last one ended, never empty;
\* the first fits the room there is, the others an empty buffer, and all but
\* the last fill it.
PieceFits(room, chunk, p, n, i) ==
  /\ PieceEnd(room, chunk, i - 1) < PieceEnd(room, chunk, i)
  /\ p[i] = SubSeq(chunk, PieceEnd(room, chunk, i - 1) + 1, PieceEnd(room, chunk, i))
  /\ Len(p[i]) = PieceEnd(room, chunk, i) - PieceEnd(room, chunk, i - 1)
  /\ Len(p[i]) <= (IF i = 1 THEN room ELSE UnitSize)
  /\ i < n => Len(p[i]) = (IF i = 1 THEN room ELSE UnitSize)

PiecesFit(S, room, chunk, p, n) ==
  /\ p \in Seq(Seq(S)) /\ n \in Nat /\ PieceEnd(room, chunk, n) = Len(chunk)
  /\ \A i \in 0 .. n : PieceEnd(room, chunk, i) \in 0 .. Len(chunk)
  /\ \A i \in 1 .. n : PieceFits(room, chunk, p, n, i)

\* The pieces fit, one after the other, and are all of the chunk.
LEMMA PiecesAre ==
  ASSUME NEW S, NEW chunk \in Seq(S), NEW room \in 1 .. UnitSize
  PROVE  PiecesFit(S, room, chunk, Pieces(room, chunk), Len(Pieces(room, chunk)))
<1> DEFINE p == Pieces(room, chunk)
           n == Len(p)
<1>0. p = Pieces(room, chunk) /\ n = Len(p)
  OBVIOUS
<1> HIDE DEF p, n
<1> DEFINE L == Len(chunk)
           End(i) == PieceEnd(room, chunk, i)
<1>1. UnitSize \in Nat \ {0} /\ L \in Nat /\ room \in Nat /\ room >= 1
  BY UnitsAreUnits
<1>2. CASE chunk = <<>>
  <2>1. p = <<>> /\ n = 0 /\ L = 0
    BY <1>0, <1>2 DEF Pieces
  <2>2. End(0) = 0
    BY DEF PieceEnd
  <2> QED BY <2>1, <2>2 DEF PiecesFit, p, n
<1>3. CASE chunk # <<>>
  <2> DEFINE first == Least(room, L)
             R     == L - first
             rest  == Rest(chunk, first)
             m     == (R + UnitSize - 1) \div UnitSize
             u     == [j \in 1 .. m |-> SubSeq(rest, (j - 1) * UnitSize + 1, Least(j * UnitSize, R))]
             up    == Upto(chunk, first)
  <2>1. L > 0 /\ first \in 1 .. L /\ first <= room /\ R \in Nat /\ (R > 0 => first = room) /\ (first = L \/ first = room)
    BY <1>1, <1>3 DEF Least
  <2>2. up = SubSeq(chunk, 1, first) /\ rest = SubSeq(chunk, first + 1, L)
    BY DEF Upto, Rest
  <2>3. up \in Seq(S) /\ Len(up) = first /\ rest \in Seq(S) /\ Len(rest) = R
    <3> HIDE DEF first, up, rest
    <3> QED BY <2>1, <2>2, Splits
  <2>4. p = <<up>> \o u
    BY <1>0, <1>3, <2>3 DEF Pieces, Units
  <2>5. m \in Nat /\ R <= m * UnitSize /\ m * UnitSize < R + UnitSize /\ m * UnitSize \in Nat
    <3> HIDE DEF R
    <3> QED BY <2>1, UnitCount
  <2> HIDE DEF m, first, up, rest
  <2>6. ASSUME NEW j \in 1 .. m
        PROVE  /\ End(j) = first + (j - 1) * UnitSize /\ End(j + 1) = first + Least(j * UnitSize, R)
               /\ (j - 1) * UnitSize \in Nat /\ (j - 1) * UnitSize < R
               /\ j * UnitSize = (j - 1) * UnitSize + UnitSize /\ j * UnitSize <= m * UnitSize
               /\ (j < m => j * UnitSize < R)
               /\ R > 0 /\ first = room
    <3> DEFINE a == (j - 1) * UnitSize
               b == j * UnitSize
               c == m * UnitSize
    <3>1. a \in Nat /\ b = a + UnitSize /\ b \in Nat /\ b <= c
      BY <2>5, UnitPlace
    <3>2. j < m => b + UnitSize <= c
      BY <2>5, <1>1, ProductsGrow
    <3>3. c < R + UnitSize /\ c \in Nat
      BY <2>5
    <3>4. (j + 1) - 1 = j /\ j # 0 /\ j + 1 # 0
      BY <2>5
    <3>5. End(j) = Least(room + a, L) /\ End(j + 1) = Least(room + b, L)
      BY <3>4 DEF PieceEnd
    <3> HIDE DEF End, a, b, c, R
    <3>6. a < R /\ (j < m => b < R)
      BY <3>1, <3>2, <3>3, <2>1, <2>5, <1>1
    <3>7. R > 0 /\ first = room
      BY <3>1, <3>6, <2>1
    <3>8. Least(room + a, L) = first + a
      BY <3>1, <3>6, <3>7, <1>1, <2>1 DEF Least, R
    <3>9. Least(room + b, L) = first + Least(b, R)
      BY <3>1, <3>7, <1>1, <2>1 DEF Least, R
    <3> QED BY <3>1, <3>5, <3>6, <3>7, <3>8, <3>9 DEF a, b, c
  <2>7. End(0) = 0 /\ End(1) = first
    <3>1. (1 - 1) * UnitSize = 0
      BY <1>1
    <3>2. End(1) = Least(room + (1 - 1) * UnitSize, L)
      BY DEF PieceEnd
    <3>3. Least(room + 0, L) = first
      BY <1>1 DEF first
    <3> QED BY <3>1, <3>2, <3>3 DEF PieceEnd
  <2> HIDE DEF R
  <2>8. ASSUME NEW j \in 1 .. m
        PROVE  /\ u[j] = SubSeq(chunk, End(j) + 1, End(j + 1)) /\ u[j] \in Seq(S)
               /\ Len(u[j]) = End(j + 1) - End(j) /\ End(j) < End(j + 1) /\ Len(u[j]) <= UnitSize
               /\ j < m => Len(u[j]) = UnitSize
               /\ End(j) \in 0 .. L /\ End(j + 1) \in 0 .. L
    <3> DEFINE a == (j - 1) * UnitSize
               b == Least(j * UnitSize, R)
    <3>1. /\ End(j) = first + a /\ End(j + 1) = first + b /\ a \in Nat /\ a < R /\ j * UnitSize = a + UnitSize
          /\ (j < m => j * UnitSize < R)
      BY <2>6
    <3>2. b \in Nat /\ a < b /\ b <= R /\ b <= a + UnitSize /\ (j < m => b = a + UnitSize)
      <4> DEFINE w == j * UnitSize
      <4>1. w = a + UnitSize /\ (j < m => w < R) /\ b = Least(w, R)
        BY <3>1
      <4> HIDE DEF w, a, b
      <4> QED BY <4>1, <3>1, <1>1, <2>1 DEF Least
    <3>3. u[j] = SubSeq(rest, a + 1, b)
      OBVIOUS
    <3> HIDE DEF a, b, u, End
    <3>4. SubSeq(rest, a + 1, b) = SubSeq(chunk, first + (a + 1), first + b)
      <4>1. a + 1 \in Int /\ b \in Int /\ 1 <= a + 1 /\ a + 1 <= b + 1 /\ b <= L - first /\ L <= Len(chunk) /\ first <= L /\ first \in Nat
        BY <3>1, <3>2, <2>1 DEF R
      <4> DEFINE o == a + 1
      <4>2. o \in Int /\ 1 <= o /\ o <= b + 1
        BY <4>1
      <4> HIDE DEF o
      <4>3. SubSeq(SubSeq(chunk, first + 1, L), o, b) = SubSeq(chunk, first + o, first + b)
        BY <4>1, <4>2, <1>1, SliceOfSlice
      <4> QED BY <4>3, <2>2 DEF o
    <3>5. SubSeq(rest, a + 1, b) \in Seq(S) /\ Len(SubSeq(rest, a + 1, b)) = b - a
      BY <3>1, <3>2, <2>3
    <3>6. first + (a + 1) = (first + a) + 1 /\ (first + b) - (first + a) = b - a /\ first + a < first + b
          /\ b - a <= UnitSize /\ (j < m => b - a = UnitSize) /\ first + a \in 0 .. L /\ first + b \in 0 .. L
      BY <3>1, <3>2, <2>1, <1>1 DEF R
    <3> QED BY <3>1, <3>3, <3>4, <3>5, <3>6
  <2>9. u \in Seq(Seq(S)) /\ Len(u) = m
    <3> DEFINE X == Seq(S)
    <3>1. \A j \in 1 .. m : u[j] \in X
      BY <2>8
    <3>2. u = [j \in 1 .. m |-> u[j]]
      OBVIOUS
    <3> HIDE DEF u, X
    <3>3. u \in Seq(X) /\ Len(u) = m
      BY <3>1, <3>2, <2>5
    <3> QED BY <3>3 DEF X
  <2> HIDE DEF u
  <2>10. p \in Seq(Seq(S)) /\ n = m + 1 /\ p[1] = up /\ \A j \in 1 .. m : p[j + 1] = u[j]
    <3> DEFINE X == Seq(S)
    <3>1. up \in X /\ u \in Seq(X)
      BY <2>3, <2>9
    <3> HIDE DEF X
    <3>2. /\ <<up>> \o u \in Seq(X) /\ Len(<<up>> \o u) = Len(u) + 1 /\ (<<up>> \o u)[1] = up
          /\ \A j \in 1 .. Len(u) : (<<up>> \o u)[j + 1] = u[j]
      BY ONLY <3>1, Prepends
    <3> QED BY <3>2, <2>4, <2>9, <1>0 DEF X
  <2>11. End(n) = L
    <3>1. CASE m = 0
      <4>1. 0 * UnitSize = 0
        BY <1>1
      <4>2. R = 0
        BY <4>1, <3>1, <2>5, <2>1
      <4> QED BY <4>2, <2>1, <2>7, <2>10, <3>1, <1>1 DEF R
    <3>2. CASE m # 0
      <4>1. m \in 1 .. m
        BY <2>5, <3>2
      <4>2. End(m + 1) = first + Least(m * UnitSize, R)
        BY <4>1, <2>6
      <4> DEFINE w == m * UnitSize
      <4>3. R <= w /\ w \in Nat
        BY <2>5
      <4> HIDE DEF w, End
      <4>4. Least(w, R) = R
        BY <4>3, <2>1 DEF Least
      <4> QED BY <4>2, <4>4, <2>1, <2>10, <1>1 DEF w, R
    <3> QED BY <3>1, <3>2
  <2> HIDE DEF End
  <2>12. \A i \in 0 .. n : End(i) \in 0 .. L
    <3> SUFFICES ASSUME NEW i \in 0 .. n  PROVE End(i) \in 0 .. L
      OBVIOUS
    <3>1. CASE i = 0
      BY <3>1, <2>7, <1>1
    <3>2. CASE i = 1
      BY <3>2, <2>7, <2>1, <1>1
    <3>3. CASE i > 1
      <4> DEFINE j == i - 1
      <4>1. j \in 1 .. m /\ i = j + 1
        BY <3>3, <2>5, <2>10
      <4> HIDE DEF j
      <4> QED BY <4>1, <2>8
    <3> QED BY <3>1, <3>2, <3>3
  <2>13. ASSUME NEW i \in 1 .. n  PROVE PieceFits(room, chunk, p, n, i)
    <3> SUFFICES /\ End(i - 1) < End(i) /\ p[i] = SubSeq(chunk, End(i - 1) + 1, End(i))
                 /\ Len(p[i]) = End(i) - End(i - 1)
                 /\ Len(p[i]) <= (IF i = 1 THEN room ELSE UnitSize)
                 /\ i < n => Len(p[i]) = (IF i = 1 THEN room ELSE UnitSize)
      BY DEF PieceFits, End
    <3>1. CASE i = 1
      <4>1. i - 1 = 0 /\ 0 + 1 = 1 /\ first - 0 = first /\ 0 < first
        BY <3>1, <2>1
      <4>2. i < n => first = room
        <5> SUFFICES ASSUME i < n  PROVE first = room
          OBVIOUS
        <5>1. 1 \in 1 .. m
          BY <3>1, <2>5, <2>10
        <5> QED BY <5>1, <2>6
      <4> QED BY <3>1, <4>1, <4>2, <2>1, <2>2, <2>3, <2>7, <2>10
    <3>2. CASE i # 1
      <4> DEFINE j == i - 1
      <4>1. j \in 1 .. m /\ i = j + 1 /\ (i < n => j < m)
        BY <3>2, <2>5, <2>10
      <4> HIDE DEF j
      <4>2. p[i] = u[j]
        BY <4>1, <2>10
      <4> QED BY <4>1, <4>2, <3>2, <2>8 DEF j
    <3> QED BY <3>1, <3>2
  <2>14. n \in Nat
    BY <2>5, <2>10
  <2> QED BY <2>10, <2>11, <2>12, <2>13, <2>14 DEF End, PiecesFit, p, n
<1> QED BY <1>2, <1>3

\* The blocks of a message as a design compresses them: ECHO and Streebog each
\* under a number of message bytes.
Stamped(design, bl) ==
  [i \in DOMAIN bl |-> IF design = "echo" THEN <<bl[i], i * UnitSize>>
                       ELSE IF design = "streebog" THEN <<bl[i], (i - 1) * UnitSize>>
                       ELSE bl[i]]

FillState(E) == [buffer : Seq(E), buffered : 0 .. UnitSize - 1, length : Nat, counter : Nat,
                 blocks : Seq(Seq(E) \cup (Seq(E) \X Nat))]

\* What a hash that empties its buffer when full holds of what was poured into
\* it: the blocks bl, numbered, and in the first bytes of its buffer the rest;
\* behind it FSB has nothing.
PouredAs(E, design, s, d, bl) ==
  /\ s \in FillState(E) /\ Buffer(E, s.buffer) /\ CutInto(d, bl, Upto(s.buffer, s.buffered))
  /\ s.counter = Len(bl) * UnitSize /\ s.blocks = Stamped(design, bl)
  /\ design = "fsb" => Zeroed(s.buffer, s.buffered) = s.buffer

Poured(E, design, s, d) == \E bl \in Seq(Seq(E)) : PouredAs(E, design, s, d, bl)

\* The stamped blocks are as many, and but for ECHO and Streebog the blocks.
LEMMA NumberedIs ==
  ASSUME NEW E, NEW design, NEW bl \in Seq(Seq(E))
  PROVE  /\ Stamped(design, bl) \in Seq(Seq(E) \cup (Seq(E) \X Nat)) /\ Len(Stamped(design, bl)) = Len(bl)
         /\ design \notin {"echo", "streebog"} => Stamped(design, bl) = bl
<1> DEFINE N(i) == IF design = "echo" THEN <<bl[i], i * UnitSize>>
                   ELSE IF design = "streebog" THEN <<bl[i], (i - 1) * UnitSize>> ELSE bl[i]
           X == Seq(E)
           Y == Seq(E) \cup (Seq(E) \X Nat)
           q == Len(bl)
<1>1. q \in Nat /\ DOMAIN bl = 1 .. q /\ \A i \in 1 .. q : bl[i] \in X
  OBVIOUS
<1>2. Stamped(design, bl) = [i \in 1 .. q |-> N(i)]
  BY <1>1 DEF Stamped
<1>3. ASSUME NEW i \in 1 .. q  PROVE N(i) \in Y
  <2>1. i * UnitSize \in Nat /\ (i - 1) * UnitSize \in Nat
    BY <1>1, UnitPlace
  <2>2. bl[i] \in Seq(E)
    BY <1>1
  <2> QED BY <2>1, <2>2
<1>4. design \notin {"echo", "streebog"} => [i \in 1 .. q |-> N(i)] = bl
  BY <1>1
<1> HIDE DEF N, Y
<1>5. [i \in 1 .. q |-> N(i)] \in Seq(Y) /\ Len([i \in 1 .. q |-> N(i)]) = q
  BY <1>1, <1>3
<1> QED BY <1>2, <1>4, <1>5 DEF Y

\* How a block is numbered that comes after n bytes.
Under(design, u, n) ==
  IF design = "echo" THEN <<u, n + UnitSize>> ELSE IF design = "streebog" THEN <<u, n>> ELSE u

\* One more block is stamped with the bytes before it.
LEMMA NumberedAppends ==
  ASSUME NEW E, NEW design, NEW bl \in Seq(Seq(E)), NEW u \in Seq(E)
  PROVE  Append(Stamped(design, bl), Under(design, u, Len(bl) * UnitSize)) = Stamped(design, Append(bl, u))
<1> DEFINE q == Len(bl)
           cl == Append(bl, u)
           x == Stamped(design, bl)
           y == Stamped(design, cl)
           e == IF design = "echo" THEN <<u, q * UnitSize + UnitSize>>
                ELSE IF design = "streebog" THEN <<u, q * UnitSize>> ELSE u
           Y == Seq(E) \cup (Seq(E) \X Nat)
<1>1. q \in Nat /\ cl \in Seq(Seq(E)) /\ Len(cl) = q + 1 /\ cl[q + 1] = u /\ \A i \in 1 .. q : cl[i] = bl[i]
  OBVIOUS
<1> HIDE DEF cl
<1>2. x \in Seq(Y) /\ Len(x) = q /\ y \in Seq(Y) /\ Len(y) = q + 1
  <2>1. x \in Seq(Y) /\ Len(x) = Len(bl)
    BY ONLY bl \in Seq(Seq(E)), NumberedIs
  <2>2. y \in Seq(Y) /\ Len(y) = Len(cl)
    BY ONLY <1>1, NumberedIs
  <2> HIDE DEF x, y, Y
  <2> QED BY <1>1, <2>1, <2>2
<1>3. \A i \in 1 .. q : y[i] = x[i]
  <2> SUFFICES ASSUME NEW i \in 1 .. q  PROVE y[i] = x[i]
    OBVIOUS
  <2>1. i \in DOMAIN cl /\ i \in DOMAIN bl /\ cl[i] = bl[i]
    BY <1>1
  <2> QED BY <2>1 DEF Stamped
<1>4. y[q + 1] = e
  <2>1. q + 1 \in DOMAIN cl /\ (q + 1) - 1 = q
    BY <1>1
  <2>2. (q + 1) * UnitSize = q * UnitSize + UnitSize
    <3>1. (q + 1) * UnitSize = q * UnitSize + 1 * UnitSize /\ UnitSize \in Nat
      BY <1>1, UnitsAreUnits, Distributes
    <3> QED BY <3>1
  <2>3. y[q + 1] = IF design = "echo" THEN <<cl[q + 1], (q + 1) * UnitSize>>
                   ELSE IF design = "streebog" THEN <<cl[q + 1], ((q + 1) - 1) * UnitSize>> ELSE cl[q + 1]
    BY <2>1 DEF Stamped
  <2> QED BY <2>1, <2>2, <2>3, <1>1
<1>5. e \in Y
  <2>1. q + 1 \in 1 .. Len(y)
    BY <1>1, <1>2
  <2> HIDE DEF y, e, q, Y
  <2>2. y[q + 1] \in Y
    BY <2>1, <1>2
  <2> QED BY <2>2, <1>4
<1> HIDE DEF x, y, e, Y, q
<1>6. Append(x, e) = y
  <2>1. Append(x, e) \in Seq(Y) /\ Len(Append(x, e)) = q + 1 /\ Append(x, e)[q + 1] = e
        /\ \A i \in 1 .. q : Append(x, e)[i] = x[i]
    BY <1>2, <1>5
  <2>2. \A i \in 1 .. q + 1 : Append(x, e)[i] = y[i]
    <3> SUFFICES ASSUME NEW i \in 1 .. q + 1  PROVE Append(x, e)[i] = y[i]
      OBVIOUS
    <3>1. i \in 1 .. q \/ i = q + 1
      BY <1>1
    <3> QED BY <3>1, <2>1, <1>3, <1>4
  <2> QED BY <2>1, <2>2, <1>1, <1>2
<1> QED BY <1>6 DEF x, y, e, q, cl, Under

\* Writing behind what counts leaves the zeros behind that.
LEMMA ZerosStay ==
  ASSUME NEW E, NEW b, Buffer(E, b), NEW k \in Nat, Zeroed(b, k) = b, NEW x \in Seq(E), k + Len(x) <= UnitSize
  PROVE  Zeroed(Written(b, k, x), k + Len(x)) = Written(b, k, x)
<1> DEFINE w == Written(b, k, x)
           n == k + Len(x)
<1>1. UnitSize \in Nat \ {0} /\ n \in Nat /\ Len(x) \in Nat
  BY UnitsAreUnits
<1>2. \A i \in 1 .. UnitSize : i > k => b[i] = <<"0">>
  <2> SUFFICES ASSUME NEW i \in 1 .. UnitSize, i > k  PROVE b[i] = <<"0">>
    OBVIOUS
  <2>1. Zeroed(b, k)[i] = <<"0">>
    BY DEF Zeroed
  <2> QED BY <2>1
<1>3. \A i \in 1 .. UnitSize : (IF i > n THEN <<"0">> ELSE w[i]) = w[i]
  <2> SUFFICES ASSUME NEW i \in 1 .. UnitSize, i > n  PROVE w[i] = <<"0">>
    OBVIOUS
  <2>1. i > k /\ i \notin k + 1 .. k + Len(x)
    BY <1>1
  <2>2. w[i] = b[i]
    BY <2>1 DEF Written
  <2> QED BY <2>1, <2>2, <1>2
<1>4. w = [i \in 1 .. UnitSize |-> w[i]]
  BY DEF Written
<1> HIDE DEF w, n
<1>5. Zeroed(w, n) = w
  BY <1>3, <1>4 DEF Zeroed
<1> QED BY <1>5 DEF w, n

\* r holds d where s held less of the message, and n bytes in its buffer,
\* which are none when they would fill it.
Follows(E, design, d, s, r, n) ==
  Poured(E, design, r, d) /\ r.length = s.length /\ (n = UnitSize => r.buffered = 0)

\* One piece goes into the buffer, which is emptied when full.
LEMMA TookIs ==
  ASSUME NEW E, <<"0">> \in E, NEW design, NEW d \in Seq(E), NEW s, Poured(E, design, s, d),
         NEW x \in Seq(E), s.buffered + Len(x) <= UnitSize, NEW r, r = Took(design, s, x)
  PROVE  Follows(E, design, d \o x, s, r, s.buffered + Len(x))
<1> SUFFICES /\ Poured(E, design, r, d \o x) /\ r.length = s.length
             /\ s.buffered + Len(x) = UnitSize => r.buffered = 0
  BY DEF Follows
<1>0. PICK bl \in Seq(Seq(E)) : PouredAs(E, design, s, d, bl)
  BY DEF Poured
<1> DEFINE b == s.buffer
           k == s.buffered
           q == Len(bl)
           m == k + Len(x)
           w == Written(b, k, x)
           t == Upto(b, k)
           len == s.length
           cnt == s.counter
           n == [s EXCEPT !.buffer = w, !.buffered = m]
           Y == Seq(E) \cup (Seq(E) \X Nat)
<1>1. /\ b \in Seq(E) /\ k \in 0 .. UnitSize - 1 /\ Buffer(E, b) /\ CutInto(d, bl, t) /\ UnitSize \in Nat \ {0}
      /\ cnt = q * UnitSize /\ s.blocks = Stamped(design, bl) /\ (design = "fsb" => Zeroed(b, k) = b)
      /\ s = [buffer |-> b, buffered |-> k, length |-> len, counter |-> cnt, blocks |-> Stamped(design, bl)]
      /\ len \in Nat /\ cnt \in Nat
  BY <1>0, UnitsAreUnits DEF PouredAs, FillState
<1>2. m \in Nat /\ m <= UnitSize /\ q \in Nat /\ Len(x) \in Nat /\ k \in Nat /\ k + Len(x) = m
  BY <1>1
<1>3. Buffer(E, w) /\ Upto(w, m) = t \o x /\ w \in Seq(E) /\ Len(w) = UnitSize
  <2> HIDE DEF b, k, m
  <2>1. Buffer(E, b) /\ k \in Nat /\ k + Len(x) <= UnitSize /\ k + Len(x) = m
    BY <1>1, <1>2
  <2>2. Buffer(E, w) /\ Upto(w, k + Len(x)) = Upto(b, k) \o x
    BY <2>1, WrittenIs
  <2> HIDE DEF w
  <2> QED BY <2>1, <2>2 DEF Buffer
<1>4. t \o x \in Seq(E) /\ CutInto(d \o x, bl, t \o x) /\ d \o x \in Seq(E)
  <2> HIDE DEF t
  <2>1. t \in Seq(E) /\ CutInto(d \o x, bl, t \o x)
    BY <1>1, <1>2, CutLonger
  <2> QED BY <2>1
<1>5. n = [buffer |-> w, buffered |-> m, length |-> len, counter |-> cnt, blocks |-> Stamped(design, bl)]
  <2> DEFINE bs == Stamped(design, bl)
             n0 == [s EXCEPT !.buffer = w]
  <2>1. n = [n0 EXCEPT !.buffered = m]
    OBVIOUS
  <2>2. s = [buffer |-> b, buffered |-> k, length |-> len, counter |-> cnt, blocks |-> bs]
    BY <1>1
  <2> HIDE DEF w, m, b, k, len, cnt, bs, n
  <2>3. n0 = [buffer |-> w, buffered |-> k, length |-> len, counter |-> cnt, blocks |-> bs]
    BY <2>2
  <2> HIDE DEF n0
  <2>4. n = [buffer |-> w, buffered |-> m, length |-> len, counter |-> cnt, blocks |-> bs]
    BY <2>1, <2>3
  <2> QED BY <2>4 DEF bs
<1>6. r = IF n.buffered < UnitSize THEN n
          ELSE [n EXCEPT !.buffered = 0, !.counter = @ + UnitSize, !.buffer = IF design = "fsb" THEN Blank ELSE @,
                         !.blocks = Append(@, Compressed(design, n))]
  BY DEF Took
<1> HIDE DEF n, b, k, w, m, len, cnt, q, t
<1>7. CASE m < UnitSize
  <2>1. r = [buffer |-> w, buffered |-> m, length |-> len, counter |-> cnt, blocks |-> Stamped(design, bl)]
    BY <1>5, <1>6, <1>7
  <2>2. design = "fsb" => Zeroed(w, m) = w
    BY <1>1, <1>2, ZerosStay DEF w
  <2>3. Stamped(design, bl) \in Seq(Y)
    BY NumberedIs
  <2>4. r \in FillState(E)
    BY <2>1, <2>3, <1>1, <1>2, <1>3, <1>7 DEF FillState
  <2>6. r.buffer = w /\ r.buffered = m /\ r.counter = q * UnitSize /\ r.blocks = Stamped(design, bl)
    BY <2>1, <1>1
  <2>5. PouredAs(E, design, r, d \o x, bl)
    BY <2>2, <2>4, <2>6, <1>3, <1>4 DEF PouredAs, q
  <2> QED BY <2>1, <2>5, <1>2, <1>7 DEF Poured, len, k, m
<1>8. CASE m = UnitSize
  <2> DEFINE nb == IF design = "fsb" THEN Blank ELSE w
             cl == Append(bl, w)
             e  == Under(design, w, q * UnitSize)
  <2>1. Compressed(design, n) = e
    <3>1. n.buffer = w /\ n.counter = q * UnitSize
      BY <1>1, <1>5
    <3> QED BY <3>1 DEF Compressed, Under
  <2> HIDE DEF e
  <2>2. r = [buffer |-> nb, buffered |-> 0, length |-> len, counter |-> cnt + UnitSize,
             blocks |-> Append(Stamped(design, bl), e)]
    <3>1. r = [n EXCEPT !.buffered = 0, !.counter = @ + UnitSize, !.buffer = IF design = "fsb" THEN Blank ELSE @,
                        !.blocks = Append(@, Compressed(design, n))]
      BY <1>2, <1>5, <1>6, <1>8
    <3> QED BY <3>1, <2>1, <1>5
  <2>3. Append(Stamped(design, bl), e) = Stamped(design, cl) /\ cl \in Seq(Seq(E)) /\ Len(cl) = q + 1
    <3>1. w \in Seq(E)
      BY <1>3
    <3> HIDE DEF cl
    <3>2. Append(Stamped(design, bl), e) = Stamped(design, cl)
      <4> HIDE DEF w
      <4>1. bl \in Seq(Seq(E)) /\ w \in Seq(E)
        BY <1>0, <3>1
      <4> QED BY ONLY <4>1, NumberedAppends DEF e, q, cl
    <3>3. cl \in Seq(Seq(E)) /\ Len(cl) = q + 1
      BY <3>1 DEF cl, q
    <3> QED BY <3>2, <3>3
  <2>4. Buffer(E, nb) /\ nb \in Seq(E) /\ Upto(nb, 0) = <<>> /\ (design = "fsb" => Zeroed(nb, 0) = nb)
    <3>1. Buffer(E, Blank)
      BY <1>1 DEF Buffer, Blank
    <3>2. Zeroed(Blank, 0) = Blank
      BY <1>1 DEF Blank, Zeroed
    <3>3. Buffer(E, nb) /\ (design = "fsb" => Zeroed(nb, 0) = nb)
      BY <3>1, <3>2, <1>3
    <3> HIDE DEF nb
    <3> QED BY <3>3 DEF Buffer, Upto
  <2> HIDE DEF nb, cl
  <2>5. w = t \o x
    <3>1. Upto(w, UnitSize) = w
      BY <1>3 DEF Upto
    <3> QED BY <3>1, <1>3, <1>8
  <2>6. CutInto(d \o x, cl, <<>>)
    <3>1. CutInto(d \o x, bl, w) /\ w \in Seq(E) /\ Len(w) = UnitSize /\ d \o x \in Seq(E)
      BY <2>5, <1>3, <1>4
    <3> QED BY <3>1, CutFull DEF cl
  <2>7. cnt + UnitSize = Len(cl) * UnitSize /\ cnt + UnitSize \in Nat
    <3>1. (q + 1) * UnitSize = q * UnitSize + 1 * UnitSize
      BY <1>1, <1>2, Distributes
    <3>2. 1 * UnitSize = UnitSize
      BY <1>1
    <3> QED BY <3>1, <3>2, <2>3, <1>1
  <2>8. Stamped(design, cl) \in Seq(Y)
    BY <2>3, NumberedIs
  <2>9. r \in FillState(E)
    BY <2>2, <2>3, <2>4, <2>7, <2>8, <1>1 DEF FillState
  <2>10. PouredAs(E, design, r, d \o x, cl)
    BY <2>2, <2>3, <2>4, <2>6, <2>7, <2>9 DEF PouredAs
  <2> QED BY <2>2, <2>3, <2>10 DEF Poured, len
<1> QED BY <1>1, <1>2, <1>7, <1>8

\* A message poured in, in whatever chunks, is cut into blocks.
LEMMA PourGoesOn ==
  ASSUME NEW E, <<"0">> \in E, NEW design, NEW d \in Seq(E), NEW s, Poured(E, design, s, d), NEW chunk \in Seq(E)
  PROVE  /\ Poured(E, design, Pour(design, s, chunk), d \o chunk)
         /\ Pour(design, s, chunk).length = s.length
<1> DEFINE room == UnitSize - s.buffered
           p == Pieces(room, chunk)
           n == Len(p)
           End(i) == PieceEnd(room, chunk, i)
           Read(i) == SubSeq(chunk, 1, End(i))
           S == FillState(E)
           A == [i \in 0 .. n |-> {z \in S : /\ Poured(E, design, z, d \o Read(i)) /\ z.length = s.length
                                             /\ i > 0 /\ i < n => z.buffered = 0
                                             /\ i = 0 => z = s}]
           g == [y \in S \X (1 .. n) |-> Took(design, y[1], p[y[2]])]
           Eq(f) == f = [i \in 0 .. n |-> IF i = 0 THEN s ELSE Took(design, f[i - 1], p[i])]
           after == CHOOSE f : Eq(f)
<1>1. Pour(design, s, chunk) = after[n]
  BY DEF Pour
<1>2. s \in S /\ UnitSize \in Nat \ {0} /\ s.buffered \in 0 .. UnitSize - 1 /\ room \in 1 .. UnitSize
  BY UnitsAreUnits DEF Poured, PouredAs, FillState
<1> HIDE DEF room
<1>a. p = Pieces(room, chunk) /\ n = Len(p)
  OBVIOUS
<1> HIDE DEF n, p
<1>3. /\ n \in Nat /\ End(n) = Len(chunk) /\ \A i \in 0 .. n : End(i) \in 0 .. Len(chunk)
      /\ \A i \in 1 .. n :
           /\ End(i - 1) < End(i) /\ p[i] = SubSeq(chunk, End(i - 1) + 1, End(i))
           /\ Len(p[i]) = End(i) - End(i - 1) /\ Len(p[i]) <= (IF i = 1 THEN room ELSE UnitSize)
           /\ i < n => Len(p[i]) = (IF i = 1 THEN room ELSE UnitSize)
  <2>1. PiecesFit(E, room, chunk, p, n)
    <3>1. room \in 1 .. UnitSize
      BY <1>2
    <3> QED BY <3>1, PiecesAre DEF p, n
  <2> QED BY <2>1 DEF PiecesFit, PieceFits
<1>4. End(0) = 0
  BY DEF PieceEnd
<1> HIDE DEF End, S
<1>5. ASSUME NEW i \in 1 .. n  PROVE d \o Read(i) = (d \o Read(i - 1)) \o p[i] /\ d \o Read(i - 1) \in Seq(E) /\ p[i] \in Seq(E)
  <2> DEFINE a == End(i - 1)
             c == End(i)
  <2>1. a \in 0 .. Len(chunk) /\ c \in 0 .. Len(chunk) /\ a < c /\ p[i] = SubSeq(chunk, a + 1, c) /\ Len(chunk) \in Nat
    <3>1. i - 1 \in 0 .. n /\ i \in 0 .. n
      BY <1>3
    <3> QED BY <3>1, <1>3
  <2> HIDE DEF a, c
  <2>2. SubSeq(chunk, 1, a) \in Seq(E) /\ SubSeq(chunk, a + 1, c) \in Seq(E)
        /\ SubSeq(chunk, 1, c) = SubSeq(chunk, 1, a) \o SubSeq(chunk, a + 1, c)
    BY <2>1
  <2> DEFINE u == SubSeq(chunk, 1, a)
             v == SubSeq(chunk, a + 1, c)
  <2>3. u \in Seq(E) /\ v \in Seq(E) /\ SubSeq(chunk, 1, c) = u \o v
    BY <2>2
  <2> HIDE DEF u, v
  <2>4. d \o (u \o v) = (d \o u) \o v /\ d \o u \in Seq(E)
    BY <2>3, Associates
  <2> QED BY <2>1, <2>3, <2>4 DEF u, v, a, c
<1>6. s \in A[0]
  <2>1. Read(0) = <<>>
    BY <1>4
  <2>2. d \o <<>> = d
    OBVIOUS
  <2>3. 0 \in 0 .. n
    BY <1>3
  <2>4. Poured(E, design, s, d \o Read(0))
    BY <2>1, <2>2
  <2> HIDE DEF Read
  <2> QED BY <2>3, <2>4, <1>2
<1>7. ASSUME NEW i \in 1 .. n, NEW z \in A[i - 1]  PROVE g[<<z, i>>] = Took(design, z, p[i]) /\ g[<<z, i>>] \in A[i]
  <2> DEFINE r == Took(design, z, p[i])
  <2>0. i - 1 \in 0 .. n /\ i \in 0 .. n /\ i \in Nat /\ i > 0 /\ (i # 1 => i - 1 > 0 /\ i - 1 < n)
    BY <1>3
  <2>1. z \in S /\ Poured(E, design, z, d \o Read(i - 1)) /\ z.length = s.length
        /\ (i # 1 => z.buffered = 0) /\ (i = 1 => z = s)
    BY <2>0
  <2>2. g[<<z, i>>] = r
    BY <2>1
  <2>3. z.buffered = UnitSize - (IF i = 1 THEN room ELSE UnitSize)
    <3>1. CASE i = 1
      BY <3>1, <2>1, <1>2 DEF room
    <3>2. CASE i # 1
      BY <3>2, <2>1, <1>2
    <3> QED BY <3>1, <3>2
  <2> DEFINE k == z.buffered
             l == Len(p[i])
  <2>4. /\ k + l <= UnitSize /\ (i < n => k + l = UnitSize)
    <3>1. l \in Nat /\ l <= (IF i = 1 THEN room ELSE UnitSize) /\ (i < n => l = (IF i = 1 THEN room ELSE UnitSize))
      <4>1. p[i] \in Seq(E)
        BY <1>5
      <4> QED BY <4>1, <1>3
    <3> DEFINE full == IF i = 1 THEN room ELSE UnitSize
    <3>2. full \in Nat /\ k = UnitSize - full /\ l \in Nat /\ l <= full /\ (i < n => l = full)
      BY <3>1, <2>3, <1>2
    <3> HIDE DEF full, k, l
    <3> QED BY <3>2, <1>2
  <2>b. r = Took(design, z, p[i])
    OBVIOUS
  <2> HIDE DEF A, g, Read, r
  <2>5. /\ Poured(E, design, r, (d \o Read(i - 1)) \o p[i]) /\ r.length = z.length
        /\ k + l = UnitSize => r.buffered = 0
    <3> DEFINE e == d \o Read(i - 1)
    <3>1. e \in Seq(E) /\ p[i] \in Seq(E) /\ Poured(E, design, z, e) /\ k + l <= UnitSize
      BY <1>5, <2>1, <2>4
    <3> HIDE DEF e
    <3>2. Poured(E, design, r, e \o p[i]) /\ r.length = z.length /\ (k + l = UnitSize => r.buffered = 0)
      <4>1. Follows(E, design, e \o p[i], z, r, k + l)
        BY <3>1, <2>b, TookIs
      <4> QED BY <4>1 DEF Follows
    <3> QED BY <3>2 DEF e
  <2>6. Poured(E, design, r, d \o Read(i)) /\ r.length = s.length /\ (i < n => r.buffered = 0)
    BY <2>1, <2>4, <2>5, <1>5
  <2>7. r \in S
    BY <2>6 DEF Poured, PouredAs, S
  <2>8. r \in A[i]
    BY <2>0, <2>6, <2>7 DEF A
  <2> QED BY <2>2, <2>8 DEF r
<1>8. \A i \in 0 .. n : A[i] \subseteq S
  OBVIOUS
<1> HIDE DEF A, g, Read
<1>b. PICK f : LedBy(f, n, S, A, s, g)
  <2>1. n \in Nat /\ s \in A[0]
    BY <1>3, <1>6
  <2>2. \A i \in 1 .. n : \A z \in A[i - 1] : g[<<z, i>>] \in A[i]
    BY <1>7
  <2>3. Leads(n, S, A, s, g)
    BY <2>1, <2>2, <1>8 DEF Leads
  <2> QED BY <2>1, <2>3, Reaches
<1>9. f \in [0 .. n -> S] /\ f[0] = s /\ \A i \in 0 .. n : f[i] \in A[i] /\ (i > 0 => f[i] = g[<<f[i - 1], i>>])
  BY <1>b DEF LedBy
<1>10. ASSUME NEW i \in 1 .. n  PROVE f[i] = Took(design, f[i - 1], p[i])
  <2>1. i \in 0 .. n /\ i > 0 /\ i - 1 \in 0 .. n
    BY <1>3
  <2> QED BY <2>1, <1>7, <1>9
<1>11. Eq(f)
  <2>1. \A i \in 0 .. n : f[i] = IF i = 0 THEN s ELSE Took(design, f[i - 1], p[i])
    <3> SUFFICES ASSUME NEW i \in 0 .. n  PROVE f[i] = IF i = 0 THEN s ELSE Took(design, f[i - 1], p[i])
      OBVIOUS
    <3>1. i = 0 \/ i \in 1 .. n
      BY <1>3
    <3> QED BY <3>1, <1>9, <1>10
  <2>2. f = [i \in 0 .. n |-> f[i]]
    BY <1>9
  <2> QED BY <2>1, <2>2
<1>12. Eq(after)
  <2> HIDE DEF Eq
  <2> QED BY <1>11
<1> HIDE DEF after
<1>13. after[n] = f[n]
  <2>1. after[0] = s /\ \A i \in 1 .. n : after[i] = Took(design, after[i - 1], p[i])
    BY <1>12, <1>3
  <2>2. GoAlike(after, f, n)
    BY <2>1, <1>9, <1>10 DEF GoAlike
  <2>3. n \in 0 .. n
    BY <1>3
  <2> QED BY <2>2, <2>3, <1>3, SameRuns
<1>14. f[n] \in A[n] /\ n \in 0 .. n
  <2>1. n \in 0 .. n
    BY <1>3
  <2> QED BY <2>1, <1>9
<1>15. Read(n) = chunk
  BY <1>3 DEF Read
<1>16. Poured(E, design, f[n], d \o chunk) /\ f[n].length = s.length
  BY <1>14, <1>15 DEF A
<1> QED BY <1>1, <1>13, <1>16

\* All of it: the length besides.
FillAt(E, design, s, d) == Poured(E, design, s, d) /\ s.length = Len(d)

\* An empty buffer holds an empty message.
LEMMA FillBegins == ASSUME NEW E, <<"0">> \in E, NEW design  PROVE FillAt(E, design, FillStart, <<>>)
<1> DEFINE b == Blank
<1>1. UnitSize \in Nat \ {0} /\ <<>> \in Seq(Seq(E)) /\ Len(<<>>) = 0
  BY UnitsAreUnits
<1>2. b \in Seq(E) /\ Len(b) = UnitSize /\ Zeroed(b, 0) = b
  BY <1>1 DEF Blank, Zeroed
<1>3. FillStart = [buffer |-> b, buffered |-> 0, length |-> 0, counter |-> 0, blocks |-> <<>>]
  BY DEF FillStart
<1> HIDE DEF b
<1>4. Upto(b, 0) = <<>>
  BY <1>2 DEF Upto
<1>5. Stamped(design, <<>>) = <<>> /\ <<>> \in Seq(Seq(E) \cup (Seq(E) \X Nat)) /\ Len(<<>>) * UnitSize = 0
  <2>1. Len(Stamped(design, <<>>)) = 0 /\ Stamped(design, <<>>) \in Seq(Seq(E) \cup (Seq(E) \X Nat))
    <3> DEFINE z == <<>>
    <3>1. z \in Seq(Seq(E)) /\ Len(z) = 0
      BY <1>1
    <3> HIDE DEF z
    <3>2. Stamped(design, z) \in Seq(Seq(E) \cup (Seq(E) \X Nat)) /\ Len(Stamped(design, z)) = Len(z)
      BY ONLY <3>1, NumberedIs
    <3> QED BY <3>1, <3>2 DEF z
  <2> QED BY <2>1, <1>1
<1>6. FillStart \in FillState(E)
  BY <1>1, <1>2, <1>3, <1>5 DEF FillState
<1>7. PouredAs(E, design, FillStart, <<>>, <<>>)
  BY <1>1, <1>2, <1>3, <1>4, <1>5, <1>6, CutNothing DEF PouredAs, Buffer
<1> QED BY <1>1, <1>3, <1>7 DEF FillAt, Poured

\* update, for the hashes that fill their buffer first.
LEMMA FillGoesOn ==
  ASSUME NEW E, <<"0">> \in E, NEW design, NEW d \in Seq(E), NEW s, FillAt(E, design, s, d), NEW chunk \in Seq(E)
  PROVE  FillAt(E, design, FillUpdate(design, s, chunk), d \o chunk)
<1> DEFINE n == s.length + Len(chunk)
           r == [s EXCEPT !.length = n]
<1>1. PICK bl \in Seq(Seq(E)) : PouredAs(E, design, s, d, bl)
  BY DEF FillAt, Poured
<1>2. s.length = Len(d) /\ Len(d) \in Nat /\ Len(chunk) \in Nat /\ n \in Nat /\ Len(d \o chunk) = Len(d) + Len(chunk)
  BY DEF FillAt
<1>3. FillUpdate(design, s, chunk) = Pour(design, r, chunk)
  BY DEF FillUpdate
<1> HIDE DEF n
<1>4. s \in FillState(E)
  BY <1>1 DEF PouredAs
<1>5. r.length = n /\ r \in FillState(E) /\ r.buffer = s.buffer /\ r.buffered = s.buffered /\ r.counter = s.counter /\ r.blocks = s.blocks
  BY <1>2, <1>4 DEF FillState
<1> HIDE DEF r
<1>6. PouredAs(E, design, r, d, bl)
  BY <1>1, <1>5 DEF PouredAs
<1>7. Poured(E, design, r, d)
  BY <1>1, <1>6 DEF Poured
<1>8. Poured(E, design, Pour(design, r, chunk), d \o chunk) /\ Pour(design, r, chunk).length = r.length
  BY <1>7, PourGoesOn
<1> QED BY <1>2, <1>3, <1>5, <1>8 DEF FillAt, n

\* The same buffer and blocks, as MerkleDamgard would have them.
Bare(s, bl) == [buffer |-> s.buffer, buffered |-> s.buffered, length |-> s.length, blocks |-> bl]

FilledAs(E, design, s, d, bl) ==
  /\ HashAt(E, Bare(s, bl), d) /\ s.blocks = Stamped(design, bl)
  /\ s.counter = Len(bl) * UnitSize /\ s.counter + s.buffered = Len(d) /\ s.length = Len(d)
  /\ s.buffered \in 0 .. UnitSize - 1
  /\ design = "fsb" => Zeroed(s.buffer, s.buffered) = s.buffer

\* What is held, without the counter.
LEMMA FilledIs ==
  ASSUME NEW E, NEW design, NEW d \in Seq(E), NEW s, FillAt(E, design, s, d)
  PROVE  \E bl \in Seq(Seq(E)) : FilledAs(E, design, s, d, bl)
<1>1. PICK bl \in Seq(Seq(E)) : PouredAs(E, design, s, d, bl)
  BY DEF FillAt, Poured
<1> DEFINE t == Upto(s.buffer, s.buffered)
<1>2. /\ s.buffer \in Seq(E) /\ s.buffered \in 0 .. UnitSize - 1 /\ Buffer(E, s.buffer) /\ CutInto(d, bl, t)
      /\ s.blocks = Stamped(design, bl) /\ s.counter = Len(bl) * UnitSize
      /\ design = "fsb" => Zeroed(s.buffer, s.buffered) = s.buffer
  BY <1>1 DEF PouredAs, FillState
<1>3. s.length = Len(d) /\ Len(d) \in Nat
  BY DEF FillAt
<1>4. Len(t) = s.buffered
  BY <1>2, UnitsAreUnits DEF Upto, Buffer
<1>5. Len(d) = s.counter + s.buffered
  BY <1>2, <1>4 DEF CutInto
<1> DEFINE r == Bare(s, bl)
<1>6. r \in [buffer : Seq(E), buffered : 0 .. UnitSize - 1, length : Nat, blocks : Seq(Seq(E))]
      /\ r.buffer = s.buffer /\ r.buffered = s.buffered /\ r.length = Len(d) /\ r.blocks = bl
  BY <1>1, <1>2, <1>3 DEF Bare
<1> HIDE DEF r
<1>7. HashAt(E, r, d)
  BY <1>2, <1>6 DEF HashAt
<1>8. bl \in Seq(Seq(E)) /\ FilledAs(E, design, s, d, bl)
  BY <1>1, <1>2, <1>3, <1>5, <1>7 DEF r, FilledAs
<1> QED BY <1>8

-----------------------------------------------------------------------------
(* How a buffer that was poured into is closed. *)

\* Where bytes are the blocks themselves, an end that is a unit or that and
\* some marks more.
LEMMA TwoMore ==
  ASSUME NEW S, NEW s \in Seq(S), NEW x, NEW y
  PROVE  /\ Append(s, x) \in Seq(S \cup {x, y}) /\ s \o <<x, y>> \in Seq(S \cup {x, y})
         /\ s \o <<x, y>> = Append(Append(s, x), y) /\ s \o <<x>> = Append(s, x)
<1> DEFINE T == S \cup {x, y}
<1>1. s \in Seq(T) /\ x \in T /\ y \in T
  OBVIOUS
<1> HIDE DEF T
<1>2. Append(s, x) \in Seq(T) /\ s \o <<x, y>> \in Seq(T) /\ s \o <<x, y>> = Append(Append(s, x), y) /\ s \o <<x>> = Append(s, x)
  BY <1>1
<1> QED BY <1>2 DEF T

\* Snefru, SIMD, GOST: the tail with zeros, and after it what was counted.
LEMMA ZerosClose ==
  ASSUME NEW E, Marks \subseteq E, NEW d \in Seq(E), NEW design, design \in {"snefru", "simd", "gost"},
         NEW s, FillAt(E, design, s, d)
  PROVE  DigestOf(design, s) = DigestOneShot(design, d) /\ \E T : DigestOf(design, s) \in Seq(T)
<1>0. PICK bl \in Seq(Seq(E)) : FilledAs(E, design, s, d, bl)
  BY FilledIs
<1>1. /\ bl \in Seq(Seq(E))
      /\ HashAt(E, Bare(s, bl), d) /\ s.blocks = Stamped(design, bl)
      /\ s.counter + s.buffered = Len(d) /\ s.length = Len(d)
  BY <1>0 DEF FilledAs
<1> DEFINE z == ZeroFilled(s)
           l == <<"length", Len(d)>>
<1>2. s.blocks = bl
  BY <1>1, NumberedIs
<1>3. z = WordsDigest(Bare(s, bl))
  BY <1>2 DEF ZeroFilled, WordsDigest, Bare
<1>4. z = Units(Filled(d)) /\ z \in Seq(Seq(E))
  BY <1>1, <1>3, WordsClose
<1>5. CASE design \in {"snefru", "simd"}
  <2>1. DigestOf(design, s) = Append(z, l) /\ DigestOneShot(design, d) = Append(Units(Filled(d)), l)
    BY <1>1, <1>5 DEF DigestOf, DigestOneShot, SnefruDigest, SimdDigest
  <2> HIDE DEF z, l
  <2>2. Append(z, l) \in Seq(Seq(E) \cup {l, l})
    BY <1>4, TwoMore
  <2> QED BY <2>1, <2>2, <1>4
<1>6. CASE design = "gost"
  <2> DEFINE x == <<"sum", z>>
  <2>1. DigestOf(design, s) = z \o <<l, x>> /\ DigestOneShot(design, d) = Units(Filled(d)) \o <<l, <<"sum", Units(Filled(d))>>>>
    BY <1>1, <1>6 DEF DigestOf, DigestOneShot, GostDigest
  <2>2. DigestOneShot(design, d) = z \o <<l, x>>
    BY <2>1, <1>4
  <2> HIDE DEF z, l, x
  <2>3. z \o <<l, x>> \in Seq(Seq(E) \cup {l, x})
    BY <1>4, TwoMore
  <2> QED BY <2>1, <2>2, <2>3
<1> QED BY <1>5, <1>6

\* Murmur and HighwayHash: the tail as it is.
LEMMA TailsClose ==
  ASSUME NEW E, Marks \subseteq E, NEW d \in Seq(E), NEW design, design \in {"murmur", "highway"},
         NEW s, FillAt(E, design, s, d)
  PROVE  DigestOf(design, s) = DigestOneShot(design, d) /\ \E T : DigestOf(design, s) \in Seq(T)
<1>0. PICK bl \in Seq(Seq(E)) : FilledAs(E, design, s, d, bl)
  BY FilledIs
<1>1. /\ bl \in Seq(Seq(E))
      /\ HashAt(E, Bare(s, bl), d) /\ s.blocks = Stamped(design, bl) /\ s.length = Len(d)
      /\ s.buffered \in 0 .. UnitSize - 1
  BY <1>0 DEF FilledAs
<1> DEFINE k == s.buffered
           t == Upto(s.buffer, k)
<1>2. s.blocks = bl
  BY <1>1, NumberedIs
<1>3. CutInto(d, bl, t) /\ Buffer(E, s.buffer) /\ k \in 0 .. UnitSize - 1 /\ UnitSize \in Nat \ {0}
  <2> DEFINE r == Bare(s, bl)
  <2>1. r.buffer = s.buffer /\ r.buffered = k /\ r.blocks = bl
    BY DEF Bare
  <2> HIDE DEF r
  <2> QED BY <2>1, <1>1, UnitsAreUnits DEF HashAt, r
<1> HIDE DEF k
<1>4. t \in Seq(E) /\ Len(t) = k
  BY <1>3 DEF Upto, Buffer
<1> HIDE DEF t
<1>5. Units(Aligned(d)) = bl /\ Remainder(d) = t
  BY <1>1, <1>3, <1>4, CutIs
<1>6. CASE design = "murmur"
  <2> DEFINE x == <<"tail", t, Len(d)>>
  <2>1. DigestOf(design, s) = Append(bl, x) /\ DigestOneShot(design, d) = Append(bl, x)
    BY <1>1, <1>2, <1>5, <1>6 DEF DigestOf, DigestOneShot, MurmurDigest, t, k
  <2> HIDE DEF x
  <2>2. Append(bl, x) \in Seq(Seq(E) \cup {x, x})
    BY <1>1, TwoMore
  <2> QED BY <2>1, <2>2
<1>7. CASE design = "highway"
  <2> DEFINE x == <<"tail", t, k>>
  <2>1. DigestOf(design, s) = IF k = 0 THEN bl ELSE Append(bl, x)
    BY <1>2, <1>7 DEF DigestOf, HighwayDigest, t, k
  <2>2. DigestOneShot(design, d) = bl \o IF t = <<>> THEN <<>> ELSE <<x>>
    BY <1>4, <1>5, <1>7 DEF DigestOneShot
  <2> HIDE DEF x
  <2>3. Append(bl, x) \in Seq(Seq(E) \cup {x, x}) /\ bl \o <<x>> = Append(bl, x) /\ bl \o <<>> = bl /\ bl \in Seq(Seq(E))
    BY <1>1, TwoMore
  <2>4. t = <<>> <=> k = 0
    BY <1>4
  <2>5. CASE k = 0
    BY <2>1, <2>2, <2>3, <2>4, <2>5
  <2>6. CASE k # 0
    BY <2>1, <2>2, <2>3, <2>4, <2>6
  <2> QED BY <2>5, <2>6
<1> QED BY <1>6, <1>7

\* HAVAL pours its padding into the buffer behind the message.
LEMMA HavalCloses ==
  ASSUME NEW E, Marks \subseteq E, NEW d \in Seq(E), NEW s, FillAt(E, "haval", s, d)
  PROVE  HavalDigest(s) = Units(Padded(d)) /\ HavalDigest(s) \in Seq(Seq(E))
<1>0. PICK bl \in Seq(Seq(E)) : FilledAs(E, "haval", s, d, bl)
  BY FilledIs
<1>1. /\ bl \in Seq(Seq(E))
      /\ HashAt(E, Bare(s, bl), d) /\ s.counter = Len(bl) * UnitSize /\ s.counter + s.buffered = Len(d)
      /\ s.length = Len(d) /\ s.buffered \in 0 .. UnitSize - 1
  BY <1>0 DEF FilledAs
<1> DEFINE U  == UnitSize
           F  == LengthField
           L  == Len(d)
           q  == Len(bl)
           k  == s.buffered
           at == s.length % U
           zeros == (IF at < U - F THEN U ELSE 2 * U) - F - at - 1
           mark == <<<<"80">>>>
           fill == mark \o Zeros(zeros)
           tail == Zeros(F - 1) \o <<<<"length", s.length>>>>
           p1 == Pour("haval", s, fill)
           p2 == Pour("haval", p1, tail)
<1>2. HavalDigest(s) = p2.blocks
  BY DEF HavalDigest
<1>3. U \in Nat \ {0} /\ F \in 1 .. U /\ q \in Nat /\ k \in 0 .. U - 1 /\ L \in Nat /\ L = q * U + k
  BY <1>1, UnitsAreUnits
<1>4. at = k
  <2>1. (q * U + k) % U = k
    <3> HIDE DEF q, k, U
    <3> QED BY <1>3, DivIs
  <2> QED BY <2>1, <1>1, <1>3
<1> HIDE DEF at, k, L, q, U, F
<1>5. zeros \in Nat /\ zeros = IF k + 1 + F > U THEN 2 * U - (k + 1) - F ELSE U - (k + 1) - F
  BY <1>3, <1>4
<1> HIDE DEF zeros
<1>6. Padded(d) = d \o mark \o Zeros(zeros + F - 1) \o <<<<"length", L>>>>
  <2>1. (CHOOSE z \in 0 .. U - 1 : (L + 1 + z + F) % U = 0) = zeros
    <3>1. /\ q \in Nat /\ k \in 0 .. UnitSize - 1 /\ L \in Nat /\ L = q * UnitSize + k /\ zeros \in Nat
          /\ zeros = IF k + 1 + LengthField > UnitSize THEN 2 * UnitSize - (k + 1) - LengthField ELSE UnitSize - (k + 1) - LengthField
      BY <1>3, <1>5 DEF U, F
    <3>2. (CHOOSE z \in 0 .. UnitSize - 1 : (L + 1 + z + LengthField) % UnitSize = 0) = zeros
      BY <3>1, PaddingIs
    <3> QED BY <3>2 DEF U, F
  <2> QED BY <2>1 DEF Padded, L, U, F
<1>7. /\ <<"0">> \in E /\ <<"80">> \in E /\ <<"length", L>> \in E /\ s.length = L
      /\ mark \in Seq(E) /\ Len(mark) = 1 /\ <<<<"length", L>>>> \in Seq(E) /\ Len(<<<<"length", L>>>>) = 1
  <2>1. <<"0">> \in E /\ <<"80">> \in E /\ <<"length", L>> \in E /\ s.length = L
    BY <1>1, <1>3 DEF Marks, L
  <2> QED BY <2>1
<1> DEFINE lend == <<<<"length", L>>>>
           za == Zeros(zeros)
           zb == Zeros(F - 1)
           zc == Zeros(zeros + F - 1)
<1>8. /\ za \in Seq(E) /\ Len(za) = zeros /\ zb \in Seq(E) /\ Len(zb) = F - 1
      /\ zc \in Seq(E) /\ Len(zc) = zeros + F - 1 /\ za \o zb = zc
  <2>1. F - 1 \in Nat /\ zeros + F - 1 \in Nat /\ zeros \in Nat
    BY <1>3, <1>5
  <2>2. za \in Seq(E) /\ Len(za) = zeros /\ \A i \in 1 .. zeros : za[i] = <<"0">>
    BY <2>1, <1>7, ZerosAre
  <2>3. zb \in Seq(E) /\ Len(zb) = F - 1 /\ \A i \in 1 .. F - 1 : zb[i] = <<"0">>
    <3> DEFINE v == F - 1
    <3> HIDE DEF v
    <3>1. v \in Nat
      BY <2>1 DEF v
    <3>2. Zeros(v) \in Seq(E) /\ Len(Zeros(v)) = v /\ \A i \in 1 .. v : Zeros(v)[i] = <<"0">>
      BY <3>1, <1>7, ZerosAre
    <3> QED BY <3>2 DEF v
  <2>4. zc \in Seq(E) /\ Len(zc) = zeros + F - 1 /\ \A i \in 1 .. zeros + F - 1 : zc[i] = <<"0">>
    <3> DEFINE v == zeros + F - 1
    <3> HIDE DEF v
    <3>1. v \in Nat
      BY <2>1 DEF v
    <3>2. Zeros(v) \in Seq(E) /\ Len(Zeros(v)) = v /\ \A i \in 1 .. v : Zeros(v)[i] = <<"0">>
      BY <3>1, <1>7, ZerosAre
    <3> QED BY <3>2 DEF v
  <2> HIDE DEF za, zb, zc
  <2>5. Len(zc) = Len(za) + Len(zb) /\ \A i \in 1 .. Len(za) : zc[i] = za[i]
    <3>1. \A i \in 1 .. zeros : i \in 1 .. zeros + F - 1
      BY <1>3, <2>1
    <3>2. zeros + F - 1 = zeros + (F - 1)
      BY <1>3, <2>1
    <3> QED BY <3>1, <3>2, <2>2, <2>3, <2>4
  <2>6. \A i \in 1 .. Len(zb) : zc[Len(za) + i] = zb[i]
    <3> SUFFICES ASSUME NEW i \in 1 .. F - 1  PROVE zc[zeros + i] = zb[i]
      BY <2>2, <2>3
    <3>1. zeros + i \in 1 .. zeros + F - 1
      BY <1>3, <2>1
    <3> QED BY <3>1, <2>3, <2>4
  <2> QED BY <2>2, <2>3, <2>4, <2>5, <2>6, JoinIs
<1> HIDE DEF za, zb, zc, lend, mark
<1>9. fill = mark \o za /\ tail = zb \o lend /\ mark \in Seq(E) /\ lend \in Seq(E) /\ Len(lend) = 1
  BY <1>7 DEF za, zb, lend, mark
<1>10. fill \in Seq(E) /\ tail \in Seq(E)
  <2> HIDE DEF fill, tail
  <2>1. mark \o za \in Seq(E) /\ zb \o lend \in Seq(E)
    BY <1>8, <1>9
  <2> QED BY <2>1, <1>9
<1> HIDE DEF fill, tail
<1>11. Poured(E, "haval", p1, d \o fill) /\ d \o fill \in Seq(E)
  BY <1>7, <1>10, PourGoesOn DEF FillAt
<1> HIDE DEF p1
<1>12. Poured(E, "haval", p2, (d \o fill) \o tail)
  BY <1>7, <1>10, <1>11, PourGoesOn
<1> HIDE DEF p2
<1>13. (d \o fill) \o tail = Padded(d) /\ Padded(d) \in Seq(E) /\ Len(Padded(d)) = L + 1 + (zeros + F - 1) + 1
  <2>1. /\ d \o mark \in Seq(E) /\ Len(d \o mark) = L + 1
        /\ d \o mark \o zc \in Seq(E) /\ Len(d \o mark \o zc) = L + 1 + (zeros + F - 1)
        /\ d \o mark \o zc \o lend \in Seq(E) /\ Len(d \o mark \o zc \o lend) = L + 1 + (zeros + F - 1) + 1
    <3>1. d \o mark \in Seq(E) /\ Len(d \o mark) = L + 1
      BY <1>7, <1>9 DEF L, mark
    <3> DEFINE x == d \o mark
    <3> HIDE DEF x
    <3>2. x \o zc \in Seq(E) /\ Len(x \o zc) = L + 1 + (zeros + F - 1)
      <4>1. x \in Seq(E) /\ Len(x) = L + 1
        BY <3>1 DEF x
      <4>2. Len(zc) = zeros + F - 1 /\ zeros + F - 1 = (zeros + F - 1)
        BY <1>8
      <4>3. x \o zc \in Seq(E) /\ Len(x \o zc) = Len(x) + Len(zc)
        BY <4>1, <1>8, Joins
      <4> QED BY <4>1, <4>2, <4>3
    <3> DEFINE y == x \o zc
    <3> HIDE DEF y
    <3>3. y \o lend \in Seq(E) /\ Len(y \o lend) = L + 1 + (zeros + F - 1) + 1
      <4>1. y \in Seq(E) /\ Len(y) = L + 1 + (zeros + F - 1)
        BY <3>2 DEF y
      <4>2. y \o lend \in Seq(E) /\ Len(y \o lend) = Len(y) + Len(lend)
        BY <4>1, <1>9, Joins
      <4> QED BY <4>1, <4>2, <1>9
    <3> QED BY <3>1, <3>2, <3>3 DEF x, y
  <2>2. (d \o fill) \o tail = d \o mark \o zc \o lend
    <3>1. d \o (mark \o za) = (d \o mark) \o za /\ d \o mark \in Seq(E)
      <4>1. d \in Seq(E) /\ mark \in Seq(E) /\ za \in Seq(E)
        BY <1>8, <1>9
      <4> QED BY ONLY <4>1, Associates
    <3> DEFINE x == d \o mark
    <3>2. x \in Seq(E)
      BY <2>1
    <3> HIDE DEF x
    <3>3. x \o za \in Seq(E)
      BY <3>2, <1>8
    <3>4. (x \o za) \o (zb \o lend) = ((x \o za) \o zb) \o lend /\ (x \o za) \o zb \in Seq(E)
      <4> DEFINE w == x \o za
      <4>1. w \in Seq(E) /\ zb \in Seq(E) /\ lend \in Seq(E)
        BY <3>3, <1>8, <1>9
      <4> HIDE DEF w
      <4>2. w \o (zb \o lend) = (w \o zb) \o lend /\ w \o zb \in Seq(E)
        BY ONLY <4>1, Associates
      <4> QED BY <4>2 DEF w
    <3>5. x \o (za \o zb) = (x \o za) \o zb /\ x \o za \in Seq(E)
      <4>1. x \in Seq(E) /\ za \in Seq(E) /\ zb \in Seq(E)
        BY <3>2, <1>8
      <4> QED BY ONLY <4>1, Associates
    <3> QED BY <3>1, <3>4, <3>5, <1>8, <1>9 DEF x
  <2>3. Padded(d) = d \o mark \o zc \o lend
    BY <1>6 DEF zc, lend
  <2> QED BY <2>1, <2>2, <2>3
<1>14. PICK cl \in Seq(Seq(E)) : PouredAs(E, "haval", p2, Padded(d), cl)
  BY <1>12, <1>13 DEF Poured
<1> DEFINE t == Upto(p2.buffer, p2.buffered)
<1>15. CutInto(Padded(d), cl, t) /\ p2.blocks = cl /\ t \in Seq(E) /\ Len(t) < UnitSize
  <2>1. CutInto(Padded(d), cl, t) /\ p2.blocks = Stamped("haval", cl) /\ Buffer(E, p2.buffer) /\ p2.buffered \in 0 .. UnitSize - 1
    BY <1>14 DEF PouredAs, FillState
  <2>2. p2.blocks = cl
    BY <2>1, <1>14, NumberedIs
  <2>3. t \in Seq(E) /\ Len(t) = p2.buffered
    BY <2>1, UnitsAreUnits DEF Upto, Buffer
  <2>4. Len(t) < UnitSize
    BY <2>1, <2>3, UnitsAreUnits
  <2> QED BY <2>1, <2>2, <2>3, <2>4
<1> HIDE DEF t
<1>16. Len(Padded(d)) % UnitSize = 0
  <2> DEFINE j == IF k + 1 + F > U THEN q + 2 ELSE q + 1
             m == q * U
  <2>1. (q + 1) * U = m + U /\ (q + 2) * U = m + 2 * U /\ m \in Nat
    <3>1. (q + 1) * U = q * U + 1 * U /\ (q + 2) * U = q * U + 2 * U /\ m \in Nat
      BY <1>3, Distributes, Products
    <3>2. 1 * U = U
      BY <1>3
    <3> QED BY <3>1, <3>2
  <2>2. j \in Nat /\ j * U = IF k + 1 + F > U THEN m + 2 * U ELSE m + U
    BY <2>1, <1>3
  <2>3. L = m + k
    BY <1>3
  <2> DEFINE n == j * U
  <2>4. n = IF k + 1 + F > U THEN m + 2 * U ELSE m + U
    BY <2>2
  <2>5. j \in Nat
    BY <2>2
  <2> HIDE DEF m, j
  <2>6. (j * U + 0) % U = 0
    <3>1. 0 \in 0 .. U - 1
      BY <1>3
    <3> QED BY <3>1, <2>5, <1>3, DivIs
  <2> HIDE DEF n
  <2>7. L + 1 + (zeros + F - 1) + 1 = n + 0
    BY <2>1, <2>3, <2>4, <1>3, <1>5
  <2>8. Len(Padded(d)) = j * U + 0
    BY <2>7, <1>13 DEF n
  <2> QED BY <2>6, <2>8 DEF U
<1>17. t = <<>>
  <2>1. Len(t) = 0
    BY <1>13, <1>14, <1>15, <1>16, CutIs
  <2> QED BY <2>1, <1>15
<1>18. Units(Padded(d)) = cl
  BY <1>13, <1>14, <1>15, <1>17, UnitsOfWhole
<1> QED BY <1>2, <1>14, <1>15, <1>18

\* The marker behind the tail, and zeros to the end of the buffer.
LEMMA MarkedIs ==
  ASSUME NEW E, Marks \subseteq E, NEW s, Buffer(E, s.buffer), s.buffered \in 0 .. UnitSize - 1
  PROVE  LET e == <<<<"80">>>> \o Zeros(UnitSize - s.buffered - 1)
         IN /\ e \in Seq(E) /\ Len(e) = UnitSize - s.buffered
            /\ Marked(s) = Upto(s.buffer, s.buffered) \o e
            /\ Marked(s) \in Seq(E) /\ Len(Marked(s)) = UnitSize
<1> DEFINE k == s.buffered
           b == s.buffer
           z == Zeros(UnitSize - k - 1)
           e == <<<<"80">>>> \o z
           t == Upto(b, k)
<1>1. UnitSize \in Nat \ {0} /\ k \in 0 .. UnitSize - 1 /\ Buffer(E, b) /\ b \in Seq(E) /\ Len(b) = UnitSize /\ <<"80">> \in E /\ <<"0">> \in E
  BY UnitsAreUnits DEF Marks, Buffer
<1>2. Marked(s) = [Zeroed(b, k) EXCEPT ![k + 1] = <<"80">>]
  BY DEF Marked
<1> HIDE DEF k, b
<1>3. z \in Seq(E) /\ Len(z) = UnitSize - k - 1 /\ \A i \in 1 .. UnitSize - k - 1 : z[i] = <<"0">>
  <2> DEFINE n == UnitSize - k - 1
  <2>1. n \in Nat
    BY <1>1
  <2> HIDE DEF n
  <2>2. Zeros(n) \in Seq(E) /\ Len(Zeros(n)) = n /\ \A i \in 1 .. n : Zeros(n)[i] = <<"0">>
    BY <2>1, <1>1, ZerosAre
  <2> QED BY <2>2 DEF n
<1> HIDE DEF z
<1>4. e \in Seq(E) /\ Len(e) = UnitSize - k /\ e[1] = <<"80">> /\ \A j \in 1 .. UnitSize - k - 1 : e[j + 1] = <<"0">>
  <2>1. e \in Seq(E) /\ Len(e) = Len(z) + 1 /\ e[1] = <<"80">> /\ \A j \in 1 .. Len(z) : e[j + 1] = z[j]
    BY <1>1, <1>3, Prepends
  <2> HIDE DEF e
  <2>2. k \in Nat /\ UnitSize \in Nat /\ Len(e) = UnitSize - k
    BY <2>1, <1>1, <1>3
  <2>3. ASSUME NEW j \in 1 .. UnitSize - k - 1  PROVE e[j + 1] = <<"0">>
    <3>1. j \in 1 .. Len(z)
      BY <1>3
    <3> QED BY <3>1, <2>1, <1>3
  <2> QED BY <2>1, <2>2, <2>3
<1> HIDE DEF e
<1> DEFINE w == Written(b, k, e)
<1>5. w = t \o e /\ Len(t \o e) = UnitSize /\ t \in Seq(E)
  <2>1. Buffer(E, b) /\ e \in Seq(E) /\ k \in Nat /\ k + Len(e) = UnitSize
    BY <1>1, <1>4
  <2> HIDE DEF t
  <2>2. Written(b, k, e) = Upto(b, k) \o e /\ Len(Upto(b, k) \o e) = UnitSize /\ Upto(b, k) \in Seq(E)
    <3>1. UnitSize \in Nat
      BY <1>1
    <3> QED BY ONLY <2>1, <3>1, FilledUp
  <2> QED BY <2>2 DEF t
<1>6. \A i \in 1 .. UnitSize : w[i] = IF i = k + 1 THEN <<"80">> ELSE IF i > k THEN <<"0">> ELSE b[i]
  <2> SUFFICES ASSUME NEW i \in 1 .. UnitSize
               PROVE  w[i] = IF i = k + 1 THEN <<"80">> ELSE IF i > k THEN <<"0">> ELSE b[i]
    OBVIOUS
  <2>1. w[i] = IF i \in k + 1 .. k + Len(e) THEN e[i - k] ELSE b[i]
    BY DEF Written
  <2> HIDE DEF w
  <2>2. CASE i = k + 1
    <3>1. i \in k + 1 .. k + Len(e) /\ i - k = 1
      BY <2>2, <1>1, <1>4
    <3> QED BY <3>1, <2>1, <2>2, <1>4
  <2>3. CASE i > k + 1
    <3> DEFINE j == i - k - 1
    <3>1. i \in k + 1 .. k + Len(e) /\ j \in 1 .. UnitSize - k - 1 /\ i - k = j + 1 /\ i > k /\ i # k + 1
      BY <2>3, <1>1, <1>4
    <3> HIDE DEF j
    <3> QED BY <3>1, <2>1, <1>4
  <2>4. CASE i <= k
    <3>1. i \notin k + 1 .. k + Len(e) /\ ~(i > k) /\ i # k + 1
      BY <2>4, <1>1, <1>4
    <3> QED BY <3>1, <2>1
  <2>5. i = k + 1 \/ i > k + 1 \/ i <= k
    BY <1>1
  <2> QED BY <2>2, <2>3, <2>4, <2>5
<1>7. Marked(s) = w
  <2>1. w = [i \in 1 .. UnitSize |-> w[i]]
    BY DEF Written
  <2> HIDE DEF w
  <2> DEFINE y == [Zeroed(b, k) EXCEPT ![k + 1] = <<"80">>]
  <2>2. y = [i \in 1 .. UnitSize |-> IF i = k + 1 THEN <<"80">> ELSE IF i > k THEN <<"0">> ELSE b[i]]
    BY DEF Zeroed
  <2> HIDE DEF y
  <2>3. y = w
    BY <2>1, <2>2, <1>6
  <2> QED BY <2>3, <1>2 DEF y
<1> HIDE DEF w, t
<1>8. t \o e \in Seq(E)
  BY <1>4, <1>5
<1> QED BY <1>4, <1>5, <1>7, <1>8 DEF t, e, z, k, b

\* A sponge: the rest, the marker and zeros are the last block.
LEMMA SpongeCloses ==
  ASSUME NEW E, Marks \subseteq E, NEW d \in Seq(E), NEW s, NEW bl \in Seq(Seq(E)), HashAt(E, Bare(s, bl), d)
  PROVE  /\ Units(Filled(Append(d, <<"80">>))) = Append(bl, Marked(s))
         /\ Append(bl, Marked(s)) \in Seq(Seq(E)) /\ Marked(s) \in Seq(E)
<1> DEFINE k == s.buffered
           b == s.buffer
           n == UnitSize - k - 1
           z == Zeros(n)
           e == <<<<"80">>>> \o z
           t == Upto(b, k)
           q == Len(bl)
           dm == Append(d, <<"80">>)
<1>1. k \in 0 .. UnitSize - 1 /\ Buffer(E, b) /\ CutInto(d, bl, t) /\ UnitSize \in Nat \ {0} /\ q \in Nat
      /\ <<"80">> \in E /\ <<"0">> \in E
  <2> DEFINE r == Bare(s, bl)
  <2>1. r.buffer = b /\ r.buffered = k /\ r.blocks = bl
    BY DEF Bare
  <2> HIDE DEF r
  <2> QED BY <2>1, UnitsAreUnits DEF HashAt, r, Marks
<1>2. e \in Seq(E) /\ Len(e) = UnitSize - k /\ Marked(s) = t \o e /\ Marked(s) \in Seq(E) /\ Len(Marked(s)) = UnitSize
  BY <1>1, MarkedIs
<1> HIDE DEF k, b
<1>3. t \in Seq(E) /\ Len(t) = k
  BY <1>1 DEF Upto, Buffer
<1>4. z \in Seq(E) /\ n \in Nat
  <2>1. n \in Nat
    BY <1>1
  <2> HIDE DEF n
  <2> QED BY <2>1, <1>1, ZerosAre
<1>5. Len(d) = q * UnitSize + k /\ q * UnitSize \in Nat
  <2>1. Len(d) = q * UnitSize + Len(t)
    BY <1>1 DEF CutInto
  <2> QED BY <2>1, <1>1, <1>3, Products
<1> HIDE DEF t, q
<1>6. (UnitSize - (Len(dm) % UnitSize)) % UnitSize = n
  <2> DEFINE m == q * UnitSize
  <2>0. Len(dm) = m + k + 1
    <3>1. Len(dm) = Len(d) + 1
      OBVIOUS
    <3> QED BY <3>1, <1>1, <1>5
  <2>1. CASE k + 1 = UnitSize
    <3>1. (q + 1) * UnitSize = m + UnitSize
      <4>1. (q + 1) * UnitSize = q * UnitSize + 1 * UnitSize
        BY <1>1, Distributes
      <4> QED BY <4>1, <1>1
    <3>2. ((q + 1) * UnitSize + 0) % UnitSize = 0
      <4>1. q + 1 \in Nat /\ 0 \in 0 .. UnitSize - 1
        BY <1>1
      <4> QED BY <4>1, <1>1, DivIs
    <3>3. Len(dm) = (q + 1) * UnitSize + 0
      <4> HIDE DEF m
      <4>1. m \in Nat
        BY <1>5 DEF m
      <4> QED BY <4>1, <3>1, <2>0, <2>1, <1>1
    <3>4. Len(dm) % UnitSize = 0
      BY <3>2, <3>3
    <3>5. (1 * UnitSize + 0) % UnitSize = 0 /\ 1 * UnitSize + 0 = UnitSize
      <4>1. 1 \in Nat /\ 0 \in 0 .. UnitSize - 1
        BY <1>1
      <4>2. (1 * UnitSize + 0) % UnitSize = 0
        BY <4>1, <1>1, DivIs
      <4> QED BY <4>2, <1>1
    <3>6. UnitSize - 0 = UnitSize /\ n = 0
      BY <1>1, <2>1
    <3> QED BY <3>4, <3>5, <3>6
  <2>2. CASE k + 1 # UnitSize
    <3> DEFINE j == k + 1
    <3>1. j \in 0 .. UnitSize - 1 /\ j \in Nat /\ UnitSize - j = n /\ n \in 0 .. UnitSize - 1
      BY <1>1, <2>2
    <3> HIDE DEF j
    <3>2. (q * UnitSize + j) % UnitSize = j
      BY <3>1, <1>1, DivIs
    <3>3. Len(dm) = q * UnitSize + j
      <4> HIDE DEF m
      <4>1. m \in Nat
        BY <1>5 DEF m
      <4>2. m + k + 1 = m + j
        BY <4>1, <1>1 DEF j
      <4> QED BY <4>2, <2>0 DEF m
    <3> HIDE DEF n
    <3>4. (0 * UnitSize + n) % UnitSize = n /\ 0 * UnitSize + n = n
      <4>1. (0 * UnitSize + n) % UnitSize = n
        BY <3>1, <1>1, DivIs
      <4> QED BY <4>1, <3>1, <1>1
    <3> QED BY <3>1, <3>2, <3>3, <3>4
  <2> QED BY <2>1, <2>2
<1>7. Filled(dm) = d \o e
  <2>1. Filled(dm) = dm \o z
    BY <1>6 DEF Filled
  <2> DEFINE mark == <<<<"80">>>>
  <2>2. mark \in Seq(E) /\ dm = d \o mark
    BY <1>1
  <2> HIDE DEF mark, z
  <2>3. d \o (mark \o z) = (d \o mark) \o z /\ d \o mark \in Seq(E)
    BY <2>2, <1>4, Associates
  <2> QED BY <2>1, <2>2, <2>3 DEF mark
<1> HIDE DEF e
<1>8. Units(d \o e) = Append(bl, t \o e) /\ Append(bl, t \o e) \in Seq(Seq(E))
  <2>1. Len(t \o e) = UnitSize
    BY <1>2
  <2> QED BY <2>1, <1>1, <1>2, <1>3, LastUnit
<1> QED BY <1>2, <1>7, <1>8

\* Where the length goes: behind the marker, or in a block of its own.
Closing(s, l) ==
  IF s.buffered + 1 + LengthField > UnitSize THEN <<Marked(s), WithLength(Blank, l)>>
  ELSE <<WithLength(Marked(s), l)>>

\* Zeros and a length that need a block of their own.
LEMMA MarkedTwice ==
  ASSUME NEW E, Marks \subseteq E, NEW d \in Seq(E), NEW s, NEW bl \in Seq(Seq(E)), HashAt(E, Bare(s, bl), d),
         s.length = Len(d)
  PROVE  /\ Units(Padded(d)) = bl \o Closing(s, Len(d)) /\ Units(Padded(d)) \in Seq(Seq(E))
         /\ [i \in 1 .. UnitSize |-> IF i > s.buffered + 1 THEN <<"0">> ELSE [s.buffer EXCEPT ![s.buffered + 1] = <<"80">>][i]] = Marked(s)
<1> DEFINE r == Bare(s, bl)
           k == s.buffered
           b == s.buffer
           at == k + 1
           marked == [b EXCEPT ![at] = <<"80">>]
           spills == at + LengthField > UnitSize
           flushed == IF spills THEN <<Zeroed(marked, at)>> ELSE <<>>
           last == WithLength(Zeroed(marked, IF spills THEN 0 ELSE at), Len(d))
<1>1. r.buffer = b /\ r.buffered = k /\ r.blocks = bl /\ r.length = Len(d)
  BY DEF Bare
<1> HIDE DEF r
<1>2. k \in 0 .. UnitSize - 1 /\ Buffer(E, b) /\ UnitSize \in Nat \ {0} /\ b \in Seq(E) /\ Len(b) = UnitSize
  BY <1>1, UnitsAreUnits DEF HashAt, r, Buffer
<1>3. HashDigest(r) = bl \o flushed \o <<last>>
  BY <1>1 DEF HashDigest
<1>4. HashDigest(r) = Units(Padded(d)) /\ Units(Padded(d)) \in Seq(Seq(E))
  <2>1. HashDigest(r) = Units(Padded(d)) /\ HashDigest(r) \in Seq(Seq(E))
    BY MarkedCloses DEF r
  <2> QED BY <2>1
<1>5. Zeroed(marked, at) = Marked(s)
  <2> DEFINE x == Zeroed(marked, at)
             y == Marked(s)
  <2>1. \A i \in 1 .. UnitSize : marked[i] = IF i = at THEN <<"80">> ELSE b[i]
    BY <1>2
  <2> HIDE DEF marked
  <2>2. x = [i \in 1 .. UnitSize |-> IF i > at THEN <<"0">> ELSE marked[i]]
    BY DEF Zeroed
  <2>3. y = [i \in 1 .. UnitSize |-> IF i = at THEN <<"80">> ELSE IF i > k THEN <<"0">> ELSE b[i]]
    BY DEF Marked, Zeroed
  <2> HIDE DEF x, y
  <2>4. \A i \in 1 .. UnitSize :
          (IF i > at THEN <<"0">> ELSE marked[i]) = IF i = at THEN <<"80">> ELSE IF i > k THEN <<"0">> ELSE b[i]
    <3> SUFFICES ASSUME NEW i \in 1 .. UnitSize
                 PROVE  (IF i > at THEN <<"0">> ELSE marked[i]) = IF i = at THEN <<"80">> ELSE IF i > k THEN <<"0">> ELSE b[i]
      OBVIOUS
    <3>1. CASE i > at
      BY <3>1, <1>2
    <3>2. CASE i = at
      BY <3>2, <2>1, <1>2
    <3>3. CASE i <= k
      <4>1. ~(i > at) /\ i # at /\ ~(i > k)
        BY <3>3, <1>2
      <4> QED BY <4>1, <2>1
    <3>4. i > at \/ i = at \/ i <= k
      BY <1>2
    <3> QED BY <3>1, <3>2, <3>3, <3>4
  <2>5. x = y
    BY <2>2, <2>3, <2>4
  <2> QED BY <2>5 DEF x, y
<1>6. Zeroed(marked, 0) = Blank
  <2> HIDE DEF marked
  <2>1. \A i \in 1 .. UnitSize : i > 0
    BY <1>2
  <2> QED BY <2>1 DEF Zeroed, Blank
<1>7. CASE spills
  <2>1. flushed = <<Marked(s)>> /\ last = WithLength(Blank, Len(d)) /\ Closing(s, Len(d)) = <<Marked(s), WithLength(Blank, Len(d))>>
    BY <1>5, <1>6, <1>7 DEF Closing
  <2> HIDE DEF flushed, last
  <2> DEFINE x == Marked(s)
             y == WithLength(Blank, Len(d))
  <2>2. HashDigest(r) = bl \o <<x>> \o <<y>>
    BY <2>1, <1>3
  <2> HIDE DEF x, y
  <2>3. bl \o <<x, y>> = bl \o <<x>> \o <<y>>
    <3>1. bl \o <<x, y>> = Append(Append(bl, x), y) /\ bl \o <<x>> = Append(bl, x)
      BY TwoMore
    <3> DEFINE T == Seq(E) \cup {x, y}
               w == Append(bl, x)
    <3>2. w \in Seq(T)
      BY TwoMore
    <3> HIDE DEF T, w
    <3>3. w \o <<y>> = Append(w, y)
      BY <3>2, TwoMore
    <3> QED BY <3>1, <3>3 DEF w
  <2> QED BY <2>1, <2>2, <2>3, <1>4, <1>5 DEF x, y, Zeroed
<1>8. CASE ~spills
  <2>1. flushed = <<>> /\ last = WithLength(Marked(s), Len(d)) /\ Closing(s, Len(d)) = <<WithLength(Marked(s), Len(d))>>
    BY <1>5, <1>8 DEF Closing
  <2>2. bl \o <<>> = bl
    OBVIOUS
  <2> HIDE DEF flushed, last
  <2> QED BY <2>1, <2>2, <1>3, <1>4, <1>5 DEF Zeroed
<1> QED BY <1>7, <1>8

\* FSB: the buffer has nothing behind the tail.
LEMMA FsbCloses ==
  ASSUME NEW E, Marks \subseteq E, NEW d \in Seq(E), NEW s, FillAt(E, "fsb", s, d)
  PROVE  FsbDigest(s) = Units(Padded(d)) /\ FsbDigest(s) \in Seq(Seq(E))
<1>0. PICK bl \in Seq(Seq(E)) : FilledAs(E, "fsb", s, d, bl)
  BY FilledIs
<1>1. /\ bl \in Seq(Seq(E)) /\ HashAt(E, Bare(s, bl), d) /\ s.blocks = Stamped("fsb", bl) /\ s.length = Len(d)
      /\ Zeroed(s.buffer, s.buffered) = s.buffer
  BY <1>0 DEF FilledAs
<1>2. s.blocks = bl
  <2> DEFINE design == "fsb"
  <2>1. design \notin {"echo", "streebog"} /\ bl \in Seq(Seq(E))
    BY <1>1
  <2> HIDE DEF design
  <2>2. Stamped(design, bl) = bl
    BY <2>1, NumberedIs
  <2> QED BY <2>2, <1>1 DEF design
<1>3. [s.buffer EXCEPT ![s.buffered + 1] = <<"80">>] = Marked(s)
  BY <1>1 DEF Marked
<1>4. FsbDigest(s) = bl \o (IF s.buffered + 1 + LengthField > UnitSize THEN <<Marked(s)>> ELSE <<>>)
                     \o <<WithLength(IF s.buffered + 1 + LengthField > UnitSize THEN Blank ELSE Marked(s), Len(d))>>
  BY <1>1, <1>2, <1>3 DEF FsbDigest
<1>5. Units(Padded(d)) = bl \o Closing(s, Len(d)) /\ Units(Padded(d)) \in Seq(Seq(E))
  BY <1>1, MarkedTwice
<1>6. CASE s.buffered + 1 + LengthField > UnitSize
  <2> DEFINE x == Marked(s)
             y == WithLength(Blank, Len(d))
  <2>1. FsbDigest(s) = bl \o <<x>> \o <<y>> /\ Closing(s, Len(d)) = <<x, y>>
    BY <1>4, <1>6 DEF Closing
  <2> HIDE DEF x, y
  <2>2. bl \o <<x, y>> = Append(Append(bl, x), y) /\ bl \o <<x>> = Append(bl, x)
    BY <1>1, TwoMore
  <2> DEFINE T == Seq(E) \cup {x, y}
             w == Append(bl, x)
  <2>3. w \in Seq(T)
    BY <1>1, TwoMore
  <2> HIDE DEF T, w
  <2>4. w \o <<y>> = Append(w, y)
    BY <2>3, TwoMore
  <2> QED BY <2>1, <2>2, <2>4, <1>5 DEF w
<1>7. CASE ~(s.buffered + 1 + LengthField > UnitSize)
  <2>1. FsbDigest(s) = bl \o <<>> \o <<WithLength(Marked(s), Len(d))>> /\ Closing(s, Len(d)) = <<WithLength(Marked(s), Len(d))>>
    BY <1>4, <1>7 DEF Closing
  <2>2. bl \o <<>> = bl
    BY <1>1
  <2> QED BY <2>1, <2>2, <1>5
<1> QED BY <1>6, <1>7

\* The sponge compresses the message and its one mark.
LEMMA SpongeIs ==
  ASSUME NEW E, Marks \subseteq E, NEW d \in Seq(E), NEW s, FillAt(E, "sponge", s, d)
  PROVE  SpongeDigest(s) = Units(Filled(Append(d, <<"80">>))) /\ SpongeDigest(s) \in Seq(Seq(E))
<1>0. PICK bl \in Seq(Seq(E)) : FilledAs(E, "sponge", s, d, bl)
  BY FilledIs
<1> DEFINE design == "sponge"
<1>1. bl \in Seq(Seq(E)) /\ HashAt(E, Bare(s, bl), d) /\ s.blocks = Stamped(design, bl) /\ design \notin {"echo", "streebog"}
  BY <1>0 DEF FilledAs
<1> HIDE DEF design
<1>2. s.blocks = bl
  BY <1>1, NumberedIs
<1>3. Units(Filled(Append(d, <<"80">>))) = Append(bl, Marked(s)) /\ Append(bl, Marked(s)) \in Seq(Seq(E))
  BY <1>1, SpongeCloses
<1> QED BY <1>2, <1>3 DEF SpongeDigest

\* Streebog: its blocks come under the bytes before them, the last as well.
LEMMA StreebogCloses ==
  ASSUME NEW E, Marks \subseteq E, NEW d \in Seq(E), NEW s, FillAt(E, "streebog", s, d)
  PROVE  StreebogDigest(s) = StreebogOf(d) /\ \E T : StreebogDigest(s) \in Seq(T)
<1>0. PICK bl \in Seq(Seq(E)) : FilledAs(E, "streebog", s, d, bl)
  BY FilledIs
<1> DEFINE design == "streebog"
           u == Marked(s)
           cl == Append(bl, u)
           units == Units(Filled(Append(d, <<"80">>)))
           Y == Seq(E) \cup (Seq(E) \X Nat)
           nc == Stamped(design, cl)
           count == <<"count", Len(d)>>
           sum == <<"sum", nc>>
<1>1. /\ bl \in Seq(Seq(E)) /\ HashAt(E, Bare(s, bl), d) /\ s.blocks = Stamped(design, bl)
      /\ s.counter = Len(bl) * UnitSize /\ s.counter + s.buffered = Len(d)
  BY <1>0 DEF FilledAs
<1>2. units = cl /\ cl \in Seq(Seq(E)) /\ u \in Seq(E)
  BY <1>1, SpongeCloses
<1>3. Append(s.blocks, <<u, s.counter>>) = nc
  <2>1. Under(design, u, s.counter) = <<u, s.counter>>
    BY DEF Under
  <2> HIDE DEF design, u
  <2>2. Append(Stamped(design, bl), Under(design, u, Len(bl) * UnitSize)) = Stamped(design, Append(bl, u))
    <3>1. bl \in Seq(Seq(E)) /\ u \in Seq(E)
      BY <1>1, <1>2
    <3> QED BY ONLY <3>1, NumberedAppends
  <2> QED BY <2>1, <2>2, <1>1
<1>4. [i \in DOMAIN units |-> <<units[i], (i - 1) * UnitSize>>] = nc
  <2> HIDE DEF cl, units
  <2>1. nc = [i \in DOMAIN cl |-> <<cl[i], (i - 1) * UnitSize>>]
    BY DEF Stamped
  <2> QED BY <2>1, <1>2
<1>5. nc \in Seq(Y)
  <2> HIDE DEF design, cl
  <2> QED BY <1>2, NumberedIs
<1>6. StreebogDigest(s) = nc \o <<count, sum>>
  <2> HIDE DEF nc, u
  <2> QED BY <1>3, <1>1 DEF StreebogDigest, u
<1>7. StreebogOf(d) = nc \o <<count, sum>>
  <2> HIDE DEF nc
  <2> QED BY <1>4 DEF StreebogOf
<1> HIDE DEF nc, Y, count, sum
<1>8. nc \o <<count, sum>> \in Seq(Y \cup {count, sum})
  BY <1>5, TwoMore
<1> QED BY <1>6, <1>7, <1>8

\* How ECHO numbers the i-th block of a message of l bytes.
EchoTag(i, l) == IF (i - 1) * UnitSize < l THEN Least(i * UnitSize, l) ELSE 0

\* ECHO: its blocks come under the bytes up to their ends, and under zero
\* when none of them is the message's.
LEMMA EchoCloses ==
  ASSUME NEW E, Marks \subseteq E, NEW d \in Seq(E), NEW s, FillAt(E, "echo", s, d)
  PROVE  EchoDigest(s) = EchoOf(d) /\ \E T : EchoDigest(s) \in Seq(T)
<1>0. PICK bl \in Seq(Seq(E)) : FilledAs(E, "echo", s, d, bl)
  BY FilledIs
<1> DEFINE L == Len(d)
           q == Len(bl)
           k == s.buffered
           nb == Stamped("echo", bl)
           units == Units(Padded(d))
           cl == Closing(s, L)
           under == IF k = 0 THEN 0 ELSE L
           tags == IF k + 1 + LengthField > UnitSize THEN <<<<Marked(s), under>>, <<WithLength(Blank, L), 0>>>>
                   ELSE <<<<WithLength(Marked(s), L), under>>>>
           Y == Seq(E) \cup (Seq(E) \X Nat)
<1>1. /\ bl \in Seq(Seq(E)) /\ HashAt(E, Bare(s, bl), d) /\ s.blocks = nb
      /\ s.counter = q * UnitSize /\ s.counter + k = L /\ s.length = L /\ k \in 0 .. UnitSize - 1
      /\ UnitSize \in Nat \ {0} /\ LengthField \in 1 .. UnitSize /\ q \in Nat /\ L \in Nat /\ q * UnitSize \in Nat
  BY <1>0, UnitsAreUnits, Products DEF FilledAs
<1>2. units = bl \o cl /\ units \in Seq(Seq(E))
  BY <1>1, MarkedTwice
<1>3. EchoDigest(s) = nb \o tags
  <2>1. k + 1 > UnitSize - LengthField <=> k + 1 + LengthField > UnitSize
    BY <1>1
  <2> QED BY <2>1, <1>1 DEF EchoDigest
<1>4. EchoOf(d) = [i \in DOMAIN units |-> <<units[i], EchoTag(i, L)>>]
  BY DEF EchoOf, EchoTag
<1>5. nb \in Seq(Y) /\ Len(nb) = q /\ \A i \in 1 .. q : nb[i] = <<bl[i], i * UnitSize>>
  <2> DEFINE design == "echo"
  <2>1. design = "echo"
    OBVIOUS
  <2>2. \A i \in 1 .. q : nb[i] = <<bl[i], i * UnitSize>>
    <3>1. DOMAIN bl = 1 .. q
      BY <1>1
    <3> QED BY <3>1 DEF Stamped
  <2> HIDE DEF design
  <2>4. bl \in Seq(Seq(E))
    BY <1>1
  <2>3. Stamped(design, bl) \in Seq(Y) /\ Len(Stamped(design, bl)) = q
    BY ONLY <2>4, NumberedIs
  <2> QED BY <2>1, <2>2, <2>3
<1> HIDE DEF nb, L
<1>6. \A i \in 1 .. q : EchoTag(i, L) = i * UnitSize
  <2> SUFFICES ASSUME NEW i \in 1 .. q  PROVE EchoTag(i, L) = i * UnitSize
    OBVIOUS
  <2> HIDE DEF q, k
  <2>1. i * UnitSize \in Nat /\ (i - 1) * UnitSize \in Nat /\ i * UnitSize = (i - 1) * UnitSize + UnitSize
    <3>1. i \in Nat /\ i - 1 \in Nat /\ i = (i - 1) + 1
      BY <1>1
    <3>2. i * UnitSize \in Nat /\ (i - 1) * UnitSize \in Nat
      BY <3>1, <1>1, Products
    <3>3. ((i - 1) + 1) * UnitSize = (i - 1) * UnitSize + 1 * UnitSize
      BY <3>1, <1>1, Distributes
    <3>4. 1 * UnitSize = UnitSize
      BY <1>1
    <3> QED BY <3>1, <3>2, <3>3, <3>4
  <2>2. i * UnitSize <= q * UnitSize
    <3>1. i \in Nat /\ q - i \in Nat /\ q = i + (q - i)
      BY <1>1
    <3>2. (i + (q - i)) * UnitSize = i * UnitSize + (q - i) * UnitSize /\ (q - i) * UnitSize \in Nat
      <4> DEFINE j == q - i
      <4> HIDE DEF j
      <4>1. (i + j) * UnitSize = i * UnitSize + j * UnitSize /\ j * UnitSize \in Nat
        BY <3>1, <1>1, Distributes, Products DEF j
      <4> QED BY <4>1 DEF j
    <3> DEFINE m == (q - i) * UnitSize
               n == i * UnitSize
               p == q * UnitSize
    <3>3. p = n + m /\ m \in Nat /\ n \in Nat
      BY <3>1, <3>2, <2>1
    <3> HIDE DEF m, n, p
    <3>4. n <= p
      BY <3>3
    <3> QED BY <3>4 DEF n, p
  <2> DEFINE n == i * UnitSize
             m == (i - 1) * UnitSize
             p == q * UnitSize
  <2>3. p + k = L /\ n <= p /\ n = m + UnitSize /\ m \in Nat /\ n \in Nat /\ p \in Nat
    BY <2>1, <2>2, <1>1
  <2>4. EchoTag(i, L) = IF m < L THEN Least(n, L) ELSE 0
    BY DEF EchoTag
  <2> HIDE DEF n, m, p
  <2>5. m < L /\ n <= L
    BY <2>3, <1>1
  <2>6. Least(n, L) = n
    BY <2>5, <2>3, <1>1 DEF Least
  <2> QED BY <2>4, <2>5, <2>6 DEF n
<1>7. EchoTag(q + 1, L) = under /\ EchoTag(q + 2, L) = 0
  <2> HIDE DEF q, k
  <2>1. (q + 1) * UnitSize = q * UnitSize + UnitSize
    <3>1. (q + 1) * UnitSize = q * UnitSize + 1 * UnitSize /\ 1 * UnitSize = UnitSize
      BY <1>1, Distributes
    <3> QED BY <3>1
  <2> DEFINE p == q * UnitSize
             n == (q + 1) * UnitSize
  <2>2. p + k = L /\ n = p + UnitSize /\ p \in Nat /\ n \in Nat
    BY <2>1, <1>1
  <2>3. (q + 1) - 1 = q /\ (q + 2) - 1 = q + 1
    BY <1>1
  <2>4. EchoTag(q + 1, L) = IF p < L THEN Least(n, L) ELSE 0
    BY <2>3 DEF EchoTag
  <2>5. EchoTag(q + 2, L) = IF n < L THEN Least((q + 2) * UnitSize, L) ELSE 0
    BY <2>3 DEF EchoTag
  <2> HIDE DEF p, n
  <2>6. ~(n < L) /\ (p < L <=> k # 0) /\ L <= n
    BY <2>2, <1>1
  <2>7. Least(n, L) = L
    BY <2>6, <2>2, <1>1 DEF Least
  <2> QED BY <2>4, <2>5, <2>6, <2>7 DEF under
<1> HIDE DEF under, q, k
<1>8. CASE k + 1 + LengthField > UnitSize
  <2> DEFINE x == Marked(s)
             y == WithLength(Blank, L)
  <2>1. cl = <<x, y>> /\ tags = <<<<x, under>>, <<y, 0>>>>
    BY <1>8 DEF Closing, k
  <2> DEFINE tx == <<x, under>>
             ty == <<y, 0>>
             rhs == [i \in DOMAIN units |-> <<units[i], EchoTag(i, L)>>]
             lhs == nb \o <<tx, ty>>
  <2> HIDE DEF x, y, cl, tags
  <2>2. Len(units) = q + 2 /\ DOMAIN units = 1 .. q + 2 /\ units[q + 1] = x /\ units[q + 2] = y
        /\ \A i \in 1 .. q : units[i] = bl[i]
    <3> HIDE DEF units
    <3>1. units = bl \o <<x, y>>
      BY <1>2, <2>1
    <3> QED BY <3>1, <1>1 DEF q
  <2>3. Len(lhs) = q + 2 /\ DOMAIN lhs = 1 .. q + 2 /\ lhs[q + 1] = tx /\ lhs[q + 2] = ty
        /\ \A i \in 1 .. q : lhs[i] = nb[i]
    <3> HIDE DEF tx, ty
    <3> QED BY <1>5, <1>1
  <2>4. lhs \in Seq(Y \cup {tx, ty})
    <3> HIDE DEF tx, ty, Y
    <3> QED BY <1>5, TwoMore
  <2> HIDE DEF lhs, units
  <2>5. lhs = rhs
    <3>1. DOMAIN rhs = 1 .. q + 2 /\ \A i \in 1 .. q + 2 : rhs[i] = <<units[i], EchoTag(i, L)>>
      BY <2>2
    <3> HIDE DEF rhs
    <3>2. ASSUME NEW i \in 1 .. q + 2  PROVE lhs[i] = rhs[i]
      <4>1. CASE i \in 1 .. q
        BY <4>1, <3>1, <2>2, <2>3, <1>5, <1>6
      <4>2. CASE i = q + 1
        BY <4>2, <3>1, <2>2, <2>3, <1>7
      <4>3. CASE i = q + 2
        BY <4>3, <3>1, <2>2, <2>3, <1>7
      <4>4. i \in 1 .. q \/ i = q + 1 \/ i = q + 2
        BY <1>1
      <4> QED BY <4>1, <4>2, <4>3, <4>4
    <3>3. lhs = [i \in 1 .. q + 2 |-> lhs[i]] /\ rhs = [i \in 1 .. q + 2 |-> rhs[i]]
      <4>1. rhs = [i \in 1 .. q + 2 |-> rhs[i]]
        BY <3>1, <2>2 DEF rhs
      <4>2. lhs = [i \in 1 .. q + 2 |-> lhs[i]]
        BY <2>3, <2>4
      <4> QED BY <4>1, <4>2
    <3> QED BY <3>2, <3>3
  <2>6. EchoDigest(s) = lhs
    BY <1>3, <2>1 DEF lhs
  <2> QED BY <2>4, <2>5, <2>6, <1>4 DEF units
<1>9. CASE ~(k + 1 + LengthField > UnitSize)
  <2> DEFINE x == WithLength(Marked(s), L)
  <2>1. cl = <<x>> /\ tags = <<<<x, under>>>>
    BY <1>9 DEF Closing, k
  <2> DEFINE tx == <<x, under>>
             rhs == [i \in DOMAIN units |-> <<units[i], EchoTag(i, L)>>]
             lhs == nb \o <<tx>>
  <2> HIDE DEF x, cl, tags
  <2>2. Len(units) = q + 1 /\ DOMAIN units = 1 .. q + 1 /\ units[q + 1] = x
        /\ \A i \in 1 .. q : units[i] = bl[i]
    <3> HIDE DEF units
    <3>1. units = bl \o <<x>>
      BY <1>2, <2>1
    <3> QED BY <3>1, <1>1 DEF q
  <2>3. Len(lhs) = q + 1 /\ DOMAIN lhs = 1 .. q + 1 /\ lhs[q + 1] = tx
        /\ \A i \in 1 .. q : lhs[i] = nb[i]
    <3>1. nb \in Seq(Y) /\ Len(nb) = q /\ q \in Nat
      BY <1>5, <1>1
    <3> HIDE DEF tx, Y
    <3>2. nb \o <<tx>> = Append(nb, tx)
      BY <3>1, TwoMore
    <3>3. Append(nb, tx) \in Seq(Y \cup {tx})
      BY <3>1
    <3> QED BY <3>1, <3>2, <3>3
  <2>4. lhs \in Seq(Y \cup {tx, tx})
    <3> HIDE DEF tx, Y
    <3>1. nb \o <<tx>> = Append(nb, tx) /\ Append(nb, tx) \in Seq(Y \cup {tx, tx})
      BY <1>5, TwoMore
    <3> QED BY <3>1
  <2> HIDE DEF lhs, units
  <2>5. lhs = rhs
    <3>1. DOMAIN rhs = 1 .. q + 1 /\ \A i \in 1 .. q + 1 : rhs[i] = <<units[i], EchoTag(i, L)>>
      BY <2>2
    <3> HIDE DEF rhs
    <3>2. ASSUME NEW i \in 1 .. q + 1  PROVE lhs[i] = rhs[i]
      <4>1. CASE i \in 1 .. q
        BY <4>1, <3>1, <2>2, <2>3, <1>5, <1>6
      <4>2. CASE i = q + 1
        BY <4>2, <3>1, <2>2, <2>3, <1>7
      <4>3. i \in 1 .. q \/ i = q + 1
        BY <1>1
      <4> QED BY <4>1, <4>2, <4>3
    <3>3. lhs = [i \in 1 .. q + 1 |-> lhs[i]] /\ rhs = [i \in 1 .. q + 1 |-> rhs[i]]
      <4>1. rhs = [i \in 1 .. q + 1 |-> rhs[i]]
        BY <3>1, <2>2 DEF rhs
      <4>2. lhs = [i \in 1 .. q + 1 |-> lhs[i]]
        BY <2>3, <2>4
      <4> QED BY <4>1, <4>2
    <3> QED BY <3>2, <3>3
  <2>6. EchoDigest(s) = lhs
    BY <1>3, <2>1 DEF lhs
  <2> QED BY <2>4, <2>5, <2>6, <1>4 DEF units
<1> QED BY <1>8, <1>9

\* The hashes that are poured.
LEMMA FillDigestIs ==
  ASSUME NEW E, Marks \subseteq E, NEW d \in Seq(E), NEW design \in Filling, NEW s, FillAt(E, design, s, d)
  PROVE  DigestOf(design, s) = DigestOneShot(design, d) /\ \E T : DigestOf(design, s) \in Seq(T)
<1>1. CASE design \in {"snefru", "simd", "gost"}
  BY <1>1, ZerosClose
<1>2. CASE design \in {"murmur", "highway"}
  BY <1>2, TailsClose
<1>3. CASE design = "haval"
  <2>1. DigestOf(design, s) = HavalDigest(s) /\ DigestOneShot(design, d) = Units(Padded(d))
    BY <1>3 DEF DigestOf, DigestOneShot
  <2>2. FillAt(E, "haval", s, d)
    BY <1>3
  <2>3. HavalDigest(s) = Units(Padded(d)) /\ HavalDigest(s) \in Seq(Seq(E))
    BY <2>2, HavalCloses
  <2> QED BY <2>1, <2>3
<1>4. CASE design = "fsb"
  <2>1. DigestOf(design, s) = FsbDigest(s) /\ DigestOneShot(design, d) = Units(Padded(d))
    BY <1>4 DEF DigestOf, DigestOneShot
  <2>2. FillAt(E, "fsb", s, d)
    BY <1>4
  <2>3. FsbDigest(s) = Units(Padded(d)) /\ FsbDigest(s) \in Seq(Seq(E))
    BY <2>2, FsbCloses
  <2> QED BY <2>1, <2>3
<1>5. CASE design = "echo"
  <2>1. DigestOf(design, s) = EchoDigest(s) /\ DigestOneShot(design, d) = EchoOf(d)
    BY <1>5 DEF DigestOf, DigestOneShot
  <2>2. FillAt(E, "echo", s, d)
    BY <1>5
  <2>3. EchoDigest(s) = EchoOf(d) /\ \E T : EchoDigest(s) \in Seq(T)
    BY <2>2, EchoCloses
  <2> QED BY <2>1, <2>3
<1>6. CASE design = "streebog"
  <2>1. DigestOf(design, s) = StreebogDigest(s) /\ DigestOneShot(design, d) = StreebogOf(d)
    BY <1>6 DEF DigestOf, DigestOneShot
  <2>2. FillAt(E, "streebog", s, d)
    BY <1>6
  <2>3. StreebogDigest(s) = StreebogOf(d) /\ \E T : StreebogDigest(s) \in Seq(T)
    BY <2>2, StreebogCloses
  <2> QED BY <2>1, <2>3
<1>7. CASE design = "sponge"
  <2>1. DigestOf(design, s) = SpongeDigest(s) /\ DigestOneShot(design, d) = Units(Filled(Append(d, <<"80">>)))
    BY <1>7 DEF DigestOf, DigestOneShot
  <2>2. FillAt(E, "sponge", s, d)
    BY <1>7
  <2>3. SpongeDigest(s) = Units(Filled(Append(d, <<"80">>))) /\ SpongeDigest(s) \in Seq(Seq(E))
    BY <2>2, SpongeIs
  <2> QED BY <2>1, <2>3
<1> QED BY <1>1, <1>2, <1>3, <1>4, <1>5, <1>6, <1>7 DEF Filling

-----------------------------------------------------------------------------
(* A full buffer is held until more comes: Esch and PHOTON-Beetle. *)

\* All the units of s but the last, which may be whole, and that.
LEMMA UnitsButOne ==
  ASSUME NEW S, NEW s \in Seq(S)
  PROVE  LET w == IF s = <<>> THEN 0 ELSE ((Len(s) - 1) \div UnitSize) * UnitSize
         IN /\ Units(Upto(s, w)) \in Seq(Seq(S)) /\ Rest(s, w) \in Seq(S) /\ Len(Rest(s, w)) <= UnitSize
            /\ CutInto(s, Units(Upto(s, w)), Rest(s, w)) /\ (Rest(s, w) = <<>> => s = <<>>)
<1>0. UnitSize \in Nat \ {0} /\ Len(s) \in Nat
  BY UnitsAreUnits
<1> DEFINE w0 == IF s = <<>> THEN 0 ELSE ((Len(s) - 1) \div UnitSize) * UnitSize
<1> SUFFICES /\ Units(Upto(s, w0)) \in Seq(Seq(S)) /\ Rest(s, w0) \in Seq(S) /\ Len(Rest(s, w0)) <= UnitSize
             /\ CutInto(s, Units(Upto(s, w0)), Rest(s, w0)) /\ (Rest(s, w0) = <<>> => s = <<>>)
  OBVIOUS
<1>1. CASE s = <<>>
  <2>0. w0 = 0
    BY <1>1
  <2> HIDE DEF w0
  <2>1. Upto(s, 0) = <<>> /\ Rest(s, 0) = <<>>
    BY <1>1 DEF Upto, Rest
  <2>2. Units(<<>>) = <<>>
    <3>1. CutInto(<<>>, <<>>, <<>>) /\ <<>> \in Seq(S) /\ <<>> \in Seq(Seq(S))
      BY CutNothing
    <3> QED BY <3>1, UnitsOfWhole
  <2>3. Len(Rest(s, w0)) <= UnitSize
    BY <2>0, <2>1, <1>0
  <2>4. Units(Upto(s, w0)) = <<>> /\ Rest(s, w0) = <<>>
    BY <2>0, <2>1, <2>2
  <2> QED BY <2>3, <2>4, <1>1, CutNothing
<1>2. CASE s # <<>>
  <2> DEFINE q == (Len(s) - 1) \div UnitSize
             r == (Len(s) - 1) % UnitSize
             w == q * UnitSize
             x == Upto(s, w)
             y == Rest(s, w)
             bl == [i \in 1 .. q |-> UnitOf(s, i)]
  <2>1. q \in Nat /\ r \in 0 .. UnitSize - 1 /\ Len(s) = w + r + 1 /\ w \in Nat
    <3>1. Len(s) - 1 \in Nat
      BY <1>0, <1>2
    <3>2. q \in Nat /\ r \in 0 .. UnitSize - 1 /\ Len(s) - 1 = q * UnitSize + r
      BY <3>1, <1>0, DivMod
    <3> HIDE DEF q, r
    <3>3. w \in Nat
      BY <3>2, <1>0, Products
    <3> HIDE DEF w
    <3>4. Len(s) - 1 = w + r
      BY <3>2 DEF w
    <3> QED BY <3>2, <3>3, <3>4, <1>0
  <2> HIDE DEF q, r
  <2>2. /\ x \in Seq(S) /\ Len(x) = w /\ y \in Seq(S) /\ Len(y) = r + 1
        /\ y = SubSeq(s, w + 1, Len(s)) /\ x = SubSeq(s, 1, w)
    <3> HIDE DEF w
    <3>1. w \in Nat /\ w <= Len(s) /\ Len(s) - w = r + 1
      BY <2>1, <1>0
    <3>2. SubSeq(s, 1, w) \in Seq(S) /\ Len(SubSeq(s, 1, w)) = w
          /\ SubSeq(s, w + 1, Len(s)) \in Seq(S) /\ Len(SubSeq(s, w + 1, Len(s))) = Len(s) - w
      BY <3>1, Splits
    <3> QED BY <3>1, <3>2 DEF Upto, Rest
  <2>3. ASSUME NEW i \in 1 .. q
        PROVE  UnitOf(s, i) \in Seq(S) /\ UnitOf(x, i) = UnitOf(s, i)
    <3> DEFINE a == (i - 1) * UnitSize
               b == i * UnitSize
    <3>1. a \in Nat /\ b = a + UnitSize /\ b <= w
      BY UnitPlace, <2>1
    <3>2. UnitOf(s, i) = SubSeq(s, a + 1, b) /\ UnitOf(x, i) = SubSeq(x, a + 1, b)
      BY DEF UnitOf
    <3> HIDE DEF a, b, w, x
    <3>3. a + 1 \in Int /\ b \in Int /\ 1 <= a + 1 /\ a + 1 <= b + 1 /\ b <= w /\ b <= Len(s)
      BY <3>1, <2>1, <1>0
    <3>4. SubSeq(s, a + 1, b) \in Seq(S)
      BY <3>3, Slices
    <3>5. SubSeq(SubSeq(s, 1, w), a + 1, b) = SubSeq(s, a + 1, b)
      BY <3>3, <2>1
    <3> QED BY <3>2, <3>4, <3>5, <2>2
  <2>4. bl \in Seq(Seq(S)) /\ Len(bl) = q
    BY <2>1, <2>3
  <2>5. CutInto(x, bl, <<>>)
    <3>1. \A i \in 1 .. q : bl[i] = UnitOf(x, i)
      BY <2>3
    <3>2. Len(x) = Len(bl) * UnitSize + Len(<<>>)
      BY <2>1, <2>2, <2>4
    <3>3. <<>> = SubSeq(x, w + 1, Len(x))
      BY <2>1, <2>2
    <3> QED BY <3>1, <3>2, <3>3, <2>4 DEF CutInto
  <2>6. Units(x) = bl
    BY <2>2, <2>4, <2>5, UnitsOfWhole
  <2>7. CutInto(s, bl, y)
    <3>1. Len(s) = w + (r + 1)
      <4> HIDE DEF w
      <4> QED BY <2>1
    <3> QED BY <3>1, <2>1, <2>2, <2>4 DEF CutInto
  <2> HIDE DEF bl, x, y
  <2>8. Units(x) \in Seq(Seq(S)) /\ y \in Seq(S) /\ Len(y) <= UnitSize /\ CutInto(s, Units(x), y) /\ y # <<>>
    <3>1. Len(y) <= UnitSize /\ Len(y) # 0
      <4>1. Len(y) = r + 1 /\ r \in 0 .. UnitSize - 1
        BY <2>1, <2>2
      <4> QED BY <4>1, <1>0
    <3>2. y # <<>>
      BY <3>1
    <3> QED BY <3>1, <3>2, <2>2, <2>4, <2>6, <2>7
  <2>9. w0 = w
    BY <1>2 DEF q
  <2> HIDE DEF w0, w
  <2> QED BY <2>8, <2>9, <1>2 DEF x, y
<1> QED BY <1>1, <1>2

\* What is held until more comes: all blocks but the last, whole or not.
HoldAt(E, s, d) ==
  /\ s \in [buffer : Seq(E), buffered : 0 .. UnitSize, length : {0}, counter : {0}, blocks : Seq(Seq(E))]
  /\ Buffer(E, s.buffer) /\ CutInto(d, s.blocks, Upto(s.buffer, s.buffered))
  /\ s.buffered = 0 => d = <<>>

\* An empty buffer holds an empty message.
LEMMA HoldBegins == ASSUME NEW E, <<"0">> \in E  PROVE HoldAt(E, FillStart, <<>>)
<1> DEFINE b == Blank
<1>1. UnitSize \in Nat \ {0} /\ <<>> \in Seq(Seq(E))
  BY UnitsAreUnits
<1>2. b \in Seq(E) /\ Len(b) = UnitSize
  BY <1>1 DEF Blank
<1>3. FillStart = [buffer |-> b, buffered |-> 0, length |-> 0, counter |-> 0, blocks |-> <<>>]
  BY DEF FillStart
<1> HIDE DEF b
<1>4. Upto(b, 0) = <<>>
  BY <1>2 DEF Upto
<1> QED BY <1>1, <1>2, <1>3, <1>4, CutNothing DEF HoldAt, Buffer

\* update, for a hash that holds its last block until more comes.
LEMMA HoldGoesOn ==
  ASSUME NEW E, NEW d \in Seq(E), NEW chunk \in Seq(E), NEW s, HoldAt(E, s, d)
  PROVE  HoldAt(E, HoldUpdate(s, chunk), d \o chunk)
<1> DEFINE k      == s.buffered
           b      == s.buffer
           bl     == s.blocks
           t      == Upto(b, k)
           take   == IF k = 0 THEN 0 ELSE Least(UnitSize - k, Len(chunk))
           up     == Upto(chunk, take)
           merged == Written(b, k, up)
           body   == Rest(chunk, take)
           stays  == k > 0 /\ (k + take < UnitSize \/ body = <<>>)
           whole  == IF body = <<>> THEN 0 ELSE ((Len(body) - 1) \div UnitSize) * UnitSize
           over   == Rest(body, whole)
           units  == Units(Upto(body, whole))
           full   == IF k > 0 THEN <<merged>> ELSE <<>>
           tail   == t \o up
           blocks == bl \o full \o units
           buffer == Written(merged, 0, over)
<1>1. HoldUpdate(s, chunk) =
        IF stays THEN [s EXCEPT !.buffer = merged, !.buffered = @ + take]
        ELSE [s EXCEPT !.buffer = buffer, !.buffered = Len(over), !.blocks = blocks]
  BY DEF HoldUpdate
<1>2. /\ k \in 0 .. UnitSize /\ b \in Seq(E) /\ Len(b) = UnitSize /\ bl \in Seq(Seq(E)) /\ CutInto(d, bl, t)
      /\ UnitSize \in Nat \ {0} /\ Len(chunk) \in Nat /\ Len(d) \in Nat /\ (k = 0 => d = <<>>)
      /\ s = [buffer |-> b, buffered |-> k, length |-> 0, counter |-> 0, blocks |-> bl]
  BY UnitsAreUnits DEF HoldAt, Buffer
<1> HIDE DEF k, b, bl
<1>3. t \in Seq(E) /\ Len(t) = k
  BY <1>2 DEF Upto
<1>5. take \in Nat /\ take <= Len(chunk) /\ k + take <= UnitSize
  BY <1>2 DEF Least
<1>6. up \in Seq(E) /\ body \in Seq(E) /\ chunk = up \o body /\ Len(up) = take /\ Len(body) = Len(chunk) - take
  <2> HIDE DEF take
  <2>1. up = SubSeq(chunk, 1, take) /\ body = SubSeq(chunk, take + 1, Len(chunk))
    BY DEF Upto, Rest
  <2> HIDE DEF up, body
  <2> QED BY <2>1, <1>5, Splits
<1>7. tail \in Seq(E) /\ Len(tail) = k + take
  <2>1. tail = t \o up
    OBVIOUS
  <2> HIDE DEF take, up, t, tail
  <2> QED BY <2>1, <1>3, <1>6, Joins
<1>8. /\ units \in Seq(Seq(E)) /\ over \in Seq(E) /\ Len(over) <= UnitSize /\ CutInto(body, units, over)
      /\ over = <<>> => body = <<>>
  <2> HIDE DEF body
  <2> QED BY <1>6, UnitsButOne
<1>9. CutInto(d \o up, bl, tail)
  <2> HIDE DEF up, t
  <2>1. Len(bl) \in Nat
    BY <1>2
  <2> QED BY <2>1, <1>2, <1>6, CutLonger
<1>10. d \o chunk = (d \o up) \o body /\ d \o up \in Seq(E) /\ Len(d \o chunk) = Len(d) + Len(chunk)
  <2> HIDE DEF up, body
  <2>1. Len(d \o chunk) = Len(d) + Len(chunk) /\ d \o up \in Seq(E)
    BY <1>6, Joins
  <2>2. d \o (up \o body) = (d \o up) \o body
    BY <1>6
  <2> QED BY <2>1, <2>2, <1>6
<1>11. Buffer(E, merged) /\ Upto(merged, k + take) = tail
  <2> HIDE DEF up, take
  <2>1. Buffer(E, b) /\ k \in Nat /\ k + Len(up) <= UnitSize /\ k + Len(up) = k + take
    BY <1>2, <1>5, <1>6 DEF Buffer
  <2> QED BY <2>1, <1>6, WrittenIs
<1>12. Buffer(E, buffer) /\ Upto(buffer, Len(over)) = over
  <2> HIDE DEF over, merged
  <2> DEFINE n == Len(over)
  <2>1. 0 \in Nat /\ 0 + Len(over) <= UnitSize /\ 0 + Len(over) = Len(over) /\ over \in Seq(E)
    BY <1>2, <1>8
  <2>2. Buffer(E, buffer) /\ Upto(buffer, 0 + Len(over)) = Upto(merged, 0) \o over
    BY <2>1, <1>11, WrittenIs
  <2>3. Upto(merged, 0) = <<>>
    BY <1>11 DEF Upto, Buffer
  <2>4. <<>> \o over = over
    BY <2>1
  <2> QED BY <2>1, <2>2, <2>3, <2>4
<1> DEFINE Stays(now) == HoldAt(E, now, d \o chunk)
<1>13. ASSUME stays  PROVE Stays([buffer |-> merged, buffered |-> k + take, length |-> 0, counter |-> 0, blocks |-> bl])
  <2>1. k + take \in 0 .. UnitSize /\ k + take # 0
    <3> HIDE DEF take, body
    <3> QED BY <1>2, <1>5, <1>13
  <2>2. body = <<>>
    <3>1. k + take < UnitSize => take = Len(chunk)
      BY <1>2, <1>13 DEF Least
    <3> HIDE DEF up, body, take
    <3>2. take = Len(chunk) => body = <<>>
      BY <1>2, <1>6
    <3> QED BY <3>1, <3>2, <1>13
  <2> HIDE DEF take, merged, tail
  <2>3. d \o up = d \o chunk
    <3> HIDE DEF up, body
    <3> QED BY <2>2, <1>6, <1>10
  <2>4. CutInto(d \o chunk, bl, Upto(merged, k + take)) /\ merged \in Seq(E)
    BY <2>3, <1>2, <1>9, <1>11 DEF Buffer
  <2> QED BY <2>1, <2>4, <1>2, <1>11 DEF HoldAt
<1>14. ASSUME blocks \in Seq(Seq(E)), CutInto((d \o up) \o body, blocks, over), over = <<>> => d \o chunk = <<>>
       PROVE  Stays([buffer |-> buffer, buffered |-> Len(over), length |-> 0, counter |-> 0, blocks |-> blocks])
  <2> HIDE DEF over, buffer, blocks, up, body
  <2>1. Len(over) \in 0 .. UnitSize /\ buffer \in Seq(E) /\ (Len(over) = 0 => over = <<>>)
    BY <1>2, <1>8, <1>12 DEF Buffer
  <2> QED BY <2>1, <1>10, <1>12, <1>14 DEF HoldAt
<1>15. ASSUME ~stays, k > 0
       PROVE  /\ blocks \in Seq(Seq(E)) /\ CutInto((d \o up) \o body, blocks, over)
              /\ over = <<>> => d \o chunk = <<>>
  <2>1. k + take = UnitSize /\ body # <<>>
    <3> HIDE DEF take, body
    <3>1. ~(k + take < UnitSize) /\ body # <<>>
      BY <1>15
    <3> QED BY <3>1, <1>2, <1>5
  <2>2. merged = tail /\ Len(tail) = UnitSize
    <3> HIDE DEF merged, tail, take
    <3>1. Upto(merged, UnitSize) = merged
      BY <1>11 DEF Upto, Buffer
    <3> QED BY <2>1, <3>1, <1>7, <1>11
  <2> HIDE DEF merged, tail, take
  <2>3. blocks = Append(bl, tail) \o units /\ Append(bl, tail) \in Seq(Seq(E))
    <3>1. full = <<tail>>
      BY <2>2, <1>15
    <3> HIDE DEF full, units
    <3>2. bl \o <<tail>> = Append(bl, tail)
      BY <1>2, TwoMore
    <3>3. Append(bl, tail) \in Seq(Seq(E))
      BY <1>2, <1>7
    <3> QED BY <3>1, <3>2, <3>3
  <2> HIDE DEF up, body, units, over, blocks
  <2>4. CutInto(d \o up, Append(bl, tail), <<>>)
    BY <2>2, <1>2, <1>7, <1>9, <1>10, CutFull
  <2>5. CutInto((d \o up) \o body, blocks, over)
    BY <2>3, <2>4, <1>6, <1>8, <1>10, CutJoins
  <2> QED BY <2>1, <2>3, <2>5, <1>8
<1>16. ASSUME ~stays, k = 0
       PROVE  /\ blocks \in Seq(Seq(E)) /\ CutInto((d \o up) \o body, blocks, over)
              /\ over = <<>> => d \o chunk = <<>>
  <2>1. take = 0
    BY <1>16
  <2> HIDE DEF take
  <2>2. full = <<>> /\ t = <<>> /\ tail = <<>> /\ d \o up = d /\ d = <<>> /\ up = <<>>
    <3>1. full = <<>>
      BY <1>16
    <3> HIDE DEF up, t, tail, full
    <3>2. up = <<>> /\ t = <<>> /\ tail = <<>>
      BY <2>1, <1>16, <1>3, <1>6, <1>7
    <3> QED BY <3>1, <3>2, <1>2, <1>16
  <2> HIDE DEF up, body, units, over, full, tail, t
  <2>3. blocks = bl \o units
    BY <2>2, <1>2, <1>8
  <2> HIDE DEF blocks
  <2>4. CutInto(d, bl, <<>>)
    BY <2>2, <1>2
  <2>5. CutInto(d \o body, blocks, over)
    BY <2>3, <2>4, <1>2, <1>6, <1>8, CutJoins
  <2>6. over = <<>> => d \o chunk = <<>>
    BY <2>2, <1>6, <1>8
  <2> QED BY <2>2, <2>3, <2>5, <2>6, <1>2, <1>8
<1> HIDE DEF up, body, over, buffer, blocks, merged, take
<1>17. CASE stays
  <2> DEFINE s1 == [s EXCEPT !.buffer = merged]
  <2>1. HoldUpdate(s, chunk) = [s1 EXCEPT !.buffered = k + take]
    BY <1>1, <1>17 DEF k
  <2>2. s1 = [buffer |-> merged, buffered |-> k, length |-> 0, counter |-> 0, blocks |-> bl]
    BY <1>2
  <2> HIDE DEF s1
  <2>3. HoldUpdate(s, chunk) = [buffer |-> merged, buffered |-> k + take, length |-> 0, counter |-> 0, blocks |-> bl]
    BY <2>1, <2>2
  <2> QED BY <2>3, <1>13, <1>17
<1>18. CASE ~stays
  <2> DEFINE s1 == [s EXCEPT !.buffer = buffer]
             s2 == [s1 EXCEPT !.buffered = Len(over)]
  <2>1. HoldUpdate(s, chunk) = [s2 EXCEPT !.blocks = blocks]
    BY <1>1, <1>18
  <2>2. s1 = [buffer |-> buffer, buffered |-> k, length |-> 0, counter |-> 0, blocks |-> bl]
    BY <1>2
  <2> HIDE DEF s1
  <2>3. s2 = [buffer |-> buffer, buffered |-> Len(over), length |-> 0, counter |-> 0, blocks |-> bl]
    BY <2>2
  <2> HIDE DEF s2
  <2>4. HoldUpdate(s, chunk) = [buffer |-> buffer, buffered |-> Len(over), length |-> 0, counter |-> 0, blocks |-> blocks]
    BY <2>1, <2>3
  <2>5. k > 0 \/ k = 0
    BY <1>2
  <2> QED BY <2>4, <2>5, <1>14, <1>15, <1>16, <1>18
<1> QED BY <1>17, <1>18

\* The blocks of what is held, the last of them the rest.
LEMMA BlocksOfHeld ==
  ASSUME NEW E, NEW d \in Seq(E), NEW bl \in Seq(Seq(E)), NEW t \in Seq(E), CutInto(d, bl, t),
         Len(t) <= UnitSize, t = <<>> => d = <<>>
  PROVE  Blocks(d) = Append(bl, t) /\ (t # <<>> => Units(d) = Append(bl, t)) /\ (t = <<>> => bl = <<>>)
<1> DEFINE q == Len(bl)
           r == Len(t)
<1>1. q \in Nat /\ r \in 0 .. UnitSize /\ UnitSize \in Nat \ {0} /\ Len(d) = q * UnitSize + r /\ q * UnitSize \in Nat
  <2>1. UnitSize \in Nat \ {0} /\ q \in Nat
    BY UnitsAreUnits
  <2> QED BY <2>1, Products DEF CutInto
<1>2. CASE t = <<>>
  <2>1. d = <<>> /\ Len(d) = 0 /\ r = 0
    BY <1>2
  <2>2. q = 0
    <3> HIDE DEF q, r
    <3>1. q * UnitSize = 0
      BY <2>1, <1>1
    <3>2. q > 0 => 0 * UnitSize + UnitSize <= q * UnitSize
      BY <1>1, ProductsGrow
    <3>3. 0 * UnitSize = 0
      BY <1>1
    <3> QED BY <3>1, <3>2, <3>3, <1>1
  <2>3. bl = <<>>
    BY <2>2
  <2>4. Append(bl, t) = <<<<>>>>
    BY <2>3, <1>2
  <2> QED BY <2>1, <2>3, <2>4, <1>2 DEF Blocks
<1>3. CASE r = UnitSize
  <2>1. t # <<>> /\ d # <<>>
    <3>1. r # 0 /\ Len(d) # 0
      <4> HIDE DEF q, r
      <4> QED BY <1>1, <1>3
    <3> QED BY <3>1
  <2>2. CutInto(d, Append(bl, t), <<>>)
    BY <1>3, CutFull
  <2> DEFINE cl == Append(bl, t)
  <2>3. cl \in Seq(Seq(E)) /\ CutInto(d, cl, <<>>)
    BY <2>2
  <2> HIDE DEF cl
  <2>4. Units(d) = cl
    BY <2>3, UnitsOfWhole
  <2> QED BY <2>1, <2>4 DEF Blocks, cl
<1>4. CASE r # 0 /\ r # UnitSize
  <2>1. t # <<>> /\ d # <<>> /\ r \in 0 .. UnitSize - 1 /\ r > 0
    <3>1. r # 0 /\ Len(d) # 0 /\ r \in 0 .. UnitSize - 1 /\ r > 0
      <4> DEFINE m == q * UnitSize
      <4>1. Len(d) = m + r /\ m \in Nat /\ r \in 0 .. UnitSize /\ UnitSize \in Nat
        BY <1>1
      <4> HIDE DEF q, r, m
      <4> QED BY <4>1, <1>4
    <3>2. t # <<>> /\ d # <<>>
      BY <3>1
    <3> QED BY <3>1, <3>2
  <2> DEFINE cl == Append(bl, t)
  <2>2. DOMAIN cl = 1 .. q + 1 /\ cl[q + 1] = t /\ (\A i \in 1 .. q : cl[i] = bl[i]) /\ cl = [i \in 1 .. q + 1 |-> cl[i]]
    <3>1. cl \in Seq(Seq(E)) /\ Len(cl) = q + 1 /\ cl[q + 1] = t /\ \A i \in 1 .. q : cl[i] = bl[i]
      OBVIOUS
    <3> HIDE DEF cl, q
    <3> QED BY <3>1, <1>1
  <2>3. t = SubSeq(d, q * UnitSize + 1, Len(d)) /\ \A i \in 1 .. q : bl[i] = UnitOf(d, i)
    BY DEF CutInto
  <2> HIDE DEF cl, q, r
  <2> DEFINE u == Units(d)
  <2>4. DOMAIN u = 1 .. q + 1 /\ (\A i \in 1 .. q : u[i] = UnitOf(d, i)) /\ u[q + 1] = SubSeq(d, q * UnitSize + 1, Len(d))
    <3>1. d \in Seq(E) /\ q \in Nat /\ r \in 0 .. UnitSize - 1 /\ Len(d) = q * UnitSize + r
      BY <2>1, <1>1
    <3>2. /\ DOMAIN Units(d) = 1 .. (IF r = 0 THEN q ELSE q + 1)
          /\ \A i \in 1 .. q : Units(d)[i] = UnitOf(d, i)
          /\ r > 0 => Units(d)[q + 1] = SubSeq(d, q * UnitSize + 1, Len(d))
      BY ONLY <3>1, UnitsAre
    <3> QED BY <3>2, <2>1
  <2>5. u = [i \in DOMAIN u |-> u[i]]
    BY DEF Units
  <2> HIDE DEF u
  <2>6. \A i \in 1 .. q + 1 : u[i] = cl[i]
    <3> SUFFICES ASSUME NEW i \in 1 .. q + 1  PROVE u[i] = cl[i]
      OBVIOUS
    <3>1. i \in 1 .. q \/ i = q + 1
      BY <1>1
    <3> QED BY <3>1, <2>2, <2>3, <2>4
  <2>7. u = cl
    BY <2>2, <2>4, <2>5, <2>6
  <2> QED BY <2>1, <2>7 DEF Blocks, u, cl
<1>5. t = <<>> \/ r = UnitSize \/ (r # 0 /\ r # UnitSize)
  OBVIOUS
<1> QED BY <1>2, <1>3, <1>4, <1>5

\* A sequence in which the last is changed.
LEMMA LastMade ==
  ASSUME NEW S, NEW bl \in Seq(S), NEW x, NEW y
  PROVE  LET u == Append(bl, x)
         IN /\ [i \in DOMAIN u |-> IF i = Len(u) THEN y ELSE u[i]] = Append(bl, y)
            /\ Append(bl, y) \in Seq(S \cup {y})
<1> DEFINE u == Append(bl, x)
           v == Append(bl, y)
           q == Len(bl)
<1>1. q \in Nat /\ DOMAIN u = 1 .. q + 1 /\ Len(u) = q + 1 /\ \A i \in 1 .. q : u[i] = bl[i]
  <2> DEFINE T == S \cup {x}
  <2>1. bl \in Seq(T) /\ x \in T
    OBVIOUS
  <2> HIDE DEF T
  <2> QED BY <2>1
<1> DEFINE T == S \cup {y}
<1>2. v \in Seq(T) /\ DOMAIN v = 1 .. q + 1 /\ v[q + 1] = y /\ (\A i \in 1 .. q : v[i] = bl[i])
      /\ v = [i \in 1 .. q + 1 |-> v[i]]
  <2>1. bl \in Seq(T) /\ y \in T
    OBVIOUS
  <2> HIDE DEF T
  <2>2. v \in Seq(T) /\ Len(v) = q + 1 /\ v[q + 1] = y /\ \A i \in 1 .. q : v[i] = bl[i]
    BY <2>1
  <2> HIDE DEF v, q
  <2> QED BY <2>2
<1> HIDE DEF u, v, q
<1>3. \A i \in 1 .. q + 1 : (IF i = Len(u) THEN y ELSE u[i]) = v[i]
  <2> SUFFICES ASSUME NEW i \in 1 .. q + 1  PROVE (IF i = Len(u) THEN y ELSE u[i]) = v[i]
    OBVIOUS
  <2>1. (i \in 1 .. q /\ i # q + 1) \/ i = q + 1
    BY <1>1
  <2> QED BY <2>1, <1>1, <1>2
<1>4. [i \in DOMAIN u |-> IF i = Len(u) THEN y ELSE u[i]] = v
  BY <1>1, <1>2, <1>3
<1> QED BY <1>2, <1>4 DEF u, v

\* Esch.digest: the last block, marked by whether it was whole.
LEMMA EschCloses ==
  ASSUME NEW E, NEW d \in Seq(E), NEW s, HoldAt(E, s, d)
  PROVE  EschDigest(s) = EschOf(d) /\ \E T : EschDigest(s) \in Seq(T)
<1> DEFINE t == Upto(s.buffer, s.buffered)
           bl == s.blocks
           y == LastBlock(t)
           u == Append(bl, t)
<1>1. bl \in Seq(Seq(E)) /\ CutInto(d, bl, t) /\ t \in Seq(E) /\ Len(t) <= UnitSize /\ (t = <<>> => d = <<>>)
  <2>1. /\ bl \in Seq(Seq(E)) /\ s.buffered \in 0 .. UnitSize /\ s.buffer \in Seq(E) /\ Len(s.buffer) = UnitSize
        /\ CutInto(d, bl, t) /\ UnitSize \in Nat /\ (s.buffered = 0 => d = <<>>)
    BY UnitsAreUnits DEF HoldAt, Buffer
  <2>2. t \in Seq(E) /\ Len(t) = s.buffered
    BY <2>1 DEF Upto
  <2> HIDE DEF t
  <2> QED BY <2>1, <2>2
<1>2. EschDigest(s) = Append(bl, y)
  BY DEF EschDigest
<1> HIDE DEF t, bl
<1>3. Blocks(d) = u
  BY <1>1, BlocksOfHeld
<1>4. EschOf(d) = [i \in DOMAIN u |-> IF i = Len(u) THEN LastBlock(u[i]) ELSE u[i]]
  <2> HIDE DEF u
  <2> QED BY <1>3 DEF EschOf
<1>5. u[Len(u)] = t /\ Len(u) \in DOMAIN u
  BY <1>1
<1>6. [i \in DOMAIN u |-> IF i = Len(u) THEN LastBlock(u[i]) ELSE u[i]] = [i \in DOMAIN u |-> IF i = Len(u) THEN y ELSE u[i]]
  <2> HIDE DEF u
  <2>1. \A i \in DOMAIN u : (IF i = Len(u) THEN LastBlock(u[i]) ELSE u[i]) = (IF i = Len(u) THEN y ELSE u[i])
    BY <1>5
  <2> QED BY <2>1
<1> HIDE DEF y
<1>7. [i \in DOMAIN u |-> IF i = Len(u) THEN y ELSE u[i]] = Append(bl, y) /\ Append(bl, y) \in Seq(Seq(E) \cup {y})
  <2>1. bl \in Seq(Seq(E))
    BY <1>1
  <2> DEFINE S == Seq(E)
  <2> HIDE DEF S
  <2>2. bl \in Seq(S)
    BY <2>1 DEF S
  <2>3. [i \in DOMAIN u |-> IF i = Len(u) THEN y ELSE u[i]] = Append(bl, y) /\ Append(bl, y) \in Seq(S \cup {y})
    BY ONLY <2>2, LastMade
  <2> QED BY <2>3 DEF S
<1> HIDE DEF u
<1>8. EschDigest(s) = EschOf(d)
  BY <1>2, <1>4, <1>6, <1>7
<1> QED BY <1>2, <1>7, <1>8

\* PHOTON-Beetle: the first bytes are the state, the others are held.
BeetleAt(E, s, d) ==
  LET n == Least(Prologue, Len(d))
  IN /\ s = [prologue |-> Upto(d, n), rest |-> s.rest]
     /\ HoldAt(E, s.rest, Rest(d, n))

\* PHOTON-Beetle before its first byte.
LEMMA BeetleBegins == ASSUME NEW E, <<"0">> \in E  PROVE BeetleAt(E, BeetleStart, <<>>)
<1>1. Least(Prologue, Len(<<>>)) = 0
  BY HashesFit DEF Least
<1>2. Upto(<<>>, 0) = <<>> /\ Rest(<<>>, 0) = <<>>
  BY DEF Upto, Rest
<1>3. BeetleStart = [prologue |-> <<>>, rest |-> FillStart]
  BY DEF BeetleStart
<1> QED BY <1>1, <1>2, <1>3, HoldBegins DEF BeetleAt

\* The first n of two sequences joined, and the others.
LEMMA Beyond ==
  ASSUME NEW E, NEW d \in Seq(E), NEW x \in Seq(E), NEW n \in Nat
  PROVE  /\ n <= Len(d) => Upto(d \o x, n) = Upto(d, n) /\ Rest(d \o x, n) = Rest(d, n) \o x
         /\ n <= Len(x) => Upto(d \o x, Len(d) + n) = d \o Upto(x, n) /\ Rest(d \o x, Len(d) + n) = Rest(x, n)
         /\ Upto(d, Len(d)) = d /\ Rest(d, Len(d)) = <<>> /\ Rest(d, 0) = d /\ Upto(d, 0) = <<>>
         /\ d \o <<>> = d /\ Len(d \o x) = Len(d) + Len(x) /\ d \o x \in Seq(E)
<1>1. Len(d) \in Nat /\ Len(x) \in Nat /\ Len(d \o x) = Len(d) + Len(x) /\ d \o x \in Seq(E)
  BY Joins
<1>2. ASSUME n <= Len(d)  PROVE Upto(d \o x, n) = Upto(d, n) /\ Rest(d \o x, n) = Rest(d, n) \o x
  <2>1. SubSeq(d \o x, 1, n) = SubSeq(d, 1, n)
    BY <1>1, <1>2, LeftSlice
  <2>2. SubSeq(d \o x, n + 1, Len(d) + Len(x)) = SubSeq(d, n + 1, Len(d)) \o x
    <3> DEFINE a == n + 1
    <3>1. a \in Int /\ 1 <= a /\ a <= Len(d) + 1
      BY <1>1, <1>2
    <3> HIDE DEF a
    <3>2. SubSeq(d \o x, a, Len(d) + Len(x)) = SubSeq(d, a, Len(d)) \o x
      BY <3>1, CrossSlice
    <3> QED BY <3>2 DEF a
  <2> QED BY <2>1, <2>2, <1>1 DEF Upto, Rest
<1>3. ASSUME n <= Len(x)  PROVE Upto(d \o x, Len(d) + n) = d \o Upto(x, n) /\ Rest(d \o x, Len(d) + n) = Rest(x, n)
  <2> DEFINE u == SubSeq(x, 1, n)
             v == SubSeq(x, n + 1, Len(x))
             l == Len(d) + n
  <2>1. x = u \o v /\ u \in Seq(E) /\ Len(u) = n /\ v \in Seq(E) /\ Len(v) = Len(x) - n
    BY <1>3, Splits
  <2> HIDE DEF u, v
  <2> DEFINE y == d \o u
  <2>2. y \in Seq(E) /\ Len(y) = l /\ d \o x = y \o v
    <3>0. u \in Seq(E) /\ v \in Seq(E) /\ d \in Seq(E)
      BY <2>1
    <3>1. d \o (u \o v) = (d \o u) \o v /\ d \o u \in Seq(E)
      BY ONLY <3>0, Associates
    <3>2. Len(d \o u) = Len(d) + Len(u)
      BY <3>0
    <3> QED BY <3>1, <3>2, <2>1
  <2> HIDE DEF y
  <2>3. l \in Nat /\ Len(d \o x) = l + Len(v)
    BY <1>1, <1>3, <2>1
  <2> HIDE DEF l
  <2>4. SubSeq(y \o v, 1, l) = y /\ SubSeq(y \o v, l + 1, l + Len(v)) = v
    BY <2>1, <2>2, <2>3
  <2> QED BY <2>2, <2>3, <2>4 DEF Upto, Rest, u, v, y, l
<1>4. Upto(d, Len(d)) = d /\ Rest(d, Len(d)) = <<>> /\ Rest(d, 0) = d /\ Upto(d, 0) = <<>> /\ d \o <<>> = d
  BY <1>1 DEF Upto, Rest
<1> QED BY <1>1, <1>2, <1>3, <1>4

\* PHOTON-Beetle.update: the state first, then the rest.
LEMMA BeetleGoesOn ==
  ASSUME NEW E, NEW d \in Seq(E), NEW chunk \in Seq(E), NEW s, BeetleAt(E, s, d)
  PROVE  BeetleAt(E, BeetleUpdate(s, chunk), d \o chunk)
<1> DEFINE P == Prologue
           L == Len(d)
           C == Len(chunk)
           n == Least(P, L)
           m == Least(P, L + C)
           f == s.prologue
           r == s.rest
           take == IF Len(f) < P THEN Least(P - Len(f), C) ELSE 0
           up == Upto(chunk, take)
           over == Rest(chunk, take)
           x == d \o chunk
           nr == IF over = <<>> THEN r ELSE HoldUpdate(r, over)
<1>1. P \in Nat /\ L \in Nat /\ C \in Nat /\ n \in Nat /\ n <= L /\ m \in Nat
  BY HashesFit DEF Least
<1>2. f = Upto(d, n) /\ HoldAt(E, r, Rest(d, n))
  <2> HIDE DEF r
  <2>1. s = [prologue |-> Upto(d, n), rest |-> r] /\ HoldAt(E, r, Rest(d, n))
    BY DEF BeetleAt, r
  <2> QED BY <2>1
<1>3. Upto(d, n) \in Seq(E) /\ Len(Upto(d, n)) = n /\ Rest(d, n) \in Seq(E) /\ Len(Rest(d, n)) = L - n
  <2> HIDE DEF n, L
  <2>1. SubSeq(d, 1, n) \in Seq(E) /\ Len(SubSeq(d, 1, n)) = n
        /\ SubSeq(d, n + 1, Len(d)) \in Seq(E) /\ Len(SubSeq(d, n + 1, Len(d))) = Len(d) - n
    BY <1>1, Splits DEF L
  <2> QED BY <2>1 DEF Upto, Rest, L
<1>4. BeetleUpdate(s, chunk) = [prologue |-> f \o up, rest |-> nr]
  BY DEF BeetleUpdate
<1>5. x \in Seq(E) /\ Len(x) = L + C
  BY Joins
<1>6. take \in Nat /\ take <= C /\ (L < P => n = L /\ take = Least(P - L, C)) /\ (~(L < P) => n = P /\ take = 0)
  <2> HIDE DEF f
  <2>1. Len(f) = n
    BY <1>2, <1>3
  <2> QED BY <2>1, <1>1 DEF Least
<1>7. up \in Seq(E) /\ over \in Seq(E) /\ Len(over) = C - take
  <2> HIDE DEF take
  <2>1. SubSeq(chunk, 1, take) \in Seq(E) /\ SubSeq(chunk, take + 1, Len(chunk)) \in Seq(E)
        /\ Len(SubSeq(chunk, take + 1, Len(chunk))) = Len(chunk) - take
    BY <1>6, Splits
  <2> QED BY <2>1 DEF Upto, Rest
<1> HIDE DEF f, r, take
<1> SUFFICES f \o up = Upto(x, m) /\ HoldAt(E, nr, Rest(x, m))
  <2> HIDE DEF nr, up, n, over
  <2>1. m = Least(Prologue, Len(x))
    BY <1>5
  <2> HIDE DEF m, x
  <2>2. [prologue |-> f \o up, rest |-> nr].rest = nr
    OBVIOUS
  <2> QED BY <1>4, <2>1, <2>2 DEF BeetleAt, x
<1>8. CASE L < P
  <2>1. n = L /\ take = Least(P - L, C) /\ m = L + take
    BY <1>1, <1>6, <1>8 DEF Least
  <2>2. f = d /\ Rest(d, n) = <<>>
    BY <1>2, <2>1, Beyond
  <2>3. Upto(x, m) = d \o up /\ Rest(x, m) = over
    <3> HIDE DEF m, L
    <3>1. Upto(d \o chunk, Len(d) + take) = d \o Upto(chunk, take) /\ Rest(d \o chunk, Len(d) + take) = Rest(chunk, take)
      BY <1>6, Beyond
    <3> QED BY <3>1, <2>1 DEF L
  <2> HIDE DEF over, up, m, n, L, x
  <2>4. HoldAt(E, nr, over)
    <3>1. HoldAt(E, r, <<>>) /\ <<>> \in Seq(E)
      BY <1>2, <2>2
    <3>2. HoldAt(E, HoldUpdate(r, over), <<>> \o over)
      BY <3>1, <1>7, HoldGoesOn
    <3>3. <<>> \o over = over
      BY <1>7
    <3> QED BY <3>1, <3>2, <3>3
  <2> QED BY <2>2, <2>3, <2>4
<1>9. CASE ~(L < P)
  <2>1. n = P /\ take = 0 /\ m = P /\ P <= L
    BY <1>1, <1>6, <1>9 DEF Least
  <2>2. up = <<>> /\ over = chunk
    BY <2>1, Beyond
  <2>3. Upto(x, m) = Upto(d, n) /\ Rest(x, m) = Rest(d, n) \o chunk
    <3> HIDE DEF m, n, L
    <3>1. P <= Len(d) /\ P \in Nat
      BY <2>1, <1>1 DEF L
    <3>2. Upto(d \o chunk, P) = Upto(d, P) /\ Rest(d \o chunk, P) = Rest(d, P) \o chunk
      BY <3>1, Beyond
    <3> QED BY <3>2, <2>1
  <2> HIDE DEF over, up, m, n, L, x
  <2>4. HoldAt(E, nr, Rest(d, n) \o chunk)
    <3>1. HoldAt(E, HoldUpdate(r, chunk), Rest(d, n) \o chunk)
      BY <1>2, <1>3, HoldGoesOn
    <3>2. Rest(d, n) \o <<>> = Rest(d, n)
      BY <1>3
    <3> QED BY <3>1, <3>2, <2>2, <1>2
  <2>5. f \o <<>> = f
    BY <1>2, <1>3
  <2> QED BY <2>2, <2>3, <2>4, <2>5, <1>2
<1> QED BY <1>8, <1>9

\* PHOTON-Beetle.digest, of nothing, of a state and of more.
LEMMA BeetleCloses ==
  ASSUME NEW E, NEW d \in Seq(E), NEW s, BeetleAt(E, s, d)
  PROVE  BeetleDigest(s) = BeetleOf(d) /\ \E T : BeetleDigest(s) \in Seq(T)
<1> DEFINE P == Prologue
           L == Len(d)
           n == Least(P, L)
           f == s.prologue
           q == s.rest
           bl == q.blocks
           t == Upto(q.buffer, q.buffered)
           r == Rest(d, n)
<1>1. P \in Nat /\ L \in Nat /\ n \in Nat /\ n <= L /\ (L < P => n = L) /\ (~(L < P) => n = P) /\ UnitSize \in Nat \ {0}
  BY HashesFit, UnitsAreUnits DEF Least
<1>2. f = Upto(d, n) /\ HoldAt(E, q, r)
  <2> HIDE DEF q
  <2>1. s = [prologue |-> Upto(d, n), rest |-> q] /\ HoldAt(E, q, r)
    BY DEF BeetleAt, q
  <2> QED BY <2>1
<1>3. f \in Seq(E) /\ Len(f) = n /\ r \in Seq(E) /\ Len(r) = L - n
  <2> HIDE DEF n, L
  <2>1. SubSeq(d, 1, n) \in Seq(E) /\ Len(SubSeq(d, 1, n)) = n
        /\ SubSeq(d, n + 1, Len(d)) \in Seq(E) /\ Len(SubSeq(d, n + 1, Len(d))) = Len(d) - n
    BY <1>1, Splits DEF L
  <2> QED BY <2>1, <1>2 DEF Upto, Rest, L
<1>4. bl \in Seq(Seq(E)) /\ CutInto(r, bl, t) /\ t \in Seq(E) /\ Len(t) <= UnitSize /\ (t = <<>> => r = <<>>)
  <2>1. /\ bl \in Seq(Seq(E)) /\ q.buffered \in 0 .. UnitSize /\ q.buffer \in Seq(E) /\ Len(q.buffer) = UnitSize
        /\ CutInto(r, bl, t) /\ (q.buffered = 0 => r = <<>>)
    BY <1>2 DEF HoldAt, Buffer
  <2>2. t \in Seq(E) /\ Len(t) = q.buffered
    BY <2>1, <1>1 DEF Upto
  <2> HIDE DEF t, r
  <2> QED BY <2>1, <2>2
<1> DEFINE domain == IF Len(r) = 0 THEN 2 ELSE IF Len(r) % UnitSize = 0 THEN 1 ELSE 2
           head == <<"state", f, "whole">>
           foot == <<"domain", domain>>
           rest == IF t = <<>> THEN bl ELSE Append(bl, Pad(t))
           all == <<head>> \o rest \o <<foot>>
<1>5. CASE L < P
  <2>1. f = d
    BY <1>1, <1>2, <1>5, Beyond
  <2> DEFINE z == <<<<"state", d, IF d = <<>> THEN "whole" ELSE "padded">>, <<"domain", 1>>>>
  <2>2. BeetleOf(d) = z
    BY <1>5 DEF BeetleOf
  <2>3. BeetleDigest(s) = z
    <3>1. Len(s.prologue) < Prologue
      BY <1>5, <2>1
    <3> QED BY <3>1, <2>1 DEF BeetleDigest
  <2>4. \E T : z \in Seq(T)
    <3> DEFINE x == <<"state", d, IF d = <<>> THEN "whole" ELSE "padded">>
               y == <<"domain", 1>>
    <3> HIDE DEF x, y
    <3>1. <<x, y>> \in Seq({x, y})
      OBVIOUS
    <3> QED BY <3>1 DEF x, y
  <2> QED BY <2>2, <2>3, <2>4
<1>6. CASE ~(L < P)
  <2>1. n = P /\ Len(f) = P /\ f = Upto(d, P) /\ r = Rest(d, P) /\ Len(r) = L - P
    BY <1>1, <1>2, <1>3, <1>6
  <2> HIDE DEF n, r, f, t, bl, q
  <2>2. Len(bl) * UnitSize + Len(t) = Len(r)
    BY <1>4 DEF CutInto
  <2>3. t # <<>> => Units(r) = Append(bl, t)
    BY <1>3, <1>4, BlocksOfHeld
  <2>4. t = <<>> => bl = <<>> /\ r = <<>> /\ Units(r) = <<>>
    <3>0. r \in Seq(E) /\ bl \in Seq(Seq(E)) /\ t \in Seq(E) /\ CutInto(r, bl, t) /\ Len(t) <= UnitSize /\ (t = <<>> => r = <<>>)
      BY <1>3, <1>4
    <3>3. Blocks(r) = Append(bl, t) /\ (t # <<>> => Units(r) = Append(bl, t)) /\ (t = <<>> => bl = <<>>)
      BY ONLY <3>0, BlocksOfHeld
    <3>1. t = <<>> => bl = <<>> /\ r = <<>>
      BY <3>0, <3>3
    <3>2. Units(<<>>) = <<>>
      <4>1. <<>> \in Seq(E) /\ <<>> \in Seq(Seq(E))
        OBVIOUS
      <4> QED BY <4>1, CutNothing, UnitsOfWhole
    <3> QED BY <3>1, <3>2
  <2>5. [i \in DOMAIN Units(r) |-> Pad(Units(r)[i])] = rest /\ \E T : rest \in Seq(T)
    <3>1. CASE t = <<>>
      <4>1. Units(r) = <<>> /\ rest = <<>>
        BY <2>4, <3>1
      <4> DEFINE u == Units(r)
      <4> HIDE DEF rest, u
      <4>2. u = <<>>
        BY <4>1 DEF u
      <4>3. [i \in DOMAIN u |-> Pad(u[i])] = <<>> /\ <<>> \in Seq({})
        BY <4>2
      <4> QED BY <4>1, <4>3 DEF u
    <3>2. CASE t # <<>>
      <4> DEFINE y == Pad(t)
                 u == Append(bl, t)
                 S == Seq(E)
      <4>1. rest = Append(bl, y) /\ Units(r) = u
        BY <2>3, <3>2
      <4>2. ASSUME NEW i \in DOMAIN u  PROVE Pad(u[i]) = IF i = Len(u) THEN y ELSE u[i]
        <5>1. Len(u) = Len(bl) + 1 /\ Len(bl) \in Nat /\ DOMAIN u = 1 .. Len(bl) + 1 /\ u[Len(u)] = t
              /\ \A j \in 1 .. Len(bl) : u[j] = bl[j]
          BY <1>4
        <5> HIDE DEF u
        <5>2. CASE i = Len(u)
          BY <5>1, <5>2
        <5>3. CASE i # Len(u)
          <6>1. i \in 1 .. Len(bl)
            BY <5>1, <5>3
          <6>2. u[i] = UnitOf(r, i)
            BY <6>1, <5>1, <1>4 DEF CutInto
          <6>3. Len(UnitOf(r, i)) = UnitSize
            <7> DEFINE a == (i - 1) * UnitSize
                       b == i * UnitSize
                       m == Len(bl) * UnitSize
            <7>1. a \in Nat /\ b = a + UnitSize /\ b <= m /\ m \in Nat
              BY <6>1, <5>1, UnitPlace
            <7>2. UnitOf(r, i) = SubSeq(r, a + 1, b)
              BY DEF UnitOf
            <7>3. m + Len(t) = Len(r) /\ Len(t) \in Nat
              BY <2>2, <1>4
            <7> HIDE DEF a, b, m
            <7>4. b <= Len(r) /\ b \in Nat
              BY <7>1, <7>3, <1>1
            <7>6. a \in Nat /\ b \in Nat /\ a <= b /\ b <= Len(r) /\ r \in Seq(E)
              BY <7>1, <7>4, <1>1, <1>3
            <7>5. Len(SubSeq(r, a + 1, b)) = b - a
              BY ONLY <7>6
            <7> QED BY <7>1, <7>2, <7>5, <1>1
          <6> QED BY <6>2, <6>3, <5>3 DEF Pad
        <5> QED BY <5>2, <5>3
      <4> HIDE DEF y, u, S, rest
      <4>3. [i \in DOMAIN u |-> Pad(u[i])] = [i \in DOMAIN u |-> IF i = Len(u) THEN y ELSE u[i]]
        BY <4>2
      <4>4. [i \in DOMAIN u |-> IF i = Len(u) THEN y ELSE u[i]] = Append(bl, y) /\ Append(bl, y) \in Seq(S \cup {y})
        <5>1. bl \in Seq(S)
          BY <1>4 DEF S
        <5> QED BY ONLY <5>1, LastMade DEF u
      <4> QED BY <4>1, <4>3, <4>4
    <3> QED BY <3>1, <3>2
  <2> HIDE DEF rest
  <2>6. BeetleOf(d) = all
    <3>1. (IF L > P /\ (L - P) % UnitSize = 0 THEN 1 ELSE 2) = domain
      <4>1. Len(r) = L - P /\ (L > P <=> Len(r) # 0)
        BY <2>1, <1>1, <1>6
      <4> QED BY <4>1
    <3> HIDE DEF domain
    <3>2. BeetleOf(d) = <<<<"state", Upto(d, P), "whole">>>> \o [i \in DOMAIN Units(r) |-> Pad(Units(r)[i])]
                        \o <<<<"domain", domain>>>>
      BY <2>1, <3>1, <1>6 DEF BeetleOf
    <3> QED BY <3>2, <2>1, <2>5
  <2>7. BeetleDigest(s) = all
    <3> DEFINE dom == IF Len(bl) * UnitSize + Len(t) = 0 THEN (IF Len(f) = P THEN 2 ELSE 1)
                      ELSE IF (Len(bl) * UnitSize + Len(t)) % UnitSize = 0 THEN 1 ELSE 2
    <3>1. dom = domain
      BY <2>1, <2>2
    <3>2. ~(Len(f) < Prologue)
      BY <2>1, <1>1
    <3>3. BeetleDigest(s) = <<head>> \o bl \o (IF t = <<>> THEN <<>> ELSE <<Pad(t)>>) \o <<<<"domain", dom>>>>
      BY <3>2 DEF BeetleDigest, f, q, bl, t
    <3> HIDE DEF dom, head, domain
    <3>4. CASE t = <<>>
      <4>1. rest = <<>> /\ bl = <<>> /\ BeetleDigest(s) = <<head>> \o <<>> \o <<>> \o <<foot>>
        BY <2>4, <3>1, <3>3, <3>4 DEF rest
      <4>2. <<head>> \o <<>> = <<head>>
        OBVIOUS
      <4> QED BY <4>1, <4>2
    <3>5. CASE t # <<>>
      <4> DEFINE y == Pad(t)
                 S == Seq(E) \cup {head, y}
      <4>1. rest = Append(bl, y) /\ BeetleDigest(s) = <<head>> \o bl \o <<y>> \o <<foot>>
        BY <3>1, <3>3, <3>5 DEF rest
      <4>2. <<head>> \in Seq(S) /\ bl \in Seq(S) /\ <<y>> \in Seq(S)
        BY <1>4
      <4>3. bl \o <<y>> = Append(bl, y)
        BY <1>4, TwoMore
      <4> HIDE DEF y, S
      <4>4. <<head>> \o (bl \o <<y>>) = (<<head>> \o bl) \o <<y>>
        BY <4>2, Associates
      <4> QED BY <4>1, <4>3, <4>4
    <3> QED BY <3>4, <3>5
  <2>8. \E T : all \in Seq(T)
    <3>1. PICK T : rest \in Seq(T)
      BY <2>5
    <3> DEFINE S == T \cup {head, foot}
    <3>2. <<head>> \in Seq(S) /\ rest \in Seq(S) /\ <<foot>> \in Seq(S)
      BY <3>1
    <3> HIDE DEF head, foot, S
    <3>3. all \in Seq(S)
      BY <3>2
    <3> QED BY <3>3
  <2> QED BY <2>6, <2>7, <2>8
<1> QED BY <1>5, <1>6

-----------------------------------------------------------------------------
(* Skein. *)

\* Skein's blocks, told where they end and which of them is the first.
ToldOf(u, i) == <<u, i * UnitSize, i = 1, FALSE>>
Told(bl) == [i \in DOMAIN bl |-> ToldOf(bl[i], i)]

SkeinState(E) == [buffer : Seq(E), buffered : 0 .. UnitSize, position : Nat, first : BOOLEAN,
                  blocks : Seq(Seq(E) \X Nat \X BOOLEAN \X BOOLEAN)]

SkeinAs(E, s, d, bl) ==
  /\ s \in SkeinState(E) /\ Buffer(E, s.buffer) /\ CutInto(d, bl, Upto(s.buffer, s.buffered))
  /\ s.position = Len(bl) * UnitSize /\ s.first = (Len(bl) = 0) /\ s.blocks = Told(bl)

SkeinCut(E, s, d) == \E bl \in Seq(Seq(E)) : SkeinAs(E, s, d, bl)

\* Only before the first byte is the buffer empty.
SkeinAt(E, s, d) == SkeinCut(E, s, d) /\ (s.buffered = 0 => d = <<>>)

\* The told blocks are as many, and one more is told its place.
LEMMA ToldIs ==
  ASSUME NEW E, NEW bl \in Seq(Seq(E))
  PROVE  /\ Told(bl) \in Seq(Seq(E) \X Nat \X BOOLEAN \X BOOLEAN) /\ Len(Told(bl)) = Len(bl)
         /\ \A i \in 1 .. Len(bl) : Told(bl)[i] = ToldOf(bl[i], i)
<1> DEFINE q == Len(bl)
           N(i) == ToldOf(bl[i], i)
           Y == Seq(E) \X Nat \X BOOLEAN \X BOOLEAN
           X == Seq(E)
<1>1. q \in Nat /\ DOMAIN bl = 1 .. q /\ \A i \in 1 .. q : bl[i] \in X
  OBVIOUS
<1>2. Told(bl) = [i \in 1 .. q |-> N(i)]
  BY <1>1 DEF Told
<1>3. ASSUME NEW i \in 1 .. q  PROVE N(i) \in Y
  <2>1. i * UnitSize \in Nat
    BY <1>1, UnitPlace
  <2>2. bl[i] \in Seq(E) /\ (i = 1) \in BOOLEAN
    BY <1>1
  <2> QED BY <2>1, <2>2 DEF ToldOf
<1> DEFINE w == [i \in 1 .. q |-> N(i)]
<1> HIDE DEF Y, N, q
<1>4. w \in Seq(Y) /\ Len(w) = q /\ \A i \in 1 .. q : w[i] = N(i)
  BY <1>1, <1>3
<1> QED BY <1>2, <1>4 DEF Y, N, q

\* Skein before its first byte.
LEMMA SkeinBegins == ASSUME NEW E, <<"0">> \in E  PROVE SkeinAt(E, SkeinStart, <<>>)
<1> DEFINE b == Blank
<1>1. UnitSize \in Nat \ {0} /\ <<>> \in Seq(Seq(E)) /\ Len(<<>>) = 0 /\ Len(<<>>) * UnitSize = 0
  BY UnitsAreUnits
<1>2. b \in Seq(E) /\ Len(b) = UnitSize
  BY <1>1 DEF Blank
<1>3. SkeinStart = [buffer |-> b, buffered |-> 0, position |-> 0, first |-> TRUE, blocks |-> <<>>]
  BY DEF SkeinStart
<1> HIDE DEF b
<1>4. Upto(b, 0) = <<>>
  BY <1>2 DEF Upto
<1>5. Told(<<>>) = <<>> /\ <<>> \in Seq(Seq(E) \X Nat \X BOOLEAN \X BOOLEAN)
  <2>1. Len(Told(<<>>)) = 0 /\ Told(<<>>) \in Seq(Seq(E) \X Nat \X BOOLEAN \X BOOLEAN)
    BY <1>1, ToldIs
  <2> QED BY <2>1
<1>6. SkeinStart \in SkeinState(E)
  BY <1>1, <1>2, <1>3, <1>5 DEF SkeinState
<1>7. SkeinAs(E, SkeinStart, <<>>, <<>>)
  BY <1>1, <1>2, <1>3, <1>4, <1>5, <1>6, CutNothing DEF SkeinAs, Buffer
<1> QED BY <1>1, <1>7 DEF SkeinAt, SkeinCut

\* The fields of what a block is processed into.
LEMMA SkeinProcesses ==
  ASSUME NEW E, Marks \subseteq E, NEW d \in Seq(E), NEW s, NEW bl \in Seq(Seq(E)), SkeinAs(E, s, d, bl), NEW final \in BOOLEAN
  PROVE  ProcessBuffered(s, final) =
           [buffer |-> s.buffer, buffered |-> 0, position |-> Len(bl) * UnitSize + s.buffered, first |-> FALSE,
            blocks |-> Append(Told(bl), <<Zeroed(s.buffer, s.buffered), Len(bl) * UnitSize + s.buffered, Len(bl) = 0, final>>)]
<1> DEFINE p == s.position + s.buffered
           y == <<Zeroed(s.buffer, s.buffered), p, s.first, final>>
           b == s.buffer
           k == s.buffered
           o == s.position
           f == s.first
           bs == s.blocks
           s1 == [s EXCEPT !.buffered = 0]
           s2 == [s1 EXCEPT !.position = p]
           no == FALSE
           s3 == [s2 EXCEPT !.first = no]
<1>1. s = [buffer |-> b, buffered |-> k, position |-> o, first |-> f, blocks |-> bs]
  BY DEF SkeinAs, SkeinState
<1>2. ProcessBuffered(s, final) = [s3 EXCEPT !.blocks = Append(bs, y)]
  BY DEF ProcessBuffered
<1>3. o = Len(bl) * UnitSize /\ f = (Len(bl) = 0) /\ bs = Told(bl)
  BY DEF SkeinAs
<1> HIDE DEF b, k, o, f, bs, p, y, no
<1>4. s1 = [buffer |-> b, buffered |-> 0, position |-> o, first |-> f, blocks |-> bs]
  BY <1>1
<1> HIDE DEF s1
<1>5. s2 = [buffer |-> b, buffered |-> 0, position |-> p, first |-> f, blocks |-> bs]
  BY <1>4
<1> HIDE DEF s2
<1>6. s3 = [buffer |-> b, buffered |-> 0, position |-> p, first |-> no, blocks |-> bs]
  BY <1>5
<1> HIDE DEF s3
<1>7. ProcessBuffered(s, final) = [buffer |-> b, buffered |-> 0, position |-> p, first |-> no, blocks |-> Append(bs, y)]
  BY <1>2, <1>6
<1> QED BY <1>3, <1>7 DEF no, p, y, b, k, o, f, bs

\* A full buffer is processed.
LEMMA SkeinFlushes ==
  ASSUME NEW E, Marks \subseteq E, NEW d \in Seq(E), NEW s, SkeinCut(E, s, d), s.buffered = UnitSize
  PROVE  SkeinCut(E, ProcessBuffered(s, FALSE), d) /\ ProcessBuffered(s, FALSE).buffered = 0
<1>0. PICK bl \in Seq(Seq(E)) : SkeinAs(E, s, d, bl)
  BY DEF SkeinCut
<1> DEFINE b == s.buffer
           q == Len(bl)
           cl == Append(bl, b)
           r == ProcessBuffered(s, FALSE)
           y == <<Zeroed(b, UnitSize), q * UnitSize + UnitSize, q = 0, FALSE>>
           Y == Seq(E) \X Nat \X BOOLEAN \X BOOLEAN
<1>1. Buffer(E, b) /\ b \in Seq(E) /\ Len(b) = UnitSize /\ CutInto(d, bl, Upto(b, UnitSize)) /\ UnitSize \in Nat \ {0}
      /\ q \in Nat
  BY <1>0, UnitsAreUnits DEF SkeinAs, Buffer
<1>2. r = [buffer |-> b, buffered |-> 0, position |-> q * UnitSize + UnitSize, first |-> FALSE, blocks |-> Append(Told(bl), y)]
  <2>1. ProcessBuffered(s, FALSE) =
           [buffer |-> s.buffer, buffered |-> 0, position |-> Len(bl) * UnitSize + s.buffered, first |-> FALSE,
            blocks |-> Append(Told(bl), <<Zeroed(s.buffer, s.buffered), Len(bl) * UnitSize + s.buffered, Len(bl) = 0, FALSE>>)]
    BY <1>0, SkeinProcesses
  <2> QED BY <2>1
<1> HIDE DEF r
<1>3. Upto(b, UnitSize) = b /\ Zeroed(b, UnitSize) = b
  <2>1. Upto(b, UnitSize) = b
    BY <1>1 DEF Upto
  <2>2. b = [i \in 1 .. UnitSize |-> b[i]]
    BY <1>1
  <2> HIDE DEF b
  <2>3. \A i \in 1 .. UnitSize : ~(i > UnitSize)
    BY <1>1
  <2> QED BY <2>1, <2>2, <2>3 DEF Zeroed
<1> HIDE DEF b
<1>4. cl \in Seq(Seq(E)) /\ Len(cl) = q + 1 /\ CutInto(d, cl, <<>>) /\ cl[q + 1] = b /\ \A i \in 1 .. q : cl[i] = bl[i]
  <2>1. cl \in Seq(Seq(E)) /\ Len(cl) = q + 1 /\ cl[q + 1] = b /\ \A i \in 1 .. q : cl[i] = bl[i]
    BY <1>1
  <2>2. CutInto(d, bl, b) /\ b \in Seq(E)
    BY <1>1, <1>3
  <2> QED BY <2>1, <2>2, <1>1, CutFull
<1>5. (q + 1) * UnitSize = q * UnitSize + UnitSize /\ q * UnitSize + UnitSize \in Nat
  <2>1. (q + 1) * UnitSize = q * UnitSize + 1 * UnitSize /\ 1 * UnitSize = UnitSize /\ (q + 1) * UnitSize \in Nat
    BY <1>1, Distributes, Products
  <2> QED BY <2>1
<1>6. Append(Told(bl), y) = Told(cl) /\ Told(cl) \in Seq(Y)
  <2> DEFINE t == Told(bl)
             u == Told(cl)
             v == Append(t, y)
  <2> HIDE DEF cl
  <2>1. t \in Seq(Y) /\ Len(t) = q /\ \A i \in 1 .. q : t[i] = ToldOf(bl[i], i)
    BY ToldIs
  <2>2. u \in Seq(Y) /\ Len(u) = q + 1 /\ \A i \in 1 .. q + 1 : u[i] = ToldOf(cl[i], i)
    BY <1>4, ToldIs
  <2>3. y \in Y
    <3>1. y = <<b, q * UnitSize + UnitSize, q = 0, FALSE>>
      BY <1>3
    <3>2. (q = 0) \in BOOLEAN
      OBVIOUS
    <3> QED BY <3>1, <3>2, <1>1, <1>5
  <2>4. u[q + 1] = y
    <3>1. u[q + 1] = ToldOf(b, q + 1)
      <4>1. q + 1 \in 1 .. q + 1
        BY <1>1
      <4> QED BY <4>1, <2>2, <1>4
    <3>2. (q + 1 = 1) = (q = 0)
      BY <1>1
    <3>3. y = <<b, (q + 1) * UnitSize, q + 1 = 1, FALSE>>
      BY <3>2, <1>3, <1>5
    <3> QED BY <3>1, <3>3 DEF ToldOf
  <2>5. \A i \in 1 .. q : u[i] = t[i]
    <3> SUFFICES ASSUME NEW i \in 1 .. q  PROVE u[i] = t[i]
      OBVIOUS
    <3>1. i \in 1 .. q + 1
      BY <1>1
    <3>2. u[i] = ToldOf(cl[i], i) /\ cl[i] = bl[i]
      BY <3>1, <2>2, <1>4
    <3> QED BY <3>2, <2>1
  <2> HIDE DEF t, u, y, Y, q
  <2>6. v \in Seq(Y) /\ Len(v) = q + 1 /\ v[q + 1] = y /\ \A i \in 1 .. q : v[i] = t[i]
    BY <2>1, <2>3
  <2> HIDE DEF v
  <2>7. \A i \in 1 .. q + 1 : v[i] = u[i]
    <3> SUFFICES ASSUME NEW i \in 1 .. q + 1  PROVE v[i] = u[i]
      OBVIOUS
    <3>1. i \in 1 .. q \/ i = q + 1
      BY <1>1
    <3> QED BY <3>1, <2>4, <2>5, <2>6
  <2>8. v = u
    BY <2>2, <2>6, <2>7, <1>1
  <2> QED BY <2>2, <2>8 DEF v, u, t
<1> HIDE DEF y, Y
<1>7. r = [buffer |-> b, buffered |-> 0, position |-> (q + 1) * UnitSize, first |-> FALSE, blocks |-> Told(cl)]
  BY <1>2, <1>5, <1>6
<1>8. r \in SkeinState(E)
  BY <1>7, <1>1, <1>5, <1>6 DEF SkeinState, Y
<1>9. Upto(b, 0) = <<>>
  BY <1>1 DEF Upto
<1>10. FALSE = (q + 1 = 0)
  BY <1>1
<1>11. SkeinAs(E, r, d, cl)
  <2> HIDE DEF cl, q
  <2>1. r.buffer = b /\ r.buffered = 0 /\ r.position = (q + 1) * UnitSize /\ r.first = FALSE /\ r.blocks = Told(cl)
    BY <1>7
  <2> QED BY <2>1, <1>1, <1>4, <1>8, <1>9, <1>10 DEF SkeinAs
<1>12. r.buffered = 0
  BY <1>7
<1> HIDE DEF cl
<1>13. SkeinCut(E, r, d)
  BY <1>4, <1>11 DEF SkeinCut
<1> QED BY <1>12, <1>13 DEF r

\* Bytes go into a buffer with room for them.
SkeinPut(s, x) == [s EXCEPT !.buffer = Written(@, s.buffered, x), !.buffered = @ + Len(x)]

\* Bytes put in the buffer, where there is room.
LEMMA SkeinPuts ==
  ASSUME NEW E, NEW d \in Seq(E), NEW s, SkeinCut(E, s, d), NEW x \in Seq(E), s.buffered + Len(x) <= UnitSize
  PROVE  SkeinCut(E, SkeinPut(s, x), d \o x) /\ SkeinPut(s, x).buffered = s.buffered + Len(x)
<1>0. PICK bl \in Seq(Seq(E)) : SkeinAs(E, s, d, bl)
  BY DEF SkeinCut
<1> DEFINE b == s.buffer
           k == s.buffered
           o == s.position
           f == s.first
           bs == s.blocks
           m == k + Len(x)
           w == Written(b, k, x)
           t == Upto(b, k)
           s1 == [s EXCEPT !.buffer = w]
           r == SkeinPut(s, x)
<1>1. /\ k \in 0 .. UnitSize /\ Buffer(E, b) /\ CutInto(d, bl, t) /\ UnitSize \in Nat \ {0} /\ Len(x) \in Nat
      /\ s = [buffer |-> b, buffered |-> k, position |-> o, first |-> f, blocks |-> bs]
      /\ s \in SkeinState(E) /\ o \in Nat /\ f \in BOOLEAN /\ bs \in Seq(Seq(E) \X Nat \X BOOLEAN \X BOOLEAN)
      /\ o = Len(bl) * UnitSize /\ f = (Len(bl) = 0) /\ bs = Told(bl)
  BY <1>0, UnitsAreUnits DEF SkeinAs, SkeinState
<1>2. m \in 0 .. UnitSize /\ k \in Nat /\ k + Len(x) = m
  BY <1>1
<1>3. Buffer(E, w) /\ Upto(w, m) = t \o x /\ w \in Seq(E)
  <2> HIDE DEF b, k, m
  <2>1. Buffer(E, b) /\ k \in Nat /\ k + Len(x) <= UnitSize /\ k + Len(x) = m
    BY <1>1, <1>2
  <2>2. Buffer(E, w) /\ Upto(w, k + Len(x)) = Upto(b, k) \o x
    BY <2>1, WrittenIs
  <2> HIDE DEF w
  <2> QED BY <2>1, <2>2 DEF Buffer
<1>4. CutInto(d \o x, bl, t \o x)
  <2> HIDE DEF t
  <2>1. Len(bl) \in Nat
    BY <1>0
  <2> QED BY <2>1, <1>1, CutLonger
<1>5. r = [s1 EXCEPT !.buffered = m]
  BY DEF SkeinPut
<1>a. s = [buffer |-> b, buffered |-> k, position |-> o, first |-> f, blocks |-> bs]
  BY <1>1
<1> HIDE DEF r, b, k, o, f, bs, m, w, t
<1>6. s1 = [buffer |-> w, buffered |-> k, position |-> o, first |-> f, blocks |-> bs]
  BY <1>a
<1> HIDE DEF s1
<1>7. r = [buffer |-> w, buffered |-> m, position |-> o, first |-> f, blocks |-> bs]
  BY <1>5, <1>6
<1>8. r \in SkeinState(E)
  BY <1>7, <1>1, <1>2, <1>3 DEF SkeinState
<1>9. SkeinAs(E, r, d \o x, bl)
  <2>1. r.buffer = w /\ r.buffered = m /\ r.position = o /\ r.first = f /\ r.blocks = bs
    BY <1>7
  <2> QED BY <2>1, <1>1, <1>3, <1>4, <1>8 DEF SkeinAs
<1> QED BY <1>0, <1>2, <1>7, <1>9 DEF SkeinCut, r, k

\* One piece: a full buffer goes first.
SkeinTook(s, x) == SkeinPut(IF s.buffered = UnitSize THEN ProcessBuffered(s, FALSE) ELSE s, x)

\* A piece, after a full buffer was processed.
LEMMA SkeinTakes ==
  ASSUME NEW E, Marks \subseteq E, NEW d \in Seq(E), NEW s, SkeinAt(E, s, d), NEW x \in Seq(E), x # <<>>,
         Len(x) <= (IF s.buffered = UnitSize THEN UnitSize ELSE UnitSize - s.buffered)
  PROVE  /\ SkeinAt(E, SkeinTook(s, x), d \o x)
         /\ Len(x) = (IF s.buffered = UnitSize THEN UnitSize ELSE UnitSize - s.buffered)
              => SkeinTook(s, x).buffered = UnitSize
<1> DEFINE r == IF s.buffered = UnitSize THEN ProcessBuffered(s, FALSE) ELSE s
           z == SkeinPut(r, x)
           k == r.buffered
<1>1. SkeinCut(E, s, d) /\ s.buffered \in 0 .. UnitSize /\ UnitSize \in Nat \ {0} /\ Len(x) \in Nat \ {0}
  BY UnitsAreUnits DEF SkeinAt, SkeinCut, SkeinAs, SkeinState
<1>2. SkeinCut(E, r, d) /\ k \in 0 .. UnitSize
      /\ UnitSize - k = (IF s.buffered = UnitSize THEN UnitSize ELSE UnitSize - s.buffered)
  <2>1. CASE s.buffered = UnitSize
    <3>1. SkeinCut(E, ProcessBuffered(s, FALSE), d) /\ ProcessBuffered(s, FALSE).buffered = 0
      BY <2>1, <1>1, SkeinFlushes
    <3>2. r = ProcessBuffered(s, FALSE)
      BY <2>1
    <3> HIDE DEF r
    <3>3. SkeinCut(E, r, d) /\ k = 0
      BY <3>1, <3>2
    <3> HIDE DEF k
    <3>4. UnitSize \in Nat \ {0}
      BY <1>1
    <3>5. k \in 0 .. UnitSize /\ UnitSize - k = UnitSize
      BY <3>3, <3>4
    <3> QED BY <3>3, <3>5, <2>1
  <2>2. CASE s.buffered # UnitSize
    <3>1. r = s
      BY <2>2
    <3> HIDE DEF r
    <3> QED BY <3>1, <2>2, <1>1
  <2> QED BY <2>1, <2>2
<1>3. SkeinTook(s, x) = z
  BY DEF SkeinTook
<1> HIDE DEF r
<1>4. k + Len(x) <= UnitSize
  BY <1>1, <1>2
<1>5. SkeinCut(E, z, d \o x) /\ z.buffered = k + Len(x)
  BY <1>2, <1>4, SkeinPuts
<1> HIDE DEF z
<1>6. z.buffered # 0
  BY <1>1, <1>2, <1>5
<1>7. SkeinAt(E, z, d \o x)
  BY <1>5, <1>6 DEF SkeinAt
<1>8. Len(x) = UnitSize - k => z.buffered = UnitSize
  BY <1>1, <1>2, <1>5
<1> QED BY <1>2, <1>3, <1>7, <1>8

\* Skein.update.
LEMMA SkeinGoesOn ==
  ASSUME NEW E, Marks \subseteq E, NEW d \in Seq(E), NEW s, SkeinAt(E, s, d), NEW chunk \in Seq(E)
  PROVE  SkeinAt(E, SkeinUpdate(s, chunk), d \o chunk)
<1> DEFINE room == IF s.buffered = UnitSize THEN UnitSize ELSE UnitSize - s.buffered
           p == Pieces(room, chunk)
           n == Len(p)
           End(i) == PieceEnd(room, chunk, i)
           Read(i) == SubSeq(chunk, 1, End(i))
           S == SkeinState(E)
           A == [i \in 0 .. n |-> {z \in S : /\ SkeinAt(E, z, d \o Read(i))
                                             /\ i > 0 /\ i < n => z.buffered = UnitSize
                                             /\ i = 0 => z = s}]
           g == [y \in S \X (1 .. n) |-> SkeinTook(y[1], p[y[2]])]
           Eq(f) == f = [i \in 0 .. n |-> IF i = 0 THEN s ELSE SkeinTook(f[i - 1], p[i])]
           after == CHOOSE f : Eq(f)
<1>1. SkeinUpdate(s, chunk) = after[n]
  BY DEF SkeinUpdate, SkeinTook, SkeinPut
<1>2. s \in S /\ UnitSize \in Nat \ {0} /\ s.buffered \in 0 .. UnitSize /\ room \in 1 .. UnitSize
  BY UnitsAreUnits DEF SkeinAt, SkeinCut, SkeinAs, SkeinState
<1>c. room = IF s.buffered = UnitSize THEN UnitSize ELSE UnitSize - s.buffered
  OBVIOUS
<1> HIDE DEF room
<1>a. p = Pieces(room, chunk) /\ n = Len(p)
  OBVIOUS
<1> HIDE DEF n, p
<1>3. /\ n \in Nat /\ End(n) = Len(chunk) /\ \A i \in 0 .. n : End(i) \in 0 .. Len(chunk)
      /\ \A i \in 1 .. n :
           /\ End(i - 1) < End(i) /\ p[i] = SubSeq(chunk, End(i - 1) + 1, End(i))
           /\ Len(p[i]) = End(i) - End(i - 1) /\ Len(p[i]) <= (IF i = 1 THEN room ELSE UnitSize)
           /\ i < n => Len(p[i]) = (IF i = 1 THEN room ELSE UnitSize)
  <2>1. PiecesFit(E, room, chunk, p, n)
    <3>1. room \in 1 .. UnitSize
      BY <1>2
    <3> QED BY <3>1, PiecesAre DEF p, n
  <2> QED BY <2>1 DEF PiecesFit, PieceFits
<1>4. End(0) = 0
  BY DEF PieceEnd
<1> HIDE DEF End, S
<1>5. ASSUME NEW i \in 1 .. n
      PROVE  d \o Read(i) = (d \o Read(i - 1)) \o p[i] /\ d \o Read(i - 1) \in Seq(E) /\ p[i] \in Seq(E) /\ p[i] # <<>>
  <2> DEFINE a == End(i - 1)
             c == End(i)
  <2>1. a \in 0 .. Len(chunk) /\ c \in 0 .. Len(chunk) /\ a < c /\ p[i] = SubSeq(chunk, a + 1, c) /\ Len(chunk) \in Nat
        /\ Len(p[i]) = c - a
    <3>1. i - 1 \in 0 .. n /\ i \in 0 .. n
      BY <1>3
    <3> QED BY <3>1, <1>3
  <2> HIDE DEF a, c
  <2>5. p[i] # <<>>
    <3>1. Len(p[i]) # 0
      BY <2>1
    <3> QED BY <3>1
  <2>2. SubSeq(chunk, 1, a) \in Seq(E) /\ SubSeq(chunk, a + 1, c) \in Seq(E)
        /\ SubSeq(chunk, 1, c) = SubSeq(chunk, 1, a) \o SubSeq(chunk, a + 1, c)
    BY <2>1
  <2> DEFINE u == SubSeq(chunk, 1, a)
             v == SubSeq(chunk, a + 1, c)
  <2>3. u \in Seq(E) /\ v \in Seq(E) /\ SubSeq(chunk, 1, c) = u \o v
    BY <2>2
  <2> HIDE DEF u, v
  <2>4. d \o (u \o v) = (d \o u) \o v /\ d \o u \in Seq(E)
    BY <2>3, Associates
  <2> QED BY <2>1, <2>3, <2>4, <2>5 DEF u, v, a, c
<1>6. s \in A[0]
  <2>1. Read(0) = <<>>
    BY <1>4
  <2>2. d \o <<>> = d
    OBVIOUS
  <2>3. 0 \in 0 .. n
    BY <1>3
  <2>4. SkeinAt(E, s, d \o Read(0))
    BY <2>1, <2>2
  <2> HIDE DEF Read
  <2> QED BY <2>3, <2>4, <1>2
<1>7. ASSUME NEW i \in 1 .. n, NEW z \in A[i - 1]  PROVE g[<<z, i>>] = SkeinTook(z, p[i]) /\ g[<<z, i>>] \in A[i]
  <2> DEFINE r == SkeinTook(z, p[i])
             full == IF z.buffered = UnitSize THEN UnitSize ELSE UnitSize - z.buffered
             x == p[i]
             e == d \o Read(i - 1)
  <2>0. i - 1 \in 0 .. n /\ i \in 0 .. n /\ i \in Nat /\ i > 0 /\ (i # 1 => i - 1 > 0 /\ i - 1 < n)
    BY <1>3
  <2>1. z \in S /\ SkeinAt(E, z, d \o Read(i - 1)) /\ (i # 1 => z.buffered = UnitSize) /\ (i = 1 => z = s)
    BY <2>0
  <2>2. g[<<z, i>>] = r
    BY <2>1
  <2>3. full = IF i = 1 THEN room ELSE UnitSize
    <3>1. CASE i = 1
      BY <3>1, <2>1, <1>c
    <3>2. CASE i # 1
      BY <3>2, <2>1, <1>2
    <3> QED BY <3>1, <3>2
  <2>4. Len(x) <= full /\ (i < n => Len(x) = full)
    BY <2>3, <1>3
  <2>5. d \o Read(i) = e \o x /\ e \in Seq(E) /\ x \in Seq(E) /\ x # <<>> /\ SkeinAt(E, z, e)
    BY <2>1, <1>5
  <2> HIDE DEF A, g, x, e
  <2>6. SkeinAt(E, SkeinTook(z, x), e \o x) /\ (Len(x) = full => SkeinTook(z, x).buffered = UnitSize)
    BY <2>4, <2>5, SkeinTakes
  <2>7. SkeinAt(E, r, d \o Read(i)) /\ (i < n => r.buffered = UnitSize)
    BY <2>4, <2>5, <2>6 DEF x
  <2> HIDE DEF r, Read
  <2>8. r \in S
    BY <2>7 DEF SkeinAt, SkeinCut, SkeinAs, S
  <2>9. r \in A[i]
    BY <2>0, <2>7, <2>8 DEF A
  <2> QED BY <2>2, <2>9 DEF r
<1>8. \A i \in 0 .. n : A[i] \subseteq S
  OBVIOUS
<1> HIDE DEF A, g, Read
<1>b. PICK f : LedBy(f, n, S, A, s, g)
  <2>1. n \in Nat /\ s \in A[0]
    BY <1>3, <1>6
  <2>2. \A i \in 1 .. n : \A z \in A[i - 1] : g[<<z, i>>] \in A[i]
    BY <1>7
  <2>3. Leads(n, S, A, s, g)
    BY <2>1, <2>2, <1>8 DEF Leads
  <2> QED BY <2>1, <2>3, Reaches
<1>9. f \in [0 .. n -> S] /\ f[0] = s /\ \A i \in 0 .. n : f[i] \in A[i] /\ (i > 0 => f[i] = g[<<f[i - 1], i>>])
  BY <1>b DEF LedBy
<1>10. ASSUME NEW i \in 1 .. n  PROVE f[i] = SkeinTook(f[i - 1], p[i])
  <2>1. i \in 0 .. n /\ i > 0 /\ i - 1 \in 0 .. n
    BY <1>3
  <2> QED BY <2>1, <1>7, <1>9
<1>11. Eq(f)
  <2>1. \A i \in 0 .. n : f[i] = IF i = 0 THEN s ELSE SkeinTook(f[i - 1], p[i])
    <3> SUFFICES ASSUME NEW i \in 0 .. n  PROVE f[i] = IF i = 0 THEN s ELSE SkeinTook(f[i - 1], p[i])
      OBVIOUS
    <3>1. i = 0 \/ i \in 1 .. n
      BY <1>3
    <3> QED BY <3>1, <1>9, <1>10
  <2>2. f = [i \in 0 .. n |-> f[i]]
    BY <1>9
  <2> QED BY <2>1, <2>2
<1>12. Eq(after)
  <2> HIDE DEF Eq
  <2> QED BY <1>11
<1> HIDE DEF after
<1>13. after[n] = f[n]
  <2>1. after[0] = s /\ \A i \in 1 .. n : after[i] = SkeinTook(after[i - 1], p[i])
    BY <1>12, <1>3
  <2>2. GoAlike(after, f, n)
    BY <2>1, <1>9, <1>10 DEF GoAlike
  <2>3. n \in 0 .. n
    BY <1>3
  <2> QED BY <2>2, <2>3, <1>3, SameRuns
<1>14. f[n] \in A[n] /\ n \in 0 .. n
  <2>1. n \in 0 .. n
    BY <1>3
  <2> QED BY <2>1, <1>9
<1>15. Read(n) = chunk
  BY <1>3 DEF Read
<1>16. SkeinAt(E, f[n], d \o chunk)
  BY <1>14, <1>15 DEF A
<1> QED BY <1>1, <1>13, <1>16

\* Skein.digest: the last block is told so.
LEMMA SkeinCloses ==
  ASSUME NEW E, Marks \subseteq E, NEW d \in Seq(E), NEW s, SkeinAt(E, s, d)
  PROVE  SkeinDigest(s) = SkeinOf(d) /\ \E T : SkeinDigest(s) \in Seq(T)
<1>0. PICK bl \in Seq(Seq(E)) : SkeinAs(E, s, d, bl)
  BY DEF SkeinAt, SkeinCut
<1> DEFINE L == Len(d)
           q == Len(bl)
           b == s.buffer
           k == s.buffered
           t == Upto(b, k)
           u == Append(bl, t)
           y == <<Zeroed(b, k), q * UnitSize + k, q = 0, TRUE>>
           v == Append(Told(bl), y)
           Y == Seq(E) \X Nat \X BOOLEAN \X BOOLEAN
           N(i) == <<IF u[i] = <<>> THEN Blank ELSE Filled(u[i]), Least(i * UnitSize, L), i = 1, i = Len(u)>>
<1>1. /\ k \in 0 .. UnitSize /\ Buffer(E, b) /\ b \in Seq(E) /\ Len(b) = UnitSize /\ CutInto(d, bl, t) /\ (k = 0 => d = <<>>)
      /\ UnitSize \in Nat \ {0} /\ q \in Nat /\ <<"0">> \in E
  BY <1>0, UnitsAreUnits DEF SkeinAs, SkeinAt, SkeinState, Buffer, Marks
<1>2. SkeinDigest(s) = v
  <2> DEFINE final == TRUE
  <2> HIDE DEF final
  <2>1. ProcessBuffered(s, final) =
           [buffer |-> s.buffer, buffered |-> 0, position |-> Len(bl) * UnitSize + s.buffered, first |-> FALSE,
            blocks |-> Append(Told(bl), <<Zeroed(s.buffer, s.buffered), Len(bl) * UnitSize + s.buffered, Len(bl) = 0, final>>)]
    <3>1. final \in BOOLEAN
      BY DEF final
    <3> QED BY <3>1, <1>0, SkeinProcesses
  <2>2. ProcessBuffered(s, final).blocks = Append(Told(bl), <<Zeroed(s.buffer, s.buffered), Len(bl) * UnitSize + s.buffered, Len(bl) = 0, final>>)
    BY <2>1
  <2> QED BY <2>2 DEF SkeinDigest, final
<1> HIDE DEF b, k
<1>3. t \in Seq(E) /\ Len(t) = k
  BY <1>1 DEF Upto
<1>4. Blocks(d) = u /\ L = q * UnitSize + k
  <2> HIDE DEF t, q
  <2>1. t \in Seq(E) /\ CutInto(d, bl, t) /\ Len(t) <= UnitSize /\ (t = <<>> => d = <<>>)
    <3>1. t = <<>> => k = 0
      BY <1>3
    <3> QED BY <3>1, <1>1, <1>3
  <2>2. Blocks(d) = Append(bl, t)
    BY <2>1, <1>0, BlocksOfHeld
  <2>3. L = q * UnitSize + Len(t)
    BY <1>1 DEF CutInto, q
  <2> QED BY <2>2, <2>3, <1>3
<1>5. SkeinOf(d) = [i \in DOMAIN u |-> N(i)]
  <2> HIDE DEF u
  <2> QED BY <1>4 DEF SkeinOf
<1>6. Len(u) = q + 1 /\ DOMAIN u = 1 .. q + 1 /\ u[q + 1] = t /\ \A i \in 1 .. q : u[i] = bl[i]
  BY <1>3
<1> HIDE DEF u, L
<1>7. \A i \in 1 .. q : N(i) = ToldOf(bl[i], i)
  <2> SUFFICES ASSUME NEW i \in 1 .. q  PROVE N(i) = ToldOf(bl[i], i)
    OBVIOUS
  <2> DEFINE x == bl[i]
             a == (i - 1) * UnitSize
             c == i * UnitSize
             m == q * UnitSize
  <2>1. a \in Nat /\ c = a + UnitSize /\ c <= m /\ m \in Nat /\ c \in Nat
    BY <1>1, UnitPlace
  <2>2. x = SubSeq(d, a + 1, c)
    <3>1. x = UnitOf(d, i)
      BY <1>1 DEF CutInto
    <3> QED BY <3>1 DEF UnitOf
  <2>3. L = m + k
    BY <1>4
  <2> HIDE DEF a, c, m, x
  <2>4. a \in Nat /\ c \in Nat /\ a <= c /\ c <= Len(d) /\ d \in Seq(E) /\ c - a = UnitSize /\ c <= L /\ L \in Nat
    BY <2>1, <2>3, <1>1 DEF L
  <2>5. Len(SubSeq(d, a + 1, c)) = c - a /\ SubSeq(d, a + 1, c) \in Seq(E)
    BY ONLY <2>4
  <2>6. x \in Seq(E) /\ Len(x) = UnitSize
    BY <2>2, <2>4, <2>5
  <2>7. x # <<>>
    <3>1. Len(x) # 0
      BY <2>6, <1>1
    <3> QED BY <3>1
  <2>8. Filled(x) = x
    <3>1. UnitSize % UnitSize = 0
      <4>1. 1 * UnitSize + 0 = UnitSize /\ 1 \in Nat /\ 0 \in 0 .. UnitSize - 1
        BY <1>1
      <4>2. (1 * UnitSize + 0) % UnitSize = 0
        BY <4>1, <1>1, DivIs
      <4> QED BY <4>1, <4>2
    <3>2. (UnitSize - (Len(x) % UnitSize)) % UnitSize = 0
      <4>1. UnitSize - (Len(x) % UnitSize) = UnitSize
        BY <3>1, <2>6, <1>1
      <4> QED BY <3>1, <4>1
    <3>3. Zeros(0) = <<>> /\ x \o <<>> = x
      BY <2>6 DEF Zeros
    <3> QED BY <3>2, <3>3 DEF Filled
  <2>9. Least(c, L) = c
    BY <2>4 DEF Least
  <2>10. (i = Len(u)) = FALSE
    BY <1>1, <1>6
  <2>11. u[i] = x
    BY <1>6 DEF x
  <2>12. N(i) = <<x, c, i = 1, FALSE>>
    BY <2>7, <2>8, <2>9, <2>10, <2>11 DEF c
  <2> QED BY <2>12 DEF ToldOf, x, c
<1>8. N(q + 1) = y
  <2>1. u[q + 1] = t /\ (q + 1 = Len(u)) = TRUE /\ (q + 1 = 1) = (q = 0)
    BY <1>1, <1>6
  <2>2. Least((q + 1) * UnitSize, L) = q * UnitSize + k
    <3>1. (q + 1) * UnitSize = q * UnitSize + 1 * UnitSize /\ 1 * UnitSize = UnitSize /\ q * UnitSize \in Nat
      BY <1>1, Distributes, Products
    <3> DEFINE m == q * UnitSize
    <3>2. (q + 1) * UnitSize = m + UnitSize /\ m \in Nat /\ L = m + k
      BY <3>1, <1>4
    <3> HIDE DEF m
    <3>3. Least(m + UnitSize, L) = L
      BY <3>2, <1>1 DEF Least
    <3> QED BY <3>2, <3>3 DEF m
  <2>3. (IF t = <<>> THEN Blank ELSE Filled(t)) = Zeroed(b, k)
    <3>1. CASE k = 0
      <4>1. t = <<>>
        BY <1>3, <3>1
      <4>2. \A i \in 1 .. UnitSize : i > 0
        BY <1>1
      <4>3. Zeroed(b, 0) = Blank
        BY <4>2 DEF Zeroed, Blank
      <4> QED BY <4>1, <4>3, <3>1
    <3>2. CASE k # 0
      <4>1. t # <<>>
        BY <1>3, <3>2
      <4>2. Zeroed(b, k) = t \o Zeros(UnitSize - k)
        BY <1>1, ZeroedIs
      <4>3. (UnitSize - (Len(t) % UnitSize)) % UnitSize = UnitSize - k
        <5> DEFINE r == UnitSize - k
        <5>0. r \in 0 .. UnitSize - 1 /\ 0 \in Nat /\ 0 * UnitSize + r = r
          BY <1>1, <3>2
        <5>1. r % UnitSize = r
          <6> HIDE DEF r
          <6>1. (0 * UnitSize + r) % UnitSize = r
            BY <5>0, <1>1, DivIs
          <6> QED BY <5>0, <6>1
        <5>2. CASE k = UnitSize
          <6>1. UnitSize % UnitSize = 0
            <7>1. 1 * UnitSize + 0 = UnitSize /\ 1 \in Nat /\ 0 \in 0 .. UnitSize - 1
              BY <1>1
            <7>2. (1 * UnitSize + 0) % UnitSize = 0
              BY <7>1, <1>1, DivIs
            <7> QED BY <7>1, <7>2
          <6>2. UnitSize - 0 = UnitSize /\ UnitSize - k = 0
            BY <5>2, <1>1
          <6> QED BY <6>1, <6>2, <5>2, <1>3
        <5>3. CASE k # UnitSize
          <6>1. k \in 0 .. UnitSize - 1 /\ 0 * UnitSize + k = k
            BY <5>3, <1>1
          <6>2. (0 * UnitSize + k) % UnitSize = k
            BY <6>1, <1>1, DivIs
          <6>3. k % UnitSize = k
            BY <6>1, <6>2
          <6> QED BY <6>3, <5>1, <1>3
        <5> QED BY <5>2, <5>3
      <4> HIDE DEF t
      <4>4. Filled(t) = t \o Zeros(UnitSize - k)
        BY <4>3 DEF Filled
      <4> QED BY <4>1, <4>2, <4>4
    <3> QED BY <3>1, <3>2
  <2> HIDE DEF t, q
  <2>4. N(q + 1) = <<Zeroed(b, k), q * UnitSize + k, q = 0, TRUE>>
    BY <2>1, <2>2, <2>3
  <2> QED BY <2>4
<1>9. v \in Seq(Y \cup {y}) /\ Len(v) = q + 1 /\ v[q + 1] = y /\ \A i \in 1 .. q : v[i] = ToldOf(bl[i], i)
  <2> DEFINE w == Told(bl)
  <2>1. w \in Seq(Y) /\ Len(w) = q /\ \A i \in 1 .. q : w[i] = ToldOf(bl[i], i)
    BY <1>0, ToldIs
  <2> HIDE DEF w, y, Y, q
  <2>2. w \in Seq(Y \cup {y}) /\ y \in Y \cup {y}
    BY <2>1
  <2> DEFINE Z == Y \cup {y}
  <2> HIDE DEF Z
  <2>3. w \in Seq(Z) /\ y \in Z
    BY <2>2 DEF Z
  <2>4. Append(w, y) \in Seq(Z) /\ Len(Append(w, y)) = q + 1 /\ Append(w, y)[q + 1] = y
        /\ \A i \in 1 .. q : Append(w, y)[i] = w[i]
    <3>1. w \in Seq(Z) /\ y \in Z /\ Len(w) = q
      BY <2>1, <2>3
    <3> QED BY ONLY <3>1
  <2> QED BY <2>1, <2>4 DEF w, Z
<1> HIDE DEF v, y, Y
<1>10. [i \in DOMAIN u |-> N(i)] = v
  <2>1. \A i \in 1 .. q + 1 : N(i) = v[i]
    <3> SUFFICES ASSUME NEW i \in 1 .. q + 1  PROVE N(i) = v[i]
      OBVIOUS
    <3> HIDE DEF N
    <3>1. i \in 1 .. q \/ i = q + 1
      BY <1>1
    <3>2. CASE i \in 1 .. q
      BY <3>2, <1>7, <1>9
    <3>3. CASE i = q + 1
      BY <3>3, <1>8, <1>9
    <3> QED BY <3>1, <3>2, <3>3
  <2> HIDE DEF N, q
  <2>2. v = [i \in 1 .. q + 1 |-> v[i]]
    BY <1>9
  <2> QED BY <2>1, <2>2, <1>6
<1> QED BY <1>2, <1>5, <1>9, <1>10

-----------------------------------------------------------------------------
(* XXH3. *)

\* What a message's stripes accumulate to, with the scrambles between them.
Accs(E) == Seq((Seq(E) \X Nat) \cup {<<"scramble">>})

Scramble(i) == IF i % StripesPerBlock = 0 THEN <<<<"scramble">>>> ELSE <<>>

Added(a, x, i) == Append(a, <<x, (i - 1) % StripesPerBlock>>) \o Scramble(i)

Accumulated(bl) ==
  LET acc[i \in 0 .. Len(bl)] == IF i = 0 THEN <<>> ELSE Added(acc[i - 1], bl[i], i)
  IN acc[Len(bl)]

Adds(E, f, bl, n) == f \in [0 .. n -> Accs(E)] /\ f[0] = <<>> /\ \A i \in 1 .. n : f[i] = Added(f[i - 1], bl[i], i)

\* A stripe keeps the accumulator one.
LEMMA AddedIs ==
  ASSUME NEW E, NEW a \in Accs(E), NEW x \in Seq(E), NEW i \in Nat \ {0}
  PROVE  Added(a, x, i) \in Accs(E)
<1> DEFINE m == (i - 1) % StripesPerBlock
           T == (Seq(E) \X Nat) \cup {<<"scramble">>}
           X == Seq(E)
           y == <<x, m>>
           w == <<"scramble">>
<1>1. m \in Nat
  <2>1. i - 1 \in Nat /\ StripesPerBlock \in Nat \ {0}
    BY HashesFit
  <2> QED BY <2>1, DivMod
<1> HIDE DEF m, X
<1>2. y \in T /\ w \in T
  BY <1>1 DEF X
<1> HIDE DEF y, w, T
<1>3. a \in Seq(T)
  BY DEF Accs, T
<1>4. Append(a, y) \in Seq(T) /\ <<w>> \in Seq(T) /\ <<>> \in Seq(T)
  BY <1>2, <1>3
<1>5. Scramble(i) \in Seq(T)
  <2>1. Scramble(i) = <<w>> \/ Scramble(i) = <<>>
    BY DEF Scramble, w
  <2> QED BY <2>1, <1>4
<1> DEFINE z == Append(a, y)
           c == Scramble(i)
<1> HIDE DEF z, c
<1>6. z \in Seq(T) /\ c \in Seq(T)
  BY <1>4, <1>5 DEF z, c
<1>7. z \o c \in Seq(T)
  BY <1>6
<1> QED BY <1>7 DEF z, c, y, m, T, Added, Accs

\* What is accumulated is reached stripe by stripe.
LEMMA AccumulatedIs ==
  ASSUME NEW E, NEW bl \in Seq(Seq(E))
  PROVE  \E f : Adds(E, f, bl, Len(bl)) /\ Accumulated(bl) = f[Len(bl)]
<1> DEFINE n == Len(bl)
           S == Accs(E)
           Eq(f) == f = [i \in 0 .. n |-> IF i = 0 THEN <<>> ELSE Added(f[i - 1], bl[i], i)]
           acc == CHOOSE f : Eq(f)
           g == [y \in S \X (1 .. n) |-> Added(y[1], bl[y[2]], y[2])]
<1>1. Accumulated(bl) = acc[n]
  BY DEF Accumulated
<1>2. n \in Nat /\ \A i \in 1 .. n : bl[i] \in Seq(E) /\ i \in Nat \ {0}
  OBVIOUS
<1>3. <<>> \in S
  BY DEF Accs
<1> HIDE DEF n, S
<1>4. ASSUME NEW a \in S, NEW i \in 1 .. n  PROVE g[<<a, i>>] = Added(a, bl[i], i) /\ g[<<a, i>>] \in S
  BY <1>2, AddedIs DEF S
<1>5. g \in [S \X (1 .. n) -> S]
  <2>1. \A y \in S \X (1 .. n) : Added(y[1], bl[y[2]], y[2]) \in S
    BY <1>2, AddedIs DEF S
  <2> QED BY <2>1
<1> HIDE DEF g
<1>6. PICK f : RunsFrom(f, S, <<>>, n, g)
  BY <1>2, <1>3, <1>5, Recursion
<1>7. f \in [0 .. n -> S] /\ f[0] = <<>> /\ \A i \in 1 .. n : f[i] = g[<<f[i - 1], i>>]
  BY <1>6 DEF RunsFrom
<1>8. ASSUME NEW i \in 1 .. n  PROVE f[i] = Added(f[i - 1], bl[i], i)
  <2>1. i - 1 \in 0 .. n
    BY <1>2
  <2>2. f[i - 1] \in S
    BY <2>1, <1>7
  <2> QED BY <2>2, <1>4, <1>7
<1>9. Eq(f)
  <2>1. \A i \in 0 .. n : f[i] = IF i = 0 THEN <<>> ELSE Added(f[i - 1], bl[i], i)
    <3> SUFFICES ASSUME NEW i \in 0 .. n  PROVE f[i] = IF i = 0 THEN <<>> ELSE Added(f[i - 1], bl[i], i)
      OBVIOUS
    <3>1. i = 0 \/ i \in 1 .. n
      BY <1>2
    <3> QED BY <3>1, <1>7, <1>8
  <2>2. f = [i \in 0 .. n |-> f[i]]
    BY <1>7
  <2> QED BY <2>1, <2>2
<1>10. Eq(acc)
  <2> HIDE DEF Eq
  <2> QED BY <1>9
<1> HIDE DEF acc
<1>11. acc[n] = f[n]
  <2>1. acc[0] = <<>> /\ \A i \in 1 .. n : acc[i] = Added(acc[i - 1], bl[i], i)
    BY <1>10, <1>2
  <2>2. GoAlike(acc, f, n)
    BY <2>1, <1>7, <1>8 DEF GoAlike
  <2>3. n \in 0 .. n
    BY <1>2
  <2> QED BY <2>2, <2>3, <1>2, SameRuns
<1>12. Adds(E, f, bl, n)
  BY <1>7, <1>8 DEF Adds, S
<1> QED BY <1>1, <1>11, <1>12 DEF n

\* Any two such runs are the same as far as their stripes are.
LEMMA AddsAlike ==
  ASSUME NEW E, NEW bl, NEW cl, NEW f, NEW h, NEW n \in Nat, NEW m \in Nat, m <= n,
         Adds(E, f, bl, n), Adds(E, h, cl, m), \A i \in 1 .. m : bl[i] = cl[i]
  PROVE  f[m] = h[m]
<1>1. GoAlike(f, h, m)
  <2>1. f[0] = h[0]
    BY DEF Adds
  <2>2. ASSUME NEW i \in 1 .. m, f[i - 1] = h[i - 1]  PROVE f[i] = h[i]
    <3>1. i \in 1 .. n
      OBVIOUS
    <3>2. f[i] = Added(f[i - 1], bl[i], i) /\ h[i] = Added(h[i - 1], cl[i], i)
      BY <3>1 DEF Adds
    <3> QED BY <2>2, <3>2
  <2> QED BY <2>1, <2>2 DEF GoAlike
<1>2. m \in 0 .. m
  OBVIOUS
<1> QED BY <1>1, <1>2, SameRuns

\* The remainder of the next number.
LEMMA ModNext ==
  ASSUME NEW a \in Nat, NEW b \in Nat \ {0}
  PROVE  IF (a % b) + 1 = b THEN (a + 1) % b = 0 ELSE (a + 1) % b = (a % b) + 1 /\ (a + 1) % b # 0
<1> DEFINE q == a \div b
           r == a % b
           p == q * b
<1>1. q \in Nat /\ r \in 0 .. b - 1 /\ a = p + r /\ p \in Nat
  BY DivMod, Products
<1> HIDE DEF q, r
<1>2. CASE r + 1 = b
  <2>1. (q + 1) * b = q * b + b
    <3>1. 1 * b = b
      OBVIOUS
    <3> QED BY <3>1, <1>1, Distributes
  <2> DEFINE m == (q + 1) * b
  <2>2. m = p + b
    BY <2>1
  <2>3. (m + 0) % b = 0
    <3>1. q + 1 \in Nat /\ 0 \in 0 .. b - 1
      BY <1>1
    <3> QED BY <3>1, DivIs
  <2> HIDE DEF m, p
  <2>4. a + 1 = m + 0
    BY <2>2, <1>1, <1>2
  <2> QED BY <2>3, <2>4, <1>2 DEF r
<1>3. CASE r + 1 # b
  <2>1. r + 1 \in 0 .. b - 1
    BY <1>1, <1>3
  <2>2. (q * b + (r + 1)) % b = r + 1
    BY <2>1, <1>1, DivIs
  <2>3. a + 1 = p + (r + 1) /\ r + 1 # 0
    <3> HIDE DEF p
    <3> QED BY <1>1
  <2> QED BY <2>2, <2>3, <1>3 DEF r, p
<1> QED BY <1>2, <1>3

\* More stripes go on where the last stood.
LEMMA ConsumedIs ==
  ASSUME NEW E, NEW bl \in Seq(Seq(E)), NEW u \in Seq(Seq(E))
  PROVE  /\ Consumed(Accumulated(bl), Len(bl) % StripesPerBlock, u) =
              [acc |-> Accumulated(bl \o u), soFar |-> Len(bl \o u) % StripesPerBlock]
         /\ Accumulated(bl) \in Accs(E)
<1> DEFINE q == Len(bl)
           m == Len(u)
           v == bl \o u
           k == Accumulated(bl)
           S == StripesPerBlock
           c == q % S
<1>1. q \in Nat /\ m \in Nat /\ v \in Seq(Seq(E)) /\ Len(v) = q + m /\ S \in Nat \ {0}
      /\ (\A i \in 1 .. q : v[i] = bl[i]) /\ \A i \in 1 .. m : v[q + i] = u[i]
  <2> DEFINE T == Seq(E)
  <2>1. bl \in Seq(T) /\ u \in Seq(T)
    OBVIOUS
  <2> HIDE DEF T
  <2>2. v \in Seq(T) /\ Len(v) = q + m /\ (\A i \in 1 .. q : v[i] = bl[i]) /\ \A i \in 1 .. m : v[q + i] = u[i]
    BY <2>1, Joins
  <2> QED BY <2>1, <2>2, HashesFit DEF T
<1> HIDE DEF v
<1>2. PICK h : Adds(E, h, bl, q) /\ k = h[q]
  BY AccumulatedIs
<1>3. PICK f : Adds(E, f, v, Len(v)) /\ Accumulated(v) = f[Len(v)]
  BY <1>1, AccumulatedIs
<1> HIDE DEF k, q, m
<1>4. Adds(E, f, v, q + m) /\ Accumulated(v) = f[q + m]
  BY <1>1, <1>3
<1>5. f[q] = k
  <2>1. q <= q + m /\ q + m \in Nat
    BY <1>1
  <2> QED BY <2>1, <1>1, <1>2, <1>4, AddsAlike
<1>6. k \in Accs(E)
  <2>1. q \in 0 .. q
    BY <1>1
  <2> QED BY <2>1, <1>2 DEF Adds
<1> DEFINE Go(was, i) ==
             LET next == Append(was.acc, <<u[i], was.soFar>>)
             IN IF was.soFar + 1 = S THEN [acc |-> Append(next, <<"scramble">>), soFar |-> 0]
                ELSE [acc |-> next, soFar |-> was.soFar + 1]
           Eq(z) == z = [i \in 0 .. m |-> IF i = 0 THEN [acc |-> k, soFar |-> c] ELSE Go(z[i - 1], i)]
           after == CHOOSE z : Eq(z)
           w == [i \in 0 .. m |-> [acc |-> f[q + i], soFar |-> (q + i) % S]]
<1>7. Consumed(k, c, u) = after[m]
  BY DEF Consumed, m
<1>8. w[0] = [acc |-> k, soFar |-> c]
  <2>1. 0 \in 0 .. m /\ q + 0 = q
    BY <1>1
  <2> QED BY <2>1, <1>5
<1>9. ASSUME NEW i \in 1 .. m  PROVE w[i] = Go(w[i - 1], i)
  <2> DEFINE j == q + i
             p == j - 1
             s == p % S
             a == f[p]
             x == u[i]
             next == Append(a, <<x, s>>)
             mark == <<"scramble">>
  <2>1. j \in 1 .. q + m /\ q + (i - 1) = p /\ p \in Nat /\ p + 1 = j /\ i - 1 \in 0 .. m /\ i \in 0 .. m /\ p \in 0 .. q + m
    <3>1. q \in Nat /\ m \in Nat /\ i \in 1 .. m
      BY <1>1
    <3> HIDE DEF q, m
    <3>2. j \in 1 .. q + m /\ q + (i - 1) = p /\ p + 1 = j
      BY ONLY <3>1
    <3>3. p \in Nat /\ p \in 0 .. q + m
      BY ONLY <3>1
    <3>4. i - 1 \in 0 .. m /\ i \in 0 .. m
      BY ONLY <3>1
    <3> QED BY ONLY <3>2, <3>3, <3>4
  <2>2. w[i - 1] = [acc |-> a, soFar |-> s] /\ w[i] = [acc |-> f[j], soFar |-> j % S]
    BY <2>1
  <2>3. f[j] = Added(a, x, j)
    <3>1. v[j] = x
      BY <1>1
    <3>2. f[j] = Added(f[j - 1], v[j], j)
      BY <1>4, <2>1 DEF Adds
    <3> QED BY <3>1, <3>2
  <2>4. IF s + 1 = S THEN j % S = 0 ELSE j % S = s + 1 /\ j % S # 0
    <3>1. IF (p % S) + 1 = S THEN (p + 1) % S = 0 ELSE (p + 1) % S = (p % S) + 1 /\ (p + 1) % S # 0
      BY <1>1, <2>1, ModNext
    <3> QED BY <3>1, <2>1
  <2>5. Added(a, x, j) = next \o Scramble(j)
    BY DEF Added
  <2>6. \E T : next \in Seq(T) /\ mark \in T
    <3>1. a \in Accs(E)
      BY <1>4, <2>1 DEF Adds
    <3>2. a \in Seq((Seq(E) \X Nat) \cup {<<"scramble">>})
      BY <3>1 DEF Accs
    <3> DEFINE Y == (Seq(E) \X Nat) \cup {<<"scramble">>}
               y == <<x, s>>
               T == Y \cup {y, mark}
    <3>3. a \in Seq(Y)
      BY <3>2
    <3> HIDE DEF Y, y, mark
    <3>4. a \in Seq(T) /\ y \in T /\ mark \in T
      BY <3>3
    <3> HIDE DEF T
    <3>5. Append(a, y) \in Seq(T) /\ mark \in T
      BY <3>4
    <3> QED BY <3>5 DEF y
  <2>7. w[i - 1].acc = a /\ w[i - 1].soFar = s
    BY <2>2
  <2> HIDE DEF w, a, s, next
  <2>8. Go(w[i - 1], i) = IF s + 1 = S THEN [acc |-> Append(next, mark), soFar |-> 0] ELSE [acc |-> next, soFar |-> s + 1]
    BY <2>7 DEF next
  <2> HIDE DEF Go, mark, j
  <2>9. PICK T : next \in Seq(T) /\ mark \in T
    BY <2>6
  <2>10. Append(next, mark) = next \o <<mark>> /\ next \o <<>> = next
    BY <2>9
  <2>11. CASE s + 1 = S
    <3>1. j % S = 0
      BY <2>4, <2>11
    <3>2. Scramble(j) = <<mark>>
      BY <3>1 DEF Scramble, mark
    <3>3. f[j] = Append(next, mark)
      BY <2>3, <2>5, <2>10, <3>2
    <3> QED BY <3>1, <3>3, <2>2, <2>8, <2>11
  <2>12. CASE s + 1 # S
    <3>1. j % S = s + 1 /\ j % S # 0
      BY <2>4, <2>12
    <3>2. Scramble(j) = <<>>
      BY <3>1 DEF Scramble
    <3>3. f[j] = next
      BY <2>3, <2>5, <2>10, <3>2
    <3> QED BY <3>1, <3>3, <2>2, <2>8, <2>12
  <2> QED BY <2>11, <2>12
<1> HIDE DEF Go, c
<1>10. Eq(w)
  <2>1. \A i \in 0 .. m : w[i] = IF i = 0 THEN [acc |-> k, soFar |-> c] ELSE Go(w[i - 1], i)
    <3> SUFFICES ASSUME NEW i \in 0 .. m  PROVE w[i] = IF i = 0 THEN [acc |-> k, soFar |-> c] ELSE Go(w[i - 1], i)
      OBVIOUS
    <3>1. i = 0 \/ i \in 1 .. m
      BY <1>1
    <3> HIDE DEF w
    <3> QED BY <3>1, <1>8, <1>9
  <2>2. w = [i \in 0 .. m |-> w[i]]
    OBVIOUS
  <2> HIDE DEF w
  <2> QED BY <2>1, <2>2
<1>11. w[m] = [acc |-> f[q + m], soFar |-> (q + m) % S]
  BY <1>1
<1> HIDE DEF w
<1>12. Eq(after)
  <2> HIDE DEF Eq
  <2> QED BY <1>10
<1> HIDE DEF after
<1>13. after[m] = w[m]
  <2>1. after[0] = [acc |-> k, soFar |-> c] /\ \A i \in 1 .. m : after[i] = Go(after[i - 1], i)
    BY <1>12, <1>1
  <2>2. GoAlike(after, w, m)
    BY <2>1, <1>8, <1>9 DEF GoAlike
  <2>3. m \in 0 .. m
    BY <1>1
  <2> QED BY <2>2, <2>3, <1>1, SameRuns
<1>14. Consumed(k, c, u) = [acc |-> Accumulated(v), soFar |-> Len(v) % S]
  BY <1>1, <1>4, <1>7, <1>11, <1>13
<1> QED BY <1>6, <1>14 DEF k, c, q, v

\* XXH3's buffer, of several stripes.
LEMMA BufferSizes ==
  /\ UnitSize \in Nat \ {0} /\ BufferStripes \in Nat \ {0} /\ BufferSize = BufferStripes * UnitSize
  /\ BufferSize \in Nat \ {0} /\ UnitSize <= BufferSize
<1>1. UnitSize \in Nat \ {0} /\ BufferStripes \in Nat \ {0}
  BY UnitsAreUnits, HashesFit
<1>2. BufferStripes * UnitSize \in Nat /\ (BufferStripes - 1) * UnitSize \in Nat
      /\ BufferStripes * UnitSize = (BufferStripes - 1) * UnitSize + UnitSize
  BY <1>1, UnitEnds
<1> DEFINE b == BufferStripes * UnitSize
           c == (BufferStripes - 1) * UnitSize
<1>3. b \in Nat /\ c \in Nat /\ b = c + UnitSize
  BY <1>2
<1>4. BufferSize = b
  BY DEF BufferSize
<1> HIDE DEF b, c
<1>5. BufferSize \in Nat \ {0} /\ UnitSize <= BufferSize
  BY <1>1, <1>3, <1>4
<1> QED BY <1>1, <1>4, <1>5 DEF b

Wide(E, b) == b \in Seq(E) /\ Len(b) = BufferSize

\* w is b with x put behind the first bytes.
PutInto(E, b, at, x, w) ==
  /\ Wide(E, w) /\ Upto(w, at + Len(x)) = Upto(b, at) \o x
  /\ \A i \in at + 1 .. at + Len(x) : w[i] = x[i - at]
  /\ \A i \in 1 .. BufferSize : i <= at \/ i > at + Len(x) => w[i] = b[i]

\* What is given place by place is a sequence.
LEMMA LaidOut ==
  ASSUME NEW E, NEW n \in Nat, NEW w, w = [i \in 1 .. n |-> w[i]], \A i \in 1 .. n : w[i] \in E
  PROVE  w \in Seq(E) /\ Len(w) = n
<1>1. w \in [1 .. n -> E] /\ DOMAIN w = 1 .. n
  OBVIOUS
<1>2. w \in Seq(E)
  BY <1>1
<1> QED BY <1>1, <1>2

\* Bytes written at a place of the buffer leave it as wide.
LEMMA PutIs ==
  ASSUME NEW E, NEW b, Wide(E, b), NEW at \in Nat, NEW x \in Seq(E), at + Len(x) <= BufferSize
  PROVE  PutInto(E, b, at, x, Put(b, at, x))
<1> DEFINE w == Put(b, at, x)
           n == at + Len(x)
<1>1. BufferSize \in Nat /\ b \in Seq(E) /\ Len(b) = BufferSize /\ Len(x) \in Nat /\ n \in Nat /\ n <= BufferSize
  BY BufferSizes DEF Wide
<1>2. w = [i \in 1 .. BufferSize |-> IF i \in at + 1 .. n THEN x[i - at] ELSE b[i]]
  BY DEF Put
<1>3. ASSUME NEW i \in 1 .. BufferSize  PROVE w[i] = (IF i \in at + 1 .. n THEN x[i - at] ELSE b[i]) /\ w[i] \in E
  <2>1. w[i] = IF i \in at + 1 .. n THEN x[i - at] ELSE b[i]
    BY <1>2
  <2>2. CASE i \in at + 1 .. n
    <3>1. i - at \in 1 .. Len(x)
      BY <2>2, <1>1
    <3> QED BY <3>1, <2>1, <2>2
  <2>3. CASE i \notin at + 1 .. n
    BY <2>1, <2>3, <1>1
  <2> QED BY <2>1, <2>2, <2>3
<1> HIDE DEF w
<1>4. w \in Seq(E) /\ Len(w) = BufferSize
  <2>1. w = [i \in 1 .. BufferSize |-> w[i]] /\ \A i \in 1 .. BufferSize : w[i] \in E
    BY <1>2, <1>3
  <2>2. BufferSize \in Nat
    BY <1>1
  <2> QED BY ONLY <2>1, <2>2, LaidOut
<1>5. \A i \in at + 1 .. n : w[i] = x[i - at]
  <2>1. \A i \in at + 1 .. n : i \in 1 .. BufferSize
    BY <1>1
  <2> QED BY <2>1, <1>3
<1>6. \A i \in 1 .. BufferSize : i <= at \/ i > n => w[i] = b[i]
  BY <1>3, <1>1
<1>7. Upto(w, n) = Upto(b, at) \o x
  <2> DEFINE z == Upto(w, n)
             c == Upto(b, at)
  <2>1. z \in Seq(E) /\ Len(z) = n /\ \A i \in 1 .. n : z[i] = w[i]
    BY <1>1, <1>4 DEF Upto
  <2>2. c \in Seq(E) /\ Len(c) = at /\ \A i \in 1 .. at : c[i] = b[i]
    BY <1>1 DEF Upto
  <2> HIDE DEF z, c
  <2>3. \A i \in 1 .. at : z[i] = c[i]
    <3> SUFFICES ASSUME NEW i \in 1 .. at  PROVE z[i] = c[i]
      OBVIOUS
    <3>1. i \in 1 .. n /\ i \in 1 .. BufferSize /\ i <= at
      BY <1>1
    <3>2. w[i] = b[i]
      BY <3>1, <1>6
    <3> QED BY <3>1, <3>2, <2>1, <2>2
  <2>4. \A i \in 1 .. Len(x) : z[at + i] = x[i]
    <3> SUFFICES ASSUME NEW i \in 1 .. Len(x)  PROVE z[at + i] = x[i]
      OBVIOUS
    <3>1. at + i \in at + 1 .. n /\ at + i \in 1 .. n /\ (at + i) - at = i
      BY <1>1
    <3> QED BY <3>1, <2>1, <1>5
  <2>5. Len(z) = Len(c) + Len(x) /\ (\A i \in 1 .. Len(c) : z[i] = c[i]) /\ (\A i \in 1 .. Len(x) : z[Len(c) + i] = x[i])
    BY <2>1, <2>2, <2>3, <2>4
  <2>6. c \o x = z
    BY <2>1, <2>2, <2>5, JoinIs
  <2> QED BY <2>6 DEF z, c
<1> QED BY <1>4, <1>5, <1>6, <1>7 DEF w, Wide, PutInto

\* The last stripe is still at the end of the buffer, but for what n bytes of
\* the next have written over.
Trailing(b, n, bl) ==
  bl # <<>> => \A j \in 1 .. UnitSize :
                 BufferSize - UnitSize + j > n => b[BufferSize - UnitSize + j] = bl[Len(bl)][j]

Xxh3State(E) == [buffer : Seq(E), buffered : 0 .. BufferSize, stripes : Nat, total : Nat, acc : Accs(E)]

\* What XXH3 holds of a message: the stripes accumulated, and in the buffer
\* the rest, which is empty only before the first byte.
Xxh3As(E, s, d, bl) ==
  /\ s \in Xxh3State(E) /\ Wide(E, s.buffer) /\ s.total = Len(d)
  /\ CutInto(d, bl, Upto(s.buffer, s.buffered))
  /\ s.acc = Accumulated(bl) /\ s.stripes = Len(bl) % StripesPerBlock
  /\ s.buffered = 0 => d = <<>>
  /\ bl # <<>> => Len(d) > BufferSize
  /\ Trailing(s.buffer, s.buffered, bl)

Xxh3At(E, s, d) == \E bl \in Seq(Seq(E)) : Xxh3As(E, s, d, bl)

\* XXH3 before its first byte.
LEMMA Xxh3Begins == ASSUME NEW E, <<"0">> \in E  PROVE Xxh3At(E, Xxh3Start, <<>>)
<1> DEFINE b == Zeros(BufferSize)
           bl == <<>>
<1>1. Wide(E, b)
  BY BufferSizes, ZerosAre DEF Wide
<1>2. bl \in Seq(Seq(E)) /\ Len(bl) = 0
  OBVIOUS
<1>3. Accumulated(bl) = <<>>
  <2>1. PICK f : Adds(E, f, bl, Len(bl)) /\ Accumulated(bl) = f[Len(bl)]
    BY <1>2, AccumulatedIs
  <2> QED BY <2>1, <1>2 DEF Adds
<1>4. 0 % StripesPerBlock = 0
  <2>1. 0 \in Nat /\ StripesPerBlock \in Nat \ {0} /\ 0 \in 0 .. StripesPerBlock - 1 /\ 0 * StripesPerBlock + 0 = 0
    BY HashesFit
  <2> QED BY <2>1, DivIs
<1>5. Xxh3Start = [buffer |-> b, buffered |-> 0, stripes |-> 0, total |-> 0, acc |-> <<>>]
  BY DEF Xxh3Start
<1> HIDE DEF b
<1>6. Upto(b, 0) = <<>>
  BY <1>1 DEF Upto, Wide
<1>7. <<>> \in Accs(E)
  BY DEF Accs
<1>8. Xxh3Start \in Xxh3State(E)
  BY <1>1, <1>5, <1>7, BufferSizes DEF Xxh3State, Wide
<1>9. Xxh3As(E, Xxh3Start, <<>>, bl)
  <2>1. CutInto(<<>>, bl, <<>>)
    BY CutNothing
  <2> QED BY <2>1, <1>1, <1>2, <1>3, <1>4, <1>5, <1>6, <1>8 DEF Xxh3As, Trailing
<1> QED BY <1>2, <1>9 DEF Xxh3At

\* A chunk that fits is put behind what there is.
LEMMA Xxh3Fits ==
  ASSUME NEW E, NEW d \in Seq(E), NEW s, Xxh3At(E, s, d), NEW x \in Seq(E), Len(x) <= BufferSize - s.buffered
  PROVE  Xxh3At(E, Xxh3Update(s, x), d \o x)
<1>0. PICK bl \in Seq(Seq(E)) : Xxh3As(E, s, d, bl)
  BY DEF Xxh3At
<1> DEFINE k == s.buffered
           b == s.buffer
           n == k + Len(x)
           c == Put(b, k, x)
           z == Xxh3Update(s, x)
           t == Upto(b, k)
<1>1. /\ s \in Xxh3State(E) /\ Wide(E, b) /\ s.total = Len(d) /\ CutInto(d, bl, t)
      /\ (k = 0 => d = <<>>) /\ (bl # <<>> => Len(d) > BufferSize) /\ Trailing(b, k, bl)
      /\ s.acc = Accumulated(bl) /\ s.stripes = Len(bl) % StripesPerBlock
  BY <1>0 DEF Xxh3As
<1>2. /\ k \in 0 .. BufferSize /\ BufferSize \in Nat /\ Len(x) \in Nat /\ n \in 0 .. BufferSize /\ Len(d) \in Nat
      /\ s.stripes \in Nat /\ s.acc \in Accs(E) /\ Len(d) + Len(x) \in Nat /\ n <= BufferSize /\ k \in Nat /\ UnitSize \in Nat
  BY <1>1, BufferSizes DEF Xxh3State
<1>3. z = [s EXCEPT !.buffer = c, !.buffered = n, !.total = Len(d) + Len(x)]
  BY <1>1 DEF Xxh3Update
<1>4. /\ Wide(E, c) /\ Upto(c, n) = t \o x
      /\ \A i \in 1 .. BufferSize : i <= k \/ i > n => c[i] = b[i]
  <2>1. k + Len(x) <= BufferSize /\ k \in Nat /\ Wide(E, b)
    BY <1>1, <1>2
  <2> HIDE DEF k, b
  <2>2. PutInto(E, b, k, x, c)
    BY <2>1, PutIs
  <2> HIDE DEF c
  <2> QED BY <2>2 DEF PutInto, t, b, n
<1> HIDE DEF c, z
<1>5. z = [buffer |-> c, buffered |-> n, stripes |-> s.stripes, total |-> Len(d) + Len(x), acc |-> s.acc]
  BY <1>1, <1>3 DEF Xxh3State
<1>6. z \in Xxh3State(E)
  BY <1>2, <1>4, <1>5 DEF Xxh3State, Wide
<1>7. CutInto(d \o x, bl, t \o x) /\ Len(d \o x) = Len(d) + Len(x)
  <2>1. Len(bl) \in Nat
    OBVIOUS
  <2>2. CutInto(d \o x, bl, t \o x)
    BY <2>1, <1>1, CutLonger
  <2> QED BY <2>2
<1>8. n = 0 => d \o x = <<>>
  <2> SUFFICES ASSUME n = 0  PROVE d \o x = <<>>
    OBVIOUS
  <2>1. k = 0 /\ Len(x) = 0
    BY <1>2
  <2>2. x = <<>>
    BY <2>1
  <2> QED BY <2>1, <2>2, <1>1
<1>9. Trailing(c, n, bl)
  <2> SUFFICES ASSUME bl # <<>>, NEW j \in 1 .. UnitSize, BufferSize - UnitSize + j > n
               PROVE  c[BufferSize - UnitSize + j] = bl[Len(bl)][j]
    BY DEF Trailing
  <2> DEFINE i == BufferSize - UnitSize + j
  <2>1. i \in 1 .. BufferSize /\ i > n /\ i > k
    BY <1>2, BufferSizes
  <2>2. c[i] = b[i]
    BY <2>1, <1>4
  <2>3. b[i] = bl[Len(bl)][j]
    BY <2>1, <1>1 DEF Trailing
  <2> QED BY <2>2, <2>3
<1>10. Xxh3As(E, z, d \o x, bl)
  <2> DEFINE e == d \o x
  <2>1. bl # <<>> => Len(e) > BufferSize
    BY <1>1, <1>2, <1>7
  <2>2. z.buffer = c /\ z.buffered = n /\ z.stripes = s.stripes /\ z.total = Len(e) /\ z.acc = s.acc
    BY <1>5, <1>7
  <2> HIDE DEF e, k, b, n
  <2> QED BY <2>1, <2>2, <1>1, <1>4, <1>6, <1>7, <1>8, <1>9 DEF Xxh3As, e
<1> QED BY <1>10 DEF z, Xxh3At

\* The buffer stands behind stripes that are all of a message so far.
Stood(E, b, d, bl) == Wide(E, b) /\ d \in Seq(E) /\ bl \in Seq(Seq(E)) /\ CutInto(d, bl, <<>>) /\ Trailing(b, 0, bl)

\* What is cut without its rest.
LEMMA CutOff ==
  ASSUME NEW E, NEW d \in Seq(E), NEW T, NEW bl \in Seq(T), NEW t, CutInto(d, bl, t)
  PROVE  LET dm == Upto(d, Len(bl) * UnitSize)
         IN CutInto(dm, bl, <<>>) /\ dm \in Seq(E) /\ Len(dm) = Len(bl) * UnitSize /\ d = dm \o t
<1> DEFINE m == Len(bl) * UnitSize
           dm == Upto(d, m)
<1>1. UnitSize \in Nat /\ Len(bl) \in Nat
  BY UnitsAreUnits
<1>2. m \in Nat /\ m <= Len(d) /\ t = SubSeq(d, m + 1, Len(d)) /\ \A i \in 1 .. Len(bl) : bl[i] = UnitOf(d, i)
  <2>1. Len(bl) * UnitSize \in Nat
    BY <1>1, Products
  <2>2. Len(d) = m + Len(t) /\ t = SubSeq(d, m + 1, Len(d)) /\ \A i \in 1 .. Len(bl) : bl[i] = UnitOf(d, i)
    BY DEF CutInto
  <2> HIDE DEF m
  <2>3. m \in Nat
    BY <2>1 DEF m
  <2>4. t \in Seq(E)
    BY <2>2, <2>3
  <2> QED BY <2>2, <2>3, <2>4
<1>3. ASSUME NEW i \in 1 .. Len(bl)  PROVE UnitOf(dm, i) = bl[i]
  <2> DEFINE p == (i - 1) * UnitSize
             r == i * UnitSize
  <2>1. p \in Nat /\ r \in Nat /\ r = p + UnitSize /\ r <= m
    BY <1>1, UnitPlace
  <2>2. bl[i] = SubSeq(d, p + 1, r) /\ UnitOf(dm, i) = SubSeq(dm, p + 1, r)
    BY <1>2 DEF UnitOf
  <2> HIDE DEF p, r, m
  <2>3. SubSeq(dm, p + 1, r) = SubSeq(d, p + 1, r)
    <3> DEFINE a == p + 1
               o == 0
    <3>1. m \in Nat /\ o \in Nat /\ o <= m /\ m <= Len(d) /\ a \in Int /\ r \in Int /\ 1 <= a /\ a <= r + 1 /\ r <= m - o
          /\ o + a = a /\ o + r = r /\ o + 1 = 1
      BY <2>1, <1>1, <1>2
    <3> HIDE DEF a, o
    <3>2. SubSeq(SubSeq(d, o + 1, m), a, r) = SubSeq(d, o + a, o + r)
      BY <3>1, SliceOfSlice
    <3> QED BY <3>1, <3>2 DEF a, Upto
  <2> QED BY <2>2, <2>3
<1> HIDE DEF m
<1>4. dm \in Seq(E) /\ Len(dm) = m /\ d = dm \o t
  BY <1>2, Splits DEF Upto
<1>5. CutInto(dm, bl, <<>>)
  <2> HIDE DEF dm
  <2>1. <<>> = SubSeq(dm, m + 1, Len(dm)) /\ Len(dm) = m + Len(<<>>)
    BY <1>2, <1>4
  <2>2. \A i \in 1 .. Len(bl) : bl[i] = UnitOf(dm, i)
    BY <1>3
  <2> QED BY <2>1, <2>2 DEF CutInto, m
<1> QED BY <1>4, <1>5 DEF m, dm

\* The buffer, filled up, is stripes.
LEMMA StripesFill ==
  ASSUME NEW E, NEW b, Wide(E, b), NEW d \in Seq(E), NEW bl \in Seq(Seq(E)), NEW t \in Seq(E), CutInto(d, bl, t),
         NEW x \in Seq(E), b = t \o x
  PROVE  Stood(E, b, d \o x, bl \o Units(b)) /\ Units(b) \in Seq(Seq(E)) /\ bl \o Units(b) # <<>>
<1> DEFINE u == Units(b)
           n == BufferStripes
<1>1. UnitSize \in Nat \ {0} /\ n \in Nat \ {0} /\ BufferSize = n * UnitSize /\ BufferSize \in Nat \ {0} /\ b \in Seq(E) /\ Len(b) = BufferSize
  BY BufferSizes DEF Wide
<1>2. CutInto(b, u, <<>>) /\ u \in Seq(Seq(E)) /\ Len(u) = n
  <2> DEFINE w == (Len(b) \div UnitSize) * UnitSize
  <2>1. Len(b) \div UnitSize = n
    <3>1. (n * UnitSize + 0) \div UnitSize = n
      <4>1. n \in Nat /\ 0 \in 0 .. UnitSize - 1
        BY <1>1
      <4> QED BY <4>1, <1>1, DivIs
    <3> DEFINE m == n * UnitSize
    <3>2. m + 0 = m
      <4>1. m \in Nat
        BY <1>1
      <4> QED BY <4>1
    <3> QED BY <3>1, <3>2, <1>1
  <2>2. w = Len(b)
    BY <2>1, <1>1
  <2>3. /\ Ghash(Upto(b, w)) \in Seq(Seq(E)) /\ Units(Upto(b, w)) = Ghash(Upto(b, w))
        /\ CutInto(b, Ghash(Upto(b, w)), Rest(b, w))
    BY <1>1, WholeUnits
  <2> HIDE DEF w
  <2>4. Upto(b, w) = b /\ Rest(b, w) = <<>>
    BY <2>2, <1>1 DEF Upto, Rest
  <2>5. u \in Seq(Seq(E)) /\ CutInto(b, u, <<>>)
    BY <2>3, <2>4
  <2> HIDE DEF u
  <2>6. Len(b) = Len(u) * UnitSize + 0 /\ Len(u) \in Nat
    BY <2>5 DEF CutInto
  <2>7. (Len(u) * UnitSize + 0) \div UnitSize = Len(u)
    <3>1. 0 \in 0 .. UnitSize - 1
      BY <1>1
    <3> QED BY <3>1, <2>6, <1>1, DivIs
  <2>8. Len(u) = n
    BY <2>1, <2>6, <2>7
  <2> QED BY <2>5, <2>8
<1> HIDE DEF u, n
<1>3. CutInto(d \o x, bl \o u, <<>>)
  <2> DEFINE dm == Upto(d, Len(bl) * UnitSize)
  <2>1. CutInto(dm, bl, <<>>) /\ dm \in Seq(E) /\ d = dm \o t
    BY CutOff
  <2> HIDE DEF dm
  <2>2. CutInto(dm \o b, bl \o u, <<>>)
    BY <1>1, <1>2, <2>1, CutJoins
  <2>3. dm \o (t \o x) = (dm \o t) \o x /\ dm \o t \in Seq(E)
    BY <2>1, Associates
  <2> QED BY <2>1, <2>2, <2>3
<1>4. bl \o u \in Seq(Seq(E)) /\ Len(bl \o u) = Len(bl) + n /\ (bl \o u)[Len(bl) + n] = u[n]
  <2> DEFINE T == Seq(E)
  <2>1. bl \in Seq(T) /\ u \in Seq(T) /\ Len(u) = n /\ n \in 1 .. Len(u)
    BY <1>1, <1>2
  <2> HIDE DEF T
  <2>3. /\ bl \o u \in Seq(T) /\ Len(bl \o u) = Len(bl) + Len(u)
        /\ \A i \in 1 .. Len(bl) : (bl \o u)[i] = bl[i]
        /\ \A i \in 1 .. Len(u) : (bl \o u)[Len(bl) + i] = u[i]
    <3>1. bl \in Seq(T) /\ u \in Seq(T)
      BY <2>1
    <3> QED BY ONLY <3>1, Joins
  <2>2. bl \o u \in Seq(T) /\ Len(bl \o u) = Len(bl) + n /\ (bl \o u)[Len(bl) + n] = u[n]
    BY <2>1, <2>3
  <2> QED BY <2>2 DEF T
<1>5. Trailing(b, 0, bl \o u)
  <2> SUFFICES ASSUME NEW j \in 1 .. UnitSize  PROVE b[BufferSize - UnitSize + j] = u[n][j]
    BY <1>4 DEF Trailing
  <2> DEFINE p == (n - 1) * UnitSize
  <2>1. p \in Nat /\ n * UnitSize = p + UnitSize
    BY <1>1, UnitEnds
  <2>2. u[n] = SubSeq(b, p + 1, n * UnitSize)
    <3>1. n \in 1 .. Len(u)
      BY <1>1, <1>2
    <3> QED BY <3>1, <1>2 DEF CutInto, UnitOf
  <2> DEFINE r == n * UnitSize
  <2> HIDE DEF p
  <2>3. r = p + UnitSize /\ u[n] = SubSeq(b, p + 1, r) /\ BufferSize = r
    BY <2>1, <2>2, <1>1
  <2> HIDE DEF r
  <2>4. SubSeq(b, p + 1, r)[j] = b[p + 1 + j - 1]
    <3>1. p + 1 \in Int /\ r \in Int /\ 1 <= p + 1 /\ p + 1 <= r + 1 /\ r <= Len(b) /\ j \in 1 .. r + 1 - (p + 1)
      BY <2>1, <2>3, <1>1
    <3> QED BY <3>1, <1>1, Slices
  <2>5. p + 1 + j - 1 = BufferSize - UnitSize + j
    BY <2>1, <2>3, <1>1
  <2> QED BY <2>3, <2>4, <2>5
<1>6. bl \o u # <<>>
  <2>1. Len(bl \o u) # 0
    BY <1>4, <1>1
  <2> QED BY <2>1
<1>7. d \o x \in Seq(E)
  OBVIOUS
<1> QED BY <1>2, <1>3, <1>4, <1>5, <1>6, <1>7 DEF u, Stood

\* Stripes straight from the chunk, all that are followed by more, and the
\* last of them to the end of the buffer.
Straight(body) == IF Len(body) > BufferSize THEN ((Len(body) - 1) \div UnitSize) * UnitSize ELSE 0

Retained(b, body, w) ==
  IF w = 0 THEN b ELSE Put(b, BufferSize - UnitSize, SubSeq(body, w - UnitSize + 1, w))

Passed(E, b, d, bl, body, w) ==
  /\ w \in 0 .. Len(body) /\ Upto(body, w) \in Seq(E) /\ Rest(body, w) \in Seq(E) /\ body = Upto(body, w) \o Rest(body, w)
  /\ Units(Upto(body, w)) \in Seq(Seq(E)) /\ Len(Rest(body, w)) = Len(body) - w /\ Len(body) - w \in 1 .. BufferSize
  /\ Stood(E, Retained(b, body, w), d \o Upto(body, w), bl \o Units(Upto(body, w)))
  /\ (bl # <<>> \/ Len(body) > BufferSize => bl \o Units(Upto(body, w)) # <<>>)

\* Stripes taken straight from the chunk: the buffer keeps the last.
LEMMA StripesPass ==
  ASSUME NEW E, NEW b, NEW d, NEW bl, Stood(E, b, d, bl), NEW body \in Seq(E), body # <<>>, NEW w, w = Straight(body)
  PROVE  Passed(E, b, d, bl, body, w)
<1> DEFINE u == Units(Upto(body, w))
           o == Rest(body, w)
           v == Upto(body, w)
           c == Retained(b, body, w)
<1>1. UnitSize \in Nat \ {0} /\ BufferSize \in Nat \ {0} /\ UnitSize <= BufferSize /\ Len(body) \in Nat \ {0}
      /\ Wide(E, b) /\ d \in Seq(E) /\ bl \in Seq(Seq(E)) /\ CutInto(d, bl, <<>>) /\ Trailing(b, 0, bl)
  <2>1. Len(body) # 0
    OBVIOUS
  <2> QED BY <2>1, BufferSizes DEF Stood
<1>2. CASE ~(Len(body) > BufferSize)
  <2>1. w = 0 /\ c = b
    BY <1>2 DEF Straight, Retained
  <2>2. v = <<>> /\ o = body
    BY <2>1 DEF Upto, Rest
  <2>3. u = <<>>
    <3>1. CutInto(<<>>, <<>>, <<>>)
      BY CutNothing
    <3>2. <<>> \in Seq(E) /\ <<>> \in Seq(Seq(E))
      OBVIOUS
    <3>3. Units(<<>>) = <<>>
      BY <3>1, <3>2, UnitsOfWhole
    <3> QED BY <2>2, <3>3
  <2>4. d \o <<>> = d /\ bl \o <<>> = bl /\ <<>> \o body = body /\ <<>> \in Seq(E) /\ <<>> \in Seq(Seq(E))
    BY <1>1
  <2>5. Len(body) - 0 \in 1 .. BufferSize /\ 0 \in 0 .. Len(body) /\ Len(body) - 0 = Len(body)
    BY <1>1, <1>2
  <2> QED BY <2>1, <2>2, <2>3, <2>4, <2>5, <1>2 DEF Passed
<1>3. CASE Len(body) > BufferSize
  <2>1. w = ((Len(body) - 1) \div UnitSize) * UnitSize
    BY <1>3 DEF Straight
  <2>2. /\ u \in Seq(Seq(E)) /\ o \in Seq(E) /\ Len(o) <= UnitSize
        /\ CutInto(body, u, o) /\ o # <<>>
    BY <2>1, UnitsButOne
  <2> DEFINE m == Len(u)
             T == Seq(E)
  <2>3. CutInto(Upto(body, m * UnitSize), u, <<>>) /\ Upto(body, m * UnitSize) \in Seq(E)
        /\ Len(Upto(body, m * UnitSize)) = m * UnitSize /\ body = Upto(body, m * UnitSize) \o o
    <3> HIDE DEF u, o
    <3> QED BY <2>2, CutOff
  <2>4. w = m * UnitSize /\ w \in 0 .. Len(body) /\ Len(o) = Len(body) - w
    <3>1. w \in Nat /\ w <= Len(body)
      <4> DEFINE l == Len(body) - 1
                 q == l \div UnitSize
                 r == l % UnitSize
                 p == q * UnitSize
      <4>1. l \in Nat /\ w = p
        BY <1>1, <2>1
      <4>2. q \in Nat /\ r \in 0 .. UnitSize - 1 /\ l = p + r
        BY <4>1, <1>1, DivMod
      <4>3. p \in Nat
        BY <4>2, <1>1, Products
      <4> HIDE DEF p, q, r
      <4> QED BY <4>1, <4>2, <4>3, <1>1
    <3>2. Len(body) = m * UnitSize + Len(o) /\ m * UnitSize \in Nat
      <4>1. Len(u) \in Nat
        BY <2>2
      <4> QED BY <4>1, <2>2, <1>1, Products DEF CutInto
    <3> DEFINE x == m * UnitSize
    <3>3. Len(body) = x + Len(o) /\ x \in Nat
      BY <3>2
    <3> HIDE DEF x
    <3>4. Len(o) = Len(body) - w
      BY <3>1, Splits DEF Rest
    <3> HIDE DEF o
    <3>6. w = x /\ w <= Len(body) /\ Len(o) = Len(body) - w
      <4> DEFINE l == Len(body)
                 r == Len(o)
      <4>1. w \in Nat /\ w <= l /\ l = x + r /\ x \in Nat /\ r = l - w /\ l \in Nat
        BY <3>1, <3>3, <3>4, <1>1
      <4> HIDE DEF l, r
      <4>2. w = x
        BY ONLY <4>1
      <4> QED BY <4>1, <4>2 DEF l, r
    <3> QED BY <3>1, <3>6, <1>1 DEF x
  <2>5. CutInto(v, u, <<>>) /\ v \in Seq(E) /\ Len(v) = w /\ body = v \o o
    BY <2>3, <2>4
  <2>6. Len(o) \in 1 .. UnitSize
    <3>1. Len(o) # 0 /\ Len(o) \in Nat
      BY <2>2
    <3> QED BY <3>1, <2>2, <1>1
  <2> HIDE DEF u, o, v, m
  <2>7. w # 0 /\ m \in Nat \ {0}
    <3>1. w # 0
      BY <2>4, <2>6, <1>1, <1>3
    <3>2. m \in Nat
      BY <2>2 DEF m
    <3>3. m = 0 => m * UnitSize = 0
      BY <1>1
    <3> QED BY <3>1, <3>2, <3>3, <2>4
  <2> DEFINE last == SubSeq(body, w - UnitSize + 1, w)
  <2>8. last = u[m] /\ last \in Seq(E) /\ Len(last) = UnitSize
    <3> DEFINE p == (m - 1) * UnitSize
    <3>1. p \in Nat /\ m * UnitSize = p + UnitSize
      BY <1>1, <2>7, UnitEnds
    <3>2. u[m] = SubSeq(body, p + 1, m * UnitSize)
      <4>1. m \in 1 .. Len(u)
        BY <2>7 DEF m
      <4> QED BY <4>1, <2>2 DEF CutInto, UnitOf
    <3> HIDE DEF p
    <3>3. u[m] = SubSeq(body, p + 1, w) /\ w = p + UnitSize
      BY <3>1, <3>2, <2>4
    <3>4. p + 1 = w - UnitSize + 1
      BY <3>1, <3>3, <1>1
    <3>5. SubSeq(body, p + 1, w) \in Seq(E) /\ Len(SubSeq(body, p + 1, w)) = w + 1 - (p + 1)
      <4> DEFINE a == p + 1
      <4>1. a \in Int /\ w \in Int /\ 1 <= a /\ a <= w + 1 /\ w <= Len(body)
        BY <3>1, <3>3, <2>4, <1>1
      <4> HIDE DEF a
      <4>2. SubSeq(body, a, w) \in Seq(E) /\ Len(SubSeq(body, a, w)) = w + 1 - a
        BY <4>1, Slices
      <4> QED BY <4>2 DEF a
    <3>6. w + 1 - (p + 1) = UnitSize
      BY <3>1, <3>3, <1>1
    <3> QED BY <3>3, <3>4, <3>5, <3>6
  <2>9. c = Put(b, BufferSize - UnitSize, last)
    BY <2>7 DEF Retained
  <2> HIDE DEF last, c
  <2> DEFINE at == BufferSize - UnitSize
  <2>10. PutInto(E, b, at, last, c)
    <3>1. at \in Nat /\ at + Len(last) <= BufferSize /\ Wide(E, b)
      BY <1>1, <2>8
    <3> HIDE DEF at
    <3> QED BY <3>1, <2>8, <2>9, PutIs DEF at
  <2>11. bl \o u \in Seq(Seq(E)) /\ Len(bl \o u) = Len(bl) + m /\ (bl \o u)[Len(bl) + m] = u[m] /\ bl \o u # <<>>
    <3>1. bl \in Seq(T) /\ u \in Seq(T)
      BY <1>1, <2>2
    <3> HIDE DEF T
    <3>2. /\ bl \o u \in Seq(T) /\ Len(bl \o u) = Len(bl) + Len(u)
          /\ \A i \in 1 .. Len(bl) : (bl \o u)[i] = bl[i]
          /\ \A i \in 1 .. Len(u) : (bl \o u)[Len(bl) + i] = u[i]
      BY ONLY <3>1, Joins
    <3>3. m \in 1 .. Len(u) /\ Len(bl) \in Nat
      BY <2>7, <3>1 DEF m
    <3>4. Len(bl \o u) # 0
      BY <3>2, <3>3
    <3>5. bl \o u # <<>>
      BY <3>4
    <3> QED BY <3>2, <3>3, <3>5 DEF m, T
  <2>12. Trailing(c, 0, bl \o u)
    <3> SUFFICES ASSUME NEW j \in 1 .. UnitSize  PROVE c[BufferSize - UnitSize + j] = last[j]
      BY <2>8, <2>11 DEF Trailing
    <3>1. at + j \in at + 1 .. at + Len(last) /\ (at + j) - at = j
      BY <1>1, <2>8
    <3> QED BY <3>1, <2>10 DEF PutInto
  <2>13. CutInto(d \o v, bl \o u, <<>>)
    BY <1>1, <2>2, <2>5, CutJoins
  <2>14. d \o v \in Seq(E) /\ Wide(E, c)
    BY <1>1, <2>5, <2>10 DEF PutInto
  <2>15. Stood(E, c, d \o v, bl \o u)
    BY <2>11, <2>12, <2>13, <2>14 DEF Stood
  <2>16. Len(body) - w \in 1 .. BufferSize
    BY <2>4, <2>6, <1>1
  <2> QED BY <2>2, <2>4, <2>5, <2>11, <2>15, <2>16 DEF u, o, v, c, Passed
<1> QED BY <1>2, <1>3

\* The rest goes to the beginning of the buffer.
LEMMA RestIsPut ==
  ASSUME NEW E, NEW b, NEW d, NEW bl, Stood(E, b, d, bl), bl # <<>>, NEW o \in Seq(E), Len(o) \in 1 .. BufferSize,
         Len(d) + Len(o) > BufferSize
  PROVE  Xxh3At(E, [buffer |-> Put(b, 0, o), buffered |-> Len(o), stripes |-> Len(bl) % StripesPerBlock,
                    total |-> Len(d) + Len(o), acc |-> Accumulated(bl)], d \o o)
<1> DEFINE c == Put(b, 0, o)
           z == [buffer |-> c, buffered |-> Len(o), stripes |-> Len(bl) % StripesPerBlock,
                 total |-> Len(d) + Len(o), acc |-> Accumulated(bl)]
           k == Len(o)
           q == Len(bl) % StripesPerBlock
           a == Accumulated(bl)
           n == Len(d) + k
<1>1. /\ BufferSize \in Nat \ {0} /\ Wide(E, b) /\ d \in Seq(E) /\ bl \in Seq(Seq(E)) /\ CutInto(d, bl, <<>>)
      /\ Trailing(b, 0, bl) /\ k \in Nat /\ UnitSize \in Nat /\ UnitSize <= BufferSize
  BY BufferSizes DEF Stood
<1>2. PutInto(E, b, 0, o, c)
  <2> DEFINE at == 0
  <2>1. at \in Nat /\ at + Len(o) <= BufferSize
    BY <1>1
  <2> HIDE DEF at
  <2>2. PutInto(E, b, at, o, Put(b, at, o))
    BY <2>1, <1>1, PutIs
  <2> QED BY <2>2 DEF at
<1> HIDE DEF c, k
<1>3. /\ Wide(E, c) /\ Upto(c, k) = o /\ \A i \in 1 .. BufferSize : i > k => c[i] = b[i]
  <2>1. 0 + k = k /\ Upto(b, 0) = <<>>
    BY <1>1 DEF Upto, Wide
  <2>2. <<>> \o o = o
    OBVIOUS
  <2> QED BY <1>2, <2>1, <2>2 DEF PutInto, k
<1>4. a \in Accs(E) /\ q \in Nat /\ n \in Nat /\ Len(d \o o) = n
  <2>1. <<>> \in Seq(Seq(E)) /\ Len(bl) \in Nat /\ StripesPerBlock \in Nat \ {0}
    BY <1>1, HashesFit
  <2>2. a \in Accs(E)
    BY <2>1, <1>1, ConsumedIs
  <2>3. q \in Nat
    BY <2>1, DivMod
  <2> QED BY <2>2, <2>3, <1>1 DEF k
<1>5. CutInto(d \o o, bl, o)
  <2>1. Len(bl) \in Nat
    BY <1>1
  <2>2. CutInto(d \o o, bl, <<>> \o o)
    BY <2>1, <1>1, CutLonger
  <2>3. <<>> \o o = o
    OBVIOUS
  <2> QED BY <2>2, <2>3
<1>6. Trailing(c, k, bl)
  <2> SUFFICES ASSUME NEW j \in 1 .. UnitSize, BufferSize - UnitSize + j > k
               PROVE  c[BufferSize - UnitSize + j] = bl[Len(bl)][j]
    BY DEF Trailing
  <2> DEFINE i == BufferSize - UnitSize + j
  <2>1. i \in 1 .. BufferSize /\ i > k /\ i > 0
    BY <1>1
  <2>2. c[i] = b[i]
    BY <2>1, <1>3
  <2>3. b[i] = bl[Len(bl)][j]
    BY <2>1, <1>1 DEF Trailing
  <2> QED BY <2>2, <2>3
<1>7. z.buffer = c /\ z.buffered = k /\ z.stripes = q /\ z.total = n /\ z.acc = a
  BY DEF k
<1>8. z \in Xxh3State(E)
  <2> HIDE DEF q, n, a
  <2>1. c \in Seq(E) /\ k \in 0 .. BufferSize
    BY <1>1, <1>3 DEF Wide, k
  <2>2. z = [buffer |-> c, buffered |-> k, stripes |-> q, total |-> n, acc |-> a]
    BY DEF k, q, n, a
  <2> HIDE DEF z
  <2> QED BY <2>1, <2>2, <1>4 DEF Xxh3State
<1>9. Xxh3As(E, z, d \o o, bl)
  <2>1. k # 0 /\ n > BufferSize
    BY DEF k
  <2> HIDE DEF z, n
  <2> QED BY <2>1, <1>3, <1>4, <1>5, <1>6, <1>7, <1>8 DEF Xxh3As, q, a
<1> QED BY <1>1, <1>9 DEF Xxh3At, z, c, k

\* Before more comes than fits, the buffer is filled up and its stripes go.
LEMMA BufferGoes ==
  ASSUME NEW E, NEW d \in Seq(E), NEW s, Xxh3At(E, s, d), NEW chunk \in Seq(E), Len(chunk) > BufferSize - s.buffered,
         NEW load, load = IF s.buffered = 0 THEN 0 ELSE BufferSize - s.buffered
  PROVE  LET filled == Put(s.buffer, s.buffered, Upto(chunk, load))
             first  == Consumed(s.acc, s.stripes, IF s.buffered = 0 THEN <<>> ELSE Units(filled))
         IN \E bl : /\ Stood(E, filled, d \o Upto(chunk, load), bl) /\ (s.buffered # 0 => bl # <<>>)
                    /\ first = [acc |-> Accumulated(bl), soFar |-> Len(bl) % StripesPerBlock]
<1>0. PICK bl \in Seq(Seq(E)) : Xxh3As(E, s, d, bl)
  BY DEF Xxh3At
<1> DEFINE k == s.buffered
           b == s.buffer
           x == Upto(chunk, load)
           c == Put(b, k, x)
           t == Upto(b, k)
           u == IF k = 0 THEN <<>> ELSE Units(c)
<1>1. /\ Wide(E, b) /\ CutInto(d, bl, t) /\ (k = 0 => d = <<>>) /\ Trailing(b, k, bl)
      /\ s.acc = Accumulated(bl) /\ s.stripes = Len(bl) % StripesPerBlock
      /\ k \in 0 .. BufferSize /\ BufferSize \in Nat \ {0} /\ UnitSize \in Nat \ {0} /\ UnitSize <= BufferSize /\ k \in Nat
  BY <1>0, BufferSizes DEF Xxh3As, Xxh3State
<1>2. load = IF k = 0 THEN 0 ELSE BufferSize - k
  OBVIOUS
<1>3. x \in Seq(E) /\ Len(x) = load /\ load \in Nat /\ k + load <= BufferSize /\ t \in Seq(E)
  <2>1. load \in 0 .. Len(chunk)
    BY <1>1, <1>2
  <2>2. x \in Seq(E) /\ Len(x) = load
    BY <2>1 DEF Upto
  <2>3. t \in Seq(E)
    BY <1>1 DEF Upto, Wide
  <2> QED BY <2>1, <2>2, <2>3, <1>1, <1>2
<1> HIDE DEF k, b, x
<1>4. PutInto(E, b, k, x, c)
  <2>1. k + Len(x) <= BufferSize
    BY <1>3
  <2> QED BY <2>1, <1>1, <1>3, PutIs
<1> HIDE DEF c
<1>5. Wide(E, c) /\ Upto(c, k + load) = t \o x /\ \A i \in 1 .. BufferSize : i > k + load => c[i] = b[i]
  BY <1>3, <1>4 DEF PutInto
<1>6. u \in Seq(Seq(E)) /\ Stood(E, c, d \o x, bl \o u) /\ (k # 0 => bl \o u # <<>>)
  <2>1. CASE k = 0
    <3>1. x = <<>> /\ d = <<>> /\ u = <<>> /\ load = 0
      BY <2>1, <1>1, <1>2, <1>3
    <3> HIDE DEF u
    <3>2. d \o x = d /\ bl \o u = bl /\ u \in Seq(Seq(E))
      BY <3>1
    <3>3. t = <<>>
      BY <2>1, <1>1 DEF Upto, Wide
    <3>4. Trailing(c, 0, bl)
      <4> SUFFICES ASSUME bl # <<>>, NEW j \in 1 .. UnitSize
                   PROVE  c[BufferSize - UnitSize + j] = bl[Len(bl)][j]
        BY DEF Trailing
      <4> DEFINE i == BufferSize - UnitSize + j
      <4>1. i \in 1 .. BufferSize /\ i > k /\ i > k + load
        BY <1>1, <2>1, <3>1
      <4>2. c[i] = b[i]
        BY <4>1, <1>5
      <4>3. b[i] = bl[Len(bl)][j]
        BY <4>1, <1>1 DEF Trailing
      <4> QED BY <4>2, <4>3
    <3> QED BY <3>2, <3>3, <3>4, <1>1, <1>5, <2>1 DEF Stood
  <2>2. CASE k # 0
    <3>a. u = Units(c)
      BY <2>2
    <3>b. load = BufferSize - k
      BY <2>2, <1>2
    <3> HIDE DEF u
    <3>c. k \in Nat /\ BufferSize \in Nat
      BY <1>1
    <3>d. k + load = BufferSize
      BY ONLY <3>b, <3>c
    <3>1. k + load = BufferSize /\ u = Units(c)
      BY <3>a, <3>d
    <3>2. c = t \o x
      <4>1. Upto(c, BufferSize) = c
        BY <1>1, <1>5 DEF Upto, Wide
      <4> QED BY <4>1, <3>1, <1>5
    <3> HIDE DEF t, u
    <3>3. Stood(E, c, d \o x, bl \o Units(c)) /\ Units(c) \in Seq(Seq(E)) /\ bl \o Units(c) # <<>>
      BY <3>2, <1>1, <1>3, <1>5, StripesFill
    <3> QED BY <3>1, <3>3
  <2> QED BY <2>1, <2>2
<1> HIDE DEF u
<1>7. Consumed(s.acc, s.stripes, u) = [acc |-> Accumulated(bl \o u), soFar |-> Len(bl \o u) % StripesPerBlock]
  BY <1>1, <1>6, ConsumedIs
<1> QED BY <1>6, <1>7 DEF u, c, x, b, k

\* XXH3.update, whichever way it takes.
LEMMA Xxh3GoesOn ==
  ASSUME NEW E, NEW d \in Seq(E), NEW s, Xxh3At(E, s, d), NEW chunk \in Seq(E)
  PROVE  Xxh3At(E, Xxh3Update(s, chunk), d \o chunk)
<1>1. s.buffered \in 0 .. BufferSize /\ BufferSize \in Nat \ {0} /\ s.total = Len(d) /\ Len(d) >= s.buffered
  <2>1. PICK bl \in Seq(Seq(E)) : Xxh3As(E, s, d, bl)
    BY DEF Xxh3At
  <2>2. s.buffered \in 0 .. BufferSize /\ Wide(E, s.buffer) /\ s.total = Len(d) /\ BufferSize \in Nat \ {0}
        /\ CutInto(d, bl, Upto(s.buffer, s.buffered))
    BY <2>1, BufferSizes DEF Xxh3As, Xxh3State
  <2>3. Len(bl) * UnitSize \in Nat
    <3>1. Len(bl) \in Nat /\ UnitSize \in Nat
      BY BufferSizes
    <3> QED BY <3>1, Products
  <2>4. Len(Upto(s.buffer, s.buffered)) = s.buffered
    BY <2>2 DEF Upto, Wide
  <2> DEFINE m == Len(bl) * UnitSize
  <2>5. Len(d) = m + s.buffered /\ m \in Nat
    BY <2>2, <2>3, <2>4 DEF CutInto
  <2> HIDE DEF m
  <2> QED BY <2>2, <2>5
<1>2. CASE Len(chunk) <= BufferSize - s.buffered
  BY <1>2, Xxh3Fits
<1>3. CASE ~(Len(chunk) <= BufferSize - s.buffered)
  <2> DEFINE k        == s.buffered
             load     == IF k = 0 THEN 0 ELSE BufferSize - k
             x        == Upto(chunk, load)
             filled   == Put(s.buffer, k, x)
             first    == Consumed(s.acc, s.stripes, IF k = 0 THEN <<>> ELSE Units(filled))
             body     == Rest(chunk, load)
             whole    == Straight(body)
             v        == Upto(body, whole)
             second   == Consumed(first.acc, first.soFar, Units(v))
             retained == Retained(filled, body, whole)
             o        == Rest(body, whole)
             z        == [buffer |-> Put(retained, 0, o), buffered |-> Len(body) - whole,
                          stripes |-> second.soFar, total |-> s.total + Len(chunk), acc |-> second.acc]
  <2>1. Xxh3Update(s, chunk) = z
    BY <1>3 DEF Xxh3Update, Straight, Retained
  <2> HIDE DEF z
  <2>2. /\ load \in 0 .. Len(chunk) /\ x \in Seq(E) /\ body \in Seq(E) /\ chunk = x \o body /\ Len(chunk) \in Nat /\ Len(d) \in Nat
        /\ Len(body) = Len(chunk) - load /\ body # <<>> /\ Len(chunk) > BufferSize - k /\ (k = 0 => Len(body) > BufferSize)
    <3>1. Len(chunk) \in Nat /\ Len(chunk) > BufferSize - k /\ load \in 0 .. Len(chunk) /\ load < Len(chunk)
      BY <1>1, <1>3
    <3> DEFINE l == load
    <3>0. k = 0 => l = 0
      OBVIOUS
    <3> HIDE DEF l
    <3>2. chunk = SubSeq(chunk, 1, l) \o SubSeq(chunk, l + 1, Len(chunk))
         /\ SubSeq(chunk, 1, l) \in Seq(E) /\ SubSeq(chunk, l + 1, Len(chunk)) \in Seq(E)
         /\ Len(SubSeq(chunk, l + 1, Len(chunk))) = Len(chunk) - l
      <4>1. l \in Nat /\ l <= Len(chunk)
        BY <3>1 DEF l
      <4> QED BY <4>1, Splits
    <3>3. chunk = x \o body /\ x \in Seq(E) /\ body \in Seq(E) /\ Len(body) = Len(chunk) - l
      BY <3>2 DEF Upto, Rest, l
    <3>5. l \in 0 .. Len(chunk) /\ l < Len(chunk)
      BY <3>1 DEF l
    <3> HIDE DEF body, x, k, load
    <3>4. Len(body) # 0
      BY <3>1, <3>3, <3>5
    <3>6. k = 0 => Len(body) > BufferSize
      BY <3>0, <3>1, <3>3, <1>1
    <3>7. body # <<>>
      BY <3>4
    <3> QED BY <3>1, <3>3, <3>5, <3>6, <3>7 DEF l
  <2>3. PICK bl : /\ Stood(E, filled, d \o x, bl) /\ (k # 0 => bl # <<>>)
                  /\ first = [acc |-> Accumulated(bl), soFar |-> Len(bl) % StripesPerBlock]
    <3> DEFINE ld == load
    <3>1. ld = (IF s.buffered = 0 THEN 0 ELSE BufferSize - s.buffered) /\ Len(chunk) > BufferSize - s.buffered
      BY <2>2
    <3> HIDE DEF ld
    <3>2. \E bl : /\ Stood(E, Put(s.buffer, s.buffered, Upto(chunk, ld)), d \o Upto(chunk, ld), bl)
                  /\ (s.buffered # 0 => bl # <<>>)
                  /\ Consumed(s.acc, s.stripes, IF s.buffered = 0 THEN <<>> ELSE Units(Put(s.buffer, s.buffered, Upto(chunk, ld)))) =
                       [acc |-> Accumulated(bl), soFar |-> Len(bl) % StripesPerBlock]
      BY <3>1, BufferGoes
    <3> QED BY <3>2 DEF ld
  <2>4. first.acc = Accumulated(bl) /\ first.soFar = Len(bl) % StripesPerBlock
    BY <2>3
  <2> HIDE DEF body, x, filled, first, whole, load
  <2> DEFINE cl == bl \o Units(v)
             e  == (d \o x) \o v
  <2>5. /\ v \in Seq(E) /\ o \in Seq(E) /\ body = v \o o /\ Units(v) \in Seq(Seq(E))
        /\ Len(o) = Len(body) - whole /\ Len(o) \in 1 .. BufferSize /\ Stood(E, retained, e, cl)
        /\ (bl # <<>> \/ Len(body) > BufferSize => cl # <<>>)
    <3> DEFINE dx == d \o x
    <3>1. Stood(E, filled, dx, bl) /\ body \in Seq(E) /\ body # <<>>
      BY <2>2, <2>3
    <3> HIDE DEF dx
    <3>0. whole = Straight(body)
      BY DEF whole
    <3>2. Passed(E, filled, dx, bl, body, whole)
      BY <3>0, <3>1, StripesPass
    <3> QED BY <3>2 DEF dx, Passed
  <2>6. second = [acc |-> Accumulated(cl), soFar |-> Len(cl) % StripesPerBlock]
    <3>1. bl \in Seq(Seq(E))
      BY <2>3 DEF Stood
    <3> QED BY <3>1, <2>4, <2>5, ConsumedIs
  <2>7. second.acc = Accumulated(cl) /\ second.soFar = Len(cl) % StripesPerBlock
    BY <2>6
  <2> HIDE DEF second, retained, v, o
  <2>8. cl # <<>>
    BY <2>2, <2>3, <2>5
  <2>9. e \o o = d \o chunk
    <3>0. d \in Seq(E) /\ x \in Seq(E) /\ v \in Seq(E) /\ o \in Seq(E)
      BY <2>2, <2>5
    <3>1. d \o (x \o v) = (d \o x) \o v /\ d \o x \in Seq(E)
      BY ONLY <3>0, Associates
    <3> DEFINE xv == x \o v
    <3>2. xv \in Seq(E)
      BY <2>2, <2>5
    <3>3. x \o (v \o o) = (x \o v) \o o /\ x \o v \in Seq(E)
      BY ONLY <3>0, Associates
    <3> HIDE DEF xv
    <3>4. d \o (xv \o o) = (d \o xv) \o o /\ d \o xv \in Seq(E)
      BY ONLY <3>0, <3>2, Associates
    <3> QED BY <3>1, <3>3, <3>4, <2>2, <2>5 DEF xv
  <2>10. e \in Seq(E) /\ Len(e) + Len(o) = Len(d) + Len(chunk)
    <3>1. e \in Seq(E)
      BY <2>5 DEF Stood
    <3> HIDE DEF e
    <3>2. Len(e \o o) = Len(e) + Len(o) /\ Len(d \o chunk) = Len(d) + Len(chunk)
      BY <3>1, <2>5
    <3> QED BY <3>1, <3>2, <2>9
  <2> HIDE DEF e, cl
  <2>11. Len(e) + Len(o) > BufferSize
    BY <2>2, <2>10, <1>1
  <2>12. Xxh3At(E, [buffer |-> Put(retained, 0, o), buffered |-> Len(o), stripes |-> Len(cl) % StripesPerBlock,
                    total |-> Len(e) + Len(o), acc |-> Accumulated(cl)], e \o o)
    BY <2>5, <2>8, <2>11, RestIsPut
  <2>13. z = [buffer |-> Put(retained, 0, o), buffered |-> Len(o), stripes |-> Len(cl) % StripesPerBlock,
              total |-> Len(e) + Len(o), acc |-> Accumulated(cl)]
    BY <2>5, <2>7, <2>10, <1>1 DEF z, o
  <2> QED BY <2>1, <2>9, <2>12, <2>13
<1> QED BY <1>2, <1>3

\* Stripes that are the first of a message accumulate to what hashLong does.
LEMMA LongIs ==
  ASSUME NEW E, NEW d \in Seq(E), NEW v \in Seq(Seq(E)), NEW o \in Seq(E), CutInto(d, v, o), Len(o) \in 1 .. UnitSize,
         Len(d) > ShortInput
  PROVE  Xxh3Of(d) = Accumulated(v) \o <<<<"last", Rest(d, Len(d) - UnitSize)>>, <<"length", Len(d)>>>>
<1> DEFINE n == Len(v)
           stripes == (Len(d) - 1) \div UnitSize
           Stripe(i) == <<SubSeq(d, (i - 1) * UnitSize + 1, i * UnitSize), (i - 1) % StripesPerBlock>>
           Eq(f, m) == f = [i \in 0 .. m |->
                              IF i = 0 THEN <<>>
                              ELSE Append(f[i - 1], Stripe(i)) \o IF i % StripesPerBlock = 0 THEN <<<<"scramble">>>> ELSE <<>>]
           acc(m) == CHOOSE f : Eq(f, m)
           tail == <<<<"last", Rest(d, Len(d) - UnitSize)>>, <<"length", Len(d)>>>>
<1>1. UnitSize \in Nat \ {0} /\ n \in Nat /\ Len(d) \in Nat /\ ShortInput \in Nat /\ ~(Len(d) <= ShortInput)
  <2>1. ShortInput \in Nat
    <3>1. ShortInput \in UnitSize .. BufferStripes * UnitSize /\ UnitSize \in Nat
      BY HashesFit, BufferSizes
    <3> QED BY <3>1
  <2> QED BY <2>1, UnitsAreUnits
<1>2. stripes = n
  <2> DEFINE m == n * UnitSize
             r == Len(o) - 1
  <2>1. Len(d) = m + Len(o) /\ m \in Nat
    BY <1>1, Products DEF CutInto
  <2>2. (n * UnitSize + r) \div UnitSize = n
    <3>1. r \in 0 .. UnitSize - 1
      BY <1>1
    <3> HIDE DEF r
    <3> QED BY <3>1, <1>1, DivIs
  <2>3. (m + r) \div UnitSize = n
    BY <2>2
  <2> HIDE DEF m
  <2>4. Len(d) - 1 = m + r
    BY <2>1, <1>1
  <2> QED BY <2>3, <2>4
<1>3. Xxh3Of(d) = acc(stripes)[stripes] \o tail
  <2>1. ~(Len(d) <= ShortInput)
    BY <1>1
  <2> QED BY <2>1 DEF Xxh3Of
<1> HIDE DEF stripes, tail
<1>4. PICK f : Adds(E, f, v, n) /\ Accumulated(v) = f[n]
  BY AccumulatedIs
<1>5. f \in [0 .. n -> Accs(E)] /\ f[0] = <<>> /\ \A i \in 1 .. n : f[i] = Added(f[i - 1], v[i], i)
  BY <1>4 DEF Adds
<1>6. ASSUME NEW i \in 1 .. n
      PROVE  f[i] = Append(f[i - 1], Stripe(i)) \o IF i % StripesPerBlock = 0 THEN <<<<"scramble">>>> ELSE <<>>
  <2>1. v[i] = SubSeq(d, (i - 1) * UnitSize + 1, i * UnitSize)
    BY DEF CutInto, UnitOf
  <2> QED BY <2>1, <1>5 DEF Added, Scramble
<1> DEFINE Go(a, i) == Append(a, Stripe(i)) \o IF i % StripesPerBlock = 0 THEN <<<<"scramble">>>> ELSE <<>>
           after == acc(n)
<1>7. after = CHOOSE g : g = [i \in 0 .. n |-> IF i = 0 THEN <<>> ELSE Go(g[i - 1], i)]
  OBVIOUS
<1>8. \A i \in 1 .. n : f[i] = Go(f[i - 1], i)
  BY <1>6
<1>a. acc(stripes)[stripes] = after[n]
  BY <1>2
<1> HIDE DEF Go, after, acc, n
<1>9. f = [i \in 0 .. n |-> IF i = 0 THEN <<>> ELSE Go(f[i - 1], i)]
  <2>1. \A i \in 0 .. n : f[i] = IF i = 0 THEN <<>> ELSE Go(f[i - 1], i)
    <3> SUFFICES ASSUME NEW i \in 0 .. n  PROVE f[i] = IF i = 0 THEN <<>> ELSE Go(f[i - 1], i)
      OBVIOUS
    <3>1. i = 0 \/ i \in 1 .. n
      BY <1>1
    <3> QED BY <3>1, <1>5, <1>8
  <2>2. f = [i \in 0 .. n |-> f[i]]
    BY <1>5
  <2> QED BY <2>1, <2>2
<1> DEFINE Is(g) == g = [i \in 0 .. n |-> IF i = 0 THEN <<>> ELSE Go(g[i - 1], i)]
<1>10. Is(after)
  <2>1. Is(f)
    BY <1>9
  <2>2. after = CHOOSE g : Is(g)
    BY <1>7
  <2> HIDE DEF Is
  <2> QED BY <2>1, <2>2
<1>11. after[n] = f[n]
  <2>1. after[0] = <<>> /\ \A i \in 1 .. n : after[i] = Go(after[i - 1], i)
    BY <1>10, <1>1
  <2>2. GoAlike(after, f, n)
    BY <2>1, <1>5, <1>8 DEF GoAlike
  <2>3. n \in 0 .. n
    BY <1>1
  <2> QED BY <2>2, <2>3, <1>1, SameRuns
<1> QED BY <1>3, <1>4, <1>11, <1>a DEF tail

\* The last bytes of a message whose rest is shorter than a stripe: the end of
\* the buffer still has those before it.
LEMMA LastStripe ==
  ASSUME NEW E, NEW b, Wide(E, b), NEW d \in Seq(E), NEW bl \in Seq(Seq(E)), bl # <<>>,
         NEW k \in 0 .. UnitSize - 1, CutInto(d, bl, Upto(b, k)), Trailing(b, k, bl)
  PROVE  Rest(b, BufferSize - (UnitSize - k)) \o Upto(b, k) = Rest(d, Len(d) - UnitSize)
<1> DEFINE q == Len(bl)
           m == q * UnitSize
           dm == Upto(d, m)
           t == Upto(b, k)
           g == UnitSize - k
           x == SubSeq(b, BufferSize - g + 1, BufferSize)
           y == SubSeq(dm, m - g + 1, m)
           p == (q - 1) * UnitSize
<1>1. /\ UnitSize \in Nat \ {0} /\ BufferSize \in Nat \ {0} /\ UnitSize <= BufferSize /\ q \in Nat \ {0}
      /\ b \in Seq(E) /\ Len(b) = BufferSize /\ g \in 1 .. UnitSize /\ k \in Nat /\ k + g = UnitSize
  <2>1. q # 0
    OBVIOUS
  <2> QED BY <2>1, BufferSizes DEF Wide
<1>2. t \in Seq(E) /\ Len(t) = k
  BY <1>1 DEF Upto
<1>3. CutInto(dm, bl, <<>>) /\ dm \in Seq(E) /\ Len(dm) = m /\ d = dm \o t
  <2> HIDE DEF t
  <2>1. CutInto(d, bl, t)
    BY DEF t
  <2> QED BY <2>1, CutOff
<1>4. p \in Nat /\ m = p + UnitSize
  <2>1. q \in Nat /\ UnitSize \in Nat /\ q >= 1
    BY <1>1
  <2> HIDE DEF q
  <2>2. q * UnitSize = (q - 1) * UnitSize + UnitSize /\ (q - 1) * UnitSize \in Nat /\ q * UnitSize \in Nat
    BY <2>1, UnitEnds
  <2> QED BY <2>2
<1>5. bl[q] = SubSeq(dm, p + 1, m)
  <2>1. q \in 1 .. Len(bl)
    BY <1>1
  <2> QED BY <2>1, <1>3 DEF CutInto, UnitOf
<1> HIDE DEF p, m, dm, t, g, q
<1>6. x \in Seq(E) /\ Len(x) = g /\ \A i \in 1 .. g : x[i] = b[BufferSize - g + i]
  <2> DEFINE a == BufferSize - g + 1
  <2>1. a \in Int /\ BufferSize \in Int /\ 1 <= a /\ a <= BufferSize + 1 /\ BufferSize <= Len(b)
        /\ BufferSize + 1 - a = g /\ \A i \in 1 .. g : a + i - 1 = BufferSize - g + i
    BY <1>1
  <2> HIDE DEF a
  <2>2. SubSeq(b, a, BufferSize) \in Seq(E) /\ Len(SubSeq(b, a, BufferSize)) = BufferSize + 1 - a
        /\ \A i \in 1 .. BufferSize + 1 - a : SubSeq(b, a, BufferSize)[i] = b[a + i - 1]
    BY <2>1, <1>1, Slices
  <2>3. x = SubSeq(b, a, BufferSize)
    BY DEF a
  <2> HIDE DEF x
  <2> QED BY <2>1, <2>2, <2>3
<1>7. y \in Seq(E) /\ Len(y) = g /\ \A i \in 1 .. g : y[i] = dm[m - g + i]
  <2> DEFINE a == m - g + 1
  <2>1. a \in Int /\ m \in Int /\ 1 <= a /\ a <= m + 1 /\ m <= Len(dm)
        /\ m + 1 - a = g /\ \A i \in 1 .. g : a + i - 1 = m - g + i
    BY <1>1, <1>3, <1>4
  <2> HIDE DEF a, y
  <2>2. SubSeq(dm, a, m) \in Seq(E) /\ Len(SubSeq(dm, a, m)) = m + 1 - a
        /\ \A i \in 1 .. m + 1 - a : SubSeq(dm, a, m)[i] = dm[a + i - 1]
    <3>1. dm \in Seq(E) /\ a \in Int /\ m \in Int /\ 1 <= a /\ a <= m + 1 /\ m <= Len(dm)
      BY <2>1, <1>3
    <3> QED BY ONLY <3>1, Slices
  <2>3. y = SubSeq(dm, a, m)
    BY DEF a, y
  <2> QED BY <2>1, <2>2, <2>3
<1>8. ASSUME NEW i \in 1 .. g  PROVE x[i] = y[i]
  <2> DEFINE j == k + i
  <2>1. j \in 1 .. UnitSize /\ BufferSize - UnitSize + j > k /\ BufferSize - UnitSize + j = BufferSize - g + i
    BY <1>1
  <2> HIDE DEF j
  <2>2. b[BufferSize - UnitSize + j] = bl[q][j]
    BY <2>1 DEF Trailing, q
  <2>3. bl[q][j] = dm[p + j]
    <3> DEFINE a == p + 1
    <3>1. a \in Int /\ m \in Int /\ 1 <= a /\ a <= m + 1 /\ m <= Len(dm) /\ j \in 1 .. m + 1 - a /\ a + j - 1 = p + j
      BY <2>1, <1>1, <1>3, <1>4
    <3> HIDE DEF a
    <3>2. SubSeq(dm, a, m)[j] = dm[a + j - 1]
      BY <3>1, <1>3, Slices
    <3> QED BY <3>1, <3>2, <1>5 DEF a
  <2>4. p + j = m - g + i
    BY <1>1, <1>4 DEF j
  <2> QED BY <2>1, <2>2, <2>3, <2>4, <1>6, <1>7
<1> HIDE DEF x, y
<1>9. x = y
  <2>1. Len(x) = g /\ Len(y) = g /\ g \in Nat /\ x \in Seq(E) /\ y \in Seq(E) /\ \A i \in 1 .. g : x[i] = y[i]
    BY <1>1, <1>6, <1>7, <1>8
  <2> QED BY ONLY <2>1
<1>10. SubSeq(dm \o t, m - g + 1, m + k) = y \o t
  <2> DEFINE a == m - g + 1
  <2>1. a \in Int /\ 1 <= a /\ a <= Len(dm) + 1
    BY <1>1, <1>3, <1>4
  <2> HIDE DEF a
  <2>2. SubSeq(dm \o t, a, Len(dm) + Len(t)) = SubSeq(dm, a, Len(dm)) \o t
    BY <2>1, <1>2, <1>3, CrossSlice
  <2> QED BY <2>2, <1>2, <1>3 DEF a, y
<1>11. Len(d) = m + k /\ Len(d) - UnitSize + 1 = m - g + 1
  <2>5. dm \in Seq(E) /\ t \in Seq(E) /\ d = dm \o t
    BY <1>2, <1>3
  <2>6. Len(dm \o t) = Len(dm) + Len(t)
    BY ONLY <2>5
  <2>1. Len(d) = Len(dm) + Len(t)
    BY ONLY <2>5, <2>6
  <2>2. m \in Nat
    BY <1>1, <1>4
  <2>3. Len(d) = m + k
    BY <2>1, <1>2, <1>3
  <2>4. k \in Nat /\ g \in Nat /\ UnitSize \in Nat /\ k + g = UnitSize
    BY <1>1
  <2> QED BY ONLY <2>2, <2>3, <2>4
<1>12. Rest(d, Len(d) - UnitSize) = y \o t
  BY <1>3, <1>10, <1>11 DEF Rest
<1>13. Rest(b, BufferSize - (UnitSize - k)) = x
  BY <1>1 DEF Rest, x, g
<1> QED BY <1>9, <1>12, <1>13 DEF t

\* XXH3.digest, of a long message and of a short one.
LEMMA Xxh3Closes ==
  ASSUME NEW E, NEW d \in Seq(E), NEW s, Xxh3At(E, s, d)
  PROVE  Xxh3Digest(s) = Xxh3Of(d) /\ \E T : Xxh3Digest(s) \in Seq(T)
<1>0. PICK bl \in Seq(Seq(E)) : Xxh3As(E, s, d, bl)
  BY DEF Xxh3At
<1> DEFINE k == s.buffered
           b == s.buffer
           held == Upto(b, k)
           n == Len(d)
           m == Len(bl) * UnitSize
<1>1. /\ Wide(E, b) /\ CutInto(d, bl, held) /\ (k = 0 => d = <<>>) /\ Trailing(b, k, bl) /\ (bl # <<>> => n > BufferSize)
      /\ s.acc = Accumulated(bl) /\ s.stripes = Len(bl) % StripesPerBlock /\ s.total = n
      /\ k \in 0 .. BufferSize /\ BufferSize \in Nat \ {0} /\ UnitSize \in Nat \ {0} /\ UnitSize <= BufferSize /\ k \in Nat
  BY <1>0, BufferSizes DEF Xxh3As, Xxh3State
<1>2. held \in Seq(E) /\ Len(held) = k /\ n \in Nat /\ n = m + k /\ m \in Nat
  <2>1. held \in Seq(E) /\ Len(held) = k
    BY <1>1 DEF Upto, Wide
  <2>2. m \in Nat
    <3>1. Len(bl) \in Nat /\ UnitSize \in Nat
      BY <1>1
    <3> QED BY <3>1, Products
  <2>3. n = m + k
    BY <1>1, <2>1 DEF CutInto
  <2> QED BY <2>1, <2>2, <2>3
<1>6. CutInto(Upto(d, m), bl, <<>>) /\ Upto(d, m) \in Seq(E) /\ Len(Upto(d, m)) = m /\ d = Upto(d, m) \o held
  <2> HIDE DEF held
  <2>1. d \in Seq(E) /\ bl \in Seq(Seq(E)) /\ CutInto(d, bl, held)
    BY <1>1
  <2> QED BY ONLY <2>1, CutOff
<1>3. ShortInput \in UnitSize .. BufferSize
  BY HashesFit, BufferSizes
<1>4. CASE n <= ShortInput
  <2>1. bl = <<>>
    <3>1. ~(n > BufferSize)
      BY <1>1, <1>2, <1>3, <1>4
    <3> QED BY <3>1, <1>1
  <2>2. m = 0
    <3>1. Len(bl) = 0
      BY <2>1
    <3> QED BY <3>1, <1>1
  <2>3. held = d
    <3>1. held = SubSeq(d, m + 1, n)
      BY <1>1 DEF CutInto
    <3> QED BY <3>1, <2>2
  <2>4. n = k
    BY <2>2, <1>2
  <2>5. Xxh3Digest(s) = <<<<"short", d>>>>
    <3>1. Xxh3Digest(s) = <<<<"short", Upto(b, n)>>>>
      BY <1>1, <1>4 DEF Xxh3Digest
    <3> QED BY <3>1, <2>3, <2>4
  <2>6. Xxh3Of(d) = <<<<"short", d>>>>
    BY <1>4 DEF Xxh3Of
  <2> DEFINE y == <<"short", d>>
  <2>7. <<y>> \in Seq({y})
    <3> HIDE DEF y
    <3> QED OBVIOUS
  <2> QED BY <2>5, <2>6, <2>7
<1>5. CASE ~(n <= ShortInput)
  <2> DEFINE whole == ((k - 1) \div UnitSize) * UnitSize
             last == IF k >= UnitSize THEN Rest(held, k - UnitSize) ELSE Rest(b, BufferSize - (UnitSize - k)) \o held
             u    == IF k >= UnitSize THEN Units(Upto(held, whole)) ELSE <<>>
             o    == IF k >= UnitSize THEN Rest(held, whole) ELSE held
             acc  == IF k >= UnitSize THEN Consumed(s.acc, s.stripes, Units(Upto(held, whole))).acc ELSE s.acc
             v    == bl \o u
             l1   == <<"last", last>>
             l2   == <<"length", n>>
  <2>1. Xxh3Digest(s) = acc \o <<l1, l2>>
    <3>1. ~(s.total <= ShortInput)
      BY <1>1, <1>5
    <3>2. s.total = n
      BY <1>1
    <3> QED BY <3>1, <3>2 DEF Xxh3Digest
  <2>2. k # 0 /\ Len(d) > ShortInput
    <3>1. n > ShortInput
      BY <1>2, <1>3, <1>5
    <3>2. n # 0
      BY <3>1, <1>1, <1>2, <1>3
    <3>3. d # <<>>
      BY <3>2
    <3> QED BY <3>1, <3>3, <1>1
  <2>3. v \in Seq(Seq(E)) /\ o \in Seq(E) /\ CutInto(d, v, o) /\ Len(o) \in 1 .. UnitSize /\ acc = Accumulated(v) /\ acc \in Accs(E)
    <3>1. CASE k >= UnitSize
      <4>1. held # <<>> /\ whole = ((Len(held) - 1) \div UnitSize) * UnitSize
        BY <1>2, <2>2
      <4> DEFINE c == Units(Upto(held, whole))
                 r == Rest(held, whole)
      <4>2. u = c /\ o = r /\ acc = Consumed(s.acc, s.stripes, c).acc
        BY <3>1
      <4> HIDE DEF held, u, o, acc
      <4> DEFINE w == IF held = <<>> THEN 0 ELSE ((Len(held) - 1) \div UnitSize) * UnitSize
      <4>11. /\ Units(Upto(held, w)) \in Seq(Seq(E)) /\ Rest(held, w) \in Seq(E) /\ Len(Rest(held, w)) <= UnitSize
             /\ CutInto(held, Units(Upto(held, w)), Rest(held, w)) /\ (Rest(held, w) = <<>> => held = <<>>)
        <5>1. held \in Seq(E)
          BY <1>2
        <5> QED BY ONLY <5>1, UnitsButOne
      <4>12. w = whole
        BY <4>1
      <4> HIDE DEF w, whole
      <4>3. /\ c \in Seq(Seq(E)) /\ r \in Seq(E) /\ Len(r) <= UnitSize /\ CutInto(held, c, r) /\ r # <<>>
        BY <4>1, <4>11, <4>12
      <4> HIDE DEF c, r
      <4> DEFINE dm == Upto(d, m)
      <4>4. CutInto(dm, bl, <<>>) /\ dm \in Seq(E) /\ d = dm \o held
        BY <1>6
      <4> HIDE DEF dm
      <4>5. CutInto(dm \o held, bl \o c, r)
        BY <4>3, <4>4, <1>2, CutJoins
      <4>6. bl \o c \in Seq(Seq(E))
        BY <4>3
      <4>7. Consumed(s.acc, s.stripes, c) = [acc |-> Accumulated(bl \o c), soFar |-> Len(bl \o c) % StripesPerBlock]
        BY <4>3, <1>1, ConsumedIs
      <4>8. <<>> \in Seq(Seq(E))
        OBVIOUS
      <4>9. Accumulated(bl \o c) \in Accs(E)
        BY <4>6, <4>8, ConsumedIs
      <4>10. Len(r) \in 1 .. UnitSize
        <5>1. Len(r) # 0 /\ Len(r) \in Nat
          BY <4>3
        <5> QED BY <5>1, <4>3, <1>1
      <4> QED BY <4>2, <4>3, <4>4, <4>5, <4>6, <4>7, <4>9, <4>10
    <3>2. CASE ~(k >= UnitSize)
      <4>1. u = <<>> /\ o = held /\ acc = s.acc
        BY <3>2
      <4> HIDE DEF held, u, o, acc
      <4>2. bl \o u = bl
        BY <4>1
      <4>3. <<>> \in Seq(Seq(E))
        OBVIOUS
      <4>4. Accumulated(bl) \in Accs(E)
        BY <4>3, ConsumedIs
      <4>5. k \in 1 .. UnitSize
        BY <3>2, <2>2, <1>1
      <4> QED BY <4>1, <4>2, <4>4, <4>5, <1>1, <1>2
    <3> QED BY <3>1, <3>2
  <2>4. last = Rest(d, n - UnitSize)
    <3>1. CASE k >= UnitSize
      <4> DEFINE dm == Upto(d, m)
                 a  == k - UnitSize + 1
      <4>1. CutInto(dm, bl, <<>>) /\ dm \in Seq(E) /\ Len(dm) = m /\ d = dm \o held
        BY <1>6
      <4>5. k >= UnitSize
        BY <3>1
      <4> HIDE DEF dm, held, m, k
      <4>2. a \in Int /\ k \in Int /\ 1 <= a /\ a <= k + 1 /\ k <= Len(held) /\ m + a = n - UnitSize + 1 /\ m + k = n
        BY <4>5, <1>1, <1>2
      <4>3. SubSeq(dm \o held, Len(dm) + a, Len(dm) + k) = SubSeq(held, a, k)
        <5> HIDE DEF a
        <5> QED BY <4>1, <4>2, <1>2, RightSlice
      <4>4. SubSeq(d, n - UnitSize + 1, n) = SubSeq(held, k - UnitSize + 1, k)
        BY <4>1, <4>2, <4>3
      <4>6. last = Rest(held, k - UnitSize)
        BY <4>5
      <4> HIDE DEF last
      <4> QED BY <4>4, <4>6, <1>2 DEF Rest
    <3>2. CASE ~(k >= UnitSize)
      <4>1. k \in 0 .. UnitSize - 1
        BY <3>2, <1>1
      <4>2. bl # <<>>
        <5> SUFFICES ASSUME bl = <<>>  PROVE FALSE
          OBVIOUS
        <5>1. m = 0
          <6>1. Len(bl) = 0
            OBVIOUS
          <6> QED BY <6>1, <1>1
        <5> HIDE DEF m
        <5> QED BY <5>1, <4>1, <1>1, <1>2, <1>3, <1>5
      <4>3. Rest(b, BufferSize - (UnitSize - k)) \o Upto(b, k) = Rest(d, Len(d) - UnitSize)
        <5> HIDE DEF k, b
        <5>1. CutInto(d, bl, Upto(b, k)) /\ Trailing(b, k, bl) /\ Wide(E, b)
          BY <1>1
        <5> QED BY <5>1, <4>1, <4>2, LastStripe
      <4> QED BY <4>3, <3>2
    <3> QED BY <3>1, <3>2
  <2> HIDE DEF v, o, acc, last
  <2>5. Xxh3Of(d) = Accumulated(v) \o <<<<"last", Rest(d, Len(d) - UnitSize)>>, <<"length", Len(d)>>>>
    BY <2>2, <2>3, LongIs
  <2>6. Xxh3Digest(s) = Xxh3Of(d)
    BY <2>1, <2>3, <2>4, <2>5
  <2>7. \E T : acc \o <<l1, l2>> \in Seq(T)
    <3> DEFINE Y == (Seq(E) \X Nat) \cup {<<"scramble">>}
               T == Y \cup {l1, l2}
    <3>1. acc \in Seq(Y)
      BY <2>3 DEF Accs
    <3> HIDE DEF Y, l1, l2
    <3>2. acc \in Seq(T) /\ l1 \in T /\ l2 \in T
      BY <3>1
    <3> HIDE DEF T
    <3>3. acc \o <<l1, l2>> \in Seq(T)
      BY <3>2
    <3> QED BY <3>3 DEF l1, l2
  <2> QED BY <2>1, <2>6, <2>7
<1> QED BY <1>4, <1>5

-----------------------------------------------------------------------------
(* MD6: its tree. *)

\* A node that is full, and not the root.
Full(l, n, of) == Node(l, n, of, 0, FALSE)

LeavesOf(bl) == [i \in DOMAIN bl |-> Full(1, i - 1, bl[i])]

\* The i-th full group of a row.
Children(row, i) == SubSeq(row, (i - 1) * FanOut + 1, i * FanOut)

\* Over a row of level l there are the full nodes up; those of t have none yet.
Over(l, row, up, t) ==
  /\ Len(row) = Len(up) * FanOut + Len(t)
  /\ \A i \in 1 .. Len(up) : up[i] = Full(l + 1, i - 1, Children(row, i))
  /\ t = SubSeq(row, Len(up) * FanOut + 1, Len(row))

\* A node has two children at least.
LEMMA FansAre == FanOut \in Nat \ {0} /\ FanOut > 1
BY HashesFit

\* The place of a child in its row.
LEMMA GroupPlace ==
  ASSUME NEW q \in Nat, NEW i \in 1 .. q
  PROVE  /\ (i - 1) * FanOut \in Nat /\ i * FanOut = (i - 1) * FanOut + FanOut /\ i * FanOut \in Nat
         /\ i * FanOut <= q * FanOut /\ q * FanOut \in Nat
<1>1. FanOut \in Nat /\ i \in Nat /\ i >= 1
  BY FansAre
<1>2. q * FanOut \in Nat
  BY <1>1, Products
<1>3. (i - 1) * FanOut \in Nat /\ i * FanOut = (i - 1) * FanOut + FanOut /\ i * FanOut \in Nat
  BY <1>1, UnitEnds
<1>4. CASE i = q
  BY <1>4, <1>2, <1>3
<1>5. CASE i # q
  <2>1. i < q
    BY <1>5
  <2>2. i * FanOut + FanOut <= q * FanOut
    BY <2>1, <1>1, ProductsGrow
  <2> QED BY <2>2, <1>1, <1>2, <1>3
<1> QED BY <1>4, <1>5, <1>2, <1>3

\* One more in the row.
LEMMA OverLonger ==
  ASSUME NEW V, NEW l, NEW row \in Seq(V), NEW up, Len(up) \in Nat, NEW t, Over(l, row, up, t), NEW c \in V
  PROVE  t \in Seq(V) /\ Over(l, Append(row, c), up, Append(t, c)) /\ Len(Append(t, c)) = Len(t) + 1
<1> DEFINE q == Len(up)
           m == q * FanOut
           e == <<c>>
           N(i) == Full(l + 1, i - 1, Children(row, i))
<1>1. FanOut \in Nat /\ q \in Nat /\ e \in Seq(V) /\ Append(row, c) = row \o e /\ Len(e) = 1
  BY FansAre
<1>2. m \in Nat
  BY <1>1, Products
<1>3. Len(row) = m + Len(t) /\ t = SubSeq(row, m + 1, Len(row)) /\ \A i \in 1 .. q : up[i] = N(i)
  BY DEF Over
<1> HIDE DEF m, q, e, N
<1>4. Len(t) \in Nat /\ t \in Seq(V)
  BY <1>2, <1>3
<1>a. Append(t, c) = t \o e /\ Len(t \o e) = Len(t) + 1
  BY <1>4 DEF e
<1>5. Len(row \o e) = m + Len(t \o e)
  BY <1>1, <1>3, <1>4, <1>2
<1>6. t \o e = SubSeq(row \o e, m + 1, Len(row \o e))
  <2>1. m + 1 \in Int /\ 1 <= m + 1 /\ m + 1 <= Len(row) + 1
    BY <1>2, <1>3, <1>4
  <2>2. Len(row \o e) = Len(row) + Len(e)
    BY <1>1
  <2> QED BY <2>1, <2>2, <1>1, <1>3, CrossSlice
<1>7. \A i \in 1 .. q : up[i] = Full(l + 1, i - 1, Children(row \o e, i))
  <2> SUFFICES ASSUME NEW i \in 1 .. q  PROVE Children(row, i) = Children(row \o e, i)
    BY <1>3 DEF N
  <2> DEFINE a == (i - 1) * FanOut + 1
             b == i * FanOut
  <2>0. (i - 1) * FanOut \in Nat /\ b = (i - 1) * FanOut + FanOut /\ b \in Nat /\ b <= m
    BY GroupPlace, <1>1 DEF m
  <2>1. a \in Int /\ b \in Int /\ 1 <= a /\ a <= b + 1 /\ b <= Len(row)
    <3> DEFINE d == (i - 1) * FanOut
    <3> HIDE DEF d, b
    <3>1. d \in Nat /\ b = d + FanOut /\ b \in Nat /\ b <= m
      BY <2>0 DEF d
    <3>2. a = d + 1
      BY DEF d
    <3> QED BY <3>1, <3>2, <1>1, <1>2, <1>3, <1>4
  <2>2. Children(row, i) = SubSeq(row, a, b) /\ Children(row \o e, i) = SubSeq(row \o e, a, b)
    BY DEF Children
  <2> HIDE DEF a, b
  <2> QED BY <2>1, <2>2, <1>1, LeftSlice
<1> QED BY <1>1, <1>4, <1>5, <1>6, <1>7, <1>a DEF Over, m, q

\* A full group gets its node.
LEMMA OverFull ==
  ASSUME NEW V, NEW l, NEW row \in Seq(V), NEW T, NEW up \in Seq(T), NEW t, Over(l, row, up, t), Len(t) = FanOut,
         NEW y \in T, y = Full(l + 1, Len(up), t)
  PROVE  Over(l, row, Append(up, y), <<>>)
<1> DEFINE q == Len(up)
           m == q * FanOut
           N(i) == Full(l + 1, i - 1, Children(row, i))
<1>1. FanOut \in Nat /\ q \in Nat
  BY FansAre
<1>2. m \in Nat
  BY <1>1, Products
<1>3. (q + 1) * FanOut = m + FanOut
  <2>1. (q + 1) * FanOut = q * FanOut + 1 * FanOut
    BY <1>1, Distributes
  <2> QED BY <2>1, <1>1
<1>4. Len(row) = m + FanOut /\ t = SubSeq(row, m + 1, m + FanOut) /\ \A i \in 1 .. q : up[i] = N(i)
  BY DEF Over
<1>5. Len(Append(up, y)) = q + 1 /\ Append(up, y)[q + 1] = y /\ \A i \in 1 .. q : Append(up, y)[i] = up[i]
  OBVIOUS
<1>6. y = N(q + 1)
  <2>1. (q + 1) - 1 = q
    BY <1>1
  <2>2. Children(row, q + 1) = SubSeq(row, q * FanOut + 1, (q + 1) * FanOut)
    BY <2>1 DEF Children
  <2>3. Children(row, q + 1) = t
    BY <2>2, <1>3, <1>4
  <2> QED BY <2>1, <2>3
<1> HIDE DEF m, q, N
<1>7. \A i \in 1 .. q + 1 : Append(up, y)[i] = N(i)
  <2> DEFINE w == Append(up, y)
  <2>1. w[q + 1] = N(q + 1) /\ \A i \in 1 .. q : w[i] = N(i)
    BY <1>4, <1>5, <1>6
  <2> HIDE DEF w
  <2>2. \A i \in 1 .. q + 1 : w[i] = N(i)
    BY <1>1, <2>1
  <2> QED BY <2>2 DEF w
<1>8. <<>> = SubSeq(row, m + FanOut + 1, m + FanOut)
  BY <1>1, <1>2, <1>4
<1>9. Len(Append(up, y)) * FanOut = m + FanOut /\ Len(<<>>) = 0 /\ Len(row) = m + FanOut
  BY <1>3, <1>4, <1>5
<1>10. m + FanOut = m + FanOut + 0
  BY <1>1, <1>2
<1> QED BY <1>5, <1>7, <1>8, <1>9, <1>10 DEF Over, N

\* Nothing is over a row that is shorter than a group.
LEMMA OverNone ==
  ASSUME NEW V, NEW l, NEW row \in Seq(V)
  PROVE  Over(l, row, <<>>, row)
<1>1. Len(<<>>) * FanOut = 0 /\ Len(row) \in Nat
  BY FansAre
<1> QED BY <1>1 DEF Over

\* Row l with a node more.
With(R, l, c) == [R EXCEPT ![l] = Append(@, c)]

\* P is R with c more in row l.
Grown(V, n, R, l, c, P) ==
  P \in [1 .. n -> Seq(V)] /\ P[l] = Append(R[l], c) /\ \A j \in 1 .. n : j # l => P[j] = R[j]

\* A row grows by one.
LEMMA GrownIs ==
  ASSUME NEW V, NEW n \in Nat, NEW R \in [1 .. n -> Seq(V)], NEW l \in 1 .. n, NEW c \in V
  PROVE  Grown(V, n, R, l, c, With(R, l, c))
<1>1. Append(R[l], c) \in Seq(V)
  OBVIOUS
<1> QED BY <1>1 DEF With, Grown

\* The tree over the leaves bl.  R has its rows: of each, what has no node over
\* it yet is kept, and less than a group; the last is empty.
TreeAs(V, R, above, made, bl) ==
  /\ above \in Seq(Seq(V)) /\ R \in [1 .. Len(above) + 1 -> Seq(V)]
  /\ made = [j \in 1 .. Len(above) + 1 |-> Len(R[j])]
  /\ R[1] = LeavesOf(bl)
  /\ \A j \in 1 .. Len(above) : Over(j, R[j], R[j + 1], above[j]) /\ Len(above[j]) < FanOut
  /\ R[Len(above) + 1] = <<>> /\ (Len(above) > 0 => R[Len(above)] # <<>>)

Tree(above, made, bl) == \E V, R : TreeAs(V, R, above, made, bl)

\* The same while c is on its way into row l.
ClimbsAs(V, R, c, l, above, made, bl) ==
  /\ above \in Seq(Seq(V)) /\ R \in [1 .. Len(above) + 1 -> Seq(V)] /\ c \in V /\ l \in 1 .. Len(above) + 1
  /\ made = [j \in 1 .. Len(above) + 1 |-> Len(With(R, l, c)[j])]
  /\ With(R, l, c)[1] = LeavesOf(bl)
  /\ \A j \in 1 .. Len(above) : Over(j, R[j], With(R, l, c)[j + 1], above[j]) /\ Len(above[j]) < FanOut
  /\ R[Len(above) + 1] = <<>> /\ (Len(above) > 0 => R[Len(above)] # <<>>)

Climbs(c, l, above, made, bl) == \E V, R : ClimbsAs(V, R, c, l, above, made, bl)

\* No bytes, no tree.
LEMMA TreeBegins == Tree(<<>>, <<0>>, <<>>)
<1> DEFINE V == {}
           R == [j \in 1 .. 1 |-> <<>>]
           bl == <<>>
<1>1. <<>> \in Seq(Seq(V)) /\ Len(<<>>) = 0 /\ R \in [1 .. 0 + 1 -> Seq(V)] /\ R[0 + 1] = <<>> /\ R[1] = <<>>
  OBVIOUS
<1>2. <<0>> = [j \in 1 .. 0 + 1 |-> Len(R[j])]
  OBVIOUS
<1>3. LeavesOf(bl) = <<>>
  BY DEF LeavesOf
<1> HIDE DEF R, V, bl
<1>4. TreeAs(V, R, <<>>, <<0>>, bl)
  BY <1>1, <1>2, <1>3 DEF TreeAs
<1> QED BY <1>4 DEF Tree, bl

\* A node on its way.
Going(a, m, c, l, stopped) == [above |-> a, made |-> m, carried |-> c, level |-> l, stopped |-> stopped]

\* A node finds room in the group of its row, and is kept there.
Rests(a, c, l, b) == ~(l > Len(a)) /\ Len(Append(a[l], c)) < FanOut /\ b = [a EXCEPT ![l] = Append(a[l], c)]

Met(a, m, c, l) == Join(Going(a, m, c, l, FALSE), FALSE)
Resting(a, m, c, l) == Going(a, m, c, l, TRUE)

\* A node that finds room in its row stays there.
LEMMA JoinRests ==
  ASSUME NEW a, NEW m, NEW c, NEW l, NEW b, Rests(a, c, l, b)
  PROVE  Met(a, m, c, l) = Resting(b, m, c, l)
<1> DEFINE of == Append(a[l], c)
<1>0. ~(l > Len(a)) /\ Len(of) < FanOut /\ b = [a EXCEPT ![l] = of]
  BY DEF Rests
<1> DEFINE t == Going(a, m, c, l, FALSE)
           no == FALSE
           top == no /\ l = Len(a)
           ended == [t EXCEPT !.above = [a EXCEPT ![l] = of], !.made = m, !.stopped = TRUE]
           node == Node(l + 1, m[l + 1], of, FanOut - Len(of), top)
<1>1. t.level = l /\ t.above = a /\ t.made = m /\ t.carried = c
  BY DEF Going
<1> HIDE DEF t, no
<1>2. Join(t, no) = IF (~no /\ Len(of) < FanOut) \/ (top /\ Len(of) = 1) THEN ended
                    ELSE [above |-> [a EXCEPT ![l] = <<>>], made |-> [m EXCEPT ![l + 1] = @ + 1],
                          carried |-> node, level |-> l + 1, stopped |-> top]
  BY <1>0, <1>1 DEF Join
<1> HIDE DEF ended, node, top, of
<1>3. ~no /\ Len(of) < FanOut
  BY <1>0 DEF no
<1>4. Join(t, no) = ended
  BY <1>2, <1>3
<1>5. ended = Going(b, m, c, l, TRUE)
  <2> DEFINE yes == TRUE
  <2>1. t = [above |-> a, made |-> m, carried |-> c, level |-> l, stopped |-> no]
    BY DEF t, Going, no
  <2>2. ended = [t EXCEPT !.above = b, !.made = m, !.stopped = yes]
    BY <1>0 DEF ended
  <2> HIDE DEF yes
  <2>3. ended = [above |-> b, made |-> m, carried |-> c, level |-> l, stopped |-> yes]
    BY <2>1, <2>2
  <2> QED BY <2>3 DEF Going, yes
<1> QED BY <1>4, <1>5 DEF t, no, Met, Resting

\* A node that fills its row makes a node above it.
LEMMA JoinCloses ==
  ASSUME NEW a, NEW m, NEW c, NEW l, ~(l > Len(a)), ~(Len(Append(a[l], c)) < FanOut)
  PROVE  Join(Going(a, m, c, l, FALSE), FALSE) =
           Going([a EXCEPT ![l] = <<>>], [m EXCEPT ![l + 1] = @ + 1],
                 Node(l + 1, m[l + 1], Append(a[l], c), FanOut - Len(Append(a[l], c)), FALSE), l + 1, FALSE)
<1> DEFINE t == Going(a, m, c, l, FALSE)
           of == Append(a[l], c)
           no == FALSE
           top == no /\ l = Len(a)
           ended == [t EXCEPT !.above = [a EXCEPT ![l] = of], !.made = m, !.stopped = TRUE]
           b == [a EXCEPT ![l] = <<>>]
           n == [m EXCEPT ![l + 1] = @ + 1]
           N(x) == Node(l + 1, m[l + 1], of, FanOut - Len(of), x)
<1>1. t.level = l /\ t.above = a /\ t.made = m /\ t.carried = c
  BY DEF Going
<1> HIDE DEF t, no
<1>2. Join(t, no) = IF (~no /\ Len(of) < FanOut) \/ (top /\ Len(of) = 1) THEN ended
                    ELSE [above |-> b, made |-> n, carried |-> N(top), level |-> l + 1, stopped |-> top]
  BY <1>1 DEF Join
<1>3. ~(Len(of) < FanOut) /\ ~top /\ top = no
  BY DEF no
<1> HIDE DEF ended, of, N, b, n, top
<1>4. Join(t, no) = [above |-> b, made |-> n, carried |-> N(top), level |-> l + 1, stopped |-> top]
  BY <1>2, <1>3
<1>5. Join(t, no) = [above |-> b, made |-> n, carried |-> N(no), level |-> l + 1, stopped |-> no]
  BY <1>3, <1>4
<1> QED BY <1>5 DEF t, no, of, N, b, n, Going

\* A node on a level that has no row yet starts one.
LEMMA JoinBegins ==
  ASSUME NEW a, NEW m, NEW c, NEW l, l > Len(a), Append(a, <<>>)[l] = <<>>
  PROVE  Join(Going(a, m, c, l, FALSE), FALSE) =
           Going([Append(a, <<>>) EXCEPT ![l] = <<c>>], Append(m, 0), c, l, TRUE)
<1> DEFINE t == Going(a, m, c, l, FALSE)
           a2 == Append(a, <<>>)
           m2 == Append(m, 0)
           of == Append(a2[l], c)
           no == FALSE
           top == no /\ l = Len(a2)
           ended == [t EXCEPT !.above = [a2 EXCEPT ![l] = of], !.made = m2, !.stopped = TRUE]
           node == Node(l + 1, m2[l + 1], of, FanOut - Len(of), top)
<1>1. t.level = l /\ t.above = a /\ t.made = m /\ t.carried = c
  BY DEF Going
<1> HIDE DEF t, no
<1>2. Join(t, no) = IF (~no /\ Len(of) < FanOut) \/ (top /\ Len(of) = 1) THEN ended
                    ELSE [above |-> [a2 EXCEPT ![l] = <<>>], made |-> [m2 EXCEPT ![l + 1] = @ + 1],
                          carried |-> node, level |-> l + 1, stopped |-> top]
  BY <1>1 DEF Join
<1>3. of = <<c>>
  <2>1. of = Append(<<>>, c)
    OBVIOUS
  <2>2. Append(<<>>, c) = <<c>>
    OBVIOUS
  <2> QED BY <2>1, <2>2
<1>a. Len(of) = 1 /\ FanOut > 1
  <2>1. Len(<<c>>) = 1
    OBVIOUS
  <2> HIDE DEF of
  <2> QED BY <2>1, <1>3, FansAre
<1> HIDE DEF ended, of, node, top, a2, m2
<1>b. ~no /\ Len(of) < FanOut
  BY <1>a, FansAre DEF no
<1>4. Join(t, no) = ended
  BY <1>2, <1>b
<1>5. ended = Going([a2 EXCEPT ![l] = of], m2, c, l, TRUE)
  <2> DEFINE b == [a2 EXCEPT ![l] = of]
             yes == TRUE
  <2>1. t = [above |-> a, made |-> m, carried |-> c, level |-> l, stopped |-> no]
    BY DEF t, Going, no
  <2>2. ended = [t EXCEPT !.above = b, !.made = m2, !.stopped = yes]
    BY DEF ended
  <2> HIDE DEF b, yes
  <2>3. ended = [above |-> b, made |-> m2, carried |-> c, level |-> l, stopped |-> yes]
    BY <2>1, <2>2
  <2> QED BY <2>3 DEF Going, b, yes
<1> QED BY <1>3, <1>4, <1>5 DEF t, no, a2, m2

\* A node joins its row: the tree is whole again, or the node it made goes on.
Goes(z, a, l, bl) ==
  \/ z.stopped = TRUE /\ Tree(z.above, z.made, bl)
  \/ /\ z = Going(z.above, z.made, z.carried, l + 1, FALSE) /\ Climbs(z.carried, l + 1, z.above, z.made, bl)
     /\ Len(z.above) = Len(a)

\* Either way the tree stays that over its leaves.
LEMMA JoinGoes ==
  ASSUME NEW a, NEW m, NEW c, NEW l, NEW bl, Climbs(c, l, a, m, bl)
  PROVE  Goes(Join(Going(a, m, c, l, FALSE), FALSE), a, l, bl)
<1>0. PICK V, R : ClimbsAs(V, R, c, l, a, m, bl)
  BY DEF Climbs
<1> DEFINE h == Len(a)
           n == h + 1
           Rc == With(R, l, c)
           z == Join(Going(a, m, c, l, FALSE), FALSE)
           X == Seq(V)
<1>1. /\ a \in Seq(X) /\ R \in [1 .. n -> X] /\ c \in V /\ l \in 1 .. n /\ m = [j \in 1 .. n |-> Len(Rc[j])]
      /\ Rc[1] = LeavesOf(bl)
      /\ \A j \in 1 .. h : Over(j, R[j], Rc[j + 1], a[j]) /\ Len(a[j]) < FanOut
      /\ R[n] = <<>> /\ (h > 0 => R[h] # <<>>)
  BY <1>0 DEF ClimbsAs
<1> HIDE DEF z
<1>2. h \in Nat /\ n \in Nat /\ l \in Nat /\ FanOut \in Nat \ {0} /\ FanOut > 1
  BY <1>1, FansAre
<1>3. Rc \in [1 .. n -> X] /\ Rc[l] = Append(R[l], c) /\ \A j \in 1 .. n : j # l => Rc[j] = R[j]
  <2>1. n \in Nat /\ R \in [1 .. n -> Seq(V)] /\ l \in 1 .. n /\ c \in V
    BY <1>1, <1>2
  <2> HIDE DEF n
  <2>2. Grown(V, n, R, l, c, With(R, l, c))
    BY ONLY <2>1, GrownIs
  <2> QED BY <2>2 DEF Grown
<1> HIDE DEF Rc, h, X
<1>4. CASE l = n
  <2> DEFINE a2 == Append(a, <<>>)
             b  == [a2 EXCEPT ![l] = <<c>>]
             m2 == Append(m, 0)
             Q  == [j \in 1 .. n + 1 |-> IF j = n + 1 THEN <<>> ELSE Rc[j]]
  <2>1. <<>> \in X /\ <<c>> \in X
    BY <1>1 DEF X
  <2>2. a2 \in Seq(X) /\ Len(a2) = n /\ a2[n] = <<>> /\ \A j \in 1 .. h : a2[j] = a[j]
    BY <2>1, <1>1 DEF h
  <2> HIDE DEF a2
  <2>3. b \in Seq(X) /\ Len(b) = n /\ b[n] = <<c>> /\ \A j \in 1 .. h : b[j] = a[j]
    <3> DEFINE e == <<c>>
    <3>0. e \in X /\ b = [a2 EXCEPT ![l] = e]
      BY <2>1
    <3>1. l \in 1 .. Len(a2)
      BY <2>2, <1>4, <1>2
    <3> HIDE DEF e, b
    <3>2. b \in Seq(X) /\ Len(b) = Len(a2) /\ b[l] = e /\ \A i \in 1 .. Len(a2) : i # l => b[i] = a2[i]
      BY <3>0, <3>1, <2>2, ExceptIs
    <3>3. \A j \in 1 .. h : b[j] = a[j]
      <4> SUFFICES ASSUME NEW j \in 1 .. h  PROVE b[j] = a[j]
        OBVIOUS
      <4>1. j \in 1 .. Len(a2) /\ j # l
        BY <2>2, <1>2, <1>4
      <4> QED BY <4>1, <3>2, <2>2
    <3> QED BY <3>2, <3>3, <2>2, <1>4 DEF e
  <2> HIDE DEF b
  <2>4. z = Going(b, m2, c, l, TRUE)
    <3>1. l > Len(a) /\ a2[l] = <<>>
      BY <1>2, <1>4, <2>2 DEF h
    <3>2. Append(a, <<>>)[l] = <<>>
      BY <3>1 DEF a2
    <3>3. Join(Going(a, m, c, l, FALSE), FALSE) = Going([Append(a, <<>>) EXCEPT ![l] = <<c>>], Append(m, 0), c, l, TRUE)
      BY <3>1, <3>2, JoinBegins
    <3> QED BY <3>3 DEF z, b, a2
  <2>5. Q \in [1 .. n + 1 -> X] /\ Q[n + 1] = <<>> /\ \A j \in 1 .. n : Q[j] = Rc[j]
    BY <1>2, <1>3, <2>1
  <2> HIDE DEF Q
  <2>6. Rc[n] = <<c>>
    <3>1. Rc[n] = Append(<<>>, c)
      BY <1>1, <1>3, <1>4
    <3>2. Append(<<>>, c) = <<c>>
      OBVIOUS
    <3> QED BY <3>1, <3>2
  <2>7. m2 = [j \in 1 .. n + 1 |-> Len(Q[j])]
    <3>1. \A j \in 1 .. n : Len(Rc[j]) \in Nat
      BY <1>3 DEF X
    <3> DEFINE o == 0
    <3>2. m \in Seq(Nat) /\ Len(m) = n
      BY <1>1, <1>2, <3>1
    <3> HIDE DEF o
    <3>3. \A y \in Nat : Len(Append(m, y)) = n + 1 /\ Append(m, y)[n + 1] = y /\ (\A j \in 1 .. n : Append(m, y)[j] = m[j])
                         /\ Append(m, y) \in Seq(Nat)
      BY <3>2, <1>2
    <3>4. Len(m2) = n + 1 /\ m2[n + 1] = 0 /\ (\A j \in 1 .. n : m2[j] = m[j]) /\ m2 \in Seq(Nat)
      BY <3>3
    <3> HIDE DEF m2
    <3>5. \A j \in 1 .. n + 1 : m2[j] = Len(Q[j])
      <4> SUFFICES ASSUME NEW j \in 1 .. n + 1  PROVE m2[j] = Len(Q[j])
        OBVIOUS
      <4>1. CASE j = n + 1
        <5>1. Len(<<>>) = 0
          OBVIOUS
        <5> QED BY <5>1, <4>1, <3>4, <2>5
      <4>2. CASE j # n + 1
        <5>1. j \in 1 .. n
          BY <4>2, <1>2
        <5> QED BY <5>1, <3>4, <2>5, <1>1
      <4> QED BY <4>1, <4>2
    <3>6. m2 = [j \in 1 .. n + 1 |-> m2[j]]
      BY <3>4
    <3> QED BY <3>5, <3>6
  <2> HIDE DEF m2
  <2>8. ASSUME NEW j \in 1 .. n  PROVE Over(j, Q[j], Q[j + 1], b[j]) /\ Len(b[j]) < FanOut
    <3>1. CASE j = n
      <4>1. Q[j] = <<c>> /\ Q[j + 1] = <<>> /\ b[j] = <<c>>
        BY <3>1, <1>2, <2>3, <2>5, <2>6
      <4>2. <<c>> \in Seq(V) /\ Len(<<c>>) = 1
        BY <1>1
      <4>3. Over(j, <<c>>, <<>>, <<c>>)
        BY <4>2, OverNone
      <4> QED BY <4>1, <4>2, <4>3, <1>2
    <3>2. CASE j # n
      <4>1. j \in 1 .. h /\ j + 1 \in 1 .. n /\ j # l
        BY <3>2, <1>2, <1>4
      <4>2. Q[j] = R[j] /\ Q[j + 1] = Rc[j + 1] /\ b[j] = a[j]
        BY <4>1, <1>3, <2>3, <2>5
      <4> QED BY <4>1, <4>2, <1>1
    <3> QED BY <3>1, <3>2
  <2>9. Q[1] = LeavesOf(bl) /\ Q[n] # <<>>
    <3>1. 1 \in 1 .. n /\ n \in 1 .. n
      BY <1>2
    <3>2. <<c>> # <<>>
      OBVIOUS
    <3> QED BY <3>1, <3>2, <2>5, <2>6, <1>1
  <2>10. TreeAs(V, Q, b, m2, bl)
    BY <2>3, <2>5, <2>7, <2>8, <2>9 DEF TreeAs, X
  <2>11. Tree(b, m2, bl)
    BY <2>10 DEF Tree
  <2>12. z.stopped = TRUE /\ z.above = b /\ z.made = m2
    BY <2>4 DEF Going
  <2>13. Goes(z, a, l, bl)
    BY <2>11, <2>12 DEF Goes
  <2> QED BY <2>13 DEF z
<1>5. CASE l # n
  <2> DEFINE of == Append(a[l], c)
  <2>1. l \in 1 .. h /\ ~(l > Len(a)) /\ l \in 1 .. Len(a)
    BY <1>1, <1>2, <1>5 DEF h
  <2>2. a[l] \in X /\ of \in X /\ l + 1 \in 1 .. n /\ l + 1 # l
    <3>1. a[l] \in X
      BY <1>1, <2>1
    <3> QED BY <3>1, <2>1, <1>1, <1>2 DEF X
  <2>3. Over(l, Rc[l], R[l + 1], of) /\ Len(of) = Len(a[l]) + 1 /\ R[l] \in Seq(V) /\ R[l + 1] \in Seq(V)
    <3>1. Over(l, R[l], R[l + 1], a[l])
      BY <1>1, <1>3, <2>1, <2>2
    <3>2. R[l] \in Seq(V) /\ R[l + 1] \in Seq(V) /\ Len(R[l + 1]) \in Nat
      BY <1>1, <2>2 DEF X
    <3>3. Over(l, Append(R[l], c), R[l + 1], Append(a[l], c)) /\ Len(Append(a[l], c)) = Len(a[l]) + 1
      BY <3>1, <3>2, <1>1, OverLonger
    <3> QED BY <3>2, <3>3, <1>3
  <2>4. Rc[n] = <<>> /\ (h > 0 => Rc[h] # <<>>)
    <3>1. n \in 1 .. n /\ n # l
      BY <1>2, <1>5
    <3>2. h > 0 => h \in 1 .. n
      BY <1>2
    <3>3. ASSUME h > 0  PROVE Rc[h] # <<>>
      <4>1. CASE h = l
        <5>1. Append(R[l], c) # <<>>
          <6> DEFINE r == R[l]
          <6>1. r \in Seq(V) /\ c \in V
            BY <2>3, <1>1
          <6> HIDE DEF r
          <6>2. Len(Append(r, c)) # 0 /\ Len(<<>>) = 0
            BY <6>1
          <6> QED BY <6>2 DEF r
        <5> QED BY <5>1, <4>1, <1>3
      <4>2. CASE h # l
        BY <4>2, <3>2, <3>3, <1>1, <1>3
      <4> QED BY <4>1, <4>2
    <3> QED BY <3>1, <3>3, <1>1, <1>3
  <2> HIDE DEF of
  <2>5. CASE Len(of) < FanOut
    <3> DEFINE b == [a EXCEPT ![l] = of]
    <3>1. b \in Seq(X) /\ Len(b) = h /\ b[l] = of /\ \A j \in 1 .. h : j # l => b[j] = a[j]
      BY <1>1, <2>1, <2>2, ExceptIs DEF h
    <3>2. z = Going(b, m, c, l, TRUE)
      <4>1. Rests(a, c, l, b)
        BY <2>1, <2>5 DEF of, Rests
      <4> HIDE DEF b
      <4>2. Met(a, m, c, l) = Resting(b, m, c, l)
        BY <4>1, JoinRests
      <4> QED BY <4>2 DEF z, Met, Resting
    <3> HIDE DEF b
    <3>3. ASSUME NEW j \in 1 .. h  PROVE Over(j, Rc[j], Rc[j + 1], b[j]) /\ Len(b[j]) < FanOut
      <4>0. j \in 1 .. n /\ j + 1 \in 1 .. n
        BY <1>2
      <4>1. CASE j = l
        <5>1. Rc[l + 1] = R[l + 1]
          BY <2>2, <1>3
        <5> QED BY <5>1, <4>1, <3>1, <2>3, <2>5
      <4>2. CASE j # l
        BY <4>0, <4>2, <3>1, <1>1, <1>3
      <4> QED BY <4>1, <4>2
    <3>4. TreeAs(V, Rc, b, m, bl)
      BY <3>1, <3>3, <2>4, <1>1, <1>3 DEF TreeAs, X
    <3>5. Tree(b, m, bl)
      BY <3>4 DEF Tree
    <3>6. z.stopped = TRUE /\ z.above = b /\ z.made = m
      BY <3>2 DEF Going
    <3>7. Goes(z, a, l, bl)
      BY <3>5, <3>6 DEF Goes
    <3> QED BY <3>7 DEF z
  <2>6. CASE ~(Len(of) < FanOut)
    <3> DEFINE b  == [a EXCEPT ![l] = <<>>]
               m2 == [m EXCEPT ![l + 1] = @ + 1]
               y  == Full(l + 1, Len(R[l + 1]), of)
               W  == V \cup {y}
               Y  == Seq(W)
               Ry == With(Rc, l + 1, y)
    <3>1. Len(of) = FanOut /\ FanOut - Len(of) = 0
      <4>1. Len(a[l]) < FanOut /\ Len(a[l]) \in Nat
        BY <1>1, <2>1, <2>2 DEF X
      <4> QED BY <4>1, <2>3, <2>6, <1>2
    <3>2. m[l + 1] = Len(R[l + 1])
      BY <1>1, <1>3, <2>2
    <3>3. z = Going(b, m2, y, l + 1, FALSE)
      <4>1. ~(Len(Append(a[l], c)) < FanOut)
        BY <2>6 DEF of
      <4>2. z = Going(b, m2, Node(l + 1, m[l + 1], of, FanOut - Len(of), FALSE), l + 1, FALSE)
        BY <4>1, <2>1, JoinCloses DEF z, of
      <4>3. Node(l + 1, m[l + 1], of, FanOut - Len(of), FALSE) = y
        BY <3>1, <3>2 DEF Full
      <4> HIDE DEF y, b, m2
      <4> QED BY <4>2, <4>3
    <3>4. b \in Seq(X) /\ Len(b) = h /\ b[l] = <<>> /\ \A j \in 1 .. h : j # l => b[j] = a[j]
      <4> DEFINE e == <<>>
      <4>1. e \in X /\ b = [a EXCEPT ![l] = e]
        BY DEF X
      <4> HIDE DEF e, b
      <4>2. b \in Seq(X) /\ Len(b) = Len(a) /\ b[l] = e /\ \A j \in 1 .. Len(a) : j # l => b[j] = a[j]
        BY <4>1, <1>1, <2>1, ExceptIs
      <4> QED BY <4>2 DEF e, h
    <3>5. y \in W /\ V \subseteq W
      OBVIOUS
    <3> HIDE DEF b, y, W, Y
    <3>6. X \subseteq Y
      <4> SUFFICES ASSUME NEW s \in Seq(V)  PROVE s \in Seq(W)
        BY DEF X, Y
      <4> QED BY <3>5
    <3>7. b \in Seq(Y) /\ Rc \in [1 .. n -> Y] /\ Rc \in [1 .. n -> Seq(W)]
      <4>1. b \in Seq(Y)
        BY <3>4, <3>6
      <4>2. Rc \in [1 .. n -> Y]
        BY <3>6, <1>3
      <4> QED BY <4>1, <4>2 DEF Y
    <3>8. /\ Ry \in [1 .. n -> Seq(W)] /\ Ry[l + 1] = Append(Rc[l + 1], y)
          /\ \A j \in 1 .. n : j # l + 1 => Ry[j] = Rc[j]
      <4>1. n \in Nat /\ Rc \in [1 .. n -> Seq(W)] /\ l + 1 \in 1 .. n /\ y \in W
        BY <3>5, <3>7, <2>2, <1>2
      <4> DEFINE k == l + 1
      <4> HIDE DEF n, k
      <4>2. n \in Nat /\ Rc \in [1 .. n -> Seq(W)] /\ k \in 1 .. n /\ y \in W
        BY <4>1 DEF k
      <4>3. Grown(W, n, Rc, k, y, With(Rc, k, y))
        BY ONLY <4>2, GrownIs
      <4> QED BY <4>3 DEF Grown, k
    <3> HIDE DEF Ry
    <3>9. m2 = [j \in 1 .. n |-> Len(Ry[j])]
      <4> DEFINE v == Len(R[l + 1]) + 1
      <4>0. v \in Nat /\ m2 = [m EXCEPT ![l + 1] = v]
        <5>1. Len(R[l + 1]) \in Nat
          BY <2>3
        <5> QED BY <5>1, <3>2
      <4>1. Len(Ry[l + 1]) = v
        <5>1. Rc[l + 1] = R[l + 1] /\ R[l + 1] \in Seq(W)
          <6>1. R[l + 1] \in X
            BY <2>3 DEF X
          <6> QED BY <6>1, <3>6, <1>3, <2>2 DEF Y
        <5>2. Len(Append(R[l + 1], y)) = Len(R[l + 1]) + 1
          BY <5>1, <3>5
        <5> QED BY <5>1, <5>2, <3>8
      <4> HIDE DEF v, m2
      <4>2. \A j \in 1 .. n : m2[j] = Len(Ry[j])
        <5> SUFFICES ASSUME NEW j \in 1 .. n  PROVE m2[j] = Len(Ry[j])
          OBVIOUS
        <5>1. CASE j = l + 1
          BY <5>1, <4>0, <4>1, <1>1
        <5>2. CASE j # l + 1
          BY <5>2, <4>0, <3>8, <1>1
        <5> QED BY <5>1, <5>2
      <4>3. m2 = [j \in 1 .. n |-> m2[j]]
        BY <4>0, <1>1
      <4> QED BY <4>2, <4>3
    <3> HIDE DEF m2
    <3>10. ASSUME NEW j \in 1 .. h  PROVE Over(j, Rc[j], Ry[j + 1], b[j]) /\ Len(b[j]) < FanOut
      <4>0. j \in 1 .. n /\ j + 1 \in 1 .. n
        BY <1>2
      <4>1. CASE j = l
        <5>1. Ry[j + 1] = Append(R[l + 1], y)
          BY <4>1, <2>2, <1>3, <3>8
        <5>2. Over(l, Rc[l], Append(R[l + 1], y), <<>>)
          <6>1. R[l + 1] \in Seq(W) /\ Rc[l] \in Seq(V)
            <7>1. R[l + 1] \in X
              BY <2>3 DEF X
            <7>2. Rc[l] \in X
              BY <1>1, <1>3
            <7> QED BY <7>1, <7>2, <3>6 DEF X, Y
          <6>2. y = Full(l + 1, Len(R[l + 1]), of)
            BY DEF y
          <6> QED BY <6>1, <6>2, <3>1, <3>5, <2>3, OverFull
        <5>3. Len(<<>>) < FanOut
          BY <1>2
        <5> QED BY <5>1, <5>2, <5>3, <4>1, <3>4
      <4>2. CASE j # l
        <5>1. Ry[j + 1] = Rc[j + 1]
          <6>1. j + 1 # l + 1
            BY <4>2, <1>2
          <6> QED BY <6>1, <4>0, <3>8
        <5> QED BY <5>1, <4>0, <4>2, <3>4, <1>1, <1>3
      <4> QED BY <4>1, <4>2
    <3>11. Ry[1] = LeavesOf(bl)
      <4>1. 1 \in 1 .. n /\ 1 # l + 1
        BY <1>2, <2>1
      <4> QED BY <4>1, <3>8, <1>1
    <3>12. ClimbsAs(W, Rc, y, l + 1, b, m2, bl)
      BY <3>4, <3>5, <3>7, <3>9, <3>10, <3>11, <2>2, <2>4 DEF ClimbsAs, Y, Ry
    <3>13. Climbs(y, l + 1, b, m2, bl)
      BY <3>12 DEF Climbs
    <3>14. z.above = b /\ z.made = m2 /\ z.carried = y
      BY <3>3 DEF Going
    <3>15. Goes(z, a, l, bl)
      BY <3>3, <3>4, <3>13, <3>14 DEF Goes, h
    <3> QED BY <3>15 DEF z
  <2> QED BY <2>5, <2>6
<1> QED BY <1>4, <1>5

\* How a leaf is pushed up, level by level.
Pushes(f, s, leaf, final) ==
  /\ f[0] = Going(s.above, [s.made EXCEPT ![1] = @ + 1], leaf, 1, FALSE)
  /\ \A i \in 1 .. Len(s.above) + 1 : f[i] = IF f[i - 1].stopped THEN f[i - 1] ELSE Join(f[i - 1], final)
  /\ PushUp(s, leaf, final) = f[Len(s.above) + 1]

\* PushUp runs level by level.
LEMMA PushUpIs ==
  ASSUME NEW s, NEW leaf, NEW final, Len(s.above) \in Nat
  PROVE  \E f : Pushes(f, s, leaf, final)
<1> DEFINE n == Len(s.above) + 1
           start == [above |-> s.above, made |-> [s.made EXCEPT ![1] = @ + 1],
                     carried |-> leaf, level |-> 1, stopped |-> FALSE]
           G(x) == IF x.stopped THEN x ELSE Join(x, final)
           Eq(f, m) == f = [i \in 0 .. m |-> IF i = 0 THEN start ELSE G(f[i - 1])]
           after == CHOOSE f : Eq(f, n)
           T == {m \in 0 .. n : \E f : Eq(f, m)}
<1>1. PushUp(s, leaf, final) = after[n]
  BY DEF PushUp
<1>2. n \in Nat
  OBVIOUS
<1>3. start = Going(s.above, [s.made EXCEPT ![1] = @ + 1], leaf, 1, FALSE)
  BY DEF Going
<1> HIDE DEF n, start, G
<1>4. 0 \in T
  <2> DEFINE f == [i \in 0 .. 0 |-> start]
  <2>1. Eq(f, 0)
    OBVIOUS
  <2> HIDE DEF f, Eq
  <2> QED BY <2>1, <1>2
<1>5. ASSUME NEW m \in 1 .. n, m - 1 \in T  PROVE m \in T
  <2>0. PICK f : Eq(f, m - 1)
    BY <1>5
  <2> DEFINE h == [i \in 0 .. m |-> IF i < m THEN f[i] ELSE G(f[m - 1])]
  <2>1. m \in Nat /\ m - 1 \in 0 .. m - 1 /\ m # 0
    BY <1>2
  <2>2. ASSUME NEW i \in 0 .. m  PROVE h[i] = IF i = 0 THEN start ELSE G(h[i - 1])
    <3>1. CASE i = 0
      <4>1. 0 \in 0 .. m - 1 /\ h[0] = f[0]
        BY <2>1
      <4>2. f[0] = start
        BY <4>1, <2>0
      <4> QED BY <4>1, <4>2, <3>1
    <3>2. CASE i # 0 /\ i < m
      <4>1. i \in 0 .. m - 1 /\ i - 1 \in 0 .. m /\ i - 1 < m
        BY <3>2, <2>1
      <4>2. h[i] = f[i] /\ h[i - 1] = f[i - 1]
        BY <4>1, <3>2
      <4>3. f[i] = G(f[i - 1])
        BY <4>1, <3>2, <2>0
      <4> QED BY <4>2, <4>3, <3>2
    <3>3. CASE i # 0 /\ ~(i < m)
      <4>1. i = m /\ i - 1 \in 0 .. m /\ i - 1 < m
        BY <3>3, <2>1
      <4>2. h[i] = G(f[m - 1]) /\ h[i - 1] = f[i - 1]
        BY <4>1, <3>3
      <4> QED BY <4>1, <4>2, <3>3
    <3> QED BY <3>1, <3>2, <3>3
  <2>3. h = [i \in 0 .. m |-> h[i]]
    OBVIOUS
  <2> HIDE DEF h
  <2>4. Eq(h, m)
    BY <2>2, <2>3
  <2>5. m \in 0 .. n
    BY <1>2
  <2> HIDE DEF Eq
  <2> QED BY <2>4, <2>5
<1> HIDE DEF T
<1>6. n \in T
  <2>1. \A m \in 0 .. n : m \in T
    BY <1>2, <1>4, <1>5, Climbing
  <2>2. n \in 0 .. n
    BY <1>2
  <2> QED BY <2>1, <2>2
<1>7. Eq(after, n)
  <2> HIDE DEF Eq
  <2>1. \E f : Eq(f, n)
    BY <1>6 DEF T
  <2> QED BY <2>1
<1> HIDE DEF after
<1>8. after[0] = start /\ \A i \in 1 .. n : after[i] = G(after[i - 1])
  BY <1>2, <1>7
<1>9. Pushes(after, s, leaf, final)
  BY <1>1, <1>3, <1>8 DEF Pushes, n, G
<1> QED BY <1>9

\* A leaf sets out.
LEMMA LeafClimbs ==
  ASSUME NEW above, NEW made, NEW E, NEW bl \in Seq(E), Tree(above, made, bl), NEW x \in E
  PROVE  /\ Climbs(Full(1, Len(bl), x), 1, above, [made EXCEPT ![1] = @ + 1], Append(bl, x))
         /\ made[1] = Len(bl) /\ Len(above) \in Nat
<1>0. PICK V, R : TreeAs(V, R, above, made, bl)
  BY DEF Tree
<1> DEFINE h == Len(above)
           n == h + 1
           c == Full(1, Len(bl), x)
           W == V \cup {c}
           P == With(R, 1, c)
           X == Seq(V)
           Y == Seq(W)
           m == [made EXCEPT ![1] = @ + 1]
<1>1. /\ above \in Seq(X) /\ R \in [1 .. n -> X] /\ made = [j \in 1 .. n |-> Len(R[j])] /\ R[1] = LeavesOf(bl)
      /\ \A j \in 1 .. h : Over(j, R[j], R[j + 1], above[j]) /\ Len(above[j]) < FanOut
      /\ R[n] = <<>> /\ (h > 0 => R[h] # <<>>)
  BY <1>0 DEF TreeAs
<1>2. h \in Nat /\ n \in Nat /\ 1 \in 1 .. n
  BY <1>1
<1>3. c \in W /\ V \subseteq W
  OBVIOUS
<1> HIDE DEF h, c, W, m
<1>4. X \subseteq Y
  <2> SUFFICES ASSUME NEW s \in Seq(V)  PROVE s \in Seq(W)
    OBVIOUS
  <2> QED BY <1>3
<1> HIDE DEF X, Y
<1>5. above \in Seq(Y) /\ R \in [1 .. n -> Y] /\ R \in [1 .. n -> Seq(W)]
  <2>1. above \in Seq(Y)
    BY <1>1, <1>4
  <2>2. R \in [1 .. n -> Y]
    BY <1>1, <1>4
  <2> QED BY <2>1, <2>2 DEF Y
<1>6. /\ P \in [1 .. n -> Seq(W)] /\ P[1] = Append(R[1], c)
      /\ \A j \in 1 .. n : j # 1 => P[j] = R[j]
  <2> DEFINE k == 1
  <2> HIDE DEF n, k
  <2>1. n \in Nat /\ R \in [1 .. n -> Seq(W)] /\ k \in 1 .. n /\ c \in W
    BY <1>2, <1>3, <1>5 DEF k
  <2>2. Grown(W, n, R, k, c, With(R, k, c))
    BY ONLY <2>1, GrownIs
  <2> QED BY <2>2 DEF Grown, k
<1>7. Len(LeavesOf(bl)) = Len(bl) /\ Append(LeavesOf(bl), c) = LeavesOf(Append(bl, x))
  <2> DEFINE u == LeavesOf(bl)
             b == Append(bl, x)
             v == LeavesOf(b)
             q == Len(bl)
  <2>1. q \in Nat /\ Len(b) = q + 1 /\ b[q + 1] = x /\ \A i \in 1 .. q : b[i] = bl[i]
    OBVIOUS
  <2>2. u = [i \in 1 .. q |-> Full(1, i - 1, bl[i])]
    BY DEF LeavesOf
  <2>3. v = [i \in 1 .. q + 1 |-> Full(1, i - 1, b[i])]
    <3>1. b \in Seq(E)
      OBVIOUS
    <3> HIDE DEF b
    <3> QED BY <2>1, <3>1 DEF LeavesOf
  <2> DEFINE F(i) == Full(1, i - 1, bl[i])
             D == {F(i) : i \in 1 .. q} \cup {c}
  <2>4. u = [i \in 1 .. q |-> F(i)] /\ c \in D /\ \A i \in 1 .. q : F(i) \in D
    BY <2>2
  <2> HIDE DEF D, F, q, u, v
  <2>5. u \in Seq(D) /\ Len(u) = q /\ \A i \in 1 .. q : u[i] = F(i)
    BY <2>1, <2>4
  <2>6. Append(u, c) \in Seq(D) /\ Len(Append(u, c)) = q + 1 /\ Append(u, c)[q + 1] = c /\ \A i \in 1 .. q : Append(u, c)[i] = u[i]
    BY <2>1, <2>4, <2>5
  <2> DEFINE w == Append(u, c)
  <2>8. w[q + 1] = c /\ (\A i \in 1 .. q : w[i] = F(i)) /\ w \in Seq(D) /\ Len(w) = q + 1
    BY <2>5, <2>6
  <2> HIDE DEF w
  <2>7. w = [i \in 1 .. q + 1 |-> w[i]]
    BY <2>8, <2>1
  <2>9. \A i \in 1 .. q + 1 : w[i] = Full(1, i - 1, b[i])
    <3> SUFFICES ASSUME NEW i \in 1 .. q + 1  PROVE w[i] = Full(1, i - 1, b[i])
      OBVIOUS
    <3> HIDE DEF b
    <3>1. CASE i = q + 1
      <4>1. i - 1 = q
        BY <3>1, <2>1
      <4>2. Full(1, i - 1, b[i]) = Full(1, q, x)
        BY <4>1, <3>1, <2>1
      <4> QED BY <4>2, <3>1, <2>8 DEF c, q
    <3>2. CASE i # q + 1
      <4>1. i \in 1 .. q
        BY <3>2, <2>1
      <4> QED BY <4>1, <2>1, <2>8 DEF F
    <3> QED BY <3>1, <3>2
  <2>10. w = v
    BY <2>3, <2>7, <2>9
  <2> QED BY <2>5, <2>10 DEF u, v, w, q, b
<1> HIDE DEF P
<1>8. m = [j \in 1 .. n |-> Len(P[j])]
  <2> DEFINE v == Len(R[1]) + 1
  <2>1. Len(R[1]) \in Nat /\ made[1] = Len(R[1])
    BY <1>1, <1>2, <1>5 DEF Y
  <2>2. v \in Nat /\ m = [made EXCEPT ![1] = v]
    BY <2>1 DEF m
  <2>3. Len(P[1]) = v
    <3>1. R[1] \in Seq(W)
      BY <1>2, <1>5
    <3>2. Len(Append(R[1], c)) = Len(R[1]) + 1
      BY <3>1, <1>3
    <3> QED BY <3>2, <1>6
  <2> HIDE DEF v
  <2>4. \A j \in 1 .. n : m[j] = Len(P[j])
    <3> SUFFICES ASSUME NEW j \in 1 .. n  PROVE m[j] = Len(P[j])
      OBVIOUS
    <3>1. CASE j = 1
      BY <3>1, <2>2, <2>3, <1>1
    <3>2. CASE j # 1
      BY <3>2, <2>2, <1>6, <1>1
    <3> QED BY <3>1, <3>2
  <2>5. m = [j \in 1 .. n |-> m[j]]
    BY <2>2, <1>1
  <2> QED BY <2>4, <2>5
<1>9. P[1] = LeavesOf(Append(bl, x)) /\ made[1] = Len(bl)
  <2>1. made[1] = Len(R[1])
    BY <1>1, <1>2
  <2> QED BY <2>1, <1>1, <1>6, <1>7
<1>10. ASSUME NEW j \in 1 .. h  PROVE Over(j, R[j], P[j + 1], above[j]) /\ Len(above[j]) < FanOut
  <2>1. j + 1 \in 1 .. n /\ j + 1 # 1
    BY <1>2
  <2>2. P[j + 1] = R[j + 1]
    BY <2>1, <1>6
  <2> QED BY <2>2, <1>1
<1>11. ClimbsAs(W, R, c, 1, above, m, Append(bl, x))
  BY <1>1, <1>2, <1>3, <1>5, <1>8, <1>9, <1>10 DEF ClimbsAs, P, Y, h
<1>12. Climbs(c, 1, above, m, Append(bl, x))
  BY <1>11 DEF Climbs
<1> QED BY <1>2, <1>9, <1>12 DEF m, c, h

\* The leaves are counted.
LEMMA LeafCount ==
  ASSUME NEW above, NEW made, NEW E, NEW bl \in Seq(E), Tree(above, made, bl)
  PROVE  made[1] = Len(bl)
<1>0. PICK V, R : TreeAs(V, R, above, made, bl)
  BY DEF Tree
<1>1. 1 \in 1 .. Len(above) + 1 /\ made[1] = Len(LeavesOf(bl))
  <2>1. above \in Seq(Seq(V)) /\ made = [j \in 1 .. Len(above) + 1 |-> Len(R[j])] /\ R[1] = LeavesOf(bl)
    BY <1>0 DEF TreeAs
  <2>2. 1 \in 1 .. Len(above) + 1
    BY <2>1
  <2> QED BY <2>1, <2>2
<1>2. Len(LeavesOf(bl)) = Len(bl)
  BY DEF LeavesOf
<1> QED BY <1>1, <1>2

\* It comes to rest.
LEMMA PushRests ==
  ASSUME NEW s, NEW E, NEW bl \in Seq(E), Tree(s.above, s.made, bl), NEW x \in E
  PROVE  LET up == PushUp(s, Full(1, Len(bl), x), FALSE) IN Tree(up.above, up.made, Append(bl, x))
<1> DEFINE leaf == Full(1, Len(bl), x)
           no == FALSE
           up == PushUp(s, leaf, no)
           h == Len(s.above)
           n == h + 1
           B == Append(bl, x)
           m == [s.made EXCEPT ![1] = @ + 1]
           Moves(z, i) == /\ i <= h /\ z = Going(z.above, z.made, z.carried, i + 1, FALSE)
                          /\ Climbs(z.carried, i + 1, z.above, z.made, B) /\ Len(z.above) = h
           Stays(z) == z.stopped = TRUE /\ Tree(z.above, z.made, B)
<1>1. Climbs(leaf, 1, s.above, m, B) /\ h \in Nat
  BY LeafClimbs
<1> HIDE DEF leaf, B, m
<1>2. PICK f : Pushes(f, s, leaf, no)
  BY <1>1, PushUpIs
<1>3. /\ f[0] = Going(s.above, m, leaf, 1, FALSE) /\ up = f[n]
      /\ \A i \in 1 .. n : f[i] = IF f[i - 1].stopped THEN f[i - 1] ELSE Join(f[i - 1], no)
  BY <1>2 DEF Pushes, m
<1> HIDE DEF up
<1> DEFINE T == {i \in 0 .. n : Moves(f[i], i) \/ Stays(f[i])}
<1> HIDE DEF h
<1>4. 0 \in T
  <2>1. f[0].above = s.above /\ f[0].made = m /\ f[0].carried = leaf
    BY <1>3 DEF Going
  <2>2. 0 <= h /\ 0 + 1 = 1 /\ 0 \in 0 .. n
    BY <1>1
  <2>3. Moves(f[0], 0)
    BY <2>1, <2>2, <1>1, <1>3 DEF h
  <2> HIDE DEF Moves, Stays
  <2> QED BY <2>2, <2>3
<1>5. ASSUME NEW i \in 1 .. n, i - 1 \in T  PROVE i \in T
  <2> DEFINE y == f[i - 1]
             z == f[i]
  <2>0. i \in 0 .. n /\ (i - 1) + 1 = i /\ i - 1 <= h
    BY <1>1
  <2>1. Moves(y, i - 1) \/ Stays(y)
    BY <1>5
  <2>2. z = IF y.stopped THEN y ELSE Join(y, no)
    BY <1>3
  <2> HIDE DEF T, y, z
  <2>3. CASE Stays(y)
    <3>1. z = y
      BY <2>2, <2>3
    <3>2. Stays(z)
      BY <3>1, <2>3
    <3> HIDE DEF Stays, Moves
    <3> QED BY <3>2, <2>0 DEF T, z
  <2>4. CASE Moves(y, i - 1)
    <3> DEFINE a == y.above
               g == y.made
               c == y.carried
    <3>1. y = Going(a, g, c, i, FALSE) /\ Climbs(c, i, a, g, B) /\ Len(a) = h
      BY <2>0, <2>4
    <3> HIDE DEF a, g, c
    <3>2. z = Join(Going(a, g, c, i, FALSE), FALSE)
      <4>1. y.stopped = FALSE
        BY <3>1 DEF Going
      <4> QED BY <4>1, <3>1, <2>2
    <3>3. Goes(z, a, i, B)
      BY <3>1, <3>2, JoinGoes
    <3>4. CASE z.stopped = TRUE /\ Tree(z.above, z.made, B)
      <4>1. Stays(z)
        BY <3>4
      <4> HIDE DEF Stays, Moves
      <4> QED BY <4>1, <2>0 DEF T, z
    <3>5. CASE /\ z = Going(z.above, z.made, z.carried, i + 1, FALSE) /\ Climbs(z.carried, i + 1, z.above, z.made, B)
               /\ Len(z.above) = Len(a)
      <4>1. i + 1 \in 1 .. Len(z.above) + 1
        BY <3>5 DEF Climbs, ClimbsAs
      <4>2. i <= h
        BY <4>1, <3>1, <3>5, <1>1, <2>0
      <4>3. Moves(z, i)
        BY <4>2, <3>1, <3>5
      <4> HIDE DEF Stays, Moves
      <4> QED BY <4>3, <2>0 DEF T, z
    <3> QED BY <3>3, <3>4, <3>5 DEF Goes
  <2> QED BY <2>1, <2>3, <2>4
<1>6. n \in T
  <2> HIDE DEF T
  <2>1. \A i \in 0 .. n : i \in T
    BY <1>1, <1>4, <1>5, Climbing
  <2> QED BY <2>1, <1>1
<1>7. Stays(up)
  <2>1. Moves(up, n) \/ Stays(up)
    BY <1>6, <1>3
  <2>2. ~(n <= h)
    BY <1>1
  <2> QED BY <2>1, <2>2
<1> QED BY <1>7 DEF up, leaf, B

\* MD6: a leaf being filled, and the tree over those that are full.
Md6As(E, s, d, bl) ==
  /\ s = [leaf |-> s.leaf, above |-> s.above, made |-> s.made]
  /\ s.leaf \in Seq(E) /\ Len(s.leaf) <= UnitSize /\ CutInto(d, bl, s.leaf) /\ Tree(s.above, s.made, bl)

Md6Cut(E, s, d) == \E bl \in Seq(Seq(E)) : Md6As(E, s, d, bl)

\* Only before the first byte is the leaf empty.
Md6At(E, s, d) == Md6Cut(E, s, d) /\ (s.leaf = <<>> => d = <<>>)

\* MD6 before its first byte.
LEMMA Md6Begins == ASSUME NEW E  PROVE Md6At(E, Md6Start, <<>>)
<1>1. UnitSize \in Nat \ {0} /\ <<>> \in Seq(Seq(E)) /\ <<>> \in Seq(E) /\ Len(<<>>) = 0 /\ Len(<<>>) <= UnitSize
  BY UnitsAreUnits
<1>2. Md6Start = [leaf |-> <<>>, above |-> <<>>, made |-> <<0>>]
  BY DEF Md6Start
<1>3. Md6As(E, Md6Start, <<>>, <<>>)
  BY <1>1, <1>2, CutNothing, TreeBegins DEF Md6As
<1> QED BY <1>1, <1>3 DEF Md6At, Md6Cut

\* A full leaf goes up.
Md6Closed(s) == LET up == PushUp(s, Leaf(s, FALSE), FALSE) IN [leaf |-> <<>>, above |-> up.above, made |-> up.made]

\* A full leaf goes up the tree.
LEMMA Md6Climbs ==
  ASSUME NEW E, NEW d \in Seq(E), NEW s, Md6Cut(E, s, d), Len(s.leaf) = UnitSize
  PROVE  Md6Cut(E, Md6Closed(s), d) /\ Md6Closed(s).leaf = <<>>
<1>0. PICK bl \in Seq(Seq(E)) : Md6As(E, s, d, bl)
  BY DEF Md6Cut
<1> DEFINE x == s.leaf
           cl == Append(bl, x)
           no == FALSE
           leaf == Leaf(s, no)
           up == PushUp(s, leaf, no)
           r == Md6Closed(s)
           D == Seq(E)
<1>1. x \in D /\ x \in Seq(E) /\ Len(x) = UnitSize /\ CutInto(d, bl, x) /\ Tree(s.above, s.made, bl) /\ UnitSize \in Nat \ {0}
      /\ bl \in Seq(D)
  BY <1>0, UnitsAreUnits DEF Md6As
<1>2. r = [leaf |-> <<>>, above |-> up.above, made |-> up.made]
  BY DEF Md6Closed
<1> HIDE DEF x, r, D
<1>3. leaf = Full(1, Len(bl), x)
  <2>1. s.made[1] = Len(bl)
    BY <1>0, <1>1, LeafCount
  <2>2. UnitSize - Len(x) = 0
    BY <1>1
  <2> QED BY <2>1, <2>2 DEF Leaf, Full, x
<1>4. Tree(up.above, up.made, cl)
  <2>1. Tree(PushUp(s, Full(1, Len(bl), x), FALSE).above, PushUp(s, Full(1, Len(bl), x), FALSE).made, Append(bl, x))
    BY <1>1, PushRests
  <2> HIDE DEF leaf
  <2> QED BY <2>1, <1>3
<1> HIDE DEF up
<1>5. cl \in Seq(Seq(E)) /\ CutInto(d, cl, <<>>)
  <2>1. bl \in Seq(Seq(E)) /\ CutInto(d, bl, x) /\ x \in Seq(E) /\ Len(x) = UnitSize
    BY <1>0, <1>1
  <2>2. CutInto(d, Append(bl, x), <<>>)
    BY ONLY <2>1, CutFull
  <2>3. Append(bl, x) \in Seq(Seq(E))
    BY <2>1
  <2> QED BY <2>2, <2>3
<1> HIDE DEF cl
<1>6. r.leaf = <<>> /\ r.above = up.above /\ r.made = up.made
  BY <1>2
<1>7. Md6As(E, r, d, cl)
  <2>1. <<>> \in Seq(E) /\ Len(<<>>) <= UnitSize
    BY <1>1
  <2> QED BY <2>1, <1>2, <1>4, <1>5, <1>6 DEF Md6As
<1>8. Md6Cut(E, r, d)
  BY <1>5, <1>7 DEF Md6Cut
<1> QED BY <1>6, <1>8 DEF r

\* One piece.
Md6Took(s, x) == [(IF Len(s.leaf) = UnitSize THEN Md6Closed(s) ELSE s) EXCEPT !.leaf = @ \o x]

\* A piece, after a full leaf has gone up.
LEMMA Md6Takes ==
  ASSUME NEW E, NEW d \in Seq(E), NEW s, Md6At(E, s, d), NEW x \in Seq(E), x # <<>>,
         Len(x) <= (IF Len(s.leaf) = UnitSize THEN UnitSize ELSE UnitSize - Len(s.leaf))
  PROVE  /\ Md6At(E, Md6Took(s, x), d \o x)
         /\ Len(x) = (IF Len(s.leaf) = UnitSize THEN UnitSize ELSE UnitSize - Len(s.leaf))
              => Len(Md6Took(s, x).leaf) = UnitSize
<1> DEFINE r == IF Len(s.leaf) = UnitSize THEN Md6Closed(s) ELSE s
           z == Md6Took(s, x)
           room == IF Len(s.leaf) = UnitSize THEN UnitSize ELSE UnitSize - Len(s.leaf)
           y == r.leaf
           k == Len(y)
<1>1. Md6Cut(E, s, d) /\ UnitSize \in Nat \ {0} /\ Len(x) \in Nat \ {0} /\ Len(s.leaf) \in 0 .. UnitSize
  <2>1. s.leaf \in Seq(E) /\ Len(s.leaf) <= UnitSize
    BY DEF Md6At, Md6Cut, Md6As
  <2> QED BY <2>1, UnitsAreUnits DEF Md6At
<1>2. Md6Cut(E, r, d) /\ UnitSize - k = room
  <2>1. CASE Len(s.leaf) = UnitSize
    <3>1. Md6Cut(E, Md6Closed(s), d) /\ Md6Closed(s).leaf = <<>>
      BY <2>1, <1>1, Md6Climbs
    <3>2. r = Md6Closed(s) /\ room = UnitSize
      BY <2>1
    <3>3. y = <<>>
      BY <3>1, <3>2
    <3> HIDE DEF r, y, room
    <3> QED BY <3>1, <3>2, <3>3, <1>1
  <2>2. CASE Len(s.leaf) # UnitSize
    <3>1. r = s /\ room = UnitSize - Len(s.leaf)
      BY <2>2
    <3> HIDE DEF r, room
    <3> QED BY <3>1, <1>1
  <2> QED BY <2>1, <2>2
<1>3. z = [r EXCEPT !.leaf = @ \o x]
  BY DEF Md6Took
<1> HIDE DEF r, z
<1>4. PICK bl \in Seq(Seq(E)) : Md6As(E, r, d, bl)
  BY <1>2 DEF Md6Cut
<1> DEFINE w == y \o x
<1>5. /\ r = [leaf |-> y, above |-> r.above, made |-> r.made] /\ y \in Seq(E) /\ k <= UnitSize
      /\ CutInto(d, bl, y) /\ Tree(r.above, r.made, bl)
  BY <1>4 DEF Md6As
<1>6. z = [leaf |-> w, above |-> r.above, made |-> r.made]
  <2> DEFINE a == r.above
             m == r.made
  <2>1. r = [leaf |-> y, above |-> a, made |-> m] /\ z = [r EXCEPT !.leaf = w]
    BY <1>3, <1>5
  <2> HIDE DEF a, m, y, w
  <2>2. z = [leaf |-> w, above |-> a, made |-> m]
    BY <2>1
  <2> QED BY <2>2 DEF a, m
<1>7. w \in Seq(E) /\ Len(w) = k + Len(x) /\ k \in Nat /\ Len(w) <= UnitSize /\ Len(w) # 0
  <2>0. y \in Seq(E)
    BY <1>5
  <2> HIDE DEF y
  <2>1. w \in Seq(E) /\ Len(w) = k + Len(x) /\ k \in Nat
    BY <2>0
  <2>2. Len(x) <= room
    OBVIOUS
  <2> HIDE DEF room, k, w
  <2> QED BY <2>1, <2>2, <1>1, <1>2
<1>8. CutInto(d \o x, bl, w)
  <2>1. y \in Seq(E) /\ CutInto(d, bl, y) /\ Len(bl) \in Nat
    BY <1>4, <1>5
  <2> HIDE DEF y
  <2> QED BY <2>1, CutLonger
<1> HIDE DEF w, y
<1>9. z.leaf = w /\ z.above = r.above /\ z.made = r.made
  BY <1>6
<1>10. Md6As(E, z, d \o x, bl)
  BY <1>5, <1>6, <1>7, <1>8, <1>9 DEF Md6As
<1>11. w # <<>>
  BY <1>7
<1>12. Md6At(E, z, d \o x)
  BY <1>4, <1>9, <1>10, <1>11 DEF Md6At, Md6Cut
<1>13. Len(x) = room => Len(z.leaf) = UnitSize
  <2> HIDE DEF room, k
  <2> QED BY <1>1, <1>2, <1>7, <1>9
<1> QED BY <1>12, <1>13 DEF z

\* The pieces of a chunk, one after the other.
Takes(f, s, p) ==
  /\ f[0] = s /\ \A i \in 1 .. Len(p) : f[i] = Md6Took(f[i - 1], p[i])

\* The pieces are taken in turn.
LEMMA Md6Runs ==
  ASSUME NEW s, NEW chunk,
         NEW p, p = Pieces(IF Len(s.leaf) = UnitSize THEN UnitSize ELSE UnitSize - Len(s.leaf), chunk), Len(p) \in Nat
  PROVE  \E f : Takes(f, s, p) /\ Md6Update(s, chunk) = f[Len(p)]
<1> DEFINE n == Len(p)
           G(x, i) == Md6Took(x, p[i])
           Eq(f, m) == f = [i \in 0 .. m |-> IF i = 0 THEN s ELSE G(f[i - 1], i)]
           after == CHOOSE f : Eq(f, n)
           T == {m \in 0 .. n : \E f : Eq(f, m)}
<1>1. Md6Update(s, chunk) = after[n]
  BY DEF Md6Update, Md6Took, Md6Closed
<1>2. n \in Nat
  OBVIOUS
<1> HIDE DEF n, G
<1>4. 0 \in T
  <2> DEFINE f == [i \in 0 .. 0 |-> s]
  <2>1. Eq(f, 0)
    OBVIOUS
  <2> HIDE DEF f, Eq
  <2> QED BY <2>1, <1>2
<1>5. ASSUME NEW m \in 1 .. n, m - 1 \in T  PROVE m \in T
  <2>0. PICK f : Eq(f, m - 1)
    BY <1>5
  <2> DEFINE h == [i \in 0 .. m |-> IF i < m THEN f[i] ELSE G(f[m - 1], m)]
  <2>1. m \in Nat /\ m - 1 \in 0 .. m - 1 /\ m # 0
    BY <1>2
  <2>2. ASSUME NEW i \in 0 .. m  PROVE h[i] = IF i = 0 THEN s ELSE G(h[i - 1], i)
    <3>1. CASE i = 0
      <4>1. 0 \in 0 .. m - 1 /\ h[0] = f[0]
        BY <2>1
      <4>2. f[0] = s
        BY <4>1, <2>0
      <4> QED BY <4>1, <4>2, <3>1
    <3>2. CASE i # 0 /\ i < m
      <4>1. i \in 0 .. m - 1 /\ i - 1 \in 0 .. m /\ i - 1 < m
        BY <3>2, <2>1
      <4>2. h[i] = f[i] /\ h[i - 1] = f[i - 1]
        BY <4>1, <3>2
      <4>3. f[i] = G(f[i - 1], i)
        BY <4>1, <3>2, <2>0
      <4> QED BY <4>2, <4>3, <3>2
    <3>3. CASE i # 0 /\ ~(i < m)
      <4>1. i = m /\ i - 1 \in 0 .. m /\ i - 1 < m
        BY <3>3, <2>1
      <4>2. h[i] = G(f[m - 1], m) /\ h[i - 1] = f[i - 1]
        BY <4>1, <3>3
      <4> QED BY <4>1, <4>2, <3>3
    <3> QED BY <3>1, <3>2, <3>3
  <2>3. h = [i \in 0 .. m |-> h[i]]
    OBVIOUS
  <2> HIDE DEF h
  <2>4. Eq(h, m)
    BY <2>2, <2>3
  <2>5. m \in 0 .. n
    BY <1>2
  <2> HIDE DEF Eq
  <2> QED BY <2>4, <2>5
<1> HIDE DEF T
<1>6. n \in T
  <2>1. \A m \in 0 .. n : m \in T
    BY <1>2, <1>4, <1>5, Climbing
  <2>2. n \in 0 .. n
    BY <1>2
  <2> QED BY <2>1, <2>2
<1>7. Eq(after, n)
  <2> HIDE DEF Eq
  <2>1. \E f : Eq(f, n)
    BY <1>6 DEF T
  <2> QED BY <2>1
<1> HIDE DEF after
<1>8. after[0] = s /\ \A i \in 1 .. n : after[i] = G(after[i - 1], i)
  BY <1>2, <1>7
<1>9. Takes(after, s, p)
  BY <1>8 DEF Takes, n, G
<1> QED BY <1>1, <1>9 DEF n

\* MD6.update.
LEMMA Md6GoesOn ==
  ASSUME NEW E, NEW d \in Seq(E), NEW s, Md6At(E, s, d), NEW chunk \in Seq(E)
  PROVE  Md6At(E, Md6Update(s, chunk), d \o chunk)
<1> DEFINE room == IF Len(s.leaf) = UnitSize THEN UnitSize ELSE UnitSize - Len(s.leaf)
           p == Pieces(room, chunk)
           n == Len(p)
           End(i) == PieceEnd(room, chunk, i)
           Read(i) == SubSeq(chunk, 1, End(i))
           Q(z, i) == /\ Md6At(E, z, d \o Read(i))
                      /\ i > 0 /\ i < n => Len(z.leaf) = UnitSize
                      /\ i = 0 => z = s
<1>0. p = Pieces(IF Len(s.leaf) = UnitSize THEN UnitSize ELSE UnitSize - Len(s.leaf), chunk)
  OBVIOUS
<1>2. UnitSize \in Nat \ {0} /\ room \in 1 .. UnitSize
  <2>1. s.leaf \in Seq(E) /\ Len(s.leaf) <= UnitSize
    BY DEF Md6At, Md6Cut, Md6As
  <2> QED BY <2>1, UnitsAreUnits
<1>c. room = IF Len(s.leaf) = UnitSize THEN UnitSize ELSE UnitSize - Len(s.leaf)
  OBVIOUS
<1> HIDE DEF room
<1>a. p = Pieces(room, chunk) /\ n = Len(p)
  OBVIOUS
<1> HIDE DEF n, p
<1>3. /\ n \in Nat /\ End(n) = Len(chunk) /\ \A i \in 0 .. n : End(i) \in 0 .. Len(chunk)
      /\ \A i \in 1 .. n :
           /\ End(i - 1) < End(i) /\ p[i] = SubSeq(chunk, End(i - 1) + 1, End(i))
           /\ Len(p[i]) = End(i) - End(i - 1) /\ Len(p[i]) <= (IF i = 1 THEN room ELSE UnitSize)
           /\ i < n => Len(p[i]) = (IF i = 1 THEN room ELSE UnitSize)
  <2>1. PiecesFit(E, room, chunk, p, n)
    <3>1. room \in 1 .. UnitSize
      BY <1>2
    <3> QED BY <3>1, PiecesAre DEF p, n
  <2> QED BY <2>1 DEF PiecesFit, PieceFits
<1>4. End(0) = 0
  BY DEF PieceEnd
<1> HIDE DEF End
<1>5. ASSUME NEW i \in 1 .. n
      PROVE  d \o Read(i) = (d \o Read(i - 1)) \o p[i] /\ d \o Read(i - 1) \in Seq(E) /\ p[i] \in Seq(E) /\ p[i] # <<>>
  <2> DEFINE a == End(i - 1)
             c == End(i)
  <2>1. a \in 0 .. Len(chunk) /\ c \in 0 .. Len(chunk) /\ a < c /\ p[i] = SubSeq(chunk, a + 1, c) /\ Len(chunk) \in Nat
        /\ Len(p[i]) = c - a
    <3>1. i - 1 \in 0 .. n /\ i \in 0 .. n
      BY <1>3
    <3> QED BY <3>1, <1>3
  <2> HIDE DEF a, c
  <2>5. p[i] # <<>>
    <3>1. Len(p[i]) # 0
      BY <2>1
    <3> QED BY <3>1
  <2>2. SubSeq(chunk, 1, a) \in Seq(E) /\ SubSeq(chunk, a + 1, c) \in Seq(E)
        /\ SubSeq(chunk, 1, c) = SubSeq(chunk, 1, a) \o SubSeq(chunk, a + 1, c)
    BY <2>1
  <2> DEFINE u == SubSeq(chunk, 1, a)
             v == SubSeq(chunk, a + 1, c)
  <2>3. u \in Seq(E) /\ v \in Seq(E) /\ SubSeq(chunk, 1, c) = u \o v
    BY <2>2
  <2> HIDE DEF u, v
  <2>4. d \o (u \o v) = (d \o u) \o v /\ d \o u \in Seq(E)
    BY <2>3, Associates
  <2> QED BY <2>1, <2>3, <2>4, <2>5 DEF u, v, a, c
<1>b. PICK f : Takes(f, s, p) /\ Md6Update(s, chunk) = f[n]
  <2>1. Len(p) \in Nat
    BY <1>3, <1>a
  <2> QED BY <2>1, <1>0, <1>a, Md6Runs
<1>6. Q(f[0], 0)
  <2>1. Read(0) = <<>>
    BY <1>4
  <2>2. d \o <<>> = d
    OBVIOUS
  <2>3. Md6At(E, s, d \o Read(0))
    BY <2>1, <2>2
  <2>4. f[0] = s
    BY <1>b DEF Takes
  <2> HIDE DEF Read
  <2> QED BY <2>3, <2>4
<1>7. ASSUME NEW i \in 1 .. n, Q(f[i - 1], i - 1)  PROVE Q(f[i], i)
  <2> DEFINE z == f[i - 1]
             r == Md6Took(z, p[i])
             full == IF Len(z.leaf) = UnitSize THEN UnitSize ELSE UnitSize - Len(z.leaf)
             x == p[i]
             e == d \o Read(i - 1)
  <2>0. i - 1 \in 0 .. n /\ i \in 0 .. n /\ i \in Nat /\ i > 0 /\ (i # 1 => i - 1 > 0 /\ i - 1 < n)
    BY <1>3
  <2>1. Md6At(E, z, e) /\ (i # 1 => Len(z.leaf) = UnitSize) /\ (i = 1 => z = s)
    BY <2>0, <1>7
  <2>2. f[i] = r
    BY <1>b, <1>a DEF Takes
  <2>3. full = IF i = 1 THEN room ELSE UnitSize
    <3>1. CASE i = 1
      BY <3>1, <2>1, <1>c
    <3>2. CASE i # 1
      BY <3>2, <2>1, <1>2
    <3> QED BY <3>1, <3>2
  <2>4. Len(x) <= full /\ (i < n => Len(x) = full)
    BY <2>3, <1>3
  <2>5. d \o Read(i) = e \o x /\ e \in Seq(E) /\ x \in Seq(E) /\ x # <<>> /\ Md6At(E, z, e)
    BY <2>1, <1>5
  <2> HIDE DEF x, e, z
  <2>6. Md6At(E, Md6Took(z, x), e \o x) /\ (Len(x) = full => Len(Md6Took(z, x).leaf) = UnitSize)
    BY <2>4, <2>5, Md6Takes
  <2>7. Md6At(E, r, d \o Read(i)) /\ (i < n => Len(r.leaf) = UnitSize)
    BY <2>4, <2>5, <2>6 DEF x
  <2> HIDE DEF r, Read
  <2> QED BY <2>0, <2>2, <2>7
<1> HIDE DEF Read, Q
<1> DEFINE T == {i \in 0 .. n : Q(f[i], i)}
<1>8. 0 \in T /\ \A i \in 1 .. n : i - 1 \in T => i \in T
  <2>1. 0 \in T
    BY <1>3, <1>6
  <2>2. ASSUME NEW i \in 1 .. n, i - 1 \in T  PROVE i \in T
    BY <2>2, <1>3, <1>7
  <2> QED BY <2>1, <2>2
<1> HIDE DEF T
<1>9. n \in T
  <2>1. \A i \in 0 .. n : i \in T
    BY <1>3, <1>8, Climbing
  <2> QED BY <2>1, <1>3
<1>10. Q(f[n], n)
  BY <1>9 DEF T
<1>15. Read(n) = chunk
  BY <1>3 DEF Read
<1> QED BY <1>b, <1>10, <1>15 DEF Q

\* Every row is shorter than the one below it, and none but the last is empty.
LEMMA RowsThin ==
  ASSUME NEW V, NEW R, NEW above, NEW made, NEW bl, TreeAs(V, R, above, made, bl), Len(above) > 0
  PROVE  \A j \in 1 .. Len(above) : Len(R[j]) \in Nat /\ Len(R[j]) >= Len(above) - j + 1
<1> DEFINE h == Len(above)
           X == Seq(V)
           L(j) == Len(R[j])
           T == {k \in Nat : k < h => L(h - k) >= k + 1}
<1>1. /\ above \in Seq(X) /\ R \in [1 .. h + 1 -> X] /\ R[h] # <<>> /\ h > 0
      /\ \A j \in 1 .. h : Over(j, R[j], R[j + 1], above[j])
  BY DEF TreeAs
<1>2. h \in Nat /\ FanOut \in Nat /\ FanOut > 1
  BY <1>1, FansAre
<1> HIDE DEF h
<1>3. \A j \in 1 .. h + 1 : L(j) \in Nat
  BY <1>1 DEF X
<1>4. ASSUME NEW j \in 1 .. h  PROVE L(j) = L(j + 1) * FanOut + Len(above[j]) /\ Len(above[j]) \in Nat
  <2>1. above[j] \in X
    BY <1>1, <1>2 DEF h
  <2> QED BY <2>1, <1>1 DEF Over, X
<1>5. L(h) > 0
  <2>1. h \in 1 .. h + 1
    BY <1>1, <1>2
  <2>2. R[h] \in Seq(V)
    BY <2>1, <1>1 DEF X
  <2> DEFINE r == R[h]
  <2> HIDE DEF r
  <2>3. r \in Seq(V) /\ r # <<>>
    BY <2>2, <1>1 DEF r
  <2>4. Len(r) > 0
    BY <2>3
  <2> QED BY <2>4 DEF r
<1> HIDE DEF L
<1>6. 0 \in T
  <2>1. h - 0 = h /\ h \in 1 .. h + 1
    BY <1>1, <1>2
  <2>2. L(h) >= 0 + 1
    BY <2>1, <1>3, <1>5
  <2> QED BY <2>1, <2>2
<1>7. ASSUME NEW k \in T  PROVE k + 1 \in T
  <2> SUFFICES ASSUME k + 1 < h  PROVE L(h - (k + 1)) >= k + 2
    <3>1. k \in Nat
      OBVIOUS
    <3> QED BY <3>1
  <2> DEFINE j == h - (k + 1)
             q == L(j + 1)
             u == Len(above[j])
  <2>1. k \in Nat /\ k < h /\ L(h - k) >= k + 1
    BY <1>2
  <2>2. j \in 1 .. h /\ j + 1 \in 1 .. h + 1 /\ j + 1 = h - k
    BY <2>1, <1>2
  <2>3. L(j) = q * FanOut + u /\ u \in Nat /\ q \in Nat /\ q >= k + 1 /\ L(j) \in Nat
    <3>1. j \in 1 .. h + 1
      BY <2>2, <1>2
    <3> QED BY <3>1, <2>1, <2>2, <1>3, <1>4
  <2>4. q * FanOut \in Nat /\ q * FanOut >= q + 1
    <3> HIDE DEF q
    <3> DEFINE F == FanOut - 2
    <3>1. q * F \in Nat /\ q * FanOut = q * F + q * 2
      <4>1. F \in Nat /\ FanOut = F + 2
        BY <1>2
      <4> HIDE DEF F
      <4>2. q * F \in Nat
        BY <4>1, <2>3, Products
      <4>3. (F + 2) * q = F * q + 2 * q
        BY <4>1, <2>3
      <4> QED BY <4>1, <4>2, <4>3, <2>3
    <3> DEFINE m == q * F
    <3>2. m \in Nat /\ q * FanOut = m + q * 2
      BY <3>1
    <3> HIDE DEF m
    <3> QED BY <3>2, <2>1, <2>3
  <2> DEFINE m == q * FanOut
  <2>5. m \in Nat /\ m >= q + 1 /\ L(j) = m + u
    BY <2>3, <2>4
  <2> HIDE DEF m, q, j, u
  <2>6. L(j) >= k + 2
    BY <2>1, <2>3, <2>5
  <2> QED BY <2>6 DEF j
<1> HIDE DEF T
<1>8. \A k \in Nat : k \in T
  <2>1. T \in SUBSET Nat
    BY DEF T
  <2> QED BY <2>1, <1>6, <1>7, Induction
<1>9. ASSUME NEW j \in 1 .. h  PROVE L(j) >= h - j + 1 /\ L(j) \in Nat
  <2>1. h - j \in Nat /\ h - j < h /\ h - (h - j) = j /\ j \in 1 .. h + 1
    BY <1>2
  <2>2. L(h - (h - j)) >= (h - j) + 1
    BY <2>1, <1>8 DEF T
  <2> QED BY <2>1, <2>2, <1>3
<1> QED BY <1>9 DEF h, L

\* The row over a row of level l.
Parents(below, l) ==
  LET count == (Len(below) + FanOut - 1) \div FanOut
  IN [i \in 1 .. count |->
        LET of == SubSeq(below, (i - 1) * FanOut + 1, Least(i * FanOut, Len(below)))
        IN Node(l, i - 1, of, FanOut - Len(of), count = 1)]

\* A last node closes what is still open of a row.
Top(l, up, t, c) == Node(l + 1, Len(up), Append(t, c), FanOut - Len(Append(t, c)), Len(up) = 0)

\* The row above a row.
LEMMA ParentsAre ==
  ASSUME NEW V, NEW l, NEW row \in Seq(V), NEW up \in Seq(V), NEW t, Over(l, row, up, t), Len(t) < FanOut, NEW c \in V
  PROVE  Parents(Append(row, c), l + 1) = Append(up, Top(l, up, t, c))
<1> DEFINE q == Len(up)
           below == Append(row, c)
           count == (Len(below) + FanOut - 1) \div FanOut
           m == q * FanOut
           e == Append(t, c)
           N(i) == LET of == SubSeq(below, (i - 1) * FanOut + 1, Least(i * FanOut, Len(below)))
                   IN Node(l + 1, i - 1, of, FanOut - Len(of), count = 1)
           last == Top(l, up, t, c)
           W == V \cup {last}
<1>1. FanOut \in Nat \ {0} /\ FanOut > 1 /\ q \in Nat /\ below \in Seq(V) /\ Len(below) = Len(row) + 1 /\ Len(row) \in Nat
  BY FansAre
<1>2. m \in Nat
  BY <1>1, Products
<1>3. t \in Seq(V) /\ Over(l, below, up, e) /\ Len(e) = Len(t) + 1
  <2>1. Len(up) \in Nat
    OBVIOUS
  <2> QED BY <2>1, OverLonger
<1>4. Len(below) = m + Len(e) /\ e = SubSeq(below, m + 1, Len(below)) /\ Len(e) \in 1 .. FanOut
      /\ \A i \in 1 .. q : up[i] = Full(l + 1, i - 1, Children(below, i))
  <2>1. Len(t) \in Nat
    BY <1>3
  <2> HIDE DEF e, below
  <2>2. Len(below) = m + Len(e) /\ e = SubSeq(below, m + 1, Len(below))
        /\ \A i \in 1 .. q : up[i] = Full(l + 1, i - 1, Children(below, i))
    BY <1>3 DEF Over
  <2>3. Len(t) < FanOut /\ Len(e) = Len(t) + 1
    BY <1>3
  <2>4. Len(e) \in 1 .. FanOut
    BY ONLY <1>1, <2>1, <2>3
  <2> HIDE DEF m, q
  <2> QED BY <2>2, <2>4
<1> HIDE DEF e, below, q
<1>5. count = q + 1
  <2> DEFINE r == Len(e) - 1
  <2>1. r \in 0 .. FanOut - 1
    BY <1>4, <1>1
  <2>2. (q + 1) * FanOut = m + FanOut
    <3>1. (q + 1) * FanOut = q * FanOut + 1 * FanOut
      BY <1>1, Distributes
    <3> QED BY <3>1, <1>1
  <2>3. Len(below) + FanOut - 1 = (q + 1) * FanOut + r
    <3> DEFINE z == (q + 1) * FanOut
    <3>1. z = m + FanOut
      BY <2>2
    <3>2. r \in Nat /\ Len(e) = r + 1
      <4>1. Len(e) \in 1 .. FanOut /\ FanOut \in Nat
        BY <1>1, <1>4
      <4> QED BY ONLY <4>1
    <3>3. m \in Nat /\ Len(below) = m + Len(e)
      BY <1>2, <1>4
    <3> HIDE DEF z, m, r
    <3>4. Len(below) + FanOut - 1 = z + r
      BY <3>1, <3>2, <3>3, <1>1
    <3> QED BY <3>4 DEF z
  <2>4. FanOut \in Nat \ {0} /\ q + 1 \in Nat /\ r \in 0 .. FanOut - 1
    BY <2>1, <1>1
  <2> HIDE DEF r
  <2>5. ((q + 1) * FanOut + r) \div FanOut = q + 1
    BY ONLY <2>4, DivIs
  <2> QED BY <2>3, <2>5
<1>6. Parents(below, l + 1) = [i \in 1 .. q + 1 |-> N(i)]
  BY <1>5 DEF Parents
<1>7. (count = 1) = (q = 0)
  BY <1>1, <1>5
<1> HIDE DEF count, m
<1>8. ASSUME NEW i \in 1 .. q  PROVE N(i) = up[i]
  <2> DEFINE a == (i - 1) * FanOut
             b == i * FanOut
             of == SubSeq(below, a + 1, b)
  <2>1. a \in Nat /\ b = a + FanOut /\ b \in Nat /\ b <= m
    BY <1>1, GroupPlace DEF m
  <2> HIDE DEF a, b
  <2>2. b <= Len(below) /\ Len(below) \in Nat
    BY <2>1, <1>2, <1>4
  <2>3. Least(b, Len(below)) = b
    BY <2>1, <2>2 DEF Least
  <2>4. Len(of) = FanOut
    <3>1. a \in Nat /\ b \in Nat /\ a <= b /\ b <= Len(below) /\ below \in Seq(V) /\ b - a = FanOut
      BY <2>1, <2>2, <1>1
    <3>2. Len(SubSeq(below, a + 1, b)) = b - a
      BY ONLY <3>1
    <3> QED BY <3>1, <3>2
  <2>5. (count = 1) = FALSE
    BY <1>1, <1>7
  <2>6. of = Children(below, i)
    BY DEF Children, a, b
  <2>7. N(i) = Node(l + 1, i - 1, of, FanOut - Len(of), FALSE)
    BY <2>3, <2>5 DEF a, b
  <2> HIDE DEF of
  <2>8. FanOut - Len(of) = 0
    BY <2>4, <1>1
  <2> HIDE DEF N
  <2> QED BY <2>6, <2>7, <2>8, <1>4 DEF Full
<1>9. N(q + 1) = last
  <2> DEFINE b == (q + 1) * FanOut
  <2>1. (q + 1) - 1 = q /\ b = m + FanOut
    <3>1. (q + 1) * FanOut = q * FanOut + 1 * FanOut
      BY <1>1, Distributes
    <3> QED BY <3>1, <1>1 DEF m
  <2> HIDE DEF b
  <2>2. Least(b, Len(below)) = Len(below)
    BY <2>1, <1>1, <1>2, <1>4 DEF Least
  <2>3. N(q + 1) = Node(l + 1, q, SubSeq(below, m + 1, Len(below)), FanOut - Len(SubSeq(below, m + 1, Len(below))), count = 1)
    BY <2>1, <2>2 DEF b, m
  <2> HIDE DEF N
  <2>4. N(q + 1) = Node(l + 1, q, e, FanOut - Len(e), q = 0)
    BY <2>3, <1>4, <1>7
  <2> QED BY <2>4 DEF Top, e, q
<1> DEFINE w == Append(up, last)
<1>10. w \in Seq(W) /\ Len(w) = q + 1 /\ w[q + 1] = last /\ \A i \in 1 .. q : w[i] = up[i]
  <2>1. V \subseteq W /\ last \in W
    OBVIOUS
  <2> HIDE DEF W, last
  <2>2. up \in Seq(W)
    BY <2>1
  <2> QED BY <2>1, <2>2 DEF q
<1> HIDE DEF w, W, last, N
<1>11. \A i \in 1 .. q + 1 : N(i) = w[i]
  <2> SUFFICES ASSUME NEW i \in 1 .. q + 1  PROVE N(i) = w[i]
    OBVIOUS
  <2>1. i \in 1 .. q \/ i = q + 1
    BY <1>1
  <2>2. CASE i \in 1 .. q
    BY <2>2, <1>8, <1>10
  <2>3. CASE i = q + 1
    BY <2>3, <1>9, <1>10
  <2> QED BY <2>1, <2>2, <2>3
<1>12. w = [i \in 1 .. q + 1 |-> w[i]]
  BY <1>1, <1>10
<1>13. Parents(below, l + 1) = w
  BY <1>6, <1>11, <1>12
<1> QED BY <1>13 DEF below, w, last

\* The rows of the tree as they are built over a whole message.
FirstRow(leaves) ==
  [i \in DOMAIN leaves |-> Node(1, i - 1, leaves[i], UnitSize - Len(leaves[i]), Len(leaves) = 1)]

NextRow(below, l) == IF Len(below) = 1 THEN below ELSE Parents(below, l)

Rows(g, leaves) ==
  g[1] = FirstRow(leaves) /\ \A l \in 2 .. Len(leaves) : g[l] = NextRow(g[l - 1], l)

\* The rows, from the leaves up.
LEMMA RowsAre ==
  ASSUME NEW d, NEW leaves, leaves = Blocks(d), Len(leaves) \in Nat \ {0}
  PROVE  \E g : Rows(g, leaves) /\ Md6Of(d) = g[Len(leaves)]
<1> DEFINE n == Len(leaves)
           start == FirstRow(leaves)
           G(x, l) == NextRow(x, l)
           Eq(g, m) == g = [l \in 1 .. m |-> IF l = 1 THEN start ELSE G(g[l - 1], l)]
           row == CHOOSE g : Eq(g, n)
           T == {m \in 0 .. n : \E g : Eq(g, m)}
<1>1. Md6Of(d) = row[n]
  BY DEF Md6Of, FirstRow, NextRow, Parents
<1>2. n \in Nat /\ n # 0
  OBVIOUS
<1> HIDE DEF n, start, G
<1>4. 0 \in T
  <2> DEFINE o == 0
             g == [l \in 1 .. o |-> start]
  <2>0. 1 .. o = {} /\ o \in 0 .. n
    BY <1>2
  <2>1. Eq(g, o)
    BY <2>0
  <2> HIDE DEF g, o, Eq
  <2>2. o \in T
    BY <2>0, <2>1
  <2> QED BY <2>2 DEF o
<1>5. ASSUME NEW m \in 1 .. n, m - 1 \in T  PROVE m \in T
  <2>0. PICK g : Eq(g, m - 1)
    BY <1>5
  <2> DEFINE h == [l \in 1 .. m |-> IF l < m THEN g[l] ELSE IF m = 1 THEN start ELSE G(g[m - 1], m)]
  <2>1. m \in Nat /\ m # 0
    BY <1>2
  <2>2. ASSUME NEW l \in 1 .. m  PROVE h[l] = IF l = 1 THEN start ELSE G(h[l - 1], l)
    <3>1. CASE l < m
      <4>1. l \in 1 .. m - 1 /\ h[l] = g[l]
        BY <3>1, <2>1
      <4>2. g[l] = IF l = 1 THEN start ELSE G(g[l - 1], l)
        BY <4>1, <2>0
      <4>3. l # 1 => h[l - 1] = g[l - 1]
        <5>1. l # 1 => l - 1 \in 1 .. m /\ l - 1 < m
          BY <3>1, <2>1
        <5> QED BY <5>1
      <4> QED BY <4>1, <4>2, <4>3
    <3>2. CASE ~(l < m)
      <4>1. l = m /\ h[l] = IF m = 1 THEN start ELSE G(g[m - 1], m)
        BY <3>2, <2>1
      <4>2. l # 1 => h[l - 1] = g[l - 1]
        <5>1. l # 1 => l - 1 \in 1 .. m /\ l - 1 < m
          BY <4>1, <2>1
        <5> QED BY <5>1
      <4> QED BY <4>1, <4>2
    <3> QED BY <3>1, <3>2
  <2>3. h = [l \in 1 .. m |-> h[l]]
    OBVIOUS
  <2> HIDE DEF h
  <2>4. Eq(h, m)
    BY <2>2, <2>3
  <2>5. m \in 0 .. n
    BY <1>2
  <2> HIDE DEF Eq
  <2> QED BY <2>4, <2>5
<1> HIDE DEF T
<1>6. n \in T
  <2>1. \A m \in 0 .. n : m \in T
    BY <1>2, <1>4, <1>5, Climbing
  <2>2. n \in 0 .. n
    BY <1>2
  <2> QED BY <2>1, <2>2
<1>7. Eq(row, n)
  <2> HIDE DEF Eq
  <2>1. \E g : Eq(g, n)
    BY <1>6 DEF T
  <2> QED BY <2>1
<1> HIDE DEF row
<1>8. row[1] = start /\ \A l \in 2 .. n : row[l] = G(row[l - 1], l)
  <2>1. 1 \in 1 .. n /\ \A l \in 2 .. n : l \in 1 .. n /\ l # 1
    BY <1>2
  <2> QED BY <2>1, <1>7
<1>9. Rows(row, leaves)
  BY <1>8 DEF Rows, n, G, start
<1> QED BY <1>1, <1>9 DEF n

\* A node joins its row at the end of the input: the node it makes goes on, and
\* at the top is the root.
Finally(a, m, c, l) == Join(Going(a, m, c, l, FALSE), TRUE)
Ended(a, m, c, l, v) ==
  Going([a EXCEPT ![l] = <<>>], [m EXCEPT ![l + 1] = @ + 1],
        Node(l + 1, m[l + 1], Append(a[l], c), FanOut - Len(Append(a[l], c)), v), l + 1, v)
Tops(a, c, l, v) ==
  ~(l > Len(a)) /\ v \in BOOLEAN /\ (v <=> l = Len(a)) /\ (v => Len(Append(a[l], c)) # 1)

\* A node on its way when the tree is closed.
LEMMA JoinEnds ==
  ASSUME NEW a, NEW m, NEW c, NEW l, NEW v, Tops(a, c, l, v)
  PROVE  Finally(a, m, c, l) = Ended(a, m, c, l, v)
<1> DEFINE t == Going(a, m, c, l, FALSE)
           of == Append(a[l], c)
           yes == TRUE
           top == yes /\ l = Len(a)
           ended == [t EXCEPT !.above = [a EXCEPT ![l] = of], !.made = m, !.stopped = TRUE]
           b == [a EXCEPT ![l] = <<>>]
           n == [m EXCEPT ![l + 1] = @ + 1]
           N(x) == Node(l + 1, m[l + 1], of, FanOut - Len(of), x)
<1>0. ~(l > Len(a)) /\ v \in BOOLEAN /\ (v <=> l = Len(a)) /\ (v => Len(of) # 1)
  BY DEF Tops
<1>1. t.level = l /\ t.above = a /\ t.made = m /\ t.carried = c
  BY DEF Going
<1> HIDE DEF t, yes
<1>2. Join(t, yes) = IF (~yes /\ Len(of) < FanOut) \/ (top /\ Len(of) = 1) THEN ended
                     ELSE [above |-> b, made |-> n, carried |-> N(top), level |-> l + 1, stopped |-> top]
  BY <1>0, <1>1 DEF Join
<1>a. top \in BOOLEAN /\ (top <=> v)
  BY <1>0 DEF yes
<1>b. top = v
  <2> HIDE DEF top
  <2> QED BY <1>a, <1>0, SameTruth
<1>3. yes /\ ~(v /\ Len(of) = 1)
  BY <1>0 DEF yes
<1> HIDE DEF ended, of, N, b, n, top
<1>4. Join(t, yes) = [above |-> b, made |-> n, carried |-> N(top), level |-> l + 1, stopped |-> top]
  <2>1. ~((~yes /\ Len(of) < FanOut) \/ (top /\ Len(of) = 1))
    BY <1>3, <1>b
  <2> QED BY <2>1, <1>2
<1>5. Join(t, yes) = [above |-> b, made |-> n, carried |-> N(v), level |-> l + 1, stopped |-> v]
  BY <1>b, <1>4
<1> QED BY <1>5 DEF t, yes, of, N, b, n, Going, Finally, Ended

\* The row over one that is closed.
LEMMA ParentsOf ==
  ASSUME NEW V, NEW l, NEW row \in Seq(V), NEW up \in Seq(V), NEW t, Over(l, row, up, t), Len(t) < FanOut, NEW c
  PROVE  Parents(Append(row, c), l + 1) = Append(up, Top(l, up, t, c))
<1> DEFINE W == V \cup {c}
<1>1. V \subseteq W /\ c \in W
  OBVIOUS
<1> HIDE DEF W
<1>2. row \in Seq(W) /\ up \in Seq(W)
  BY <1>1
<1> QED BY <1>1, <1>2, ParentsAre

\* A node that closes rows up to level l: what is above is as it was.
Closes(z, l, h, V, R, above, g) ==
  /\ z = Going(z.above, z.made, z.carried, l, z.stopped) /\ z.stopped \in BOOLEAN /\ (z.stopped <=> l = h + 1)
  /\ z.above \in Seq(Seq(V)) /\ Len(z.above) = h /\ \A j \in l .. h : z.above[j] = above[j]
  /\ z.made \in [1 .. h + 1 -> Nat] /\ \A j \in l + 1 .. h + 1 : z.made[j] = Len(R[j])
  /\ g[l] = Append(R[l], z.carried)

Closed(y) == Join(y, TRUE)

ClosesFrom(y, l, k, V, R, above, g) ==
  /\ \E made, bl : TreeAs(V, R, above, made, bl)
  /\ l \in 1 .. Len(above) /\ k = l + 1 /\ g[k] = NextRow(g[l], k) /\ Closes(y, l, Len(above), V, R, above, g)

\* One more level is closed.
LEMMA ClosesOne ==
  ASSUME NEW V, NEW R, NEW above, NEW l, NEW k, NEW g, NEW y, ClosesFrom(y, l, k, V, R, above, g)
  PROVE  Closes(Closed(y), k, Len(above), V, R, above, g)
<1>a. PICK made, bl : TreeAs(V, R, above, made, bl)
  BY DEF ClosesFrom
<1>b. l \in 1 .. Len(above) /\ k = l + 1 /\ g[k] = NextRow(g[l], k) /\ Closes(y, l, Len(above), V, R, above, g)
  BY DEF ClosesFrom
<1> DEFINE h == Len(above)
           X == Seq(V)
           a == y.above
           m == y.made
           c == y.carried
           of == Append(a[l], c)
           v == l = h
           b == [a EXCEPT ![l] = <<>>]
           n == [m EXCEPT ![k] = @ + 1]
           node == Node(k, m[k], of, FanOut - Len(of), v)
           z == Join(y, TRUE)
<1>1. /\ above \in Seq(X) /\ R \in [1 .. h + 1 -> X]
      /\ \A j \in 1 .. h : Over(j, R[j], R[j + 1], above[j]) /\ Len(above[j]) < FanOut
      /\ R[h + 1] = <<>>
  BY <1>a DEF TreeAs
<1>2. /\ y.stopped \in BOOLEAN /\ (y.stopped <=> l = h + 1) /\ y = Going(a, m, c, l, y.stopped)
      /\ a \in Seq(X) /\ Len(a) = h /\ \A j \in l .. h : a[j] = above[j]
      /\ m \in [1 .. h + 1 -> Nat] /\ \A j \in k .. h + 1 : m[j] = Len(R[j])
      /\ g[l] = Append(R[l], c)
  BY <1>b DEF Closes
<1>3. h \in Nat /\ l \in 1 .. h /\ k \in 1 .. h + 1 /\ k \in Nat /\ h > 0 /\ FanOut \in Nat /\ FanOut > 1
  <2>1. h \in Nat
    BY <1>1
  <2> QED BY <2>1, <1>b, FansAre
<1>4. \A j \in 1 .. h : Len(R[j]) \in Nat /\ Len(R[j]) >= h - j + 1
  BY <1>3, <1>a, RowsThin
<1>y. l + 1 = k
  BY <1>b
<1> HIDE DEF h, X, a, m, c
<1>5. y.stopped = FALSE /\ y = Going(a, m, c, l, FALSE)
  <2>1. ~(l = h + 1)
    BY <1>3
  <2>2. y.stopped = FALSE
    BY <2>1, <1>2
  <2> QED BY <2>2, <1>2
<1>6. a[l] = above[l] /\ a[l] \in X /\ R[l] \in Seq(V) /\ R[k] \in Seq(V) /\ Over(l, R[l], R[k], a[l]) /\ Len(a[l]) < FanOut
  <2>1. l \in l .. h /\ l \in 1 .. h + 1 /\ l \in 1 .. Len(a)
    BY <1>2, <1>3
  <2>2. a[l] = above[l]
    BY <2>1, <1>2
  <2>3. a[l] \in X
    BY <2>1, <1>2
  <2>4. R[l] \in X /\ R[k] \in X
    BY <2>1, <1>1, <1>3
  <2>5. Over(l, R[l], R[k], above[l]) /\ Len(above[l]) < FanOut
    BY <1>1, <1>3, <1>y
  <2> QED BY <2>2, <2>3, <2>4, <2>5 DEF X
<1>7. m[k] = Len(R[k])
  <2>1. k \in k .. h + 1
    BY <1>3
  <2> QED BY <2>1, <1>2
<1>8. Len(R[l]) >= 1 /\ Len(R[l]) \in Nat
  BY <1>3, <1>4
<1>9. v \in BOOLEAN /\ (v <=> Len(R[k]) = 0) /\ (v <=> k = h + 1)
  <2>1. k = h + 1 <=> l = h
    BY <1>3, <1>y
  <2>2. CASE l = h
    <3>1. R[k] = <<>>
      BY <2>1, <2>2, <1>1
    <3>2. Len(R[k]) = 0
      BY <3>1
    <3> QED BY <2>1, <2>2, <3>2
  <2>3. CASE l # h
    <3>1. k \in 1 .. h
      BY <2>3, <1>3, <1>y
    <3>2. Len(R[k]) \in Nat /\ Len(R[k]) >= h - k + 1
      BY <3>1, <1>4
    <3>3. Len(R[k]) # 0
      BY <3>1, <3>2, <1>3
    <3> QED BY <2>1, <2>3, <3>3
  <2> QED BY <2>2, <2>3
<1>10. v => Len(of) # 1
  <2> SUFFICES ASSUME v  PROVE Len(of) # 1
    OBVIOUS
  <2>1. Len(R[k]) = 0
    BY <1>9
  <2>2. Len(R[l]) = Len(R[k]) * FanOut + Len(a[l])
    BY <1>6 DEF Over
  <2> DEFINE u == a[l]
  <2>3. u \in Seq(V)
    BY <1>6 DEF X
  <2>4. 0 * FanOut = 0 /\ Len(R[l]) = Len(R[k]) * FanOut + Len(u)
    BY <2>2, <1>3
  <2> HIDE DEF u
  <2>5. Len(u) \in Nat /\ Len(u) >= 1
    BY <2>1, <2>3, <2>4, <1>8
  <2>6. Len(Append(u, c)) = Len(u) + 1
    <3> DEFINE W == V \cup {c}
    <3>1. V \subseteq W /\ c \in W
      OBVIOUS
    <3> HIDE DEF W
    <3>2. u \in Seq(W)
      BY <3>1, <2>3
    <3> QED BY <3>1, <3>2
  <2>7. Len(Append(u, c)) # 1
    BY <2>5, <2>6
  <2> QED BY <2>7 DEF u
<1>11. z = Going(b, n, node, k, v)
  <2>1. ~(l > Len(a)) /\ (v <=> l = Len(a))
    BY <1>2, <1>3
  <2> HIDE DEF v
  <2>2. Tops(a, c, l, v)
    BY <2>1, <1>9, <1>10 DEF Tops
  <2>3. Finally(a, m, c, l) = Ended(a, m, c, l, v)
    BY <2>2, JoinEnds
  <2> QED BY <2>3, <1>5, <1>y DEF Finally, Ended
<1> HIDE DEF v
<1>12. node = Top(l, R[k], a[l], c)
  <2> DEFINE w == Len(R[k]) = 0
  <2>1. v = w
    BY <1>9, SameTruth
  <2>2. m[k] = Len(R[k])
    BY <1>7
  <2> HIDE DEF w
  <2>3. node = Node(k, Len(R[k]), of, FanOut - Len(of), w)
    BY <2>1, <2>2
  <2> QED BY <2>3, <1>y DEF Top, w
<1>13. g[k] = Append(R[k], node)
  <2>1. Parents(Append(R[l], c), l + 1) = Append(R[k], Top(l, R[k], a[l], c))
    BY <1>6, ParentsOf
  <2>2. Len(g[l]) # 1
    <3> DEFINE r == R[l]
               W == V \cup {c}
    <3>1. V \subseteq W /\ c \in W
      OBVIOUS
    <3> HIDE DEF W
    <3>2. r \in Seq(W) /\ Len(r) >= 1
      BY <3>1, <1>6, <1>8
    <3>3. g[l] = Append(r, c)
      BY <1>2
    <3> HIDE DEF r
    <3>4. Len(Append(r, c)) = Len(r) + 1 /\ Len(r) \in Nat
      BY <3>1, <3>2
    <3> QED BY <3>2, <3>3, <3>4
  <2>3. g[k] = Parents(g[l], l + 1)
    BY <2>2, <1>b, <1>y DEF NextRow
  <2> HIDE DEF node
  <2> QED BY <2>1, <2>3, <1>2, <1>12
<1> HIDE DEF node
<1>14. b \in Seq(X) /\ Len(b) = h /\ \A j \in k .. h : b[j] = above[j]
  <2> DEFINE e == <<>>
  <2>1. e \in X /\ b = [a EXCEPT ![l] = e] /\ l \in 1 .. Len(a)
    BY <1>2, <1>3 DEF X
  <2> HIDE DEF e, b
  <2>2. b \in Seq(X) /\ Len(b) = Len(a) /\ b[l] = e /\ \A j \in 1 .. Len(a) : j # l => b[j] = a[j]
    BY <2>1, <1>2, ExceptIs
  <2>3. \A j \in k .. h : b[j] = above[j]
    <3> SUFFICES ASSUME NEW j \in k .. h  PROVE b[j] = above[j]
      OBVIOUS
    <3>1. j \in 1 .. Len(a) /\ j # l /\ j \in l .. h
      BY <1>2, <1>3, <1>y
    <3> QED BY <3>1, <2>2, <1>2
  <2> QED BY <2>2, <2>3, <1>2
<1>15. n \in [1 .. h + 1 -> Nat] /\ \A j \in k + 1 .. h + 1 : n[j] = Len(R[j])
  <2>1. m[k] + 1 \in Nat
    BY <1>2, <1>3
  <2>2. n \in [1 .. h + 1 -> Nat] /\ \A j \in 1 .. h + 1 : j # k => n[j] = m[j]
    BY <2>1, <1>2, <1>3
  <2> HIDE DEF n
  <2>3. ASSUME NEW j \in k + 1 .. h + 1  PROVE n[j] = Len(R[j])
    <3>1. j \in 1 .. h + 1 /\ j # k /\ j \in k .. h + 1
      BY <1>3
    <3> QED BY <3>1, <2>2, <1>2
  <2> QED BY <2>2, <2>3
<1> HIDE DEF b, n, z
<1>16. z.above = b /\ z.made = n /\ z.carried = node /\ z.stopped = v
  BY <1>11 DEF Going
<1>17. Closes(z, k, h, V, R, above, g)
  BY <1>9, <1>11, <1>13, <1>14, <1>15, <1>16 DEF Closes, X
<1> QED BY <1>17 DEF z, h, Closed

\* The last leaf closes every row, up to the root.
Rooted(s, leaf, g, n) ==
  \E V, R, bl : /\ TreeAs(V, R, s.above, s.made, bl) /\ Len(s.above) > 0
                /\ n \in Nat /\ n = Len(R[1]) + 1 /\ g[1] = Append(R[1], leaf)
                /\ \A l \in 2 .. n : g[l] = NextRow(g[l - 1], l)

\* What closes every row ends at the root.
LEMMA RootIs ==
  ASSUME NEW s, NEW leaf, NEW g, NEW n, Rooted(s, leaf, g, n)
  PROVE  g[n] = <<PushUp(s, leaf, TRUE).carried>>
<1>a. PICK V, R, bl : /\ TreeAs(V, R, s.above, s.made, bl) /\ Len(s.above) > 0
                      /\ n \in Nat /\ n = Len(R[1]) + 1 /\ g[1] = Append(R[1], leaf)
                      /\ \A l \in 2 .. n : g[l] = NextRow(g[l - 1], l)
  BY DEF Rooted
<1> DEFINE h == Len(s.above)
           above == s.above
           made == s.made
           X == Seq(V)
           yes == TRUE
           up == PushUp(s, leaf, yes)
           k == h + 1
           At(z, i) == Closes(z, i + 1, h, V, R, above, g)
           m == [made EXCEPT ![1] = @ + 1]
<1>1. /\ above \in Seq(X) /\ R \in [1 .. k -> X] /\ made = [j \in 1 .. k |-> Len(R[j])] /\ R[k] = <<>> /\ h > 0
  BY <1>a DEF TreeAs
<1>2. h \in Nat /\ k \in Nat /\ n \in Nat
  BY <1>1, <1>a
<1>3. \A j \in 1 .. h : Len(R[j]) \in Nat /\ Len(R[j]) >= h - j + 1
  BY <1>2, <1>a, RowsThin
<1>4. n >= k
  <2>1. 1 \in 1 .. h
    BY <1>1, <1>2
  <2>2. Len(R[1]) >= h - 1 + 1 /\ Len(R[1]) \in Nat
    BY <2>1, <1>3
  <2> HIDE DEF h
  <2> QED BY <2>2, <1>2, <1>a
<1>5. PICK f : Pushes(f, s, leaf, yes)
  BY <1>2, PushUpIs
<1>6. /\ f[0] = Going(above, m, leaf, 1, FALSE) /\ up = f[k]
      /\ \A i \in 1 .. k : f[i] = IF f[i - 1].stopped THEN f[i - 1] ELSE Join(f[i - 1], yes)
  BY <1>5 DEF Pushes
<1>7. At(f[0], 0)
  <2>1. f[0].above = above /\ f[0].made = m /\ f[0].carried = leaf /\ f[0].stopped = FALSE
    BY <1>6 DEF Going
  <2>2. 0 + 1 = 1 /\ ~(1 = h + 1)
    BY <1>1, <1>2
  <2>3. \A j \in 1 .. k : Len(R[j]) \in Nat
    BY <1>1 DEF X
  <2>4. m \in [1 .. k -> Nat] /\ \A j \in 2 .. k : m[j] = Len(R[j])
    <3>1. made \in [1 .. k -> Nat]
      BY <1>1, <2>3
    <3>2. made[1] + 1 \in Nat /\ 1 \in 1 .. k
      BY <3>1, <1>1, <1>2
    <3>3. m \in [1 .. k -> Nat] /\ \A j \in 1 .. k : j # 1 => m[j] = made[j]
      BY <3>1, <3>2
    <3> HIDE DEF m
    <3>4. \A j \in 2 .. k : j \in 1 .. k /\ j # 1
      BY <1>2
    <3> QED BY <3>3, <3>4, <1>1
  <2>5. f[0] = Going(above, m, leaf, 1, FALSE) /\ g[1] = Append(R[1], leaf)
    BY <1>a, <1>6
  <2> HIDE DEF h, above, made, m
  <2>6. above \in Seq(Seq(V)) /\ Len(above) = h
    BY <1>1 DEF X, h, above
  <2>7. Closes(f[0], 1, h, V, R, above, g)
    <3> DEFINE y == f[0]
               no == FALSE
    <3>1. y.above = above /\ y.made = m /\ y.carried = leaf /\ y.stopped = no /\ y = Going(above, m, leaf, 1, no)
      BY <2>1, <2>5
    <3>2. no \in BOOLEAN /\ (no <=> 1 = h + 1)
      BY <2>2
    <3> HIDE DEF y, no
    <3>3. y = Going(y.above, y.made, y.carried, 1, y.stopped)
      BY <3>1
    <3>4. y.stopped \in BOOLEAN /\ (y.stopped <=> 1 = h + 1)
      BY <3>1, <3>2
    <3>5. y.above \in Seq(Seq(V)) /\ Len(y.above) = h /\ \A j \in 1 .. h : y.above[j] = above[j]
      BY <3>1, <2>6
    <3>6. y.made \in [1 .. h + 1 -> Nat] /\ \A j \in 1 + 1 .. h + 1 : y.made[j] = Len(R[j])
      BY <3>1, <2>4
    <3>7. g[1] = Append(R[1], y.carried)
      BY <3>1, <2>5
    <3>8. Closes(y, 1, h, V, R, above, g)
      BY <3>3, <3>4, <3>5, <3>6, <3>7 DEF Closes
    <3> QED BY <3>8 DEF y
  <2> QED BY <2>2, <2>7
<1>8. ASSUME NEW i \in 1 .. h, At(f[i - 1], i - 1)  PROVE At(f[i], i)
  <2>1. (i - 1) + 1 = i /\ i \in 1 .. k /\ i + 1 \in 2 .. n /\ (i + 1) - 1 = i
    BY <1>2, <1>4
  <2>2. g[i + 1] = NextRow(g[i], i + 1)
    <3> DEFINE l == i + 1
    <3>1. l \in 2 .. n /\ l - 1 = i
      BY <2>1
    <3>2. g[l] = NextRow(g[l - 1], l)
      BY <3>1, <1>a
    <3> QED BY <3>1, <3>2
  <2>3. Closes(f[i - 1], i, Len(s.above), V, R, s.above, g)
    BY <2>1, <1>8
  <2>4. TreeAs(V, R, s.above, s.made, bl) /\ i \in 1 .. Len(s.above)
    BY <1>a
  <2>5. Closes(Join(f[i - 1], TRUE), i + 1, Len(s.above), V, R, s.above, g)
    <3> DEFINE y == f[i - 1]
               l == i + 1
               b == s.above
    <3>1. ClosesFrom(y, i, l, V, R, b, g)
      BY <2>2, <2>3, <2>4 DEF ClosesFrom
    <3> HIDE DEF y, l, b
    <3>2. Closes(Closed(y), l, Len(b), V, R, b, g)
      BY <3>1, ClosesOne
    <3> QED BY <3>2 DEF y, l, b, Closed
  <2>s. f[i - 1].stopped = FALSE
    <3>1. ~(i = h + 1)
      BY <1>2
    <3> QED BY <3>1, <2>3 DEF Closes
  <2>6. f[i] = Join(f[i - 1], yes)
    BY <2>1, <2>s, <1>6
  <2> QED BY <2>5, <2>6
<1> HIDE DEF h, above, made, m, At, yes
<1> DEFINE T == {i \in 0 .. h : At(f[i], i)}
<1>9. 0 \in T /\ \A i \in 1 .. h : i - 1 \in T => i \in T
  <2>1. 0 \in T
    BY <1>2, <1>7
  <2>2. ASSUME NEW i \in 1 .. h, i - 1 \in T  PROVE i \in T
    BY <2>2, <1>2, <1>8
  <2> QED BY <2>1, <2>2
<1> HIDE DEF T
<1>10. At(f[h], h)
  <2>1. \A i \in 0 .. h : i \in T
    BY <1>2, <1>9, Climbing
  <2>2. h \in 0 .. h
    BY <1>2
  <2>3. h \in T
    BY <2>1, <2>2
  <2> QED BY <2>3 DEF T
<1>11. f[h].stopped = TRUE /\ g[k] = Append(R[k], f[h].carried)
  BY <1>10 DEF At, Closes
<1>12. up = f[h]
  <2>1. k \in 1 .. k /\ k - 1 = h
    BY <1>2
  <2> HIDE DEF k, up
  <2> QED BY <2>1, <1>6, <1>11
<1> DEFINE c == up.carried
<1>13. g[k] = <<c>>
  <2>1. Append(<<>>, c) = <<c>>
    OBVIOUS
  <2> HIDE DEF up, k
  <2> QED BY <2>1, <1>1, <1>11, <1>12
<1> HIDE DEF up, c, k
<1> DEFINE U == {j \in 0 .. n - k : g[k + j] = <<c>>}
<1>14. n - k \in Nat
  BY <1>2, <1>4
<1>15. 0 \in U /\ \A j \in 1 .. n - k : j - 1 \in U => j \in U
  <2>1. 0 \in U
    BY <1>2, <1>13, <1>14
  <2>2. ASSUME NEW j \in 1 .. n - k, j - 1 \in U  PROVE j \in U
    <3> DEFINE l == k + j
    <3>0. k >= 2
      BY <1>1, <1>2 DEF k
    <3>1. l \in 2 .. n /\ l - 1 = k + (j - 1)
      BY <3>0, <1>2, <1>14
    <3>2. g[l - 1] = <<c>>
      BY <3>1, <2>2
    <3>3. g[l] = NextRow(g[l - 1], l)
      BY <3>1, <1>a
    <3> HIDE DEF l
    <3>4. Len(<<c>>) = 1
      OBVIOUS
    <3>5. g[l] = <<c>>
      BY <3>2, <3>3, <3>4 DEF NextRow
    <3> QED BY <3>5, <1>14 DEF l
  <2> QED BY <2>1, <2>2
<1> HIDE DEF U
<1>16. g[n] = <<c>>
  <2>1. \A j \in 0 .. n - k : j \in U
    BY <1>14, <1>15, Climbing
  <2>2. n - k \in U /\ k + (n - k) = n
    BY <2>1, <1>2, <1>14
  <2> QED BY <2>2 DEF U
<1> QED BY <1>16 DEF c, up, yes

\* What a message is cut into is units.
LEMMA UnitsInCut ==
  ASSUME NEW S, NEW d \in Seq(S), NEW bl, Len(bl) \in Nat, NEW t, Len(t) \in Nat, CutInto(d, bl, t), NEW i \in 1 .. Len(bl)
  PROVE  Len(UnitOf(d, i)) = UnitSize /\ UnitSize \in Nat
<1> DEFINE q == Len(bl)
           a == (i - 1) * UnitSize
           b == i * UnitSize
           m == q * UnitSize
<1>1. a \in Nat /\ b = a + UnitSize /\ b <= m /\ b \in Nat /\ m \in Nat
  <2>1. q \in Nat
    OBVIOUS
  <2> QED BY <2>1, UnitPlace
<1>2. UnitOf(d, i) = SubSeq(d, a + 1, b) /\ Len(d) = m + Len(t) /\ UnitSize \in Nat
  BY UnitsAreUnits DEF UnitOf, CutInto
<1> HIDE DEF a, b, m
<1>3. a \in Nat /\ b \in Nat /\ a <= b /\ b <= Len(d) /\ d \in Seq(S) /\ b - a = UnitSize
  BY <1>1, <1>2
<1>4. Len(SubSeq(d, a + 1, b)) = b - a
  BY ONLY <1>3
<1> QED BY <1>2, <1>3, <1>4

\* The root is that of the whole message's tree.
LEMMA Md6Closes ==
  ASSUME NEW E, NEW d \in Seq(E), NEW s, Md6At(E, s, d)
  PROVE  Md6Digest(s) = Md6Of(d) /\ \E T : Md6Digest(s) \in Seq(T)
<1>0. PICK bl \in Seq(Seq(E)) : Md6As(E, s, d, bl)
  BY DEF Md6At, Md6Cut
<1> DEFINE x == s.leaf
           q == Len(bl)
           leaves == Append(bl, x)
           D == Seq(E)
<1>1. x \in Seq(E) /\ Len(x) <= UnitSize /\ CutInto(d, bl, x) /\ (x = <<>> => d = <<>>) /\ Tree(s.above, s.made, bl)
      /\ bl \in Seq(D) /\ x \in D /\ q \in Nat
  BY <1>0 DEF Md6As, Md6At
<1>2. Blocks(d) = leaves
  BY <1>0, <1>1, BlocksOfHeld
<1>3. Len(leaves) = q + 1 /\ leaves[q + 1] = x /\ (\A i \in 1 .. q : leaves[i] = bl[i]) /\ DOMAIN leaves = 1 .. q + 1
  BY <1>1
<1>4. s.made[1] = q
  BY <1>0, <1>1, LeafCount
<1> HIDE DEF leaves, D, x
<1>5. PICK g : Rows(g, leaves) /\ Md6Of(d) = g[q + 1]
  <2>1. leaves = Blocks(d) /\ Len(leaves) \in Nat \ {0}
    BY <1>1, <1>2, <1>3
  <2>2. \E g : Rows(g, leaves) /\ Md6Of(d) = g[Len(leaves)]
    BY ONLY <2>1, RowsAre
  <2> QED BY <2>2, <1>3
<1>6. PICK V, R : TreeAs(V, R, s.above, s.made, bl)
  BY <1>1 DEF Tree
<1>7. /\ s.above \in Seq(Seq(V)) /\ R[1] = LeavesOf(bl) /\ R \in [1 .. Len(s.above) + 1 -> Seq(V)]
      /\ R[Len(s.above) + 1] = <<>>
  BY <1>6 DEF TreeAs
<1>8. LeavesOf(bl) = [i \in 1 .. q |-> Full(1, i - 1, bl[i])]
  BY <1>1 DEF LeavesOf
<1> DEFINE root == q + 1 = 1
           leaf == Node(1, q, x, UnitSize - Len(x), root)
           N(i) == Node(1, i - 1, leaves[i], UnitSize - Len(leaves[i]), root)
<1>9. g[1] = [i \in 1 .. q + 1 |-> N(i)]
  BY <1>3, <1>5 DEF Rows, FirstRow
<1>10. N(q + 1) = leaf
  <2>1. (q + 1) - 1 = q
    BY <1>1
  <2> QED BY <2>1, <1>3
<1>11. CASE s.above = <<>>
  <2>1. q = 0
    <3>1. Len(s.above) + 1 = 1
      BY <1>11
    <3>2. LeavesOf(bl) = <<>> /\ Len(<<>>) = 0
      BY <3>1, <1>7
    <3>3. Len(LeavesOf(bl)) = q
      BY <1>1 DEF LeavesOf
    <3> QED BY <3>2, <3>3
  <2>2. Md6Digest(s) = <<Leaf(s, TRUE)>>
    BY <1>11 DEF Md6Digest
  <2>3. root = TRUE
    BY <2>1
  <2>4. Leaf(s, TRUE) = leaf
    BY <2>3, <1>4 DEF Leaf, x
  <2> HIDE DEF leaf, N
  <2>5. g[1] = [i \in 1 .. 1 |-> N(i)] /\ N(1) = leaf
    BY <2>1, <1>9, <1>10
  <2>6. [i \in 1 .. 1 |-> N(i)] = <<N(1)>>
    OBVIOUS
  <2>7. Md6Of(d) = <<leaf>>
    BY <2>1, <2>5, <2>6, <1>5
  <2>8. <<leaf>> \in Seq({leaf})
    OBVIOUS
  <2> QED BY <2>2, <2>4, <2>7, <2>8
<1>12. CASE s.above # <<>>
  <2>1. Len(s.above) > 0
    <3> DEFINE a == s.above
    <3> HIDE DEF a
    <3>1. a \in Seq(Seq(V)) /\ a # <<>>
      BY <1>7, <1>12 DEF a
    <3>2. Len(a) > 0
      BY <3>1
    <3> QED BY <3>2 DEF a
  <2>2. Len(R[1]) = q
    BY <1>7, <1>8, <1>1
  <2>3. q > 0
    <3>1. 1 \in 1 .. Len(s.above) /\ Len(s.above) \in Nat
      BY <2>1, <1>7
    <3>2. Len(R[1]) >= Len(s.above) - 1 + 1
      BY <3>1, <2>1, <1>6, RowsThin
    <3> QED BY <3>1, <3>2, <2>1, <2>2
  <2>4. root = FALSE
    BY <2>3, <1>1
  <2>5. Leaf(s, FALSE) = leaf
    BY <2>4, <1>4 DEF Leaf, x
  <2>6. Md6Digest(s) = <<PushUp(s, leaf, TRUE).carried>>
    BY <2>5, <1>12 DEF Md6Digest
  <2>7. \A i \in 1 .. q : N(i) = Full(1, i - 1, bl[i])
    <3> SUFFICES ASSUME NEW i \in 1 .. q  PROVE N(i) = Full(1, i - 1, bl[i])
      OBVIOUS
    <3>1. leaves[i] = bl[i] /\ Len(bl[i]) = UnitSize /\ UnitSize \in Nat
      <4>1. bl[i] = UnitOf(d, i)
        BY <1>1 DEF CutInto
      <4>2. Len(bl) \in Nat /\ Len(x) \in Nat /\ CutInto(d, bl, x) /\ i \in 1 .. Len(bl)
        BY <1>1
      <4>3. Len(UnitOf(d, i)) = UnitSize /\ UnitSize \in Nat
        BY <4>2, UnitsInCut
      <4> QED BY <4>1, <4>3, <1>3
    <3>2. UnitSize - Len(bl[i]) = 0
      BY <3>1
    <3> QED BY <3>1, <3>2, <2>4 DEF Full
  <2> HIDE DEF leaf, N, root
  <2>8. g[1] = Append(R[1], leaf)
    <3> DEFINE r == R[1]
               W == V \cup {leaf}
    <3>1. r \in Seq(V) /\ Len(r) = q /\ \A i \in 1 .. q : r[i] = N(i)
      <4>1. 1 \in 1 .. Len(s.above) + 1
        BY <2>1, <1>7
      <4>2. R[1] \in Seq(V)
        BY <4>1, <1>7
      <4> QED BY <4>2, <2>2, <2>7, <1>7, <1>8
    <3>2. V \subseteq W /\ leaf \in W
      OBVIOUS
    <3> HIDE DEF r, W
    <3>3. r \in Seq(W)
      BY <3>1, <3>2
    <3> DEFINE w == Append(r, leaf)
    <3>4. w \in Seq(W) /\ Len(w) = q + 1 /\ w[q + 1] = leaf /\ \A i \in 1 .. q : w[i] = r[i]
      BY <3>1, <3>2, <3>3
    <3> HIDE DEF w
    <3>5. w = [i \in 1 .. q + 1 |-> w[i]]
      BY <3>4, <1>1
    <3>6. \A i \in 1 .. q + 1 : w[i] = N(i)
      <4> SUFFICES ASSUME NEW i \in 1 .. q + 1  PROVE w[i] = N(i)
        OBVIOUS
      <4>1. i \in 1 .. q \/ i = q + 1
        BY <1>1
      <4>2. CASE i \in 1 .. q
        BY <4>2, <3>1, <3>4
      <4>3. CASE i = q + 1
        BY <4>3, <3>4, <1>10
      <4> QED BY <4>1, <4>2, <4>3
    <3>7. g[1] = w
      BY <3>5, <3>6, <1>9
    <3> QED BY <3>7 DEF w, r
  <2>9. \A l \in 2 .. q + 1 : g[l] = NextRow(g[l - 1], l)
    BY <1>3, <1>5 DEF Rows
  <2> DEFINE n == q + 1
  <2>10. n \in Nat /\ n = Len(R[1]) + 1 /\ \A l \in 2 .. n : g[l] = NextRow(g[l - 1], l)
    BY <2>2, <2>9, <1>1
  <2>b. g[n] = g[q + 1]
    OBVIOUS
  <2> HIDE DEF n
  <2>11. g[n] = <<PushUp(s, leaf, TRUE).carried>>
    <3>1. Rooted(s, leaf, g, n)
      BY <2>1, <2>8, <2>10, <1>6 DEF Rooted
    <3> QED BY <3>1, RootIs
  <2> DEFINE c == PushUp(s, leaf, TRUE).carried
  <2>12. <<c>> \in Seq({c})
    OBVIOUS
  <2> HIDE DEF c
  <2>13. Md6Digest(s) = <<c>> /\ Md6Of(d) = <<c>>
    BY <2>6, <2>11, <2>b, <1>5 DEF c
  <2> QED BY <2>12, <2>13
<1> QED BY <1>11, <1>12

-----------------------------------------------------------------------------
(* All designs. *)

\* What a hash holds of the message d.
Hashed(E, design, s, d) ==
  CASE design \in Filling -> FillAt(E, design, s, d)
    [] design \in Bulk    -> HashAt(E, s, d)
    [] design = "esch"    -> HoldAt(E, s, d)
    [] design = "beetle"  -> BeetleAt(E, s, d)
    [] design = "skein"   -> SkeinAt(E, s, d)
    [] design = "xxh3"    -> Xxh3At(E, s, d)
    [] design = "md6"     -> Md6At(E, s, d)

\* A design is of one kind.
LEMMA FillsOnly ==
  ASSUME NEW design \in Filling
  PROVE  design \notin Bulk /\ design \notin {"esch", "beetle", "skein", "xxh3", "md6"}
BY DEF Filling, Bulk

\* Nor is one that takes blocks from the chunk of another kind.
LEMMA BulksOnly ==
  ASSUME NEW design \in Bulk
  PROVE  design \notin Filling /\ design \notin {"esch", "beetle", "skein", "xxh3", "md6"}
BY DEF Filling, Bulk

\* What a hash that fills a buffer, or takes blocks from the chunk, holds.
LEMMA FillsAre == ASSUME NEW E, NEW design \in Filling, NEW s, NEW d  PROVE Hashed(E, design, s, d) <=> FillAt(E, design, s, d)
<1>1. design \notin Bulk /\ design \notin {"esch", "beetle", "skein", "xxh3", "md6"}
  BY FillsOnly
<1>2. Hashed(E, design, s, d) = FillAt(E, design, s, d)
  BY ONLY <1>1, design \in Filling DEF Hashed
<1> QED BY <1>2

\* And for those that take blocks from the chunk.
LEMMA BulksAre == ASSUME NEW E, NEW design \in Bulk, NEW s, NEW d  PROVE Hashed(E, design, s, d) <=> HashAt(E, s, d)
<1>1. design \notin Filling /\ design \notin {"esch", "beetle", "skein", "xxh3", "md6"}
  BY BulksOnly
<1>2. Hashed(E, design, s, d) = HashAt(E, s, d)
  BY ONLY <1>1, design \in Bulk DEF Hashed
<1> QED BY <1>2

\* update, by kind.
LEMMA FillsUpdate ==
  ASSUME NEW design \in Filling, NEW s, NEW chunk  PROVE DigestUpdate(design, s, chunk) = FillUpdate(design, s, chunk)
<1>1. design \notin Bulk /\ design \notin {"esch", "beetle", "skein", "xxh3", "md6"}
  BY FillsOnly
<1> QED BY ONLY <1>1, design \in Filling DEF DigestUpdate

\* The other kind.
LEMMA BulksUpdate ==
  ASSUME NEW design \in Bulk, NEW s, NEW chunk  PROVE DigestUpdate(design, s, chunk) = HashUpdate(s, chunk)
<1>1. design \notin Filling /\ design \notin {"esch", "beetle", "skein", "xxh3", "md6"}
  BY BulksOnly
<1> QED BY ONLY <1>1, design \in Bulk DEF DigestUpdate

\* It holds nothing of nothing.
LEMMA HashedBegins ==
  ASSUME NEW E, <<"0">> \in E, NEW design \in Designs  PROVE Hashed(E, design, DigestStart(design), <<>>)
<1>1. CASE design \in Filling
  <2>1. DigestStart(design) = FillStart
    BY <1>1 DEF DigestStart, Filling, Bulk
  <2>2. FillAt(E, design, FillStart, <<>>)
    BY FillBegins
  <2> QED BY <1>1, <2>1, <2>2, FillsAre
<1>2. CASE design \in Bulk
  <2>1. DigestStart(design) = HashStart
    BY <1>2 DEF DigestStart, Bulk
  <2>2. HashAt(E, HashStart, <<>>)
    BY HashBegins
  <2> QED BY <1>2, <2>1, <2>2, BulksAre
<1>3. CASE design = "esch"
  <2>1. DigestStart(design) = FillStart
    BY <1>3 DEF DigestStart, Bulk
  <2> QED BY <1>3, <2>1, HoldBegins DEF Hashed, Filling, Bulk
<1>4. CASE design = "beetle"
  BY <1>4, BeetleBegins DEF DigestStart, Hashed, Filling, Bulk
<1>5. CASE design = "skein"
  BY <1>5, SkeinBegins DEF DigestStart, Hashed, Filling, Bulk
<1>6. CASE design = "xxh3"
  BY <1>6, Xxh3Begins DEF DigestStart, Hashed, Filling, Bulk
<1>7. CASE design = "md6"
  BY <1>7, Md6Begins DEF DigestStart, Hashed, Filling, Bulk
<1> QED BY <1>1, <1>2, <1>3, <1>4, <1>5, <1>6, <1>7 DEF Designs

\* A chunk of any length, and it holds that too.
LEMMA HashedGoesOn ==
  ASSUME NEW E, Marks \subseteq E, NEW design \in Designs, NEW d \in Seq(E), NEW s, Hashed(E, design, s, d),
         NEW chunk \in Seq(E)
  PROVE  Hashed(E, design, DigestUpdate(design, s, chunk), d \o chunk)
<1>0. <<"0">> \in E
  BY DEF Marks
<1>1. CASE design \in Filling
  <2>0. DigestUpdate(design, s, chunk) = FillUpdate(design, s, chunk)
    BY <1>1, FillsUpdate
  <2>1. FillAt(E, design, s, d)
    BY <1>1, FillsAre
  <2>2. FillAt(E, design, FillUpdate(design, s, chunk), d \o chunk)
    BY <1>0, <2>1, FillGoesOn
  <2> QED BY <1>1, <2>0, <2>2, FillsAre
<1>2. CASE design \in Bulk
  <2>0. DigestUpdate(design, s, chunk) = HashUpdate(s, chunk)
    BY <1>2, BulksUpdate
  <2>1. HashAt(E, s, d)
    BY <1>2, BulksAre
  <2>2. HashAt(E, HashUpdate(s, chunk), d \o chunk)
    BY <2>1, HashGoesOn
  <2> QED BY <1>2, <2>0, <2>2, BulksAre
<1>3. CASE design = "esch"
  <2>1. DigestUpdate(design, s, chunk) = HoldUpdate(s, chunk) /\ HoldAt(E, s, d)
    BY <1>3 DEF DigestUpdate, Hashed, Filling, Bulk
  <2>2. HoldAt(E, HoldUpdate(s, chunk), d \o chunk)
    BY <2>1, HoldGoesOn
  <2> QED BY <1>3, <2>1, <2>2 DEF Hashed, Filling, Bulk
<1>4. CASE design = "beetle"
  <2>1. DigestUpdate(design, s, chunk) = BeetleUpdate(s, chunk) /\ BeetleAt(E, s, d)
    BY <1>4 DEF DigestUpdate, Hashed, Filling, Bulk
  <2>2. BeetleAt(E, BeetleUpdate(s, chunk), d \o chunk)
    BY <2>1, BeetleGoesOn
  <2> QED BY <1>4, <2>1, <2>2 DEF Hashed, Filling, Bulk
<1>5. CASE design = "skein"
  <2>1. DigestUpdate(design, s, chunk) = SkeinUpdate(s, chunk) /\ SkeinAt(E, s, d)
    BY <1>5 DEF DigestUpdate, Hashed, Filling, Bulk
  <2>2. SkeinAt(E, SkeinUpdate(s, chunk), d \o chunk)
    BY <2>1, SkeinGoesOn
  <2> QED BY <1>5, <2>1, <2>2 DEF Hashed, Filling, Bulk
<1>6. CASE design = "xxh3"
  <2>1. DigestUpdate(design, s, chunk) = Xxh3Update(s, chunk) /\ Xxh3At(E, s, d)
    BY <1>6 DEF DigestUpdate, Hashed, Filling, Bulk
  <2>2. Xxh3At(E, Xxh3Update(s, chunk), d \o chunk)
    BY <2>1, Xxh3GoesOn
  <2> QED BY <1>6, <2>1, <2>2 DEF Hashed, Filling, Bulk
<1>7. CASE design = "md6"
  <2>1. DigestUpdate(design, s, chunk) = Md6Update(s, chunk) /\ Md6At(E, s, d)
    BY <1>7 DEF DigestUpdate, Hashed, Filling, Bulk
  <2>2. Md6At(E, Md6Update(s, chunk), d \o chunk)
    BY <2>1, Md6GoesOn
  <2> QED BY <1>7, <2>1, <2>2 DEF Hashed, Filling, Bulk
<1> QED BY <1>1, <1>2, <1>3, <1>4, <1>5, <1>6, <1>7 DEF Designs

\* What it makes of that in the end is what the design is of the message.
LEMMA HashedCloses ==
  ASSUME NEW E, Marks \subseteq E, NEW design \in Designs, NEW d \in Seq(E), NEW s, Hashed(E, design, s, d)
  PROVE  DigestOf(design, s) = DigestOneShot(design, d) /\ \E T : DigestOf(design, s) \in Seq(T)
<1>1. CASE design \in Filling
  <2>1. FillAt(E, design, s, d)
    BY <1>1, FillsAre
  <2> QED BY <1>1, <2>1, FillDigestIs
<1>2. CASE design \in Bulk
  <2>1. HashAt(E, s, d)
    BY <1>2, BulksAre
  <2> QED BY <1>2, <2>1, DigestIs
<1>3. CASE design = "esch"
  <2>1. HoldAt(E, s, d) /\ DigestOf(design, s) = EschDigest(s) /\ DigestOneShot(design, d) = EschOf(d)
    BY <1>3 DEF Hashed, Filling, Bulk, DigestOf, DigestOneShot
  <2> QED BY <2>1, EschCloses
<1>4. CASE design = "beetle"
  <2>1. BeetleAt(E, s, d) /\ DigestOf(design, s) = BeetleDigest(s) /\ DigestOneShot(design, d) = BeetleOf(d)
    BY <1>4 DEF Hashed, Filling, Bulk, DigestOf, DigestOneShot
  <2> QED BY <2>1, BeetleCloses
<1>5. CASE design = "skein"
  <2>1. SkeinAt(E, s, d) /\ DigestOf(design, s) = SkeinDigest(s) /\ DigestOneShot(design, d) = SkeinOf(d)
    BY <1>5 DEF Hashed, Filling, Bulk, DigestOf, DigestOneShot
  <2> QED BY <2>1, SkeinCloses
<1>6. CASE design = "xxh3"
  <2>1. Xxh3At(E, s, d) /\ DigestOf(design, s) = Xxh3Digest(s) /\ DigestOneShot(design, d) = Xxh3Of(d)
    BY <1>6 DEF Hashed, Filling, Bulk, DigestOf, DigestOneShot
  <2> QED BY <2>1, Xxh3Closes
<1>7. CASE design = "md6"
  <2>1. Md6At(E, s, d) /\ DigestOf(design, s) = Md6Digest(s) /\ DigestOneShot(design, d) = Md6Of(d)
    BY <1>7 DEF Hashed, Filling, Bulk, DigestOf, DigestOneShot
  <2> QED BY <2>1, Md6Closes
<1> QED BY <1>1, <1>2, <1>3, <1>4, <1>5, <1>6, <1>7 DEF Designs

\* It is little that it holds.
LEMMA HashedIsLittle ==
  ASSUME NEW E, NEW design \in Designs, NEW d \in Seq(E), NEW s, Hashed(E, design, s, d)
  PROVE  HoldsLittle(design, s)
<1>0. UnitSize \in Nat \ {0} /\ Prologue \in Nat /\ StripesPerBlock \in Nat \ {0} /\ BufferSize \in Nat
  BY UnitsAreUnits, HashesFit, BufferSizes
<1>1. CASE design \in Filling
  <2>1. FillAt(E, design, s, d)
    BY <1>1, FillsAre
  <2>2. s.buffered \in 0 .. UnitSize - 1
    BY <2>1 DEF FillAt, Poured, PouredAs, FillState
  <2>3. s.buffered < UnitSize
    BY <2>2, <1>0
  <2>4. design \in Filling \cup Bulk
    BY <1>1
  <2> DEFINE K == Filling \cup Bulk
  <2> HIDE DEF K
  <2>5. design \in K /\ design \notin {"esch", "beetle", "skein", "xxh3", "md6"}
    BY <1>1, <2>4, FillsOnly DEF K
  <2>6. HoldsLittle(design, s) = (s.buffered < UnitSize)
    BY ONLY <2>5 DEF HoldsLittle, K
  <2> QED BY <2>3, <2>6
<1>2. CASE design \in Bulk
  <2>1. HashAt(E, s, d)
    BY <1>2, BulksAre
  <2>2. s.buffered < UnitSize
    BY <2>1, <1>0 DEF HashAt
  <2> QED BY <1>2, <2>2 DEF HoldsLittle, Filling, Bulk
<1>3. CASE design = "esch"
  <2>1. HoldAt(E, s, d)
    BY <1>3 DEF Hashed, Filling, Bulk
  <2>2. s.buffered <= UnitSize
    BY <2>1, <1>0 DEF HoldAt
  <2> QED BY <1>3, <2>2 DEF HoldsLittle, Filling, Bulk
<1>4. CASE design = "beetle"
  <2>1. BeetleAt(E, s, d)
    BY <1>4 DEF Hashed, Filling, Bulk
  <2>2. s.rest.buffered <= UnitSize
    BY <2>1, <1>0 DEF BeetleAt, HoldAt
  <2>3. Len(s.prologue) <= Prologue
    <3> DEFINE n == Least(Prologue, Len(d))
    <3>1. n \in 0 .. Len(d) /\ n <= Prologue
      BY <1>0 DEF Least
    <3>2. s.prologue = Upto(d, n)
      BY <2>1 DEF BeetleAt
    <3> HIDE DEF n
    <3>3. Len(Upto(d, n)) = n
      BY <3>1 DEF Upto
    <3> QED BY <3>1, <3>2, <3>3
  <2> QED BY <1>4, <2>2, <2>3 DEF HoldsLittle, Filling, Bulk
<1>5. CASE design = "skein"
  <2>1. SkeinAt(E, s, d)
    BY <1>5 DEF Hashed, Filling, Bulk
  <2>2. s.buffered <= UnitSize
    BY <2>1, <1>0 DEF SkeinAt, SkeinCut, SkeinAs, SkeinState
  <2> QED BY <1>5, <2>2 DEF HoldsLittle, Filling, Bulk
<1>6. CASE design = "xxh3"
  <2>1. Xxh3At(E, s, d)
    BY <1>6 DEF Hashed, Filling, Bulk
  <2>2. PICK bl \in Seq(Seq(E)) : Xxh3As(E, s, d, bl)
    BY <2>1 DEF Xxh3At
  <2>3. s.buffered <= BufferSize
    BY <2>2, <1>0 DEF Xxh3As, Xxh3State
  <2>4. s.stripes < StripesPerBlock
    <3>1. s.stripes = Len(bl) % StripesPerBlock /\ Len(bl) \in Nat
      BY <2>2 DEF Xxh3As
    <3>2. Len(bl) % StripesPerBlock \in 0 .. StripesPerBlock - 1
      BY <3>1, <1>0, DivMod
    <3> QED BY <3>1, <3>2, <1>0
  <2> QED BY <1>6, <2>3, <2>4 DEF HoldsLittle, Filling, Bulk
<1>7. CASE design = "md6"
  <2>1. Md6At(E, s, d)
    BY <1>7 DEF Hashed, Filling, Bulk
  <2>2. PICK bl \in Seq(Seq(E)) : Md6As(E, s, d, bl)
    BY <2>1 DEF Md6At, Md6Cut
  <2>3. Len(s.leaf) <= UnitSize
    BY <2>2 DEF Md6As
  <2>4. PICK V, R : TreeAs(V, R, s.above, s.made, bl)
    BY <2>2 DEF Md6As, Tree
  <2>5. \A l \in DOMAIN s.above : Len(s.above[l]) < FanOut
    <3>1. s.above \in Seq(Seq(V)) /\ \A j \in 1 .. Len(s.above) : Len(s.above[j]) < FanOut
      BY <2>4 DEF TreeAs
    <3> QED BY <3>1
  <2> QED BY <1>7, <2>3, <2>5 DEF HoldsLittle, Filling, Bulk
<1> QED BY <1>1, <1>2, <1>3, <1>4, <1>5, <1>6, <1>7 DEF Designs
=============================================================================
