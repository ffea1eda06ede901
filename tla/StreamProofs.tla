----------------------------- MODULE StreamProofs -----------------------------
(***************************************************************************)
(* Proofs about ToolStream, for all inputs and all sizes of a unit: however*)
(* an input is cut, every engine ends as its one-shot form does and holds  *)
(* little of it on the way (EveryStreamIsOneShot, EveryStreamHoldsLittle); *)
(* what was encrypted comes back; and a decryption ends well only with     *)
(* what was encrypted.  What an engine keeps is a function of what was     *)
(* read, whatever the chunks were (UnitProofs, and HashProofs for hashes), *)
(* and so the inductive invariants say just that.  The lemmas about sealed *)
(* containers are here: what is kept and what is out of age or Cobblestone *)
(* read so far (StateAt, OutAt; CanAt says that it was not refused) is kept*)
(* by a chunk of any length (FrameHolds), the end makes the one-shot       *)
(* function of it (FrameEnds), what was sealed opens to all of its message *)
(* (FrameComesBack), and nothing else opens at all, as long as every seal  *)
(* in it is one of the message (FrameAccepts).  Last, of a cipher's form,  *)
(* that hidden fields count for nothing and that what resolves runs.       *)
(***************************************************************************)
EXTENDS SettingPromises, HashProofs

-----------------------------------------------------------------------------
(* How many frames.  Frames(length, size, kept) is the only number of       *)
(* frames after which less than a frame and at least kept bytes are left.   *)

LEMMA FramesAre ==
  ASSUME NEW L \in Nat, NEW size \in Nat \ {0}, NEW kept \in Nat
  PROVE  /\ Frames(L, size, kept) \in Nat /\ Frames(L, size, kept) * size \in Nat
         /\ L < kept => Frames(L, size, kept) = 0
         /\ L >= kept => /\ Frames(L, size, kept) * size + kept <= L
                         /\ L < Frames(L, size, kept) * size + kept + size
<1> DEFINE n == Frames(L, size, kept)
<1>1. CASE L < kept
  <2>1. n = 0
    BY <1>1 DEF Frames
  <2>2. 0 * size = 0
    OBVIOUS
  <2> HIDE DEF n
  <2>3. n \in Nat /\ n * size \in Nat /\ ~(L >= kept) /\ n = 0
    BY <1>1, <2>1, <2>2
  <2> QED BY <2>3 DEF n
<1>2. CASE L >= kept
  <2> DEFINE a == L - kept
  <2>1. n = a \div size /\ a \in Nat
    BY <1>2 DEF Frames
  <2> HIDE DEF a
  <2>2. a \div size \in Nat /\ a % size \in 0 .. size - 1 /\ a = (a \div size) * size + (a % size)
    BY <2>1, DivMod
  <2>3. (a \div size) * size \in Nat
    BY <2>2, Products
  <2> HIDE DEF n
  <2> DEFINE p == n * size
  <2>4. p \in Nat /\ a >= p /\ a < p + size
    BY <2>1, <2>2, <2>3
  <2> HIDE DEF p
  <2>5. p + kept <= L /\ L < p + kept + size
    BY <2>4, <1>2 DEF a
  <2>6. ~(L < kept) /\ n \in Nat
    BY <1>2, <2>1, <2>2
  <2> QED BY <2>4, <2>5, <2>6 DEF p, n
<1> QED BY <1>1, <1>2

LEMMA FramesOnly ==
  ASSUME NEW L \in Nat, NEW size \in Nat \ {0}, NEW kept \in Nat, NEW n \in Nat,
         n * size + kept <= L, L < n * size + kept + size
  PROVE  Frames(L, size, kept) = n
<1> DEFINE p == n * size
           r == L - kept - p
<1>1. p \in Nat
  BY Products
<1>2. p + kept <= L /\ L < p + kept + size
  OBVIOUS
<1> HIDE DEF p
<1>3. r \in 0 .. size - 1 /\ L - kept = p + r /\ ~(L < kept)
  BY <1>1, <1>2
<1> HIDE DEF r
<1>4. (p + r) \div size = n
  BY <1>3, DivIs DEF p
<1> QED BY <1>3, <1>4 DEF Frames

\* Frames taken early are not counted again.
Early(i, L, size, kept) == i = 0 \/ i * size + kept <= L

FramesAddUp(i, L, size, kept) ==
  /\ i * size \in Nat /\ i * size <= L
  /\ Frames(L, size, kept) = i + Frames(L - i * size, size, kept)
  /\ Frames(L, size, kept) * size = i * size + Frames(L - i * size, size, kept) * size

LEMMA FramesAdd ==
  ASSUME NEW L \in Nat, NEW size \in Nat \ {0}, NEW kept \in Nat, NEW i \in Nat, Early(i, L, size, kept)
  PROVE  FramesAddUp(i, L, size, kept)
<1> DEFINE p == i * size
           R == L - p
           n == Frames(R, size, kept)
           q == n * size
<1>1. p \in Nat
  BY Products
<1>2. p <= L /\ (i # 0 => p + kept <= L)
  <2>1. CASE i = 0
    <3>1. 0 * size = 0
      OBVIOUS
    <3> QED BY <2>1, <3>1
  <2>2. CASE i # 0
    <3>1. p + kept <= L
      BY <2>2 DEF Early
    <3> HIDE DEF p
    <3> QED BY <3>1, <1>1
  <2> QED BY <2>1, <2>2
<1>3. R \in Nat
  <2> HIDE DEF p
  <2> QED BY <1>1, <1>2
<1> HIDE DEF R
<1>4. /\ n \in Nat /\ q \in Nat /\ (R < kept => n = 0)
      /\ (R >= kept => q + kept <= R /\ R < q + kept + size)
  BY <1>3, FramesAre
<1>5. (i + n) * size = p + q
  BY <1>4, Distributes
<1>6. CASE R >= kept
  <2> DEFINE m == i + n
             z == m * size
  <2>1. z = p + q /\ m \in Nat
    BY <1>4, <1>5
  <2> HIDE DEF p, q, z, m
  <2>2. z + kept <= L /\ L < z + kept + size
    BY <2>1, <1>1, <1>2, <1>3, <1>4, <1>6 DEF R
  <2>3. Frames(L, size, kept) = m
    BY <2>1, <2>2, FramesOnly DEF z
  <2> QED BY <1>1, <1>2, <2>1, <2>3 DEF R, z, m, n, p, q, FramesAddUp
<1>7. CASE ~(R >= kept)
  <2>1. i = 0
    <3> HIDE DEF p, q, n
    <3> QED BY <1>1, <1>2, <1>3, <1>7 DEF R
  <2>2. n = 0 /\ p = 0 /\ R = L
    <3>1. 0 * size = 0
      OBVIOUS
    <3>2. p = 0
      BY <2>1, <3>1
    <3> HIDE DEF p, n, q
    <3> QED BY <3>2, <1>3, <1>4, <1>7 DEF R
  <2>3. Frames(L, size, kept) = 0 /\ 0 * size = 0
    BY <1>3, <1>7, <2>2 DEF Frames
  <2> QED BY <2>1, <2>2, <2>3 DEF R, n, FramesAddUp
<1> QED BY <1>6, <1>7

-----------------------------------------------------------------------------
(* What is sealed. *)

\* The bytes of a container of a message over B.
Sealing(B) == {<<"h", i>> : i \in Nat} \cup {<<"n", i>> : i \in Nat}
              \cup {<<"s", k, last, p, i>> : k \in Nat, last \in BOOLEAN, p \in Seq(B), i \in Nat}

LEMMA SizesAre ==
  /\ ChunkSize \in Nat \ {0} /\ TagSize \in Nat \ {0} /\ HeaderSize \in Nat \ {0}
  /\ NonceSize \in Nat \ {0} /\ CommitSize \in Nat \ {0} /\ FrameSize \in Nat \ {0}
  /\ FrameSize = ChunkSize + TagSize /\ MaxHeader \in Nat /\ MaxChunkIndex \in Nat
  /\ HeaderSize <= MaxHeader /\ NonceSize <= MaxHeader /\ CommitSize <= MaxHeader
BY SizesFit DEF FrameSize

LEMMA PrefacesAre ==
  ASSUME NEW B
  PROVE  /\ Header \in Seq(Sealing(B)) /\ Len(Header) = HeaderSize /\ \A i \in 1 .. HeaderSize : Header[i] = <<"h", i>>
         /\ Nonce \in Seq(Sealing(B)) /\ Len(Nonce) = NonceSize
         /\ Commitment \in Seq(Sealing(B)) /\ Len(Commitment) = CommitSize
<1>1. \A i \in Nat : <<"h", i>> \in Sealing(B) /\ <<"n", i>> \in Sealing(B)
  BY DEF Sealing
<1> DEFINE H == Sealing(B)
<1> HIDE DEF H
<1>2. \A i \in Nat : <<"h", i>> \in H /\ <<"n", i>> \in H
  BY <1>1 DEF H
<1> DEFINE h(i) == <<"h", i>>
           n(i) == <<"n", i>>
           x == [i \in 1 .. HeaderSize |-> h(i)]
           y == [i \in 1 .. NonceSize |-> n(i)]
           z == [i \in 1 .. CommitSize |-> h(i)]
<1>3. \A i \in Nat : h(i) \in H /\ n(i) \in H
  BY <1>2
<1>4. Header = x /\ Nonce = y /\ Commitment = z
  BY DEF Header, Nonce, Commitment
<1> HIDE DEF h, n
<1>5. x \in Seq(H) /\ Len(x) = HeaderSize /\ \A i \in 1 .. HeaderSize : x[i] = h(i)
  BY <1>3, SizesAre
<1>6. y \in Seq(H) /\ Len(y) = NonceSize /\ z \in Seq(H) /\ Len(z) = CommitSize
  BY <1>3, SizesAre
<1> QED BY <1>4, <1>5, <1>6 DEF H, h

LEMMA SealIs ==
  ASSUME NEW B, NEW k \in Nat, NEW last \in BOOLEAN, NEW p \in Seq(B)
  PROVE  /\ Seal(k, last, p) \in Seq(Sealing(B)) /\ Len(Seal(k, last, p)) = Len(p) + TagSize
         /\ \A i \in 1 .. Len(p) + TagSize : Seal(k, last, p)[i] = <<"s", k, last, p, i>>
<1>1. \A i \in Nat : <<"s", k, last, p, i>> \in Sealing(B)
  BY DEF Sealing
<1> DEFINE H == Sealing(B)
           b(i) == <<"s", k, last, p, i>>
           z == [i \in 1 .. Len(p) + TagSize |-> b(i)]
<1> HIDE DEF H
<1>2. \A i \in Nat : b(i) \in H
  BY <1>1 DEF H
<1>3. Len(p) + TagSize \in Nat
  BY SizesAre
<1>4. z = Seal(k, last, p)
  BY DEF Seal
<1> HIDE DEF b
<1>5. z \in Seq(H) /\ Len(z) = Len(p) + TagSize /\ \A i \in 1 .. Len(p) + TagSize : z[i] = b(i)
  BY <1>2, <1>3
<1> QED BY <1>4, <1>5 DEF H, b

\* The frames of a message's full chunks.
SealedParts(k, n, x) == [i \in 1 .. n |-> Seal(k + i - 1, FALSE, SubSeq(x, (i - 1) * ChunkSize + 1, i * ChunkSize))]

PartsAreSealed(k, n, x) ==
  \A i \in 1 .. n : /\ SealedParts(k, n, x)[i] = Seal(k + i - 1, FALSE, SubSeq(x, (i - 1) * ChunkSize + 1, i * ChunkSize))
                   /\ Len(SealedParts(k, n, x)[i]) = FrameSize

LEMMA SealedPartsAre ==
  ASSUME NEW B, NEW x \in Seq(B), NEW k \in Nat, NEW n \in Nat, n * ChunkSize <= Len(x)
  PROVE  /\ SealedParts(k, n, x) \in Seq(Seq(Sealing(B))) /\ Len(SealedParts(k, n, x)) = n
         /\ SealFrames(k, n, x) = FlattenSeq(SealedParts(k, n, x))
         /\ PartsAreSealed(k, n, x)
<1> DEFINE b(i) == Seal(k + i - 1, FALSE, SubSeq(x, (i - 1) * ChunkSize + 1, i * ChunkSize))
           z == [i \in 1 .. n |-> b(i)]
           H == Seq(Sealing(B))
<1>1. \A i \in 1 .. n : b(i) \in H /\ Len(b(i)) = FrameSize
  <2> TAKE i \in 1 .. n
  <2> DEFINE y == SubSeq(x, (i - 1) * ChunkSize + 1, i * ChunkSize)
  <2>1. y \in Seq(B) /\ Len(y) = ChunkSize /\ k + i - 1 \in Nat
    BY PartIs, SizesAre
  <2> HIDE DEF y
  <2>2. Seal(k + i - 1, FALSE, y) \in H /\ Len(Seal(k + i - 1, FALSE, y)) = FrameSize
    <3> DEFINE m == k + i - 1
    <3>1. m \in Nat /\ FALSE \in BOOLEAN /\ y \in Seq(B)
      BY <2>1
    <3> HIDE DEF m
    <3>2. Seal(m, FALSE, y) \in H /\ Len(Seal(m, FALSE, y)) = Len(y) + TagSize
      BY ONLY <3>1, SealIs
    <3>3. Len(y) + TagSize = FrameSize
      BY <2>1, SizesAre
    <3> QED BY ONLY <3>2, <3>3 DEF m
  <2> QED BY <2>1, <2>2 DEF y
<1>2. z = SealedParts(k, n, x)
  BY DEF SealedParts
<1>3. SealFrames(k, n, x) = FlattenSeq(z)
  BY DEF SealFrames
<1> HIDE DEF b, H
<1>4. z \in Seq(H) /\ Len(z) = n /\ \A i \in 1 .. n : z[i] = b(i)
  BY <1>1
<1> HIDE DEF z
<1>5. \A i \in 1 .. n : z[i] = b(i) /\ Len(z[i]) = FrameSize
  BY <1>1, <1>4
<1>6. PartsAreSealed(k, n, x)
  BY <1>2, <1>5 DEF PartsAreSealed, b
<1> QED BY <1>2, <1>3, <1>4, <1>6 DEF H

LEMMA FramesSealed ==
  ASSUME NEW B, NEW x \in Seq(B), NEW k \in Nat, NEW n \in Nat, n * ChunkSize <= Len(x)
  PROVE  /\ SealFrames(k, n, x) \in Seq(Sealing(B)) /\ Len(SealFrames(k, n, x)) = n * FrameSize
         /\ \A i \in 1 .. n : SubSeq(SealFrames(k, n, x), (i - 1) * FrameSize + 1, i * FrameSize)
                             = Seal(k + i - 1, FALSE, SubSeq(x, (i - 1) * ChunkSize + 1, i * ChunkSize))
<1> DEFINE z == SealedParts(k, n, x)
           H == Sealing(B)
<1>1. /\ z \in Seq(Seq(H)) /\ Len(z) = n /\ SealFrames(k, n, x) = FlattenSeq(z)
      /\ \A i \in 1 .. n : /\ z[i] = Seal(k + i - 1, FALSE, SubSeq(x, (i - 1) * ChunkSize + 1, i * ChunkSize))
                          /\ Len(z[i]) = FrameSize
  BY SealedPartsAre DEF PartsAreSealed
<1> HIDE DEF z, H
<1>2. /\ FlattenSeq(z) \in Seq(H) /\ Len(FlattenSeq(z)) = Len(z) * FrameSize
      /\ \A i \in 1 .. Len(z) : SubSeq(FlattenSeq(z), (i - 1) * FrameSize + 1, i * FrameSize) = z[i]
  <2>1. \A i \in 1 .. Len(z) : Len(z[i]) = FrameSize
    BY <1>1
  <2>2. FrameSize \in Nat
    BY SizesAre
  <2> QED BY <1>1, <2>1, <2>2, FlattenEven
<1> QED BY <1>1, <1>2 DEF H

\* A slice of what comes after.
LEMMA SliceAfter ==
  ASSUME NEW S, NEW s \in Seq(S), NEW m \in Nat, m <= Len(s),
         NEW a \in Int, NEW b \in Int, 1 <= a, a <= b + 1, b <= Len(s) - m
  PROVE  /\ After(s, m) \in Seq(S) /\ Len(After(s, m)) = Len(s) - m
         /\ SubSeq(After(s, m), a, b) = SubSeq(s, m + a, m + b)
BY DEF After

\* Where the i-th of n parts after the first k is.
Shifted(s, c, k, n) ==
  \A i \in 1 .. n : SubSeq(After(s, k * c), (i - 1) * c + 1, i * c) = SubSeq(s, (k + i - 1) * c + 1, (k + i) * c)

LEMMA LaterParts ==
  ASSUME NEW T, NEW s \in Seq(T), NEW c \in Nat, NEW k \in Nat, NEW n \in Nat, (k + n) * c <= Len(s)
  PROVE  /\ k * c \in Nat /\ k * c <= Len(s) /\ n * c \in Nat /\ (k + n) * c = k * c + n * c
         /\ After(s, k * c) \in Seq(T) /\ Len(After(s, k * c)) = Len(s) - k * c /\ n * c <= Len(After(s, k * c))
         /\ Shifted(s, c, k, n)
<1>0. c \in Nat
  OBVIOUS
<1>1. k * c \in Nat /\ n * c \in Nat /\ (k + n) * c = k * c + n * c
  BY Products, Distributes
<1> DEFINE p == k * c
           q == n * c
<1>2. p \in Nat /\ q \in Nat /\ p + q <= Len(s) /\ Len(s) \in Nat
  BY <1>1
<1> HIDE DEF p, q
<1>3. p <= Len(s) /\ q <= Len(s) - p
  BY <1>2
<1>4. After(s, p) \in Seq(T) /\ Len(After(s, p)) = Len(s) - p
  BY <1>2, <1>3 DEF After
<1>5. ASSUME NEW i \in 1 .. n
      PROVE  SubSeq(After(s, p), (i - 1) * c + 1, i * c) = SubSeq(s, (k + i - 1) * c + 1, (k + i) * c)
  <2>1. (i - 1) * c \in Nat /\ i * c = (i - 1) * c + c /\ i * c \in Nat /\ i * c <= q
    <3>1. n * c <= Len(After(s, p))
      BY <1>3, <1>4 DEF q
    <3> QED BY <1>4, <3>1, PartIs DEF q
  <2>2. (k + i) * c = p + i * c /\ (k + i - 1) * c = p + (i - 1) * c
    <3>1. i \in Nat /\ i - 1 \in Nat /\ k + i - 1 = k + (i - 1)
      OBVIOUS
    <3> QED BY <3>1, Distributes DEF p
  <2> DEFINE a == (i - 1) * c
             b == i * c
  <2>3. a \in Nat /\ b = a + c /\ b \in Nat /\ b <= Len(s) - p
    BY <2>1, <1>3, <1>2
  <2> HIDE DEF a, b
  <2>4. SubSeq(After(s, p), a + 1, b) = SubSeq(s, p + (a + 1), p + b)
    <3> DEFINE d == a + 1
    <3>1. /\ s \in Seq(T) /\ p \in Nat /\ p <= Len(s) /\ d \in Int /\ b \in Int
          /\ 1 <= d /\ d <= b + 1 /\ b <= Len(s) - p
      BY <2>3, <1>0, <1>2, <1>3
    <3> HIDE DEF d
    <3>2. SubSeq(After(s, p), d, b) = SubSeq(s, p + d, p + b)
      BY ONLY <3>1, SliceAfter, Zenon
    <3> QED BY <3>2 DEF d
  <2>5. p + (a + 1) = p + a + 1
    BY <2>3, <1>2
  <2> QED BY <2>2, <2>4, <2>5 DEF a, b
<1>6. Shifted(s, c, k, n)
  BY <1>5 DEF Shifted, p
<1> QED BY <1>1, <1>3, <1>4, <1>6 DEF p, q

\* Sealed a few at a time, the frames are those sealed at once.
LEMMA SealedOn ==
  ASSUME NEW B, NEW z \in Seq(B), NEW k \in Nat, NEW n \in Nat, (k + n) * ChunkSize <= Len(z)
  PROVE  SealFrames(0, k + n, z) = SealFrames(0, k, z) \o SealFrames(k, n, After(z, k * ChunkSize))
<1> DEFINE c == ChunkSize
           y == After(z, k * c)
           a == SealedParts(0, k, z)
           b == SealedParts(k, n, y)
           w == SealedParts(0, k + n, z)
           H == Seq(Sealing(B))
<1>0. c \in Nat /\ k + n \in Nat /\ (k + n) * c <= Len(z)
  BY SizesAre
<1>1. /\ y \in Seq(B) /\ n * c <= Len(y) /\ k * c <= Len(z)
      /\ \A i \in 1 .. n : SubSeq(y, (i - 1) * c + 1, i * c) = SubSeq(z, (k + i - 1) * c + 1, (k + i) * c)
  <2> HIDE DEF c
  <2>0. z \in Seq(B) /\ c \in Nat /\ k \in Nat /\ n \in Nat /\ (k + n) * c <= Len(z)
    BY <1>0
  <2>1. /\ k * c \in Nat /\ k * c <= Len(z) /\ n * c \in Nat /\ (k + n) * c = k * c + n * c
        /\ After(z, k * c) \in Seq(B) /\ Len(After(z, k * c)) = Len(z) - k * c /\ n * c <= Len(After(z, k * c))
        /\ Shifted(z, c, k, n)
    BY ONLY <2>0, LaterParts
  <2> QED BY <2>1, Zenon DEF Shifted
<1> HIDE DEF y
<1>p. ASSUME NEW v \in Seq(B), NEW j \in Nat, NEW m \in Nat, m * c <= Len(v)
      PROVE  /\ SealedParts(j, m, v) \in Seq(H) /\ Len(SealedParts(j, m, v)) = m
             /\ SealFrames(j, m, v) = FlattenSeq(SealedParts(j, m, v))
             /\ \A i \in 1 .. m : SealedParts(j, m, v)[i] = Seal(j + i - 1, FALSE, SubSeq(v, (i - 1) * c + 1, i * c))
  <2>1. v \in Seq(B) /\ j \in Nat /\ m \in Nat /\ m * ChunkSize <= Len(v)
    BY <1>p
  <2>2. /\ SealedParts(j, m, v) \in Seq(Seq(Sealing(B))) /\ Len(SealedParts(j, m, v)) = m
        /\ SealFrames(j, m, v) = FlattenSeq(SealedParts(j, m, v))
        /\ PartsAreSealed(j, m, v)
    BY ONLY <2>1, SealedPartsAre
  <2> QED BY <2>2, Zenon DEF PartsAreSealed
<1> HIDE DEF H, c
<1>2. /\ a \in Seq(H) /\ Len(a) = k /\ SealFrames(0, k, z) = FlattenSeq(a)
      /\ \A i \in 1 .. k : a[i] = Seal(0 + i - 1, FALSE, SubSeq(z, (i - 1) * c + 1, i * c))
  <2>1. 0 \in Nat
    OBVIOUS
  <2> QED BY <2>1, <1>1, <1>p, Zenon
<1>3. /\ b \in Seq(H) /\ Len(b) = n /\ SealFrames(k, n, y) = FlattenSeq(b)
      /\ \A i \in 1 .. n : b[i] = Seal(k + i - 1, FALSE, SubSeq(y, (i - 1) * c + 1, i * c))
  BY <1>1, <1>p, Zenon
<1>4. /\ w \in Seq(H) /\ Len(w) = k + n /\ SealFrames(0, k + n, z) = FlattenSeq(w)
      /\ \A i \in 1 .. k + n : w[i] = Seal(0 + i - 1, FALSE, SubSeq(z, (i - 1) * c + 1, i * c))
  <2>1. 0 \in Nat
    OBVIOUS
  <2> QED BY <2>1, <1>0, <1>p, Zenon
<1> HIDE DEF a, b, w, H, c
<1>5. a \o b = w
  <2>1. \A i \in 1 .. Len(a) : w[i] = a[i]
    <3> SUFFICES ASSUME NEW i \in 1 .. k  PROVE w[i] = a[i]
      BY <1>2
    <3>1. i \in 1 .. k + n
      OBVIOUS
    <3> QED BY <3>1, <1>2, <1>4
  <2>2. \A i \in 1 .. Len(b) : w[Len(a) + i] = b[i]
    <3> SUFFICES ASSUME NEW i \in 1 .. n  PROVE w[k + i] = b[i]
      BY <1>2, <1>3
    <3>1. k + i \in 1 .. k + n /\ 0 + (k + i) - 1 = k + i - 1
      OBVIOUS
    <3>2. w[k + i] = Seal(0 + (k + i) - 1, FALSE, SubSeq(z, ((k + i) - 1) * c + 1, (k + i) * c))
      BY <3>1, <1>4
    <3>3. b[i] = Seal(k + i - 1, FALSE, SubSeq(z, (k + i - 1) * c + 1, (k + i) * c))
      BY <1>1, <1>3
    <3> QED BY <3>1, <3>2, <3>3
  <2>3. Len(w) = Len(a) + Len(b)
    BY <1>2, <1>3, <1>4
  <2> QED BY <2>1, <2>2, <2>3, <1>2, <1>3, <1>4, JoinIs
<1>6. FlattenSeq(a \o b) = FlattenSeq(a) \o FlattenSeq(b)
  BY <1>2, <1>3, FlattenJoins DEF H
<1> QED BY <1>2, <1>3, <1>4, <1>5, <1>6 DEF y, c

-----------------------------------------------------------------------------
(* Encrypting. *)

\* Frames sealed are not changed by what comes after them.
LEMMA SealedSame ==
  ASSUME NEW B, NEW x \in Seq(B), NEW e \in Seq(B), NEW n \in Nat, n * ChunkSize <= Len(x)
  PROVE  SealFrames(0, n, x \o e) = SealFrames(0, n, x)
<1> DEFINE b(v, i) == SubSeq(v, (i - 1) * ChunkSize + 1, i * ChunkSize)
           f(v) == [i \in 1 .. n |-> Seal(0 + i - 1, FALSE, b(v, i))]
<1>1. \A i \in 1 .. n : b(x \o e, i) = b(x, i)
  <2> TAKE i \in 1 .. n
  <2> DEFINE p == (i - 1) * ChunkSize
             q == i * ChunkSize
             m == n * ChunkSize
  <2>1. p \in Nat /\ q = p + ChunkSize /\ q \in Nat /\ q <= m /\ m \in Nat /\ m <= Len(x)
    BY PartIs, SizesAre
  <2> HIDE DEF p, q, m
  <2> DEFINE a == p + 1
  <2>2. a \in Int /\ q \in Int /\ 1 <= a /\ a <= q + 1 /\ q <= Len(x)
    BY <2>1, SizesAre
  <2> HIDE DEF a
  <2>3. SubSeq(x \o e, a, q) = SubSeq(x, a, q)
    BY <2>2, LeftSlice
  <2> QED BY <2>3 DEF a, p, q
<1>2. f(x \o e) = f(x)
  BY <1>1
<1>3. \A v : SealFrames(0, n, v) = FlattenSeq(f(v))
  BY DEF SealFrames
<1> QED BY <1>2, <1>3

LEMMA AfterAfter ==
  ASSUME NEW S, NEW s \in Seq(S), NEW m \in Nat, NEW n \in Nat, m + n <= Len(s)
  PROVE  After(After(s, m), n) = After(s, m + n)
<1> DEFINE y == SubSeq(s, m + 1, Len(s))
<1>1. y \in Seq(S) /\ Len(y) = Len(s) - m
  OBVIOUS
<1> DEFINE a == n + 1
           b == Len(s) - m
           z == Len(s)
<1>2. a \in Int /\ b \in Int /\ 1 <= a /\ a <= b + 1 /\ b <= z - m /\ m <= z /\ z <= Len(s) /\ z \in Nat
  OBVIOUS
<1> HIDE DEF a, b, z
<1>3. SubSeq(SubSeq(s, m + 1, z), a, b) = SubSeq(s, m + a, m + b)
  BY <1>2, SliceOfSlice
<1>4. m + a = (m + n) + 1 /\ m + b = Len(s) /\ b = Len(y)
  BY <1>1 DEF a, b
<1> QED BY <1>3, <1>4 DEF After, a, z

LEMMA AfterJoined ==
  ASSUME NEW S, NEW s \in Seq(S), NEW e \in Seq(S), NEW m \in Nat, m <= Len(s)
  PROVE  /\ After(s, m) \o e = After(s \o e, m) /\ After(s, m) \in Seq(S) /\ Len(After(s, m)) = Len(s) - m
         /\ s \o e \in Seq(S) /\ Len(s \o e) = Len(s) + Len(e)
<1> DEFINE a == m + 1
<1>1. a \in Int /\ 1 <= a /\ a <= Len(s) + 1
  OBVIOUS
<1> HIDE DEF a
<1>2. SubSeq(s \o e, a, Len(s) + Len(e)) = SubSeq(s, a, Len(s)) \o e
  BY <1>1, CrossSlice
<1>3. Len(s \o e) = Len(s) + Len(e) /\ s \o e \in Seq(S)
  OBVIOUS
<1>4. After(s, m) \in Seq(S) /\ Len(After(s, m)) = Len(s) - m
  BY DEF After
<1> QED BY <1>2, <1>3, <1>4 DEF After, a

\* What was cut off early stays cut off, and the rest is what was left of all:
\* i frames off x, n more with e behind.
CutOn(x, e, i, y, n, c, kept) ==
  /\ i \in Nat /\ n \in Nat /\ i * c <= Len(x) /\ n * c <= Len(y) /\ (i + n) * c <= Len(x \o e)
  /\ y = After(x \o e, i * c)
  /\ Frames(Len(x \o e), c, kept) = i + n
  /\ After(y, n * c) = After(x \o e, (i + n) * c)

LEMMA CutsOn ==
  ASSUME NEW B, NEW x \in Seq(B), NEW e \in Seq(B), NEW c \in Nat \ {0}, NEW kept \in Nat,
         NEW i, i = Frames(Len(x), c, kept),
         NEW y, y = After(x, i * c) \o e,
         NEW n, n = Frames(Len(y), c, kept)
  PROVE  y \in Seq(B) /\ x \o e \in Seq(B) /\ CutOn(x, e, i, y, n, c, kept)
<1> DEFINE z == x \o e
           p == i * c
           q == n * c
<1>0. c \in Nat \ {0} /\ Len(x) \in Nat /\ Len(e) \in Nat /\ kept \in Nat
  OBVIOUS
<1>1. i \in Nat /\ p \in Nat /\ (Len(x) < kept => i = 0) /\ (Len(x) >= kept => p + kept <= Len(x))
  BY <1>0, FramesAre
<1>2. p <= Len(x)
  <2>1. i = 0 => p = 0
    <3>1. 0 * c = 0
      BY <1>0
    <3> QED BY <3>1
  <2> HIDE DEF p
  <2> QED BY <2>1, <1>0, <1>1
<1>3. y = After(z, p) /\ y \in Seq(B) /\ Len(y) = Len(z) - p /\ z \in Seq(B) /\ Len(z) = Len(x) + Len(e)
  <2>1. y = After(x, p) \o e
    OBVIOUS
  <2> HIDE DEF p, z
  <2>2. /\ After(x, p) \o e = After(x \o e, p) /\ After(x, p) \in Seq(B) /\ Len(After(x, p)) = Len(x) - p
        /\ x \o e \in Seq(B) /\ Len(x \o e) = Len(x) + Len(e)
    BY <1>1, <1>2, AfterJoined
  <2>3. Len(After(x, p) \o e) = Len(x) - p + Len(e) /\ After(x, p) \o e \in Seq(B)
    <3> DEFINE w == After(x, p)
    <3>1. w \in Seq(B) /\ Len(w) = Len(x) - p
      BY <2>2
    <3> HIDE DEF w
    <3>2. w \o e \in Seq(B) /\ Len(w \o e) = Len(w) + Len(e)
      BY ONLY <3>1, e \in Seq(B), Joins
    <3> QED BY <3>1, <3>2 DEF w
  <2>4. Len(x) - p + Len(e) = Len(x) + Len(e) - p
    BY <1>0, <1>1
  <2>5. y = After(z, p) /\ z \in Seq(B) /\ Len(z) = Len(x) + Len(e)
    BY <2>1, <2>2 DEF z
  <2>6. Len(y) = Len(z) - p
    <3> DEFINE w == After(x, p) \o e
    <3>1. y = w /\ Len(w) = Len(x) + Len(e) - p
      BY <2>1, <2>3, <2>4
    <3> HIDE DEF w
    <3>2. Len(x) \in Nat /\ Len(e) \in Nat /\ p \in Nat
      BY <1>0, <1>1
    <3> QED BY ONLY <3>1, <3>2, <2>5
  <2> QED BY <2>1, <2>3, <2>5, <2>6
<1> HIDE DEF z
<1>4. /\ p <= Len(z) /\ Frames(Len(z), c, kept) = i + Frames(Len(z) - p, c, kept)
      /\ Frames(Len(z), c, kept) * c = p + Frames(Len(z) - p, c, kept) * c
  <2>1. i = 0 \/ p + kept <= Len(z)
    <3> HIDE DEF p
    <3> QED BY <1>0, <1>1, <1>3
  <2> DEFINE L == Len(z)
  <2>2. L \in Nat
    BY <1>0, <1>3
  <2>3. L \in Nat /\ c \in Nat \ {0} /\ kept \in Nat /\ i \in Nat /\ Early(i, L, c, kept)
    BY <2>1, <2>2, <1>0, <1>1 DEF Early
  <2> HIDE DEF L
  <2>4. /\ i * c \in Nat /\ i * c <= L
        /\ Frames(L, c, kept) = i + Frames(L - i * c, c, kept)
        /\ Frames(L, c, kept) * c = i * c + Frames(L - i * c, c, kept) * c
    BY ONLY <2>3, FramesAdd DEF FramesAddUp
  <2> QED BY <2>4 DEF L
<1>5. Frames(Len(z), c, kept) = i + n /\ (i + n) * c = p + q /\ n \in Nat /\ q \in Nat
  <2>1. Len(y) \in Nat
    BY <1>3
  <2>2. Frames(Len(y), c, kept) \in Nat /\ Frames(Len(y), c, kept) * c \in Nat
    BY ONLY <2>1, <1>0, FramesAre
  <2> QED BY <2>2, <1>3, <1>4
<1>6. (i + n) * c <= Len(z) /\ q <= Len(y)
  <2>1. Len(z) \in Nat
    BY <1>0, <1>3
  <2> DEFINE k == i + n
             w == k * c
  <2>2. k = Frames(Len(z), c, kept)
    BY <1>5
  <2> HIDE DEF k
  <2>3. w \in Nat /\ (Len(z) < kept => k = 0) /\ (Len(z) >= kept => w + kept <= Len(z))
    BY <2>1, <2>2, <1>0, FramesAre
  <2>4. k = 0 => w = 0
    <3>1. 0 * c = 0
      BY <1>0
    <3> QED BY <3>1
  <2>5. w = p + q
    BY <1>5 DEF k
  <2> HIDE DEF w, p, q
  <2>6. w <= Len(z)
    BY <2>1, <2>3, <2>4, <1>0
  <2>7. q <= Len(y)
    BY <2>5, <2>6, <1>1, <1>3, <1>5, <2>1
  <2> QED BY <2>6, <2>7 DEF w, k
<1>7. After(y, q) = After(z, (i + n) * c)
  <2> HIDE DEF p, q
  <2>1. p + q <= Len(z)
    BY <1>5, <1>6
  <2>2. After(After(z, p), q) = After(z, p + q)
    BY <2>1, <1>1, <1>3, <1>5, AfterAfter
  <2> QED BY <2>2, <1>3, <1>5
<1> QED BY <1>1, <1>2, <1>3, <1>5, <1>6, <1>7 DEF z, CutOn

\* What either container seals when more comes, and what it keeps.
SealOn(B, x, e, kept, i, y, n) ==
  /\ i \in Nat /\ n \in Nat /\ Frames(Len(x \o e), ChunkSize, kept) = i + n
  /\ After(y, n * ChunkSize) = After(x \o e, (i + n) * ChunkSize)
  /\ SealFrames(0, i + n, x \o e) = SealFrames(0, i, x) \o SealFrames(i, n, y)
  /\ SealFrames(0, i, x) \in Seq(Sealing(B)) /\ SealFrames(i, n, y) \in Seq(Sealing(B))

LEMMA SealsOn ==
  ASSUME NEW B, NEW x \in Seq(B), NEW e \in Seq(B), NEW kept \in Nat,
         NEW i, i = Frames(Len(x), ChunkSize, kept),
         NEW y, y = After(x, i * ChunkSize) \o e,
         NEW n, n = Frames(Len(y), ChunkSize, kept)
  PROVE  SealOn(B, x, e, kept, i, y, n)
<1> DEFINE c == ChunkSize
           z == x \o e
           p == i * c
<1>1. c \in Nat \ {0}
  BY SizesAre
<1>2. y \in Seq(B) /\ z \in Seq(B) /\ CutOn(x, e, i, y, n, c, kept)
  <2> HIDE DEF c
  <2>1. c \in Nat \ {0} /\ i = Frames(Len(x), c, kept) /\ y = After(x, i * c) \o e /\ n = Frames(Len(y), c, kept)
    BY <1>1 DEF c
  <2> QED BY <2>1, CutsOn
<1>3. /\ i \in Nat /\ n \in Nat /\ p <= Len(x) /\ n * c <= Len(y) /\ (i + n) * c <= Len(z)
      /\ y = After(z, p) /\ Frames(Len(z), c, kept) = i + n /\ After(y, n * c) = After(z, (i + n) * c)
  BY <1>2, Zenon DEF CutOn
<1> HIDE DEF z
<1>8. SealFrames(0, i + n, z) = SealFrames(0, i, z) \o SealFrames(i, n, After(z, p))
  <2>1. z \in Seq(B) /\ i \in Nat /\ n \in Nat /\ (i + n) * ChunkSize <= Len(z)
    BY <1>2, <1>3
  <2> QED BY <2>1, SealedOn
<1>9. SealFrames(0, i, z) = SealFrames(0, i, x)
  BY <1>3, SealedSame DEF z
<1>10. SealFrames(0, i, x) \in Seq(Sealing(B)) /\ SealFrames(i, n, y) \in Seq(Sealing(B))
  <2>1. x \in Seq(B) /\ 0 \in Nat /\ i \in Nat /\ i * ChunkSize <= Len(x)
    BY <1>3
  <2>2. y \in Seq(B) /\ i \in Nat /\ n \in Nat /\ n * ChunkSize <= Len(y)
    BY <1>2, <1>3
  <2>3. SealFrames(0, i, x) \in Seq(Sealing(B))
    BY ONLY <2>1, FramesSealed
  <2>4. SealFrames(i, n, y) \in Seq(Sealing(B))
    BY ONLY <2>2, FramesSealed
  <2> QED BY <2>3, <2>4
<1> QED BY <1>3, <1>8, <1>9, <1>10 DEF z, SealOn

\* What one update makes of an engine that stands where it should: the next
\* place, and what was missing of the output, over U, or a refusal.
GoesOn(U, r, can, state, before, after) ==
  \/ can /\ r.ok = TRUE /\ r.state = state /\ r.out \in Seq(U) /\ before \o r.out = after
  \/ ~can /\ r.ok = FALSE /\ r.out = <<>>

\* A state of an age container, and one with some fields assigned.
AgeState(buffer, index, header, nonce, keyed, failed) ==
  [buffer |-> buffer, index |-> index, header |-> header, nonce |-> nonce, keyed |-> keyed, failed |-> failed]

LEMMA AgeStateIs ==
  ASSUME NEW w, NEW i, NEW h, NEW n, NEW k, NEW f,
         NEW s \in [buffer : {w}, index : {i}, header : {h}, nonce : {n}, keyed : {k}, failed : {f}]
  PROVE  s = AgeState(w, i, h, n, k, f)
BY DEF AgeState

\* An encryption that has read x: of a file of n frames and what is kept, the
\* frames are out, behind the preface.
SealRest(kept, x)   == After(x, SealCount(kept, x) * ChunkSize)
SealedAs(pre, kept, x) == IF x = <<>> THEN <<>> ELSE pre \o SealFrames(0, SealCount(kept, x), x)

AgeSealing(x)  == AgeState(SealRest(1, x), SealCount(1, x), x # <<>>, FALSE, FALSE, FALSE)
CobbleSealing(x) == [buffer |-> SealRest(0, x), index |-> SealCount(0, x), header |-> x # <<>>]

\* What a chunk adds to what was sealed.
SealedOnAs(B, pre, kept, x, e, y, n) ==
  /\ SealCount(kept, x) \in Nat /\ n \in Nat /\ SealCount(kept, x \o e) = SealCount(kept, x) + n
  /\ After(y, n * ChunkSize) = SealRest(kept, x \o e)
  /\ SealedAs(pre, kept, x) \o ((IF x # <<>> THEN <<>> ELSE pre) \o SealFrames(SealCount(kept, x), n, y))
     = SealedAs(pre, kept, x \o e)
  /\ (IF x # <<>> THEN <<>> ELSE pre) \o SealFrames(SealCount(kept, x), n, y) \in Seq(Sealing(B))
  /\ x \o e # <<>>

LEMMA SealedAsOn ==
  ASSUME NEW B, NEW x \in Seq(B), NEW e \in Seq(B), e # <<>>, NEW kept \in {0, 1},
         NEW pre \in Seq(Sealing(B)),
         NEW y, y = SealRest(kept, x) \o e,
         NEW n, n = Frames(Len(y), ChunkSize, kept)
  PROVE  SealedOnAs(B, pre, kept, x, e, y, n) /\ x \o e \in Seq(B)
<1> DEFINE i == SealCount(kept, x)
           H == Sealing(B)
           f == SealFrames(0, i, x)
           g == SealFrames(i, n, y)
           z == x \o e
<1>1. /\ i \in Nat /\ n \in Nat /\ Frames(Len(x \o e), ChunkSize, kept) = i + n
      /\ After(y, n * ChunkSize) = After(x \o e, (i + n) * ChunkSize)
      /\ SealFrames(0, i + n, x \o e) = f \o g
      /\ f \in Seq(H) /\ g \in Seq(H)
  <2>1. /\ x \in Seq(B) /\ e \in Seq(B) /\ kept \in Nat /\ i = Frames(Len(x), ChunkSize, kept)
        /\ y = After(x, i * ChunkSize) \o e /\ n = Frames(Len(y), ChunkSize, kept)
    BY DEF SealCount, SealRest
  <2> HIDE DEF i
  <2>2. SealOn(B, x, e, kept, i, y, n)
    BY ONLY <2>1, SealsOn
  <2> QED BY <2>2 DEF SealOn
<1>2. z \in Seq(B) /\ z # <<>>
  <2>1. Len(e) # 0 /\ Len(e) \in Nat /\ Len(x) \in Nat
    OBVIOUS
  <2>2. Len(z) = Len(x) + Len(e) /\ z \in Seq(B)
    OBVIOUS
  <2>3. Len(z) # 0
    BY <2>1, <2>2
  <2> QED BY <2>2, <2>3
<1>3. SealCount(kept, z) = i + n
  BY <1>1 DEF SealCount
<1>4. SealRest(kept, z) = After(y, n * ChunkSize)
  BY <1>1, <1>3 DEF SealRest
<1>5. SealedAs(pre, kept, z) = pre \o (f \o g)
  BY <1>1, <1>2, <1>3 DEF SealedAs
<1> HIDE DEF i, H, f, g, z
<1>6. CASE x # <<>>
  <2>1. SealedAs(pre, kept, x) = pre \o f
    BY <1>6 DEF SealedAs, f, i
  <2>2. (pre \o f) \o g = pre \o (f \o g) /\ <<>> \o g = g
    <3>1. pre \in Seq(H) /\ f \in Seq(H) /\ g \in Seq(H)
      BY <1>1 DEF H
    <3>2. pre \o (f \o g) = (pre \o f) \o g
      BY ONLY <3>1, Associates
    <3>3. <<>> \o g = g
      BY ONLY <3>1
    <3> QED BY <3>2, <3>3
  <2>3. <<>> \o g \in Seq(H)
    BY <1>1
  <2> QED BY <1>1, <1>2, <1>3, <1>4, <1>5, <1>6, <2>1, <2>2, <2>3 DEF z, i, g, H, SealedOnAs
<1>7. CASE x = <<>>
  <2>1. SealedAs(pre, kept, x) = <<>>
    BY <1>7 DEF SealedAs
  <2>2. f = <<>>
    <3>1. Len(x) = 0 /\ x \in Seq(B)
      BY <1>7
    <3>2. i * ChunkSize <= Len(x)
      <4>1. i = Frames(0, ChunkSize, kept)
        BY <3>1 DEF i, SealCount
      <4>2. /\ i * ChunkSize \in Nat /\ (0 < kept => i = 0) /\ (0 >= kept => i * ChunkSize + kept <= 0)
        <5>1. 0 \in Nat /\ kept \in Nat /\ ChunkSize \in Nat \ {0}
          BY SizesAre
        <5> QED BY ONLY <4>1, <5>1, FramesAre
      <4>3. 0 * ChunkSize = 0
        BY SizesAre
      <4> QED BY <3>1, <4>2, <4>3
    <3>3. Len(f) = i * FrameSize
      <4>1. x \in Seq(B) /\ 0 \in Nat /\ i \in Nat /\ i * ChunkSize <= Len(x)
        BY <1>1, <3>2
      <4> QED BY ONLY <4>1, FramesSealed DEF f
    <3>4. i = 0
      <4>1. i * ChunkSize <= 0
        BY <3>1, <3>2
      <4>2. i >= 1 => i * ChunkSize = (i - 1) * ChunkSize + ChunkSize /\ (i - 1) * ChunkSize \in Nat
        BY <1>1, SizesAre, UnitEnds
      <4> DEFINE p == i * ChunkSize
                 q == (i - 1) * ChunkSize
      <4>3. p <= 0 /\ (i >= 1 => p = q + ChunkSize /\ q \in Nat)
        BY <4>1, <4>2
      <4> HIDE DEF p, q
      <4> QED BY <4>3, <1>1, SizesAre
    <3>5. 0 * FrameSize = 0
      BY SizesAre
    <3> QED BY <1>1, <3>3, <3>4, <3>5
  <2>3. <<>> \o (pre \o g) = pre \o (<<>> \o g) /\ pre \o g \in Seq(H)
    BY <1>1 DEF H
  <2> QED BY <1>1, <1>2, <1>3, <1>4, <1>5, <1>7, <2>1, <2>2, <2>3 DEF z, i, g, H, SealedOnAs
<1> QED BY <1>6, <1>7

\* Nothing sealed, nothing kept.
LEMMA SealsNothing ==
  ASSUME NEW kept \in {0, 1}, NEW pre
  PROVE  SealCount(kept, <<>>) = 0 /\ SealRest(kept, <<>>) = <<>> /\ SealedAs(pre, kept, <<>>) = <<>>
<1>1. Len(<<>>) = 0 /\ 0 \div ChunkSize = 0 /\ 0 - 0 = 0 /\ 0 * ChunkSize = 0
  BY SizesAre
<1>2. SealCount(kept, <<>>) = 0
  BY <1>1 DEF SealCount, Frames
<1>3. SubSeq(<<>>, 0 + 1, Len(<<>>)) = <<>>
  OBVIOUS
<1> QED BY <1>1, <1>2, <1>3 DEF SealRest, After, SealedAs

LEMMA SealStarts ==
  /\ AgeStart = AgeSealing(<<>>) /\ CobbleStart = CobbleSealing(<<>>)
  /\ SealCount(1, <<>>) <= MaxChunkIndex
<1>1. 0 <= MaxChunkIndex
  BY SizesAre
<1> QED BY <1>1, SealsNothing DEF AgeStart, AgeSealing, AgeState, CobbleStart, CobbleSealing

\* What is sealed, is sealed of what was read.
LEMMA SealedType ==
  ASSUME NEW B, NEW x \in Seq(B), NEW kept \in {0, 1}, NEW pre \in Seq(Sealing(B))
  PROVE  /\ SealedAs(pre, kept, x) \in Seq(Sealing(B)) /\ SealCount(kept, x) \in Nat
         /\ SealRest(kept, x) \in Seq(B) /\ Len(SealRest(kept, x)) <= ChunkSize
<1> DEFINE i == SealCount(kept, x)
           p == i * ChunkSize
           H == Sealing(B)
<1>1. /\ i \in Nat /\ p \in Nat /\ (Len(x) < kept => i = 0)
      /\ (Len(x) >= kept => p + kept <= Len(x) /\ Len(x) < p + kept + ChunkSize)
  <2>1. Len(x) \in Nat /\ kept \in Nat
    OBVIOUS
  <2> QED BY <2>1, SizesAre, FramesAre DEF SealCount
<1>2. p <= Len(x) /\ Len(x) - p <= ChunkSize
  <2>1. 0 * ChunkSize = 0 /\ ChunkSize \in Nat /\ ChunkSize > 0
    BY SizesAre
  <2>2. i = 0 => p = 0
    BY <2>1
  <2> HIDE DEF p, i
  <2> QED BY <1>1, <2>1, <2>2
<1>3. SealRest(kept, x) = After(x, p) /\ After(x, p) \in Seq(B) /\ Len(After(x, p)) = Len(x) - p
  <2>1. SealRest(kept, x) = After(x, p)
    BY DEF SealRest
  <2> HIDE DEF p
  <2> QED BY <2>1, <1>1, <1>2 DEF After
<1>4. SealFrames(0, i, x) \in Seq(H)
  BY <1>1, <1>2, FramesSealed
<1> HIDE DEF H
<1>5. SealedAs(pre, kept, x) \in Seq(H)
  <2>1. pre \in Seq(H)
    BY DEF H
  <2>2. pre \o SealFrames(0, i, x) \in Seq(H) /\ <<>> \in Seq(H)
    BY <2>1, <1>4
  <2> QED BY <2>2 DEF SealedAs
<1> QED BY <1>1, <1>2, <1>3, <1>5 DEF H

LEMMA AgeSealsOn ==
  ASSUME NEW B, NEW x \in Seq(B), NEW e \in Seq(B), SealCount(1, x) <= MaxChunkIndex
  PROVE  GoesOn(Sealing(B), AgeEncryptUpdate(AgeSealing(x), e), SealCount(1, x \o e) <= MaxChunkIndex, AgeSealing(x \o e),
                SealedAs(Header \o Nonce, 1, x), SealedAs(Header \o Nonce, 1, x \o e))
<1> DEFINE s == AgeSealing(x)
           y == s.buffer \o e
           n == Frames(Len(y), ChunkSize, 1)
           pre == Header \o Nonce
           i == SealCount(1, x)
           H == Sealing(B)
<1>0. pre \in Seq(H)
  <2>1. Header \in Seq(H) /\ Nonce \in Seq(H)
    BY PrefacesAre
  <2> HIDE DEF H
  <2> QED BY <2>1
<1>1. CASE e = <<>>
  <2>1. AgeEncryptUpdate(s, e) = Emit(s, <<>>)
    BY <1>1 DEF AgeEncryptUpdate
  <2>2. x \o e = x
    BY <1>1
  <2>3. SealedAs(pre, 1, x) \in Seq(H)
    BY <1>0, SealedType
  <2> HIDE DEF H, pre
  <2>4. SealedAs(pre, 1, x) \o <<>> = SealedAs(pre, 1, x)
    BY <2>3
  <2>5. AgeEncryptUpdate(s, e).ok = TRUE /\ AgeEncryptUpdate(s, e).state = s /\ AgeEncryptUpdate(s, e).out = <<>>
    <3> HIDE DEF s
    <3> QED BY ONLY <2>1 DEF Emit
  <2> HIDE DEF s
  <2>6. <<>> \in Seq(Sealing(B))
    OBVIOUS
  <2> QED BY <2>2, <2>4, <2>5, <2>6 DEF GoesOn, pre, s
<1>2. CASE e # <<>>
  <2>0. s.buffer = SealRest(1, x) /\ s.index = i /\ s.header = (x # <<>>)
    BY DEF AgeSealing, AgeState
  <2>1. /\ SealCount(1, x) \in Nat /\ n \in Nat /\ SealCount(1, x \o e) = i + n
        /\ After(y, n * ChunkSize) = SealRest(1, x \o e)
        /\ SealedAs(pre, 1, x) \o ((IF x # <<>> THEN <<>> ELSE pre) \o SealFrames(i, n, y)) = SealedAs(pre, 1, x \o e)
        /\ (IF x # <<>> THEN <<>> ELSE pre) \o SealFrames(i, n, y) \in Seq(Sealing(B))
        /\ x \o e # <<>>
    <3>1. y = SealRest(1, x) \o e /\ n = Frames(Len(y), ChunkSize, 1) /\ 1 \in {0, 1}
      BY <2>0
    <3> HIDE DEF y, n, pre, s, H
    <3>2. x \in Seq(B) /\ e \in Seq(B) /\ pre \in Seq(Sealing(B))
      BY <1>0 DEF H
    <3>3. SealedOnAs(B, pre, 1, x, e, y, n)
      BY ONLY <3>1, <3>2, <1>2, SealedAsOn
    <3> QED BY <3>3 DEF i, SealedOnAs
  <2>2. Preamble(s) = IF x # <<>> THEN <<>> ELSE pre
    BY <2>0 DEF Preamble
  <2>3. CASE i + n > MaxChunkIndex
    <3>1. AgeEncryptUpdate(s, e) = Throw(s)
      BY <1>2, <2>0, <2>3 DEF AgeEncryptUpdate
    <3>2. ~(SealCount(1, x \o e) <= MaxChunkIndex)
      BY <2>1, <2>3, SizesAre
    <3>3. AgeEncryptUpdate(s, e).ok = FALSE /\ AgeEncryptUpdate(s, e).out = <<>>
      BY ONLY <3>1 DEF Throw
    <3> HIDE DEF s
    <3> QED BY <3>2, <3>3 DEF GoesOn, s
  <2>4. CASE ~(i + n > MaxChunkIndex)
    <3>1. AgeEncryptUpdate(s, e) = Emit([s EXCEPT !.buffer = After(y, n * ChunkSize), !.index = s.index + n, !.header = TRUE],
                                        Preamble(s) \o SealFrames(s.index, n, y))
      BY <1>2, <2>0, <2>4 DEF AgeEncryptUpdate
    <3>2. SealCount(1, x \o e) <= MaxChunkIndex
      BY <2>1, <2>4, SizesAre
    <3>3. [s EXCEPT !.buffer = After(y, n * ChunkSize), !.index = s.index + n, !.header = TRUE]
          = AgeState(After(y, n * ChunkSize), s.index + n, TRUE, FALSE, FALSE, FALSE)
      <4>1. s = AgeState(SealRest(1, x), i, x # <<>>, FALSE, FALSE, FALSE)
        BY DEF AgeSealing
      <4> DEFINE a == After(y, n * ChunkSize)
                 m == s.index + n
                 h == x # <<>>
                 w == SealRest(1, x)
      <4> HIDE DEF a, m, h, w, s, i
      <4>2. s = AgeState(w, i, h, FALSE, FALSE, FALSE)
        BY <4>1 DEF w, h
      <4>3. [s EXCEPT !.buffer = a, !.index = m, !.header = TRUE] = AgeState(a, m, TRUE, FALSE, FALSE, FALSE)
        <5>1. [s EXCEPT !.buffer = a, !.index = m, !.header = TRUE]
              \in [buffer : {a}, index : {m}, header : {TRUE}, nonce : {FALSE}, keyed : {FALSE}, failed : {FALSE}]
          BY ONLY <4>2 DEF AgeState
        <5> DEFINE z == [s EXCEPT !.buffer = a, !.index = m, !.header = TRUE]
        <5>2. z \in [buffer : {a}, index : {m}, header : {TRUE}, nonce : {FALSE}, keyed : {FALSE}, failed : {FALSE}]
          BY <5>1
        <5> HIDE DEF z
        <5>3. z = AgeState(a, m, TRUE, FALSE, FALSE, FALSE)
          BY ONLY <5>2, AgeStateIs
        <5> QED BY <5>3 DEF z
      <4> QED BY <4>3 DEF a, m
    <3>4. AgeSealing(x \o e) = AgeState(After(y, n * ChunkSize), s.index + n, TRUE, FALSE, FALSE, FALSE)
      BY <2>0, <2>1 DEF AgeSealing
    <3> DEFINE o == Preamble(s) \o SealFrames(s.index, n, y)
               u == AgeEncryptUpdate(s, e)
    <3>5. u = Emit(AgeSealing(x \o e), o)
      BY <3>1, <3>3, <3>4
    <3> HIDE DEF o, u, y, n, pre, s, i
    <3>6. u.ok = TRUE /\ u.state = AgeSealing(x \o e) /\ u.out = o
      BY ONLY <3>5 DEF Emit
    <3>7. o = (IF x # <<>> THEN <<>> ELSE pre) \o SealFrames(i, n, y)
      BY <2>0, <2>2 DEF o
    <3>8. SealedAs(pre, 1, x) \o o = SealedAs(pre, 1, x \o e)
      BY <3>7, <2>1
    <3>9. o \in Seq(Sealing(B))
      BY <3>7, <2>1
    <3> QED BY <3>2, <3>6, <3>8, <3>9 DEF GoesOn, pre, s, u
  <2> QED BY <2>3, <2>4
<1> QED BY <1>1, <1>2

LEMMA CobbleSealsOn ==
  ASSUME NEW B, NEW x \in Seq(B), NEW e \in Seq(B)
  PROVE  GoesOn(Sealing(B), CobbleEncryptUpdate(CobbleSealing(x), e), TRUE, CobbleSealing(x \o e),
                SealedAs(Commitment, 0, x), SealedAs(Commitment, 0, x \o e))
<1> DEFINE s == CobbleSealing(x)
           y == s.buffer \o e
           n == Frames(Len(y), ChunkSize, 0)
           pre == Commitment
           i == SealCount(0, x)
           H == Sealing(B)
<1>0. pre \in Seq(H)
  BY PrefacesAre
<1>1. CASE e = <<>>
  <2>1. CobbleEncryptUpdate(s, e) = Emit(s, <<>>)
    BY <1>1 DEF CobbleEncryptUpdate
  <2>2. x \o e = x
    BY <1>1
  <2>3. SealedAs(pre, 0, x) \in Seq(H)
    BY <1>0, SealedType
  <2> HIDE DEF H, pre
  <2>4. SealedAs(pre, 0, x) \o <<>> = SealedAs(pre, 0, x)
    BY <2>3
  <2>5. CobbleEncryptUpdate(s, e).ok = TRUE /\ CobbleEncryptUpdate(s, e).state = s /\ CobbleEncryptUpdate(s, e).out = <<>>
    <3> HIDE DEF s
    <3> QED BY ONLY <2>1 DEF Emit
  <2> HIDE DEF s
  <2>6. <<>> \in Seq(Sealing(B))
    OBVIOUS
  <2> QED BY <2>2, <2>4, <2>5, <2>6 DEF GoesOn, pre, s
<1>2. CASE e # <<>>
  <2>0. s.buffer = SealRest(0, x) /\ s.index = i /\ s.header = (x # <<>>)
    BY DEF CobbleSealing
  <2>1. /\ SealCount(0, x) \in Nat /\ n \in Nat /\ SealCount(0, x \o e) = i + n
        /\ After(y, n * ChunkSize) = SealRest(0, x \o e)
        /\ SealedAs(pre, 0, x) \o ((IF x # <<>> THEN <<>> ELSE pre) \o SealFrames(i, n, y)) = SealedAs(pre, 0, x \o e)
        /\ (IF x # <<>> THEN <<>> ELSE pre) \o SealFrames(i, n, y) \in Seq(Sealing(B))
        /\ x \o e # <<>>
    <3>1. y = SealRest(0, x) \o e /\ n = Frames(Len(y), ChunkSize, 0) /\ 0 \in {0, 1}
      BY <2>0
    <3> HIDE DEF y, n, pre, s, H
    <3>2. x \in Seq(B) /\ e \in Seq(B) /\ pre \in Seq(Sealing(B))
      BY <1>0 DEF H
    <3>3. SealedOnAs(B, pre, 0, x, e, y, n)
      BY ONLY <3>1, <3>2, <1>2, SealedAsOn
    <3> QED BY <3>3 DEF i, SealedOnAs
  <2>2. CobbleHeader(s) = IF x # <<>> THEN <<>> ELSE pre
    BY <2>0 DEF CobbleHeader
  <2>3. CobbleEncryptUpdate(s, e) = Emit([buffer |-> After(y, n * ChunkSize), index |-> s.index + n, header |-> TRUE],
                                         CobbleHeader(s) \o SealFrames(s.index, n, y))
    BY <1>2, <2>0 DEF CobbleEncryptUpdate
  <2>4. CobbleSealing(x \o e) = [buffer |-> After(y, n * ChunkSize), index |-> i + n, header |-> TRUE]
    BY <2>1 DEF CobbleSealing
  <2> DEFINE o == CobbleHeader(s) \o SealFrames(s.index, n, y)
             u == CobbleEncryptUpdate(s, e)
  <2>5. u = Emit(CobbleSealing(x \o e), o)
    BY <2>0, <2>3, <2>4
  <2> HIDE DEF o, u, y, n, pre, s, i
  <2>6. u.ok = TRUE /\ u.state = CobbleSealing(x \o e) /\ u.out = o
    BY ONLY <2>5 DEF Emit
  <2>7. o = (IF x # <<>> THEN <<>> ELSE pre) \o SealFrames(i, n, y)
    BY <2>0, <2>2 DEF o
  <2>8. SealedAs(pre, 0, x) \o o = SealedAs(pre, 0, x \o e)
    BY <2>7, <2>1
  <2>9. o \in Seq(Sealing(B))
    BY <2>7, <2>1
  <2> QED BY <2>6, <2>8, <2>9 DEF GoesOn, pre, s, u
<1> QED BY <1>1, <1>2

-----------------------------------------------------------------------------
(* Decrypting.  What is sealed in bytes of S was a message over T.          *)

Readable(S, T) == \A b \in S : b[1] = "s" => b[4] \in Seq(T)

\* The i-th frame of y, the first of which is for chunk k.
FrameAt(k, y, i) == Open(k + i - 1, FALSE, SubSeq(y, (i - 1) * FrameSize + 1, i * FrameSize))

OpensAll(k, n, y)    == \A i \in 1 .. n : FrameAt(k, y, i).ok
OpenedParts(k, n, y) == [i \in 1 .. n |-> FrameAt(k, y, i).out]

LEMMA OpenFramesIs ==
  ASSUME NEW k, NEW n, NEW y
  PROVE  OpenFrames(k, n, y) = IF OpensAll(k, n, y) THEN Opened(FlattenSeq(OpenedParts(k, n, y))) ELSE Unopened
BY DEF OpenFrames, OpensAll, OpenedParts, FrameAt

\* What opens is a message, what does not gives nothing.
LEMMA OpenIs ==
  ASSUME NEW S, NEW T, Readable(S, T), NEW y \in Seq(S), NEW k, NEW last
  PROVE  /\ Open(k, last, y).ok \in BOOLEAN /\ Open(k, last, y).out \in Seq(T)
         /\ ~Open(k, last, y).ok => Open(k, last, y) = Unopened
         /\ Open(k, last, y).ok => /\ Len(y) >= TagSize /\ Open(k, last, y).out = y[1][4]
                                   /\ y = Seal(k, last, y[1][4]) /\ y[1][1] = "s" /\ y[1] \in S
<1> DEFINE C == Len(y) >= TagSize /\ y[1][1] = "s" /\ y = Seal(k, last, y[1][4])
<1>1. Open(k, last, y) = IF C THEN Opened(y[1][4]) ELSE Unopened
  BY DEF Open
<1>2. CASE C
  <2>1. Open(k, last, y).ok = TRUE /\ Open(k, last, y).out = y[1][4]
    BY <1>1, <1>2 DEF Opened
  <2>2. y[1] \in S
    <3>1. Len(y) >= 1 /\ Len(y) \in Nat
      BY <1>2, SizesAre
    <3> QED BY <3>1
  <2>3. y[1][4] \in Seq(T)
    BY <1>2, <2>2 DEF Readable
  <2> QED BY <1>2, <2>1, <2>2, <2>3
<1>3. CASE ~C
  <2>1. Open(k, last, y) = Unopened
    BY <1>1, <1>3
  <2>2. Unopened.ok = FALSE /\ Unopened.out = <<>> /\ <<>> \in Seq(T)
    BY DEF Unopened
  <2> QED BY <2>1, <2>2
<1> QED BY <1>2, <1>3

FrameIsOf(T, r) == r.ok \in BOOLEAN /\ r.out \in Seq(T)

LEMMA FramesOpened ==
  ASSUME NEW S, NEW T, Readable(S, T), NEW y \in Seq(S), NEW k, NEW n \in Nat, n * FrameSize <= Len(y)
  PROVE  /\ \A i \in 1 .. n : FrameIsOf(T, FrameAt(k, y, i))
         /\ OpenedParts(k, n, y) \in Seq(Seq(T)) /\ Len(OpenedParts(k, n, y)) = n
         /\ \A i \in 1 .. n : OpenedParts(k, n, y)[i] = FrameAt(k, y, i).out
<1>1. ASSUME NEW i \in 1 .. n
      PROVE  FrameIsOf(T, FrameAt(k, y, i))
  <2> DEFINE v == SubSeq(y, (i - 1) * FrameSize + 1, i * FrameSize)
             j == k + i - 1
  <2>1. v \in Seq(S)
    <3>1. FrameSize \in Nat
      BY SizesAre
    <3> QED BY <3>1, PartIs
  <2> HIDE DEF v, j
  <2>2. Open(j, FALSE, v).ok \in BOOLEAN /\ Open(j, FALSE, v).out \in Seq(T)
    BY <2>1, OpenIs
  <2> QED BY <2>2 DEF FrameIsOf, FrameAt, v, j
<1> DEFINE b(i) == FrameAt(k, y, i).out
           z == [i \in 1 .. n |-> b(i)]
           H == Seq(T)
<1>2. z = OpenedParts(k, n, y)
  BY DEF OpenedParts
<1>3. \A i \in 1 .. n : b(i) \in H
  BY <1>1 DEF FrameIsOf
<1> HIDE DEF b, H
<1>4. z \in Seq(H) /\ Len(z) = n /\ \A i \in 1 .. n : z[i] = b(i)
  BY <1>3
<1> QED BY <1>1, <1>2, <1>4 DEF b, H

\* Opened a few at a time, the frames are those opened at once.
OpenJoin(first, then) == IF first.ok /\ then.ok THEN Opened(first.out \o then.out) ELSE Unopened

LEMMA OpenedOn ==
  ASSUME NEW S, NEW T, Readable(S, T), NEW z \in Seq(S), NEW k \in Nat, NEW n \in Nat, (k + n) * FrameSize <= Len(z)
  PROVE  OpenFrames(0, k + n, z) = OpenJoin(OpenFrames(0, k, z), OpenFrames(k, n, After(z, k * FrameSize)))
<1> DEFINE c == FrameSize
           y == After(z, k * c)
           a == OpenedParts(0, k, z)
           b == OpenedParts(k, n, y)
           w == OpenedParts(0, k + n, z)
           H == Seq(T)
<1>0. c \in Nat /\ k + n \in Nat /\ (k + n) * c <= Len(z)
  BY SizesAre
<1>1. /\ y \in Seq(S) /\ n * c <= Len(y) /\ k * c <= Len(z)
      /\ \A i \in 1 .. n : SubSeq(y, (i - 1) * c + 1, i * c) = SubSeq(z, (k + i - 1) * c + 1, (k + i) * c)
  <2> HIDE DEF c
  <2>0. z \in Seq(S) /\ c \in Nat /\ k \in Nat /\ n \in Nat /\ (k + n) * c <= Len(z)
    BY <1>0
  <2>1. /\ k * c \in Nat /\ k * c <= Len(z) /\ n * c \in Nat /\ (k + n) * c = k * c + n * c
        /\ After(z, k * c) \in Seq(S) /\ Len(After(z, k * c)) = Len(z) - k * c /\ n * c <= Len(After(z, k * c))
        /\ Shifted(z, c, k, n)
    BY ONLY <2>0, LaterParts
  <2> QED BY <2>1, Zenon DEF Shifted
<1> HIDE DEF y
<1>2. \A i \in 1 .. n : FrameAt(k, y, i) = FrameAt(0, z, k + i)
  <2> TAKE i \in 1 .. n
  <2>1. k + i - 1 = 0 + (k + i) - 1
    OBVIOUS
  <2>2. SubSeq(y, (i - 1) * c + 1, i * c) = SubSeq(z, ((k + i) - 1) * c + 1, (k + i) * c)
    <3> HIDE DEF c
    <3>1. k + i - 1 = (k + i) - 1
      OBVIOUS
    <3>2. SubSeq(y, (i - 1) * c + 1, i * c) = SubSeq(z, (k + i - 1) * c + 1, (k + i) * c)
      BY <1>1, Zenon
    <3> QED BY <3>1, <3>2, Zenon
  <2> QED BY <2>1, <2>2 DEF FrameAt
<1>a. a \in Seq(H) /\ Len(a) = k /\ \A i \in 1 .. k : a[i] = FrameAt(0, z, i).out
  <2>1. z \in Seq(S) /\ k \in Nat /\ k * FrameSize <= Len(z)
    BY <1>1
  <2> QED BY <2>1, FramesOpened
<1>b. b \in Seq(H) /\ Len(b) = n /\ \A i \in 1 .. n : b[i] = FrameAt(k, y, i).out
  <2>1. y \in Seq(S) /\ n \in Nat /\ n * FrameSize <= Len(y)
    BY <1>1
  <2> QED BY <2>1, FramesOpened
<1>w. /\ w \in Seq(H) /\ Len(w) = k + n /\ \A i \in 1 .. k + n : w[i] = FrameAt(0, z, i).out
      /\ \A i \in 1 .. k + n : FrameAt(0, z, i).ok \in BOOLEAN
  <2>1. z \in Seq(S) /\ k + n \in Nat /\ (k + n) * FrameSize <= Len(z)
    BY <1>0
  <2> QED BY <2>1, FramesOpened DEF FrameIsOf
<1> HIDE DEF a, b, w, H, c
<1>3. a \o b = w
  <2>1. \A i \in 1 .. Len(a) : w[i] = a[i]
    BY <1>a, <1>w
  <2>2. \A i \in 1 .. Len(b) : w[Len(a) + i] = b[i]
    <3> SUFFICES ASSUME NEW i \in 1 .. n  PROVE w[k + i] = b[i]
      BY <1>a, <1>b
    <3>1. k + i \in 1 .. k + n
      OBVIOUS
    <3> QED BY <3>1, <1>2, <1>b, <1>w
  <2>3. Len(w) = Len(a) + Len(b)
    BY <1>a, <1>b, <1>w
  <2> QED BY <2>1, <2>2, <2>3, <1>a, <1>b, <1>w, JoinIs
<1>4. FlattenSeq(a) \o FlattenSeq(b) = FlattenSeq(w)
  BY <1>a, <1>b, <1>3, FlattenJoins DEF H
<1>5. OpensAll(0, k + n, z) <=> OpensAll(0, k, z) /\ OpensAll(k, n, y)
  <2>1. ASSUME OpensAll(0, k + n, z)  PROVE OpensAll(0, k, z) /\ OpensAll(k, n, y)
    <3>1. \A i \in 1 .. k + n : FrameAt(0, z, i).ok
      BY <2>1 DEF OpensAll
    <3>2. \A i \in 1 .. k : i \in 1 .. k + n
      OBVIOUS
    <3>3. \A i \in 1 .. n : k + i \in 1 .. k + n
      OBVIOUS
    <3> QED BY <3>1, <3>2, <3>3, <1>2 DEF OpensAll
  <2>2. ASSUME OpensAll(0, k, z), OpensAll(k, n, y)  PROVE OpensAll(0, k + n, z)
    <3> SUFFICES ASSUME NEW i \in 1 .. k + n  PROVE FrameAt(0, z, i).ok
      BY DEF OpensAll
    <3>1. CASE i <= k
      BY <2>2, <3>1 DEF OpensAll
    <3>2. CASE i > k
      <4>1. PICK j \in 1 .. n : i = k + j
        <5>1. i - k \in 1 .. n /\ i = k + (i - k)
          BY <3>2
        <5> QED BY <5>1
      <4>2. FrameAt(k, y, j) = FrameAt(0, z, i) /\ FrameAt(k, y, j).ok
        BY <2>2, <4>1, <1>2 DEF OpensAll
      <4> QED BY <4>2
    <3> QED BY <3>1, <3>2
  <2> QED BY <2>1, <2>2
<1> DEFINE f == OpenFrames(0, k, z)
           g == OpenFrames(k, n, y)
<1>6. f = IF OpensAll(0, k, z) THEN Opened(FlattenSeq(a)) ELSE Unopened
  BY OpenFramesIs DEF a
<1>7. g = IF OpensAll(k, n, y) THEN Opened(FlattenSeq(b)) ELSE Unopened
  BY OpenFramesIs DEF b
<1>8. OpenFrames(0, k + n, z) = IF OpensAll(0, k + n, z) THEN Opened(FlattenSeq(w)) ELSE Unopened
  BY OpenFramesIs DEF w
<1> HIDE DEF f, g
<1>9. OpenFrames(0, k + n, z) = OpenJoin(f, g)
  <2>1. CASE OpensAll(0, k, z) /\ OpensAll(k, n, y)
    <3>1. f.ok = TRUE /\ g.ok = TRUE /\ f.out = FlattenSeq(a) /\ g.out = FlattenSeq(b)
      BY <2>1, <1>6, <1>7 DEF Opened
    <3> QED BY <2>1, <3>1, <1>4, <1>5, <1>8 DEF OpenJoin
  <2>2. CASE ~OpensAll(0, k, z)
    <3>1. f.ok = FALSE
      BY <2>2, <1>6 DEF Unopened
    <3> QED BY <2>2, <3>1, <1>5, <1>8 DEF OpenJoin
  <2>3. CASE ~OpensAll(k, n, y)
    <3>1. g.ok = FALSE
      BY <2>3, <1>7 DEF Unopened
    <3> QED BY <2>3, <3>1, <1>5, <1>8 DEF OpenJoin
  <2> QED BY <2>1, <2>2, <2>3
<1> QED BY <1>9 DEF f, g, y, c

LEMMA OpenedSame ==
  ASSUME NEW S, NEW x \in Seq(S), NEW e \in Seq(S), NEW n \in Nat, n * FrameSize <= Len(x)
  PROVE  OpenFrames(0, n, x \o e) = OpenFrames(0, n, x)
<1>1. \A i \in 1 .. n : FrameAt(0, x \o e, i) = FrameAt(0, x, i)
  <2> TAKE i \in 1 .. n
  <2> DEFINE p == (i - 1) * FrameSize
             q == i * FrameSize
             m == n * FrameSize
  <2>1. p \in Nat /\ q = p + FrameSize /\ q \in Nat /\ q <= m /\ m \in Nat /\ m <= Len(x)
    BY PartIs, SizesAre
  <2> HIDE DEF p, q, m
  <2> DEFINE a == p + 1
  <2>2. a \in Int /\ q \in Int /\ 1 <= a /\ a <= q + 1 /\ q <= Len(x)
    BY <2>1, SizesAre
  <2> HIDE DEF a
  <2>3. SubSeq(x \o e, a, q) = SubSeq(x, a, q)
    BY <2>2, LeftSlice
  <2> QED BY <2>3 DEF a, p, q, FrameAt
<1>2. OpensAll(0, n, x \o e) = OpensAll(0, n, x)
  BY <1>1 DEF OpensAll
<1>3. OpenedParts(0, n, x \o e) = OpenedParts(0, n, x)
  BY <1>1 DEF OpenedParts
<1> QED BY <1>2, <1>3, OpenFramesIs

\* Frames opened are a message, or none.
LEMMA OpenFramesType ==
  ASSUME NEW S, NEW T, Readable(S, T), NEW y \in Seq(S), NEW k, NEW n \in Nat, n * FrameSize <= Len(y)
  PROVE  /\ FrameIsOf(T, OpenFrames(k, n, y))
         /\ ~OpenFrames(k, n, y).ok => OpenFrames(k, n, y) = Unopened
         /\ n = 0 => OpenFrames(k, n, y) = Opened(<<>>)
<1> DEFINE w == OpenedParts(k, n, y)
           r == OpenFrames(k, n, y)
<1>1. w \in Seq(Seq(T)) /\ Len(w) = n
  BY FramesOpened
<1>2. r = IF OpensAll(k, n, y) THEN Opened(FlattenSeq(w)) ELSE Unopened
  BY OpenFramesIs
<1> HIDE DEF w, r
<1>3. FlattenSeq(w) \in Seq(T)
  <2>1. <<>> \in Seq(T)
    OBVIOUS
  <2> QED BY <1>1, <2>1, FlattenAppends
<1>4. CASE OpensAll(k, n, y)
  <2>1. r.ok = TRUE /\ r.out = FlattenSeq(w)
    BY <1>2, <1>4 DEF Opened
  <2>2. n = 0 => w = <<>>
    BY <1>1
  <2>3. n = 0 => r = Opened(<<>>)
    BY <2>2, <1>2, <1>4, FlattenNothing
  <2> QED BY <1>3, <2>1, <2>3 DEF FrameIsOf, r
<1>5. CASE ~OpensAll(k, n, y)
  <2>1. r = Unopened /\ n # 0
    BY <1>2, <1>5 DEF OpensAll
  <2>2. r.ok = FALSE /\ r.out = <<>>
    BY <2>1 DEF Unopened
  <2>3. <<>> \in Seq(T)
    OBVIOUS
  <2> QED BY <2>1, <2>2, <2>3 DEF FrameIsOf, r
<1> QED BY <1>4, <1>5

\* What either container opens when more comes, and what it keeps.
OpenOn(T, x, e, kept, i, y, n) ==
  /\ i \in Nat /\ n \in Nat /\ Frames(Len(x \o e), FrameSize, kept) = i + n
  /\ After(y, n * FrameSize) = After(x \o e, (i + n) * FrameSize)
  /\ OpenFrames(0, i + n, x \o e) = OpenJoin(OpenFrames(0, i, x), OpenFrames(i, n, y))
  /\ FrameIsOf(T, OpenFrames(0, i, x)) /\ FrameIsOf(T, OpenFrames(i, n, y))

LEMMA OpensOn ==
  ASSUME NEW S, NEW T, Readable(S, T), NEW x \in Seq(S), NEW e \in Seq(S), NEW kept \in Nat,
         NEW i, i = Frames(Len(x), FrameSize, kept),
         NEW y, y = After(x, i * FrameSize) \o e,
         NEW n, n = Frames(Len(y), FrameSize, kept)
  PROVE  OpenOn(T, x, e, kept, i, y, n)
<1> DEFINE c == FrameSize
           z == x \o e
           p == i * c
<1>1. c \in Nat \ {0}
  BY SizesAre
<1>2. y \in Seq(S) /\ z \in Seq(S) /\ CutOn(x, e, i, y, n, c, kept)
  <2> HIDE DEF c
  <2>1. c \in Nat \ {0} /\ i = Frames(Len(x), c, kept) /\ y = After(x, i * c) \o e /\ n = Frames(Len(y), c, kept)
    BY <1>1 DEF c
  <2> QED BY <2>1, CutsOn
<1>3. /\ i \in Nat /\ n \in Nat /\ p <= Len(x) /\ n * c <= Len(y) /\ (i + n) * c <= Len(z)
      /\ y = After(z, p) /\ Frames(Len(z), c, kept) = i + n /\ After(y, n * c) = After(z, (i + n) * c)
  BY <1>2, Zenon DEF CutOn
<1> HIDE DEF z
<1>4. OpenFrames(0, i + n, z) = OpenJoin(OpenFrames(0, i, z), OpenFrames(i, n, After(z, p)))
  <2>1. z \in Seq(S) /\ i \in Nat /\ n \in Nat /\ (i + n) * FrameSize <= Len(z)
    BY <1>2, <1>3
  <2> QED BY <2>1, OpenedOn
<1>5. OpenFrames(0, i, z) = OpenFrames(0, i, x)
  BY <1>3, OpenedSame DEF z
<1>6. FrameIsOf(T, OpenFrames(0, i, x)) /\ FrameIsOf(T, OpenFrames(i, n, y))
  <2>1. x \in Seq(S) /\ 0 \in Nat /\ i \in Nat /\ i * FrameSize <= Len(x) /\ Readable(S, T)
    BY <1>3
  <2>2. y \in Seq(S) /\ i \in Nat /\ n \in Nat /\ n * FrameSize <= Len(y) /\ Readable(S, T)
    BY <1>2, <1>3
  <2>3. FrameIsOf(T, OpenFrames(0, i, x))
    BY ONLY <2>1, OpenFramesType
  <2>4. FrameIsOf(T, OpenFrames(i, n, y))
    BY ONLY <2>2, OpenFramesType
  <2> QED BY <2>3, <2>4
<1> QED BY <1>3, <1>4, <1>5, <1>6 DEF z, OpenOn

-----------------------------------------------------------------------------
(* Cobblestone. *)

\* What a decryption that has read x has before it, behind the commitment.
CobbleBody(x)   == After(x, CommitSize)
OpenCount(kept, b)  == Frames(Len(b), FrameSize, kept)
OpenRest(kept, b)   == After(b, OpenCount(kept, b) * FrameSize)
OpenSofar(kept, b)  == OpenFrames(0, OpenCount(kept, b), b)

CobbleOpening(x) ==
  IF Len(x) < CommitSize THEN [buffer |-> x, index |-> 0, header |-> FALSE]
  ELSE [buffer |-> OpenRest(TagSize, CobbleBody(x)), index |-> OpenCount(TagSize, CobbleBody(x)), header |-> TRUE]

CobbleCan(x) ==
  \/ Len(x) < CommitSize
  \/ First(x, CommitSize) = Commitment /\ OpenSofar(TagSize, CobbleBody(x)).ok

CobbleOpened(x) == IF Len(x) < CommitSize THEN <<>> ELSE OpenSofar(TagSize, CobbleBody(x)).out

LEMMA CobbleStarts == CobbleStart = CobbleOpening(<<>>) /\ CobbleCan(<<>>) /\ CobbleOpened(<<>>) = <<>>
<1>1. Len(<<>>) < CommitSize
  BY SizesAre
<1> QED BY <1>1 DEF CobbleStart, CobbleOpening, CobbleCan, CobbleOpened

\* A commitment, once read, stays.
LEMMA HeadStays ==
  ASSUME NEW S, NEW x \in Seq(S), NEW e \in Seq(S), NEW m \in Nat, m <= Len(x)
  PROVE  /\ First(x \o e, m) = First(x, m) /\ After(x \o e, m) = After(x, m) \o e
         /\ After(x, m) \in Seq(S) /\ Len(After(x, m)) = Len(x) - m
         /\ x \o e \in Seq(S) /\ Len(x \o e) = Len(x) + Len(e)
<1>1. SubSeq(x \o e, 1, m) = SubSeq(x, 1, m)
  <2>1. 1 \in Int /\ m \in Int /\ 1 <= 1 /\ 1 <= m + 1 /\ m <= Len(x)
    OBVIOUS
  <2> QED BY <2>1, LeftSlice
<1>2. /\ After(x, m) \o e = After(x \o e, m) /\ After(x, m) \in Seq(S) /\ Len(After(x, m)) = Len(x) - m
      /\ x \o e \in Seq(S) /\ Len(x \o e) = Len(x) + Len(e)
  BY AfterJoined
<1> QED BY <1>1, <1>2 DEF First

\* What is kept of a body is less than a frame and what was to be kept.
LEMMA OpenRestIs ==
  ASSUME NEW S, NEW b \in Seq(S), NEW kept \in Nat
  PROVE  /\ OpenCount(kept, b) \in Nat /\ OpenCount(kept, b) * FrameSize \in Nat
         /\ OpenCount(kept, b) * FrameSize <= Len(b)
         /\ OpenRest(kept, b) \in Seq(S) /\ Len(OpenRest(kept, b)) = Len(b) - OpenCount(kept, b) * FrameSize
         /\ Len(OpenRest(kept, b)) < FrameSize + kept
         /\ Len(b) < kept => OpenCount(kept, b) = 0
         /\ Len(b) >= kept => Len(OpenRest(kept, b)) >= kept
<1> DEFINE i == OpenCount(kept, b)
           p == i * FrameSize
<1>1. /\ i \in Nat /\ p \in Nat /\ (Len(b) < kept => i = 0)
      /\ (Len(b) >= kept => p + kept <= Len(b) /\ Len(b) < p + kept + FrameSize)
  <2>1. Len(b) \in Nat /\ kept \in Nat
    OBVIOUS
  <2> QED BY <2>1, SizesAre, FramesAre DEF OpenCount
<1>2. 0 * FrameSize = 0 /\ FrameSize \in Nat /\ FrameSize > 0
  BY SizesAre
<1>3. i = 0 => p = 0
  BY <1>2
<1>4. OpenRest(kept, b) = After(b, p)
  BY DEF OpenRest
<1> HIDE DEF p, i
<1>5. p <= Len(b) /\ Len(b) - p < FrameSize + kept /\ (Len(b) >= kept => Len(b) - p >= kept)
  BY <1>1, <1>2, <1>3
<1>6. After(b, p) \in Seq(S) /\ Len(After(b, p)) = Len(b) - p
  BY <1>1, <1>5 DEF After
<1> QED BY <1>1, <1>4, <1>5, <1>6 DEF p, i

\* A body that more is read of.
BodyOn(T, kept, b, e, y, n) ==
  /\ OpenCount(kept, b) \in Nat /\ n \in Nat /\ OpenCount(kept, b \o e) = OpenCount(kept, b) + n
  /\ After(y, n * FrameSize) = OpenRest(kept, b \o e)
  /\ OpenSofar(kept, b \o e) = OpenJoin(OpenSofar(kept, b), OpenFrames(OpenCount(kept, b), n, y))
  /\ FrameIsOf(T, OpenSofar(kept, b)) /\ FrameIsOf(T, OpenFrames(OpenCount(kept, b), n, y))

LEMMA BodyGoesOn ==
  ASSUME NEW S, NEW T, Readable(S, T), NEW b \in Seq(S), NEW e \in Seq(S), NEW kept \in Nat,
         NEW y, y = OpenRest(kept, b) \o e,
         NEW n, n = Frames(Len(y), FrameSize, kept)
  PROVE  BodyOn(T, kept, b, e, y, n)
<1> DEFINE i == OpenCount(kept, b)
<1>1. /\ Readable(S, T) /\ b \in Seq(S) /\ e \in Seq(S) /\ kept \in Nat
      /\ i = Frames(Len(b), FrameSize, kept) /\ y = After(b, i * FrameSize) \o e /\ n = Frames(Len(y), FrameSize, kept)
  BY DEF OpenCount, OpenRest
<1> HIDE DEF i
<1>2. OpenOn(T, b, e, kept, i, y, n)
  BY ONLY <1>1, OpensOn
<1> DEFINE z == b \o e
<1>3. /\ i \in Nat /\ n \in Nat /\ Frames(Len(z), FrameSize, kept) = i + n
      /\ After(y, n * FrameSize) = After(z, (i + n) * FrameSize)
      /\ OpenFrames(0, i + n, z) = OpenJoin(OpenFrames(0, i, b), OpenFrames(i, n, y))
      /\ FrameIsOf(T, OpenFrames(0, i, b)) /\ FrameIsOf(T, OpenFrames(i, n, y))
  BY <1>2 DEF OpenOn
<1> HIDE DEF z
<1>4. OpenCount(kept, z) = i + n
  BY <1>3 DEF OpenCount
<1>5. OpenRest(kept, z) = After(y, n * FrameSize)
  BY <1>3, <1>4 DEF OpenRest
<1>6. OpenSofar(kept, z) = OpenFrames(0, i + n, z) /\ OpenSofar(kept, b) = OpenFrames(0, i, b)
  BY <1>4 DEF OpenSofar, i
<1> QED BY <1>3, <1>4, <1>5, <1>6 DEF BodyOn, i, z

\* What joins.
LEMMA OpenJoinIs ==
  ASSUME NEW f, NEW g, NEW r, r = OpenJoin(f, g), f.ok \in BOOLEAN, g.ok \in BOOLEAN
  PROVE  /\ f.ok /\ g.ok => r.ok = TRUE /\ r.out = f.out \o g.out
         /\ ~(f.ok /\ g.ok) => r = Unopened /\ r.ok = FALSE
BY DEF OpenJoin, Opened, Unopened

LEMMA CobbleOpensOn ==
  ASSUME NEW S, NEW T, Readable(S, T), NEW x \in Seq(S), NEW e \in Seq(S), CobbleCan(x)
  PROVE  GoesOn(T, CobbleDecryptUpdate(CobbleOpening(x), e), CobbleCan(x \o e), CobbleOpening(x \o e),
                CobbleOpened(x), CobbleOpened(x \o e))
<1> DEFINE s == CobbleOpening(x)
           r == CobbleDecryptUpdate(s, e)
           z == x \o e
           b == CobbleBody(x)
           d == CobbleBody(z)
<1>0. z \in Seq(S) /\ Len(z) = Len(x) + Len(e) /\ Len(x) \in Nat /\ Len(e) \in Nat /\ CommitSize \in Nat /\ TagSize \in Nat
  BY SizesAre
<1>1. ASSUME e = <<>>
      PROVE  GoesOn(T, r, CobbleCan(z), CobbleOpening(z), CobbleOpened(x), CobbleOpened(z))
  <2>1. r = Emit(s, <<>>) /\ z = x
    BY <1>1 DEF CobbleDecryptUpdate
  <2>2. CobbleOpened(x) \in Seq(T)
    <3>1. CASE Len(x) < CommitSize
      <4>1. CobbleOpened(x) = <<>>
        BY <3>1 DEF CobbleOpened
      <4> QED BY <4>1
    <3>2. CASE ~(Len(x) < CommitSize)
      <4>1. b \in Seq(S)
        <5>1. CommitSize <= Len(x)
          BY <3>2, <1>0
        <5> QED BY <5>1, <1>0, HeadStays DEF CobbleBody
      <4> HIDE DEF b
      <4>2. b \in Seq(S) /\ OpenCount(TagSize, b) \in Nat /\ OpenCount(TagSize, b) * FrameSize <= Len(b)
        BY <4>1, <1>0, OpenRestIs
      <4>3. FrameIsOf(T, OpenSofar(TagSize, b))
        BY <4>2, OpenFramesType DEF OpenSofar
      <4>4. CobbleOpened(x) = OpenSofar(TagSize, b).out
        BY <3>2 DEF CobbleOpened, b
      <4> QED BY <4>3, <4>4 DEF FrameIsOf
    <3> QED BY <3>1, <3>2
  <2>3. r.ok = TRUE /\ r.state = s /\ r.out = <<>>
    <3> HIDE DEF s, r
    <3> QED BY ONLY <2>1 DEF Emit
  <2>4. CobbleOpened(x) \o <<>> = CobbleOpened(x)
    BY <2>2
  <2>5. s = CobbleOpening(z) /\ CobbleCan(z) /\ CobbleOpened(z) = CobbleOpened(x)
    BY <2>1
  <2>6. <<>> \in Seq(T)
    OBVIOUS
  <2> HIDE DEF s, r, z
  <2> QED BY <2>3, <2>4, <2>5, <2>6 DEF GoesOn
<1>2. ASSUME e # <<>>, Len(x) < CommitSize, Len(z) < CommitSize
      PROVE  GoesOn(T, r, CobbleCan(z), CobbleOpening(z), CobbleOpened(x), CobbleOpened(z))
  <2>1. s = [buffer |-> x, index |-> 0, header |-> FALSE] /\ s.buffer = x /\ s.header = FALSE
    BY <1>2 DEF CobbleOpening
  <2>2. r = Emit([s EXCEPT !.buffer = z], <<>>)
    <3>1. ~(s.header \/ Len(s.buffer \o e) >= CommitSize)
      BY <1>2, <1>0, <2>1
    <3> HIDE DEF s
    <3> QED BY <1>2, <2>1, <3>1 DEF CobbleDecryptUpdate
  <2>3. [s EXCEPT !.buffer = z] = CobbleOpening(z)
    <3>1. CobbleOpening(z) = [buffer |-> z, index |-> 0, header |-> FALSE]
      BY <1>2 DEF CobbleOpening
    <3> HIDE DEF s, z
    <3>2. [s EXCEPT !.buffer = z] \in [buffer : {z}, index : {0}, header : {FALSE}]
      BY ONLY <2>1
    <3> DEFINE t == [s EXCEPT !.buffer = z]
    <3>3. t \in [buffer : {z}, index : {0}, header : {FALSE}]
      BY <3>2
    <3> HIDE DEF t
    <3>4. t = [buffer |-> z, index |-> 0, header |-> FALSE]
      BY ONLY <3>3
    <3> QED BY <3>1, <3>4 DEF t
  <2>4. r.ok = TRUE /\ r.state = CobbleOpening(z) /\ r.out = <<>>
    <3> DEFINE w == CobbleOpening(z)
    <3>1. r = Emit(w, <<>>)
      BY <2>2, <2>3
    <3> HIDE DEF w, r
    <3>2. r.ok = TRUE /\ r.state = w /\ r.out = <<>>
      BY ONLY <3>1 DEF Emit
    <3> QED BY <3>2 DEF w
  <2>5. CobbleOpened(x) = <<>> /\ CobbleOpened(z) = <<>> /\ CobbleCan(z)
    BY <1>2 DEF CobbleOpened, CobbleCan
  <2>6. <<>> \o <<>> = <<>> /\ <<>> \in Seq(T)
    OBVIOUS
  <2> HIDE DEF s, r, z
  <2> QED BY <2>4, <2>5, <2>6 DEF GoesOn
\* The rest of what a chunk does once the commitment is there: a body y, whose frames are opened from number i on.
<1> DEFINE y    == IF s.header THEN s.buffer \o e ELSE After(s.buffer \o e, CommitSize)
           n    == Frames(Len(y), FrameSize, TagSize)
           g    == OpenFrames(s.index, n, y)
           bad  == (~s.header /\ First(z, CommitSize) # Commitment) \/ ~g.ok
           w    == [buffer |-> After(y, n * FrameSize), index |-> s.index + n, header |-> TRUE]
<1>3. ASSUME e # <<>>, ~(Len(z) < CommitSize),
             bad => ~CobbleCan(z),
             ~bad => /\ CobbleCan(z) /\ CobbleOpening(z) = w /\ CobbleOpened(x) \o g.out = CobbleOpened(z)
                     /\ g.out \in Seq(T),
             s.header \/ s.buffer = x
      PROVE  GoesOn(T, r, CobbleCan(z), CobbleOpening(z), CobbleOpened(x), CobbleOpened(z))
  <2>1. s.header \/ Len(s.buffer \o e) >= CommitSize
    BY <1>3, <1>0
  <2>2. bad = ((~s.header /\ First(s.buffer \o e, CommitSize) # Commitment) \/ ~g.ok)
    BY <1>3
  <2>3. r = IF bad THEN Throw(s) ELSE Emit(w, g.out)
    <3> HIDE DEF bad
    <3>1. r = IF ((~s.header /\ First(s.buffer \o e, CommitSize) # Commitment) \/ ~g.ok) THEN Throw(s) ELSE Emit(w, g.out)
      BY <1>3, <2>1 DEF CobbleDecryptUpdate
    <3> QED BY <2>2, <3>1
  <2> HIDE DEF bad, w, s, r, g, z
  <2>4. CASE bad
    <3>1. r = Throw(s)
      BY <2>3, <2>4
    <3>2. r.ok = FALSE /\ r.out = <<>>
      BY ONLY <3>1 DEF Throw
    <3> QED BY <2>4, <3>2, <1>3 DEF GoesOn
  <2>5. CASE ~bad
    <3> DEFINE o == g.out
    <3>1. r = Emit(w, o)
      BY <2>3, <2>5
    <3> HIDE DEF o
    <3>2. r.ok = TRUE /\ r.state = w /\ r.out = o
      BY ONLY <3>1 DEF Emit
    <3> QED BY <2>5, <3>2, <1>3 DEF GoesOn, o
  <2> QED BY <2>4, <2>5
<1>4. ASSUME e # <<>>, Len(x) < CommitSize, ~(Len(z) < CommitSize)
      PROVE  GoesOn(T, r, CobbleCan(z), CobbleOpening(z), CobbleOpened(x), CobbleOpened(z))
  <2>1. s.buffer = x /\ s.header = FALSE /\ s.index = 0
    BY <1>4 DEF CobbleOpening
  <2>2. y = d
    BY <2>1 DEF CobbleBody
  <2>3. n = OpenCount(TagSize, d) /\ g = OpenSofar(TagSize, d)
    BY <2>1, <2>2 DEF OpenCount, OpenSofar
  <2>4. d \in Seq(S)
    <3>1. CommitSize <= Len(z)
      BY <1>4, <1>0
    <3> QED BY <3>1, <1>0 DEF CobbleBody, After
  <2>5. FrameIsOf(T, g) /\ n \in Nat
    <3> HIDE DEF d
    <3>1. d \in Seq(S) /\ OpenCount(TagSize, d) \in Nat /\ OpenCount(TagSize, d) * FrameSize <= Len(d)
      BY <2>4, <1>0, OpenRestIs
    <3>2. FrameIsOf(T, OpenSofar(TagSize, d))
      BY <3>1, OpenFramesType DEF OpenSofar
    <3> QED BY <2>3, <3>1, <3>2
  <2>6. CobbleCan(z) <=> (First(z, CommitSize) = Commitment /\ OpenSofar(TagSize, d).ok)
    BY <1>4 DEF CobbleCan
  <2>7. CobbleOpening(z) = [buffer |-> OpenRest(TagSize, d), index |-> OpenCount(TagSize, d), header |-> TRUE]
    BY <1>4 DEF CobbleOpening
  <2>8. CobbleOpened(x) = <<>> /\ CobbleOpened(z) = OpenSofar(TagSize, d).out
    BY <1>4 DEF CobbleOpened
  <2>9. w = [buffer |-> OpenRest(TagSize, d), index |-> OpenCount(TagSize, d), header |-> TRUE]
    <3>1. After(y, n * FrameSize) = OpenRest(TagSize, d)
      BY <2>2, <2>3 DEF OpenRest
    <3>2. s.index + n = OpenCount(TagSize, d)
      <4> HIDE DEF s, n, d
      <4> QED BY <2>1, <2>3, <2>5
    <3> QED BY <3>1, <3>2
  <2> HIDE DEF w, g, y, n, s, d, z, r
  <2>10. bad <=> ~CobbleCan(z)
    BY <2>1, <2>3, <2>6
  <2>11. <<>> \o g.out = g.out
    BY <2>5 DEF FrameIsOf
  <2>12. CobbleOpened(x) \o g.out = CobbleOpened(z)
    BY <2>3, <2>8, <2>11
  <2> HIDE DEF bad
  <2>13. g.out \in Seq(T)
    BY <2>5 DEF FrameIsOf
  <2> QED BY <1>3, <1>4, <2>1, <2>7, <2>9, <2>10, <2>12, <2>13
<1>5. ASSUME e # <<>>, ~(Len(x) < CommitSize)
      PROVE  GoesOn(T, r, CobbleCan(z), CobbleOpening(z), CobbleOpened(x), CobbleOpened(z))
  <2>1. s.buffer = OpenRest(TagSize, b) /\ s.header = TRUE /\ s.index = OpenCount(TagSize, b)
    BY <1>5 DEF CobbleOpening
  <2>2. y = OpenRest(TagSize, b) \o e
    BY <2>1
  <2>3. b \in Seq(S) /\ d = b \o e /\ First(z, CommitSize) = First(x, CommitSize) /\ ~(Len(z) < CommitSize)
    <3>1. CommitSize <= Len(x)
      BY <1>5, <1>0
    <3> QED BY <3>1, <1>0, HeadStays DEF CobbleBody
  <2>4. BodyOn(T, TagSize, b, e, y, n)
    <3>1. /\ Readable(S, T) /\ b \in Seq(S) /\ e \in Seq(S) /\ TagSize \in Nat
          /\ y = OpenRest(TagSize, b) \o e /\ n = Frames(Len(y), FrameSize, TagSize)
      BY <2>2, <2>3, <1>0
    <3> HIDE DEF b, y, n
    <3> QED BY ONLY <3>1, BodyGoesOn
  <2>5. First(x, CommitSize) = Commitment /\ OpenSofar(TagSize, b).ok
    BY <1>5 DEF CobbleCan
  <2>6. CobbleCan(z) <=> (First(z, CommitSize) = Commitment /\ OpenSofar(TagSize, d).ok)
    BY <2>3 DEF CobbleCan
  <2>7. CobbleOpening(z) = [buffer |-> OpenRest(TagSize, d), index |-> OpenCount(TagSize, d), header |-> TRUE]
    BY <2>3 DEF CobbleOpening
  <2>8. CobbleOpened(x) = OpenSofar(TagSize, b).out /\ CobbleOpened(z) = OpenSofar(TagSize, d).out
    BY <1>5, <2>3 DEF CobbleOpened
  <2> DEFINE f == OpenSofar(TagSize, b)
             h == OpenSofar(TagSize, d)
  <2>9. /\ s.index + n = OpenCount(TagSize, d) /\ After(y, n * FrameSize) = OpenRest(TagSize, d)
        /\ h = OpenJoin(f, g) /\ f.ok \in BOOLEAN /\ g.ok \in BOOLEAN /\ g.out \in Seq(T)
    BY <2>1, <2>3, <2>4 DEF BodyOn, FrameIsOf
  <2>10. w = CobbleOpening(z)
    BY <2>7, <2>9
  <2> HIDE DEF w, g, y, n, s, d, z, r, b, f, h
  <2>11. /\ f.ok /\ g.ok => h.ok = TRUE /\ h.out = f.out \o g.out
         /\ ~(f.ok /\ g.ok) => h.ok = FALSE
    BY ONLY <2>9, OpenJoinIs
  <2>12. f.ok
    BY <2>5 DEF f
  <2>13. bad <=> ~CobbleCan(z)
    BY <2>1, <2>3, <2>5, <2>6, <2>11, <2>12, <2>9 DEF h
  <2>14. ~bad => CobbleOpened(x) \o g.out = CobbleOpened(z)
    BY <2>1, <2>8, <2>11, <2>12 DEF f, h
  <2> HIDE DEF bad
  <2> QED BY <1>3, <1>5, <2>1, <2>3, <2>9, <2>10, <2>13, <2>14
<1> QED BY <1>1, <1>2, <1>4, <1>5

\* What a stream ends with: what came out, and what its end adds, or a refusal.
Entire(can, out, last) == IF can /\ last.ok THEN Opened(out \o last.out) ELSE Unopened

LEMMA CobbleEncrypts ==
  ASSUME NEW B, NEW x \in Seq(B)
  PROVE  CobbleEncrypt(x) = Entire(TRUE, SealedAs(Commitment, 0, x), CobbleEncryptFinish(CobbleSealing(x)))
<1> DEFINE i == SealCount(0, x)
           H == Sealing(B)
           pre == Commitment
           f == SealFrames(0, i, x)
           q == SealRest(0, x)
           v == Seal(i, FALSE, q)
           h == CobbleHeader(CobbleSealing(x))
           last == CobbleEncryptFinish(CobbleSealing(x))
<1>1. Len(x) \div ChunkSize = i
  <2>1. ~(Len(x) < 0) /\ Len(x) - 0 = Len(x)
    OBVIOUS
  <2> QED BY <2>1 DEF SealCount, Frames
<1>2. CobbleEncrypt(x) = Opened((pre \o f) \o v)
  BY <1>1 DEF CobbleEncrypt, SealRest
<1>3. h = IF x # <<>> THEN <<>> ELSE pre
  BY DEF CobbleHeader, CobbleSealing
<1>4. last = Opened(h \o v)
  BY DEF CobbleEncryptFinish, CobbleSealing
<1>5. last.ok = TRUE /\ last.out = h \o v
  <2> HIDE DEF last, h, v
  <2> QED BY ONLY <1>4 DEF Opened
<1>6. pre \in Seq(H) /\ f \in Seq(H) /\ v \in Seq(H) /\ (x = <<>> => f = <<>>)
  <2>1. pre \in Seq(H)
    BY PrefacesAre
  <2>2. i \in Nat /\ q \in Seq(B)
    BY <2>1, SealedType
  <2>3. v \in Seq(H)
    BY <2>2, SealIs
  <2>4. i * ChunkSize <= Len(x)
    <3>1. Len(x) \in Nat /\ 0 \in Nat
      OBVIOUS
    <3>2. i * ChunkSize + 0 <= Len(x) /\ i * ChunkSize \in Nat
      <4>1. ChunkSize \in Nat \ {0} /\ i = Frames(Len(x), ChunkSize, 0)
        BY SizesAre DEF SealCount
      <4>2. Len(x) >= 0
        BY <3>1
      <4> HIDE DEF i
      <4> QED BY ONLY <3>1, <4>1, <4>2, FramesAre
    <3> HIDE DEF i
    <3> QED BY <3>2
  <2>5. f \in Seq(H) /\ Len(f) = i * FrameSize
    BY <2>2, <2>4, FramesSealed
  <2>6. x = <<>> => i * FrameSize = 0
    <3>1. x = <<>> => i = 0
      BY SealsNothing
    <3>2. 0 * FrameSize = 0
      BY SizesAre
    <3> QED BY <3>1, <3>2
  <2>7. x = <<>> => f = <<>>
    <3> HIDE DEF f, i
    <3> QED BY <2>5, <2>6
  <2> QED BY <2>1, <2>3, <2>5, <2>7
<1>7. SealedAs(pre, 0, x) = IF x = <<>> THEN <<>> ELSE pre \o f
  BY DEF SealedAs
<1> HIDE DEF i, H, pre, f, q, v, h, last
<1>8. SealedAs(pre, 0, x) \o (h \o v) = (pre \o f) \o v
  <2>1. CASE x = <<>>
    <3>1. SealedAs(pre, 0, x) = <<>> /\ h = pre /\ f = <<>>
      BY <2>1, <1>3, <1>6, <1>7
    <3>2. <<>> \o (pre \o v) = (pre \o <<>>) \o v
      BY <1>6
    <3> QED BY <3>1, <3>2
  <2>2. CASE x # <<>>
    <3>1. SealedAs(pre, 0, x) = pre \o f /\ h = <<>>
      BY <2>2, <1>3, <1>7
    <3>2. <<>> \o v = v
      BY <1>6
    <3> QED BY <3>1, <3>2
  <2> QED BY <2>1, <2>2
<1>9. Entire(TRUE, SealedAs(pre, 0, x), last) = Opened((pre \o f) \o v)
  BY <1>5, <1>8 DEF Entire
<1> QED BY <1>2, <1>9 DEF pre, last

LEMMA CobbleDecrypts ==
  ASSUME NEW S, NEW x \in Seq(S)
  PROVE  CobbleDecrypt(x) = Entire(CobbleCan(x), CobbleOpened(x), CobbleDecryptFinish(CobbleOpening(x)))
<1> DEFINE b == CobbleBody(x)
           L == Len(b)
           full == L \div FrameSize
           plain == OpenFrames(0, full, b)
           final == Open(full, FALSE, After(b, full * FrameSize))
           s == CobbleOpening(x)
           last == CobbleDecryptFinish(s)
           i == OpenCount(TagSize, b)
           w == OpenRest(TagSize, b)
           bad == \/ Len(x) < CommitSize + TagSize
                  \/ First(x, CommitSize) # Commitment
                  \/ L % FrameSize < TagSize
                  \/ ~plain.ok \/ ~final.ok
<1>0. CobbleDecrypt(x) = IF bad THEN Unopened ELSE Opened(plain.out \o final.out)
  BY DEF CobbleDecrypt, CobbleBody
<1>1. Len(x) \in Nat /\ CommitSize \in Nat /\ TagSize \in Nat /\ FrameSize \in Nat /\ TagSize < FrameSize /\ Unopened.ok = FALSE
  BY SizesAre DEF Unopened
<1>2. last = IF ~s.header \/ Len(s.buffer) \notin TagSize .. FrameSize - 1 THEN Unopened ELSE Open(s.index, FALSE, s.buffer)
  BY DEF CobbleDecryptFinish
<1>3. CASE Len(x) < CommitSize
  <2>1. s.header = FALSE
    BY <1>3 DEF CobbleOpening
  <2>2. last = Unopened /\ bad
    <3>1. Len(x) < CommitSize + TagSize
      BY <1>1, <1>3
    <3> HIDE DEF s, last, L, plain, final
    <3> QED BY <2>1, <1>2, <3>1
  <2> HIDE DEF last, bad, s
  <2> QED BY <2>2, <1>0, <1>1 DEF Entire, s, last
<1>4. CASE ~(Len(x) < CommitSize)
  <2>1. b \in Seq(S) /\ L = Len(x) - CommitSize /\ L \in Nat
    <3>1. CommitSize <= Len(x)
      BY <1>1, <1>4
    <3> QED BY <3>1, <1>1 DEF CobbleBody, After
  <2>2. s.header = TRUE /\ s.index = i /\ s.buffer = w
    BY <1>4 DEF CobbleOpening
  <2>3. CobbleCan(x) <=> (First(x, CommitSize) = Commitment /\ OpenSofar(TagSize, b).ok)
    BY <1>4 DEF CobbleCan
  <2>4. CobbleOpened(x) = OpenSofar(TagSize, b).out
    BY <1>4 DEF CobbleOpened
  <2>5. last = IF Len(w) \notin TagSize .. FrameSize - 1 THEN Unopened ELSE Open(i, FALSE, w)
    <3> HIDE DEF s, last, i, w
    <3> QED BY <1>2, <2>2
  <2> DEFINE p == i * FrameSize
  <2>6. /\ i \in Nat /\ p \in Nat /\ p <= L /\ Len(w) = L - p /\ w = After(b, p)
        /\ L < TagSize => i = 0
        /\ L >= TagSize => L - p >= TagSize
        /\ L - p < FrameSize + TagSize
    <3>1. /\ i \in Nat /\ p \in Nat /\ p <= L /\ w \in Seq(S) /\ Len(w) = L - p
          /\ Len(w) < FrameSize + TagSize /\ (L < TagSize => i = 0) /\ (L >= TagSize => Len(w) >= TagSize)
      <4> HIDE DEF b
      <4> QED BY <2>1, <1>1, OpenRestIs
    <3>2. w = After(b, p)
      BY DEF OpenRest
    <3> HIDE DEF w, p, i, L
    <3> QED BY <3>1, <3>2
  <2>7. CASE L < TagSize
    <3>1. bad
      <4> HIDE DEF L, plain, final
      <4> QED BY <2>1, <2>7, <1>1
    <3>2. Len(w) < TagSize
      <4> HIDE DEF w, p, L
      <4> QED BY <2>6, <2>7, <2>1, <1>1
    <3>3. last = Unopened
      <4>1. Len(w) \notin TagSize .. FrameSize - 1
        <5> HIDE DEF w
        <5> QED BY <3>2, <1>1
      <4> HIDE DEF w, last
      <4> QED BY <4>1, <2>5
    <3> HIDE DEF bad, last
    <3> QED BY <1>0, <1>1, <3>1, <3>3 DEF Entire, last
  <2>8. CASE L >= TagSize /\ L - p < FrameSize
    <3>1. full = i /\ L % FrameSize = L - p
      <4> DEFINE r == L - p
      <4>1. r \in 0 .. FrameSize - 1 /\ L = p + r
        <5> HIDE DEF L, p
        <5> QED BY <2>1, <2>6, <2>8, <1>1
      <4>2. i \in Nat /\ FrameSize \in Nat \ {0}
        BY <2>6, SizesAre
      <4> HIDE DEF r, L, i
      <4>3. (i * FrameSize + r) \div FrameSize = i /\ (i * FrameSize + r) % FrameSize = r
        BY <4>1, <4>2, DivIs
      <4> QED BY <4>1, <4>3 DEF r
    <3>2. plain = OpenSofar(TagSize, b) /\ final = Open(i, FALSE, w)
      <4>1. OpenSofar(TagSize, b) = OpenFrames(0, i, b)
        BY DEF OpenSofar
      <4>2. w = After(b, i * FrameSize)
        BY <2>6
      <4> HIDE DEF i, w, full, b
      <4> QED BY <3>1, <4>1, <4>2
    <3>3. last = final
      <4>1. Len(w) \in TagSize .. FrameSize - 1
        <5> HIDE DEF L, p, w
        <5> QED BY <2>1, <2>6, <2>8, <1>1
      <4> HIDE DEF w, last, final, i
      <4> QED BY <2>5, <3>2, <4>1
    <3>4. bad <=> (First(x, CommitSize) # Commitment \/ ~plain.ok \/ ~final.ok)
      <4>1. ~(Len(x) < CommitSize + TagSize) /\ ~(L % FrameSize < TagSize)
        <5>1. L - p >= TagSize /\ L % FrameSize = L - p
          BY <2>6, <2>8, <3>1
        <5> DEFINE r == L - p
                   m == L % FrameSize
        <5>2. r \in Int /\ m = r /\ r >= TagSize
          <6>1. p \in Nat /\ L \in Nat
            BY <2>1, <2>6
          <6> HIDE DEF L, p
          <6> QED BY <5>1, <6>1
        <5> HIDE DEF r, m, p
        <5>3. ~(m < TagSize)
          BY <5>2, <1>1
        <5>4. ~(Len(x) < CommitSize + TagSize)
          <6> HIDE DEF L
          <6> QED BY <2>1, <2>8, <1>1
        <5> QED BY <5>3, <5>4 DEF m
      <4> HIDE DEF plain, final, L
      <4> QED BY <4>1
    <3> HIDE DEF bad, plain, final, last, b, i, w
    <3> QED BY <1>0, <2>3, <2>4, <3>2, <3>3, <3>4 DEF Entire, last, s
  <2>9. CASE L >= TagSize /\ ~(L - p < FrameSize)
    <3>1. last = Unopened
      <4>1. Len(w) \notin TagSize .. FrameSize - 1
        <5> HIDE DEF L, p, w
        <5> QED BY <2>1, <2>6, <2>9, <1>1
      <4> HIDE DEF w, last
      <4> QED BY <2>5, <4>1
    <3>2. L % FrameSize < TagSize
      <4> DEFINE j == i + 1
                 r == L - p - FrameSize
      <4>1. j * FrameSize = p + FrameSize
        <5>1. i \in Nat /\ 1 \in Nat /\ FrameSize \in Nat /\ 1 * FrameSize = FrameSize
          BY <2>6, <1>1
        <5> HIDE DEF i
        <5> QED BY <5>1, Distributes
      <4>2. r \in 0 .. FrameSize - 1 /\ L = p + FrameSize + r /\ r < TagSize
        <5> HIDE DEF L, p
        <5> QED BY <2>1, <2>6, <2>9, <1>1
      <4>3. j \in Nat /\ FrameSize \in Nat \ {0}
        BY <2>6, SizesAre
      <4> HIDE DEF r, L, j, p
      <4>4. (j * FrameSize + r) % FrameSize = r
        BY <4>2, <4>3, DivIs
      <4> QED BY <4>1, <4>2, <4>4
    <3>3. bad
      <4> HIDE DEF plain, final, L
      <4> QED BY <3>2
    <3> HIDE DEF bad, last
    <3> QED BY <1>0, <1>1, <3>1, <3>3 DEF Entire, last
  <2> QED BY <2>7, <2>8, <2>9, <2>1, <1>1
<1> QED BY <1>3, <1>4

-----------------------------------------------------------------------------
(* age. *)

\* Where a header could end, and where it does.
AgeEnds(x) == {i \in DOMAIN x : x[i] = <<"h", HeaderSize>>}
AgeEnd(x)  == CHOOSE i \in AgeEnds(x) : \A j \in AgeEnds(x) : i <= j

Headed(x)  == HeaderSize <= Len(x) /\ First(x, HeaderSize) = Header
BadHead(x) == IF AgeEnds(x) = {} THEN Len(x) > MaxHeader ELSE ~Headed(x)

LEMMA HeadIs ==
  ASSUME NEW S, NEW x \in Seq(S)
  PROVE  /\ Headed(x) => AgeEnds(x) # {} /\ AgeEnd(x) = HeaderSize
         /\ AgeEnds(x) # {} => /\ AgeEnd(x) \in 1 .. Len(x)
                               /\ (AgeEnd(x) > MaxHeader \/ First(x, AgeEnd(x)) # Header) <=> ~Headed(x)
         /\ BadHead(x) => ~Headed(x)
         /\ ~Headed(x) /\ ~BadHead(x) => AgeEnds(x) = {} /\ Len(x) <= MaxHeader
<1> DEFINE E == AgeEnds(x)
           m == AgeEnd(x)
<1>0. E \in SUBSET (1 .. Len(x)) /\ Len(x) \in Nat /\ E \in SUBSET Nat
  BY DEF AgeEnds
<1>1. E # {} => m \in E /\ \A j \in E : m <= j
  <2>1. E # {} => \E i \in E : \A j \in E : i <= j
    BY <1>0, LeastIs
  <2> QED BY <2>1 DEF AgeEnd
<1>2. ASSUME Headed(x)
      PROVE  HeaderSize \in E /\ \A j \in E : HeaderSize <= j
  <2>1. \A j \in 1 .. HeaderSize : x[j] = <<"h", j>>
    <3> TAKE j \in 1 .. HeaderSize
    <3>1. First(x, HeaderSize)[j] = x[j]
      <4>1. HeaderSize \in Nat /\ HeaderSize <= Len(x)
        BY <1>2, SizesAre DEF Headed
      <4> QED BY <4>1 DEF First
    <3>2. Header[j] = <<"h", j>>
      BY DEF Header
    <3> QED BY <3>1, <3>2, <1>2 DEF Headed
  <2>2. HeaderSize \in 1 .. HeaderSize /\ HeaderSize \in 1 .. Len(x)
    BY <1>0, <1>2, SizesAre DEF Headed
  <2>3. x[HeaderSize] = <<"h", HeaderSize>>
    BY <2>1, <2>2
  <2>4. HeaderSize \in E
    BY <2>2, <2>3 DEF AgeEnds
  <2>5. ASSUME NEW j \in E, ~(HeaderSize <= j)
        PROVE  FALSE
    <3>1. j \in 1 .. HeaderSize /\ j # HeaderSize
      BY <2>5, <1>0, <2>2
    <3>2. x[j] = <<"h", j>> /\ x[j] = <<"h", HeaderSize>>
      BY <2>1, <2>5, <3>1 DEF AgeEnds
    <3>3. <<"h", j>> # <<"h", HeaderSize>>
      BY <3>1
    <3> QED BY <3>2, <3>3
  <2> QED BY <2>4, <2>5
<1> HIDE DEF E, m
<1>3. Headed(x) => E # {} /\ m = HeaderSize
  <2> SUFFICES ASSUME Headed(x)  PROVE E # {} /\ m = HeaderSize
    OBVIOUS
  <2>1. m \in E /\ HeaderSize \in E /\ m <= HeaderSize /\ HeaderSize <= m
    BY <1>1, <1>2
  <2>2. m \in Nat /\ HeaderSize \in Nat
    BY <2>1, <1>0
  <2> QED BY <2>1, <2>2
<1>4. ASSUME E # {}
      PROVE  m \in 1 .. Len(x) /\ ((m > MaxHeader \/ First(x, m) # Header) <=> ~Headed(x))
  <2>1. m \in 1 .. Len(x)
    BY <1>0, <1>1, <1>4
  <2>2. Headed(x) => ~(m > MaxHeader \/ First(x, m) # Header)
    <3>1. HeaderSize <= MaxHeader /\ HeaderSize \in Nat /\ MaxHeader \in Nat
      BY SizesAre
    <3> QED BY <3>1, <1>3 DEF Headed
  <2>3. ASSUME First(x, m) = Header
        PROVE  Headed(x)
    <3>1. Len(First(x, m)) = m
      BY <2>1, <1>0 DEF First
    <3>2. Len(Header) = HeaderSize
      BY PrefacesAre
    <3>3. m = HeaderSize
      BY <2>3, <3>1, <3>2
    <3>4. HeaderSize <= Len(x)
      BY <2>1, <3>3
    <3> QED BY <2>3, <3>3, <3>4 DEF Headed
  <2> QED BY <2>1, <2>2, <2>3
<1>5. BadHead(x) => ~Headed(x)
  BY <1>3 DEF BadHead, E
<1>6. ~Headed(x) /\ ~BadHead(x) => E = {} /\ Len(x) <= MaxHeader
  BY <1>0, SizesAre DEF BadHead, E
<1> QED BY <1>3, <1>4, <1>5, <1>6 DEF E, m

\* What was read of a header stays read, and a bad one bad.
LEMMA HeadGoesOn ==
  ASSUME NEW S, NEW x \in Seq(S), NEW e \in Seq(S)
  PROVE  /\ Headed(x) => Headed(x \o e)
         /\ BadHead(x) => BadHead(x \o e)
<1> DEFINE z == x \o e
<1>0. z \in Seq(S) /\ Len(z) = Len(x) + Len(e) /\ Len(x) \in Nat /\ Len(e) \in Nat /\ HeaderSize \in Nat /\ MaxHeader \in Nat /\ HeaderSize <= MaxHeader
  BY SizesAre
<1>1. HeaderSize <= Len(x) => (Headed(z) <=> Headed(x))
  <2> SUFFICES ASSUME HeaderSize <= Len(x)  PROVE Headed(z) <=> Headed(x)
    OBVIOUS
  <2>1. First(z, HeaderSize) = First(x, HeaderSize)
    BY <1>0, HeadStays
  <2>2. HeaderSize <= Len(z)
    <3> HIDE DEF z
    <3> QED BY <1>0
  <2> QED BY <2>1, <2>2 DEF Headed
<1>2. Headed(x) => Headed(z)
  BY <1>1 DEF Headed
<1>3. ASSUME BadHead(x)
      PROVE  BadHead(z)
  <2>1. \A i \in 1 .. Len(x) : i \in DOMAIN z /\ z[i] = x[i]
    BY <1>0
  <2>2. AgeEnds(x) # {} => AgeEnds(z) # {}
    BY <2>1 DEF AgeEnds
  <2> HIDE DEF z
  <2>3. CASE HeaderSize <= Len(x)
    <3>1. ~Headed(x)
      BY <1>3, HeadIs
    <3>2. ~Headed(z)
      BY <2>3, <3>1, <1>1
    <3>3. AgeEnds(z) = {} => Len(z) > MaxHeader
      <4>1. AgeEnds(z) = {} => Len(x) > MaxHeader
        BY <2>2, <1>3 DEF BadHead
      <4> QED BY <4>1, <1>0
    <3> QED BY <3>2, <3>3 DEF BadHead
  <2>4. CASE ~(HeaderSize <= Len(x))
    <3>1. AgeEnds(x) # {}
      BY <2>4, <1>0, <1>3 DEF BadHead
    <3>2. ~Headed(z)
      <4> SUFFICES ASSUME Headed(z)  PROVE FALSE
        OBVIOUS
      <4>1. AgeEnd(z) = HeaderSize /\ AgeEnds(z) # {}
        BY <1>0, HeadIs
      <4>2. PICK i \in AgeEnds(x) : TRUE
        BY <3>1
      <4>3. i \in 1 .. Len(x) /\ i \in AgeEnds(z)
        BY <4>2, <2>1 DEF AgeEnds
      <4>4. \A j \in AgeEnds(z) : HeaderSize <= j
        <5>1. AgeEnds(z) \in SUBSET Nat
          BY <1>0 DEF AgeEnds
        <5>2. \E k \in AgeEnds(z) : \A j \in AgeEnds(z) : k <= j
          BY <5>1, <4>1, LeastIs
        <5>3. \A j \in AgeEnds(z) : AgeEnd(z) <= j
          BY <5>2 DEF AgeEnd
        <5> QED BY <5>3, <4>1
      <4> QED BY <4>3, <4>4, <2>4, <1>0
    <3> QED BY <2>2, <3>1, <3>2 DEF BadHead
  <2> QED BY <2>3, <2>4
<1> QED BY <1>2, <1>3

\* What a decryption that has read x stands at: the header read or not, the
\* nonce behind it, and of the frames behind both all but what is kept.
AgeBodied(x) == Headed(x) /\ Len(x) >= HeaderSize + NonceSize
AgeBehind(x) == After(x, HeaderSize)
AgeBody(x)   == After(AgeBehind(x), NonceSize)
AgeKeyed(x)  == First(AgeBehind(x), NonceSize) = Nonce

\* Before the frames are looked at, and after.
AgeEntered(x) ==
  IF ~Headed(x) THEN AgeState(x, 0, FALSE, FALSE, FALSE, FALSE)
  ELSE IF ~AgeBodied(x) THEN AgeState(AgeBehind(x), 0, TRUE, FALSE, FALSE, FALSE)
  ELSE AgeState(AgeBody(x), 0, TRUE, TRUE, AgeKeyed(x), FALSE)

AgeOpening(x) ==
  IF ~AgeBodied(x) THEN AgeEntered(x)
  ELSE AgeState(OpenRest(1, AgeBody(x)), OpenCount(1, AgeBody(x)), TRUE, TRUE, AgeKeyed(x), FALSE)

\* Frames are opened only with the key, and no more than there are numbers.
AgeFramed(x) == AgeKeyed(x) /\ OpenSofar(1, AgeBody(x)).ok /\ OpenCount(1, AgeBody(x)) <= MaxChunkIndex

AgeCan(x) == ~BadHead(x) /\ (AgeBodied(x) /\ OpenCount(1, AgeBody(x)) # 0 => AgeFramed(x))

AgeOpened(x) == IF AgeBodied(x) THEN OpenSofar(1, AgeBody(x)).out ELSE <<>>

\* The first part of processPreamble, and the whole.
AgeHeaded(s) ==
  IF s.header THEN Emit(s, <<>>)
  ELSE IF AgeEnds(s.buffer) = {} THEN IF Len(s.buffer) > MaxHeader THEN Throw(s) ELSE Emit(s, <<>>)
  ELSE IF AgeEnd(s.buffer) > MaxHeader \/ First(s.buffer, AgeEnd(s.buffer)) # Header THEN Throw(s)
  ELSE Emit([s EXCEPT !.buffer = After(@, AgeEnd(s.buffer)), !.header = TRUE], <<>>)

AgeNonced(h) ==
  LET t == h.state
  IN IF ~h.ok \/ ~t.header \/ t.nonce \/ Len(t.buffer) < NonceSize THEN h
     ELSE Emit([t EXCEPT !.buffer = After(@, NonceSize), !.nonce = TRUE,
                         !.keyed = First(t.buffer, NonceSize) = Nonce], <<>>)

LEMMA AgePreambleIs == ASSUME NEW s  PROVE AgePreamble(s) = AgeNonced(AgeHeaded(s))
BY DEF AgePreamble, AgeHeaded, AgeNonced, AgeEnds, AgeEnd

\* The nonce is read as soon as it is there.
LEMMA AgeNonces ==
  ASSUME NEW s, NEW w, NEW h,
         AgeHeaded(s) = Emit(h, <<>>), h = AgeState(w, 0, TRUE, FALSE, FALSE, FALSE)
  PROVE  AgePreamble(s) =
           Emit(IF Len(w) < NonceSize THEN h
                ELSE AgeState(After(w, NonceSize), 0, TRUE, TRUE, First(w, NonceSize) = Nonce, FALSE), <<>>)
<1> DEFINE a == AgeHeaded(s)
           p == After(w, NonceSize)
           k == First(w, NonceSize) = Nonce
           g == [h EXCEPT !.buffer = After(@, NonceSize), !.nonce = TRUE, !.keyed = First(h.buffer, NonceSize) = Nonce]
<1>1. a = Emit(h, <<>>)
  OBVIOUS
<1>2. a.ok = TRUE /\ a.state = h
  <2> HIDE DEF a
  <2> QED BY ONLY <1>1 DEF Emit
<1>3. h.buffer = w /\ h.index = 0 /\ h.header = TRUE /\ h.nonce = FALSE /\ h.keyed = FALSE /\ h.failed = FALSE
  BY DEF AgeState
<1>4. AgePreamble(s) = IF ~a.ok \/ ~h.header \/ h.nonce \/ Len(h.buffer) < NonceSize THEN a ELSE Emit(g, <<>>)
  <2>1. AgePreamble(s) = AgeNonced(a)
    BY AgePreambleIs
  <2> HIDE DEF a
  <2> QED BY <2>1, <1>2 DEF AgeNonced
<1>5. g = AgeState(p, 0, TRUE, TRUE, k, FALSE)
  <2>1. h.buffer = w
    BY <1>3
  <2>2. g = [h EXCEPT !.buffer = p, !.nonce = TRUE, !.keyed = k]
    BY <2>1
  <2> HIDE DEF p, k
  <2>3. [h EXCEPT !.buffer = p, !.nonce = TRUE, !.keyed = k]
        \in [buffer : {p}, index : {0}, header : {TRUE}, nonce : {TRUE}, keyed : {k}, failed : {FALSE}]
    BY DEF AgeState
  <2> HIDE DEF g
  <2>4. g \in [buffer : {p}, index : {0}, header : {TRUE}, nonce : {TRUE}, keyed : {k}, failed : {FALSE}]
    BY <2>2, <2>3
  <2> QED BY ONLY <2>4, AgeStateIs
<1> HIDE DEF a, g
<1> QED BY <1>1, <1>2, <1>3, <1>4, <1>5

\* What processPreamble makes of what was read of a header not read to its end.
LEMMA AgeEnters ==
  ASSUME NEW S, NEW z \in Seq(S), NEW s, s = AgeState(z, 0, FALSE, FALSE, FALSE, FALSE)
  PROVE  /\ AgePreamble(s).ok = ~BadHead(z)
         /\ ~BadHead(z) => AgePreamble(s) = Emit(AgeEntered(z), <<>>)
<1> DEFINE h == AgeHeaded(s)
           u == AgePreamble(s)
<1>0. s.buffer = z /\ s.index = 0 /\ s.header = FALSE /\ s.nonce = FALSE /\ s.keyed = FALSE /\ s.failed = FALSE
  BY DEF AgeState
<1>1. h = IF AgeEnds(z) = {} THEN IF Len(z) > MaxHeader THEN Throw(s) ELSE Emit(s, <<>>)
          ELSE IF AgeEnd(z) > MaxHeader \/ First(z, AgeEnd(z)) # Header THEN Throw(s)
          ELSE Emit([s EXCEPT !.buffer = After(@, AgeEnd(z)), !.header = TRUE], <<>>)
  BY <1>0 DEF AgeHeaded
<1>2. /\ Headed(z) => AgeEnds(z) # {} /\ AgeEnd(z) = HeaderSize
      /\ AgeEnds(z) # {} => ((AgeEnd(z) > MaxHeader \/ First(z, AgeEnd(z)) # Header) <=> ~Headed(z))
      /\ BadHead(z) => ~Headed(z)
      /\ ~Headed(z) /\ ~BadHead(z) => AgeEnds(z) = {} /\ Len(z) <= MaxHeader
  BY HeadIs
<1>3. CASE BadHead(z)
  <2>1. h = Throw(s)
    BY <1>1, <1>2, <1>3 DEF BadHead
  <2>2. h.ok = FALSE
    <3> HIDE DEF h
    <3> QED BY ONLY <2>1 DEF Throw
  <2>3. u = h
    <3>1. u = AgeNonced(h)
      BY AgePreambleIs
    <3> HIDE DEF u, h
    <3> QED BY <3>1, <2>2 DEF AgeNonced
  <2> HIDE DEF h, u
  <2>4. u.ok = FALSE
    BY <2>2, <2>3
  <2> QED BY <2>4, <1>3 DEF u
<1>4. CASE ~BadHead(z) /\ ~Headed(z)
  <2>1. h = Emit(s, <<>>)
    <3>1. AgeEnds(z) = {} /\ ~(Len(z) > MaxHeader)
      <4>1. MaxHeader \in Nat /\ Len(z) \in Nat
        BY SizesAre
      <4> QED BY <4>1, <1>2, <1>4
    <3> HIDE DEF h
    <3> QED BY <3>1, <1>1
  <2>2. h.ok = TRUE /\ h.state = s
    <3> HIDE DEF h
    <3> QED BY ONLY <2>1 DEF Emit
  <2>3. u = h
    <3>1. u = AgeNonced(h)
      BY AgePreambleIs
    <3> HIDE DEF u, h
    <3> QED BY <3>1, <2>2, <1>0 DEF AgeNonced
  <2>4. AgeEntered(z) = s
    BY <1>4 DEF AgeEntered
  <2> HIDE DEF h, u
  <2>5. u.ok = TRUE /\ u = Emit(AgeEntered(z), <<>>)
    BY <2>1, <2>2, <2>3, <2>4
  <2> QED BY <2>5, <1>4 DEF u
<1>5. CASE ~BadHead(z) /\ Headed(z)
  <2> DEFINE w == AgeBehind(z)
             g == AgeState(w, 0, TRUE, FALSE, FALSE, FALSE)
             v == IF Len(w) < NonceSize THEN g
                  ELSE AgeState(After(w, NonceSize), 0, TRUE, TRUE, First(w, NonceSize) = Nonce, FALSE)
  <2>1. h = Emit([s EXCEPT !.buffer = After(@, HeaderSize), !.header = TRUE], <<>>)
    <3>1. AgeEnds(z) # {} /\ AgeEnd(z) = HeaderSize /\ ~(AgeEnd(z) > MaxHeader \/ First(z, AgeEnd(z)) # Header)
      BY <1>2, <1>5
    <3> HIDE DEF h
    <3> QED BY <3>1, <1>1
  <2>2. [s EXCEPT !.buffer = After(@, HeaderSize), !.header = TRUE] = g
    <3>1. [s EXCEPT !.buffer = After(@, HeaderSize), !.header = TRUE] = [s EXCEPT !.buffer = w, !.header = TRUE]
      BY <1>0 DEF AgeBehind
    <3> HIDE DEF w
    <3>2. [s EXCEPT !.buffer = w, !.header = TRUE]
          \in [buffer : {w}, index : {0}, header : {TRUE}, nonce : {FALSE}, keyed : {FALSE}, failed : {FALSE}]
      BY DEF AgeState
    <3> DEFINE c == [s EXCEPT !.buffer = w, !.header = TRUE]
    <3>3. c \in [buffer : {w}, index : {0}, header : {TRUE}, nonce : {FALSE}, keyed : {FALSE}, failed : {FALSE}]
      BY <3>2
    <3> HIDE DEF c
    <3>4. c = g
      BY ONLY <3>3, AgeStateIs
    <3> QED BY <3>1, <3>4 DEF c
  <2>3. u = Emit(v, <<>>)
    <3>1. AgeHeaded(s) = Emit(g, <<>>)
      BY <2>1, <2>2
    <3> HIDE DEF w
    <3> DEFINE d == g
    <3>2. AgeHeaded(s) = Emit(d, <<>>) /\ d = AgeState(w, 0, TRUE, FALSE, FALSE, FALSE)
      BY <3>1
    <3> HIDE DEF d
    <3>3. AgePreamble(s) = Emit(IF Len(w) < NonceSize THEN d
                ELSE AgeState(After(w, NonceSize), 0, TRUE, TRUE, First(w, NonceSize) = Nonce, FALSE), <<>>)
      BY ONLY <3>2, AgeNonces
    <3> QED BY <3>3 DEF d
  <2>4. AgeEntered(z) = v
    <3>1. Len(w) = Len(z) - HeaderSize /\ Len(z) \in Nat /\ HeaderSize \in Nat /\ NonceSize \in Nat
      BY <1>5, SizesAre DEF Headed, AgeBehind, After
    <3>2. AgeBodied(z) <=> ~(Len(w) < NonceSize)
      <4> HIDE DEF w
      <4> QED BY <3>1, <1>5 DEF AgeBodied
    <3> QED BY <3>2, <1>5 DEF AgeEntered, AgeBody, AgeKeyed
  <2> DEFINE a == AgeEntered(z)
  <2>5. u = Emit(a, <<>>)
    <3> HIDE DEF u, v
    <3> QED BY <2>3, <2>4
  <2> HIDE DEF u, a
  <2>6. u.ok = TRUE
    BY ONLY <2>5 DEF Emit
  <2> QED BY <2>5, <2>6, <1>5 DEF u, a
<1> QED BY <1>3, <1>4, <1>5

\* What is opened is a message.
LEMMA AgeOpenedType ==
  ASSUME NEW S, NEW T, Readable(S, T), NEW x \in Seq(S)
  PROVE  /\ AgeOpened(x) \in Seq(T)
         /\ AgeBodied(x) => /\ AgeBody(x) \in Seq(S) /\ FrameIsOf(T, OpenSofar(1, AgeBody(x)))
                            /\ OpenCount(1, AgeBody(x)) \in Nat
                            /\ OpenCount(1, AgeBody(x)) = 0 => OpenSofar(1, AgeBody(x)) = Opened(<<>>)
<1>1. ASSUME AgeBodied(x)
      PROVE  /\ AgeBody(x) \in Seq(S) /\ FrameIsOf(T, OpenSofar(1, AgeBody(x)))
             /\ OpenCount(1, AgeBody(x)) \in Nat
             /\ OpenCount(1, AgeBody(x)) = 0 => OpenSofar(1, AgeBody(x)) = Opened(<<>>)
  <2> DEFINE b == AgeBody(x)
             w == AgeBehind(x)
             i == OpenCount(1, b)
  <2>1. HeaderSize \in Nat /\ NonceSize \in Nat /\ Len(x) \in Nat /\ Len(x) >= HeaderSize + NonceSize
    BY <1>1, SizesAre DEF AgeBodied
  <2>2. w \in Seq(S) /\ Len(w) = Len(x) - HeaderSize
    BY <2>1 DEF AgeBehind, After
  <2>3. b \in Seq(S)
    <3>1. b = After(w, NonceSize)
      BY DEF AgeBody
    <3> HIDE DEF b, w
    <3> QED BY <2>1, <2>2, <3>1 DEF After
  <2> HIDE DEF b
  <2>4. 1 \in Nat /\ b \in Seq(S)
    BY <2>3
  <2>5. i \in Nat /\ i * FrameSize <= Len(b)
    BY ONLY <2>4, OpenRestIs
  <2>6. Readable(S, T) /\ b \in Seq(S) /\ i \in Nat /\ i * FrameSize <= Len(b)
    BY <2>3, <2>5
  <2> HIDE DEF i
  <2>7. FrameIsOf(T, OpenFrames(0, i, b)) /\ (i = 0 => OpenFrames(0, i, b) = Opened(<<>>))
    BY ONLY <2>6, OpenFramesType
  <2>8. OpenSofar(1, b) = OpenFrames(0, i, b)
    BY DEF OpenSofar, i
  <2> QED BY <2>3, <2>5, <2>7, <2>8 DEF i, b
<1>2. <<>> \in Seq(T)
  OBVIOUS
<1> QED BY <1>1, <1>2 DEF AgeOpened, FrameIsOf

\* What is done with frames.
AgeFramesDone(r, y, i, k, n, g) ==
  IF n > 0 /\ (~k \/ ~g.ok \/ i + n > MaxChunkIndex)
  THEN r.ok = FALSE /\ r.out = <<>>
  ELSE r.ok = TRUE /\ r.out = g.out /\ r.state = AgeState(After(y, n * FrameSize), i + n, TRUE, TRUE, k, FALSE)

LEMMA AgeFrames ==
  ASSUME NEW y, NEW i \in Nat, NEW k, NEW n \in Nat, NEW g,
         NEW t, t = AgeState(y, i, TRUE, TRUE, k, FALSE)
  PROVE  AgeFramesDone(AgeOpenFrames(t, n, g), y, i, k, n, g)
<1> DEFINE r == AgeOpenFrames(t, n, g)
           a == After(y, n * FrameSize)
           m == i + n
           refused == n > 0 /\ (~k \/ ~g.ok \/ i + n > MaxChunkIndex)
<1>1. t.buffer = y /\ t.index = i /\ t.keyed = k
  BY DEF AgeState
<1>2. CASE refused
  <2> DEFINE f == [t EXCEPT !.failed = TRUE]
  <2>1. r = Throw(f)
    <3> HIDE DEF f
    <3> QED BY <1>1, <1>2 DEF AgeOpenFrames, f
  <2> HIDE DEF f, r
  <2>2. r.ok = FALSE /\ r.out = <<>>
    BY ONLY <2>1 DEF Throw
  <2> QED BY <1>2, <2>2 DEF r, AgeFramesDone
<1>3. CASE ~refused
  <2> DEFINE c == [t EXCEPT !.buffer = a, !.index = m]
             o == g.out
  <2>1. r = Emit(c, o)
    <3>1. r = Emit([t EXCEPT !.buffer = After(@, n * FrameSize), !.index = @ + n], g.out)
      BY <1>1, <1>3 DEF AgeOpenFrames
    <3>2. [t EXCEPT !.buffer = After(@, n * FrameSize), !.index = @ + n] = c
      BY <1>1
    <3> HIDE DEF r, c
    <3> QED BY <3>1, <3>2
  <2>2. c = AgeState(a, m, TRUE, TRUE, k, FALSE)
    <3> HIDE DEF a, m
    <3>1. c \in [buffer : {a}, index : {m}, header : {TRUE}, nonce : {TRUE}, keyed : {k}, failed : {FALSE}]
      BY DEF AgeState
    <3> HIDE DEF c
    <3> QED BY ONLY <3>1, AgeStateIs
  <2> HIDE DEF c, o, r, a, m
  <2>3. r.ok = TRUE /\ r.state = c /\ r.out = o
    BY ONLY <2>1 DEF Emit
  <2> QED BY <1>3, <2>2, <2>3 DEF r, a, m, o, AgeFramesDone
<1> QED BY <1>2, <1>3

\* What is done with a header, a nonce and frames that are there at once.
LEMMA AgeReadies ==
  ASSUME NEW S, NEW T, Readable(S, T), NEW z \in Seq(S), NEW ready,
         ready.ok = ~BadHead(z), ~BadHead(z) => ready = Emit(AgeEntered(z), <<>>)
  PROVE  GoesOn(T, AgeDecryptReady(ready, ready.state), AgeCan(z), AgeOpening(z), <<>>, AgeOpened(z))
<1> DEFINE t == ready.state
           r == AgeDecryptReady(ready, t)
<1>0. <<>> \in Seq(T) /\ <<>> \o <<>> = <<>>
  OBVIOUS
<1>1. CASE BadHead(z)
  <2> DEFINE f == [t EXCEPT !.failed = TRUE]
  <2>1. r = Throw(f)
    <3> HIDE DEF f
    <3> QED BY <1>1 DEF AgeDecryptReady, f
  <2> HIDE DEF f, r
  <2>2. r.ok = FALSE /\ r.out = <<>>
    BY ONLY <2>1 DEF Throw
  <2>3. ~AgeCan(z)
    BY <1>1 DEF AgeCan
  <2> QED BY <2>2, <2>3 DEF GoesOn, r
<1>2. ASSUME ~BadHead(z)
      PROVE  ready.ok = TRUE /\ t = AgeEntered(z)
  <2> DEFINE a == AgeEntered(z)
  <2>1. ready = Emit(a, <<>>)
    BY <1>2
  <2> HIDE DEF a
  <2>2. ready.state = a /\ ready.ok = TRUE
    BY ONLY <2>1 DEF Emit
  <2> QED BY <2>2 DEF a
<1>3. CASE ~BadHead(z) /\ ~AgeBodied(z)
  <2>1. t = AgeOpening(z)
    BY <1>2, <1>3 DEF AgeOpening
  <2>2. t.nonce = FALSE
    <3>1. \E w, h : t = AgeState(w, 0, h, FALSE, FALSE, FALSE)
      BY <1>2, <1>3 DEF AgeEntered
    <3> HIDE DEF t
    <3> QED BY <3>1 DEF AgeState
  <2>3. r = Emit(t, <<>>)
    <3> HIDE DEF t
    <3> QED BY <1>2, <1>3, <2>2 DEF AgeDecryptReady
  <2> HIDE DEF r, t
  <2>4. r.ok = TRUE /\ r.state = t /\ r.out = <<>>
    BY ONLY <2>3 DEF Emit
  <2>5. AgeCan(z) /\ AgeOpened(z) = <<>>
    BY <1>3 DEF AgeCan, AgeOpened
  <2> QED BY <1>0, <2>1, <2>4, <2>5 DEF GoesOn, r, t
<1>4. CASE ~BadHead(z) /\ AgeBodied(z)
  <2> DEFINE b == AgeBody(z)
             k == AgeKeyed(z)
             n == OpenCount(1, b)
             g == OpenFrames(0, n, b)
  <2>1. t = AgeState(b, 0, TRUE, TRUE, k, FALSE)
    BY <1>2, <1>4 DEF AgeEntered, AgeBodied
  <2>2. n \in Nat /\ FrameIsOf(T, g) /\ g = OpenSofar(1, b) /\ (n = 0 => g = Opened(<<>>))
    BY <1>4, AgeOpenedType DEF OpenSofar
  <2>3. r = AgeOpenFrames(t, n, g)
    <3>1. t.buffer = b /\ t.index = 0 /\ t.nonce = TRUE
      <4> HIDE DEF t, b, k
      <4> QED BY ONLY <2>1 DEF AgeState
    <3>2. n = Frames(Len(t.buffer), FrameSize, 1) /\ g = OpenFrames(t.index, n, t.buffer)
      BY <3>1 DEF OpenCount
    <3> HIDE DEF t, b, k, n, g
    <3> QED BY <1>2, <1>4, <3>1, <3>2 DEF AgeDecryptReady
  <2>4. AgeOpening(z) = AgeState(After(b, n * FrameSize), 0 + n, TRUE, TRUE, k, FALSE)
    <3>1. 0 + n = n
      <4> HIDE DEF n
      <4> QED BY <2>2
    <3> QED BY <1>4, <3>1 DEF AgeOpening, OpenRest
  <2>5. AgeOpened(z) = g.out
    BY <1>4, <2>2 DEF AgeOpened
  <2>6. AgeCan(z) <=> (n # 0 => k /\ g.ok /\ n <= MaxChunkIndex)
    BY <1>4, <2>2 DEF AgeCan, AgeFramed
  <2> HIDE DEF t, b, k, n, g, r
  <2> DEFINE refused == n > 0 /\ (~k \/ ~g.ok \/ 0 + n > MaxChunkIndex)
             w == After(b, n * FrameSize)
             q == AgeOpenFrames(t, n, g)
  <2>7. IF refused
        THEN q.ok = FALSE /\ q.out = <<>>
        ELSE q.ok = TRUE /\ q.out = g.out /\ q.state = AgeState(w, 0 + n, TRUE, TRUE, k, FALSE)
    <3>1. 0 \in Nat /\ n \in Nat /\ t = AgeState(b, 0, TRUE, TRUE, k, FALSE)
      BY <2>1, <2>2
    <3>2. AgeFramesDone(AgeOpenFrames(t, n, g), b, 0, k, n, g)
      BY ONLY <3>1, AgeFrames
    <3> QED BY <3>2 DEF AgeFramesDone
  <2>8. refused <=> ~AgeCan(z)
    BY <2>2, <2>6, SizesAre
  <2>9. <<>> \o g.out = g.out /\ g.out \in Seq(T)
    BY <2>2 DEF FrameIsOf
  <2> HIDE DEF refused, w, q
  <2>10. r = q
    BY <2>3 DEF q
  <2>11. CASE refused
    <3>1. r.ok = FALSE /\ r.out = <<>> /\ ~AgeCan(z)
      BY <2>7, <2>8, <2>10, <2>11
    <3> QED BY <3>1 DEF GoesOn, r, t
  <2>12. CASE ~refused
    <3>1. r.ok = TRUE /\ r.out = g.out /\ AgeCan(z)
      BY <2>7, <2>8, <2>10, <2>12
    <3>2. r.state = AgeOpening(z)
      BY <2>4, <2>7, <2>10, <2>12 DEF w
    <3>3. r.out \in Seq(T) /\ <<>> \o r.out = AgeOpened(z)
      BY <2>5, <2>9, <3>1
    <3> QED BY <3>1, <3>2, <3>3 DEF GoesOn, r, t
  <2> QED BY <2>11, <2>12
<1> QED BY <1>1, <1>3, <1>4

LEMMA AgeOpensOn ==
  ASSUME NEW S, NEW T, Readable(S, T), NEW x \in Seq(S), NEW e \in Seq(S), AgeCan(x)
  PROVE  GoesOn(T, AgeDecryptUpdate(AgeOpening(x), e), AgeCan(x \o e), AgeOpening(x \o e),
                AgeOpened(x), AgeOpened(x \o e))
<1> DEFINE s == AgeOpening(x)
           z == x \o e
           l == [s EXCEPT !.buffer = @ \o e]
           ready == AgePreamble(l)
           t == ready.state
           r == AgeDecryptUpdate(s, e)
<1>0. /\ z \in Seq(S) /\ Len(z) = Len(x) + Len(e) /\ Len(x) \in Nat /\ Len(e) \in Nat
      /\ HeaderSize \in Nat /\ NonceSize \in Nat
  BY SizesAre
<1>1. CASE e = <<>>
  <2>1. r = Emit(s, <<>>) /\ z = x
    BY <1>1 DEF AgeDecryptUpdate
  <2>2. AgeOpened(x) \in Seq(T) /\ <<>> \in Seq(T)
    BY AgeOpenedType
  <2>3. r.ok = TRUE /\ r.state = s /\ r.out = <<>>
    <3> HIDE DEF s, r
    <3> QED BY ONLY <2>1 DEF Emit
  <2>4. AgeOpened(x) \o <<>> = AgeOpened(x)
    BY <2>2
  <2>5. s = AgeOpening(z) /\ AgeCan(z) /\ AgeOpened(z) = AgeOpened(x)
    BY <2>1
  <2> HIDE DEF s, r, z
  <2> QED BY <2>2, <2>3, <2>4, <2>5 DEF GoesOn, r, s, z
<1>2. e # <<>> => r = AgeDecryptReady(ready, t)
  BY DEF AgeDecryptUpdate
\* A buffer that was appended to.
<1>3. ASSUME NEW w, NEW i, NEW h, NEW n, NEW k, s = AgeState(w, i, h, n, k, FALSE)
      PROVE  l = AgeState(w \o e, i, h, n, k, FALSE)
  <2> DEFINE a == w \o e
             c == [s EXCEPT !.buffer = a]
  <2>1. l = c
    <3>1. s.buffer = w
      <4> HIDE DEF s
      <4> QED BY ONLY <1>3 DEF AgeState
    <3> QED BY <3>1
  <2>2. c = AgeState(a, i, h, n, k, FALSE)
    <3> HIDE DEF s, a
    <3>1. c \in [buffer : {a}, index : {i}, header : {h}, nonce : {n}, keyed : {k}, failed : {FALSE}]
      BY ONLY <1>3 DEF AgeState
    <3> HIDE DEF c
    <3> QED BY ONLY <3>1, AgeStateIs
  <2> QED BY <2>1, <2>2
<1>4. ASSUME e # <<>>, ready.ok = ~BadHead(z), ~BadHead(z) => ready = Emit(AgeEntered(z), <<>>), ~AgeBodied(x)
      PROVE  GoesOn(T, r, AgeCan(z), AgeOpening(z), AgeOpened(x), AgeOpened(z))
  <2>1. AgeOpened(x) = <<>>
    BY <1>4 DEF AgeOpened
  <2> HIDE DEF ready
  <2>2. GoesOn(T, AgeDecryptReady(ready, ready.state), AgeCan(z), AgeOpening(z), <<>>, AgeOpened(z))
    <3> HIDE DEF z
    <3>1. /\ Readable(S, T) /\ z \in Seq(S) /\ ready.ok = ~BadHead(z)
          /\ ~BadHead(z) => ready = Emit(AgeEntered(z), <<>>)
      BY <1>0, <1>4
    <3> QED BY ONLY <3>1, AgeReadies
  <2> QED BY <1>2, <1>4, <2>1, <2>2
<1>5. CASE e # <<>> /\ ~Headed(x)
  <2>1. ~AgeBodied(x) /\ s = AgeState(x, 0, FALSE, FALSE, FALSE, FALSE)
    BY <1>5 DEF AgeBodied, AgeOpening, AgeEntered
  <2>2. l = AgeState(z, 0, FALSE, FALSE, FALSE, FALSE)
    BY <2>1, <1>3
  <2> HIDE DEF l
  <2>3. ready.ok = ~BadHead(z) /\ (~BadHead(z) => ready = Emit(AgeEntered(z), <<>>))
    <3> HIDE DEF z
    <3>1. z \in Seq(S) /\ l = AgeState(z, 0, FALSE, FALSE, FALSE, FALSE)
      BY <1>0, <2>2
    <3> QED BY ONLY <3>1, AgeEnters
  <2> HIDE DEF ready, r
  <2> QED BY <1>4, <1>5, <2>1, <2>3 DEF r
<1>6. ASSUME Headed(x)
      PROVE  Headed(z) /\ ~BadHead(z) /\ AgeBehind(z) = AgeBehind(x) \o e
             /\ AgeBehind(x) \in Seq(S) /\ Len(AgeBehind(x)) = Len(x) - HeaderSize /\ HeaderSize <= Len(x)
  <2>1. Headed(z) /\ HeaderSize <= Len(x)
    BY <1>6, HeadGoesOn DEF Headed
  <2>2. ~BadHead(z)
    <3> HIDE DEF z
    <3> QED BY <1>0, <2>1, HeadIs
  <2>3. AgeBehind(z) = AgeBehind(x) \o e /\ AgeBehind(x) \in Seq(S) /\ Len(AgeBehind(x)) = Len(x) - HeaderSize
    BY <2>1, <1>0, HeadStays DEF AgeBehind
  <2> QED BY <2>1, <2>2, <2>3
<1>7. CASE e # <<>> /\ Headed(x) /\ ~AgeBodied(x)
  <2> DEFINE w == AgeBehind(z)
  <2>1. s = AgeState(AgeBehind(x), 0, TRUE, FALSE, FALSE, FALSE)
    BY <1>7 DEF AgeOpening, AgeEntered
  <2>2. l = AgeState(w, 0, TRUE, FALSE, FALSE, FALSE)
    BY <2>1, <1>3, <1>6, <1>7
  <2> HIDE DEF l
  <2>3. AgeHeaded(l) = Emit(l, <<>>)
    <3>1. l.header = TRUE
      BY <2>2 DEF AgeState
    <3> QED BY <3>1 DEF AgeHeaded
  <2> DEFINE v == IF Len(w) < NonceSize THEN l
                  ELSE AgeState(After(w, NonceSize), 0, TRUE, TRUE, First(w, NonceSize) = Nonce, FALSE)
  <2>4. ready = Emit(v, <<>>)
    <3> HIDE DEF w
    <3>1. AgeHeaded(l) = Emit(l, <<>>) /\ l = AgeState(w, 0, TRUE, FALSE, FALSE, FALSE)
      BY <2>2, <2>3
    <3> QED BY ONLY <3>1, AgeNonces
  <2>5. v = AgeEntered(z)
    <3>1. Len(w) = Len(z) - HeaderSize
      <4>1. w \in Seq(S) /\ HeaderSize <= Len(z)
        <5>1. HeaderSize <= Len(x)
          BY <1>6, <1>7
        <5> HIDE DEF z
        <5>2. HeaderSize <= Len(z)
          BY ONLY <1>0, <5>1, SizesAre
        <5>3. w \in Seq(S)
          BY <1>0, SizesAre DEF AgeBehind, After
        <5> QED BY <5>2, <5>3
      <4> HIDE DEF z
      <4> QED BY <1>0, <4>1 DEF AgeBehind, After
    <3>2. AgeBodied(z) <=> ~(Len(w) < NonceSize)
      <4>1. Len(z) \in Nat
        BY <1>0
      <4> HIDE DEF w, z
      <4> QED BY <3>1, <4>1, <1>0, <1>6, <1>7 DEF AgeBodied
    <3> QED BY <2>2, <3>2, <1>6, <1>7 DEF AgeEntered, AgeBody, AgeKeyed
  <2> HIDE DEF v, ready
  <2>6. ready.ok = TRUE
    BY ONLY <2>4 DEF Emit
  <2>7. ready.ok = ~BadHead(z) /\ (~BadHead(z) => ready = Emit(AgeEntered(z), <<>>))
    BY <2>4, <2>5, <2>6, <1>6, <1>7
  <2> HIDE DEF r
  <2> QED BY <1>4, <1>7, <2>7 DEF r
<1>8. CASE e # <<>> /\ AgeBodied(x)
  <2> DEFINE b == AgeBody(x)
             d == AgeBody(z)
             k == AgeKeyed(x)
             i == OpenCount(1, b)
             y == OpenRest(1, b) \o e
             n == Frames(Len(y), FrameSize, 1)
             g == OpenFrames(i, n, y)
             f == OpenSofar(1, b)
             h == OpenSofar(1, d)
  <2>1. s = AgeState(OpenRest(1, b), i, TRUE, TRUE, k, FALSE)
    BY <1>8 DEF AgeOpening
  <2>2. l = AgeState(y, i, TRUE, TRUE, k, FALSE)
    <3> HIDE DEF i, k, b, s, l
    <3> QED BY <2>1, <1>3
  <2>3. l.buffer = y /\ l.index = i /\ l.header = TRUE /\ l.nonce = TRUE /\ l.keyed = k
    <3> HIDE DEF l, y, i, k
    <3> QED BY ONLY <2>2 DEF AgeState
  <2>4. ready = Emit(l, <<>>) /\ ready.ok = TRUE /\ t = l
    <3> HIDE DEF l
    <3>1. AgeHeaded(l) = Emit(l, <<>>)
      BY <2>3 DEF AgeHeaded
    <3>2. ready = AgeNonced(AgeHeaded(l))
      BY AgePreambleIs
    <3> DEFINE q == AgeHeaded(l)
    <3> HIDE DEF q, ready
    <3>3. q.ok = TRUE /\ q.state = l
      <4>1. q = Emit(l, <<>>)
        BY <3>1 DEF q
      <4> QED BY ONLY <4>1 DEF Emit
    <3>4. ready = q
      <4>1. ready = AgeNonced(q)
        BY <3>2 DEF q
      <4> QED BY <4>1, <3>3, <2>3 DEF AgeNonced
    <3> QED BY <3>1, <3>3, <3>4 DEF q
  <2>5. r = AgeOpenFrames(l, n, g)
    <3>1. r = AgeDecryptReady(ready, t)
      BY <1>2, <1>8
    <3> HIDE DEF ready, r, t, l
    <3>2. r = AgeDecryptReady(ready, l)
      BY <3>1, <2>4 DEF t
    <3> HIDE DEF y, i
    <3> QED BY <3>2, <2>3, <2>4 DEF AgeDecryptReady
  <2>6. AgeBodied(z) /\ d = b \o e /\ b \in Seq(S) /\ AgeKeyed(z) = k
    <3>1. Headed(x) /\ Len(x) >= HeaderSize + NonceSize
      BY <1>8 DEF AgeBodied
    <3>2. AgeBodied(z)
      BY <3>1, <1>0, <1>6 DEF AgeBodied
    <3> DEFINE w == AgeBehind(x)
               v == AgeBehind(z)
    <3>3. v = w \o e /\ w \in Seq(S) /\ NonceSize \in Nat /\ NonceSize <= Len(w)
      BY <3>1, <1>0, <1>6
    <3> HIDE DEF w, v
    <3>4. First(w \o e, NonceSize) = First(w, NonceSize) /\ After(w \o e, NonceSize) = After(w, NonceSize) \o e
          /\ After(w, NonceSize) \in Seq(S)
      BY <3>3, HeadStays
    <3> QED BY <3>2, <3>3, <3>4 DEF AgeBody, AgeKeyed, w, v
  <2>7. BodyOn(T, 1, b, e, y, n)
    <3>1. /\ Readable(S, T) /\ b \in Seq(S) /\ e \in Seq(S) /\ 1 \in Nat
          /\ y = OpenRest(1, b) \o e /\ n = Frames(Len(y), FrameSize, 1)
      BY <2>6
    <3> HIDE DEF b, y, n
    <3> QED BY ONLY <3>1, BodyGoesOn
  <2>8. /\ i \in Nat /\ n \in Nat /\ OpenCount(1, d) = i + n /\ After(y, n * FrameSize) = OpenRest(1, d)
        /\ h = OpenJoin(f, g) /\ f.ok \in BOOLEAN /\ g.ok \in BOOLEAN /\ g.out \in Seq(T)
    BY <2>6, <2>7 DEF BodyOn, FrameIsOf
  <2>9. i = 0 => f = Opened(<<>>)
    BY <1>8, AgeOpenedType
  <2>10. n = 0 => g = Opened(<<>>)
    <3>1. n = 0 => n * FrameSize <= Len(y) /\ y \in Seq(S)
      <4>1. y \in Seq(S)
        <5>1. OpenRest(1, b) \in Seq(S)
          <6> HIDE DEF b
          <6>1. b \in Seq(S) /\ 1 \in Nat
            BY <2>6
          <6> QED BY ONLY <6>1, OpenRestIs
        <5> DEFINE q == OpenRest(1, b)
        <5> HIDE DEF q
        <5>2. q \in Seq(S)
          BY <5>1 DEF q
        <5>3. q \o e \in Seq(S)
          BY <5>2
        <5> QED BY <5>3 DEF q
      <4> HIDE DEF y, n
      <4>2. Len(y) \in Nat /\ 0 * FrameSize = 0
        BY <4>1, SizesAre
      <4> QED BY <4>1, <4>2
    <3> HIDE DEF y, n, i
    <3>2. ASSUME n = 0  PROVE g = Opened(<<>>)
      <4>1. Readable(S, T) /\ y \in Seq(S) /\ n \in Nat /\ n * FrameSize <= Len(y)
        BY <3>1, <3>2, <2>8
      <4>2. n = 0 => OpenFrames(i, n, y) = Opened(<<>>)
        BY ONLY <4>1, OpenFramesType
      <4> QED BY <4>2, <3>2
    <3> QED BY <3>2
  <2>11. AgeCan(x) <=> (i # 0 => k /\ f.ok /\ i <= MaxChunkIndex)
    <3>1. ~BadHead(x)
      BY DEF AgeCan
    <3> QED BY <1>8, <3>1 DEF AgeCan, AgeFramed
  <2>12. AgeCan(z) <=> (i + n # 0 => k /\ h.ok /\ i + n <= MaxChunkIndex)
    <3>1. ~BadHead(z)
      BY <1>6, <1>8 DEF AgeBodied
    <3>2. OpenCount(1, d) = i + n
      BY <2>8
    <3> HIDE DEF i, n, z
    <3> QED BY <2>6, <3>1, <3>2 DEF AgeCan, AgeFramed
  <2>13. AgeOpening(z) = AgeState(After(y, n * FrameSize), i + n, TRUE, TRUE, k, FALSE)
    BY <2>6, <2>8 DEF AgeOpening
  <2>14. AgeOpened(x) = f.out /\ AgeOpened(z) = h.out
    BY <1>8, <2>6 DEF AgeOpened
  <2> HIDE DEF l, r, ready, t, b, d, k, i, y, n, g, f, h, s, z
  <2>15. AgeFramesDone(r, y, i, k, n, g)
    <3>1. i \in Nat /\ n \in Nat /\ l = AgeState(y, i, TRUE, TRUE, k, FALSE)
      BY <2>2, <2>8
    <3>2. AgeFramesDone(AgeOpenFrames(l, n, g), y, i, k, n, g)
      BY ONLY <3>1, AgeFrames
    <3> QED BY <3>2, <2>5
  <2>16. /\ f.ok /\ g.ok => h.ok = TRUE /\ h.out = f.out \o g.out
         /\ ~(f.ok /\ g.ok) => h.ok = FALSE
    <3>1. h = OpenJoin(f, g) /\ f.ok \in BOOLEAN /\ g.ok \in BOOLEAN
      BY <2>8
    <3> QED BY ONLY <3>1, OpenJoinIs
  <2>17. f.ok /\ (n = 0 => g.ok)
    <3>1. Opened(<<>>).ok = TRUE
      BY DEF Opened
    <3>2. i = 0 => f.ok
      BY <2>9, <3>1
    <3>3. n = 0 => g.ok
      BY <2>10, <3>1
    <3>4. i # 0 => f.ok
      BY <2>11
    <3> QED BY <3>2, <3>3, <3>4
  <2> DEFINE refused == n > 0 /\ (~k \/ ~g.ok \/ i + n > MaxChunkIndex)
  <2>18. refused <=> ~AgeCan(z)
    <3>1. h.ok <=> g.ok
      BY <2>16, <2>17
    <3>2. i \in Nat /\ n \in Nat /\ MaxChunkIndex \in Nat
      BY <2>8, SizesAre
    <3>3. i # 0 => k /\ i <= MaxChunkIndex
      BY <2>11
    <3>4. CASE n = 0
      <4>1. i + n = i /\ ~(n > 0)
        BY <3>2, <3>4
      <4>2. AgeCan(z)
        BY <4>1, <2>12, <2>17, <3>1, <3>3, <3>4
      <4> QED BY <4>1, <4>2
    <3>5. CASE n # 0
      <4>1. n > 0 /\ i + n # 0 /\ (i + n <= MaxChunkIndex <=> ~(i + n > MaxChunkIndex))
        BY <3>2, <3>5
      <4> QED BY <4>1, <2>12, <3>1
    <3> QED BY <3>4, <3>5
  <2>19. CASE refused
    <3>1. r.ok = FALSE /\ r.out = <<>> /\ ~AgeCan(z)
      BY <2>15, <2>18, <2>19 DEF AgeFramesDone
    <3> QED BY <3>1 DEF GoesOn, r, s, z
  <2>20. CASE ~refused
    <3>1. /\ r.ok = TRUE /\ r.out = g.out /\ AgeCan(z)
          /\ r.state = AgeState(After(y, n * FrameSize), i + n, TRUE, TRUE, k, FALSE)
      BY <2>15, <2>18, <2>20 DEF AgeFramesDone
    <3>2. g.ok
      <4>1. n \in Nat
        BY <2>8
      <4> QED BY <4>1, <2>17, <2>20
    <3>3. AgeOpened(x) \o g.out = AgeOpened(z)
      BY <2>14, <2>16, <2>17, <3>2
    <3> QED BY <3>1, <3>3, <2>8, <2>13 DEF GoesOn, r, s, z
  <2> QED BY <2>19, <2>20
<1>9. AgeBodied(x) => Headed(x)
  BY DEF AgeBodied
<1> QED BY <1>1, <1>5, <1>7, <1>8, <1>9

-----------------------------------------------------------------------------
(* All four, by one name each: what was read is x. *)

StateAt(c, x) ==
  IF c.tool = "age" THEN IF c.direction = "encrypt" THEN AgeSealing(x) ELSE AgeOpening(x)
  ELSE IF c.direction = "encrypt" THEN CobbleSealing(x) ELSE CobbleOpening(x)

\* Nothing in x was refused.
CanAt(c, x) ==
  IF c.tool = "age" THEN IF c.direction = "encrypt" THEN SealCount(1, x) <= MaxChunkIndex ELSE AgeCan(x)
  ELSE IF c.direction = "encrypt" THEN TRUE ELSE CobbleCan(x)

OutAt(c, x) ==
  IF c.tool = "age" THEN IF c.direction = "encrypt" THEN SealedAs(Header \o Nonce, 1, x) ELSE AgeOpened(x)
  ELSE IF c.direction = "encrypt" THEN SealedAs(Commitment, 0, x) ELSE CobbleOpened(x)

\* Bytes of S are read, and bytes of T are in what is sealed there.
Legible(c, S, T) == c.direction # "encrypt" => Readable(S, T)
Given(c, S, T)   == IF c.direction = "encrypt" THEN Sealing(S) ELSE T

LEMMA AgeBegins == AgeStart = AgeOpening(<<>>) /\ AgeCan(<<>>) /\ AgeOpened(<<>>) = <<>>
<1>1. Len(<<>>) = 0 /\ DOMAIN <<>> = {}
  OBVIOUS
<1>2. ~(HeaderSize <= Len(<<>>)) /\ ~(Len(<<>>) > MaxHeader)
  BY <1>1, SizesAre
<1>3. ~Headed(<<>>) /\ ~AgeBodied(<<>>)
  BY <1>2 DEF Headed, AgeBodied
<1>4. AgeEnds(<<>>) = {}
  BY <1>1 DEF AgeEnds
<1>5. ~BadHead(<<>>)
  BY <1>2, <1>4 DEF BadHead
<1>6. AgeOpening(<<>>) = AgeState(<<>>, 0, FALSE, FALSE, FALSE, FALSE)
  BY <1>3 DEF AgeOpening, AgeEntered
<1>7. AgeStart = AgeState(<<>>, 0, FALSE, FALSE, FALSE, FALSE)
  BY DEF AgeStart, AgeState
<1> QED BY <1>3, <1>5, <1>6, <1>7 DEF AgeCan, AgeOpened

\* At first nothing was read.
LEMMA FrameStarts ==
  ASSUME NEW c
  PROVE  FrameStart(c) = StateAt(c, <<>>) /\ CanAt(c, <<>>) /\ OutAt(c, <<>>) = <<>>
<1>1. SealedAs(Header \o Nonce, 1, <<>>) = <<>> /\ SealedAs(Commitment, 0, <<>>) = <<>>
  BY DEF SealedAs
<1> QED BY <1>1, AgeBegins, SealStarts, CobbleStarts DEF FrameStart, StateAt, CanAt, OutAt

\* A chunk more.
LEMMA FrameGoesOn ==
  ASSUME NEW c, NEW S, NEW T, Legible(c, S, T), NEW x \in Seq(S), NEW e \in Seq(S), CanAt(c, x)
  PROVE  GoesOn(Given(c, S, T), FrameUpdate(c, StateAt(c, x), e), CanAt(c, x \o e), StateAt(c, x \o e),
                OutAt(c, x), OutAt(c, x \o e))
<1> DEFINE z == x \o e
<1> HIDE DEF z
<1>1. CASE c.tool = "age" /\ c.direction = "encrypt"
  <2>1. SealCount(1, x) <= MaxChunkIndex
    BY <1>1 DEF CanAt
  <2>2. GoesOn(Sealing(S), AgeEncryptUpdate(AgeSealing(x), e), SealCount(1, z) <= MaxChunkIndex, AgeSealing(z),
               SealedAs(Header \o Nonce, 1, x), SealedAs(Header \o Nonce, 1, z))
    BY <2>1, AgeSealsOn DEF z
  <2> QED BY <1>1, <2>2 DEF StateAt, CanAt, OutAt, Given, FrameUpdate, z
<1>2. CASE c.tool = "age" /\ c.direction # "encrypt"
  <2>1. AgeCan(x) /\ Readable(S, T)
    BY <1>2 DEF CanAt, Legible
  <2>2. GoesOn(T, AgeDecryptUpdate(AgeOpening(x), e), AgeCan(z), AgeOpening(z), AgeOpened(x), AgeOpened(z))
    BY <2>1, AgeOpensOn DEF z
  <2> QED BY <1>2, <2>2 DEF StateAt, CanAt, OutAt, Given, FrameUpdate, z
<1>3. CASE c.tool # "age" /\ c.direction = "encrypt"
  <2>2. GoesOn(Sealing(S), CobbleEncryptUpdate(CobbleSealing(x), e), TRUE, CobbleSealing(z),
               SealedAs(Commitment, 0, x), SealedAs(Commitment, 0, z))
    BY CobbleSealsOn DEF z
  <2> QED BY <1>3, <2>2 DEF StateAt, CanAt, OutAt, Given, FrameUpdate, z
<1>4. CASE c.tool # "age" /\ c.direction # "encrypt"
  <2>1. CobbleCan(x) /\ Readable(S, T)
    BY <1>4 DEF CanAt, Legible
  <2>2. GoesOn(T, CobbleDecryptUpdate(CobbleOpening(x), e), CobbleCan(z), CobbleOpening(z), CobbleOpened(x), CobbleOpened(z))
    BY <2>1, CobbleOpensOn DEF z
  <2> QED BY <1>4, <2>2 DEF StateAt, CanAt, OutAt, Given, FrameUpdate, z
<1> QED BY <1>1, <1>2, <1>3, <1>4

\* What was refused stays refused.
LEMMA SealsNarrow ==
  ASSUME NEW S, NEW x \in Seq(S), NEW e \in Seq(S), SealCount(1, x \o e) <= MaxChunkIndex
  PROVE  SealCount(1, x) <= MaxChunkIndex
<1>1. CASE e = <<>>
  BY <1>1
<1>2. CASE e # <<>>
  <2> DEFINE y == SealRest(1, x) \o e
             n == Frames(Len(y), ChunkSize, 1)
  <2>1. <<>> \in Seq(Sealing(S)) /\ 1 \in {0, 1} /\ y = SealRest(1, x) \o e /\ n = Frames(Len(y), ChunkSize, 1)
    OBVIOUS
  <2> HIDE DEF y, n
  <2>2. SealedOnAs(S, <<>>, 1, x, e, y, n)
    BY ONLY <2>1, <1>2, x \in Seq(S), e \in Seq(S), SealedAsOn
  <2>3. SealCount(1, x) \in Nat /\ n \in Nat /\ SealCount(1, x \o e) = SealCount(1, x) + n
    BY <2>2 DEF SealedOnAs
  <2> QED BY <2>3, SizesAre
<1> QED BY <1>1, <1>2

LEMMA BodyNarrows ==
  ASSUME NEW S, NEW T, Readable(S, T), NEW b \in Seq(S), NEW e \in Seq(S), NEW kept \in Nat
  PROVE  /\ OpenCount(kept, b) \in Nat /\ OpenCount(kept, b \o e) \in Nat
         /\ OpenCount(kept, b) <= OpenCount(kept, b \o e)
         /\ OpenSofar(kept, b \o e).ok => OpenSofar(kept, b).ok
<1> DEFINE y == OpenRest(kept, b) \o e
           n == Frames(Len(y), FrameSize, kept)
           f == OpenSofar(kept, b)
           g == OpenFrames(OpenCount(kept, b), n, y)
           h == OpenSofar(kept, b \o e)
<1>1. y = OpenRest(kept, b) \o e /\ n = Frames(Len(y), FrameSize, kept)
  OBVIOUS
<1> HIDE DEF y, n
<1>2. BodyOn(T, kept, b, e, y, n)
  BY ONLY <1>1, Readable(S, T), b \in Seq(S), e \in Seq(S), kept \in Nat, BodyGoesOn
<1>3. /\ OpenCount(kept, b) \in Nat /\ n \in Nat /\ OpenCount(kept, b \o e) = OpenCount(kept, b) + n
      /\ h = OpenJoin(f, g) /\ f.ok \in BOOLEAN /\ g.ok \in BOOLEAN
  BY <1>2 DEF BodyOn, FrameIsOf
<1> HIDE DEF f, g, h
<1>4. h.ok => f.ok
  BY ONLY <1>3, OpenJoinIs
<1> QED BY <1>3, <1>4 DEF f, h

LEMMA CobbleNarrows ==
  ASSUME NEW S, NEW T, Readable(S, T), NEW x \in Seq(S), NEW e \in Seq(S), CobbleCan(x \o e)
  PROVE  CobbleCan(x)
<1> SUFFICES ASSUME ~(Len(x) < CommitSize)
             PROVE  First(x, CommitSize) = Commitment /\ OpenSofar(TagSize, CobbleBody(x)).ok
  BY DEF CobbleCan
<1> DEFINE b == CobbleBody(x)
           z == x \o e
<1>1. /\ CommitSize \in Nat /\ CommitSize <= Len(x) /\ TagSize \in Nat
      /\ Len(z) = Len(x) + Len(e) /\ Len(x) \in Nat /\ Len(e) \in Nat
  BY SizesAre
<1>2. First(z, CommitSize) = First(x, CommitSize) /\ CobbleBody(z) = b \o e /\ b \in Seq(S)
  BY <1>1, HeadStays DEF CobbleBody
<1> HIDE DEF b, z
<1>3. ~(Len(z) < CommitSize)
  BY <1>1
<1>4. First(z, CommitSize) = Commitment /\ OpenSofar(TagSize, b \o e).ok
  BY <1>2, <1>3 DEF CobbleCan, z
<1>5. OpenSofar(TagSize, b \o e).ok => OpenSofar(TagSize, b).ok
  BY ONLY <1>1, <1>2, Readable(S, T), e \in Seq(S), BodyNarrows
<1> QED BY <1>2, <1>4, <1>5 DEF b

\* A header, a nonce and a body that were read stay what they are.
LEMMA AgeBodyStays ==
  ASSUME NEW S, NEW x \in Seq(S), NEW e \in Seq(S), AgeBodied(x)
  PROVE  AgeBodied(x \o e) /\ AgeBody(x \o e) = AgeBody(x) \o e /\ AgeBody(x) \in Seq(S) /\ AgeKeyed(x \o e) = AgeKeyed(x)
<1> DEFINE z == x \o e
           w == AgeBehind(x)
           v == AgeBehind(z)
<1>1. Headed(x) /\ Len(x) >= HeaderSize + NonceSize /\ Headed(z)
  BY HeadGoesOn DEF AgeBodied
<1>2. /\ HeaderSize \in Nat /\ NonceSize \in Nat /\ HeaderSize <= Len(x) /\ Len(x) \in Nat /\ Len(e) \in Nat
      /\ Len(z) = Len(x) + Len(e)
  BY <1>1, SizesAre
<1>3. v = w \o e /\ w \in Seq(S) /\ Len(w) = Len(x) - HeaderSize
  BY <1>2, HeadStays DEF AgeBehind
<1> HIDE DEF z, w, v
<1>4. AgeBodied(z)
  BY <1>1, <1>2 DEF AgeBodied
<1>5. NonceSize <= Len(w)
  BY <1>1, <1>2, <1>3
<1>6. First(v, NonceSize) = First(w, NonceSize) /\ After(v, NonceSize) = After(w, NonceSize) \o e /\ After(w, NonceSize) \in Seq(S)
  <2>1. w \in Seq(S) /\ e \in Seq(S) /\ NonceSize \in Nat /\ NonceSize <= Len(w)
    BY <1>2, <1>3, <1>5
  <2>2. /\ First(w \o e, NonceSize) = First(w, NonceSize) /\ After(w \o e, NonceSize) = After(w, NonceSize) \o e
        /\ After(w, NonceSize) \in Seq(S)
    BY ONLY <2>1, HeadStays
  <2> QED BY <1>3, <2>2
<1> QED BY <1>4, <1>6 DEF AgeBody, AgeKeyed, w, v, z

LEMMA AgeNarrows ==
  ASSUME NEW S, NEW T, Readable(S, T), NEW x \in Seq(S), NEW e \in Seq(S), AgeCan(x \o e)
  PROVE  AgeCan(x)
<1> DEFINE b == AgeBody(x)
           z == x \o e
<1>1. ~BadHead(x)
  BY HeadGoesOn DEF AgeCan
<1>2. ASSUME AgeBodied(x), OpenCount(1, b) # 0  PROVE AgeFramed(x)
  <2>1. AgeBodied(z) /\ AgeBody(z) = b \o e /\ b \in Seq(S) /\ AgeKeyed(z) = AgeKeyed(x)
    BY <1>2, AgeBodyStays
  <2>2. AgeBodied(z) /\ OpenCount(1, AgeBody(z)) # 0 => AgeFramed(z)
    BY DEF AgeCan
  <2> HIDE DEF b, z
  <2>3. /\ OpenCount(1, b) \in Nat /\ OpenCount(1, b \o e) \in Nat
        /\ OpenCount(1, b) <= OpenCount(1, b \o e)
        /\ OpenSofar(1, b \o e).ok => OpenSofar(1, b).ok
    <3>1. 1 \in Nat
      OBVIOUS
    <3> QED BY ONLY <2>1, <3>1, Readable(S, T), e \in Seq(S), BodyNarrows
  <2>4. OpenCount(1, AgeBody(z)) # 0
    BY <1>2, <2>1, <2>3
  <2>5. AgeFramed(z)
    BY <2>1, <2>2, <2>4
  <2>6. AgeKeyed(x) /\ OpenSofar(1, b).ok /\ OpenCount(1, b \o e) <= MaxChunkIndex
    BY <2>1, <2>3, <2>5 DEF AgeFramed
  <2>7. OpenCount(1, b) <= MaxChunkIndex
    BY <2>3, <2>6, SizesAre
  <2> QED BY <2>6, <2>7 DEF AgeFramed, b
<1> QED BY <1>1, <1>2 DEF AgeCan

LEMMA FrameNarrows ==
  ASSUME NEW c, NEW S, NEW T, Legible(c, S, T), NEW x \in Seq(S), NEW e \in Seq(S), CanAt(c, x \o e)
  PROVE  CanAt(c, x)
<1>1. CASE c.direction = "encrypt"
  BY <1>1, SealsNarrow DEF CanAt
<1>2. CASE c.direction # "encrypt"
  BY <1>2, AgeNarrows, CobbleNarrows DEF CanAt, Legible
<1> QED BY <1>1, <1>2

\* The one-shot functions end as a stream that read it all.
LEMMA FrameOneShotIs ==
  ASSUME NEW c, NEW S, NEW T, Legible(c, S, T), NEW d \in Seq(S)
  PROVE  FrameOneShot(c, d) = Entire(CanAt(c, d), OutAt(c, d), FrameFinish(c, StateAt(c, d)))
<1>1. CASE c.tool # "age"
  <2>1. CASE c.direction = "encrypt"
    BY <1>1, <2>1, CobbleEncrypts DEF FrameOneShot, CanAt, OutAt, FrameFinish, StateAt
  <2>2. CASE c.direction # "encrypt"
    BY <1>1, <2>2, CobbleDecrypts DEF FrameOneShot, CanAt, OutAt, FrameFinish, StateAt
  <2> QED BY <2>1, <2>2
<1>2. CASE c.tool = "age"
  <2> DEFINE U    == Given(c, S, T)
             r    == FrameUpdate(c, AgeStart, d)
             last == FrameFinish(c, r.state)
             can  == CanAt(c, d)
             out  == OutAt(c, d)
             s    == StateAt(c, d)
  <2>1. FrameOneShot(c, d) = Joined(r, last)
    BY <1>2 DEF FrameOneShot, AgeOneShot
  <2>2. GoesOn(U, r, can, s, <<>>, out)
    <3>1. AgeStart = StateAt(c, <<>>) /\ CanAt(c, <<>>) /\ OutAt(c, <<>>) = <<>>
      BY <1>2, FrameStarts DEF FrameStart
    <3>2. <<>> \in Seq(S) /\ <<>> \o d = d
      OBVIOUS
    <3>3. GoesOn(U, FrameUpdate(c, StateAt(c, <<>>), d), CanAt(c, <<>> \o d), StateAt(c, <<>> \o d),
                 OutAt(c, <<>>), OutAt(c, <<>> \o d))
      BY <3>1, <3>2, FrameGoesOn
    <3> QED BY <3>1, <3>2, <3>3
  <2> HIDE DEF U, r, can, out, s
  <2>3. CASE can
    <3>1. r.ok = TRUE /\ r.state = s /\ r.out \in Seq(U) /\ <<>> \o r.out = out
      BY <2>2, <2>3 DEF GoesOn
    <3>2. r.out = out
      BY ONLY <3>1
    <3>3. Joined(r, last) = IF last.ok THEN Opened(out \o last.out) ELSE Unopened
      BY <3>1, <3>2 DEF Joined
    <3> QED BY <2>1, <2>3, <3>1, <3>3 DEF Entire, can, out, s
  <2>4. CASE ~can
    <3>1. r.ok = FALSE
      BY <2>2, <2>4 DEF GoesOn
    <3> QED BY <2>1, <2>4, <3>1 DEF Joined, Entire, can
  <2> QED BY <2>3, <2>4
<1> QED BY <1>1, <1>2

\* What is held back is less than a header, or than a frame and its end.
LEMMA FrameHolds ==
  ASSUME NEW c, NEW S, NEW x \in Seq(S), CanAt(c, x)
  PROVE  Len(StateAt(c, x).buffer) <= MaxHeader \/ Len(StateAt(c, x).buffer) < FrameSize + TagSize
<1>0. /\ Len(x) \in Nat /\ HeaderSize \in Nat /\ NonceSize \in Nat /\ TagSize \in Nat \ {0} /\ ChunkSize \in Nat
      /\ FrameSize = ChunkSize + TagSize /\ MaxHeader \in Nat /\ NonceSize <= MaxHeader /\ CommitSize <= MaxHeader
      /\ CommitSize \in Nat /\ FrameSize \in Nat
  BY SizesAre
<1>1. CASE c.direction = "encrypt"
  <2>1. ASSUME NEW kept \in {0, 1}  PROVE Len(SealRest(kept, x)) < FrameSize + TagSize
    <3>1. <<>> \in Seq(Sealing(S))
      OBVIOUS
    <3>2. SealRest(kept, x) \in Seq(S) /\ Len(SealRest(kept, x)) <= ChunkSize
      BY <3>1, SealedType
    <3> DEFINE w == SealRest(kept, x)
    <3> HIDE DEF w
    <3>3. w \in Seq(S) /\ Len(w) <= ChunkSize
      BY <3>2 DEF w
    <3> QED BY <3>3, <1>0 DEF w
  <2>2. AgeSealing(x).buffer = SealRest(1, x) /\ CobbleSealing(x).buffer = SealRest(0, x)
    BY DEF AgeSealing, CobbleSealing, AgeState
  <2> QED BY <1>1, <2>1, <2>2 DEF StateAt
<1>2. CASE c.tool # "age" /\ c.direction # "encrypt"
  <2>1. CASE Len(x) < CommitSize
    <3>1. CobbleOpening(x).buffer = x
      BY <2>1 DEF CobbleOpening
    <3> QED BY <1>0, <1>2, <2>1, <3>1 DEF StateAt
  <2>2. CASE ~(Len(x) < CommitSize)
    <3> DEFINE b == CobbleBody(x)
               w == OpenRest(TagSize, b)
    <3>1. CobbleOpening(x).buffer = w
      BY <2>2 DEF CobbleOpening
    <3>2. b \in Seq(S)
      BY <1>0, <2>2 DEF CobbleBody, After
    <3> HIDE DEF b
    <3>3. Len(w) < FrameSize + TagSize
      BY <1>0, <3>2, OpenRestIs
    <3> QED BY <1>2, <3>1, <3>3 DEF StateAt
  <2> QED BY <2>1, <2>2
<1>3. CASE c.tool = "age" /\ c.direction # "encrypt"
  <2>0. StateAt(c, x) = AgeOpening(x) /\ ~BadHead(x)
    BY <1>3 DEF StateAt, CanAt, AgeCan
  <2>1. CASE ~Headed(x)
    <3>1. AgeOpening(x) = AgeState(x, 0, FALSE, FALSE, FALSE, FALSE)
      BY <2>1 DEF AgeOpening, AgeEntered, AgeBodied
    <3>2. AgeOpening(x).buffer = x
      BY <3>1 DEF AgeState
    <3>3. Len(x) <= MaxHeader
      BY <2>0, <2>1, HeadIs
    <3> QED BY <2>0, <3>2, <3>3
  <2>2. CASE Headed(x) /\ ~AgeBodied(x)
    <3>1. AgeOpening(x) = AgeState(AgeBehind(x), 0, TRUE, FALSE, FALSE, FALSE)
      BY <2>2 DEF AgeOpening, AgeEntered
    <3>2. AgeOpening(x).buffer = AgeBehind(x)
      BY <3>1 DEF AgeState
    <3>3. HeaderSize <= Len(x) /\ Len(x) < HeaderSize + NonceSize
      BY <2>2, <1>0 DEF AgeBodied, Headed
    <3>4. Len(AgeBehind(x)) = Len(x) - HeaderSize
      BY <1>0, <3>3 DEF AgeBehind, After
    <3> QED BY <1>0, <2>0, <3>2, <3>3, <3>4
  <2>3. CASE AgeBodied(x)
    <3> DEFINE b == AgeBody(x)
               w == OpenRest(1, b)
    <3>1. AgeOpening(x) = AgeState(w, OpenCount(1, b), TRUE, TRUE, AgeKeyed(x), FALSE)
      BY <2>3 DEF AgeOpening
    <3>2. AgeOpening(x).buffer = w
      <4> HIDE DEF w, b
      <4> QED BY <3>1 DEF AgeState
    <3>3. b \in Seq(S)
      <4>1. <<>> \in Seq(S)
        OBVIOUS
      <4> QED BY <4>1, <2>3, AgeBodyStays
    <3> HIDE DEF b
    <3>4. Len(w) < FrameSize + 1 /\ w \in Seq(S)
      BY <1>0, <3>3, OpenRestIs
    <3> HIDE DEF w
    <3>5. Len(w) \in Nat
      BY <3>4
    <3> QED BY <1>0, <2>0, <3>2, <3>4, <3>5
  <2> QED BY <2>1, <2>2, <2>3
<1> QED BY <1>1, <1>2, <1>3

\* The end of a stream gives bytes, or is refused and gives nothing.
LEMMA FrameEnds ==
  ASSUME NEW c, NEW S, NEW T, Legible(c, S, T), NEW x \in Seq(S)
  PROVE  /\ FrameIsOf(Given(c, S, T), FrameFinish(c, StateAt(c, x)))
         /\ ~FrameFinish(c, StateAt(c, x)).ok => FrameFinish(c, StateAt(c, x)) = Unopened
<1>0. /\ Len(x) \in Nat /\ HeaderSize \in Nat /\ NonceSize \in Nat /\ TagSize \in Nat /\ CommitSize \in Nat
  BY SizesAre
<1>1. CASE c.direction = "encrypt"
  <2> DEFINE U == Sealing(S)
  <2>0. Header \o Nonce \in Seq(U) /\ Commitment \in Seq(U) /\ <<>> \in Seq(U)
    <3>1. Header \in Seq(U) /\ Nonce \in Seq(U) /\ Commitment \in Seq(U)
      BY PrefacesAre
    <3> HIDE DEF U
    <3> QED BY <3>1
  <2>1. ASSUME NEW kept \in {0, 1}, NEW last \in BOOLEAN, NEW pre \in Seq(U)
        PROVE  pre \o Seal(SealCount(kept, x), last, SealRest(kept, x)) \in Seq(U)
    <3>1. SealCount(kept, x) \in Nat /\ SealRest(kept, x) \in Seq(S)
      BY <2>1, SealedType
    <3>2. Seal(SealCount(kept, x), last, SealRest(kept, x)) \in Seq(U)
      BY <3>1, SealIs
    <3> HIDE DEF U
    <3> QED BY <3>2
  <2> DEFINE s == AgeSealing(x)
             t == CobbleSealing(x)
  <2>2. /\ s.buffer = SealRest(1, x) /\ s.index = SealCount(1, x)
        /\ t.buffer = SealRest(0, x) /\ t.index = SealCount(0, x)
    BY DEF AgeSealing, CobbleSealing, AgeState
  <2>3. Preamble(s) \in Seq(U) /\ CobbleHeader(t) \in Seq(U)
    <3> HIDE DEF U
    <3> QED BY <2>0 DEF Preamble, CobbleHeader
  <2> HIDE DEF U, s, t
  <2>4. Preamble(s) \o Seal(s.index, TRUE, s.buffer) \in Seq(U)
    BY <2>1, <2>2, <2>3
  <2>5. CobbleHeader(t) \o Seal(t.index, FALSE, t.buffer) \in Seq(U)
    BY <2>1, <2>2, <2>3
  <2>6. FrameIsOf(U, AgeEncryptFinish(s)) /\ AgeEncryptFinish(s).ok
    BY <2>4 DEF AgeEncryptFinish, Opened, FrameIsOf
  <2>7. FrameIsOf(U, CobbleEncryptFinish(t)) /\ CobbleEncryptFinish(t).ok
    BY <2>5 DEF CobbleEncryptFinish, Opened, FrameIsOf
  <2> QED BY <1>1, <2>6, <2>7 DEF FrameFinish, StateAt, Given, U, s, t
<1>2. ASSUME Readable(S, T), NEW k, NEW last, NEW y \in Seq(S)
      PROVE  /\ FrameIsOf(T, Open(k, last, y)) /\ (~Open(k, last, y).ok => Open(k, last, y) = Unopened)
             /\ FrameIsOf(T, Unopened)
  <2>1. Open(k, last, y).ok \in BOOLEAN /\ Open(k, last, y).out \in Seq(T) /\ (~Open(k, last, y).ok => Open(k, last, y) = Unopened)
    BY <1>2, OpenIs
  <2>2. FrameIsOf(T, Unopened)
    <3>1. <<>> \in Seq(T)
      OBVIOUS
    <3> QED BY <3>1 DEF FrameIsOf, Unopened
  <2> QED BY <2>1, <2>2 DEF FrameIsOf
<1>3. CASE c.tool # "age" /\ c.direction # "encrypt"
  <2> DEFINE s == CobbleOpening(x)
  <2>1. s.header => s.buffer \in Seq(S)
    <3>1. CASE Len(x) < CommitSize
      BY <3>1 DEF CobbleOpening
    <3>2. CASE ~(Len(x) < CommitSize)
      <4> DEFINE b == CobbleBody(x)
      <4>1. s.buffer = OpenRest(TagSize, b)
        BY <3>2 DEF CobbleOpening
      <4>2. b \in Seq(S)
        BY <1>0, <3>2 DEF CobbleBody, After
      <4> HIDE DEF b, s
      <4>3. OpenRest(TagSize, b) \in Seq(S)
        BY <1>0, <4>2, OpenRestIs
      <4> QED BY <4>1, <4>3
    <3> QED BY <3>1, <3>2
  <2> HIDE DEF s
  <2>2. Readable(S, T)
    BY <1>3 DEF Legible
  <2> DEFINE o == Open(s.index, FALSE, s.buffer)
             r == CobbleDecryptFinish(s)
  <2>3. s.header => FrameIsOf(T, o) /\ (~o.ok => o = Unopened)
    BY <1>2, <2>1, <2>2
  <2>4. r = Unopened \/ (s.header /\ r = o)
    BY DEF CobbleDecryptFinish
  <2>5. FrameIsOf(T, Unopened)
    BY <1>2, <2>2, x \in Seq(S)
  <2> HIDE DEF o, r
  <2>6. FrameIsOf(T, r) /\ (~r.ok => r = Unopened)
    BY <2>3, <2>4, <2>5
  <2> QED BY <1>3, <2>6 DEF FrameFinish, StateAt, Given, s, r
<1>4. CASE c.tool = "age" /\ c.direction # "encrypt"
  <2> DEFINE s == AgeOpening(x)
  <2>1. s.nonce => s.buffer \in Seq(S)
    <3>1. CASE ~AgeBodied(x)
      <4>1. AgeOpening(x) = AgeEntered(x)
        BY <3>1 DEF AgeOpening
      <4>2. AgeEntered(x).nonce = FALSE
        BY <3>1 DEF AgeEntered, AgeState
      <4> QED BY <4>1, <4>2
    <3>2. CASE AgeBodied(x)
      <4> DEFINE b == AgeBody(x)
                 w == OpenRest(1, b)
      <4>1. s = AgeState(w, OpenCount(1, b), TRUE, TRUE, AgeKeyed(x), FALSE)
        BY <3>2 DEF AgeOpening
      <4>2. s.buffer = w
        <5> HIDE DEF w, b, s
        <5> QED BY <4>1 DEF AgeState
      <4>3. b \in Seq(S)
        <5>1. <<>> \in Seq(S)
          OBVIOUS
        <5> QED BY <5>1, <3>2, AgeBodyStays
      <4> HIDE DEF b, s
      <4>4. w \in Seq(S)
        BY <4>3, OpenRestIs
      <4> QED BY <4>2, <4>4
    <3> QED BY <3>1, <3>2
  <2> HIDE DEF s
  <2>2. Readable(S, T)
    BY <1>4 DEF Legible
  <2> DEFINE o == Open(s.index, TRUE, s.buffer)
             r == AgeDecryptFinish(s)
  <2>3. s.nonce => FrameIsOf(T, o) /\ (~o.ok => o = Unopened)
    BY <1>2, <2>1, <2>2
  <2>4. r = Unopened \/ (s.nonce /\ r = o)
    BY DEF AgeDecryptFinish
  <2>5. FrameIsOf(T, Unopened)
    BY <1>2, <2>2, x \in Seq(S)
  <2> HIDE DEF o, r
  <2>6. FrameIsOf(T, r) /\ (~r.ok => r = Unopened)
    BY <2>3, <2>4, <2>5
  <2> QED BY <1>4, <2>6 DEF FrameFinish, StateAt, Given, s, r
<1> QED BY <1>1, <1>3, <1>4

-----------------------------------------------------------------------------
(* What opens is what was sealed. *)

\* The sealed bytes of S are of chunks of p, each at its place, and the last
\* flag is on the last one, or on an empty one behind others.
Genuine(S, p) ==
  \A b \in S : b[1] = "s" =>
    /\ b[2] \in Nat
    /\ \/ b[4] = MessageChunk(p, b[2]) /\ (b[3] => Len(p) <= (b[2] + 1) * ChunkSize)
       \/ b[2] > 0 /\ b[3] /\ b[4] = <<>>

\* A chunk of a message is full, or its end, or behind it.
LEMMA MessageChunkIs ==
  ASSUME NEW T, NEW p \in Seq(T), NEW k \in Nat
  PROVE  /\ k * ChunkSize \in Nat /\ (k + 1) * ChunkSize = k * ChunkSize + ChunkSize
         /\ Len(MessageChunk(p, k)) = ChunkSize =>
              /\ (k + 1) * ChunkSize <= Len(p)
              /\ MessageChunk(p, k) = SubSeq(p, k * ChunkSize + 1, (k + 1) * ChunkSize)
         /\ k * ChunkSize <= Len(p) /\ Len(p) <= (k + 1) * ChunkSize =>
              /\ MessageChunk(p, k) = After(p, k * ChunkSize)
              /\ Len(MessageChunk(p, k)) = Len(p) - k * ChunkSize
         /\ k * ChunkSize <= Len(p) /\ Len(MessageChunk(p, k)) < ChunkSize => Len(p) < (k + 1) * ChunkSize
<1> DEFINE a == k * ChunkSize
           b == (k + 1) * ChunkSize
           m == MessageChunk(p, k)
           L == Len(p)
<1>1. a \in Nat /\ b = a + ChunkSize /\ ChunkSize \in Nat \ {0} /\ b \in Nat
  BY SizesAre
<1>2. m = SubSeq(p, a + 1, IF b < L THEN b ELSE L)
  BY DEF MessageChunk
<1>3. L \in Nat /\ L = Len(p)
  OBVIOUS
<1> HIDE DEF a, b, m, L
<1>4. CASE b < L
  <2>1. m = SubSeq(p, a + 1, b)
    BY <1>2, <1>4
  <2>2. Len(m) = ChunkSize
    BY ONLY <2>1, <1>1, <1>3, <1>4, p \in Seq(T)
  <2>3. b <= L /\ ~(L <= b) /\ ~(Len(m) < ChunkSize)
    BY ONLY <1>1, <1>3, <1>4, <2>2
  <2>4. /\ Len(m) = ChunkSize => b <= L /\ m = SubSeq(p, a + 1, b)
        /\ a <= L /\ L <= b => m = After(p, a) /\ Len(m) = L - a
        /\ a <= L /\ Len(m) < ChunkSize => L < b
    BY ONLY <2>1, <2>3
  <2> QED BY ONLY <1>1, <2>4 DEF a, b, m, L
<1>5. CASE ~(b < L)
  <2>1. m = SubSeq(p, a + 1, L)
    BY <1>2, <1>5
  <2>2. CASE a <= L
    <3>1. Len(m) = L - a
      BY ONLY <2>1, <2>2, <1>1, <1>3, p \in Seq(T)
    <3>2. m = After(p, a)
      BY <2>1, <1>3 DEF After
    <3>3. Len(m) = ChunkSize => L = b
      BY <1>1, <1>3, <1>5, <2>2, <3>1
    <3>4. Len(m) < ChunkSize => L < b
      BY <1>1, <1>3, <1>5, <2>2, <3>1
    <3>5. /\ Len(m) = ChunkSize => b <= L /\ m = SubSeq(p, a + 1, b)
          /\ a <= L /\ L <= b => m = After(p, a) /\ Len(m) = L - a
          /\ a <= L /\ Len(m) < ChunkSize => L < b
      <4>1. L = b => b <= L /\ m = SubSeq(p, a + 1, b)
        <5>1. L \in Nat /\ m = SubSeq(p, a + 1, L)
          BY <1>3, <2>1
        <5>2. L = b => b <= L
          BY ONLY <5>1
        <5> QED BY ONLY <5>1, <5>2
      <4> QED BY ONLY <3>1, <3>2, <3>3, <3>4, <4>1
    <3> QED BY ONLY <1>1, <3>5 DEF a, b, m, L
  <2>3. CASE ~(a <= L)
    <3>1. Len(m) = 0
      BY ONLY <2>1, <2>3, <1>1, <1>3, p \in Seq(T)
    <3> QED BY <1>1, <1>3, <2>3, <3>1 DEF a, b, m, L
  <2> QED BY <2>2, <2>3
<1> QED BY <1>4, <1>5

\* A sealed chunk that opens.
SealedThere(T, p, k, last, y) ==
  \E q \in Seq(T) : /\ Open(k, last, y).out = q /\ y = Seal(k, last, q) /\ Len(y) = Len(q) + TagSize
                    /\ \/ q = MessageChunk(p, k) /\ (last => Len(p) <= (k + 1) * ChunkSize)
                       \/ k > 0 /\ last /\ q = <<>>

LEMMA OpenedIsSealed ==
  ASSUME NEW S, NEW T, Readable(S, T), NEW p \in Seq(T), Genuine(S, p),
         NEW y \in Seq(S), NEW k \in Nat, NEW last \in BOOLEAN, Open(k, last, y).ok
  PROVE  SealedThere(T, p, k, last, y)
<1> DEFINE b == y[1]
           q == b[4]
<1>1. /\ Len(y) >= TagSize /\ Open(k, last, y).out = q /\ y = Seal(k, last, q) /\ b[1] = "s" /\ b \in S
      /\ Open(k, last, y).out \in Seq(T)
  BY OpenIs
<1>2. q \in Seq(T)
  BY <1>1
<1>3. TagSize \in Nat \ {0}
  BY SizesAre
<1> HIDE DEF b
<1>4. b = <<"s", k, last, q, 1>>
  <2> HIDE DEF q
  <2>1. Seal(k, last, q)[1] = <<"s", k, last, q, 1>>
    <3>1. Len(q) + TagSize \in Nat /\ Len(q) + TagSize >= 1
      BY <1>2, <1>3
    <3>2. 1 \in 1 .. Len(q) + TagSize
      BY <3>1
    <3> QED BY <3>2 DEF Seal
  <2> QED BY <1>1, <2>1 DEF b
<1>5. b[2] = k /\ b[3] = last
  <2> HIDE DEF q
  <2> QED BY ONLY <1>4
<1>6. Len(y) = Len(q) + TagSize
  <2> HIDE DEF q
  <2>1. Len(Seal(k, last, q)) = Len(q) + TagSize
    BY <1>2, SealIs
  <2> QED BY <1>1, <2>1
<1>7. \/ q = MessageChunk(p, k) /\ (last => Len(p) <= (k + 1) * ChunkSize)
      \/ k > 0 /\ last /\ q = <<>>
  BY <1>1, <1>5 DEF Genuine
<1> HIDE DEF q
<1> QED BY <1>1, <1>2, <1>6, <1>7 DEF SealedThere

\* A full frame is of a full chunk.
LEMMA FrameIsTrue ==
  ASSUME NEW S, NEW T, Readable(S, T), NEW p \in Seq(T), Genuine(S, p),
         NEW y \in Seq(S), NEW k \in Nat, Open(k, FALSE, y).ok, Len(y) = FrameSize
  PROVE  /\ (k + 1) * ChunkSize <= Len(p)
         /\ Open(k, FALSE, y).out = SubSeq(p, k * ChunkSize + 1, (k + 1) * ChunkSize)
         /\ y = Seal(k, FALSE, SubSeq(p, k * ChunkSize + 1, (k + 1) * ChunkSize))
<1>1. PICK q \in Seq(T) : /\ Open(k, FALSE, y).out = q /\ y = Seal(k, FALSE, q) /\ Len(y) = Len(q) + TagSize
                          /\ q = MessageChunk(p, k)
  <2>1. FALSE \in BOOLEAN
    OBVIOUS
  <2>2. SealedThere(T, p, k, FALSE, y)
    BY <2>1, OpenedIsSealed
  <2> QED BY <2>2 DEF SealedThere
<1>2. Len(q) = ChunkSize
  <2>1. Len(y) = Len(q) + TagSize /\ q \in Seq(T) /\ Len(y) = FrameSize
    BY <1>1
  <2> QED BY ONLY <2>1, SizesAre
<1>3. (k + 1) * ChunkSize <= Len(p) /\ q = SubSeq(p, k * ChunkSize + 1, (k + 1) * ChunkSize)
  BY <1>1, <1>2, MessageChunkIs
<1> QED BY <1>1, <1>3

\* Frames that all open are of the beginning of the message.
LEMMA BodyIsTrue ==
  ASSUME NEW S, NEW T, Readable(S, T), NEW p \in Seq(T), Genuine(S, p),
         NEW y \in Seq(S), NEW n \in Nat, n * FrameSize <= Len(y), OpenFrames(0, n, y).ok
  PROVE  /\ n * ChunkSize \in Nat /\ n * ChunkSize <= Len(p)
         /\ OpenFrames(0, n, y).out = SubSeq(p, 1, n * ChunkSize)
         /\ SubSeq(y, 1, n * FrameSize) = SealFrames(0, n, p)
<1>1. OpensAll(0, n, y) /\ OpenFrames(0, n, y).out = FlattenSeq(OpenedParts(0, n, y))
  BY OpenFramesIs DEF Opened, Unopened
<1> DEFINE part(i) == SubSeq(y, (i - 1) * FrameSize + 1, i * FrameSize)
           chunk(i) == SubSeq(p, (i - 1) * ChunkSize + 1, i * ChunkSize)
<1>2. FrameSize \in Nat \ {0} /\ ChunkSize \in Nat \ {0} /\ Len(p) \in Nat
  BY SizesAre
<1>3. ASSUME NEW i \in 1 .. n
      PROVE  /\ i * ChunkSize <= Len(p) /\ FrameAt(0, y, i).out = chunk(i) /\ part(i) = Seal(i - 1, FALSE, chunk(i))
  <2> DEFINE z == part(i)
             k == i - 1
  <2>1. z \in Seq(S) /\ Len(z) = FrameSize
    BY <1>2, PartIs
  <2>2. k \in Nat /\ k + 1 = i /\ 0 + i - 1 = k
    OBVIOUS
  <2>3. FrameAt(0, y, i) = Open(k, FALSE, z) /\ FrameAt(0, y, i).ok
    BY <1>1, <2>2 DEF OpensAll, FrameAt
  <2> HIDE DEF z, k
  <2>4. Open(k, FALSE, z).ok
    BY <2>3
  <2>5. /\ (k + 1) * ChunkSize <= Len(p)
        /\ Open(k, FALSE, z).out = SubSeq(p, k * ChunkSize + 1, (k + 1) * ChunkSize)
        /\ z = Seal(k, FALSE, SubSeq(p, k * ChunkSize + 1, (k + 1) * ChunkSize))
    BY <2>1, <2>2, <2>4, FrameIsTrue
  <2> QED BY <2>2, <2>3, <2>5 DEF z, k
<1>4. n * ChunkSize \in Nat /\ n * ChunkSize <= Len(p)
  <2>1. CASE n = 0
    <3>1. n * ChunkSize = 0
      BY <2>1, <1>2
    <3> QED BY <3>1, <1>2
  <2>2. CASE n # 0
    <3>1. n \in 1 .. n
      BY <2>2
    <3>2. n * ChunkSize <= Len(p)
      BY <3>1, <1>3
    <3>3. n * ChunkSize \in Nat
      BY <1>2
    <3> QED BY <3>2, <3>3
  <2> QED BY <2>1, <2>2
<1>5. OpenedParts(0, n, y) = Parted(p, ChunkSize, n)
  <2>1. \A i \in 1 .. n : FrameAt(0, y, i).out = SubSeq(p, (i - 1) * ChunkSize + 1, i * ChunkSize)
    BY <1>3
  <2> QED BY <2>1 DEF OpenedParts, Parted
<1>6. FlattenSeq(Parted(p, ChunkSize, n)) = SubSeq(p, 1, n * ChunkSize)
  BY <1>2, <1>4, FlattenParted
<1>7. SealedParts(0, n, p) = Parted(y, FrameSize, n)
  <2>1. \A i \in 1 .. n : Seal(0 + i - 1, FALSE, SubSeq(p, (i - 1) * ChunkSize + 1, i * ChunkSize))
                          = SubSeq(y, (i - 1) * FrameSize + 1, i * FrameSize)
    <3> TAKE i \in 1 .. n
    <3>1. 0 + i - 1 = i - 1
      OBVIOUS
    <3> QED BY <1>3, <3>1
  <2> QED BY <2>1 DEF SealedParts, Parted
<1>8. SealFrames(0, n, p) = FlattenSeq(SealedParts(0, n, p))
  BY <1>2, <1>4, SealedPartsAre
<1>9. FlattenSeq(Parted(y, FrameSize, n)) = SubSeq(y, 1, n * FrameSize)
  BY <1>2, FlattenParted
<1> QED BY <1>1, <1>4, <1>5, <1>6, <1>7, <1>8, <1>9

\* And the frame behind them, of the rest of it.
LastOf(p, k, last, y) ==
  /\ Open(k, last, y).out = After(p, k * ChunkSize) /\ y = Seal(k, last, After(p, k * ChunkSize))
  /\ Len(y) = Len(p) - k * ChunkSize + TagSize /\ Len(p) <= (k + 1) * ChunkSize

LEMMA LastIsTrue ==
  ASSUME NEW S, NEW T, Readable(S, T), NEW p \in Seq(T), Genuine(S, p),
         NEW y \in Seq(S), NEW k \in Nat, NEW last \in BOOLEAN, Open(k, last, y).ok,
         k * ChunkSize <= Len(p), last => k = 0 \/ Len(y) # TagSize, ~last => Len(y) < FrameSize
  PROVE  LastOf(p, k, last, y)
<1>1. PICK q \in Seq(T) : /\ Open(k, last, y).out = q /\ y = Seal(k, last, q) /\ Len(y) = Len(q) + TagSize
                          /\ \/ q = MessageChunk(p, k) /\ (last => Len(p) <= (k + 1) * ChunkSize)
                             \/ k > 0 /\ last /\ q = <<>>
  <2>1. SealedThere(T, p, k, last, y)
    BY OpenedIsSealed
  <2> QED BY <2>1 DEF SealedThere
<1>2. /\ TagSize \in Nat /\ FrameSize = ChunkSize + TagSize /\ ChunkSize \in Nat \ {0} /\ Len(p) \in Nat /\ Len(q) \in Nat
      /\ k * ChunkSize \in Nat /\ (k + 1) * ChunkSize = k * ChunkSize + ChunkSize
  BY SizesAre
<1>3. q = MessageChunk(p, k) /\ (last => Len(p) <= (k + 1) * ChunkSize)
  <2>1. ~(k > 0 /\ last /\ q = <<>>)
    BY <1>1, <1>2
  <2> QED BY <1>1, <2>1
<1>4. Len(p) <= (k + 1) * ChunkSize
  <2>1. CASE last
    BY <1>3, <2>1
  <2>2. CASE ~last
    <3>1. Len(MessageChunk(p, k)) < ChunkSize
      BY <1>1, <1>2, <1>3, <2>2
    <3>2. Len(p) < (k + 1) * ChunkSize
      BY <3>1, MessageChunkIs
    <3> DEFINE b == (k + 1) * ChunkSize
    <3>3. b \in Nat
      BY <1>2
    <3> HIDE DEF b
    <3> QED BY <3>2, <3>3, <1>2 DEF b
  <2> QED BY <2>1, <2>2
<1>5. q = After(p, k * ChunkSize) /\ Len(q) = Len(p) - k * ChunkSize
  BY <1>3, <1>4, MessageChunkIs
<1>6. Len(y) = Len(p) - k * ChunkSize + TagSize
  BY <1>1, <1>5
<1> QED BY <1>1, <1>4, <1>5, <1>6 DEF LastOf

-----------------------------------------------------------------------------
(* What is sealed opens again, and nothing else does. *)

\* What is sealed as it comes, and what its end adds, are the container.
SealedWhole(B, p, kept, last, pre, k) ==
  /\ SealedAs(pre, kept, p) \o ((IF p # <<>> THEN <<>> ELSE pre) \o Seal(k, last, SealRest(kept, p)))
     = Container(pre, k, last, p)
  /\ Container(pre, k, last, p) \in Seq(Sealing(B)) /\ k \in Nat /\ k * ChunkSize \in Nat /\ k * ChunkSize <= Len(p)

LEMMA SealsWhole ==
  ASSUME NEW B, NEW p \in Seq(B), NEW kept \in {0, 1}, NEW last \in BOOLEAN, NEW pre \in Seq(Sealing(B)),
         NEW k, k = SealCount(kept, p)
  PROVE  SealedWhole(B, p, kept, last, pre, k)
<1> DEFINE U == Sealing(B)
           w == SealRest(kept, p)
           F == SealFrames(0, k, p)
           L == Seal(k, last, w)
<1>1. k \in Nat /\ w \in Seq(B) /\ w = After(p, k * ChunkSize)
  BY SealedType DEF SealRest
<1>2. k * ChunkSize \in Nat /\ k * ChunkSize <= Len(p)
  <2> DEFINE m == Len(p)
  <2>1. /\ m \in Nat /\ ChunkSize \in Nat \ {0} /\ kept \in Nat
        /\ k = Frames(m, ChunkSize, kept)
    BY SizesAre DEF SealCount
  <2> HIDE DEF m
  <2>2. /\ k \in Nat /\ k * ChunkSize \in Nat
        /\ m < kept => k = 0
        /\ m >= kept => k * ChunkSize + kept <= m
    BY ONLY <2>1, FramesAre
  <2>3. k = 0 => k * ChunkSize = 0
    BY <2>1
  <2> QED BY <2>1, <2>2, <2>3 DEF m
<1>3. F \in Seq(U) /\ Len(F) = k * FrameSize
  <2>1. 0 \in Nat
    OBVIOUS
  <2> QED BY <1>1, <1>2, <2>1, FramesSealed
<1>4. L \in Seq(U)
  BY <1>1, SealIs
<1>5. Container(pre, k, last, p) = pre \o (F \o L)
  BY <1>1 DEF Container
<1> HIDE DEF U, F, L
<1>6. p = <<>> => F = <<>>
  <2>1. p = <<>> => k = 0
    BY SealsNothing
  <2>2. k = 0 => Len(F) = 0
    <3>1. FrameSize \in Nat
      BY SizesAre
    <3> QED BY <1>3, <3>1
  <2> QED BY <1>3, <2>1, <2>2
<1>7. pre \in Seq(U)
  BY DEF U
<1>8. pre \o (F \o L) \in Seq(U)
  BY ONLY <1>3, <1>4, <1>7
<1>9. CASE p # <<>>
  <2>1. SealedAs(pre, kept, p) = pre \o F
    BY <1>9 DEF SealedAs, F
  <2>2. (pre \o F) \o (<<>> \o L) = pre \o (F \o L)
    BY ONLY <1>3, <1>4, <1>7
  <2> QED BY <1>1, <1>2, <1>5, <1>8, <1>9, <2>1, <2>2 DEF SealedWhole, L, U
<1>10. CASE p = <<>>
  <2>1. SealedAs(pre, kept, p) = <<>>
    BY <1>10 DEF SealedAs
  <2>2. <<>> \o (pre \o L) = pre \o (<<>> \o L)
    BY ONLY <1>3, <1>4, <1>7
  <2> QED BY <1>1, <1>2, <1>5, <1>6, <1>8, <1>10, <2>1, <2>2 DEF SealedWhole, L, U
<1> QED BY <1>9, <1>10

LEMMA ForewordIs == ASSUME NEW B, NEW c  PROVE Foreword(c) \in Seq(Sealing(B)) /\ Kept(c) \in {0, 1} /\ (c.tool = "age") \in BOOLEAN
<1> DEFINE U == Sealing(B)
<1>1. Header \in Seq(U) /\ Nonce \in Seq(U) /\ Commitment \in Seq(U)
  BY PrefacesAre
<1> HIDE DEF U
<1>2. Header \o Nonce \in Seq(U)
  BY <1>1
<1> QED BY <1>1, <1>2 DEF Foreword, Kept, U

LEMMA SealedIs ==
  ASSUME NEW c, c.direction = "encrypt", NEW B, NEW p \in Seq(B)
  PROVE  /\ FrameOneShot(c, p) = IF Fits(c, p) THEN Opened(Sealed(c, p)) ELSE Unopened
         /\ Sealed(c, p) \in Seq(Sealing(B))
<1> DEFINE kept == Kept(c)
           k    == SealCount(kept, p)
           flag == (c.tool = "age")
           pre  == Foreword(c)
           s    == StateAt(c, p)
           o    == OutAt(c, p)
           last == FrameFinish(c, s)
           x    == Sealed(c, p)
<1>1. pre \in Seq(Sealing(B)) /\ kept \in {0, 1} /\ flag \in BOOLEAN
  BY ForewordIs
<1>2. /\ o \o ((IF p # <<>> THEN <<>> ELSE pre) \o Seal(k, flag, SealRest(kept, p))) = x
      /\ x \in Seq(Sealing(B))
  <2>1. o = SealedAs(pre, kept, p)
    BY DEF OutAt, Foreword, Kept
  <2>2. SealedWhole(B, p, kept, flag, pre, k)
    <3>1. k = SealCount(kept, p)
      OBVIOUS
    <3> HIDE DEF pre, kept, k, flag
    <3> QED BY ONLY <1>1, <3>1, p \in Seq(B), SealsWhole
  <2>3. x = Container(pre, k, flag, p)
    BY DEF Sealed
  <2> HIDE DEF o, x, pre, kept, k, flag
  <2> QED BY <2>1, <2>2, <2>3 DEF SealedWhole
<1>3. last = Opened((IF p # <<>> THEN <<>> ELSE pre) \o Seal(k, flag, SealRest(kept, p)))
  <2>1. CASE c.tool = "age"
    <3> DEFINE t == AgeSealing(p)
    <3>1. t.buffer = SealRest(1, p) /\ t.index = SealCount(1, p) /\ t.header = (p # <<>>)
      BY DEF AgeSealing, AgeState
    <3>2. last = AgeEncryptFinish(t) /\ k = SealCount(1, p) /\ kept = 1 /\ flag = TRUE /\ pre = Header \o Nonce
      BY <2>1 DEF FrameFinish, StateAt, Kept, Foreword
    <3> HIDE DEF t
    <3>3. Preamble(t) = IF p # <<>> THEN <<>> ELSE Header \o Nonce
      BY <3>1 DEF Preamble
    <3> QED BY <3>1, <3>2, <3>3 DEF AgeEncryptFinish
  <2>2. CASE c.tool # "age"
    <3> DEFINE t == CobbleSealing(p)
    <3>1. t.buffer = SealRest(0, p) /\ t.index = SealCount(0, p) /\ t.header = (p # <<>>)
      BY DEF CobbleSealing
    <3>2. last = CobbleEncryptFinish(t) /\ k = SealCount(0, p) /\ kept = 0 /\ flag = FALSE /\ pre = Commitment
      BY <2>2 DEF FrameFinish, StateAt, Kept, Foreword
    <3> HIDE DEF t
    <3>3. CobbleHeader(t) = IF p # <<>> THEN <<>> ELSE Commitment
      BY <3>1 DEF CobbleHeader
    <3> QED BY <3>1, <3>2, <3>3 DEF CobbleEncryptFinish
  <2> QED BY <2>1, <2>2
<1>4. FrameOneShot(c, p) = Entire(CanAt(c, p), o, last)
  <2>1. Legible(c, B, {})
    BY DEF Legible
  <2> QED BY <2>1, FrameOneShotIs
<1>5. CanAt(c, p) <=> Fits(c, p)
  BY DEF CanAt, Fits
<1> HIDE DEF last, o, x, k, pre, flag, kept
<1>6. last.ok = TRUE /\ last.out = (IF p # <<>> THEN <<>> ELSE pre) \o Seal(k, flag, SealRest(kept, p))
  BY ONLY <1>3 DEF Opened
<1>7. Entire(CanAt(c, p), o, last) = IF Fits(c, p) THEN Opened(x) ELSE Unopened
  BY <1>2, <1>5, <1>6 DEF Entire
<1> QED BY <1>2, <1>4, <1>7 DEF x

\* A sealed chunk opens.
LEMMA SealOpens ==
  ASSUME NEW T, NEW q \in Seq(T), NEW k \in Nat, NEW last \in BOOLEAN
  PROVE  Open(k, last, Seal(k, last, q)) = Opened(q)
<1> DEFINE y == Seal(k, last, q)
<1>1. Len(q) \in Nat /\ TagSize \in Nat \ {0}
  BY SizesAre
<1>2. Len(y) = Len(q) + TagSize /\ \A i \in 1 .. Len(q) + TagSize : y[i] = <<"s", k, last, q, i>>
  BY SealIs
<1>3. 1 \in 1 .. Len(q) + TagSize
  BY <1>1
<1> HIDE DEF y
<1>4. y[1] = <<"s", k, last, q, 1>>
  BY <1>2, <1>3
<1>5. y[1][1] = "s" /\ y[1][4] = q
  BY ONLY <1>4
<1>6. Len(y) >= TagSize
  BY <1>1, <1>2
<1> QED BY <1>5, <1>6 DEF Open, y

\* And so do frames of them, with whatever behind them.
BodyBack(B, p, n, L, b) ==
  /\ b \in Seq(Sealing(B)) /\ n * FrameSize \in Nat /\ Len(b) = n * FrameSize + Len(L) /\ After(b, n * FrameSize) = L
  /\ OpenFrames(0, n, b) = Opened(SubSeq(p, 1, n * ChunkSize))

LEMMA BodyComesBack ==
  ASSUME NEW B, NEW p \in Seq(B), NEW n \in Nat, n * ChunkSize <= Len(p), NEW L \in Seq(Sealing(B)),
         NEW b, b = SealFrames(0, n, p) \o L
  PROVE  BodyBack(B, p, n, L, b)
<1> DEFINE U == Sealing(B)
           F == SealFrames(0, n, p)
           chunk(i) == SubSeq(p, (i - 1) * ChunkSize + 1, i * ChunkSize)
<1>0. FrameSize \in Nat \ {0} /\ ChunkSize \in Nat \ {0} /\ 0 \in Nat /\ n * FrameSize \in Nat
  BY SizesAre
<1>1. /\ F \in Seq(U) /\ Len(F) = n * FrameSize
      /\ \A i \in 1 .. n : SubSeq(F, (i - 1) * FrameSize + 1, i * FrameSize) = Seal(0 + i - 1, FALSE, chunk(i))
  BY <1>0, FramesSealed
<1>2. L \in Seq(U)
  OBVIOUS
<1>3. \A i \in 1 .. n : SubSeq(b, (i - 1) * FrameSize + 1, i * FrameSize) = Seal(0 + i - 1, FALSE, chunk(i))
  <2> TAKE i \in 1 .. n
  <2> DEFINE u == (i - 1) * FrameSize + 1
             v == i * FrameSize
  <2> HIDE DEF chunk
  <2>1. u \in Int /\ v \in Int /\ 1 <= u /\ u <= v + 1 /\ v <= Len(F)
    <3>1. n * FrameSize <= Len(F)
      BY <1>0, <1>1
    <3> HIDE DEF F, U
    <3> QED BY <1>0, <1>1, <3>1, PartIs
  <2>2. SubSeq(F, u, v) = Seal(0 + i - 1, FALSE, chunk(i))
    BY <1>1
  <2> HIDE DEF u, v, F, U
  <2>3. SubSeq(F \o L, u, v) = SubSeq(F, u, v)
    BY ONLY <1>1, <1>2, <2>1, LeftSlice
  <2> QED BY <2>2, <2>3 DEF F, u, v
<1>4. \A i \in 1 .. n : FrameAt(0, b, i) = Opened(chunk(i))
  <2> TAKE i \in 1 .. n
  <2> DEFINE q == chunk(i)
             k == 0 + i - 1
  <2>1. q \in Seq(B)
    BY <1>0, PartIs
  <2>2. k \in Nat /\ FALSE \in BOOLEAN
    OBVIOUS
  <2>3. FrameAt(0, b, i) = Open(k, FALSE, Seal(k, FALSE, q))
    BY <1>3 DEF FrameAt
  <2> HIDE DEF q, k
  <2>4. Open(k, FALSE, Seal(k, FALSE, q)) = Opened(q)
    BY <2>1, <2>2, SealOpens
  <2> QED BY <2>3, <2>4 DEF q
<1>5. \A i \in 1 .. n : FrameAt(0, b, i).ok = TRUE /\ FrameAt(0, b, i).out = chunk(i)
  <2> TAKE i \in 1 .. n
  <2> DEFINE q == chunk(i)
             r == FrameAt(0, b, i)
  <2>1. r = Opened(q)
    BY <1>4
  <2> HIDE DEF q, r
  <2>2. r.ok = TRUE /\ r.out = q
    BY ONLY <2>1 DEF Opened
  <2> QED BY <2>2 DEF q, r
<1>6. OpensAll(0, n, b)
  BY <1>5 DEF OpensAll
<1>7. OpenedParts(0, n, b) = Parted(p, ChunkSize, n)
  BY <1>5 DEF OpenedParts, Parted
<1>8. FlattenSeq(Parted(p, ChunkSize, n)) = SubSeq(p, 1, n * ChunkSize)
  BY <1>0, FlattenParted
<1>9. OpenFrames(0, n, b) = Opened(SubSeq(p, 1, n * ChunkSize))
  BY <1>6, <1>7, <1>8, OpenFramesIs
<1>10. b \in Seq(U) /\ Len(b) = n * FrameSize + Len(L) /\ After(b, n * FrameSize) = L
  <2> DEFINE m == n * FrameSize
  <2> HIDE DEF m, F, U
  <2>1. F \in Seq(U) /\ Len(F) = m /\ m \in Nat /\ L \in Seq(U) /\ b = F \o L
    BY <1>0, <1>1, <1>2 DEF m, F
  <2>2. b \in Seq(U) /\ Len(b) = m + Len(L) /\ Len(L) \in Nat
    <3>1. F \in Seq(U) /\ L \in Seq(U)
      BY <2>1
    <3>2. F \o L \in Seq(U) /\ Len(F \o L) = Len(F) + Len(L) /\ Len(L) \in Nat
      BY ONLY <3>1
    <3> QED BY ONLY <2>1, <3>2
  <2>3. SubSeq(F \o L, m + 1, m + Len(L)) = L
    BY ONLY <2>1
  <2>4. After(b, m) = L
    BY <2>1, <2>2, <2>3 DEF After
  <2> QED BY <2>2, <2>4 DEF m
<1> QED BY <1>0, <1>9, <1>10 DEF BodyBack

\* A front, and what is behind it.
Behind(U, a, b, m, d) == d \in Seq(U) /\ Len(d) = m + Len(b) /\ First(d, m) = a /\ After(d, m) = b

LEMMA Fronted ==
  ASSUME NEW U, NEW a \in Seq(U), NEW b \in Seq(U), NEW m, m = Len(a), NEW d, d = a \o b
  PROVE  Behind(U, a, b, m, d)
<1>1. /\ Len(a) \in Nat /\ Len(b) \in Nat /\ a \o b \in Seq(U) /\ Len(a \o b) = Len(a) + Len(b)
  OBVIOUS
<1>2. SubSeq(a \o b, 1, Len(a)) = a
  OBVIOUS
<1>3. SubSeq(a \o b, Len(a) + 1, Len(a) + Len(b)) = b
  OBVIOUS
<1> QED BY <1>1, <1>2, <1>3 DEF First, After, Behind

LEMMA Reassembled ==
  ASSUME NEW U, NEW d \in Seq(U), NEW m \in Nat, m <= Len(d)
  PROVE  First(d, m) \o After(d, m) = d
<1> DEFINE L == Len(d)
<1>1. d \in Seq(U) /\ m \in Nat /\ m <= L /\ L <= Len(d) /\ L \in Nat
  OBVIOUS
<1> HIDE DEF L
<1>2. SubSeq(d, 1, m) \o SubSeq(d, m + 1, L) = SubSeq(d, 1, L)
  BY ONLY <1>1
<1>3. SubSeq(d, 1, Len(d)) = d
  OBVIOUS
<1> QED BY <1>2, <1>3 DEF First, After, L

\* The rest that is behind k chunks, and the count that leaves it.
LEMMA RestFits ==
  ASSUME NEW B, NEW p \in Seq(B), NEW kept \in {0, 1}, NEW k, k = SealCount(kept, p)
  PROVE  /\ k \in Nat /\ k * ChunkSize \in Nat /\ k * ChunkSize <= Len(p)
         /\ SealRest(kept, p) = After(p, k * ChunkSize) /\ SealRest(kept, p) \in Seq(B)
         /\ Len(SealRest(kept, p)) = Len(p) - k * ChunkSize
         /\ Len(SealRest(kept, p)) < ChunkSize + kept
         /\ k # 0 => Len(SealRest(kept, p)) >= kept
<1> DEFINE m == Len(p)
           a == k * ChunkSize
<1>1. m \in Nat /\ ChunkSize \in Nat \ {0} /\ kept \in Nat /\ k = Frames(m, ChunkSize, kept)
  BY SizesAre DEF SealCount
<1> HIDE DEF m
<1>2. /\ k \in Nat /\ a \in Nat
      /\ m < kept => k = 0
      /\ m >= kept => a + kept <= m /\ m < a + kept + ChunkSize
  BY ONLY <1>1, FramesAre
<1>3. k = 0 => a = 0
  BY <1>1
<1> HIDE DEF a
<1>4. a <= m /\ m - a < ChunkSize + kept /\ (k # 0 => m - a >= kept)
  BY <1>1, <1>2, <1>3
<1>5. After(p, a) \in Seq(B) /\ Len(After(p, a)) = m - a
  BY <1>2, <1>4 DEF After, m
<1>6. SealRest(kept, p) = After(p, a)
  BY DEF SealRest, a
<1> QED BY <1>2, <1>4, <1>5, <1>6 DEF a, m

\* Cobblestone gives back what it sealed.
LEMMA CobbleComesBack ==
  ASSUME NEW B, NEW p \in Seq(B)
  PROVE  CobbleDecrypt(Container(Commitment, SealCount(0, p), FALSE, p)) = Opened(p)
<1> DEFINE U == Sealing(B)
           k == SealCount(0, p)
           w == SealRest(0, p)
           L == Seal(k, FALSE, w)
           b == SealFrames(0, k, p) \o L
           d == Container(Commitment, k, FALSE, p)
           o == SubSeq(p, 1, k * ChunkSize)
<1>0. /\ TagSize \in Nat \ {0} /\ ChunkSize \in Nat \ {0} /\ FrameSize = ChunkSize + TagSize /\ FrameSize \in Nat \ {0}
      /\ CommitSize \in Nat
  BY SizesAre
<1>1. /\ k \in Nat /\ k * ChunkSize \in Nat /\ k * ChunkSize <= Len(p) /\ w = After(p, k * ChunkSize) /\ w \in Seq(B)
      /\ Len(w) < ChunkSize
  <2> HIDE DEF w, k
  <2>1. 0 \in {0, 1} /\ k = SealCount(0, p) /\ w = SealRest(0, p)
    BY DEF k, w
  <2>2. /\ k \in Nat /\ k * ChunkSize \in Nat /\ k * ChunkSize <= Len(p)
        /\ SealRest(0, p) = After(p, k * ChunkSize) /\ SealRest(0, p) \in Seq(B)
        /\ Len(SealRest(0, p)) < ChunkSize + 0
    BY ONLY <2>1, p \in Seq(B), RestFits
  <2> QED BY <1>0, <2>1, <2>2
<1>2. L \in Seq(U) /\ Len(L) = Len(w) + TagSize /\ Len(w) \in Nat /\ Open(k, FALSE, L) = Opened(w)
  <2> HIDE DEF k, w
  <2>1. FALSE \in BOOLEAN /\ k \in Nat /\ w \in Seq(B) /\ Len(w) \in Nat
    BY <1>1
  <2>2. Seal(k, FALSE, w) \in Seq(U) /\ Len(Seal(k, FALSE, w)) = Len(w) + TagSize
    BY <2>1, SealIs
  <2>3. Open(k, FALSE, Seal(k, FALSE, w)) = Opened(w)
    BY <2>1, SealOpens
  <2> QED BY <2>1, <2>2, <2>3
<1>3. /\ b \in Seq(U) /\ k * FrameSize \in Nat /\ Len(b) = k * FrameSize + Len(L) /\ After(b, k * FrameSize) = L
      /\ OpenFrames(0, k, b) = Opened(o)
  <2> HIDE DEF L, k, U
  <2>1. k \in Nat /\ k * ChunkSize <= Len(p) /\ L \in Seq(Sealing(B)) /\ b = SealFrames(0, k, p) \o L
    BY <1>1, <1>2 DEF U
  <2> HIDE DEF b
  <2>2. BodyBack(B, p, k, L, b)
    BY ONLY <2>1, p \in Seq(B), BodyComesBack
  <2> QED BY <2>2 DEF BodyBack, U, o
<1>4. d = Commitment \o b /\ Commitment \in Seq(U) /\ Len(Commitment) = CommitSize
  BY <1>1, PrefacesAre DEF Container
<1> HIDE DEF U, k, w, L, b, d, o
<1>5. d \in Seq(U) /\ Len(d) = CommitSize + Len(b) /\ First(d, CommitSize) = Commitment /\ After(d, CommitSize) = b
  <2>1. Commitment \in Seq(U) /\ b \in Seq(U) /\ CommitSize = Len(Commitment) /\ d = Commitment \o b
    BY <1>3, <1>4
  <2>2. Behind(U, Commitment, b, CommitSize, d)
    BY ONLY <2>1, Fronted
  <2> QED BY <2>2 DEF Behind
<1>6. OpenCount(TagSize, b) = k
  <2> DEFINE N == Len(b)
             a == k * FrameSize
  <2>1. N = a + Len(L) /\ a \in Nat /\ Len(L) = Len(w) + TagSize /\ Len(w) \in Nat /\ Len(w) < ChunkSize
    BY <1>1, <1>2, <1>3
  <2> HIDE DEF N, a
  <2>2. N \in Nat /\ a + TagSize <= N /\ N < a + TagSize + FrameSize
    BY <1>0, <2>1
  <2>3. Frames(N, FrameSize, TagSize) = k
    <3>1. N \in Nat /\ FrameSize \in Nat \ {0} /\ TagSize \in Nat /\ k \in Nat /\ k * FrameSize + TagSize <= N
          /\ N < k * FrameSize + TagSize + FrameSize
      BY <1>0, <1>1, <2>2 DEF a
    <3> QED BY ONLY <3>1, FramesOnly
  <2> QED BY <2>3 DEF OpenCount, N
<1>7. CobbleBody(d) = b /\ OpenRest(TagSize, b) = L /\ OpenSofar(TagSize, b) = Opened(o)
  BY <1>3, <1>5, <1>6 DEF CobbleBody, OpenRest, OpenSofar
<1>8. ~(Len(d) < CommitSize)
  BY <1>0, <1>2, <1>3, <1>5
<1>9. OpenSofar(TagSize, b).ok = TRUE /\ OpenSofar(TagSize, b).out = o
  <2> DEFINE r == OpenSofar(TagSize, b)
  <2>1. r = Opened(o)
    BY <1>7
  <2> HIDE DEF r
  <2>2. r.ok = TRUE /\ r.out = o
    BY ONLY <2>1 DEF Opened
  <2> QED BY <2>2 DEF r
<1>10. CobbleCan(d) /\ CobbleOpened(d) = o
  BY <1>5, <1>7, <1>8, <1>9 DEF CobbleCan, CobbleOpened
<1>11. CobbleDecryptFinish(CobbleOpening(d)) = Opened(w)
  <2> DEFINE s == CobbleOpening(d)
  <2>1. s = [buffer |-> L, index |-> k, header |-> TRUE]
    BY <1>6, <1>7, <1>8 DEF CobbleOpening
  <2> HIDE DEF s
  <2>2. s.buffer = L /\ s.index = k /\ s.header = TRUE
    BY ONLY <2>1
  <2>3. Len(L) \in TagSize .. FrameSize - 1
    BY <1>0, <1>1, <1>2
  <2> QED BY <1>2, <2>2, <2>3 DEF CobbleDecryptFinish, s
<1>12. o \o w = p
  <2> DEFINE a == k * ChunkSize
  <2>1. a \in Nat /\ a <= Len(p) /\ o = First(p, a) /\ w = After(p, a)
    BY <1>1 DEF o, First
  <2> HIDE DEF a
  <2> QED BY <2>1, Reassembled
<1>13. CobbleDecrypt(d) = Entire(TRUE, o, Opened(w))
  <2>1. CobbleDecrypt(d) = Entire(CobbleCan(d), CobbleOpened(d), CobbleDecryptFinish(CobbleOpening(d)))
    BY <1>5, CobbleDecrypts
  <2> QED BY <1>10, <1>11, <2>1 DEF Entire
<1>14. Entire(TRUE, o, Opened(w)) = Opened(o \o w)
  <2> DEFINE r == Opened(w)
  <2>1. r.ok = TRUE /\ r.out = w
    BY DEF Opened
  <2> HIDE DEF r
  <2> QED BY <2>1 DEF Entire, r
<1> QED BY <1>12, <1>13, <1>14 DEF d, k

\* And so does age.
LEMMA AgeComesBack ==
  ASSUME NEW B, NEW p \in Seq(B), SealCount(1, p) <= MaxChunkIndex,
         NEW d, d = Container(Header \o Nonce, SealCount(1, p), TRUE, p)
  PROVE  /\ d \in Seq(Sealing(B))
         /\ Entire(AgeCan(d), AgeOpened(d), AgeDecryptFinish(AgeOpening(d))) = Opened(p)
<1> DEFINE U == Sealing(B)
           k == SealCount(1, p)
           w == SealRest(1, p)
           L == Seal(k, TRUE, w)
           b == SealFrames(0, k, p) \o L
           o == SubSeq(p, 1, k * ChunkSize)
           e == Nonce \o b
<1>0. /\ TagSize \in Nat \ {0} /\ ChunkSize \in Nat \ {0} /\ FrameSize = ChunkSize + TagSize /\ FrameSize \in Nat \ {0}
      /\ HeaderSize \in Nat /\ NonceSize \in Nat /\ MaxChunkIndex \in Nat
  BY SizesAre
<1>1. /\ k \in Nat /\ k * ChunkSize \in Nat /\ k * ChunkSize <= Len(p) /\ w = After(p, k * ChunkSize) /\ w \in Seq(B)
      /\ Len(w) < ChunkSize + 1 /\ (k # 0 => Len(w) >= 1)
  <2> HIDE DEF w, k
  <2>1. 1 \in {0, 1} /\ k = SealCount(1, p) /\ w = SealRest(1, p)
    BY DEF k, w
  <2>2. /\ k \in Nat /\ k * ChunkSize \in Nat /\ k * ChunkSize <= Len(p)
        /\ SealRest(1, p) = After(p, k * ChunkSize) /\ SealRest(1, p) \in Seq(B)
        /\ Len(SealRest(1, p)) < ChunkSize + 1
        /\ k # 0 => Len(SealRest(1, p)) >= 1
    BY ONLY <2>1, p \in Seq(B), RestFits
  <2> QED BY <2>1, <2>2
<1>2. L \in Seq(U) /\ Len(L) = Len(w) + TagSize /\ Len(w) \in Nat /\ Open(k, TRUE, L) = Opened(w)
  <2> HIDE DEF k, w
  <2>1. TRUE \in BOOLEAN /\ k \in Nat /\ w \in Seq(B) /\ Len(w) \in Nat
    BY <1>1
  <2>2. Seal(k, TRUE, w) \in Seq(U) /\ Len(Seal(k, TRUE, w)) = Len(w) + TagSize
    BY <2>1, SealIs
  <2>3. Open(k, TRUE, Seal(k, TRUE, w)) = Opened(w)
    BY <2>1, SealOpens
  <2> QED BY <2>1, <2>2, <2>3
<1>3. /\ b \in Seq(U) /\ k * FrameSize \in Nat /\ Len(b) = k * FrameSize + Len(L) /\ After(b, k * FrameSize) = L
      /\ OpenFrames(0, k, b) = Opened(o)
  <2> HIDE DEF L, k, U
  <2>1. k \in Nat /\ k * ChunkSize <= Len(p) /\ L \in Seq(Sealing(B)) /\ b = SealFrames(0, k, p) \o L
    BY <1>1, <1>2 DEF U
  <2> HIDE DEF b
  <2>2. BodyBack(B, p, k, L, b)
    BY ONLY <2>1, p \in Seq(B), BodyComesBack
  <2> QED BY <2>2 DEF BodyBack, U, o
<1>4. /\ Header \in Seq(U) /\ Nonce \in Seq(U) /\ Len(Header) = HeaderSize /\ Len(Nonce) = NonceSize
      /\ d = (Header \o Nonce) \o b
  BY <1>1, PrefacesAre DEF Container
<1> HIDE DEF U, k, w, L, b, o
<1>5. e \in Seq(U) /\ Len(e) = NonceSize + Len(b) /\ First(e, NonceSize) = Nonce /\ After(e, NonceSize) = b
  <2>1. Nonce \in Seq(U) /\ b \in Seq(U) /\ NonceSize = Len(Nonce) /\ e = Nonce \o b
    BY <1>3, <1>4
  <2> HIDE DEF e
  <2>2. Behind(U, Nonce, b, NonceSize, e)
    BY ONLY <2>1, Fronted
  <2> QED BY <2>2 DEF Behind
<1>6. d = Header \o e
  <2>1. Header \in Seq(U) /\ Nonce \in Seq(U) /\ b \in Seq(U)
    BY <1>3, <1>4
  <2>2. Header \o (Nonce \o b) = (Header \o Nonce) \o b
    BY ONLY <2>1, Associates
  <2> QED BY ONLY <2>2, <1>4
<1> HIDE DEF e
<1>7. d \in Seq(U) /\ Len(d) = HeaderSize + Len(e) /\ First(d, HeaderSize) = Header /\ After(d, HeaderSize) = e
  <2>1. Header \in Seq(U) /\ e \in Seq(U) /\ HeaderSize = Len(Header) /\ d = Header \o e
    BY <1>4, <1>5, <1>6
  <2>2. Behind(U, Header, e, HeaderSize, d)
    BY ONLY <2>1, Fronted
  <2> QED BY <2>2 DEF Behind
<1>8. AgeBehind(d) = e /\ AgeBody(d) = b /\ AgeKeyed(d) = TRUE
  BY <1>5, <1>7 DEF AgeBehind, AgeBody, AgeKeyed
<1>9. AgeBodied(d) /\ Headed(d) /\ ~BadHead(d)
  <2>1. Len(b) \in Nat
    BY <1>3
  <2>2. Len(d) >= HeaderSize + NonceSize /\ HeaderSize <= Len(d)
    <3>1. Len(d) = HeaderSize + Len(e) /\ Len(e) = NonceSize + Len(b)
      BY <1>5, <1>7
    <3> QED BY ONLY <1>0, <2>1, <3>1
  <2>3. Headed(d)
    BY <1>7, <2>2 DEF Headed
  <2> QED BY <1>7, <2>2, <2>3, HeadIs DEF AgeBodied
<1>10. OpenCount(1, b) = k
  <2> DEFINE N == Len(b)
             a == k * FrameSize
  <2>1. /\ N = a + Len(L) /\ a \in Nat /\ Len(L) = Len(w) + TagSize /\ Len(w) \in Nat
        /\ Len(w) < ChunkSize + 1
    BY <1>1, <1>2, <1>3
  <2> HIDE DEF N, a
  <2>2. N \in Nat /\ a + 1 <= N /\ N < a + 1 + FrameSize
    BY <1>0, <2>1
  <2>3. Frames(N, FrameSize, 1) = k
    <3>1. N \in Nat /\ FrameSize \in Nat \ {0} /\ 1 \in Nat /\ k \in Nat /\ k * FrameSize + 1 <= N
          /\ N < k * FrameSize + 1 + FrameSize
      BY <1>0, <1>1, <2>2 DEF a
    <3> QED BY ONLY <3>1, FramesOnly
  <2> QED BY <2>3 DEF OpenCount, N
<1>11. OpenRest(1, b) = L /\ OpenSofar(1, b) = Opened(o)
  BY <1>3, <1>10 DEF OpenRest, OpenSofar
<1>12. OpenSofar(1, b).ok = TRUE /\ OpenSofar(1, b).out = o
  <2> DEFINE r == OpenSofar(1, b)
  <2>1. r = Opened(o)
    BY <1>11
  <2> HIDE DEF r
  <2>2. r.ok = TRUE /\ r.out = o
    BY ONLY <2>1 DEF Opened
  <2> QED BY <2>2 DEF r
<1>13. AgeCan(d) /\ AgeOpened(d) = o
  BY <1>8, <1>9, <1>10, <1>12 DEF AgeCan, AgeFramed, AgeOpened, k
<1>14. AgeDecryptFinish(AgeOpening(d)) = Opened(w)
  <2> DEFINE s == AgeOpening(d)
  <2>1. s = AgeState(L, k, TRUE, TRUE, TRUE, FALSE)
    BY <1>8, <1>9, <1>10, <1>11 DEF AgeOpening
  <2> HIDE DEF s
  <2>2. s.buffer = L /\ s.index = k /\ s.header = TRUE /\ s.nonce = TRUE /\ s.keyed = TRUE /\ s.failed = FALSE
    BY ONLY <2>1 DEF AgeState
  <2>3. Len(L) \in TagSize .. FrameSize
    BY <1>0, <1>1, <1>2
  <2>4. ~(k > 0 /\ Len(L) = TagSize)
    BY <1>0, <1>1, <1>2
  <2> QED BY <1>2, <2>2, <2>3, <2>4 DEF AgeDecryptFinish, s
<1>15. o \o w = p
  <2> DEFINE a == k * ChunkSize
  <2>1. a \in Nat /\ a <= Len(p) /\ o = First(p, a) /\ w = After(p, a)
    BY <1>1 DEF o, First
  <2> HIDE DEF a
  <2> QED BY <2>1, Reassembled
<1>16. Entire(TRUE, o, Opened(w)) = Opened(o \o w)
  <2> DEFINE r == Opened(w)
  <2>1. r.ok = TRUE /\ r.out = w
    BY DEF Opened
  <2> HIDE DEF r
  <2> QED BY <2>1 DEF Entire, r
<1>17. Entire(AgeCan(d), AgeOpened(d), AgeDecryptFinish(AgeOpening(d))) = Entire(TRUE, o, Opened(w))
  BY <1>13, <1>14 DEF Entire
<1> QED BY <1>7, <1>15, <1>16, <1>17 DEF U

\* Either, by its name.
LEMMA FrameComesBack ==
  ASSUME NEW c, c.direction # "encrypt", NEW B, NEW p \in Seq(B), Fits(c, p)
  PROVE  FrameOneShot(c, Sealed(c, p)) = Opened(p)
<1>1. CASE c.tool = "age"
  <2> DEFINE d == Sealed(c, p)
  <2>1. d = Container(Header \o Nonce, SealCount(1, p), TRUE, p) /\ SealCount(1, p) <= MaxChunkIndex
    BY <1>1 DEF Sealed, Foreword, Kept, Fits
  <2> HIDE DEF d
  <2>2. /\ d \in Seq(Sealing(B))
        /\ Entire(AgeCan(d), AgeOpened(d), AgeDecryptFinish(AgeOpening(d))) = Opened(p)
    BY ONLY <2>1, p \in Seq(B), AgeComesBack
  <2>3. Legible(c, Sealing(B), B)
    <3>1. \A b \in Sealing(B) : b[1] = "s" => b[4] \in Seq(B)
      BY DEF Sealing
    <3> QED BY <3>1 DEF Legible, Readable
  <2>4. FrameOneShot(c, d) = Entire(CanAt(c, d), OutAt(c, d), FrameFinish(c, StateAt(c, d)))
    BY <2>2, <2>3, FrameOneShotIs
  <2>5. FrameOneShot(c, d) = Entire(AgeCan(d), AgeOpened(d), AgeDecryptFinish(AgeOpening(d)))
    BY <1>1, <2>4 DEF CanAt, OutAt, FrameFinish, StateAt
  <2> QED BY <2>2, <2>5 DEF d
<1>2. CASE c.tool # "age"
  <2>1. Sealed(c, p) = Container(Commitment, SealCount(0, p), FALSE, p)
    BY <1>2 DEF Sealed, Foreword, Kept
  <2> QED BY <1>2, <2>1, CobbleComesBack DEF FrameOneShot
<1> QED BY <1>1, <1>2

-----------------------------------------------------------------------------
(* Nothing but what was sealed is accepted. *)

\* A body whose frames all opened, up to its rest.
BodyOf(S, p, kept, b, n) ==
  /\ n \in Nat /\ n * ChunkSize \in Nat /\ n * ChunkSize <= Len(p)
  /\ OpenSofar(kept, b).out = First(p, n * ChunkSize)
  /\ b = SealFrames(0, n, p) \o OpenRest(kept, b) /\ OpenRest(kept, b) \in Seq(S)

LEMMA BodyOpened ==
  ASSUME NEW S, NEW T, Readable(S, T), NEW p \in Seq(T), Genuine(S, p),
         NEW kept \in Nat, NEW b \in Seq(S), OpenSofar(kept, b).ok, NEW n, n = OpenCount(kept, b)
  PROVE  BodyOf(S, p, kept, b, n)
<1>1. /\ n \in Nat /\ n * FrameSize \in Nat /\ n * FrameSize <= Len(b)
      /\ OpenRest(kept, b) \in Seq(S) /\ OpenRest(kept, b) = After(b, n * FrameSize)
  BY OpenRestIs DEF OpenRest
<1>2. OpenSofar(kept, b) = OpenFrames(0, n, b) /\ OpenFrames(0, n, b).ok
  BY DEF OpenSofar
<1>3. /\ n * ChunkSize \in Nat /\ n * ChunkSize <= Len(p)
      /\ OpenFrames(0, n, b).out = SubSeq(p, 1, n * ChunkSize)
      /\ SubSeq(b, 1, n * FrameSize) = SealFrames(0, n, p)
  BY <1>1, <1>2, BodyIsTrue
<1>4. First(b, n * FrameSize) \o After(b, n * FrameSize) = b
  <2> DEFINE m == n * FrameSize
  <2>1. m \in Nat /\ m <= Len(b)
    BY <1>1
  <2> HIDE DEF m
  <2> QED BY <2>1, Reassembled DEF m
<1> QED BY <1>1, <1>2, <1>3, <1>4 DEF First, BodyOf

\* What comes out on the way is the beginning of the message.
LEMMA OpenedIsTrue ==
  ASSUME NEW S, NEW T, Readable(S, T), NEW p \in Seq(T), Genuine(S, p),
         NEW c, c.direction # "encrypt", NEW x \in Seq(S), CanAt(c, x)
  PROVE  \E m \in Nat : m <= Len(p) /\ OutAt(c, x) = First(p, m)
<1>0. /\ TagSize \in Nat /\ 1 \in Nat /\ MaxChunkIndex \in Nat /\ CommitSize \in Nat /\ Len(x) \in Nat
  BY SizesAre
<1>1. First(p, 0) = <<>> /\ 0 \in Nat /\ 0 <= Len(p)
  BY DEF First
<1>2. ASSUME NEW kept \in Nat, NEW b \in Seq(S), OpenSofar(kept, b).ok
      PROVE  \E m \in Nat : m <= Len(p) /\ OpenSofar(kept, b).out = First(p, m)
  <2> DEFINE n == OpenCount(kept, b)
  <2>1. n = OpenCount(kept, b)
    OBVIOUS
  <2> HIDE DEF n
  <2>2. n * ChunkSize \in Nat /\ n * ChunkSize <= Len(p) /\ OpenSofar(kept, b).out = First(p, n * ChunkSize)
    <3>1. BodyOf(S, p, kept, b, n)
      BY <1>2, <2>1, BodyOpened
    <3> QED BY <3>1 DEF BodyOf
  <2> QED BY <2>2
<1>3. CASE c.tool = "age"
  <2>1. AgeCan(x) /\ OutAt(c, x) = AgeOpened(x)
    BY <1>3 DEF CanAt, OutAt
  <2>2. CASE ~AgeBodied(x)
    BY <1>1, <2>1, <2>2 DEF AgeOpened
  <2>3. CASE AgeBodied(x)
    <3> DEFINE b == AgeBody(x)
    <3>1. AgeOpened(x) = OpenSofar(1, b).out /\ b \in Seq(S)
      BY <2>3, AgeOpenedType DEF AgeOpened
    <3>2. OpenSofar(1, b).ok
      <4>1. CASE OpenCount(1, b) = 0
        <5>1. OpenSofar(1, b) = Opened(<<>>)
          BY <2>3, <4>1, AgeOpenedType
        <5> QED BY <5>1 DEF Opened
      <4>2. CASE OpenCount(1, b) # 0
        BY <2>1, <2>3, <4>2 DEF AgeCan, AgeFramed
      <4> QED BY <4>1, <4>2
    <3> HIDE DEF b
    <3> QED BY <1>0, <1>2, <2>1, <3>1, <3>2
  <2> QED BY <2>2, <2>3
<1>4. CASE c.tool # "age"
  <2>1. CobbleCan(x) /\ OutAt(c, x) = CobbleOpened(x)
    BY <1>4 DEF CanAt, OutAt
  <2>2. CASE Len(x) < CommitSize
    BY <1>1, <2>1, <2>2 DEF CobbleOpened
  <2>3. CASE ~(Len(x) < CommitSize)
    <3> DEFINE b == CobbleBody(x)
    <3>1. CobbleOpened(x) = OpenSofar(TagSize, b).out /\ OpenSofar(TagSize, b).ok
      BY <2>1, <2>3 DEF CobbleOpened, CobbleCan
    <3>2. b \in Seq(S)
      BY <1>0, <2>3 DEF CobbleBody, After
    <3> HIDE DEF b
    <3> QED BY <1>0, <1>2, <2>1, <3>1, <3>2
  <2> QED BY <2>2, <2>3
<1> QED BY <1>3, <1>4

\* A container that opens to its end is the one that was sealed.
Accepted(c, p, d) ==
  /\ d = Sealed(c, p) /\ Fits(c, p)
  /\ OutAt(c, d) \o FrameFinish(c, StateAt(c, d)).out = p

LEMMA CobbleAccepts ==
  ASSUME NEW S, NEW T, Readable(S, T), NEW p \in Seq(T), Genuine(S, p), NEW d \in Seq(S),
         CobbleCan(d), CobbleDecryptFinish(CobbleOpening(d)).ok
  PROVE  /\ d = Container(Commitment, SealCount(0, p), FALSE, p)
         /\ CobbleOpened(d) \o CobbleDecryptFinish(CobbleOpening(d)).out = p
<1> DEFINE s == CobbleOpening(d)
           b == CobbleBody(d)
           n == OpenCount(TagSize, b)
           w == OpenRest(TagSize, b)
           a == n * ChunkSize
<1>0. /\ TagSize \in Nat \ {0} /\ TagSize \in Nat /\ ChunkSize \in Nat \ {0} /\ FrameSize = ChunkSize + TagSize
      /\ CommitSize \in Nat /\ Len(d) \in Nat /\ Len(p) \in Nat /\ 0 \in Nat
  BY SizesAre
<1>1. s.header /\ Len(s.buffer) \in TagSize .. FrameSize - 1 /\ CobbleDecryptFinish(s) = Open(s.index, FALSE, s.buffer)
  <2> HIDE DEF s
  <2>1. CobbleDecryptFinish(s) # Unopened
    BY DEF Unopened, s
  <2> QED BY <2>1 DEF CobbleDecryptFinish
<1>2. ~(Len(d) < CommitSize)
  <2> SUFFICES ASSUME Len(d) < CommitSize  PROVE FALSE
    OBVIOUS
  <2>1. s.header = FALSE
    BY DEF CobbleOpening
  <2> QED BY <1>1, <2>1
<1>3. s.buffer = w /\ s.index = n
  BY <1>2 DEF CobbleOpening
<1>4. First(d, CommitSize) = Commitment /\ OpenSofar(TagSize, b).ok /\ CobbleOpened(d) = OpenSofar(TagSize, b).out
  BY <1>2 DEF CobbleCan, CobbleOpened
<1>5. b \in Seq(S) /\ First(d, CommitSize) \o b = d
  <2>1. CommitSize \in Nat /\ CommitSize <= Len(d)
    BY <1>0, <1>2
  <2>2. First(d, CommitSize) \o After(d, CommitSize) = d
    BY <2>1, Reassembled
  <2>3. After(d, CommitSize) \in Seq(S)
    BY <2>1 DEF After
  <2> QED BY <2>2, <2>3 DEF CobbleBody
<1> HIDE DEF s, b
<1>6. n = OpenCount(TagSize, b) /\ FALSE \in BOOLEAN
  OBVIOUS
<1> HIDE DEF n
<1>7. /\ n \in Nat /\ a \in Nat /\ a <= Len(p) /\ OpenSofar(TagSize, b).out = First(p, a)
      /\ b = SealFrames(0, n, p) \o w /\ w \in Seq(S)
  <2>1. Readable(S, T) /\ p \in Seq(T) /\ Genuine(S, p) /\ TagSize \in Nat /\ b \in Seq(S) /\ OpenSofar(TagSize, b).ok
    BY <1>0, <1>4, <1>5
  <2>2. BodyOf(S, p, TagSize, b, n)
    BY ONLY <1>6, <2>1, BodyOpened
  <2> QED BY <2>2 DEF BodyOf
<1> HIDE DEF w
<1>8. Len(w) \in TagSize .. FrameSize - 1 /\ Open(n, FALSE, w).ok
  BY <1>1, <1>3 DEF s
<1>9. /\ Open(n, FALSE, w).out = After(p, a) /\ w = Seal(n, FALSE, After(p, a))
      /\ Len(w) = Len(p) - a + TagSize
  <2>1. Len(w) < FrameSize
    BY <1>0, <1>8
  <2>2. n * ChunkSize <= Len(p) /\ (FALSE => n = 0 \/ Len(w) # TagSize) /\ (~FALSE => Len(w) < FrameSize)
    BY <1>7, <2>1
  <2>3. /\ Readable(S, T) /\ p \in Seq(T) /\ Genuine(S, p) /\ w \in Seq(S) /\ n \in Nat /\ FALSE \in BOOLEAN /\ Open(n, FALSE, w).ok
    BY <1>6, <1>7, <1>8
  <2>4. LastOf(p, n, FALSE, w)
    BY ONLY <2>2, <2>3, LastIsTrue
  <2> QED BY <2>4 DEF LastOf
<1>10. SealCount(0, p) = n
  <2>1. Len(p) < a + ChunkSize /\ a <= Len(p)
    <3>1. a \in Nat /\ a <= Len(p) /\ Len(w) = Len(p) - a + TagSize /\ Len(w) \in TagSize .. FrameSize - 1
      BY <1>7, <1>8, <1>9
    <3> HIDE DEF a
    <3> QED BY ONLY <1>0, <3>1
  <2>2. a + 0 <= Len(p) /\ Len(p) < a + 0 + ChunkSize
    BY <1>0, <1>7, <2>1
  <2>3. Frames(Len(p), ChunkSize, 0) = n
    BY <1>0, <1>7, <2>2, FramesOnly
  <2> QED BY <2>3 DEF SealCount
<1>11. d = Commitment \o (SealFrames(0, n, p) \o Seal(n, FALSE, After(p, a)))
  BY <1>4, <1>5, <1>7, <1>9
<1>12. CobbleOpened(d) \o CobbleDecryptFinish(s).out = First(p, a) \o After(p, a)
  BY <1>1, <1>3, <1>4, <1>7, <1>9
<1>13. First(p, a) \o After(p, a) = p
  <2>1. a \in Nat /\ a <= Len(p)
    BY <1>7
  <2> HIDE DEF a
  <2> QED BY <2>1, Reassembled
<1> QED BY <1>10, <1>11, <1>12, <1>13 DEF Container, s

LEMMA AgeAccepts ==
  ASSUME NEW S, NEW T, Readable(S, T), NEW p \in Seq(T), Genuine(S, p), NEW d \in Seq(S),
         AgeCan(d), AgeDecryptFinish(AgeOpening(d)).ok
  PROVE  /\ d = Container(Header \o Nonce, SealCount(1, p), TRUE, p) /\ SealCount(1, p) <= MaxChunkIndex
         /\ AgeOpened(d) \o AgeDecryptFinish(AgeOpening(d)).out = p
<1> DEFINE s == AgeOpening(d)
           b == AgeBody(d)
           e == AgeBehind(d)
           n == OpenCount(1, b)
           w == OpenRest(1, b)
           k == AgeKeyed(d)
           a == n * ChunkSize
<1>0. /\ TagSize \in Nat \ {0} /\ TagSize \in Nat /\ ChunkSize \in Nat \ {0} /\ FrameSize = ChunkSize + TagSize
      /\ HeaderSize \in Nat /\ NonceSize \in Nat /\ Len(d) \in Nat /\ Len(p) \in Nat /\ 1 \in Nat /\ MaxChunkIndex \in Nat
  BY SizesAre
<1>1. /\ s.nonce /\ s.keyed /\ Len(s.buffer) \in TagSize .. FrameSize /\ ~(s.index > 0 /\ Len(s.buffer) = TagSize)
      /\ AgeDecryptFinish(s) = Open(s.index, TRUE, s.buffer)
  <2> HIDE DEF s
  <2>1. AgeDecryptFinish(s) # Unopened
    BY DEF Unopened, s
  <2> QED BY <2>1 DEF AgeDecryptFinish
<1>2. AgeBodied(d)
  <2> SUFFICES ASSUME ~AgeBodied(d)  PROVE FALSE
    OBVIOUS
  <2>1. AgeOpening(d).nonce = FALSE
    BY DEF AgeOpening, AgeEntered, AgeState
  <2> QED BY <1>1, <2>1
<1>3. s.buffer = w /\ s.index = n /\ s.keyed = k
  <2>1. s = AgeState(w, n, TRUE, TRUE, k, FALSE)
    BY <1>2 DEF AgeOpening
  <2> HIDE DEF s, w, n, k
  <2> QED BY ONLY <2>1 DEF AgeState
<1>4. /\ b \in Seq(S) /\ AgeOpened(d) = OpenSofar(1, b).out /\ OpenSofar(1, b).ok /\ n <= MaxChunkIndex
  <2>1. /\ b \in Seq(S) /\ (OpenCount(1, b) = 0 => OpenSofar(1, b) = Opened(<<>>))
        /\ AgeOpened(d) = OpenSofar(1, b).out
    BY <1>2, AgeOpenedType DEF AgeOpened
  <2>2. CASE n = 0
    <3>1. OpenSofar(1, b).ok
      BY <2>1, <2>2 DEF Opened
    <3> HIDE DEF b, n
    <3>2. n <= MaxChunkIndex
      BY <1>0, <2>2
    <3> QED BY <2>1, <3>1, <3>2
  <2>3. CASE n # 0
    BY <1>2, <2>1, <2>3 DEF AgeCan, AgeFramed
  <2> QED BY <2>2, <2>3
<1>5. /\ d = (Header \o Nonce) \o b
  <2>1. HeaderSize <= Len(d) /\ First(d, HeaderSize) = Header /\ Len(d) >= HeaderSize + NonceSize
    BY <1>2 DEF AgeBodied, Headed
  <2>2. First(d, HeaderSize) \o After(d, HeaderSize) = d
    BY <1>0, <2>1, Reassembled
  <2>3. e \in Seq(S) /\ Len(e) = Len(d) - HeaderSize /\ e = After(d, HeaderSize) /\ Header \in Seq(S)
    <3>1. First(d, HeaderSize) \in Seq(S)
      BY <1>0, <2>1 DEF First
    <3> QED BY <1>0, <2>1, <3>1 DEF AgeBehind, After
  <2> HIDE DEF e
  <2>4. NonceSize <= Len(e)
    BY <1>0, <2>1, <2>3
  <2>5. First(e, NonceSize) \o After(e, NonceSize) = e
    BY <1>0, <2>3, <2>4, Reassembled
  <2>6. First(e, NonceSize) = Nonce /\ After(e, NonceSize) = b
    BY <1>1, <1>3 DEF AgeKeyed, AgeBody, e
  <2>7. Nonce \in Seq(S) /\ b \in Seq(S)
    <3>1. First(e, NonceSize) \in Seq(S)
      BY <1>0, <2>3, <2>4 DEF First
    <3> QED BY <1>4, <2>6, <3>1
  <2>8. d = Header \o e /\ e = Nonce \o b
    BY <2>1, <2>2, <2>3, <2>5, <2>6
  <2> HIDE DEF b
  <2>9. Header \o (Nonce \o b) = (Header \o Nonce) \o b
    BY ONLY <2>3, <2>7
  <2> QED BY <2>8, <2>9
<1> HIDE DEF s, b, k, e
<1>6. n = OpenCount(1, b) /\ TRUE \in BOOLEAN
  OBVIOUS
<1> HIDE DEF n
<1>7. /\ n \in Nat /\ a \in Nat /\ a <= Len(p) /\ OpenSofar(1, b).out = First(p, a)
      /\ b = SealFrames(0, n, p) \o w /\ w \in Seq(S)
  <2>1. Readable(S, T) /\ p \in Seq(T) /\ Genuine(S, p) /\ 1 \in Nat /\ b \in Seq(S) /\ OpenSofar(1, b).ok
    BY <1>0, <1>4
  <2>2. BodyOf(S, p, 1, b, n)
    BY ONLY <1>6, <2>1, BodyOpened
  <2> QED BY <2>2 DEF BodyOf
<1> HIDE DEF w
<1>8. Len(w) \in TagSize .. FrameSize /\ Open(n, TRUE, w).ok /\ ~(n > 0 /\ Len(w) = TagSize)
  BY <1>1, <1>3 DEF s
<1>9. /\ Open(n, TRUE, w).out = After(p, a) /\ w = Seal(n, TRUE, After(p, a))
      /\ Len(w) = Len(p) - a + TagSize /\ Len(p) <= (n + 1) * ChunkSize
  <2>1. n = 0 \/ Len(w) # TagSize
    BY <1>7, <1>8
  <2>2. n * ChunkSize <= Len(p) /\ (TRUE => n = 0 \/ Len(w) # TagSize) /\ (~TRUE => Len(w) < FrameSize)
    BY <1>7, <2>1
  <2>3. /\ Readable(S, T) /\ p \in Seq(T) /\ Genuine(S, p) /\ w \in Seq(S) /\ n \in Nat /\ TRUE \in BOOLEAN /\ Open(n, TRUE, w).ok
    BY <1>6, <1>7, <1>8
  <2>4. LastOf(p, n, TRUE, w)
    BY ONLY <2>2, <2>3, LastIsTrue
  <2> QED BY <2>4 DEF LastOf
<1>10. SealCount(1, p) = n
  <2>1. (n + 1) * ChunkSize = a + ChunkSize
    BY <1>0, <1>7
  <2>2. n > 0 => a + 1 <= Len(p)
    <3>1. /\ a \in Nat /\ a <= Len(p) /\ Len(w) = Len(p) - a + TagSize /\ Len(w) \in TagSize .. FrameSize
          /\ ~(n > 0 /\ Len(w) = TagSize)
      BY <1>7, <1>8, <1>9
    <3> HIDE DEF a
    <3> QED BY ONLY <1>0, <3>1
  <2>3. Len(p) < a + 1 + ChunkSize
    BY <1>0, <1>7, <1>9, <2>1
  <2>4. CASE a + 1 <= Len(p)
    <3>1. Frames(Len(p), ChunkSize, 1) = n
      BY <1>0, <1>7, <2>3, <2>4, FramesOnly
    <3> QED BY <3>1 DEF SealCount
  <2>5. CASE ~(a + 1 <= Len(p))
    <3>1. n = 0
      BY <1>7, <2>2, <2>5
    <3>2. a = 0
      BY <1>0, <3>1
    <3>3. Len(p) < 1
      BY <1>0, <2>5, <3>2
    <3>4. Frames(Len(p), ChunkSize, 1) = 0
      BY <1>0, <3>3, FramesAre
    <3> QED BY <3>1, <3>4 DEF SealCount
  <2> QED BY <2>4, <2>5
<1>11. d = (Header \o Nonce) \o (SealFrames(0, n, p) \o Seal(n, TRUE, After(p, a)))
  BY <1>5, <1>7, <1>9
<1>12. AgeOpened(d) \o AgeDecryptFinish(s).out = First(p, a) \o After(p, a)
  BY <1>1, <1>3, <1>4, <1>7, <1>9
<1>13. First(p, a) \o After(p, a) = p
  <2>1. a \in Nat /\ a <= Len(p)
    BY <1>7
  <2> HIDE DEF a
  <2> QED BY <2>1, Reassembled
<1> QED BY <1>4, <1>10, <1>11, <1>12, <1>13 DEF Container, s

LEMMA FrameAccepts ==
  ASSUME NEW S, NEW T, Readable(S, T), NEW p \in Seq(T), Genuine(S, p),
         NEW c, c.direction # "encrypt", NEW d \in Seq(S),
         CanAt(c, d), FrameFinish(c, StateAt(c, d)).ok
  PROVE  Accepted(c, p, d)
<1>1. CASE c.tool = "age"
  <2>1. /\ CanAt(c, d) = AgeCan(d) /\ FrameFinish(c, StateAt(c, d)) = AgeDecryptFinish(AgeOpening(d))
        /\ OutAt(c, d) = AgeOpened(d)
    BY <1>1 DEF CanAt, OutAt, StateAt, FrameFinish
  <2>2. /\ d = Container(Header \o Nonce, SealCount(1, p), TRUE, p) /\ SealCount(1, p) <= MaxChunkIndex
        /\ AgeOpened(d) \o AgeDecryptFinish(AgeOpening(d)).out = p
    BY <2>1, AgeAccepts
  <2>3. Sealed(c, p) = Container(Header \o Nonce, SealCount(1, p), TRUE, p)
    BY <1>1 DEF Sealed, Foreword, Kept
  <2> QED BY <2>1, <2>2, <2>3 DEF Accepted, Fits
<1>2. CASE c.tool # "age"
  <2>1. /\ CanAt(c, d) = CobbleCan(d) /\ FrameFinish(c, StateAt(c, d)) = CobbleDecryptFinish(CobbleOpening(d))
        /\ OutAt(c, d) = CobbleOpened(d)
    BY <1>2 DEF CanAt, OutAt, StateAt, FrameFinish
  <2>2. /\ d = Container(Commitment, SealCount(0, p), FALSE, p)
        /\ CobbleOpened(d) \o CobbleDecryptFinish(CobbleOpening(d)).out = p
    BY <2>1, CobbleAccepts
  <2>3. Sealed(c, p) = Container(Commitment, SealCount(0, p), FALSE, p)
    BY <1>2 DEF Sealed, Foreword, Kept
  <2> QED BY <1>2, <2>1, <2>2, <2>3 DEF Accepted, Fits
<1> QED BY <1>1, <1>2

-----------------------------------------------------------------------------
(* The driver. *)

\* What has been read.
Sofar == SubSeq(data, 1, fed)

\* The bytes of the input.
Bytes == Range(data)

\* Where the driver is in its input.
Place == job \in Jobs /\ fed \in 0 .. Len(data) /\ status \in {"feeding", "done", "failed"}

\* What was read is a beginning of the input, and at its end the input.
LEMMA DataIsRead ==
  ASSUME Place
  PROVE  /\ data \in Seq(Bytes) /\ Len(data) \in Nat /\ fed \in Nat /\ fed <= Len(data)
         /\ Sofar \in Seq(Bytes) /\ Len(Sofar) = fed
         /\ fed = Len(data) => Sofar = data
<1>1. data \in Seq(Bytes)
  BY InputsAreSequences DEF Place, data, Bytes
<1> DEFINE S == Bytes
<1> HIDE DEF S
<1>2. data \in Seq(S) /\ fed \in 0 .. Len(data)
  BY <1>1 DEF S, Place
<1>3. /\ Len(data) \in Nat /\ fed \in Nat /\ fed <= Len(data)
      /\ SubSeq(data, 1, fed) \in Seq(S) /\ Len(SubSeq(data, 1, fed)) = fed
      /\ fed = Len(data) => SubSeq(data, 1, fed) = data
  BY <1>2
<1> QED BY <1>1, <1>3 DEF S, Sofar

\* A step reads a chunk, or ends the stream, or nothing happens.
Chunk(n) == SubSeq(data, fed + 1, n)

LEMMA Steps ==
  ASSUME Place, [Next]_vars
  PROVE  /\ Place' /\ job' = job
         /\ \/ \E n \in Ends : status = "feeding" /\ fed' = n /\ Advance(Updated(config, engine, Chunk(n)))
            \/ Finish
            \/ UNCHANGED vars
<1>1. Len(data) \in Nat /\ fed \in 0 .. Len(data) /\ job \in Jobs
  BY DataIsRead DEF Place
<1>2. CASE Feed
  <2>1. PICK n \in Ends : status = "feeding" /\ fed' = n /\ Advance(Updated(config, engine, Chunk(n))) /\ job' = job
    BY <1>2 DEF Feed, Chunk
  <2>2. n \in 0 .. Len(data)
    BY <1>1 DEF Ends
  <2>3. status' \in {"feeding", "done", "failed"}
    BY <2>1 DEF Advance, Deliver
  <2> QED BY <2>1, <2>2, <2>3, <1>1 DEF Place, data
<1>3. CASE Finish
  <2>1. status' \in {"feeding", "done", "failed"} /\ UNCHANGED <<job, fed>>
    BY <1>3 DEF Finish, Deliver
  <2> QED BY <2>1, <1>3, <1>1 DEF Place, data
<1>4. CASE UNCHANGED vars
  BY <1>4, <1>1 DEF Place, vars, data
<1> QED BY <1>2, <1>3, <1>4 DEF Next

\* What is read next goes on from there.
LEMMA ChunkIs ==
  ASSUME Place, config.engine # "code", NEW n \in Ends
  PROVE  /\ n \in Nat /\ fed <= n /\ n <= Len(data)
         /\ Chunk(n) \in Seq(Bytes) /\ Len(Chunk(n)) = n - fed
         /\ Sofar \o Chunk(n) = SubSeq(data, 1, n)
<1>1. n \in Nat /\ fed <= n /\ n <= Len(data)
  BY DataIsRead DEF Ends
<1> DEFINE S == Bytes
<1>2. data \in Seq(S) /\ fed \in Nat /\ Len(data) \in Nat
  BY DataIsRead
<1> HIDE DEF S
<1>3. SubSeq(data, fed + 1, n) \in Seq(S) /\ Len(SubSeq(data, fed + 1, n)) = n - fed
  BY <1>1, <1>2
<1>4. SubSeq(data, 1, fed) \o SubSeq(data, fed + 1, n) = SubSeq(data, 1, n)
  BY <1>1, <1>2
<1> QED BY <1>1, <1>3, <1>4 DEF S, Sofar, Chunk

\* Nothing was read at first.
LEMMA Starts == ASSUME Init  PROVE Place /\ fed = 0 /\ Sofar = <<>> /\ emitted = <<>> /\ status = "feeding" /\ engine = Started(config)
<1>1. job \in Jobs /\ fed = 0 /\ status = "feeding" /\ emitted = <<>> /\ engine = Started(config)
  BY DEF Init
<1>2. data \in Seq(Bytes)
  BY <1>1, InputsAreSequences DEF data, Bytes
<1>3. Len(data) \in Nat
  BY <1>2
<1>4. Place
  BY <1>1, <1>3 DEF Place
<1>5. Len(Sofar) = 0 /\ Sofar \in Seq(Bytes)
  BY <1>1, <1>4, DataIsRead
<1>6. Sofar = <<>>
  BY <1>5
<1> QED BY <1>1, <1>4, <1>6

-----------------------------------------------------------------------------
\* The inductive invariant of a raw cipher: everything read came out under
\* the keystream, each byte under its own.
Spending == IF config.engine = "arx" THEN RawAt(engine, fed) ELSE WordAt(engine, fed)

RawInv ==
  config.engine \in {"arx", "word"} =>
    /\ status # "failed" /\ (status = "done" => fed = Len(data))
    /\ Spending
    /\ emitted = XorFrom(Sofar, 0)

\* Of nothing comes nothing.
LEMMA XorOfNothing == ASSUME NEW at  PROVE XorFrom(<<>>, at) = <<>>
<1>1. DOMAIN <<>> = {}
  OBVIOUS
<1> QED BY <1>1 DEF XorFrom

LEMMA RawBegins == ASSUME Init PROVE RawInv
<1> SUFFICES ASSUME config.engine \in {"arx", "word"}
             PROVE  Spending /\ emitted = XorFrom(Sofar, 0) /\ status = "feeding"
  BY DEF RawInv
<1>1. CASE config.engine = "arx"
  BY <1>1, Starts, RawStarts, XorOfNothing DEF Started, Spending
<1>2. CASE config.engine = "word"
  BY <1>2, Starts, WordStarts, XorOfNothing DEF Started, Spending
<1> QED BY <1>1, <1>2

\* The unchanged job keeps what is defined of it.
LEMMA SameData == ASSUME job' = job  PROVE data' = data /\ config' = config /\ (fed' = fed => Sofar' = Sofar)
BY DEF data, config, Sofar

\* A chunk keeps it, the end of the input adds nothing.
LEMMA RawStep == ASSUME Place, RawInv, [Next]_vars  PROVE RawInv'
<1> SUFFICES ASSUME config.engine \in {"arx", "word"}
             PROVE  /\ status' # "failed" /\ (status' = "done" => fed' = Len(data))
                    /\ Spending'
                    /\ emitted' = XorFrom(Sofar', 0)
  BY Steps, SameData DEF RawInv
<1>1. Spending /\ emitted = XorFrom(Sofar, 0) /\ status # "failed" /\ (status = "done" => fed = Len(data))
  BY DEF RawInv
<1>2. Sofar \in Seq(Bytes) /\ Len(Sofar) = fed /\ fed \in Nat /\ job' = job /\ data' = data
  BY Steps, SameData, DataIsRead
<1>3. ASSUME NEW n \in Ends, status = "feeding", fed' = n, Advance(Updated(config, engine, Chunk(n)))
      PROVE  status' = "feeding" /\ Spending' /\ emitted' = XorFrom(Sofar', 0)
  <2>0. n \in Nat /\ Chunk(n) \in Seq(Bytes) /\ Len(Chunk(n)) = n - fed /\ Sofar \o Chunk(n) = SubSeq(data, 1, n)
    BY ChunkIs
  <2>00. Sofar' = SubSeq(data, 1, n)
    BY <1>2, <1>3 DEF Sofar
  <2>1. Chunk(n) \in Seq(Bytes) /\ fed + Len(Chunk(n)) = n /\ Sofar \o Chunk(n) = Sofar'
    BY <1>2, <2>0, <2>00
  <2>2. Spending' /\ emitted' = emitted \o XorFrom(Chunk(n), fed) /\ status' = "feeding"
    <3>1. CASE config.engine = "arx"
      <4>1. /\ engine' = RawUpdate(engine, Chunk(n)).state /\ status' = "feeding"
            /\ emitted' = emitted \o RawUpdate(engine, Chunk(n)).out
        BY <1>3, <3>1 DEF Advance, Deliver, Updated, Always
      <4>2. /\ RawAt(RawUpdate(engine, Chunk(n)).state, fed + Len(Chunk(n)))
            /\ RawUpdate(engine, Chunk(n)).out = XorFrom(Chunk(n), fed)
        BY <1>1, <1>2, <2>1, <3>1, RawGoesOn DEF Spending
      <4> QED BY <4>1, <4>2, <2>1, <3>1, <1>2, <1>3, SameData DEF Spending
    <3>2. CASE config.engine = "word"
      <4>1. /\ engine' = WordUpdate(engine, Chunk(n)).state /\ status' = "feeding"
            /\ emitted' = emitted \o WordUpdate(engine, Chunk(n)).out
        BY <1>3, <3>2 DEF Advance, Deliver, Updated, Always
      <4>2. /\ WordAt(WordUpdate(engine, Chunk(n)).state, fed + Len(Chunk(n)))
            /\ WordUpdate(engine, Chunk(n)).out = XorFrom(Chunk(n), fed)
        BY <1>1, <1>2, <2>1, <3>2, WordGoesOn DEF Spending
      <4> QED BY <4>1, <4>2, <2>1, <3>2, <1>2, <1>3, SameData DEF Spending
    <3> QED BY <3>1, <3>2
  <2>4. XorFrom(Sofar, 0) \o XorFrom(Chunk(n), 0 + Len(Sofar)) = XorFrom(Sofar \o Chunk(n), 0)
    <3> DEFINE S == Bytes
               x == Sofar
               y == Chunk(n)
    <3>1. x \in Seq(S) /\ y \in Seq(S) /\ 0 \in Nat
      BY <1>2, <2>1
    <3> HIDE DEF S, x, y
    <3>2. XorFrom(x, 0) \o XorFrom(y, 0 + Len(x)) = XorFrom(x \o y, 0)
      BY <3>1, XorJoins
    <3> QED BY <3>2 DEF x, y
  <2>5. 0 + Len(Sofar) = fed
    BY <1>2
  <2> QED BY <1>1, <1>3, <2>1, <2>2, <2>4, <2>5
<1>4. ASSUME Finish
      PROVE  status' # "failed" /\ fed' = Len(data) /\ engine' = engine /\ emitted' = emitted /\ fed' = fed
  <2>1. Finished(config, engine) = Good(<<>>)
    BY DEF Finished
  <2>2. emitted' = emitted \o <<>> /\ status' = "done"
    BY <1>4, <2>1 DEF Finish, Deliver, Good
  <2>3. XorFrom(Sofar, 0) \in Seq(XBytes(Bytes))
    BY <1>2, Xored
  <2>4. emitted' = emitted
    <3> DEFINE B == XBytes(Bytes)
    <3> HIDE DEF B
    <3>1. emitted \in Seq(B)
      BY <1>1, <2>3 DEF B
    <3> QED BY <3>1, <2>2
  <2> QED BY <1>4, <2>2, <2>4 DEF Finish
<1>5. CASE UNCHANGED vars
  BY <1>1, <1>2, <1>5, SameData DEF vars, Spending
<1>6. engine' = engine /\ fed' = fed => Spending'
  BY <1>1, <1>2, SameData DEF Spending
<1> QED BY <1>1, <1>2, <1>3, <1>4, <1>5, <1>6, Steps, SameData

\* What came out is the beginning of what the whole input gives.
LEMMA SofarIsPrefix ==
  ASSUME Place
  PROVE  IsPrefix(XorFrom(Sofar, 0), XorFrom(data, 0))
<1> DEFINE S == Bytes
           x == XorFrom(Sofar, 0)
           y == XorFrom(data, 0)
           B == XBytes(S)
<1>1. data \in Seq(S) /\ Sofar \in Seq(S) /\ Len(Sofar) = fed /\ fed \in Nat /\ Len(data) \in Nat /\ fed <= Len(data)
  BY DataIsRead
<1>2. x \in Seq(B) /\ Len(x) = fed /\ \A i \in 1 .. fed : x[i] = <<"x", Sofar[i], i - 1>>
  BY <1>1, Xored
<1>3. y \in Seq(B) /\ Len(y) = Len(data) /\ \A i \in 1 .. Len(data) : y[i] = <<"x", data[i], i - 1>>
  BY <1>1, Xored
<1>4. \A i \in 1 .. fed : Sofar[i] = data[i]
  <2> HIDE DEF S
  <2> QED BY <1>1 DEF Sofar
<1> HIDE DEF S, x, y, B
<1>5. \A i \in 1 .. fed : x[i] = y[i]
  <2> SUFFICES ASSUME NEW i \in 1 .. fed  PROVE x[i] = y[i]
    OBVIOUS
  <2>1. i \in 1 .. Len(data)
    BY <1>1
  <2>2. x[i] = <<"x", Sofar[i], i - 1>>
    BY <1>2
  <2>3. y[i] = <<"x", data[i], i - 1>>
    BY <2>1, <1>3
  <2>4. Sofar[i] = data[i]
    BY <1>4
  <2> QED BY <2>2, <2>3, <2>4
<1>6. SubSeq(x, 1, fed) = SubSeq(y, 1, fed)
  <2>1. SubSeq(x, 1, fed) \in Seq(B) /\ Len(SubSeq(x, 1, fed)) = fed /\ \A i \in 1 .. fed : SubSeq(x, 1, fed)[i] = x[i]
    BY <1>1, <1>2
  <2>2. SubSeq(y, 1, fed) \in Seq(B) /\ Len(SubSeq(y, 1, fed)) = fed /\ \A i \in 1 .. fed : SubSeq(y, 1, fed)[i] = y[i]
    BY <1>1, <1>3
  <2> QED BY <2>1, <2>2, <1>5
<1>7. IsPrefix(x, y)
  BY <1>1, <1>2, <1>3, <1>6 DEF IsPrefix
<1> QED BY <1>7 DEF x, y

\* However the input of a raw stream cipher is cut, its bytes come out xored
\* with the keystream of the one-shot function, none spent twice or skipped,
\* and less than a unit of keystream is held (ChaCha, Salsa20 and the others
\* behind arxEngine and roundedEngine, and those littleEndian64Engine draws
\* from word by word).
THEOREM KeystreamIsSpentOnce ==
  Spec => [](config.engine \in {"arx", "word"} => TypeOK /\ CutsAreInvisible)
<1>1. Init => Place /\ RawInv
  BY Starts, RawBegins
<1>2. Place /\ RawInv /\ [Next]_vars => (Place /\ RawInv)'
  BY Steps, RawStep
<1>3. Place /\ RawInv => (config.engine \in {"arx", "word"} => TypeOK /\ CutsAreInvisible)
  <2> SUFFICES ASSUME Place, RawInv, config.engine \in {"arx", "word"}  PROVE TypeOK /\ CutsAreInvisible
    OBVIOUS
  <2>1. /\ Spending /\ emitted = XorFrom(Sofar, 0) /\ status # "failed" /\ (status = "done" => fed = Len(data))
    BY DEF RawInv
  <2>2. TypeOK
    <3>1. CASE config.engine = "arx"
      BY <3>1, <2>1 DEF TypeOK, Place, Spending, RawAt
    <3>2. CASE config.engine = "word"
      <4>1. engine.at \in 0 .. UnitSize
        BY <3>2, <2>1 DEF Spending, WordAt
      <4> QED BY <3>2, <4>1 DEF TypeOK, Place
    <3> QED BY <3>1, <3>2
  <2>3. OneShot(config, data) = [ok |-> TRUE, out |-> XorFrom(data, 0)]
    BY DEF OneShot, Good, RawOneShot
  <2>4. status = "done" => emitted = XorFrom(data, 0)
    BY <2>1, DataIsRead
  <2>5. IsPrefix(emitted, XorFrom(data, 0))
    BY <2>1, SofarIsPrefix
  <2>6. CutsAreInvisible
    BY <2>1, <2>3, <2>4, <2>5 DEF CutsAreInvisible, Done
  <2> QED BY <2>2, <2>6
<1> QED BY <1>1, <1>2, <1>3, PTL DEF Spec

-----------------------------------------------------------------------------
\* The inductive invariant of GCM: what came out is the ciphertext of what
\* was read, and the engine has hashed all of it but a short rest.
GcmInv ==
  config.engine = "gcm" =>
    LET c == XorFrom(Sofar, 0)
    IN /\ status # "failed"
       /\ GcmAt(XBytes(Bytes), engine, c)
       /\ status = "feeding" => emitted = c
       /\ status = "done"    => fed = Len(data) /\ emitted = c \o GcmFinish(engine)

LEMMA GcmBegins == ASSUME Init PROVE GcmInv
<1> SUFFICES ASSUME config.engine = "gcm"
             PROVE  GcmAt(XBytes(Bytes), engine, XorFrom(Sofar, 0)) /\ emitted = XorFrom(Sofar, 0) /\ status = "feeding"
  BY DEF GcmInv
<1> QED BY Starts, GcmStarts, XorOfNothing DEF Started

\* A chunk keeps it, and the end of the input puts the tag on.
LEMMA GcmStep == ASSUME Place, GcmInv, [Next]_vars  PROVE GcmInv'
<1> DEFINE S == Bytes
           c == XorFrom(Sofar, 0)
<1>0. job' = job /\ data' = data /\ config' = config /\ (fed' = fed => Sofar' = Sofar)
  BY Steps, SameData
<1>00. Bytes' = Bytes
  BY <1>0 DEF Bytes
<1> SUFFICES ASSUME config.engine = "gcm"
             PROVE  /\ status' # "failed"
                    /\ GcmAt(XBytes(Bytes), engine', XorFrom(Sofar', 0))
                    /\ status' = "feeding" => emitted' = XorFrom(Sofar', 0)
                    /\ status' = "done"    => fed' = Len(data) /\ emitted' = XorFrom(Sofar', 0) \o GcmFinish(engine')
  BY <1>0, <1>00 DEF GcmInv
<1>1. /\ status # "failed" /\ GcmAt(XBytes(S), engine, c)
      /\ status = "feeding" => emitted = c
      /\ status = "done"    => fed = Len(data) /\ emitted = c \o GcmFinish(engine)
  BY DEF GcmInv
<1>2. Sofar \in Seq(S) /\ Len(Sofar) = fed /\ fed \in Nat
  BY DataIsRead
<1>3. c \in Seq(XBytes(S)) /\ Len(c) = fed
  BY <1>2, Xored
<1> HIDE DEF S
<1>4. ASSUME NEW n \in Ends, status = "feeding", fed' = n, Advance(Updated(config, engine, Chunk(n)))
      PROVE  status' = "feeding" /\ GcmAt(XBytes(S), engine', XorFrom(Sofar', 0)) /\ emitted' = XorFrom(Sofar', 0)
  <2> DEFINE x == Chunk(n)
             y == Sofar
  <2>1. n \in Nat /\ x \in Seq(S) /\ y \o x = SubSeq(data, 1, n)
    BY ChunkIs DEF S
  <2>2. Sofar' = y \o x
    BY <1>0, <1>4, <2>1 DEF Sofar
  <2>3. /\ engine' = GcmUpdate(engine, x).state /\ status' = "feeding"
        /\ emitted' = c \o GcmUpdate(engine, x).out
    BY <1>1, <1>4 DEF Advance, Deliver, Updated, Always
  <2>4. y \in Seq(S) /\ Len(y) = fed /\ 0 \in Nat /\ 0 + fed = fed
    BY <1>2
  <2> HIDE DEF x, y
  <2>5. XorFrom(y, 0) \o XorFrom(x, 0 + Len(y)) = XorFrom(y \o x, 0)
    BY <2>1, <2>4, XorJoins
  <2>6. c \o XorFrom(x, Len(c)) = XorFrom(Sofar', 0)
    BY <2>2, <2>4, <2>5, <1>3 DEF y
  <2> HIDE DEF c
  <2>7. /\ GcmUpdate(engine, x).out = XorFrom(x, Len(c))
        /\ GcmAt(XBytes(S), GcmUpdate(engine, x).state, c \o XorFrom(x, Len(c)))
    BY <1>1, <1>3, <2>1, GcmGoesOn
  <2> QED BY <2>3, <2>6, <2>7
<1>5. ASSUME Finish
      PROVE  status' = "done" /\ fed' = fed /\ fed = Len(data) /\ engine' = engine /\ emitted' = c \o GcmFinish(engine)
  <2>1. Finished(config, engine) = Good(GcmFinish(engine))
    BY DEF Finished
  <2> QED BY <1>5, <2>1, <1>1 DEF Finish, Deliver, Good
<1>6. CASE UNCHANGED vars
  BY <1>0, <1>1, <1>6 DEF vars, S
<1> QED BY <1>0, <1>1, <1>4, <1>5, <1>6, Steps DEF S

-----------------------------------------------------------------------------
\* However a message is cut, incremental GCM gives the ciphertext and the tag
\* of the one-shot function, which decrypts to the message, and holds less
\* than a block.
THEOREM TagIsOfTheWhole == Spec => [](config.engine = "gcm" => TypeOK /\ CutsAreInvisible /\ StreamsComeBack)
<1>1. Init => Place /\ GcmInv
  BY Starts, GcmBegins
<1>2. Place /\ GcmInv /\ [Next]_vars => (Place /\ GcmInv)'
  BY Steps, GcmStep
<1>3. Place /\ GcmInv => (config.engine = "gcm" => TypeOK /\ CutsAreInvisible /\ StreamsComeBack)
  <2> SUFFICES ASSUME Place, GcmInv, config.engine = "gcm"  PROVE TypeOK /\ CutsAreInvisible /\ StreamsComeBack
    OBVIOUS
  <2> DEFINE c == XorFrom(Sofar, 0)
             C == XorFrom(data, 0)
             S == Bytes
             seal == Tag(Ghash(C), Len(data))
  <2>1. /\ status # "failed" /\ GcmAt(XBytes(S), engine, c)
        /\ status = "feeding" => emitted = c
        /\ status = "done"    => fed = Len(data) /\ emitted = c \o GcmFinish(engine)
    BY DEF GcmInv
  <2>2. Sofar \in Seq(S) /\ data \in Seq(S) /\ Len(Sofar) = fed /\ fed \in Nat /\ Len(data) \in Nat /\ (fed = Len(data) => Sofar = data)
    BY DataIsRead
  <2>3. c \in Seq(XBytes(S)) /\ Len(c) = fed /\ C \in Seq(XBytes(S)) /\ Len(C) = Len(data)
    BY <2>2, Xored
  <2>4. TypeOK
    BY <2>1 DEF TypeOK, Place, GcmAt
  <2>5. OneShot(config, data) = [ok |-> TRUE, out |-> C \o <<seal>>]
    BY DEF OneShot, Good, RawOneShot
  <2>6. IsPrefix(c, C)
    BY SofarIsPrefix
  <2>7. status = "done" => emitted = C \o <<seal>>
    <3> SUFFICES ASSUME status = "done"  PROVE c \o GcmFinish(engine) = C \o <<seal>>
      BY <2>1
    <3>1. Sofar = data /\ c = C
      BY <2>1, <2>2
    <3>2. Ghash(c) = engine.blocks \o Ghash(engine.tail) /\ engine.at = fed
      <4> DEFINE B == XBytes(S)
      <4>1. GcmAt(B, engine, c) /\ c \in Seq(B) /\ Len(c) = fed
        BY <2>1, <2>3
      <4> HIDE DEF B, c
      <4> QED BY <4>1, GhashSplits DEF GcmAt
    <3> QED BY <3>1, <3>2, <2>1 DEF GcmFinish
  <2>8. IsPrefix(C \o <<seal>>, C \o <<seal>>) /\ IsPrefix(c, C \o <<seal>>)
    <3> DEFINE B == XBytes(S) \cup {seal}
               X == XBytes(S)
    <3>1. C \in Seq(X) /\ c \in Seq(X) /\ Len(C) \in Nat
      BY <2>3, <2>2
    <3> HIDE DEF c, C, X
    <3>2. C \in Seq(B) /\ c \in Seq(B) /\ seal \in B
      BY <3>1 DEF X
    <3> HIDE DEF B, seal
    <3>3. /\ Len(C \o <<seal>>) = Len(C) + 1
          /\ SubSeq(C \o <<seal>>, 1, Len(C \o <<seal>>)) = C \o <<seal>>
      <4>1. C \o <<seal>> \in Seq(B) /\ Len(C \o <<seal>>) = Len(C) + 1
        BY <3>2
      <4> DEFINE y == C \o <<seal>>
      <4> HIDE DEF y
      <4>2. y \in Seq(B) => SubSeq(y, 1, Len(y)) = y
        OBVIOUS
      <4> QED BY <4>1, <4>2 DEF y
    <3>4. Len(c) <= Len(C) /\ c = SubSeq(C, 1, Len(c)) /\ Len(c) \in Nat
      BY <3>2, <2>6 DEF IsPrefix
    <3>5. SubSeq(C \o <<seal>>, 1, Len(c)) = SubSeq(C, 1, Len(c))
      <4>1. <<seal>> \in Seq(B) /\ 1 \in Int /\ Len(c) \in Int /\ 1 <= Len(c) + 1
        BY <3>2, <3>4
      <4> QED BY <4>1, <3>2, <3>4, LeftSlice
    <3> QED BY <3>2, <3>3, <3>4, <3>5 DEF IsPrefix
  <2> HIDE DEF c, C, seal, S
  <2>9. CutsAreInvisible
    <3>1. status \in {"feeding", "done"}
      BY <2>1 DEF Place
    <3>2. IsPrefix(emitted, C \o <<seal>>)
      BY <3>1, <2>1, <2>7, <2>8
    <3> QED BY <3>1, <3>2, <2>5, <2>7 DEF CutsAreInvisible, Done
  <2>10. StreamsComeBack
    <3> SUFFICES ASSUME status = "done"  PROVE GcmDecrypt(emitted) = [ok |-> TRUE, out |-> data]
      BY DEF StreamsComeBack, Done, Undone
    <3> QED BY <2>2, <2>7, GcmOpens DEF C, seal
  <2> QED BY <2>4, <2>9, <2>10
<1> QED BY <1>1, <1>2, <1>3, PTL DEF Spec

-----------------------------------------------------------------------------
(* The hashes. *)

\* All that is in blocks.
Content == Bytes \cup Marks

\* The inductive invariant of the hashes.
HashInv ==
  config.engine = "hash" =>
    /\ status # "failed"
    /\ Hashed(Content, config.design, engine, Sofar)
    /\ status = "feeding" => emitted = <<>>
    /\ status = "done"    => fed = Len(data) /\ emitted = DigestOf(config.design, engine)

LEMMA OfContent == ASSUME NEW s \in Seq(Bytes)  PROVE s \in Seq(Content)
<1>1. Bytes \subseteq Content
  BY DEF Content
<1> DEFINE S == Bytes
           C == Content
<1> HIDE DEF S, C
<1>2. s \in Seq(S) /\ S \subseteq C
  BY <1>1 DEF S, C
<1>3. s \in Seq(C)
  BY <1>2
<1> QED BY <1>3 DEF C

LEMMA MarksAreContent == Marks \subseteq Content /\ <<"0">> \in Content
BY DEF Content, Marks

LEMMA JobIsDesigned == ASSUME Place, config.engine = "hash"  PROVE config.design \in Designs
BY HashesAreDesigned DEF Place, config

LEMMA HashStarts == ASSUME Init PROVE HashInv
<1> SUFFICES ASSUME config.engine = "hash"
             PROVE  Hashed(Content, config.design, engine, Sofar) /\ emitted = <<>> /\ status = "feeding"
  BY DEF HashInv
<1>1. engine = DigestStart(config.design)
  BY Starts DEF Started
<1>2. <<"0">> \in Content /\ config.design \in Designs
  BY MarksAreContent, Starts, JobIsDesigned
<1>3. Hashed(Content, config.design, DigestStart(config.design), <<>>)
  BY <1>2, HashedBegins
<1> QED BY <1>1, <1>3, Starts

\* A chunk keeps it, and the end of the input gives the digest.
LEMMA HashStep == ASSUME Place, HashInv, [Next]_vars  PROVE HashInv'
<1>0. job' = job /\ data' = data /\ config' = config /\ (fed' = fed => Sofar' = Sofar)
  BY Steps, SameData
<1>00. Content' = Content
  BY <1>0 DEF Content, Bytes, Marks
<1> DEFINE g == config.design
<1> SUFFICES ASSUME config.engine = "hash"
             PROVE  /\ status' # "failed"
                    /\ Hashed(Content, g, engine', Sofar')
                    /\ status' = "feeding" => emitted' = <<>>
                    /\ status' = "done"    => fed' = Len(data) /\ emitted' = DigestOf(g, engine')
  BY <1>0, <1>00 DEF HashInv
<1>1. /\ status # "failed" /\ Hashed(Content, g, engine, Sofar)
      /\ status = "feeding" => emitted = <<>>
      /\ status = "done"    => fed = Len(data) /\ emitted = DigestOf(g, engine)
  BY DEF HashInv
<1>2. Sofar \in Seq(Content) /\ g \in Designs /\ Marks \subseteq Content
  BY DataIsRead, OfContent, JobIsDesigned, MarksAreContent
<1>3. \E T : DigestOf(g, engine) \in Seq(T)
  BY <1>1, <1>2, HashedCloses
<1> HIDE DEF g
<1>4. ASSUME NEW n \in Ends, status = "feeding", fed' = n, Advance(Updated(config, engine, Chunk(n)))
      PROVE  status' = "feeding" /\ Hashed(Content, g, engine', Sofar') /\ emitted' = <<>>
  <2> DEFINE x == Chunk(n)
             y == Sofar
  <2>1. x \in Seq(Content) /\ y \o x = SubSeq(data, 1, n)
    BY ChunkIs, OfContent
  <2>2. Sofar' = y \o x
    BY <1>0, <1>4, <2>1 DEF Sofar
  <2>3. Updated(config, engine, x) = Silently(DigestUpdate(g, engine, x))
    BY DEF Updated, g
  <2>4. engine' = DigestUpdate(g, engine, x) /\ status' = "feeding" /\ emitted' = <<>> \o <<>>
    BY <1>1, <1>4, <2>3 DEF Advance, Deliver, Silently
  <2>5. Hashed(Content, g, DigestUpdate(g, engine, x), y \o x)
    BY <1>1, <1>2, <2>1, HashedGoesOn
  <2>6. <<>> \o <<>> = <<>>
    OBVIOUS
  <2> QED BY <2>2, <2>4, <2>5, <2>6
<1>5. ASSUME Finish
      PROVE  status' = "done" /\ fed' = fed /\ fed = Len(data) /\ engine' = engine /\ emitted' = <<>> \o DigestOf(g, engine)
  <2>1. Finished(config, engine) = Good(DigestOf(g, engine))
    BY DEF Finished, g
  <2>2. status = "feeding" /\ fed = Len(data) /\ UNCHANGED <<job, fed, engine>>
    BY <1>5 DEF Finish
  <2>3. Deliver(Good(DigestOf(g, engine)), "done")
    BY <1>5, <2>1 DEF Finish
  <2>4. status' = "done" /\ emitted' = emitted \o DigestOf(g, engine)
    BY <2>3 DEF Deliver, Good
  <2> QED BY <1>1, <2>2, <2>4
<1>6. CASE UNCHANGED vars
  BY <1>0, <1>1, <1>6 DEF vars
<1>7. <<>> \o DigestOf(g, engine) = DigestOf(g, engine)
  <2> DEFINE z == DigestOf(g, engine)
  <2> HIDE DEF z
  <2>1. PICK T : z \in Seq(T)
    BY <1>3 DEF z
  <2>2. <<>> \o z = z
    BY <2>1
  <2> QED BY <2>2 DEF z
<1> QED BY <1>0, <1>1, <1>4, <1>5, <1>6, <1>7, Steps

\* However a file is cut, every hash ends as the one-shot form of its design
\* does on the whole message: with the blocks of the padded message and
\* nothing of what its buffer held before (MerkleDamgard, MD2, xxHash, the
\* sums of words, HAVAL, FSB, Streebog, the sponges and the others), the last
\* block known for the last (Esch, PHOTON-Beetle, Skein), every stripe in its
\* turn (XXH3), or the root of the tree over all leaves (MD6); and it holds
\* no more than its buffers.
THEOREM HashesAreOneShot == Spec => [](config.engine = "hash" => TypeOK /\ CutsAreInvisible)
<1>1. Init => Place /\ HashInv
  BY Starts, HashStarts
<1>2. Place /\ HashInv /\ [Next]_vars => (Place /\ HashInv)'
  BY Steps, HashStep
<1>3. Place /\ HashInv => (config.engine = "hash" => TypeOK /\ CutsAreInvisible)
  <2> SUFFICES ASSUME Place, HashInv, config.engine = "hash"  PROVE TypeOK /\ CutsAreInvisible
    OBVIOUS
  <2> DEFINE g == config.design
             z == DigestOneShot(g, data)
  <2>1. /\ status # "failed" /\ Hashed(Content, g, engine, Sofar)
        /\ status = "feeding" => emitted = <<>>
        /\ status = "done"    => fed = Len(data) /\ emitted = DigestOf(g, engine)
    BY DEF HashInv
  <2>0. Sofar \in Seq(Content) /\ g \in Designs /\ Marks \subseteq Content /\ (fed = Len(data) => Sofar = data)
    BY DataIsRead, OfContent, JobIsDesigned, MarksAreContent
  <2>2. TypeOK
    <3>1. HoldsLittle(g, engine)
      BY <2>0, <2>1, HashedIsLittle
    <3> QED BY <3>1 DEF TypeOK, Place
  <2>3. OneShot(config, data) = [ok |-> TRUE, out |-> z]
    BY DEF OneShot, Good
  <2>5. CASE status = "done"
    <3>1. emitted = z /\ \E T : z \in Seq(T)
      <4>1. DigestOf(g, engine) = DigestOneShot(g, Sofar) /\ \E T : DigestOf(g, engine) \in Seq(T)
        BY <2>0, <2>1, HashedCloses
      <4> QED BY <2>0, <2>1, <2>5, <4>1
    <3> HIDE DEF z
    <3>2. PICK T : z \in Seq(T)
      BY <3>1
    <3>3. IsPrefix(z, z)
      BY <3>2 DEF IsPrefix
    <3> QED BY <2>2, <2>3, <2>5, <3>1, <3>3 DEF CutsAreInvisible, Done
  <2>6. CASE status # "done"
    <3>1. status = "feeding" /\ emitted = <<>>
      BY <2>1, <2>6 DEF Place
    <3> QED BY <2>2, <3>1 DEF CutsAreInvisible
  <2> QED BY <2>5, <2>6
<1> QED BY <1>1, <1>2, <1>3, PTL DEF Spec

-----------------------------------------------------------------------------
(* The CRC. *)

\* The register is that of what was read.
CrcInv ==
  config.engine = "crc" =>
    /\ Registered(config.form, engine, Sofar)
    /\ status = "feeding" => emitted = <<>>
    /\ status # "feeding" => fed = Len(data) /\ emitted = CrcFinish(config.form, engine).out
    /\ status = "done"    => CrcFinish(config.form, engine).ok
    /\ status = "failed"  => ~CrcFinish(config.form, engine).ok

LEMMA JobIsFilledIn ==
  ASSUME Place, config.engine = "crc"
  PROVE  FilledIn(config.form) /\ InOctets(data) /\ InOctets(Sofar) /\ (fed = Len(data) => Sofar = data)
<1>1. FilledIn(config.form) /\ InOctets(data)
  BY CrcsAreFilledIn DEF Place, FilledIn, InOctets, config, data
<1>2. Len(data) \in Nat /\ fed \in 0 .. Len(data) /\ (fed = Len(data) => Sofar = data)
  BY DataIsRead DEF Place
<1>3. SubSeq(data, 1, fed) \in Seq(SUBSET (0 .. OctetBits - 1))
  <2> DEFINE O == SUBSET (0 .. OctetBits - 1)
  <2>1. data \in Seq(O)
    BY <1>1 DEF InOctets
  <2> HIDE DEF O
  <2>2. SubSeq(data, 1, fed) \in Seq(O)
    BY <2>1, <1>2
  <2> QED BY <2>2 DEF O
<1> QED BY <1>1, <1>2, <1>3 DEF InOctets, Sofar

LEMMA CrcStarts == ASSUME Init PROVE CrcInv
<1> SUFFICES ASSUME config.engine = "crc"
             PROVE  Registered(config.form, engine, Sofar) /\ emitted = <<>> /\ status = "feeding"
  BY DEF CrcInv
<1>1. engine = CrcStart(config.form)
  BY Starts DEF Started
<1>2. FilledIn(config.form)
  BY Starts, JobIsFilledIn
<1>3. Registered(config.form, CrcStart(config.form), <<>>)
  BY <1>2, RegisterBegins
<1> QED BY <1>1, <1>3, Starts

\* A chunk keeps it, and the end of the input gives its octets or refuses.
LEMMA CrcStep == ASSUME Place, CrcInv, [Next]_vars  PROVE CrcInv'
<1>0. job' = job /\ data' = data /\ config' = config /\ (fed' = fed => Sofar' = Sofar)
  BY Steps, SameData
<1> DEFINE f == config.form
           r == CrcFinish(f, engine)
<1> SUFFICES ASSUME config.engine = "crc"
             PROVE  /\ Registered(f, engine', Sofar')
                    /\ status' = "feeding" => emitted' = <<>>
                    /\ status' # "feeding" => fed' = Len(data) /\ emitted' = CrcFinish(f, engine').out
                    /\ status' = "done"    => CrcFinish(f, engine').ok
                    /\ status' = "failed"  => ~CrcFinish(f, engine').ok
  BY <1>0 DEF CrcInv
<1>1. /\ Registered(f, engine, Sofar)
      /\ status = "feeding" => emitted = <<>>
      /\ status # "feeding" => fed = Len(data) /\ emitted = r.out
      /\ status = "done"    => r.ok
      /\ status = "failed"  => ~r.ok
  BY DEF CrcInv
<1>2. FilledIn(f) /\ InOctets(Sofar) /\ InOctets(data) /\ Len(data) \in Nat
  BY JobIsFilledIn, DataIsRead
<1>3. r.ok \in BOOLEAN /\ \E T : r.out \in Seq(T)
  BY <1>1, <1>2, RegisterCloses
<1> HIDE DEF f
<1>4. ASSUME NEW n \in Ends, status = "feeding", fed' = n, Advance(Updated(config, engine, Chunk(n)))
      PROVE  status' = "feeding" /\ Registered(f, engine', Sofar') /\ emitted' = <<>>
  <2> DEFINE x == Chunk(n)
             y == Sofar
  <2>1. y \o x = SubSeq(data, 1, n) /\ InOctets(x)
    <3>1. /\ n \in Nat /\ fed <= n /\ n <= Len(data) /\ fed \in Nat
          /\ y \o x = SubSeq(data, 1, n)
      BY ChunkIs, DataIsRead
    <3> DEFINE O == SUBSET (0 .. OctetBits - 1)
    <3>2. data \in Seq(O)
      BY <1>2 DEF InOctets
    <3> HIDE DEF O
    <3>3. SubSeq(data, fed + 1, n) \in Seq(O)
      BY <3>1, <3>2, <1>2
    <3> QED BY <3>1, <3>3 DEF Chunk, InOctets, O
  <2>2. Sofar' = y \o x
    BY <1>0, <1>4, <2>1 DEF Sofar
  <2>3. Updated(config, engine, x) = Silently(CrcUpdate(f, engine, x))
    BY DEF Updated, f
  <2>4. engine' = CrcUpdate(f, engine, x) /\ status' = "feeding" /\ emitted' = <<>> \o <<>>
    BY <1>1, <1>4, <2>3 DEF Advance, Deliver, Silently
  <2>5. Registered(f, CrcUpdate(f, engine, x), y \o x)
    BY <1>1, <1>2, <2>1, RegisterGoesOn
  <2>6. <<>> \o <<>> = <<>>
    OBVIOUS
  <2> QED BY <2>2, <2>4, <2>5, <2>6
<1> HIDE DEF r
<1>5. ASSUME Finish
      PROVE  /\ fed' = fed /\ fed = Len(data) /\ engine' = engine /\ emitted' = r.out
             /\ status' = IF r.ok THEN "done" ELSE "failed"
  <2>1. Finished(config, engine) = r
    BY DEF Finished, f, r
  <2>2. status = "feeding" /\ fed = Len(data) /\ UNCHANGED <<job, fed, engine>> /\ Deliver(r, "done")
    BY <1>5, <2>1 DEF Finish
  <2>3. emitted' = <<>> \o r.out /\ status' = IF r.ok THEN "done" ELSE "failed"
    BY <1>1, <2>2 DEF Deliver
  <2>4. <<>> \o r.out = r.out
    <3> DEFINE z == r.out
    <3>1. PICK T : z \in Seq(T)
      BY <1>3
    <3> HIDE DEF z
    <3>2. <<>> \o z = z
      BY <3>1
    <3> QED BY <3>2 DEF z
  <2> QED BY <2>2, <2>3, <2>4
<1>6. CASE \E n \in Ends : status = "feeding" /\ fed' = n /\ Advance(Updated(config, engine, Chunk(n)))
  BY <1>4, <1>6
<1>7. CASE Finish
  <2>1. Registered(f, engine', Sofar') /\ fed' = Len(data) /\ CrcFinish(f, engine') = r /\ emitted' = r.out
    BY <1>0, <1>1, <1>5, <1>7 DEF r
  <2> QED BY <2>1, <1>3, <1>5, <1>7
<1>8. CASE UNCHANGED vars
  BY <1>0, <1>1, <1>8 DEF vars, r
<1> QED BY <1>6, <1>7, <1>8, Steps

\* However a file is cut, the table-driven CRC leaves what long division of
\* the message leaves: for any width, below an octet or above, any polynomial
\* and first value, reflected or not; the loop over the reflected table shown
\* with it leaves the same; a form that resolves to no model is refused at the
\* end and nowhere before.
THEOREM CrcIsLongDivision == Spec => [](config.engine = "crc" => TypeOK /\ CutsAreInvisible)
<1>1. Init => Place /\ CrcInv
  BY Starts, CrcStarts
<1>2. Place /\ CrcInv /\ [Next]_vars => (Place /\ CrcInv)'
  BY Steps, CrcStep
<1>3. Place /\ CrcInv => (config.engine = "crc" => TypeOK /\ CutsAreInvisible)
  <2> SUFFICES ASSUME Place, CrcInv, config.engine = "crc"  PROVE TypeOK /\ CutsAreInvisible
    OBVIOUS
  <2> DEFINE f == config.form
             r == ResolveModel(f)
             z == CrcFinish(f, engine)
             answer == CrcOneShot(f, data)
  <2>1. /\ Registered(f, engine, Sofar)
        /\ status = "feeding" => emitted = <<>>
        /\ status # "feeding" => fed = Len(data) /\ emitted = z.out
        /\ status = "done"    => z.ok
        /\ status = "failed"  => ~z.ok
    BY DEF CrcInv
  <2>2. FilledIn(f) /\ InOctets(Sofar) /\ (fed = Len(data) => Sofar = data)
    BY JobIsFilledIn
  <2>3. TypeOK
    <3>1. engine \subseteq 0 .. Max({f.width, OctetBits}) - 1
      BY <2>1, <2>2, RegisterIsLittle
    <3> QED BY <3>1 DEF TypeOK, Place
  <2>4. OneShot(config, data) = answer
    BY DEF OneShot
  <2>5. CASE status # "feeding"
    <3>1. Registered(f, engine, data) /\ InOctets(data) /\ emitted = z.out
      BY <2>1, <2>2, <2>5
    <3>2. /\ z = answer /\ z.ok = r.ok /\ z.ok \in BOOLEAN
          /\ \E T : z.out \in Seq(T)
          /\ r.ok /\ f.refIn /\ f.refOut => ToOctets(ByReflectedTable(r.model, data), r.model.width) = z.out
      BY <2>2, <3>1, RegisterCloses
    <3> HIDE DEF z, answer
    <3>3. IsPrefix(emitted, emitted)
      <4>1. PICK T : emitted \in Seq(T)
        BY <3>1, <3>2
      <4> QED BY <4>1 DEF IsPrefix
    <3>4. /\ status = "done"   => answer.ok /\ emitted = answer.out
          /\ status = "failed" => ~answer.ok
          /\ answer.ok         => IsPrefix(emitted, answer.out)
      BY <2>1, <3>1, <3>2, <3>3
    <3>5. status = "done" /\ f.refIn /\ f.refOut => ToOctets(ByReflectedTable(r.model, data), r.model.width) = emitted
      BY <2>1, <3>1, <3>2
    <3> HIDE DEF r, f
    <3>6. CutsAreInvisible
      BY <2>4, <3>4, <3>5 DEF CutsAreInvisible, Done, r, f
    <3> QED BY <2>3, <3>6
  <2>6. CASE status = "feeding"
    BY <2>1, <2>3, <2>6 DEF CutsAreInvisible
  <2> QED BY <2>5, <2>6
<1> QED BY <1>1, <1>2, <1>3, PTL DEF Spec

-----------------------------------------------------------------------------
(* The containers. *)

\* The bytes of the message in a container, and those that come out.
Inside == Range(job.true)
Coming == Given(config, Bytes, Inside)

\* What is in the sealed bytes of a container is some of its message.
LEMMA JobIsLegible == ASSUME Place, config.engine = "framed"  PROVE Legible(config, Bytes, Inside)
<1> SUFFICES ASSUME config.direction # "encrypt", NEW b \in Bytes, b[1] = "s"  PROVE b[4] \in Seq(Inside)
  BY DEF Legible, Readable
<1> DEFINE p == job.true
           T == Inside
<1>1. p \in Seq(T) /\ b[2] \in Nat /\ (b[4] = MessageChunk(p, b[2]) \/ b[4] = <<>>)
  BY NothingIsForged DEF Place, config, data, Bytes, Inside
<1>2. <<>> \in Seq(T)
  OBVIOUS
<1>3. MessageChunk(p, b[2]) \in Seq(T)
  <2> DEFINE k == b[2]
             m == (k + 1) * ChunkSize
  <2> HIDE DEF p, T
  <2>1. k \in Nat /\ m \in Int /\ k * ChunkSize + 1 \in Nat /\ k * ChunkSize + 1 >= 1 /\ Len(p) \in Nat
    BY <1>1, SizesAre
  <2>2. ASSUME NEW n \in Int, n <= Len(p)  PROVE SubSeq(p, k * ChunkSize + 1, n) \in Seq(T)
    <3> DEFINE q == k * ChunkSize + 1
    <3>1. q \in Nat /\ q >= 1
      BY <2>1
    <3> HIDE DEF q
    <3>2. SubSeq(p, q, n) \in Seq(T)
      BY <1>1, <2>2, <3>1
    <3> QED BY <3>2 DEF q
  <2> HIDE DEF m, k
  <2>3. (IF m < Len(p) THEN m ELSE Len(p)) \in Int /\ (IF m < Len(p) THEN m ELSE Len(p)) <= Len(p)
    BY <2>1
  <2> QED BY <2>2, <2>3 DEF MessageChunk, m, k
<1> QED BY <1>1, <1>2, <1>3

\* The inductive invariant: the state and the output are those of what was
\* read, whatever the chunks were; and a refusal is one of the whole input,
\* after the output of a beginning of it.
FramedInv ==
  config.engine = "framed" =>
    LET last == FrameFinish(config, StateAt(config, data))
    IN /\ status = "feeding" => /\ CanAt(config, Sofar) /\ engine = StateAt(config, Sofar)
                                /\ emitted = OutAt(config, Sofar)
       /\ status = "done"    => /\ fed = Len(data) /\ CanAt(config, data) /\ last.ok
                                /\ emitted = OutAt(config, data) \o last.out
       /\ status = "failed"  => /\ ~(CanAt(config, data) /\ last.ok)
                                /\ \E n \in 0 .. Len(data) : /\ CanAt(config, SubSeq(data, 1, n))
                                                             /\ emitted = OutAt(config, SubSeq(data, 1, n))

LEMMA FramedStarts == ASSUME Init PROVE FramedInv
<1> SUFFICES ASSUME config.engine = "framed"
             PROVE  CanAt(config, Sofar) /\ engine = StateAt(config, Sofar) /\ emitted = OutAt(config, Sofar) /\ status = "feeding"
  BY DEF FramedInv
<1>1. engine = FrameStart(config)
  BY Starts DEF Started
<1> QED BY <1>1, Starts, FrameStarts

\* What is still to come.
LEMMA RestIs ==
  ASSUME Place, NEW n \in 0 .. Len(data)
  PROVE  /\ SubSeq(data, 1, n) \in Seq(Bytes) /\ After(data, n) \in Seq(Bytes)
         /\ SubSeq(data, 1, n) \o After(data, n) = data
<1> DEFINE S == Bytes
<1>1. data \in Seq(S) /\ n \in Nat /\ n <= Len(data) /\ Len(data) \in Nat
  BY DataIsRead
<1> HIDE DEF S
<1>2. /\ SubSeq(data, 1, n) \in Seq(S) /\ SubSeq(data, n + 1, Len(data)) \in Seq(S)
      /\ SubSeq(data, 1, n) \o SubSeq(data, n + 1, Len(data)) = data
  <2> DEFINE d == data
  <2> HIDE DEF d
  <2>1. d \in Seq(S) /\ n \in Nat /\ n <= Len(d) /\ Len(d) \in Nat
    BY <1>1 DEF d
  <2>2. SubSeq(d, 1, n) \in Seq(S) /\ SubSeq(d, n + 1, Len(d)) \in Seq(S)
    BY ONLY <2>1
  <2>3. SubSeq(d, 1, n) \o SubSeq(d, n + 1, Len(d)) = SubSeq(d, 1, Len(d))
    <3> DEFINE m == Len(d)
    <3>1. d \in Seq(S) /\ n \in Nat /\ n <= m /\ m <= Len(d) /\ Len(d) \in Nat /\ m \in Nat
      BY <2>1
    <3> HIDE DEF m
    <3>2. SubSeq(d, 1, n) \o SubSeq(d, n + 1, m) = SubSeq(d, 1, m)
      BY ONLY <3>1
    <3> QED BY <3>2 DEF m
  <2>4. SubSeq(d, 1, Len(d)) = d
    BY ONLY <2>1
  <2> QED BY <2>2, <2>3, <2>4 DEF d
<1> QED BY <1>2 DEF After, S

\* What comes out is typed, and begins what comes out of all the input.
LEMMA FramedOut ==
  ASSUME Place, config.engine = "framed", NEW n \in 0 .. Len(data), CanAt(config, SubSeq(data, 1, n))
  PROVE  /\ OutAt(config, SubSeq(data, 1, n)) \in Seq(Coming)
         /\ CanAt(config, data) => \E o \in Seq(Coming) : OutAt(config, SubSeq(data, 1, n)) \o o = OutAt(config, data)
<1> DEFINE x == SubSeq(data, 1, n)
           e == After(data, n)
           U == Coming
<1>1. x \in Seq(Bytes) /\ e \in Seq(Bytes) /\ x \o e = data /\ <<>> \in Seq(Bytes) /\ Legible(config, Bytes, Inside)
  BY RestIs, JobIsLegible
<1>2. CanAt(config, x) /\ CanAt(config, <<>>) /\ OutAt(config, <<>>) = <<>>
  BY FrameStarts
<1> HIDE DEF x, e
<1>3. OutAt(config, x) \in Seq(U)
  <2> DEFINE r == FrameUpdate(config, StateAt(config, <<>>), x)
             o == OutAt(config, x)
  <2>1. <<>> \o x = x
    BY <1>1
  <2>2. GoesOn(U, r, CanAt(config, <<>> \o x), StateAt(config, <<>> \o x), OutAt(config, <<>>), OutAt(config, <<>> \o x))
    BY <1>1, <1>2, FrameGoesOn DEF Coming
  <2>3. GoesOn(U, r, CanAt(config, x), StateAt(config, x), <<>>, o)
    BY <1>2, <2>1, <2>2
  <2> HIDE DEF r, o, U
  <2>4. r.out \in Seq(U) /\ <<>> \o r.out = o
    BY <1>2, <2>3 DEF GoesOn
  <2>5. o \in Seq(U)
    BY ONLY <2>4
  <2> QED BY <2>5 DEF o
<1>4. ASSUME CanAt(config, data)  PROVE \E o \in Seq(U) : OutAt(config, x) \o o = OutAt(config, data)
  <2> DEFINE r == FrameUpdate(config, StateAt(config, x), e)
  <2>1. GoesOn(U, r, CanAt(config, data), StateAt(config, data), OutAt(config, x), OutAt(config, data))
    BY <1>1, <1>2, FrameGoesOn DEF Coming
  <2> HIDE DEF r
  <2>2. r.out \in Seq(U) /\ OutAt(config, x) \o r.out = OutAt(config, data)
    BY <1>4, <2>1 DEF GoesOn
  <2> QED BY <2>2
<1> QED BY <1>3, <1>4 DEF x

\* A chunk keeps it or is refused, and so does the end of the input.
LEMMA FramedStep == ASSUME Place, FramedInv, [Next]_vars  PROVE FramedInv'
<1> DEFINE c    == config
           last == FrameFinish(c, StateAt(c, data))
           Denied(out) == /\ ~(CanAt(c, data) /\ last.ok)
                           /\ \E n \in 0 .. Len(data) : CanAt(c, SubSeq(data, 1, n)) /\ out = OutAt(c, SubSeq(data, 1, n))
<1>0. job' = job /\ data' = data /\ config' = config /\ (fed' = fed => Sofar' = Sofar)
  BY Steps, SameData
<1> SUFFICES ASSUME config.engine = "framed"
             PROVE  /\ status' = "feeding" => /\ CanAt(c, Sofar') /\ engine' = StateAt(c, Sofar')
                                              /\ emitted' = OutAt(c, Sofar')
                    /\ status' = "done"    => /\ fed' = Len(data) /\ CanAt(c, data) /\ last.ok
                                              /\ emitted' = OutAt(c, data) \o last.out
                    /\ status' = "failed"  => Denied(emitted')
  BY <1>0 DEF FramedInv
<1>1. /\ status = "feeding" => CanAt(c, Sofar) /\ engine = StateAt(c, Sofar) /\ emitted = OutAt(c, Sofar)
      /\ status = "done"    => fed = Len(data) /\ CanAt(c, data) /\ last.ok /\ emitted = OutAt(c, data) \o last.out
      /\ status = "failed"  => Denied(emitted)
  BY DEF FramedInv
<1>2. Sofar \in Seq(Bytes) /\ Len(Sofar) = fed /\ fed \in 0 .. Len(data) /\ Sofar = SubSeq(data, 1, fed)
      /\ Legible(c, Bytes, Inside) /\ (fed = Len(data) => Sofar = data) /\ data \in Seq(Bytes)
  BY DataIsRead, JobIsLegible DEF Place, Sofar
<1>3. status = "feeding" => OutAt(c, Sofar) \o <<>> = OutAt(c, Sofar)
  <2> SUFFICES ASSUME status = "feeding"  PROVE OutAt(c, Sofar) \o <<>> = OutAt(c, Sofar)
    OBVIOUS
  <2>1. OutAt(c, Sofar) \in Seq(Coming)
    BY <1>1, <1>2, FramedOut
  <2> DEFINE o == OutAt(c, Sofar)
             U == Coming
  <2> HIDE DEF o, U
  <2>2. o \in Seq(U)
    BY <2>1 DEF o, U
  <2>3. o \o <<>> = o
    BY <2>2
  <2> QED BY <2>3 DEF o
<1>4. ASSUME NEW n \in Ends, status = "feeding", fed' = n, Advance(Updated(config, engine, Chunk(n)))
      PROVE  \/ /\ status' = "feeding" /\ CanAt(c, Sofar') /\ engine' = StateAt(c, Sofar')
                /\ emitted' = OutAt(c, Sofar')
             \/ status' = "failed" /\ Denied(emitted')
  <2> DEFINE e == Chunk(n)
             x == Sofar
             z == x \o e
             r == FrameUpdate(c, StateAt(c, x), e)
             U == Coming
             o == OutAt(c, x)
  <2>1. n \in Nat /\ n <= Len(data) /\ e \in Seq(Bytes) /\ x \in Seq(Bytes) /\ z = SubSeq(data, 1, n)
    BY <1>2, ChunkIs
  <2>2. Sofar' = z
    BY <1>0, <1>4, <2>1 DEF Sofar
  <2>3. GoesOn(U, r, CanAt(c, z), StateAt(c, z), o, OutAt(c, z))
    <3>1. CanAt(c, x)
      BY <1>1, <1>4
    <3> HIDE DEF x, e, c
    <3> QED BY <1>2, <2>1, <3>1, FrameGoesOn DEF Coming, c
  <2>4. /\ engine' = r.state /\ emitted' = o \o r.out
        /\ status' = IF r.ok THEN "feeding" ELSE "failed"
    <3>1. Updated(config, engine, e) = r
      BY <1>1, <1>4 DEF Updated
    <3> HIDE DEF r, e
    <3> QED BY <1>1, <1>4, <3>1 DEF Advance, Deliver, e
  <2>5. CASE CanAt(c, z)
    <3> HIDE DEF r, z, o, U
    <3>1. r.ok = TRUE /\ r.state = StateAt(c, z) /\ o \o r.out = OutAt(c, z)
      BY <2>3, <2>5 DEF GoesOn
    <3> QED BY <2>2, <2>4, <2>5, <3>1
  <2>6. CASE ~CanAt(c, z)
    <3>1. ~CanAt(c, data)
      <4>1. n \in 0 .. Len(data)
        BY <2>1
      <4>2. SubSeq(data, 1, n) \in Seq(Bytes) /\ After(data, n) \in Seq(Bytes) /\ SubSeq(data, 1, n) \o After(data, n) = data
        BY <4>1, RestIs
      <4> HIDE DEF c, z
      <4>3. CanAt(c, data) => CanAt(c, SubSeq(data, 1, n))
        BY <1>2, <4>2, FrameNarrows
      <4> QED BY <2>1, <2>6, <4>3
    <3>2. r.ok = FALSE /\ r.out = <<>>
      <4> HIDE DEF r, z, o, U
      <4> QED BY <2>3, <2>6 DEF GoesOn
    <3>3. status' = "failed" /\ emitted' = o
      BY <1>3, <1>4, <2>4, <3>2
    <3>4. CanAt(c, x) /\ x = SubSeq(data, 1, fed) /\ fed \in 0 .. Len(data)
      BY <1>1, <1>2, <1>4
    <3>5. Denied(emitted')
      BY <3>1, <3>3, <3>4
    <3> QED BY <3>3, <3>5
  <2> QED BY <2>5, <2>6
<1>5. ASSUME Finish
      PROVE  \/ /\ status' = "done" /\ fed' = Len(data) /\ CanAt(c, data) /\ last.ok
                /\ emitted' = OutAt(c, data) \o last.out
             \/ status' = "failed" /\ Denied(emitted')
  <2>1. status = "feeding" /\ fed = Len(data) /\ fed' = fed /\ Deliver(Finished(config, engine), "done")
    BY <1>5 DEF Finish
  <2>2. Sofar = data /\ engine = StateAt(c, data) /\ CanAt(c, data) /\ emitted = OutAt(c, data)
    BY <1>1, <1>2, <2>1
  <2>3. Finished(config, engine) = last
    BY <2>2 DEF Finished
  <2> HIDE DEF last
  <2>4. emitted' = OutAt(c, data) \o last.out /\ status' = IF last.ok THEN "done" ELSE "failed"
    BY <2>1, <2>2, <2>3 DEF Deliver
  <2>5. CASE last.ok
    BY <2>1, <2>2, <2>4, <2>5
  <2>6. CASE ~last.ok
    <3>1. last = Unopened
      BY <1>2, <2>6, FrameEnds DEF last
    <3>2. last.out = <<>>
      BY ONLY <3>1 DEF Unopened
    <3>3. emitted' = OutAt(c, data)
      BY <1>3, <2>1, <2>2, <2>4, <3>2
    <3>4. data = SubSeq(data, 1, fed) /\ fed \in 0 .. Len(data)
      BY <1>2, <2>2
    <3>5. Denied(emitted')
      BY <2>2, <2>6, <3>3, <3>4
    <3> QED BY <2>4, <2>6, <3>5
  <2> QED BY <2>5, <2>6
<1>6. CASE UNCHANGED vars
  BY <1>0, <1>1, <1>6 DEF vars
<1> HIDE DEF Denied, last, c
<1>7. CASE \E n \in Ends : status = "feeding" /\ fed' = n /\ Advance(Updated(config, engine, Chunk(n)))
  BY <1>4, <1>7
<1>8. CASE Finish
  BY <1>5, <1>8
<1> QED BY <1>6, <1>7, <1>8, Steps DEF c

LEMMA PrefixGrows == ASSUME NEW U, NEW a \in Seq(U), NEW b \in Seq(U)  PROVE IsPrefix(a, a \o b) /\ a \o b \in Seq(U)
<1>1. Len(a \o b) = Len(a) + Len(b) /\ Len(a) \in Nat /\ Len(b) \in Nat /\ a \o b \in Seq(U)
  OBVIOUS
<1>2. SubSeq(a \o b, 1, Len(a)) = SubSeq(a, 1, Len(a))
  BY <1>1
<1> QED BY <1>1, <1>2 DEF IsPrefix

\* However a file is cut, age and Cobblestone seal it, or open it, as their
\* one-shot functions do, refuse what those refuse, and on the way emit only
\* what the answer begins with; and they hold back less than the longest
\* header, or than a frame and the end that would follow it.
THEOREM ContainersAreOneShot == Spec => [](config.engine = "framed" => TypeOK /\ CutsAreInvisible)
<1>1. Init => Place /\ FramedInv
  BY Starts, FramedStarts
<1>2. Place /\ FramedInv /\ [Next]_vars => (Place /\ FramedInv)'
  BY Steps, FramedStep
<1>3. Place /\ FramedInv => (config.engine = "framed" => TypeOK /\ CutsAreInvisible)
  <2> SUFFICES ASSUME Place, FramedInv, config.engine = "framed"  PROVE TypeOK /\ CutsAreInvisible
    OBVIOUS
  <2> DEFINE c    == config
             last == FrameFinish(c, StateAt(c, data))
             out  == OutAt(c, data)
             U    == Coming
             answer == OneShot(c, data)
  <2>1. /\ status = "feeding" => CanAt(c, Sofar) /\ engine = StateAt(c, Sofar) /\ emitted = OutAt(c, Sofar)
        /\ status = "done"    => fed = Len(data) /\ CanAt(c, data) /\ last.ok /\ emitted = out \o last.out
        /\ status = "failed"  => ~(CanAt(c, data) /\ last.ok)
    BY DEF FramedInv
  <2>2. /\ Sofar \in Seq(Bytes) /\ fed \in 0 .. Len(data) /\ Sofar = SubSeq(data, 1, fed)
        /\ Legible(c, Bytes, Inside) /\ data \in Seq(Bytes) /\ Len(data) \in Nat /\ data = SubSeq(data, 1, Len(data))
    BY DataIsRead, JobIsLegible DEF Place, Sofar
  <2>3. TypeOK
    <3>1. status = "feeding" => Len(engine.buffer) <= MaxHeader \/ Len(engine.buffer) < FrameSize + TagSize
      BY <2>1, <2>2, FrameHolds
    <3> QED BY <3>1 DEF TypeOK, Place
  <2>4. answer = Entire(CanAt(c, data), out, last)
    <3>1. answer = FrameOneShot(c, data)
      BY DEF OneShot
    <3> HIDE DEF c
    <3> QED BY <2>2, <3>1, FrameOneShotIs
  <2>5. last.out \in Seq(U) /\ (CanAt(c, data) => out \in Seq(U))
    <3>1. FrameIsOf(U, last)
      <4> HIDE DEF c
      <4> QED BY <2>2, FrameEnds DEF Coming, c
    <3>2. CanAt(c, data) => out \in Seq(U)
      <4>1. Len(data) \in 0 .. Len(data)
        BY <2>2
      <4> QED BY <2>2, <4>1, FramedOut
    <3> QED BY <3>1, <3>2 DEF FrameIsOf
  <2>6. status = "feeding" /\ CanAt(c, data) => \E o \in Seq(U) : emitted \in Seq(U) /\ emitted \o o = out
    BY <2>1, <2>2, FramedOut
  <2> HIDE DEF c, last, out, U, answer
  <2>7. CASE CanAt(c, data) /\ last.ok
    <3>1. answer = Opened(out \o last.out)
      BY <2>4, <2>7 DEF Entire
    <3>2. answer.ok = TRUE /\ answer.out = out \o last.out
      BY ONLY <3>1 DEF Opened
    <3>3. IsPrefix(emitted, out \o last.out)
      <4>1. CASE status = "feeding"
        <5>1. PICK o \in Seq(U) : emitted \in Seq(U) /\ emitted \o o = out
          BY <2>6, <2>7, <4>1
        <5> DEFINE a == emitted
                   b == last.out
        <5>2. a \in Seq(U) /\ b \in Seq(U) /\ o \in Seq(U) /\ out = a \o o
          BY <2>5, <5>1
        <5> HIDE DEF a, b
        <5>3. out \o b = a \o (o \o b) /\ o \o b \in Seq(U)
          BY ONLY <5>2
        <5>4. IsPrefix(a, a \o (o \o b))
          BY ONLY <5>2, <5>3, PrefixGrows
        <5> QED BY <5>3, <5>4 DEF a, b
      <4>2. CASE status = "done"
        <5>1. emitted = out \o last.out
          BY <2>1, <4>2
        <5> DEFINE w == emitted
        <5>2. w \in Seq(U)
          <6>1. out \in Seq(U) /\ last.out \in Seq(U)
            BY <2>5, <2>7
          <6> DEFINE b == last.out
          <6> HIDE DEF b
          <6>2. out \o b \in Seq(U)
            BY <6>1 DEF b
          <6> QED BY <5>1, <6>2 DEF b
        <5>3. IsPrefix(w, w)
          BY <5>2 DEF IsPrefix
        <5> QED BY <5>1, <5>3
      <4> QED BY <2>1, <2>7, <4>1, <4>2 DEF Place
    <3> QED BY <2>1, <2>3, <2>7, <3>2, <3>3 DEF CutsAreInvisible, Done, answer, c
  <2>8. CASE ~(CanAt(c, data) /\ last.ok)
    <3>1. answer = Unopened
      BY <2>4, <2>8 DEF Entire
    <3>2. answer.ok = FALSE
      BY ONLY <3>1 DEF Unopened
    <3>3. status # "done"
      BY <2>1, <2>8
    <3> QED BY <2>3, <3>2, <3>3 DEF CutsAreInvisible, Done, answer, c
  <2> QED BY <2>7, <2>8
<1> QED BY <1>1, <1>2, <1>3, PTL DEF Spec

\* The message in a container, and what became of it.
Message == job.true
Other(direction) == [config EXCEPT !.direction = direction]

LEMMA OtherIs ==
  ASSUME Place, config.engine = "framed", NEW to
  PROVE  Other(to).direction = to /\ Other(to).tool = config.tool
<1> DEFINE c == config
<1>1. {"tool", "direction"} \subseteq DOMAIN c
  BY ContainersAreConfigured DEF Place, config
<1> HIDE DEF c
<1>2. [c EXCEPT !.direction = to].direction = to /\ [c EXCEPT !.direction = to].tool = c.tool
  BY <1>1
<1> QED BY <1>2 DEF Other, c

LEMMA SameTool ==
  ASSUME NEW c, NEW e, e.tool = c.tool, NEW p
  PROVE  Sealed(e, p) = Sealed(c, p) /\ (Fits(e, p) <=> Fits(c, p))
BY DEF Sealed, Fits, Foreword, Kept

LEMMA MessageIs ==
  ASSUME Place, config.engine = "framed", config.direction = "decrypt"
  PROVE  /\ Message \in Seq(Inside) /\ Readable(Bytes, Inside) /\ Genuine(Bytes, Message) /\ config.direction # "encrypt"
         /\ job.intact <=> (Fits(config, Message) /\ data = Sealed(config, Message))
<1>1. /\ Message \in Seq(Inside)
      /\ job.intact = (Fits(config, Message) /\ data = Sealed(config, Message))
      /\ Genuine(Bytes, Message)
  BY NothingIsForged DEF Place, config, data, Bytes, Inside, Message, Genuine
<1>2. Readable(Bytes, Inside)
  BY JobIsLegible DEF Legible
<1> DEFINE x == Fits(config, Message) /\ data = Sealed(config, Message)
<1>3. job.intact = x
  BY <1>1
<1>4. x \in BOOLEAN
  BY DEF Fits
<1> HIDE DEF x
<1>5. job.intact <=> x
  BY <1>3, <1>4
<1> QED BY <1>1, <1>2, <1>5 DEF x

LEMMA BeginningIs == ASSUME NEW T, NEW p \in Seq(T), NEW m \in Nat, m <= Len(p)  PROVE IsPrefix(First(p, m), p)
<1>1. Len(p) \in Nat /\ SubSeq(p, 1, m) \in Seq(T) /\ Len(SubSeq(p, 1, m)) = m
  OBVIOUS
<1>2. SubSeq(SubSeq(p, 1, m), 1, m) = SubSeq(p, 1, m)
  BY <1>1
<1> QED BY <1>1, <1>2 DEF IsPrefix, First

LEMMA FramedHolds == Spec => [](Place /\ FramedInv)
<1>1. Init => Place /\ FramedInv
  BY Starts, FramedStarts
<1>2. Place /\ FramedInv /\ [Next]_vars => (Place /\ FramedInv)'
  BY Steps, FramedStep
<1> QED BY <1>1, <1>2, PTL DEF Spec

\* Where nobody without the key can seal, a container that was cut short, or
\* had a frame dropped, repeated or moved, however it is fed, is never
\* accepted by age or Cobblestone and gives out only a beginning of the
\* message that was sealed; the one that was sealed is accepted, to its end.
THEOREM OnlyTheSealedIsAccepted == Spec => [](config.engine = "framed" => PlaintextIsChecked)
<1>1. Place /\ FramedInv => (config.engine = "framed" => PlaintextIsChecked)
  <2> SUFFICES ASSUME Place, FramedInv, config.engine = "framed"  PROVE PlaintextIsChecked
    OBVIOUS
  <2> SUFFICES ASSUME config.direction = "decrypt"  PROVE OnlyAuthenticPlaintext
    BY DEF PlaintextIsChecked, PaddingIsChecked, OnlyAuthenticPlaintext
  <2> DEFINE c    == config
             p    == Message
             S    == Bytes
             T    == Inside
             last == FrameFinish(c, StateAt(c, data))
             out  == OutAt(c, data)
  <2>1. /\ status = "feeding" => CanAt(c, Sofar) /\ emitted = OutAt(c, Sofar)
        /\ status = "done"    => fed = Len(data) /\ CanAt(c, data) /\ last.ok /\ emitted = out \o last.out
        /\ status = "failed"  => /\ ~(CanAt(c, data) /\ last.ok)
                                 /\ \E n \in 0 .. Len(data) : /\ CanAt(c, SubSeq(data, 1, n))
                                                              /\ emitted = OutAt(c, SubSeq(data, 1, n))
    BY DEF FramedInv
  <2>2. /\ p \in Seq(T) /\ Readable(S, T) /\ Genuine(S, p) /\ c.direction # "encrypt"
        /\ job.intact <=> (Fits(c, p) /\ data = Sealed(c, p))
    BY MessageIs
  <2>3. fed \in 0 .. Len(data) /\ Sofar = SubSeq(data, 1, fed) /\ data \in Seq(S)
    BY DataIsRead DEF Place, Sofar
  <2>4. \A n \in 0 .. Len(data) : SubSeq(data, 1, n) \in Seq(S)
    BY RestIs
  <2> HIDE DEF c, p, S, T, last, out
  <2>5. ASSUME NEW x \in Seq(S), CanAt(c, x)  PROVE IsPrefix(OutAt(c, x), p)
    <3>1. PICK m \in Nat : m <= Len(p) /\ OutAt(c, x) = First(p, m)
      BY <2>2, <2>5, OpenedIsTrue
    <3> QED BY <2>2, <3>1, BeginningIs
  <2>6. CASE status = "feeding"
    <3>1. IsPrefix(emitted, p)
      BY <2>1, <2>3, <2>4, <2>5, <2>6
    <3> QED BY <2>6, <3>1 DEF OnlyAuthenticPlaintext, p, Message
  <2>7. CASE status = "failed"
    <3>1. IsPrefix(emitted, p)
      BY <2>1, <2>4, <2>5, <2>7
    <3>2. ~job.intact
      <4> SUFFICES ASSUME job.intact  PROVE FALSE
        OBVIOUS
      <4>1. Fits(c, p) /\ data = Sealed(c, p)
        BY <2>2
      <4>2. FrameOneShot(c, data) = Opened(p)
        BY <2>2, <4>1, FrameComesBack
      <4>3. Legible(c, S, T)
        BY <2>2 DEF Legible
      <4>4. FrameOneShot(c, data) = Entire(CanAt(c, data), out, last)
        BY <2>3, <4>3, FrameOneShotIs DEF out, last
      <4>5. Entire(CanAt(c, data), out, last) = Unopened
        BY <2>1, <2>7 DEF Entire
      <4>6. Opened(p).ok = TRUE /\ Unopened.ok = FALSE
        BY DEF Opened, Unopened
      <4> QED BY <4>2, <4>4, <4>5, <4>6
    <3> QED BY <2>7, <3>1, <3>2 DEF OnlyAuthenticPlaintext, p, Message
  <2>8. CASE status = "done"
    <3>1. Accepted(c, p, data)
      <4>1. CanAt(c, data) /\ FrameFinish(c, StateAt(c, data)).ok
        BY <2>1, <2>8 DEF last
      <4> QED BY <2>2, <2>3, <4>1, FrameAccepts
    <3>2. emitted = p /\ job.intact
      BY <2>1, <2>2, <2>8, <3>1 DEF Accepted, out, last
    <3>3. IsPrefix(p, p)
      BY <2>2 DEF IsPrefix
    <3> QED BY <2>8, <3>2, <3>3 DEF OnlyAuthenticPlaintext, p, Message
  <2> QED BY <2>6, <2>7, <2>8 DEF Place
<1> QED BY <1>1, FramedHolds, PTL

\* What was sealed, however it was fed, opens again, to all of it.
THEOREM SealedComesBack == Spec => [](config.engine = "framed" => StreamsComeBack)
<1>1. Place /\ FramedInv => (config.engine = "framed" => StreamsComeBack)
  <2> SUFFICES ASSUME Place, FramedInv, config.engine = "framed", config.direction = "encrypt", status = "done"
               PROVE  FrameOneShot(Other("decrypt"), emitted) = Opened(data)
    <3>1. ASSUME config.engine = "framed"
          PROVE  Undone(config, emitted) = FrameOneShot(Other("decrypt"), emitted)
      <4> DEFINE u == DecryptBlockMode(config.mode, config.padding, emitted)
                 v == FrameOneShot(Other("decrypt"), emitted)
                 w == GcmDecrypt(emitted)
                 g == config.engine
                 y == Undone(config, emitted)
      <4>1. y = CASE g = "block" -> u [] g = "framed" -> v [] g = "gcm" -> w
        BY DEF Undone, Other
      <4>3. g = "framed"
        BY <3>1
      <4> HIDE DEF u, v, w, g, y
      <4>4. g # "block" /\ g # "gcm"
        BY <4>3
      <4>5. (CASE g = "block" -> u [] g = "framed" -> v [] g = "gcm" -> w) = v
        BY ONLY <4>3, <4>4
      <4>2. y = v
        BY ONLY <4>1, <4>5
      <4> QED BY <4>2 DEF v, y
    <3>2. Opened(data).ok = TRUE /\ Opened(data).out = data
      BY DEF Opened
    <3> QED BY <3>1, <3>2 DEF StreamsComeBack, Done
  <2> DEFINE c    == config
             e    == Other("decrypt")
             S    == Bytes
             last == FrameFinish(c, StateAt(c, data))
             out  == OutAt(c, data)
             x    == Sealed(c, data)
  <2>1. CanAt(c, data) /\ last.ok /\ emitted = out \o last.out
    BY DEF FramedInv
  <2>2. data \in Seq(S) /\ Legible(c, S, Inside) /\ c.direction = "encrypt"
    BY DataIsRead, JobIsLegible
  <2>3. e.direction # "encrypt" /\ e.tool = c.tool
    BY OtherIs
  <2> HIDE DEF c, e, S, last, out, x
  <2>4. FrameOneShot(c, data) = Opened(emitted)
    <3>1. FrameOneShot(c, data) = Entire(CanAt(c, data), out, last)
      BY <2>2, FrameOneShotIs DEF out, last
    <3> QED BY <2>1, <3>1 DEF Entire
  <2>5. FrameOneShot(c, data) = IF Fits(c, data) THEN Opened(x) ELSE Unopened
    BY <2>2, SealedIs DEF x
  <2>6. Opened(emitted).ok = TRUE /\ Opened(emitted).out = emitted /\ Opened(x).out = x /\ Unopened.ok = FALSE
    BY DEF Opened, Unopened
  <2>7. Fits(c, data) /\ emitted = x
    BY <2>4, <2>5, <2>6
  <2>8. Fits(e, data) /\ emitted = Sealed(e, data)
    BY <2>3, <2>7, SameTool DEF x
  <2>9. FrameOneShot(e, Sealed(e, data)) = Opened(data)
    BY <2>2, <2>3, <2>8, FrameComesBack
  <2> QED BY <2>8, <2>9 DEF e
<1> QED BY <1>1, FramedHolds, PTL

-----------------------------------------------------------------------------
(* The block modes. *)

\* What ends the stream, once everything is read.
Ending == BlockFinish(config, BlockState(config, data, Len(data)))

\* The inductive invariant of a block mode: what the engine keeps and what is
\* out are those of what was read, and it fails just where the whole fails.
BlockInv ==
  config.engine = "block" =>
    /\ Len(engine.pending) < 2 * BlockSize
    /\ status = "feeding" => /\ Passable(config, data, fed) /\ engine = BlockState(config, data, fed)
                             /\ emitted = BlockOut(config, data, fed)
    /\ status = "done"    => /\ Passable(config, data, Len(data)) /\ Ending.ok
                             /\ emitted = BlockOut(config, data, Len(data)) \o Ending.out
    /\ status = "failed"  => ~(Passable(config, data, Len(data)) /\ Ending.ok)

\* The job is one the lemmas about block modes are about.
LEMMA JobStreams ==
  ASSUME Place, config.engine = "block"
  PROVE  Streaming(config) /\ data \in Seq(Octets) /\ Len(data) \in Nat /\ fed \in Nat /\ fed <= Len(data)
<1>1. Streaming(config) /\ data \in Seq(Octets)
  BY BlockModesAreConfigured DEF Place, Streaming, Octets, config, data
<1> QED BY <1>1, DataIsRead

LEMMA BlockJobBegins == ASSUME Init PROVE BlockInv
<1> SUFFICES ASSUME config.engine = "block"
             PROVE  /\ Len(engine.pending) < 2 * BlockSize /\ status = "feeding" /\ Passable(config, data, fed)
                    /\ engine = BlockState(config, data, fed) /\ emitted = BlockOut(config, data, fed)
  BY DEF BlockInv
<1>1. Place /\ fed = 0 /\ emitted = <<>> /\ status = "feeding" /\ engine = BlockStart
  BY Starts DEF Started
<1>2. Streaming(config) /\ data \in Seq(Octets) /\ Len(data) \in Nat /\ fed \in Nat /\ fed <= Len(data)
  BY <1>1, JobStreams
<1>3. Passable(config, data, fed) /\ engine = BlockState(config, data, fed) /\ emitted = BlockOut(config, data, fed)
  BY <1>1, <1>2, BlockBegins
<1>4. Len(BlockState(config, data, fed).pending) < 2 * BlockSize
  BY <1>2, BlockHolds
<1> QED BY <1>1, <1>3, <1>4

\* More can be taken only where less can.
LEMMA PassesOn ==
  ASSUME NEW c, NEW d, NEW m \in Nat, NEW n \in Nat, m <= n, Passable(c, d, n)
  PROVE  Passable(c, d, m)
BY SpendableIs DEF Passable

\* A chunk keeps it or is refused, and so does the end of the input.
LEMMA BlockJobStep == ASSUME Place, BlockInv, [Next]_vars  PROVE BlockInv'
<1> DEFINE c == config
           d == data
           N == Len(d)
           Refusing == ~(Passable(c, d, N) /\ Ending.ok)
<1>0. job' = job /\ d' = d /\ c' = c /\ Ending' = Ending
  BY Steps, SameData DEF Ending
<1> SUFFICES ASSUME c.engine = "block"
             PROVE  /\ Len(engine'.pending) < 2 * BlockSize
                    /\ status' = "feeding" => Passable(c, d, fed') /\ engine' = BlockState(c, d, fed') /\ emitted' = BlockOut(c, d, fed')
                    /\ status' = "done"    => Passable(c, d, N) /\ Ending.ok /\ emitted' = BlockOut(c, d, N) \o Ending.out
                    /\ status' = "failed"  => Refusing
  BY <1>0 DEF BlockInv
<1>1. /\ Len(engine.pending) < 2 * BlockSize
      /\ status = "feeding" => Passable(c, d, fed) /\ engine = BlockState(c, d, fed) /\ emitted = BlockOut(c, d, fed)
      /\ status = "done"    => Passable(c, d, N) /\ Ending.ok /\ emitted = BlockOut(c, d, N) \o Ending.out
      /\ status = "failed"  => Refusing
  BY DEF BlockInv
<1>2. Streaming(c) /\ d \in Seq(Octets) /\ N \in Nat /\ fed \in Nat /\ fed <= N
  BY JobStreams
<1>3. ASSUME NEW n \in Ends, status = "feeding", fed' = n, Advance(Updated(config, engine, Chunk(n)))
      PROVE  /\ Len(engine'.pending) < 2 * BlockSize
             /\ \/ status' = "feeding" /\ Passable(c, d, fed') /\ engine' = BlockState(c, d, fed') /\ emitted' = BlockOut(c, d, fed')
                \/ status' = "failed" /\ Refusing
  <2> DEFINE x == SubSeq(d, fed + 1, n)
             r == BlockUpdate(c, BlockState(c, d, fed), x)
  <2>1. n \in Nat /\ fed <= n /\ n <= N
    BY ChunkIs
  <2>2. Updated(config, engine, Chunk(n)) = r
    BY <1>1, <1>3 DEF Updated, Chunk
  <2> HIDE DEF c, d, r
  <2>3. engine' = r.state /\ emitted' = BlockOut(c, d, fed) \o r.out /\ status' = IF r.ok THEN "feeding" ELSE "failed"
    BY <1>1, <1>3, <2>2 DEF Advance, Deliver
  <2>4. /\ Passable(c, d, n) => /\ r.ok = TRUE /\ r.state = BlockState(c, d, n)
                                /\ BlockOut(c, d, fed) \o r.out = BlockOut(c, d, n)
        /\ ~Passable(c, d, n) => r.ok = FALSE /\ r.out = <<>> /\ r.state.pending = <<>>
    BY <1>1, <1>2, <1>3, <2>1, BlockGoesOn DEF r
  <2>5. CASE Passable(c, d, n)
    <3>1. Len(BlockState(c, d, n).pending) < 2 * BlockSize
      BY <1>2, <2>1, BlockHolds
    <3> QED BY <1>3, <2>3, <2>4, <2>5, <3>1
  <2>6. CASE ~Passable(c, d, n)
    <3>1. Refusing
      BY <1>2, <2>1, <2>6, PassesOn
    <3>2. Len(<<>>) = 0 /\ BlockSize \in Nat /\ BlockSize > 0
      BY BlocksAre
    <3> HIDE DEF Refusing
    <3> QED BY <2>3, <2>4, <2>6, <3>1, <3>2
  <2> QED BY <2>5, <2>6
<1>4. ASSUME Finish
      PROVE  /\ Len(engine'.pending) < 2 * BlockSize
             /\ \/ status' = "done" /\ Passable(c, d, N) /\ Ending.ok /\ emitted' = BlockOut(c, d, N) \o Ending.out
                \/ status' = "failed" /\ Refusing
  <2>1. status = "feeding" /\ fed = N /\ Deliver(Finished(config, engine), "done") /\ engine' = engine
    BY <1>4 DEF Finish
  <2>2. Passable(c, d, N) /\ engine = BlockState(c, d, N) /\ emitted = BlockOut(c, d, N)
    BY <1>1, <2>1
  <2>3. Finished(config, engine) = Ending
    BY <2>2 DEF Finished, Ending
  <2> HIDE DEF c, d
  <2>4. emitted' = BlockOut(c, d, N) \o Ending.out /\ status' = IF Ending.ok THEN "done" ELSE "failed"
    BY <2>1, <2>2, <2>3 DEF Deliver
  <2> QED BY <1>1, <2>1, <2>2, <2>4
<1>5. CASE UNCHANGED vars
  BY <1>1, <1>5 DEF vars
<1> HIDE DEF c, d, Refusing
<1>6. CASE \E n \in Ends : status = "feeding" /\ fed' = n /\ Advance(Updated(config, engine, Chunk(n)))
  BY <1>3, <1>6
<1>7. CASE Finish
  BY <1>4, <1>7
<1> QED BY <1>5, <1>6, <1>7, Steps DEF c

LEMMA BlockHoldsOn == Spec => [](Place /\ BlockInv)
<1>1. Init => Place /\ BlockInv
  BY Starts, BlockJobBegins
<1>2. Place /\ BlockInv /\ [Next]_vars => (Place /\ BlockInv)'
  BY Steps, BlockJobStep
<1> QED BY <1>1, <1>2, PTL DEF Spec

\* How a stream of a block mode that ended relates to the one-shot function.
LEMMA BlockAnswer ==
  ASSUME Place, BlockInv, config.engine = "block"
  PROVE  LET a == BlockOneShot(config, data)
         IN /\ a.ok \in BOOLEAN
            /\ status = "done" => a.ok /\ emitted = a.out
            /\ status = "failed" => ~a.ok
            /\ a.ok => IsPrefix(emitted, a.out)
<1> DEFINE c == config
           d == data
           N == Len(d)
           a == BlockOneShot(c, d)
           o == BlockOut(c, d, N)
           l == Ending
           y == Passable(c, d, N)
<1>1. /\ status = "feeding" => emitted = BlockOut(c, d, fed)
      /\ status = "done"    => y /\ l.ok /\ emitted = o \o l.out
      /\ status = "failed"  => ~(y /\ l.ok)
  BY DEF BlockInv
<1>2. Streaming(c) /\ d \in Seq(Octets) /\ N \in Nat /\ fed \in Nat /\ fed <= N
  BY JobStreams
<1>3. /\ l.ok \in BOOLEAN /\ (l.ok => l.out \in Seq(Octets)) /\ (~l.ok => l.out = <<>>)
      /\ a.ok \in BOOLEAN /\ (a.ok <=> y /\ l.ok)
      /\ a.ok => a.out = o \o l.out
  <2> HIDE DEF c, d
  <2>1. LET r == BlockFinish(c, BlockState(c, d, Len(d)))
            b == BlockOneShot(c, d)
            z == Passable(c, d, Len(d))
            p == BlockOut(c, d, Len(d))
        IN /\ r.ok \in BOOLEAN /\ (r.ok => r.out \in Seq(Octets)) /\ (~r.ok => r.out = <<>>)
           /\ b.ok \in BOOLEAN /\ (b.ok <=> z /\ r.ok)
           /\ b.ok => b.out = p \o r.out
    BY <1>2, BlockCloses
  <2>2. l = BlockFinish(c, BlockState(c, d, Len(d)))
    BY DEF Ending, c, d
  <2> QED BY <2>1, <2>2
<1>4. o \in Seq(Octets)
  <2>1. N <= Len(d)
    BY <1>2
  <2> HIDE DEF c, d
  <2> QED BY <1>2, <2>1, BlockOutIs
<1>5. PICK rest \in Seq(Octets) : BlockOut(c, d, fed) \in Seq(Octets) /\ BlockOut(c, d, fed) \o rest = o
  <2> HIDE DEF c, d
  <2> QED BY <1>2, BlockOutIs
<1> DEFINE b == BlockOut(c, d, fed)
<1> HIDE DEF c, d, N, a, o, l, y, b
<1>6. ASSUME a.ok  PROVE IsPrefix(emitted, a.out)
  <2>1. l.out \in Seq(Octets) /\ a.out = o \o l.out /\ y /\ l.ok
    BY <1>3, <1>6
  <2> DEFINE z == l.out
             S == Octets
  <2>2. z \in Seq(S) /\ o \in Seq(S) /\ rest \in Seq(S) /\ b \in Seq(S) /\ o = b \o rest
    BY <2>1, <1>4, <1>5 DEF b
  <2> HIDE DEF z, S
  <2>3. o \o z = b \o (rest \o z) /\ rest \o z \in Seq(S) /\ o \o z \in Seq(S)
    BY ONLY <2>2
  <2>4. IsPrefix(b, b \o (rest \o z))
    BY ONLY <2>2, <2>3, PrefixGrows
  <2>5. IsPrefix(o \o z, o \o z)
    <3> DEFINE w == o \o z
    <3>1. w \in Seq(S)
      BY <2>3
    <3> HIDE DEF w
    <3>2. IsPrefix(w, w)
      BY <3>1 DEF IsPrefix
    <3> QED BY <3>2 DEF w
  <2>6. CASE status = "feeding"
    BY <1>1, <2>1, <2>3, <2>4, <2>6 DEF z, b
  <2>7. CASE status = "done"
    BY <1>1, <2>1, <2>5, <2>7 DEF z
  <2>8. status # "failed"
    BY <1>1, <2>1
  <2> QED BY <2>6, <2>7, <2>8 DEF Place
<1>7. status = "done" => a.ok /\ emitted = a.out
  BY <1>1, <1>3
<1>8. status = "failed" => ~a.ok
  BY <1>1, <1>3
<1> QED BY <1>3, <1>6, <1>7, <1>8 DEF a, c, d

\* However its input is cut, a block mode gives what the one-shot function
\* gives, or refuses what that refuses (a bad padding, a part of a block, a
\* counter that wraps), and holds back less than two blocks.
THEOREM BlocksAreOneShot == Spec => [](config.engine = "block" => TypeOK /\ CutsAreInvisible)
<1>1. Place /\ BlockInv => (config.engine = "block" => TypeOK /\ CutsAreInvisible)
  <2> SUFFICES ASSUME Place, BlockInv, config.engine = "block"  PROVE TypeOK /\ CutsAreInvisible
    OBVIOUS
  <2>1. TypeOK
    BY DEF BlockInv, TypeOK, Place
  <2>2. OneShot(config, data) = BlockOneShot(config, data)
    BY DEF OneShot
  <2> DEFINE a == BlockOneShot(config, data)
  <2>3. /\ status = "done" => a.ok /\ emitted = a.out
        /\ status = "failed" => ~a.ok
        /\ a.ok => IsPrefix(emitted, a.out)
    BY BlockAnswer
  <2> HIDE DEF a
  <2> QED BY <2>1, <2>2, <2>3 DEF CutsAreInvisible, Done, a
<1> QED BY <1>1, BlockHoldsOn, PTL

\* A decryption ends well just if it is of some message padded so.
LEMMA BlockPlaintext == Place /\ BlockInv => (config.engine = "block" => PlaintextIsChecked)
<1> SUFFICES ASSUME Place, BlockInv, config.engine = "block"  PROVE PlaintextIsChecked
  OBVIOUS
<1>1. OnlyAuthenticPlaintext
  BY DEF OnlyAuthenticPlaintext
<1>2. PaddingIsChecked
  <2> DEFINE c == config
             d == data
             p == DecryptAligned(c.mode, d)
             k == c.padding
             lengths == {n \in 0 .. Len(p) - 1 : PadBlocks(Take(p, n), k).out = p}
             a == BlockOneShot(c, d)
  <2> SUFFICES ASSUME c.mode \in PaddedModes, c.direction = "decrypt", k \in {"pkcs7", "iso7816", "x923"},
                      status # "feeding", Whole(d)
               PROVE  /\ (status = "done") = (lengths # {})
                      /\ status = "done" => Len(emitted) \in lengths /\ emitted = Take(p, Len(emitted))
    BY DEF PaddingIsChecked
  <2>1. Streaming(c) /\ d \in Seq(Octets)
    BY JobStreams
  <2>2. k \in Marking
    BY DEF Marking
  <2>3. /\ status = "done" => a.ok /\ emitted = a.out
        /\ status = "failed" => ~a.ok
    BY BlockAnswer
  <2>4. lengths = PaddedFrom(p, k)
    BY DEF PaddedFrom
  <2> HIDE DEF c, d
  <2>5. /\ a.ok <=> PaddedFrom(p, k) # {}
        /\ a.ok => Len(a.out) \in PaddedFrom(p, k) /\ a.out = Take(p, Len(a.out))
    BY <2>1, <2>2, BlockChecks
  <2> HIDE DEF p, k, a, lengths
  <2>6. status = "done" <=> lengths # {}
    BY <2>3, <2>4, <2>5 DEF Place
  <2>7. (status = "done") = (lengths # {})
    <3> DEFINE x == status = "done"
               y == lengths # {}
    <3>1. x \in BOOLEAN /\ y \in BOOLEAN
      OBVIOUS
    <3>2. x <=> y
      BY <2>6
    <3> HIDE DEF x, y
    <3>3. x = y
      BY <3>1, <3>2, SameTruth
    <3> QED BY <3>3 DEF x, y
  <2> QED BY <2>3, <2>4, <2>5, <2>7
<1> QED BY <1>1, <1>2 DEF PlaintextIsChecked

\* What a block mode encrypted comes back.
LEMMA BlockReturns == Place /\ BlockInv => (config.engine = "block" => StreamsComeBack)
<1> SUFFICES ASSUME Place, BlockInv, config.engine = "block", config.direction = "encrypt", status = "done",
                    ~(emitted = <<>> /\ config.mode \in PaddedModes)
             PROVE  LET back == Undone(config, emitted)
                    IN /\ back.ok
                       /\ IF config.engine = "block" /\ config.mode \in PaddedModes /\ config.padding = "zero"
                          THEN /\ IsPrefix(back.out, data)
                               /\ \A i \in Len(back.out) + 1 .. Len(data) : data[i] = 0
                          ELSE back.out = data
  BY DEF StreamsComeBack, Done
<1> DEFINE c == config
           d == data
           a == BlockOneShot(c, d)
           back == DecryptBlockMode(c.mode, c.padding, emitted)
           zeros == c.mode \in PaddedModes /\ c.padding = "zero"
<1>1. Undone(config, emitted) = back
  BY DEF Undone
<1>2. Streaming(c) /\ d \in Seq(Octets) /\ Len(d) \in Nat
  BY JobStreams
<1>3. a.ok /\ emitted = a.out
  BY BlockAnswer
<1>4. c.engine = "block" /\ c.direction = "encrypt" /\ ~(emitted = <<>> /\ c.mode \in PaddedModes)
  OBVIOUS
<1> HIDE DEF c, d
<1>5. /\ back.ok
      /\ ~zeros => back.out = d
      /\ zeros => \E l \in 0 .. Len(d) : back.out = SubSeq(d, 1, l) /\ \A i \in l + 1 .. Len(d) : d[i] = 0
  BY <1>2, <1>3, <1>4, BlockComesBack
<1> HIDE DEF a, back, zeros
<1>6. CASE ~zeros
  BY <1>1, <1>5, <1>6 DEF zeros, c, d
<1>7. CASE zeros
  <2> DEFINE o == back.out
             S == Octets
  <2>1. PICK l \in 0 .. Len(d) : o = SubSeq(d, 1, l) /\ \A i \in l + 1 .. Len(d) : d[i] = 0
    BY <1>5, <1>7
  <2>2. d \in Seq(S)
    BY <1>2
  <2> HIDE DEF o, S
  <2>3. l \in Nat /\ l <= Len(d) /\ Len(d) \in Nat
    BY <1>2
  <2>4. o \in Seq(S) /\ Len(o) = l
    BY <2>1, <2>2, <2>3
  <2>5. IsPrefix(o, d)
    BY <2>1, <2>3, <2>4 DEF IsPrefix
  <2>6. \A i \in Len(o) + 1 .. Len(d) : d[i] = 0
    BY <2>1, <2>4
  <2> QED BY <1>1, <1>4, <1>5, <1>7, <2>5, <2>6 DEF zeros, o, c, d
<1> QED BY <1>6, <1>7

-----------------------------------------------------------------------------
(* What reads a code. *)

\* It holds what it was given.
CodeInv == config.engine = "code" => engine = Sofar

LEMMA CodeStarts == ASSUME Init PROVE CodeInv
<1>1. config.engine = "code" => engine = <<>>
  BY Starts DEF Started
<1> QED BY <1>1, Starts DEF CodeInv

LEMMA CodeStep == ASSUME Place, CodeInv, [Next]_vars  PROVE CodeInv'
<1>0. job' = job /\ data' = data /\ config' = config /\ (fed' = fed => Sofar' = Sofar)
  BY Steps, SameData
<1> SUFFICES ASSUME config.engine = "code"  PROVE engine' = Sofar'
  BY <1>0 DEF CodeInv
<1>1. engine = Sofar
  BY DEF CodeInv
<1>2. ASSUME NEW n \in Ends, status = "feeding", fed' = n, Advance(Updated(config, engine, Chunk(n)))
      PROVE  engine' = Sofar'
  <2> DEFINE S == Bytes
  <2>1. data \in Seq(S) /\ fed \in 0 .. Len(data) /\ n = Len(data)
    BY DataIsRead DEF Place, Ends
  <2>2. engine' = Sofar \o Chunk(n)
    BY <1>1, <1>2 DEF Updated, Advance, Silently
  <2> HIDE DEF S
  <2>5. data \in Seq(S) /\ fed \in Nat /\ n \in Nat /\ Len(data) \in Nat /\ fed <= n /\ n <= Len(data)
    BY <2>1
  <2>3. SubSeq(data, 1, fed) \o SubSeq(data, fed + 1, n) = SubSeq(data, 1, n)
    BY ONLY <2>5
  <2>4. Sofar' = SubSeq(data, 1, n)
    BY <1>0, <1>2 DEF Sofar
  <2> QED BY <2>2, <2>3, <2>4 DEF Sofar, Chunk
<1>3. CASE Finish
  BY <1>0, <1>1, <1>3 DEF Finish
<1>4. CASE UNCHANGED vars
  BY <1>0, <1>1, <1>4 DEF vars
<1> QED BY <1>2, <1>3, <1>4, Steps

LEMMA CodesAreHeld == Spec => [](Place /\ (config.engine = "code" => TypeOK /\ CutsAreInvisible))
<1>1. Init => Place /\ CodeInv
  BY Starts, CodeStarts
<1>2. Place /\ CodeInv /\ [Next]_vars => (Place /\ CodeInv)'
  BY Steps, CodeStep
<1>3. Place /\ CodeInv => Place /\ (config.engine = "code" => TypeOK /\ CutsAreInvisible)
  BY DEF CodeInv, Place, TypeOK, CutsAreInvisible, Sofar
<1> QED BY <1>1, <1>2, <1>3, PTL DEF Spec

-----------------------------------------------------------------------------
(* Of every engine. *)

\* Whatever is streamed and however it is cut, a decryption ends well only
\* with what some encryption was given: a message its padding ends, every byte
\* of it looked at, or the one that was sealed, to its end.
THEOREM OnlyPlaintextIsAccepted == Spec => []PlaintextIsChecked
<1>1. config.engine \notin {"block", "framed"} => PlaintextIsChecked
  BY DEF PlaintextIsChecked, PaddingIsChecked, OnlyAuthenticPlaintext
<1>2. Place /\ BlockInv /\ (config.engine = "framed" => PlaintextIsChecked) => PlaintextIsChecked
  BY <1>1, BlockPlaintext
<1> QED BY <1>2, BlockHoldsOn, OnlyTheSealedIsAccepted, PTL

\* What any of them encrypted, however it was cut, comes back in full, but
\* for zeros a message ended with where zeros are the padding.
THEOREM EncryptedComesBack == Spec => []StreamsComeBack
<1>1. config.engine \notin {"block", "framed", "gcm"} => StreamsComeBack
  BY DEF StreamsComeBack, Done
<1> DEFINE rest == config.engine = "gcm" => TypeOK /\ CutsAreInvisible /\ StreamsComeBack
<1>2. Place /\ BlockInv /\ (config.engine = "framed" => StreamsComeBack) /\ rest => StreamsComeBack
  BY <1>1, BlockReturns
<1> QED BY <1>2, BlockHoldsOn, SealedComesBack, TagIsOfTheWhole, PTL

\* The two invariants of every engine there is.
AsItShould == TypeOK /\ CutsAreInvisible

LEMMA EveryEngine ==
  ASSUME Place,
         config.engine \in {"arx", "word"} => AsItShould, config.engine = "gcm" => AsItShould,
         config.engine = "hash" => AsItShould, config.engine = "crc" => AsItShould,
         config.engine = "framed" => AsItShould, config.engine = "block" => AsItShould,
         config.engine = "code" => AsItShould
  PROVE  AsItShould
<1>1. config.engine \in {"block", "framed", "arx", "word", "gcm", "hash", "crc", "code"}
  BY EnginesAreKnown DEF Place, config
<1> QED BY <1>1

LEMMA EveryStream == Spec => [](TypeOK /\ CutsAreInvisible)
<1>1. /\ Place /\ (config.engine = "code" => TypeOK /\ CutsAreInvisible)
      /\ config.engine \in {"arx", "word"} => TypeOK /\ CutsAreInvisible
      /\ config.engine = "gcm" => TypeOK /\ CutsAreInvisible /\ StreamsComeBack
      /\ config.engine = "hash" => TypeOK /\ CutsAreInvisible
      /\ config.engine = "crc" => TypeOK /\ CutsAreInvisible
      /\ config.engine = "framed" => TypeOK /\ CutsAreInvisible
      /\ config.engine = "block" => TypeOK /\ CutsAreInvisible
      => TypeOK /\ CutsAreInvisible
  BY EveryEngine DEF AsItShould
<1> QED BY <1>1, CodesAreHeld, KeystreamIsSpentOnce, TagIsOfTheWhole, HashesAreOneShot, CrcIsLongDivision,
           ContainersAreOneShot, BlocksAreOneShot, PTL

\* A stream is somewhere in its input, and whatever engine reads it holds back
\* a unit of its own at most and what a decision about it needs, however long
\* the input is and however it was cut.
THEOREM EveryStreamHoldsLittle == Spec => []TypeOK
BY EveryStream, PTL

\* However an input is cut, whatever engine reads it ends as if it had come at
\* once: with the bytes of the one-shot form, or refused where that refuses;
\* and what is out on the way is the beginning of that answer.
THEOREM EveryStreamIsOneShot == Spec => []CutsAreInvisible
BY EveryStream, PTL

-----------------------------------------------------------------------------
(* The forms of ciphers. *)

\* What a mode of AES, or none, asks for.
ModeIsKnown(m) ==
  /\ m.aead \in BOOLEAN /\ m.nonceLen \in Nat
  /\ m.aead /\ m.nonceLen > 0 => m.nonceLen \in m.nonceLens
  /\ m.keyLengths \in {{}, {16, 32}, {32, 48, 64}, {32, 64}}

LEMMA ModesAreKnown ==
  /\ \A n \in DOMAIN Settings!AesModes : ModeIsKnown(Settings!AesModes[n])
  /\ "none" \in DOMAIN Settings!AesModes /\ Settings!AesModes["none"].keyLengths = {}
<1>1. \A n \in Nat : /\ ModeIsKnown(Settings!Plain(n)) /\ Settings!Plain(n).keyLengths = {}
                     /\ ModeIsKnown([Settings!Plain(n) EXCEPT !.blockAligned = TRUE])
                     /\ \A k \in {{16, 32}, {32, 64}} : ModeIsKnown([Settings!Plain(n) EXCEPT !.keyLengths = k])
  BY DEF ModeIsKnown, Settings!Plain
<1>2. \A n \in Nat : /\ ModeIsKnown(Settings!Sealed(n))
                     /\ \A k \in {{16, 32}, {32, 48, 64}} : ModeIsKnown([Settings!Sealed(n) EXCEPT !.keyLengths = k])
  BY DEF ModeIsKnown, Settings!Plain, Settings!Sealed
<1>3. \A L \in SUBSET Nat : 12 \in L => ModeIsKnown(Settings!Tagged(L))
  BY DEF ModeIsKnown, Settings!Plain, Settings!Sealed, Settings!Tagged
<1>4. 7 .. 13 \in SUBSET Nat /\ 1 .. 15 \in SUBSET Nat /\ 12 \in 7 .. 13 /\ 12 \in 1 .. 15
  OBVIOUS
<1> DEFINE A == Settings!AesModes
<1>5. DOMAIN A = {"gcm", "gcmsiv", "ccm", "ocb", "aessiv", "cbc", "ecb", "ctr", "ofb", "cfb", "xts", "kw", "kwp", "none"}
  BY DEF Settings!AesModes
<1>6. /\ A["gcm"] = Settings!Sealed(12) /\ A["gcmsiv"] = [Settings!Sealed(12) EXCEPT !.keyLengths = {16, 32}]
      /\ A["ccm"] = Settings!Tagged(7 .. 13) /\ A["ocb"] = Settings!Tagged(1 .. 15)
      /\ A["aessiv"] = [Settings!Sealed(0) EXCEPT !.keyLengths = {32, 48, 64}]
  BY DEF Settings!AesModes
<1>7. /\ A["cbc"] = [Settings!Plain(16) EXCEPT !.blockAligned = TRUE] /\ A["ecb"] = [Settings!Plain(0) EXCEPT !.blockAligned = TRUE]
      /\ A["ctr"] = Settings!Plain(16) /\ A["ofb"] = Settings!Plain(16) /\ A["cfb"] = Settings!Plain(16)
      /\ A["xts"] = [Settings!Plain(16) EXCEPT !.keyLengths = {32, 64}]
      /\ A["kw"] = Settings!Plain(0) /\ A["kwp"] = Settings!Plain(0) /\ A["none"] = Settings!Plain(0)
  BY DEF Settings!AesModes
<1> HIDE DEF A
<1>8. /\ ModeIsKnown(A["gcm"]) /\ ModeIsKnown(A["gcmsiv"]) /\ ModeIsKnown(A["ccm"]) /\ ModeIsKnown(A["ocb"])
      /\ ModeIsKnown(A["aessiv"])
  BY <1>2, <1>3, <1>4, <1>6
<1>9. /\ ModeIsKnown(A["cbc"]) /\ ModeIsKnown(A["ecb"]) /\ ModeIsKnown(A["ctr"]) /\ ModeIsKnown(A["ofb"])
      /\ ModeIsKnown(A["cfb"]) /\ ModeIsKnown(A["xts"]) /\ ModeIsKnown(A["kw"]) /\ ModeIsKnown(A["kwp"])
      /\ ModeIsKnown(A["none"])
  BY <1>1, <1>7
<1>10. A["none"].keyLengths = {}
  BY <1>1, <1>7
<1>11. \A n \in DOMAIN A : ModeIsKnown(A[n])
  BY ONLY <1>5, <1>8, <1>9
<1> QED BY <1>5, <1>10, <1>11 DEF A

\* A form with every field, of a tool the catalogue keeps in order.
FormHolds(s) == FormIsFilledIn(s) /\ ToolIsConsistent(s.tool)

\* The mode a form is read to have.
LEMMA ModeIs ==
  ASSUME NEW s, FormHolds(s)
  PROVE  LET m == Settings!AesModes[Settings!ModeForSpec(s)]
         IN ModeIsKnown(m) /\ (s.tool.name # "aes" => m.keyLengths = {})
<1> DEFINE n == Settings!ModeForSpec(s)
           t == s.tool
<1>1. /\ t.modes # <<>> /\ t.modes \in Seq(DOMAIN Settings!AesModes)
      /\ t.name # "aes" => \A m \in Range(t.modes) : Settings!AesModes[m].keyLengths = {}
  BY DEF FormHolds, ToolIsConsistent
<1>2. Range(t.modes) = Settings!Range(t.modes) /\ t.modes[1] \in Range(t.modes) /\ Range(t.modes) \subseteq DOMAIN Settings!AesModes
  BY <1>1 DEF Range, Settings!Range
<1>3. n = "none" \/ n \in Range(t.modes)
  BY <1>2 DEF Settings!ModeForSpec
<1>4. n \in DOMAIN Settings!AesModes
  BY <1>2, <1>3, ModesAreKnown
<1> HIDE DEF n, t
<1>5. ModeIsKnown(Settings!AesModes[n])
  BY <1>4, ModesAreKnown
<1>6. t.name # "aes" => Settings!AesModes[n].keyLengths = {}
  BY <1>1, <1>3, ModesAreKnown
<1> QED BY <1>5, <1>6 DEF n, t

LEMMA SetIs ==
  ASSUME NEW s, FormHolds(s), Settings!HasSets(s)
  PROVE  LET p == Settings!SetOf(s)
             t == s.tool
         IN /\ p.key \in Nat \ {0} /\ p.block \in Nat /\ p.nonce \in Nat
            /\ t.block > 0 => p.block > 0
            /\ t.nonces # <<>> => p.nonce > 0
BY DEF FormHolds, ToolIsConsistent, Settings!HasSets, Settings!SetOf

\* The length a mode requires is one that is accepted; and the field is shown
\* just where some are.
NonceShown(s) ==
  IF s.tool.block > 0 THEN Settings!AesModes[Settings!ModeForSpec(s)].nonceLen > 0 ELSE s.tool.nonces # <<>>

NoncesFit(s, n, a) ==
  /\ n \in Nat /\ (n > 0 => n \in a) /\ (a # {} <=> NonceShown(s))
  /\ n = 0 /\ a # {} => 0 \in a /\ s.tool.nonces # <<>> /\ Last(s.tool.nonces) \in a

LEMMA NoncesAgree ==
  ASSUME NEW s, FormHolds(s)
  PROVE  NoncesFit(s, Settings!RequiredNonceLength(s, Settings!ModeForSpec(s)), Settings!AcceptedNonceLengths(s, Settings!ModeForSpec(s)))
<1> DEFINE mode == Settings!ModeForSpec(s)
           m == Settings!AesModes[mode]
           t == s.tool
           n == Settings!RequiredNonceLength(s, mode)
           a == Settings!AcceptedNonceLengths(s, mode)
<1>1. ModeIsKnown(m)
  BY ModeIs
<1>2. t.block \in Nat /\ t.nonces \in Seq(Nat)
  BY DEF FormHolds, ToolIsConsistent
<1>3. ASSUME t.block > 0 PROVE NoncesFit(s, n, a)
  <2>1. n = (IF m.nonceLen = 0 \/ m.aead THEN m.nonceLen ELSE Settings!BlockOf(s))
    BY <1>3 DEF Settings!RequiredNonceLength
  <2>2. a = IF m.nonceLen = 0 THEN {} ELSE IF m.aead THEN m.nonceLens ELSE {Settings!BlockOf(s)}
    BY <1>3 DEF Settings!AcceptedNonceLengths
  <2>3. Settings!BlockOf(s) \in Nat \ {0}
    BY <1>2, <1>3, SetIs DEF Settings!BlockOf
  <2>4. NonceShown(s) <=> m.nonceLen > 0
    BY <1>3 DEF NonceShown
  <2> HIDE DEF m, n, a, mode
  <2>5. m.nonceLen \in Nat /\ m.aead \in BOOLEAN /\ (m.aead /\ m.nonceLen > 0 => m.nonceLen \in m.nonceLens)
    BY <1>1 DEF ModeIsKnown
  <2>6. CASE m.nonceLen = 0
    BY ONLY <2>1, <2>2, <2>4, <2>6 DEF NoncesFit
  <2>7. CASE m.nonceLen > 0 /\ m.aead
    BY ONLY <2>1, <2>2, <2>4, <2>5, <2>7 DEF NoncesFit
  <2>8. CASE m.nonceLen > 0 /\ ~m.aead
    BY ONLY <2>1, <2>2, <2>3, <2>4, <2>5, <2>8 DEF NoncesFit
  <2> QED BY ONLY <2>5, <2>6, <2>7, <2>8
<1>4. ASSUME t.block = 0, t.nonces = <<>> PROVE NoncesFit(s, n, a)
  <2>1. n = 0 /\ a = {} /\ ~NonceShown(s)
    BY <1>4 DEF Settings!RequiredNonceLength, Settings!AcceptedNonceLengths, NonceShown
  <2> HIDE DEF n, a, mode
  <2> QED BY <2>1 DEF NoncesFit
<1>5. ASSUME t.block = 0, t.nonces # <<>> PROVE NoncesFit(s, n, a)
  <2>1. n = IF Settings!HasSets(s) THEN Settings!SetOf(s).nonce ELSE t.nonces[1]
    BY <1>5 DEF Settings!RequiredNonceLength
  <2>2. a = IF Settings!HasSets(s) THEN {Settings!SetOf(s).nonce} ELSE Settings!Range(t.nonces)
    BY <1>5 DEF Settings!AcceptedNonceLengths
  <2>3. NonceShown(s)
    BY <1>5 DEF NonceShown
  <2>4. t.nonces[1] \in Nat /\ t.nonces[1] \in Settings!Range(t.nonces) /\ Last(t.nonces) \in Settings!Range(t.nonces)
    BY <1>2, <1>5 DEF Settings!Range, Last
  <2>5. Settings!HasSets(s) => Settings!SetOf(s).nonce \in Nat \ {0}
    BY <1>5, SetIs
  <2> HIDE DEF n, a, mode
  <2>6. CASE Settings!HasSets(s)
    <3>1. n \in Nat /\ n > 0 /\ n \in a
      BY ONLY <2>1, <2>2, <2>5, <2>6
    <3> QED BY ONLY <2>3, <3>1 DEF NoncesFit
  <2>7. CASE ~Settings!HasSets(s)
    BY <1>5, <2>1, <2>2, <2>3, <2>4, <2>7 DEF NoncesFit
  <2> QED BY ONLY <2>6, <2>7
<1>6. t.block > 0 \/ t.block = 0
  BY <1>2
<1>7. NoncesFit(s, n, a)
  BY ONLY <1>3, <1>4, <1>5, <1>6
<1> QED BY ONLY <1>7

\* A cipher takes keys of some lengths, or of many.
KeysFit(s, c) ==
  /\ c \subseteq Nat \ {0} /\ (c # {} => Settings!Max(c) \in c)
  /\ (c = {} => s.tool.range # {})

LEMMA KeysAgree ==
  ASSUME NEW s, FormHolds(s)
  PROVE  KeysFit(s, Settings!CipherKeyLengths(s))
<1> DEFINE m == Settings!AesModes[Settings!ModeForSpec(s)]
           t == s.tool
           c == Settings!CipherKeyLengths(s)
<1>1. ModeIsKnown(m)
  BY ModeIs
<1>2. ASSUME m.keyLengths # {} PROVE KeysFit(s, c)
  <2>1. c = m.keyLengths
    BY <1>2 DEF Settings!CipherKeyLengths
  <2>2. c \in {{16, 32}, {32, 48, 64}, {32, 64}}
    BY <1>1, <1>2, <2>1 DEF ModeIsKnown
  <2> HIDE DEF c
  <2>3. c \subseteq Nat \ {0} /\ c # {} /\ \E n \in c : \A k \in c : n >= k
    BY ONLY <2>2
  <2> QED BY ONLY <2>3 DEF KeysFit, Settings!Max
<1>3. ASSUME m.keyLengths = {}, Settings!HasSets(s) PROVE KeysFit(s, c)
  <2>1. c = {Settings!SetOf(s).key}
    <3>1. t.name # "aes"
      BY <1>3 DEF FormHolds, ToolIsConsistent, Settings!HasSets
    <3> QED BY <1>3, <3>1 DEF Settings!CipherKeyLengths
  <2>2. Settings!SetOf(s).key \in Nat \ {0}
    BY <1>3, SetIs
  <2> HIDE DEF c
  <2>3. c \subseteq Nat \ {0} /\ c # {} /\ \E n \in c : \A k \in c : n >= k
    BY ONLY <2>1, <2>2
  <2> QED BY ONLY <2>3 DEF KeysFit, Settings!Max
<1>4. ASSUME m.keyLengths = {}, ~Settings!HasSets(s), t.name = "aes" PROVE KeysFit(s, c)
  <2>1. c = {s.keySize}
    BY <1>4 DEF Settings!CipherKeyLengths
  <2>2. s.keySize \in Nat \ {0}
    BY <1>4 DEF FormHolds, FormIsFilledIn
  <2> HIDE DEF c
  <2>3. c \subseteq Nat \ {0} /\ c # {} /\ \E n \in c : \A k \in c : n >= k
    BY ONLY <2>1, <2>2
  <2> QED BY ONLY <2>3 DEF KeysFit, Settings!Max
<1>5. ASSUME m.keyLengths = {}, ~Settings!HasSets(s), t.name # "aes" PROVE KeysFit(s, c)
  <2>1. c = t.keys
    BY <1>5 DEF Settings!CipherKeyLengths
  <2>2. /\ t.keys \cup t.range \subseteq Nat \ {0} /\ t.generate \in IF t.keys # {} THEN t.keys ELSE t.range
        /\ t.keys # {} => \E n \in t.keys : \A k \in t.keys : k <= n
    BY DEF FormHolds, ToolIsConsistent
  <2> HIDE DEF c
  <2>3. c \subseteq Nat \ {0} /\ (c # {} => \E n \in c : \A k \in c : n >= k)
    BY ONLY <2>1, <2>2
  <2>4. c = {} => t.range # {}
    BY ONLY <2>1, <2>2
  <2> QED BY ONLY <2>3, <2>4 DEF KeysFit, Settings!Max
<1>6. KeysFit(s, c)
  BY ONLY <1>2, <1>3, <1>4, <1>5
<1> QED BY ONLY <1>6

\* A form with one field replaced.
LEMMA OneReplaced ==
  ASSUME NEW s, FieldNames \subseteq DOMAIN s, NEW f \in FieldNames, NEW v, NEW g \in FieldNames
  PROVE  [s EXCEPT ![f] = v][g] = IF g = f THEN v ELSE s[g]
OBVIOUS

\* Two forms that select the same.
SelectsAlike(s, u) ==
  /\ u.tool = s.tool /\ u.mode = s.mode /\ u.profile = s.profile /\ u.set = s.set
  /\ u.keySize = s.keySize \/ s.tool.name # "aes"

LEMMA SelectedAlike ==
  ASSUME NEW s, NEW u, SelectsAlike(s, u)
  PROVE  /\ Settings!ModeForSpec(u) = Settings!ModeForSpec(s)
         /\ Settings!HasSets(u) <=> Settings!HasSets(s)
         /\ Settings!SetOf(u) = Settings!SetOf(s)
         /\ Settings!CipherKeyLengths(u) = Settings!CipherKeyLengths(s)
         /\ \A mode : /\ Settings!RequiredNonceLength(u, mode) = Settings!RequiredNonceLength(s, mode)
                      /\ Settings!AcceptedNonceLengths(u, mode) = Settings!AcceptedNonceLengths(s, mode)
         /\ Settings!Aead(u) = Settings!Aead(s)
<1>1. Settings!ModeForSpec(u) = Settings!ModeForSpec(s) /\ (Settings!HasSets(u) <=> Settings!HasSets(s)) /\ Settings!SetOf(u) = Settings!SetOf(s)
  BY DEF SelectsAlike, Settings!ModeForSpec, Settings!HasSets, Settings!SetOf
<1>2. Settings!BlockOf(u) = Settings!BlockOf(s)
  BY <1>1 DEF SelectsAlike, Settings!BlockOf
<1>3. \A mode : /\ Settings!RequiredNonceLength(u, mode) = Settings!RequiredNonceLength(s, mode)
                /\ Settings!AcceptedNonceLengths(u, mode) = Settings!AcceptedNonceLengths(s, mode)
  BY <1>1, <1>2 DEF SelectsAlike, Settings!RequiredNonceLength, Settings!AcceptedNonceLengths
<1>4. Settings!Aead(u) = Settings!Aead(s)
  BY <1>1 DEF SelectsAlike, Settings!Aead
<1>5. Settings!CipherKeyLengths(u) = Settings!CipherKeyLengths(s)
  <2>1. CASE s.tool.name = "aes"
    BY <1>1, <2>1 DEF SelectsAlike, Settings!CipherKeyLengths
  <2>2. CASE s.tool.name # "aes"
    BY <1>1, <2>2 DEF SelectsAlike, Settings!CipherKeyLengths
  <2> QED BY <2>1, <2>2
<1> QED BY <1>1, <1>3, <1>4, <1>5

\* The parts of what a cipher is called with.
KeyPart(s) ==
  IF Settings!Typed(s) THEN <<"typed", s.key>>
  ELSE <<"derived", s.source, Settings!Password(s), Settings!UsedSalt(s, Settings!RandomSalt),
         IF s.source = "pbkdf2" THEN s.iterations ELSE 0, Settings!DerivedKeyLength(s)>>
NoncePart(s) ==
  CASE Settings!DerivedIvLength(s) > 0 -> <<"derived", Settings!DerivedIvLength(s)>>
    [] Settings!DerivedIvLength(s) = 0 /\ Settings!AcceptedNonceLengths(s, Settings!ModeForSpec(s)) # {} -> <<"typed", s.nonce>>
    [] OTHER -> <<"none">>
PaddingPart(s) == IF Settings!AesModes[Settings!ModeForSpec(s)].blockAligned THEN s.padding ELSE "none"

\* What is refused of a form, but for the order.
KeyRefused(s)   == s.key.flaw = "garbled" \/ ~Settings!KeyFits(s)
NonceRefused(s) == s.nonce.flaw = "garbled" \/ ~Settings!NonceFits(s)

\* Two forms whose parts are the same have the same outcome.
LEMMA OutcomeAlike ==
  ASSUME NEW s, NEW u, SelectsAlike(s, u), u.direction = s.direction,
         Settings!KeySourceProblem(u) = Settings!KeySourceProblem(s), KeyRefused(u) <=> KeyRefused(s),
         NonceRefused(u) <=> NonceRefused(s), u.messageSalt = s.messageSalt,
         KeyPart(u) = KeyPart(s), NoncePart(u) = NoncePart(s), PaddingPart(u) = PaddingPart(s),
         Settings!TagLength(u) = Settings!TagLength(s)
  PROVE  Settings!Outcome(u) = Settings!Outcome(s)
<1>1. u.tool = s.tool
  BY DEF SelectsAlike
<1>2. Settings!Refusal(u) = Settings!Refusal(s)
  BY <1>1 DEF Settings!Refusal, KeyRefused, NonceRefused
<1>3. Settings!Resolves(u) <=> Settings!Resolves(s)
  BY <1>2 DEF Settings!Resolves
<1>4. Settings!Call(u) = Settings!Call(s)
  <2>1. /\ Settings!ModeForSpec(u) = Settings!ModeForSpec(s)
        /\ Settings!HasSets(u) <=> Settings!HasSets(s)
        /\ Settings!SetOf(u) = Settings!SetOf(s)
    BY SelectedAlike
  <2>2. \A x : Settings!Call(x) =
                 [tool |-> x.tool, direction |-> x.direction, mode |-> Settings!ModeForSpec(x),
                  set |-> IF Settings!HasSets(x) THEN <<Settings!SetOf(x)>> ELSE <<>>,
                  key |-> KeyPart(x), nonce |-> NoncePart(x), padding |-> PaddingPart(x), tag |-> Settings!TagLength(x)]
    BY DEF Settings!Call, KeyPart, NoncePart, PaddingPart
  <2> QED BY <1>1, <2>1, <2>2
<1> QED BY <1>2, <1>3, <1>4 DEF Settings!Outcome

\* Two forms that select the same and have the same tag length, but for a tag
\* length that is not offered.
LEMMA TagAlike ==
  ASSUME NEW s, NEW u, SelectsAlike(s, u),
         u.tagLen = s.tagLen \/ s.tool.tagLens \cup Settings!AesModes[Settings!ModeForSpec(s)].tagLens = {}
  PROVE  Settings!TagLength(u) = Settings!TagLength(s)
<1>1. /\ Settings!ModeForSpec(u) = Settings!ModeForSpec(s)
      /\ Settings!HasSets(u) <=> Settings!HasSets(s)
      /\ Settings!SetOf(u) = Settings!SetOf(s) /\ Settings!Aead(u) = Settings!Aead(s) /\ u.tool = s.tool
  BY SelectedAlike DEF SelectsAlike
<1>2. CASE u.tagLen = s.tagLen
  BY <1>1, <1>2 DEF Settings!TagLength
<1>3. CASE s.tool.tagLens \cup Settings!AesModes[Settings!ModeForSpec(s)].tagLens = {}
  BY <1>1, <1>3 DEF Settings!TagLength
<1> QED BY <1>2, <1>3

\* What a form shows, field by field.
LEMMA ShownIs ==
  ASSUME NEW s
  PROVE  LET shown == Settings!Shown(s)
             m == Settings!AesModes[Settings!ModeForSpec(s)]
         IN /\ "key" \in shown <=> Settings!Typed(s)
            /\ \A f \in {"password", "salt", "derives", "envelope"} : f \in shown <=> ~Settings!Typed(s)
            /\ "iterations" \in shown <=> s.source = "pbkdf2"
            /\ "nonce" \in shown <=> ~Settings!IvIsDerived(s) /\ NonceShown(s)
            /\ "padding" \in shown <=> m.blockAligned
            /\ "tagLen" \in shown <=> m.tagLens \cup s.tool.tagLens # {}
            /\ "keySize" \in shown <=> s.tool.name = "aes"
BY DEF Settings!Shown, NonceShown

\* Two forms that differ in one field, by name.
AlikeBut(s, u, f) ==
  /\ f # "key" => u.key = s.key
  /\ f # "nonce" => u.nonce = s.nonce
  /\ f # "salt" => u.salt = s.salt
  /\ f # "password" => u.password = s.password
  /\ f # "padding" => u.padding = s.padding
  /\ f # "tagLen" => u.tagLen = s.tagLen
  /\ f # "derives" => u.derives = s.derives
  /\ f # "envelope" => u.envelope = s.envelope
  /\ f # "iterations" => u.iterations = s.iterations
  /\ f # "keySize" => u.keySize = s.keySize
  /\ u.tool = s.tool /\ u.mode = s.mode /\ u.profile = s.profile /\ u.set = s.set /\ u.direction = s.direction
  /\ u.source = s.source /\ u.messageSalt = s.messageSalt

LEMMA ReplacedIsAlike ==
  ASSUME NEW s, FieldNames \subseteq DOMAIN s, NEW f \in Fields, NEW v
  PROVE  AlikeBut(s, [s EXCEPT ![f] = v], f) /\ [s EXCEPT ![f] = v][f] = v
<1> DEFINE u == [s EXCEPT ![f] = v]
<1>1. f \in FieldNames
  BY DEF Fields, FieldNames
<1>2. \A g \in FieldNames : u[g] = IF g = f THEN v ELSE s[g]
  BY <1>1, OneReplaced
<1> HIDE DEF u
<1>3. u[f] = v
  BY <1>1, <1>2
<1>4. AlikeBut(s, u, f)
  BY <1>2 DEF AlikeBut, Fields, FieldNames
<1> QED BY <1>3, <1>4 DEF u

\* The parts that a field does not reach.
LEMMA NotDerivedAlike ==
  ASSUME NEW s, NEW u, NEW f, AlikeBut(s, u, f), f \in {"key", "nonce", "padding", "tagLen", "iterations", "keySize"}
  PROVE  /\ Settings!KeySourceProblem(u) = Settings!KeySourceProblem(s)
         /\ Settings!IvIsDerived(u) <=> Settings!IvIsDerived(s)
         /\ Settings!Password(u) = Settings!Password(s)
         /\ Settings!UsedSalt(u, Settings!RandomSalt) = Settings!UsedSalt(s, Settings!RandomSalt)
<1>1. /\ u.salt = s.salt /\ u.password = s.password /\ u.derives = s.derives /\ u.envelope = s.envelope
      /\ u.source = s.source /\ u.direction = s.direction
  BY DEF AlikeBut
<1>2. Settings!Salt(u) = Settings!Salt(s) /\ Settings!Password(u) = Settings!Password(s) /\ (Settings!Typed(u) <=> Settings!Typed(s))
  BY <1>1 DEF Settings!Salt, Settings!Password, Settings!Typed
<1>3. Settings!IvIsDerived(u) <=> Settings!IvIsDerived(s)
  BY <1>1, <1>2 DEF Settings!IvIsDerived
<1>4. Settings!EnvelopeSalt(u) = Settings!EnvelopeSalt(s)
  BY <1>2 DEF Settings!EnvelopeSalt
<1>5. Settings!UsedSalt(u, Settings!RandomSalt) = Settings!UsedSalt(s, Settings!RandomSalt)
  BY <1>1, <1>2, <1>4 DEF Settings!UsedSalt
<1>6. Settings!KeySourceProblem(u) = Settings!KeySourceProblem(s)
  BY <1>1, <1>2 DEF Settings!KeySourceProblem
<1> QED BY <1>2, <1>3, <1>5, <1>6

\* A field that is hidden is not one the outcome rests on.
LEMMA HiddenIsIgnored ==
  ASSUME NEW s, FormHolds(s), NEW u, NEW f \in Fields, AlikeBut(s, u, f), f \notin Settings!Shown(s), ~ReadAnyway(s, f),
         \A g \in {"key", "nonce"} \ Settings!Shown(s) : s[g].flaw # "garbled",
         f \in {"key", "nonce"} => u[f].flaw # "garbled"
  PROVE  Settings!Outcome(u) = Settings!Outcome(s)
<1> DEFINE mode == Settings!ModeForSpec(s)
           m == Settings!AesModes[mode]
           n == Settings!RequiredNonceLength(s, mode)
           a == Settings!AcceptedNonceLengths(s, mode)
           c == Settings!CipherKeyLengths(s)
           shown == Settings!Shown(s)
<1>1. SelectsAlike(s, u)
  BY ShownIs DEF SelectsAlike, AlikeBut
<1>2. /\ Settings!ModeForSpec(u) = mode /\ Settings!CipherKeyLengths(u) = c
      /\ Settings!RequiredNonceLength(u, mode) = n /\ Settings!AcceptedNonceLengths(u, mode) = a
  BY <1>1, SelectedAlike
<1>3. u.tool = s.tool /\ u.source = s.source /\ u.direction = s.direction /\ u.messageSalt = s.messageSalt
  BY DEF AlikeBut
<1>4. Settings!Typed(u) <=> Settings!Typed(s)
  BY <1>3 DEF Settings!Typed
<1>5. NoncesFit(s, n, a) /\ KeysFit(s, c)
  BY NoncesAgree, KeysAgree
<1>6. PaddingPart(u) = PaddingPart(s)
  <2>1. f = "padding" => ~m.blockAligned
    BY ShownIs
  <2> QED BY <1>2, <2>1 DEF PaddingPart, AlikeBut
<1>7. Settings!TagLength(u) = Settings!TagLength(s)
  <2>1. f = "tagLen" => s.tool.tagLens \cup m.tagLens = {}
    BY ShownIs
  <2> QED BY <1>1, <2>1, TagAlike DEF AlikeBut
<1>8. /\ KeyRefused(u) <=> IF Settings!Typed(s) THEN KeyRefused(s) ELSE FALSE
      /\ KeyRefused(s) <=> IF Settings!Typed(s) THEN KeyRefused(s) ELSE FALSE
  <2>1. CASE Settings!Typed(s)
    <3>1. u.key = s.key
      BY <2>1, ShownIs DEF AlikeBut
    <3>2. Settings!KeyFits(u) <=> Settings!KeyFits(s)
      BY <1>2, <1>3, <1>4, <3>1 DEF Settings!KeyFits
    <3> QED BY <2>1, <3>1, <3>2 DEF KeyRefused
  <2>2. CASE ~Settings!Typed(s)
    <3>1. Settings!KeyFits(u) /\ Settings!KeyFits(s)
      BY <1>4, <2>2 DEF Settings!KeyFits
    <3>2. s.key.flaw # "garbled"
      BY <2>2, ShownIs
    <3>3. u.key.flaw # "garbled"
      BY <3>2 DEF AlikeBut
    <3> QED BY <2>2, <3>1, <3>2, <3>3 DEF KeyRefused
  <2> QED BY <2>1, <2>2
<1>9. CASE f \in {"key", "nonce", "padding", "tagLen", "iterations", "keySize"}
  <2>1. /\ Settings!KeySourceProblem(u) = Settings!KeySourceProblem(s)
        /\ Settings!IvIsDerived(u) <=> Settings!IvIsDerived(s)
        /\ Settings!Password(u) = Settings!Password(s)
        /\ Settings!UsedSalt(u, Settings!RandomSalt) = Settings!UsedSalt(s, Settings!RandomSalt)
    BY <1>9, NotDerivedAlike
  <2>2. Settings!DerivedIvLength(u) = Settings!DerivedIvLength(s)
    BY <1>2, <2>1 DEF Settings!DerivedIvLength
  <2>3. NonceRefused(u) <=> NonceRefused(s)
    <3>1. CASE f # "nonce"
      <4>1. u.nonce = s.nonce
        BY <3>1 DEF AlikeBut
      <4>2. Settings!NonceFits(u) <=> Settings!NonceFits(s)
        BY <1>2, <2>1, <4>1 DEF Settings!NonceFits
      <4> QED BY <4>1, <4>2 DEF NonceRefused
    <3>2. CASE f = "nonce"
      <4>1. Settings!IvIsDerived(s) \/ a = {}
        BY <1>5, <3>2, ShownIs DEF NoncesFit
      <4>2. Settings!NonceFits(u) /\ Settings!NonceFits(s)
        BY <1>2, <2>1, <4>1 DEF Settings!NonceFits
      <4>3. s.nonce.flaw # "garbled" /\ u.nonce.flaw # "garbled"
        BY <3>2
      <4> QED BY <4>2, <4>3 DEF NonceRefused
    <3> QED BY <3>1, <3>2
  <2>4. NoncePart(u) = NoncePart(s)
    <3>1. CASE f # "nonce"
      BY <1>2, <2>2, <3>1 DEF NoncePart, AlikeBut
    <3>2. CASE f = "nonce"
      <4>1. 0 \notin a
        BY <3>2 DEF ReadAnyway
      <4>2. a = {} \/ Settings!DerivedIvLength(s) > 0
        <5>1. Settings!IvIsDerived(s) \/ a = {}
          BY <1>5, <3>2, ShownIs DEF NoncesFit
        <5>2. a # {} => n > 0
          <6> HIDE DEF n, a
          <6> QED BY <1>5, <4>1 DEF NoncesFit
        <5> QED BY <5>1, <5>2 DEF Settings!DerivedIvLength
      <4> QED BY <1>2, <2>2, <4>2 DEF NoncePart
    <3> QED BY <3>1, <3>2
  <2>5. KeyPart(u) = KeyPart(s)
    <3>1. CASE Settings!Typed(s)
      <4>1. u.key = s.key
        BY <3>1, ShownIs DEF AlikeBut
      <4> QED BY <1>4, <3>1, <4>1 DEF KeyPart
    <3>2. CASE ~Settings!Typed(s)
      <4>1. Settings!DerivedKeyLength(u) = Settings!DerivedKeyLength(s)
        <5>1. CASE c # {}
          BY <1>2, <5>1 DEF Settings!DerivedKeyLength
        <5>2. CASE c = {}
          <6>1. f # "key"
            BY <1>5, <5>2 DEF KeysFit, ReadAnyway
          <6> QED BY <1>2, <5>2, <6>1 DEF Settings!DerivedKeyLength, AlikeBut
        <5> QED BY <5>1, <5>2
      <4>2. s.source = "pbkdf2" => u.iterations = s.iterations
        BY ShownIs DEF AlikeBut
      <4> QED BY <1>3, <1>4, <2>1, <3>2, <4>1, <4>2 DEF KeyPart
    <3> QED BY <3>1, <3>2
  <2>6. KeyRefused(u) <=> KeyRefused(s)
    BY ONLY <1>8
  <2> QED BY ONLY <1>1, <1>3, <1>6, <1>7, <2>1, <2>3, <2>4, <2>5, <2>6, OutcomeAlike
<1>10. CASE f \in {"salt", "password", "derives", "envelope"}
  <2>1. Settings!Typed(s) /\ u.key = s.key /\ u.nonce = s.nonce
    BY <1>10, ShownIs DEF AlikeBut
  <2>2. Settings!KeySourceProblem(u) = Settings!KeySourceProblem(s)
    BY <1>4, <2>1 DEF Settings!KeySourceProblem
  <2>3. ~Settings!IvIsDerived(u) /\ ~Settings!IvIsDerived(s)
    BY <1>4, <2>1 DEF Settings!IvIsDerived
  <2>4. Settings!DerivedIvLength(u) = 0 /\ Settings!DerivedIvLength(s) = 0
    BY <2>3 DEF Settings!DerivedIvLength
  <2>5. KeyPart(u) = KeyPart(s)
    BY <1>4, <2>1 DEF KeyPart
  <2>6. NoncePart(u) = NoncePart(s)
    BY <1>2, <2>1, <2>4 DEF NoncePart
  <2>7. NonceRefused(u) <=> NonceRefused(s)
    <3>1. Settings!NonceFits(u) <=> Settings!NonceFits(s)
      BY <1>2, <2>1, <2>3 DEF Settings!NonceFits
    <3> QED BY <2>1, <3>1 DEF NonceRefused
  <2>8. KeyRefused(u) <=> KeyRefused(s)
    BY ONLY <1>8
  <2> QED BY ONLY <1>1, <1>3, <1>6, <1>7, <2>2, <2>5, <2>6, <2>7, <2>8, OutcomeAlike
<1> QED BY <1>9, <1>10 DEF Fields

\* What a refusal says.
LEMMA RefusalIs ==
  ASSUME NEW s
  PROVE  LET r == Settings!Refusal(s)
             k == Settings!KeySourceProblem(s)
         IN /\ k \in {"none", "password", "salt"} /\ (k # "none" => ~Settings!Typed(s) /\ r = k)
            /\ r \in {"none", "password", "salt", "key", "nonce", "message salt"}
            /\ r = "key" => KeyRefused(s)
            /\ r = "nonce" => NonceRefused(s)
            /\ r = "none" <=> /\ k = "none" /\ ~KeyRefused(s) /\ ~NonceRefused(s)
                              /\ ~(s.tool.name = "cobblestone" /\ s.messageSalt \notin {0, 24})
            /\ r \in {"password", "salt"} => ~Settings!Typed(s)
<1> DEFINE k == Settings!KeySourceProblem(s)
<1>1. k \in {"none", "password", "salt"} /\ (k # "none" => ~Settings!Typed(s))
  BY DEF Settings!KeySourceProblem
<1> HIDE DEF k
<1>2. Settings!Refusal(s) = IF k # "none" THEN k ELSE IF KeyRefused(s) THEN "key" ELSE IF NonceRefused(s) THEN "nonce"
        ELSE IF s.tool.name = "cobblestone" /\ s.messageSalt \notin {0, 24} THEN "message salt" ELSE "none"
  BY DEF k, Settings!Refusal, KeyRefused, NonceRefused
<1>3. /\ (k # "none" => Settings!Refusal(s) = k)
      /\ Settings!Refusal(s) \in {"none", "password", "salt", "key", "nonce", "message salt"}
      /\ Settings!Refusal(s) = "key" => KeyRefused(s)
      /\ Settings!Refusal(s) = "nonce" => NonceRefused(s)
      /\ Settings!Refusal(s) \in {"password", "salt"} => ~Settings!Typed(s)
  BY ONLY <1>1, <1>2
<1>4. Settings!Refusal(s) = "none" <=> /\ k = "none" /\ ~KeyRefused(s) /\ ~NonceRefused(s)
                                       /\ ~(s.tool.name = "cobblestone" /\ s.messageSalt \notin {0, 24})
  BY ONLY <1>1, <1>2
<1> QED BY <1>1, <1>3, <1>4 DEF k

\* A field is blamed where it can be seen.
LEMMA RefusedIsShown ==
  ASSUME NEW s, FormHolds(s), \A g \in {"key", "nonce"} \ Settings!Shown(s) : s[g].flaw # "garbled"
  PROVE  Settings!Refusal(s) \in Settings!Shown(s) \cup {"none", "message salt"}
<1> DEFINE r == Settings!Refusal(s)
           shown == Settings!Shown(s)
           a == Settings!AcceptedNonceLengths(s, Settings!ModeForSpec(s))
<1>1. CASE r \in {"password", "salt"}
  BY <1>1, RefusalIs, ShownIs
<1>2. CASE r = "key"
  <2>1. KeyRefused(s)
    BY <1>2, RefusalIs
  <2>2. "key" \notin shown => ~KeyRefused(s)
    BY ShownIs DEF KeyRefused, Settings!KeyFits
  <2> QED BY <1>2, <2>1, <2>2
<1>3. CASE r = "nonce"
  <2>1. NonceRefused(s)
    BY <1>3, RefusalIs
  <2>2. "nonce" \notin shown => Settings!IvIsDerived(s) \/ a = {}
    BY ShownIs, NoncesAgree DEF NoncesFit
  <2>3. "nonce" \notin shown => ~NonceRefused(s)
    BY <2>2 DEF NonceRefused, Settings!NonceFits
  <2> QED BY <1>3, <2>1, <2>3
<1> QED BY <1>1, <1>2, <1>3, RefusalIs

LEMMA HiddenFieldsOf ==
  ASSUME NEW s, FormHolds(s), \A g \in {"key", "nonce"} \ Settings!Shown(s) : s[g].flaw # "garbled",
         NEW f \in Fields \ Settings!Shown(s), NEW value \in Others(f)
  PROVE  ReadAnyway(s, f) \/ Settings!Outcome([s EXCEPT ![f] = value]) = Settings!Outcome(s)
<1> DEFINE u == [s EXCEPT ![f] = value]
<1>1. AlikeBut(s, u, f) /\ u[f] = value
  BY ReplacedIsAlike DEF FormHolds, FormIsFilledIn
<1>2. f \in {"key", "nonce"} => value.flaw # "garbled"
  BY DEF Others
<1> HIDE DEF u
<1>3. ~ReadAnyway(s, f) => Settings!Outcome(u) = Settings!Outcome(s)
  BY <1>1, <1>2, HiddenIsIgnored
<1> QED BY <1>3 DEF u

\* What Generate puts in a field is accepted there.
LEMMA GenerateAlwaysFits ==
  ASSUME NEW s, FormHolds(s)
  PROVE  GenerateFits(s)
<1> DEFINE mode == Settings!ModeForSpec(s)
           n == Settings!RequiredNonceLength(s, mode)
           a == Settings!AcceptedNonceLengths(s, mode)
           c == Settings!CipherKeyLengths(s)
<1> SUFFICES ASSUME NEW f \in {"key", "nonce"} \cap Settings!Shown(s),
                    Settings!Refusal(Settings!Generated(s, f)) = f
             PROVE  f = "key" /\ Settings!HasSets(s) /\ s.tool.name # "cobblestone" /\ s.tool.generate # Settings!SetOf(s).key
  BY DEF GenerateFits
<1> DEFINE l == Settings!CipherGenerateLength(s, f)
           u == Settings!Generated(s, f)
<1>1. AlikeBut(s, u, f) /\ u[f] = Settings!Fresh(l)
  <2>1. f \in Fields
    BY DEF Fields
  <2> QED BY <2>1, ReplacedIsAlike DEF FormHolds, FormIsFilledIn, Settings!Generated
<1>2. NoncesFit(s, n, a) /\ KeysFit(s, c)
  BY NoncesAgree, KeysAgree
<1>3. SelectsAlike(s, u)
  BY <1>1 DEF SelectsAlike, AlikeBut
<1>4. Settings!ModeForSpec(u) = mode /\ Settings!CipherKeyLengths(u) = c /\ Settings!AcceptedNonceLengths(u, mode) = a
  BY <1>3, SelectedAlike
<1>5. u.tool = s.tool
  BY <1>1 DEF AlikeBut
<1>6. CASE f = "nonce"
  <2>1. u.nonce.len = l /\ u.nonce.flaw = "fresh"
    BY <1>1, <1>6 DEF Settings!Fresh
  <2>2. l = IF n > 0 THEN n ELSE Last(s.tool.nonces)
    BY <1>6 DEF Settings!CipherGenerateLength, Last, Settings!Last
  <2>3. a # {}
    BY <1>2, <1>6, ShownIs DEF NoncesFit
  <2>4. l \in a
    <3> HIDE DEF l, n, a
    <3> QED BY <1>2, <2>2, <2>3 DEF NoncesFit
  <2>5. ~NonceRefused(u)
    BY <1>4, <2>1, <2>4 DEF NonceRefused, Settings!NonceFits
  <2> QED BY <1>6, <2>5, RefusalIs
<1>7. CASE f = "key"
  <2>1. u.key.len = l /\ u.key.flaw = "fresh"
    BY <1>1, <1>7 DEF Settings!Fresh
  <2> DEFINE fits == l > 0 /\ l \in IF c # {} THEN c ELSE s.tool.range
  <2>2. ~fits
    <3>1. KeyRefused(u)
      BY <1>7, RefusalIs
    <3> QED BY <1>4, <1>5, <2>1, <3>1 DEF KeyRefused, Settings!KeyFits
  <2>3. CASE s.tool.name = "aes"
    <3>1. l = IF s.keySize \in c THEN s.keySize ELSE Settings!Max(c)
      <4>1. f = "key" /\ s.tool.name = "aes"
        BY <1>7, <2>3
      <4> QED BY ONLY <4>1 DEF Settings!CipherGenerateLength
    <3>2. c # {}
      <4>1. ~Settings!HasSets(s)
        BY <2>3 DEF FormHolds, ToolIsConsistent, Settings!HasSets
      <4> QED BY <2>3, <4>1 DEF Settings!CipherKeyLengths
    <3> HIDE DEF l, c
    <3>3. l \in c /\ c \subseteq Nat \ {0}
      BY <1>2, <3>1, <3>2 DEF KeysFit
    <3> QED BY <2>2, <3>2, <3>3
  <2>4. CASE s.tool.name = "cobblestone"
    <3>1. l = Settings!SetOf(s).key
      BY <1>7, <2>4 DEF Settings!CipherGenerateLength
    <3>2. Settings!HasSets(s) /\ Settings!AesModes[mode].keyLengths = {}
      BY <2>4, ModeIs DEF FormHolds, ToolIsConsistent, Settings!HasSets
    <3>3. c = {Settings!SetOf(s).key}
      BY <2>4, <3>2 DEF Settings!CipherKeyLengths
    <3> HIDE DEF l, c
    <3> QED BY <1>2, <2>2, <3>1, <3>3 DEF KeysFit
  <2>5. CASE s.tool.name \notin {"aes", "cobblestone"}
    <3>1. l = s.tool.generate
      BY <1>7, <2>5 DEF Settings!CipherGenerateLength
    <3>2. Settings!AesModes[mode].keyLengths = {}
      BY <2>5, ModeIs
    <3>3. CASE Settings!HasSets(s)
      <4>1. c = {Settings!SetOf(s).key}
        BY <2>5, <3>2, <3>3 DEF Settings!CipherKeyLengths
      <4> HIDE DEF l, c
      <4>2. l # Settings!SetOf(s).key
        BY <1>2, <2>2, <4>1 DEF KeysFit
      <4> QED BY <1>7, <2>5, <3>1, <3>3, <4>2
    <3>4. CASE ~Settings!HasSets(s)
      <4>1. c = s.tool.keys
        BY <2>5, <3>2, <3>4 DEF Settings!CipherKeyLengths
      <4>2. s.tool.generate \in (IF s.tool.keys # {} THEN s.tool.keys ELSE s.tool.range) /\ s.tool.keys \cup s.tool.range \subseteq Nat \ {0}
        BY DEF FormHolds, ToolIsConsistent
      <4> HIDE DEF l, c
      <4> QED BY <2>2, <3>1, <4>1, <4>2
    <3> QED BY <3>3, <3>4
  <2> QED BY <2>3, <2>4, <2>5
<1> QED BY <1>6, <1>7

\* What resolves has a key and a nonce the cipher takes.
LEMMA ResolvedIsTaken ==
  ASSUME NEW s, FormHolds(s), Settings!Refusal(s) = "none"
  PROVE  CipherTakes(s)
<1> DEFINE mode == Settings!ModeForSpec(s)
           m == Settings!AesModes[mode]
           n == Settings!RequiredNonceLength(s, mode)
           a == Settings!AcceptedNonceLengths(s, mode)
           c == Settings!CipherKeyLengths(s)
           takes == IF s.tool.name = "aes" /\ m.keyLengths = {} THEN {16, 24, 32} ELSE c \cup s.tool.range
           given == IF Settings!Typed(s) THEN s.key.len ELSE Settings!DerivedKeyLength(s)
           iv == Settings!DerivedIvLength(s)
<1>1. NoncesFit(s, n, a) /\ KeysFit(s, c)
  BY NoncesAgree, KeysAgree
<1>2. Settings!KeyFits(s) /\ Settings!NonceFits(s)
  BY RefusalIs DEF KeyRefused, NonceRefused
<1>3. given \in c \cup s.tool.range \/ (~Settings!Typed(s) /\ s.tool.range # {})
  <2>1. CASE Settings!Typed(s)
    BY <1>2, <2>1 DEF Settings!KeyFits
  <2>2. CASE ~Settings!Typed(s) /\ c # {}
    <3>1. given = Settings!Max(c)
      BY <2>2 DEF Settings!DerivedKeyLength
    <3> HIDE DEF given, c
    <3> QED BY <1>1, <2>2, <3>1 DEF KeysFit
  <2>3. CASE ~Settings!Typed(s) /\ c = {}
    <3> HIDE DEF given, c
    <3> QED BY <1>1, <2>3 DEF KeysFit
  <2> QED BY <2>1, <2>2, <2>3
<1>4. \/ given \in takes
      \/ s.tool.name = "aes" /\ s.keySize \in {48, 64}
      \/ ~Settings!Typed(s) /\ s.tool.range # {}
  <2>1. CASE s.tool.name = "aes" /\ m.keyLengths = {}
    <3>1. c = {s.keySize}
      <4>1. ~Settings!HasSets(s)
        BY <2>1 DEF FormHolds, ToolIsConsistent, Settings!HasSets
      <4> QED BY <2>1, <4>1 DEF Settings!CipherKeyLengths
    <3>2. given \in c \/ (~Settings!Typed(s) /\ s.tool.range # {})
      <4>1. Settings!Typed(s) => given \in c
        BY <1>2, <3>1 DEF Settings!KeyFits
      <4> QED BY <1>3, <3>1, <4>1, <1>1 DEF Settings!DerivedKeyLength, KeysFit
    <3>3. s.keySize \in {16, 24, 32, 48, 64}
      BY <2>1 DEF FormHolds, FormIsFilledIn
    <3> HIDE DEF given, c
    <3> QED BY <2>1, <3>1, <3>2, <3>3
  <2>2. CASE ~(s.tool.name = "aes" /\ m.keyLengths = {})
    <3> HIDE DEF given, c
    <3> QED BY <1>3, <2>2
  <2> QED BY <2>1, <2>2
<1>5. \/ a = {} \/ (IF iv > 0 THEN iv ELSE s.nonce.len) \in a
      \/ Settings!IvIsDerived(s) /\ 0 \in a
  <2>1. CASE ~Settings!IvIsDerived(s)
    <3>1. iv = 0
      BY <2>1 DEF Settings!DerivedIvLength
    <3>2. a = {} \/ s.nonce.len \in a
      BY <1>2, <2>1 DEF Settings!NonceFits
    <3> QED BY <3>1, <3>2
  <2>2. CASE Settings!IvIsDerived(s)
    <3>1. iv = n
      BY <2>2 DEF Settings!DerivedIvLength
    <3> HIDE DEF iv, n, a
    <3> QED BY <1>1, <2>2, <3>1 DEF NoncesFit
  <2> QED BY <2>1, <2>2
<1> QED BY ONLY <1>4, <1>5 DEF CipherTakes

\* The salt of the envelope opens it.
LEMMA SaltAlwaysTravels ==
  ASSUME NEW s, FormHolds(s), Settings!Refusal(s) = "none", ~Settings!Typed(s)
  PROVE  SaltTravels(s)
<1> DEFINE salt == Settings!EnvelopeSalt(s)
           header == Settings!OpensslHeader(salt)
           back == [s EXCEPT !.direction = "decrypt"]
<1> SUFFICES ASSUME s.direction = "encrypt", s.envelope = "openssl", Len(Settings!Salt(s)) \in {0, 8}
             PROVE  Settings!Resolves(back) /\ Settings!UsedSalt(back, header) = Settings!UsedSalt(s, header)
  BY DEF SaltTravels
<1>1. back.direction = "decrypt" /\ \A g \in FieldNames \ {"direction"} : back[g] = s[g]
  BY DEF FormHolds, FormIsFilledIn, FieldNames
<1> HIDE DEF back
<1>2. SelectsAlike(s, back) /\ back.key = s.key /\ back.nonce = s.nonce /\ back.source = s.source /\ back.derives = s.derives
      /\ back.messageSalt = s.messageSalt /\ back.tool = s.tool /\ back.password = s.password /\ back.salt = s.salt
      /\ back.envelope = s.envelope
  BY <1>1 DEF FieldNames, SelectsAlike
<1>3. /\ Settings!ModeForSpec(back) = Settings!ModeForSpec(s) /\ Settings!CipherKeyLengths(back) = Settings!CipherKeyLengths(s)
      /\ \A mode : Settings!AcceptedNonceLengths(back, mode) = Settings!AcceptedNonceLengths(s, mode)
  BY <1>2, SelectedAlike
<1>4. (Settings!Typed(back) <=> Settings!Typed(s)) /\ (Settings!IvIsDerived(back) <=> Settings!IvIsDerived(s))
      /\ Settings!Password(back) = Settings!Password(s) /\ Settings!Salt(back) = Settings!Salt(s)
  BY <1>2 DEF Settings!Typed, Settings!IvIsDerived, Settings!Password, Settings!Salt
<1>5. Settings!KeySourceProblem(back) = "none"
  <2>1. Settings!KeySourceProblem(s) = "none"
    BY RefusalIs
  <2>2. Settings!Password(s) # 0
    BY <2>1 DEF Settings!KeySourceProblem
  <2> QED BY <1>1, <1>2, <1>4, <2>2 DEF Settings!KeySourceProblem
<1>6. ~KeyRefused(back) /\ ~NonceRefused(back)
  <2>1. ~KeyRefused(s) /\ ~NonceRefused(s)
    BY RefusalIs
  <2> QED BY <1>2, <1>3, <1>4, <2>1 DEF KeyRefused, NonceRefused, Settings!KeyFits, Settings!NonceFits
<1>7. Settings!Resolves(back)
  BY <1>2, <1>5, <1>6, RefusalIs DEF Settings!Resolves
<1>8. Settings!UsedSalt(back, header) = header /\ Settings!UsedSalt(s, header) = salt
  BY <1>1, <1>2 DEF Settings!UsedSalt
<1>9. Settings!Salt(s) \in Seq({<<"salt", i>> : i \in Nat})
  <2>1. Settings!Legible(s.salt) \in Nat
    BY DEF Settings!Legible, FormHolds, FormIsFilledIn
  <2> QED BY <2>1 DEF Settings!Salt
<1>10. header = salt
  <2>1. CASE Settings!Salt(s) = <<>>
    <3>1. salt = [i \in 1 .. 8 |-> <<"random", i>>]
      BY <2>1 DEF Settings!EnvelopeSalt, Settings!RandomSalt, Settings!OpensslSaltBytes
    <3> HIDE DEF salt
    <3> QED BY <3>1 DEF Settings!OpensslHeader, Settings!OpensslSaltBytes
  <2>2. CASE Settings!Salt(s) # <<>>
    <3>1. salt = Settings!Salt(s) /\ Len(salt) = 8
      BY <1>9, <2>2 DEF Settings!EnvelopeSalt
    <3>2. salt \in Seq({<<"salt", i>> : i \in Nat})
      BY <1>9, <3>1
    <3> HIDE DEF salt
    <3> QED BY <3>1, <3>2 DEF Settings!OpensslHeader, Settings!OpensslSaltBytes
  <2> QED BY <2>1, <2>2
<1> QED BY <1>7, <1>8, <1>10

\* What a code is answered with.
CodeRead ==
  config.engine = "code" =>
    /\ status = "feeding" => emitted = <<>>
    /\ status = "done"    => emitted = <<ReadBack(config, data)>>

LEMMA CodeAnswers == Spec => [](Place /\ CodeRead)
<1>1. Init => Place /\ CodeInv /\ CodeRead
  BY Starts, CodeStarts DEF CodeRead
<1>2. ASSUME Place, CodeInv, CodeRead, [Next]_vars  PROVE CodeRead'
  <2>0. job' = job /\ data' = data /\ config' = config
    BY <1>2, Steps, SameData
  <2> SUFFICES ASSUME config.engine = "code"
               PROVE  /\ status' = "feeding" => emitted' = <<>>
                      /\ status' = "done"    => emitted' = <<ReadBack(config, data)>>
    BY <2>0 DEF CodeRead
  <2>1. /\ status = "feeding" => emitted = <<>>
        /\ status = "done"    => emitted = <<ReadBack(config, data)>>
    BY <1>2 DEF CodeRead
  <2>2. ASSUME NEW n \in Ends, status = "feeding", fed' = n, Advance(Updated(config, engine, Chunk(n)))
        PROVE  status' = "feeding" /\ emitted' = <<>>
    BY <2>1, <2>2 DEF Updated, Advance, Deliver, Silently
  <2>3. CASE Finish
    <3>1. engine = data
      <4>1. engine = Sofar /\ fed = Len(data) /\ data \in Seq(Bytes)
        BY <1>2, <2>3, DataIsRead DEF CodeInv, Finish
      <4> HIDE DEF data
      <4> QED BY <4>1 DEF Sofar
    <3>2. emitted = <<>> /\ Deliver(Good(<<ReadBack(config, data)>>), "done")
      BY <2>1, <2>3, <3>1 DEF Finish, Finished
    <3>3. status' = "done" /\ emitted' = <<>> \o <<ReadBack(config, data)>>
      BY <3>2 DEF Deliver, Good
    <3> QED BY <3>3
  <2>4. CASE UNCHANGED vars
    BY <2>1, <2>4 DEF vars
  <2> QED BY <1>2, <2>1, <2>2, <2>3, <2>4, Steps
<1>3. Place /\ CodeInv /\ [Next]_vars => (Place /\ CodeInv)'
  BY Steps, CodeStep
<1> QED BY <1>1, <1>2, <1>3, PTL DEF Spec

\* A form that was read is whole, and answered with its outcome.
LEMMA FormIsAnswered ==
  ASSUME Place, CodeRead, Read({"settings"})
  PROVE  FormHolds(config.spec) /\ Result = Settings!Outcome(config.spec)
<1>1. job \in Jobs /\ IsForm(job)
  BY DEF Place, Read, IsForm, config
<1>2. Result = ReadBack(job.config, job.data)
  BY DEF CodeRead, Read, Result, config, data
<1> QED BY <1>1, <1>2, FormsAreSound, FormsAreAnswered DEF FormHolds, config

\* A field of a cipher's form is blamed only where it can be seen, and what a
\* hidden field still holds is of no consequence to the outcome, but for the
\* two that are read all the same.
THEOREM HiddenFieldsCountForNothing == Spec => []HiddenFieldsAreIgnored
<1>1. ASSUME Place, CodeRead  PROVE HiddenFieldsAreIgnored
  <2> SUFFICES ASSUME Read({"settings"}), \A g \in {"key", "nonce"} \ Settings!Shown(config.spec) : config.spec[g].flaw # "garbled"
               PROVE  /\ Result.refused \in Settings!Shown(config.spec) \cup {"none", "message salt"}
                      /\ \A f \in Fields \ Settings!Shown(config.spec) : ReadAnyway(config.spec, f) \/
                           \A value \in Others(f) : Settings!Outcome([config.spec EXCEPT ![f] = value]) = Result
    BY DEF HiddenFieldsAreIgnored
  <2> DEFINE s == config.spec
  <2>1. FormHolds(s) /\ Result = Settings!Outcome(s)
    BY <1>1, FormIsAnswered
  <2> HIDE DEF s
  <2>2. \A g \in {"key", "nonce"} \ Settings!Shown(s) : s[g].flaw # "garbled"
    BY DEF s
  <2>3. Result.refused = Settings!Refusal(s)
    BY <2>1 DEF Settings!Outcome
  <2>4. Result.refused \in Settings!Shown(s) \cup {"none", "message salt"}
    BY <2>1, <2>2, <2>3, RefusedIsShown
  <2>5. \A f \in Fields \ Settings!Shown(s) : ReadAnyway(s, f) \/
          \A value \in Others(f) : Settings!Outcome([s EXCEPT ![f] = value]) = Result
    BY <2>1, <2>2, HiddenFieldsOf
  <2> QED BY <2>4, <2>5 DEF s
<1> QED BY <1>1, CodeAnswers, PTL

\* A cipher's form that is not refused runs: Generate gives what its field
\* accepts, the cipher takes what resolves, and what was enveloped is opened
\* with the salt that travels.
THEOREM SettingsAlwaysRun == Spec => []SettingsCanRun
<1>1. ASSUME Place, CodeRead  PROVE SettingsCanRun
  <2> SUFFICES ASSUME Read({"settings"})
               PROVE  /\ GenerateFits(config.spec)
                      /\ Result.refused = "none" =>
                           CipherTakes(config.spec) /\ (~Settings!Typed(config.spec) => SaltTravels(config.spec))
    BY DEF SettingsCanRun
  <2>1. FormHolds(config.spec) /\ Result = Settings!Outcome(config.spec)
    BY <1>1, FormIsAnswered
  <2>2. Result.refused = Settings!Refusal(config.spec)
    BY <2>1 DEF Settings!Outcome
  <2> QED BY <2>1, <2>2, GenerateAlwaysFits, ResolvedIsTaken, SaltAlwaysTravels
<1> QED BY <1>1, CodeAnswers, PTL
=============================================================================
