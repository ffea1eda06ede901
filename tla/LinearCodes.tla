----------------------------- MODULE LinearCodes -----------------------------
(***************************************************************************)
(* The codes that repair: Reed-Solomon over two fields, the two BCH codes  *)
(* of QR, the Golay code and the Hadamard code.                            *)
(*                                                                         *)
(* A word of bits is the set of its bits that are one, counted from the    *)
(* low end.  A decoder's answer is a record: ok, value, and fixed, what it *)
(* says it changed.                                                        *)
(***************************************************************************)
EXTENDS Fields, FiniteSets
LOCAL INSTANCE SequencesExt
LOCAL INSTANCE FiniteSetsExt

Bits(n)       == {p \in 0 .. 23 : (n \div 2^p) % 2 = 1}
Distance(s, t) == Cardinality(SymDiff(s, t))

Decoded(value, fixed) == [ok |-> TRUE, value |-> value, fixed |-> fixed]
Undecodable           == [ok |-> FALSE, value |-> <<>>, fixed |-> {}]

LOCAL Upward(a, b) == [i \in 1 .. b - a + 1 |-> a + i - 1]
LOCAL NoTerms(n)   == [i \in 1 .. n |-> 0]
LOCAL Cut(s, n)    == SubSeq(s, 1, n)

-----------------------------------------------------------------------------
(* Reed-Solomon.  A symbol is a byte; a codeword is the data and then ecc   *)
(* symbols, highest power first.  Locators are lowest power first.          *)

RsField(profile) == IF profile = "qr" THEN QrField ELSE DataMatrixField

\* (x - a^base) (x - a^(base + 1)) ..., highest power first.
RsGenerator(f, ecc) ==
  FoldLeft(LAMBDA g, i : LET root == Power(f, f.base + i)
                         IN [j \in 1 .. Len(g) + 1 |->
                               BitXor(IF j <= Len(g) THEN g[j] ELSE 0,
                                      IF j = 1 THEN 0 ELSE Mul(f, g[j - 1], root))],
           <<1>>, Upward(0, ecc - 1))

\* The remainder of the data, moved up by ecc, divided by the generator.
RsEncode(f, data, ecc) ==
  LET g == RsGenerator(f, ecc)
      divided == FoldLeft(LAMBDA buf, i : [p \in DOMAIN buf |->
                            IF p \in i + 1 .. i + ecc THEN BitXor(buf[p], Mul(f, g[p - i + 1], buf[i])) ELSE buf[p]],
                          data \o NoTerms(ecc), Upward(1, Len(data)))
  IN SubSeq(divided, Len(data) + 1, Len(data) + ecc)

Syndromes(f, word, ecc) == [j \in 1 .. ecc |-> Horner(f, word, Power(f, f.base + j - 1))]
IsClean(syndromes) == \A j \in DOMAIN syndromes : syndromes[j] = 0

Coefficient(poly, i) == IF i < Len(poly) THEN poly[i + 1] ELSE 0
PolyAdd(a, b) == [i \in 1 .. (IF Len(a) > Len(b) THEN Len(a) ELSE Len(b)) |->
                    BitXor(Coefficient(a, i - 1), Coefficient(b, i - 1))]
Degree(poly) == Max({0} \cup {i \in 0 .. Len(poly) - 1 : Coefficient(poly, i) # 0})

\* Berlekamp-Massey: the shortest recurrence the syndromes satisfy.
BerlekampMassey(f, syndromes) ==
  LET Step(s, n) ==
        LET delta == XorAll([i \in 1 .. s.degree + 1 |->
                       Mul(f, IF i = 1 THEN 1 ELSE Coefficient(s.lambda, i - 1), syndromes[n - i + 2])])
            scale == Mul(f, delta, Inv(f, s.last))
            next  == PolyAdd(s.lambda, NoTerms(s.shift) \o [i \in DOMAIN s.previous |-> Mul(f, s.previous[i], scale)])
        IN IF delta = 0 THEN [s EXCEPT !.shift = @ + 1]
           ELSE IF 2 * s.degree <= n
           THEN [lambda |-> next, previous |-> s.lambda, degree |-> n + 1 - s.degree, shift |-> 1, last |-> delta]
           ELSE [s EXCEPT !.lambda = next, !.shift = @ + 1]
      found == FoldLeft(Step, [lambda |-> <<1>>, previous |-> <<1>>, degree |-> 0, shift |-> 1, last |-> 1],
                        Upward(0, Len(syndromes) - 1))
  IN Cut(found.lambda, Degree(found.lambda) + 1)

Locator(f, word, i) == Power(f, Len(word) - i)

\* Chien search: the positions whose locators are the roots' inverses.
ErrorPositions(f, word, lambda) ==
  {i \in DOMAIN word : Evaluate(f, lambda, Inv(f, Locator(f, word, i))) = 0}

\* Forney: what to add at a position, or -1 when the derivative vanishes.
\* In characteristic two only the odd powers of lambda have a derivative.
Magnitude(f, locator, lambda, omega) ==
  LET inverse    == Inv(f, locator)
      derivative == XorAll([i \in 1 .. Len(lambda) - 1 |->
                      IF i % 2 = 1 THEN Mul(f, lambda[i + 1], Pow(f, inverse, i - 1)) ELSE 0])
      factor     == IF f.base = 1 THEN 1 ELSE Pow(f, locator, 1 - f.base)
  IN IF derivative = 0 THEN -1
     ELSE Mul(f, factor, Mul(f, Evaluate(f, omega, inverse), Inv(f, derivative)))

\* The syndromes as a polynomial times lambda, up to the power ecc - 1.
Omega(f, syndromes, lambda) ==
  [p \in DOMAIN syndromes |-> XorAll([i \in 1 .. p |-> Mul(f, syndromes[i], Coefficient(lambda, p - i))])]

\* Refused: no locator of at most ecc / 2, not as many roots in the word as
\* its degree, or a repaired word that is no codeword after all.
Repaired(word, added) ==
  [i \in DOMAIN word |-> IF i \in DOMAIN added THEN BitXor(word[i], added[i]) ELSE word[i]]

Additions(f, word, lambda, omega) ==
  [i \in ErrorPositions(f, word, lambda) |-> Magnitude(f, Locator(f, word, i), lambda, omega)]

RsAccept(f, word, ecc, count, added) ==
  IF \/ count = 0 \/ 2 * count > ecc \/ Cardinality(DOMAIN added) # count
     \/ \E i \in DOMAIN added : added[i] = -1
     \/ ~IsClean(Syndromes(f, Repaired(word, added), ecc))
  THEN Undecodable ELSE Decoded(Repaired(word, added), DOMAIN added)

RsCorrect(f, word, ecc, syndromes, lambda) ==
  RsAccept(f, word, ecc, Len(lambda) - 1, Additions(f, word, lambda, Omega(f, syndromes, lambda)))

RsDecode(f, word, ecc) ==
  LET syndromes == Syndromes(f, word, ecc)
  IN IF IsClean(syndromes) THEN Decoded(word, {})
     ELSE RsCorrect(f, word, ecc, syndromes, BerlekampMassey(f, syndromes))

-----------------------------------------------------------------------------
(* BCH, by the nearest codeword. *)

BchProfile == [format  |-> [n |-> 15, k |-> 5, generator |-> Bits(1335), mask |-> Bits(21522), distance |-> 7],
               version |-> [n |-> 18, k |-> 6, generator |-> Bits(7973), mask |-> {}, distance |-> 8]]

\* Long division: the generator is taken away under every bit it can be.
Gf2Remainder(value, generator) ==
  LET top == Max(generator)
      Reduce(p, v) == IF p \in v THEN SymDiff(v, {b + p - top : b \in generator}) ELSE v
  IN FoldRight(Reduce, Upward(top, 17), value)

BchEncode(p, data) ==
  LET shifted == {b + p.n - p.k : b \in data}
  IN SymDiff(shifted \cup Gf2Remainder(shifted, p.generator), p.mask)

BchCodewords == [profile \in {"format", "version"} |->
                   [data \in SUBSET (0 .. BchProfile[profile].k - 1) |-> BchEncode(BchProfile[profile], data)]]

\* Mutant: of the codewords at the same distance one is taken.
BchDecodeAnyNearest(profile, word) ==
  LET codewords == BchCodewords[profile]
      best      == Min({Distance(codewords[d], word) : d \in DOMAIN codewords})
      nearest   == {d \in DOMAIN codewords : Distance(codewords[d], word) = best}
  IN Decoded(CHOOSE d \in nearest : TRUE, best)

\* The nearest of all codewords; a tie is refused.
BchDecode(profile, word) ==
  LET codewords == BchCodewords[profile]
      best      == Min({Distance(codewords[d], word) : d \in DOMAIN codewords})
      nearest   == {d \in DOMAIN codewords : Distance(codewords[d], word) = best}
  IN IF Cardinality(nearest) > 1 THEN Undecodable
     ELSE Decoded(CHOOSE d \in nearest : TRUE, best)

-----------------------------------------------------------------------------
(* Golay.  Data and parity are twelve bits each; row i goes with bit 11 - i.*)

GolayRows == <<2047, 3810, 3525, 2955, 3862, 3629, 3163, 2231, 2415, 2782, 3517, 2939>>
GolayRow  == [i \in 0 .. 11 |-> Bits(GolayRows[i + 1])]

TimesB(m) == {p \in 0 .. 11 : Cardinality({i \in 0 .. 11 : 11 - i \in m /\ p \in GolayRow[i]}) % 2 = 1}

GolayEncodeWord(m) == {p + 12 : p \in m} \cup TimesB(m)

\* The first row that is within two of v, or 12.
NearRow(v) == Min({i \in 0 .. 11 : Distance(v, GolayRow[i]) <= 2} \cup {12})

GolayDecodeWord(word) ==
  LET data   == {p - 12 : p \in word \cap 12 .. 23}
      s      == SymDiff(word \cap 0 .. 11, TimesB(data))
      sB     == TimesB(s)
      row    == NearRow(s)
      rowB   == NearRow(sB)
      weight == Cardinality(s)
  IN IF weight <= 3 THEN Decoded(data, weight)
     ELSE IF row < 12 THEN Decoded(SymDiff(data, {11 - row}), 1 + Distance(s, GolayRow[row]))
     ELSE IF Cardinality(sB) <= 3 THEN Decoded(SymDiff(data, sB), Cardinality(sB))
     ELSE IF rowB < 12 THEN LET diff == SymDiff(sB, GolayRow[rowB]) IN Decoded(SymDiff(data, diff), 1 + Cardinality(diff))
     ELSE Undecodable

-----------------------------------------------------------------------------
(* Hadamard, of 2^m bits: a row of Sylvester's matrix, or its complement.   *)

HadamardEncodeWord(data, m) ==
  {i \in 0 .. 2^m - 1 :
     LET dot == Cardinality({b \in data \cap 0 .. m - 1 : (i \div 2^b) % 2 = 1}) % 2
     IN (dot = 1) # (m \in data)}

\* The fast transform, in m rounds of butterflies.
Transform(word, m) ==
  LET Round(a, t) == [i \in 0 .. 2^m - 1 |->
                        IF (i \div 2^t) % 2 = 0 THEN a[i] + a[i + 2^t] ELSE a[i - 2^t] - a[i]]
  IN FoldLeft(Round, [i \in 0 .. 2^m - 1 |-> IF i \in word THEN -1 ELSE 1], Upward(0, m - 1))

\* The first row with the strongest correlation, whatever its sign.
HadamardDecodeWord(word, m) ==
  LET a == Transform(word, m)
      Strength(i) == IF a[i] < 0 THEN -a[i] ELSE a[i]
      most == Max({Strength(i) : i \in DOMAIN a})
      best == Min({i \in DOMAIN a : Strength(i) = most})
  IN (IF a[best] < 0 THEN {m} ELSE {}) \cup Bits(best)

-----------------------------------------------------------------------------
(* Bytes packed into words of k bits, the last filled with zeros, and       *)
(* unpacked again as whole bytes, cut to the length the message had.        *)

Packed(bits, k) ==
  [i \in 1 .. (Len(bits) + k - 1) \div k |->
     {p \in 0 .. k - 1 : LET at == i * k - p IN at <= Len(bits) /\ bits[at] = 1}]

Unpacked(words, k, length) ==
  LET total == k * Len(words)
      bytes == (total \div 8) * 8
  IN [at \in 1 .. (IF bytes > length THEN length ELSE bytes) |->
        IF k - 1 - ((at - 1) % k) \in words[((at - 1) \div k) + 1] THEN 1 ELSE 0]
=============================================================================
