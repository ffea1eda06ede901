---------------------------- MODULE CheckDigits ----------------------------
(***************************************************************************)
(* The check digits: what each scheme appends to a number, and which       *)
(* numbers it accepts.  A character is a number: 0 .. 9 a digit, 10 .. 35  *)
(* a letter; separators are gone already.  The X of an ISBN-10 is 10.      *)
(***************************************************************************)
EXTENDS Integers, Sequences
LOCAL INSTANCE SequencesExt

Digits == 0 .. 9
IsDigits(s) == \A i \in DOMAIN s : s[i] \in Digits

LOCAL Total(s) == FoldSeq(LAMBDA x, y : x + y, 0, s)
LOCAL Butlast(s) == SubSeq(s, 1, Len(s) - 1)

\* What brings a sum to a multiple of ten.
ToTen(sum) == (10 - (sum % 10)) % 10

-----------------------------------------------------------------------------
(* Verhoeff: products in the dihedral group of order ten, each digit first  *)
(* permuted by its place.                                                   *)

VerhoeffD == <<<<0, 1, 2, 3, 4, 5, 6, 7, 8, 9>>, <<1, 2, 3, 4, 0, 6, 7, 8, 9, 5>>,
               <<2, 3, 4, 0, 1, 7, 8, 9, 5, 6>>, <<3, 4, 0, 1, 2, 8, 9, 5, 6, 7>>,
               <<4, 0, 1, 2, 3, 9, 5, 6, 7, 8>>, <<5, 9, 8, 7, 6, 0, 4, 3, 2, 1>>,
               <<6, 5, 9, 8, 7, 1, 0, 4, 3, 2>>, <<7, 6, 5, 9, 8, 2, 1, 0, 4, 3>>,
               <<8, 7, 6, 5, 9, 3, 2, 1, 0, 4>>, <<9, 8, 7, 6, 5, 4, 3, 2, 1, 0>>>>

VerhoeffP == <<<<0, 1, 2, 3, 4, 5, 6, 7, 8, 9>>, <<1, 5, 7, 6, 2, 8, 3, 0, 9, 4>>,
               <<5, 8, 0, 3, 7, 9, 6, 1, 4, 2>>, <<8, 9, 1, 6, 0, 4, 3, 5, 2, 7>>,
               <<9, 4, 5, 3, 1, 2, 6, 8, 7, 0>>, <<4, 2, 8, 6, 5, 7, 3, 9, 0, 1>>,
               <<2, 7, 9, 3, 8, 0, 6, 4, 1, 5>>, <<7, 0, 4, 6, 9, 1, 3, 2, 5, 8>>>>

VerhoeffInv == <<0, 4, 3, 2, 1, 5, 6, 7, 8, 9>>

\* The product of the digits from the right, the first at place first.
Verhoeff(s, first) ==
  LET c[i \in 0 .. Len(s)] ==
        IF i = 0 THEN 0
        ELSE VerhoeffD[c[i - 1] + 1][VerhoeffP[((i - 1 + first) % 8) + 1][s[Len(s) - i + 1] + 1] + 1]
  IN c[Len(s)]

VerhoeffCompute(s)  == VerhoeffInv[Verhoeff(s, 1) + 1]
VerhoeffValidate(s) == Len(s) >= 2 /\ Verhoeff(s, 0) = 0

-----------------------------------------------------------------------------
(* Damm: a quasigroup. *)

DammTable == <<<<0, 3, 1, 7, 5, 9, 8, 6, 4, 2>>, <<7, 0, 9, 2, 1, 5, 4, 8, 6, 3>>,
               <<4, 2, 0, 6, 8, 7, 1, 3, 5, 9>>, <<1, 7, 5, 0, 9, 8, 3, 4, 2, 6>>,
               <<6, 1, 2, 3, 0, 4, 5, 9, 7, 8>>, <<3, 6, 7, 4, 2, 0, 9, 5, 8, 1>>,
               <<5, 8, 6, 9, 7, 2, 0, 1, 3, 4>>, <<8, 9, 4, 5, 3, 6, 2, 0, 1, 7>>,
               <<9, 4, 3, 8, 6, 1, 7, 2, 0, 5>>, <<2, 5, 8, 1, 4, 3, 6, 7, 9, 0>>>>

DammCompute(s)  == FoldLeft(LAMBDA c, d : DammTable[c + 1][d + 1], 0, s)
DammValidate(s) == Len(s) >= 2 /\ DammCompute(s) = 0

-----------------------------------------------------------------------------
(* Sums with weights. *)

\* A doubled digit counts its own digits.
Doubled(d) == IF 2 * d > 9 THEN 2 * d - 9 ELSE 2 * d

\* Every second digit from the right doubled, beginning at place first.
LuhnSum(s, first) ==
  Total([i \in 1 .. Len(s) |-> IF (Len(s) - i) % 2 = first THEN Doubled(s[i]) ELSE s[i]])

LuhnCompute(s)  == ToTen(LuhnSum(s, 0))
LuhnValidate(s) == Len(s) >= 2 /\ LuhnSum(s, 1) % 10 = 0

Isbn10Sum(s) == Total([i \in DOMAIN s |-> s[i] * (11 - i)])
Isbn10Compute(s)  == (11 - (Isbn10Sum(s) % 11)) % 11
Isbn10Validate(s) == Len(s) = 10 /\ IsDigits(Butlast(s)) /\ Isbn10Sum(s) % 11 = 0

Isbn13Sum(s) == Total([i \in DOMAIN s |-> s[i] * (IF i % 2 = 1 THEN 1 ELSE 3)])
Isbn13Compute(s)  == ToTen(Isbn13Sum(s))
Isbn13Validate(s) == Len(s) = 13 /\ Isbn13Sum(s) % 10 = 0

\* Books: the old number in the new one, and back where there is an old one.
Isbn10To13(s) == LET core == <<9, 7, 8>> \o SubSeq(s, 1, 9) IN Append(core, Isbn13Compute(core))
HasIsbn10(s)  == SubSeq(s, 1, 3) = <<9, 7, 8>>
Isbn13To10(s) == LET core == SubSeq(s, 4, 12) IN Append(core, Isbn10Compute(core))

AbaWeights == <<3, 7, 1, 3, 7, 1, 3, 7>>
AbaCompute(s)  == ToTen(Total([i \in 1 .. 8 |-> s[i] * AbaWeights[i]]))
AbaValidate(s) == Len(s) = 9 /\ s[9] = AbaCompute(s)

SedolWeights == <<1, 3, 1, 7, 3, 9>>
SedolCompute(s)  == ToTen(Total([i \in 1 .. 6 |-> s[i] * SedolWeights[i]]))
SedolValidate(s) == Len(s) = 7 /\ s[7] = SedolCompute(Butlast(s))

\* A letter of a CUSIP counts from one.
CusipValue(ch) == IF ch \in Digits THEN ch ELSE ch - 9
CusipCompute(s) ==
  ToTen(Total([i \in 1 .. Len(s) |->
          LET v == CusipValue(s[i]) * (IF i % 2 = 0 THEN 2 ELSE 1) IN (v \div 10) + (v % 10)]))
CusipValidate(s) == Len(s) = 9 /\ s[9] = CusipCompute(Butlast(s))

\* Letters as two digits each.
Expanded(s) == FlattenSeq([i \in DOMAIN s |-> IF s[i] \in Digits THEN <<s[i]>> ELSE <<s[i] \div 10, s[i] % 10>>])

IsinCompute(s)  == LuhnCompute(Expanded(s))
IsinValidate(s) == Len(s) = 12 /\ s[12] = IsinCompute(Butlast(s))

-----------------------------------------------------------------------------
(* IBAN: the number read with its country and check digits last is one      *)
(* modulo 97.  The remainder is carried through the digits seven at a time. *)

Mod97(digits) ==
  LET groups == (Len(digits) + 6) \div 7
      after[g \in 0 .. groups] ==
        IF g = 0 THEN 0
        ELSE FoldLeft(LAMBDA n, d : 10 * n + d, after[g - 1],
                      SubSeq(digits, 7 * (g - 1) + 1, IF g = groups THEN Len(digits) ELSE 7 * g)) % 97
  IN after[groups]

IbanCompute(country, bban) == 98 - Mod97(Expanded(bban \o country \o <<0, 0>>))
IbanGenerate(country, bban) ==
  LET check == IbanCompute(country, bban) IN country \o <<check \div 10, check % 10>> \o bban
IbanValidate(s, length) ==
  /\ Len(s) >= 5 /\ Len(s) = length
  /\ Mod97(Expanded(SubSeq(s, 5, Len(s)) \o SubSeq(s, 1, 4))) = 1
=============================================================================
