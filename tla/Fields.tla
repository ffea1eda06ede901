------------------------------- MODULE Fields -------------------------------
(***************************************************************************)
(* Arithmetic in the fields of 256 elements, by tables of powers and       *)
(* logarithms as the code does it, and the exclusive or of numbers.        *)
(***************************************************************************)
EXTENDS Integers, Sequences
LOCAL INSTANCE SequencesExt

LOCAL Nibbles == 0 .. 15
XorNibble ==
  [a \in Nibbles |-> [b \in Nibbles |->
     FoldSeq(LAMBDA p, sum : sum + (IF (a \div 2^p) % 2 = (b \div 2^p) % 2 THEN 0 ELSE 2^p), 0, <<0, 1, 2, 3>>)]]

\* The exclusive or of numbers of up to twelve bits.
BitXor(a, b) == 256 * XorNibble[a \div 256][b \div 256]
                + 16 * XorNibble[(a \div 16) % 16][(b \div 16) % 16]
                + XorNibble[a % 16][b % 16]

LOCAL Counting(n) == [i \in 1 .. n |-> i]
XorAll(s) == FoldLeft(BitXor, 0, s)

Reduced(y, primitive) == IF y >= 256 THEN BitXor(y, primitive) ELSE y

\* A field: the powers of its generator, and the logarithms.
FieldOf(base, powers) ==
  [base |-> base, exp |-> powers,
   log |-> [a \in 1 .. 255 |-> (CHOOSE i \in 1 .. 255 : powers[i] = a) - 1]]

\* x is doubled, or trebled, and reduced by the primitive polynomial.
MakeField(primitive, generator, base) ==
  LET Times(x) == IF generator = 2 THEN 2 * x ELSE BitXor(x, 2 * x)
  IN FieldOf(base, FoldLeft(LAMBDA s, i : Append(s, Reduced(Times(s[i]), primitive)), <<1>>, Counting(254)))

\* The field of AES, of QR codes and of Data Matrix.
AesField        == MakeField(283, 3, 0)
QrField         == MakeField(285, 2, 0)
DataMatrixField == MakeField(301, 2, 1)

Power(f, i)  == f.exp[(i % 255) + 1]
Mul(f, a, b) == IF a = 0 \/ b = 0 THEN 0 ELSE Power(f, f.log[a] + f.log[b])
Inv(f, a)    == Power(f, 255 - f.log[a])
Div(f, a, b) == IF a = 0 THEN 0 ELSE Power(f, f.log[a] - f.log[b] + 255)
Pow(f, a, n) == IF a = 0 THEN 0 ELSE Power(f, f.log[a] * n)

\* The value at x of a polynomial with its highest coefficient first, or last.
Horner(f, poly, x)   == FoldLeft(LAMBDA y, c : BitXor(Mul(f, y, x), c), 0, poly)
Evaluate(f, poly, x) == FoldRight(LAMBDA c, y : BitXor(Mul(f, y, x), c), poly, 0)
=============================================================================
