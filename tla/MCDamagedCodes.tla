---------------------------- MODULE MCDamagedCodes ----------------------------
(***************************************************************************)
(* The two codes that repair or notice less than they say: Golay words     *)
(* with up to three wrong bits, and a phrase with one word changed.        *)
(***************************************************************************)
EXTENDS MCToolStream

GolayTriples == GolayJobs(Upto3(24))

\* One word of a phrase changed by one bit.
PhraseJobs ==
  LET phrase == Slip39Generate(<<1, 2, 3, 4, 5>>, 3, 2, Random(5), 4919)[2]
      c == [engine |-> "code", code |-> "phrase", length |-> 5]
  IN {[config |-> c, harm |-> {i} \ {0}, data |-> IF i = 0 THEN phrase ELSE [phrase EXCEPT ![i] = BitXor(@, 2^b)]] :
        i \in 0 .. Len(phrase), b \in 0 .. 9}
=============================================================================
