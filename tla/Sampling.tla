------------------------------- MODULE Sampling -------------------------------
(***************************************************************************)
(* Random choices made from random bytes (codec/random.ts), of bytes of a  *)
(* few bits.  The bytes are a tape that a choice is made from and the rest *)
(* of it returned; a choice for which the tape is too short is not made.   *)
(***************************************************************************)
EXTENDS Integers, FiniteSets, SequencesExt

Drawn(v, rest) == [made |-> TRUE, value |-> v, rest |-> rest]
Unmade         == [made |-> FALSE, value |-> 0, rest |-> <<>>]

Ceiling(a, b) == (a + b - 1) \div b

\* The digits of the bound in base two, and with them the bytes of one draw.
Width(bound) == CHOOSE w \in 1 .. 20 : 2^(w - 1) <= bound /\ bound < 2^w
ByteCount(bits, bound) == Ceiling(Width(bound), bits)

\* Mutant: values above the last multiple of the bound are folded in.
LimitOfSpan(span, bound) == span
\* What is drawn from here on is drawn again.
Limit(span, bound) == span - (span % bound)

Redrawn(bits, bound, tape) ==
  LET count == ByteCount(bits, bound)
      redrawn[t \in Seq(0 .. 2^bits - 1)] ==
        LET value == FoldLeft(LAMBDA v, byte : v * 2^bits + byte, 0, SubSeq(t, 1, count))
            rest  == SubSeq(t, count + 1, Len(t))
        IN IF Len(t) < count THEN Unmade
           ELSE IF value < Limit(2^(bits * count), bound) THEN Drawn(value % bound, rest)
           ELSE redrawn[rest]
  IN redrawn[tape]

RandomBelow(bits, bound, tape) == IF bound = 1 THEN Drawn(0, tape) ELSE Redrawn(bits, bound, tape)

RandomInt(bits, min, max, tape) ==
  LET r == RandomBelow(bits, max - min + 1, tape) IN [r EXCEPT !.value = min + @]

Exchanged(s, i, j) == [s EXCEPT ![i] = s[j], ![j] = s[i]]

\* A draw below a bound that follows others, and what is done with it.
Then(bits, r, bound, Do(_, _)) ==
  LET d == RandomBelow(bits, bound, r.rest)
  IN IF ~r.made \/ ~d.made THEN Unmade ELSE Drawn(Do(r.value, d.value), d.rest)

\* Fisher-Yates, from the last place down.
Shuffled(bits, items, tape) ==
  FoldLeft(LAMBDA r, i : Then(bits, r, i, LAMBDA s, j : Exchanged(s, i, j + 1)),
           Drawn(items, tape), [k \in 1 .. Len(items) - 1 |-> Len(items) + 1 - k])

\* The first places of a shuffle of the whole range.
FromPool(bits, min, span, count, tape) ==
  LET pool == [i \in 1 .. span |-> min + i - 1]
      r == FoldLeft(LAMBDA q, i : Then(bits, q, span - i + 1, LAMBDA s, j : Exchanged(s, i, i + j)),
                    Drawn(pool, tape), [i \in 1 .. count |-> i])
  IN IF r.made THEN Drawn(SubSeq(r.value, 1, count), r.rest) ELSE Unmade

WithoutRepeats(bits, min, max, count, tape) ==
  LET chosen[out \in Seq(min .. max), t \in Seq(0 .. 2^bits - 1)] ==
        LET d == RandomInt(bits, min, max, t)
        IN IF Len(out) = count THEN Drawn(out, t)
           ELSE IF ~d.made THEN Unmade
           ELSE chosen[IF Contains(out, d.value) THEN out ELSE Append(out, d.value), d.rest]
  IN chosen[<<>>, tape]

RandomIntSample(bits, min, max, count, tape) ==
  LET span == max - min + 1
  IN IF span <= count * 4 THEN FromPool(bits, min, span, count, tape)
     ELSE WithoutRepeats(bits, min, max, count, tape)

\* How often each choice is made, over every tape there is.
Tally(c) ==
  LET Choice(tape) == CASE c.choice = "int"     -> RandomInt(c.bits, c.min, c.max, tape)
                        [] c.choice = "shuffle" -> Shuffled(c.bits, [i \in 1 .. c.count |-> i], tape)
                        [] c.choice = "sample"  -> RandomIntSample(c.bits, c.min, c.max, c.count, tape)
      tapes  == [1 .. c.tape -> 0 .. 2^c.bits - 1]
      choice == [tape \in tapes |-> Choice(tape)]
      made   == {tape \in tapes : choice[tape].made}
  IN [tapes  |-> 2^(c.bits * c.tape),
      counts |-> [v \in {choice[tape].value : tape \in made} |-> Cardinality({tape \in made : choice[tape].value = v})]]
=============================================================================
