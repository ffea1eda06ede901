---------------------------- MODULE ParityCodes ----------------------------
(***************************************************************************)
(* Parity: one bit of it, the UART frame it travels in, and the Hamming    *)
(* codes, where several overlapping bits name the position that is wrong.  *)
(*                                                                         *)
(* A number is the set of its bits that are one, counted from 0 at the low *)
(* end; a Hamming codeword the set of its positions that are one, counted  *)
(* from 1 at the high end, as the code's comments number them.             *)
(***************************************************************************)
EXTENDS Integers, Sequences, FiniteSets
LOCAL INSTANCE SequencesExt
LOCAL INSTANCE FiniteSetsExt

Odd(set)  == Cardinality(set) % 2
HasBit(n, p) == (n \div 2^p) % 2 = 1
LOCAL Flip(bit) == 1 - bit

-----------------------------------------------------------------------------
(* The parity bit. *)

ByteParity(value) == Odd(value \cap 0 .. 7)

ParityBit(value, mode, dataBits) ==
  CASE mode = "mark"  -> 1
    [] mode = "space" -> 0
    [] mode = "even"  -> ByteParity(value \cap 0 .. dataBits - 1)
    [] mode = "odd"   -> Flip(ByteParity(value \cap 0 .. dataBits - 1))

-----------------------------------------------------------------------------
(* The UART frame.  A configuration has dataBits, parity, halfStops (the    *)
(* stop bits, in halves), lsbFirst and inverted.                            *)

BitIndex(c, i) == IF c.lsbFirst THEN i - 1 ELSE c.dataBits - i

\* What is on a line that inverts, or does not.
Levels(c, bits) == IF c.inverted THEN [i \in DOMAIN bits |-> Flip(bits[i])] ELSE bits

UartFrame(value, c) ==
  Levels(c, <<0>> \o [i \in 1 .. c.dataBits |-> IF BitIndex(c, i) \in value THEN 1 ELSE 0]
            \o (IF c.parity = "none" THEN <<>> ELSE <<ParityBit(value, c.parity, c.dataBits)>>)
            \o (IF c.halfStops = 4 THEN <<1, 1>> ELSE <<1>>))

\* The bits a frame takes up when it is read: half a stop bit counts as one.
UartSpan(c) == 1 + c.dataBits + (IF c.parity = "none" THEN 0 ELSE 1) + ((c.halfStops + 1) \div 2)

\* The frame whose start bit is at offset at.
UartRead(bits, at, c) ==
  LET value  == {BitIndex(c, i) : i \in {j \in 1 .. c.dataBits : bits[at + 1 + j] = 1}}
      cursor == at + 2 + c.dataBits
      stop   == IF c.parity = "none" THEN cursor ELSE cursor + 1
  IN [value        |-> value,
      offset       |-> at,
      parityError  |-> c.parity # "none" /\ bits[cursor] # ParityBit(value, c.parity, c.dataBits),
      framingError |-> bits[stop] # 1]

\* Idle bits are skipped; a frame that is not all there is left over.
UartDecode(stream, c) ==
  LET bits == Levels(c, stream)
      from[at \in 0 .. Len(bits)] ==
        IF at = Len(bits) THEN [frames |-> <<>>, trailing |-> 0]
        ELSE IF bits[at + 1] # 0 THEN from[at + 1]
        ELSE IF at + UartSpan(c) > Len(bits) THEN [frames |-> <<>>, trailing |-> Len(bits) - at]
        ELSE LET rest == from[at + UartSpan(c)]
             IN [rest EXCEPT !.frames = <<UartRead(bits, at, c)>> \o @]
  IN from[0]

-----------------------------------------------------------------------------
(* Hamming codes.  Data is a sequence of bits, most significant first.      *)

HammingParityBits(dataBits) == IF dataBits = 4 THEN 3 ELSE 4
HammingCodeBits(dataBits)   == IF dataBits = 4 THEN 7 ELSE 15

IsParityPosition(p) == \E k \in 0 .. 3 : p = 2^k

\* The positions data goes to, in order.
DataPositions(dataBits) ==
  SelectSeq([p \in 1 .. HammingCodeBits(dataBits) |-> p], LAMBDA p : ~IsParityPosition(p))

\* The parity bits p that fail over a word: 2^p covers the positions with bit p.
FailingParities(word, dataBits) ==
  {p \in 0 .. HammingParityBits(dataBits) - 1 : Odd({q \in word : HasBit(q, p)}) = 1}

Extract(word, dataBits) ==
  [i \in 1 .. dataBits |-> IF DataPositions(dataBits)[i] \in word THEN 1 ELSE 0]

HammingEncode(dataBits, data, extended) ==
  LET placed == {DataPositions(dataBits)[i] : i \in {j \in 1 .. dataBits : data[j] = 1}}
      code   == placed \cup {2^p : p \in FailingParities(placed, dataBits)}
  IN IF extended /\ Odd(code) = 1 THEN code \cup {HammingCodeBits(dataBits) + 1} ELSE code

\* The syndrome is the position.  With the overall bit agreeing it is that of
\* an even number of errors; with it alone failing, the overall bit is wrong.
HammingDecode(dataBits, word, extended) ==
  LET codeBits == HammingCodeBits(dataBits)
      inner    == word \cap 1 .. codeBits
      syndrome == MapThenSumSet(LAMBDA p : 2^p, FailingParities(inner, dataBits))
      fails    == extended /\ Odd(inner) # Odd(word \cap {codeBits + 1})
      at       == IF syndrome = 0 THEN {} ELSE {syndrome}
      fixed    == (inner \ at) \cup (at \ inner)
  IN IF extended /\ syndrome # 0 /\ ~fails
     THEN [value |-> Extract(inner, dataBits), corrected |-> 0, doubleError |-> TRUE]
     ELSE [value |-> Extract(fixed, dataBits), doubleError |-> FALSE,
           corrected |-> IF syndrome = 0 /\ fails THEN codeBits + 1 ELSE syndrome]

\* The (7, 4) code as it is written out longhand.
Hamming74Encode(d) ==
  LET x(bits) == Odd({i \in bits : d[i] = 1}) = 1
      word    == <<x({1, 2, 4}), x({1, 3, 4}), d[1] = 1, x({2, 3, 4}), d[2] = 1, d[3] = 1, d[4] = 1>>
  IN {p \in 1 .. 7 : word[p]}

Hamming84Encode(d) == LET seven == Hamming74Encode(d) IN IF Odd(seven) = 1 THEN seven \cup {8} ELSE seven

Hamming74Decode(word) ==
  LET s(cover) == Odd(word \cap cover)
      position == s({1, 3, 5, 7}) + 2 * s({2, 3, 6, 7}) + 4 * s({4, 5, 6, 7})
      at       == IF position = 0 THEN {} ELSE {position}
      fixed    == (word \ at) \cup (at \ word)
  IN [value |-> [i \in 1 .. 4 |-> IF <<3, 5, 6, 7>>[i] \in fixed THEN 1 ELSE 0],
      corrected |-> position, doubleError |-> FALSE]

Hamming84Decode(word) ==
  LET inner == Hamming74Decode(word \cap 1 .. 7)
      fails == Odd(word \cap 1 .. 7) # Odd(word \cap {8})
  IN CASE inner.corrected # 0 /\ ~fails -> [inner EXCEPT !.corrected = 0, !.doubleError = TRUE]
       [] inner.corrected = 0 /\ fails  -> [inner EXCEPT !.corrected = 8]
       [] OTHER -> inner
=============================================================================
