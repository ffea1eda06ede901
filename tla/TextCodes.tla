------------------------------ MODULE TextCodes ------------------------------
(***************************************************************************)
(* The encodings that make text of bytes.  A character is its index in the *)
(* encoding's alphabet; spaces and line ends the readers skip are left out. *)
(***************************************************************************)
EXTENDS Integers, Sequences
LOCAL INSTANCE SequencesExt
LOCAL INSTANCE Fields

LOCAL Upto(n) == [i \in 1 .. n |-> i]
LOCAL Lesser(a, b) == IF a < b THEN a ELSE b
LOCAL Pieces(s, n) == [k \in 1 .. (Len(s) + n - 1) \div n |-> SubSeq(s, n * (k - 1) + 1, Lesser(n * k, Len(s)))]
LOCAL Filled(s, n, with) == s \o [i \in 1 .. n - Len(s) |-> with]
Some(s) == [ok |-> TRUE, value |-> s]
None    == [ok |-> FALSE, value |-> <<>>]

-----------------------------------------------------------------------------
(* Numbers too large for one word, as their digits, the highest first.      *)

LOCAL DivMod(digits, from, to) ==
  FoldLeft(LAMBDA run, d : [quotient |-> Append(run.quotient, (run.rest * from + d) \div to), rest |-> (run.rest * from + d) % to],
           [quotient |-> <<>>, rest |-> 0], digits)

\* The lowest n digits of the number in another base.
Rebased(digits, from, to, n) ==
  FoldLeft(LAMBDA run, i : LET step == DivMod(run.number, from, to)
                           IN [number |-> step.quotient, out |-> <<step.rest>> \o run.out],
           [number |-> digits, out |-> <<>>], Upto(n)).out

LOCAL Zeros(s) == LET first == {i \in DOMAIN s : s[i] # 0}
                  IN IF first = {} THEN Len(s) ELSE (CHOOSE i \in first : \A k \in first : i <= k) - 1
LOCAL Trimmed(s) == SubSeq(s, Zeros(s) + 1, Len(s))

\* Base 36, 58 and 62: the bytes are one number, but each zero byte they begin
\* with is a zero digit.
EncodeBase(base, data) == [i \in 1 .. Zeros(data) |-> 0] \o Trimmed(Rebased(data, 256, base, 2 * Len(data)))
DecodeBase(base, text) == [i \in 1 .. Zeros(text) |-> 0] \o Trimmed(Rebased(text, base, 256, Len(text)))

\* Base58Check puts a version before the bytes and a checksum after them, and
\* takes the first byte off whatever it reads.
DoubleSha256(data) ==
  LET Mix(i) == FoldLeft(LAMBDA sum, b : (sum * (2 * i + 3) + b + i) % 256, 7 * i, data) IN [i \in 1 .. 4 |-> Mix(i)]
EncodeBase58Check(version, payload) ==
  LET data == version \o payload IN EncodeBase(58, data \o DoubleSha256(data))
DecodeBase58Check(text) ==
  LET full == DecodeBase(58, text)
      data == SubSeq(full, 1, Len(full) - 4)
  IN IF Len(full) < 4 \/ SubSeq(full, Len(full) - 3, Len(full)) # DoubleSha256(data) THEN None
     ELSE Some(IF Len(data) > 1 THEN Tail(data) ELSE data)

\* Base85: four bytes are five digits, fewer bytes one digit more than they
\* are.  Ascii85 has a sign (85) of its own for four zeros; Z85 takes whole
\* words only.
Base85Encode(variant, data) ==
  LET Word(chunk) ==
        IF variant = "ascii85" /\ chunk = <<0, 0, 0, 0>> THEN <<85>>
        ELSE SubSeq(Rebased(Filled(chunk, 4, 0), 256, 85, 5), 1, Len(chunk) + 1)
  IN IF variant = "z85" /\ Len(data) % 4 # 0 THEN None
     ELSE Some(FlattenSeq([k \in DOMAIN Pieces(data, 4) |-> Word(Pieces(data, 4)[k])]))

Base85Decode(variant, text) ==
  LET Word(chunk) == SubSeq(Rebased(Filled(chunk, 5, 84), 85, 256, 4), 1, Len(chunk) - 1)
      Take(run, ch) ==
        CASE ch = 85 /\ variant = "ascii85" /\ run.held = <<>> -> [run EXCEPT !.out = @ \o <<0, 0, 0, 0>>]
          [] ch = 85 /\ ~(variant = "ascii85" /\ run.held = <<>>) -> [run EXCEPT !.ok = FALSE]
          [] ch < 85 /\ Len(run.held) = 4 -> [run EXCEPT !.out = @ \o Word(Append(run.held, ch)), !.held = <<>>]
          [] OTHER -> [run EXCEPT !.held = Append(@, ch)]
      end == FoldLeft(Take, [ok |-> TRUE, held |-> <<>>, out |-> <<>>], text)
  IN IF ~end.ok \/ (variant = "z85" /\ Len(text) % 5 # 0) THEN None
     ELSE Some(IF end.held = <<>> THEN end.out ELSE end.out \o Word(end.held))

\* Base91: thirteen bits at a time, or fourteen when the thirteen are few.
Base91Encode(data) ==
  LET Take(run, b) ==
        LET queue == run.queue + b * 2^run.bits
            bits  == run.bits + 8
            n     == IF queue % 8192 > 88 THEN 13 ELSE 14
            val   == queue % 2^n
        IN IF bits <= 13 THEN [run EXCEPT !.queue = queue, !.bits = bits]
           ELSE [queue |-> queue \div 2^n, bits |-> bits - n, out |-> run.out \o <<val % 91, val \div 91>>]
      end == FoldLeft(Take, [queue |-> 0, bits |-> 0, out |-> <<>>], data)
  IN CASE end.bits = 0 -> end.out
       [] end.bits > 7 \/ end.queue > 90 -> end.out \o <<end.queue % 91, end.queue \div 91>>
       [] OTHER -> Append(end.out, end.queue % 91)

Base91Decode(text) ==
  LET Take(run, c) ==
        LET val   == run.held[1] + 91 * c
            queue == run.queue + val * 2^run.bits
            bits  == run.bits + (IF val % 8192 > 88 THEN 13 ELSE 14)
            whole == bits \div 8
        IN IF run.held = <<>> THEN [run EXCEPT !.held = <<c>>]
           ELSE [held |-> <<>>, queue |-> queue \div 256^whole, bits |-> bits % 8,
                 out  |-> run.out \o [i \in 1 .. whole |-> (queue \div 256^(i - 1)) % 256]]
      end == FoldLeft(Take, [held |-> <<>>, queue |-> 0, bits |-> 0, out |-> <<>>], text)
  IN IF end.held = <<>> THEN end.out ELSE Append(end.out, (end.queue + end.held[1] * 2^end.bits) % 256)

\* Base45: two bytes are three digits, the lowest first, one byte is two.
Base45Encode(data) ==
  LET Digits(pair) == IF Len(pair) = 2 THEN Reverse(Rebased(pair, 256, 45, 3)) ELSE Reverse(Rebased(pair, 256, 45, 2))
  IN FlattenSeq([k \in DOMAIN Pieces(data, 2) |-> Digits(Pieces(data, 2)[k])])

Base45Decode(text) ==
  LET chunks == Pieces(text, 3)
      Value(chunk) == FoldRight(LAMBDA c, sum : 45 * sum + c, chunk, 0)
      Bad(chunk) == Len(chunk) = 1 \/ Value(chunk) >= 256^(Len(chunk) - 1)
  IN IF \E k \in DOMAIN chunks : Bad(chunks[k]) THEN None
     ELSE Some(FlattenSeq([k \in DOMAIN chunks |-> Rebased(Reverse(chunks[k]), 45, 256, Len(chunks[k]) - 1)]))

-----------------------------------------------------------------------------
(* Bits regrouped: SMS septets, BinHex and uuencode sextets.                *)

\* The lowest bit first, or the highest.
LOCAL LowBits(s, width) == FlattenSeq([i \in DOMAIN s |-> [b \in 1 .. width |-> (s[i] \div 2^(b - 1)) % 2]])
LOCAL HighBits(s, width) == FlattenSeq([i \in DOMAIN s |-> [b \in 1 .. width |-> (s[i] \div 2^(width - b)) % 2]])
LOCAL LowValue(bits) == FoldRight(LAMBDA b, sum : 2 * sum + b, bits, 0)
LOCAL HighValue(bits) == FoldLeft(LAMBDA sum, b : 2 * sum + b, 0, bits)
LOCAL Regrouped(bits, width, Value(_)) == LET groups == Pieces(bits, width) IN [k \in DOMAIN groups |-> Value(groups[k])]

\* A character of the extension table, 128 + its code, takes two septets.
GsmEscape == 27
GsmExtension == {10, 20, 40, 41, 47, 60, 61, 62, 64, 101}
GsmUnknown == 63
GsmSeptets(text) == FlattenSeq([i \in DOMAIN text |-> IF text[i] >= 128 THEN <<GsmEscape, text[i] - 128>> ELSE <<text[i]>>])
Gsm0338Pack(text) == Regrouped(LowBits(GsmSeptets(text), 7), 8, LowValue)
Gsm0338Unpack(octets) ==
  LET septets == Regrouped(SubSeq(LowBits(octets, 8), 1, 7 * ((8 * Len(octets)) \div 7)), 7, LowValue)
      Take(run, s) ==
        CASE run.escaped -> [escaped |-> FALSE, out |-> Append(run.out, IF s \in GsmExtension THEN 128 + s ELSE GsmUnknown)]
          [] ~run.escaped /\ s = GsmEscape -> [run EXCEPT !.escaped = TRUE]
          [] OTHER -> [run EXCEPT !.out = Append(@, s)]
      end == FoldLeft(Take, [escaped |-> FALSE, out |-> <<>>], septets)
  IN IF end.escaped THEN Append(end.out, GsmEscape) ELSE end.out

\* Runs of one byte are written as the byte, a mark and their length, and the
\* mark itself with a zero after it.
RleMark == 144
RunLimit == 255
RleCompress(data) ==
  LET Written(b, n) == CASE b = RleMark -> FlattenSeq([i \in 1 .. n |-> <<RleMark, 0>>])
                         [] b # RleMark /\ n >= 3 -> <<b, RleMark, n>>
                         [] OTHER -> [i \in 1 .. n |-> b]
      Take(run, b) == IF run.n > 0 /\ run.n < RunLimit /\ b = run.byte THEN [run EXCEPT !.n = @ + 1]
                      ELSE [byte |-> b, n |-> 1, out |-> run.out \o Written(run.byte, run.n)]
      end == FoldLeft(Take, [byte |-> 0, n |-> 0, out |-> <<>>], data)
  IN end.out \o Written(end.byte, end.n)

RleDecompress(data) ==
  LET Take(run, b) ==
        CASE run.marked /\ b = 0 -> [marked |-> FALSE, out |-> Append(run.out, RleMark)]
          [] run.marked /\ b # 0 ->
               [marked |-> FALSE, out |-> run.out \o [i \in 1 .. b - 1 |-> IF run.out = <<>> THEN 0 ELSE run.out[Len(run.out)]]]
          [] ~run.marked /\ b = RleMark -> [run EXCEPT !.marked = TRUE]
          [] OTHER -> [run EXCEPT !.out = Append(@, b)]
      end == FoldLeft(Take, [marked |-> FALSE, out |-> <<>>], data)
  IN IF end.marked THEN Append(end.out, RleMark) ELSE end.out

\* The last sextet is filled with zeros, and what is over is not read.
Sextets(data) == LET bits == HighBits(data, 8) IN Regrouped(Filled(bits, 6 * ((Len(bits) + 5) \div 6), 0), 6, HighValue)
Octets(text)  == LET bits == HighBits(text, 6) IN Regrouped(SubSeq(bits, 1, 8 * (Len(bits) \div 8)), 8, HighValue)

\* A header that ends in the data's length, three checksums that nothing reads,
\* and the data between.
BinhexEncode(data) ==
  LET header == <<4, 100, 97, 116, 97, 0>> \o [i \in 1 .. 10 |-> 84] \o <<0, 0, Len(data) \div 256, Len(data) % 256, 0, 0, 0, 0>>
  IN Sextets(RleCompress(header \o <<0, 0>> \o data \o <<0, 0, 0, 0>>))
BinhexDecode(text) ==
  LET whole == RleDecompress(Octets(text))
      at    == whole[1] + 12
  IN IF Len(whole) < 22 THEN None ELSE Some(SubSeq(whole, at + 11, at + 10 + 256 * whole[at + 3] + whole[at + 4]))

UULine == 45
EncodeUU(data) ==
  LET lines == Pieces(data, UULine)
  IN [k \in DOMAIN lines |-> <<Len(lines[k])>> \o Sextets(Filled(lines[k], 3 * ((Len(lines[k]) + 2) \div 3), 0))]
DecodeUU(lines) == FlattenSeq([k \in DOMAIN lines |-> SubSeq(Octets(Tail(lines[k])), 1, lines[k][1])])

\* The lines of quoted-printable: a byte as it is, or three signs; a line too
\* long is broken by a sign the reader takes out.
IsPlain(b) == b \in (33 .. 60) \cup (62 .. 126) \cup {9, 32}
EncodeQuotedPrintable(data) ==
  LET Sign(b) == IF IsPlain(b) THEN <<b>> ELSE <<61, b \div 16, b % 16>>
      Take(run, b) ==
        IF run.length >= (IF IsPlain(b) THEN 75 ELSE 73)
        THEN [length |-> Len(Sign(b)), lines |-> Append(run.lines, Sign(b))]
        ELSE [length |-> run.length + Len(Sign(b)), lines |-> [run.lines EXCEPT ![Len(run.lines)] = @ \o Sign(b)]]
  IN FoldLeft(Take, [length |-> 0, lines |-> << <<>> >>], data).lines
DecodeQuotedPrintable(lines) ==
  LET Take(run, ch) ==
        CASE run.held = <<>> /\ ch = 61 -> [run EXCEPT !.held = <<ch>>]
          [] Len(run.held) = 1 -> [run EXCEPT !.held = Append(@, ch)]
          [] Len(run.held) = 2 -> [held |-> <<>>, out |-> Append(run.out, 16 * run.held[2] + ch)]
          [] OTHER -> [run EXCEPT !.out = Append(@, ch)]
  IN FoldLeft(Take, [held |-> <<>>, out |-> <<>>], FlattenSeq(lines)).out

-----------------------------------------------------------------------------
(* Words that can be spoken.                                                *)

\* Five letters for two bytes, the vowels shifted by a running checksum; an odd
\* byte is three.  Nothing checks the checksum.
LOCAL Next36(sum, a, b) == (5 * sum + 7 * a + b) % 36
EncodeBubbleBabble(data) ==
  LET Three(a, sum) == <<((a \div 64) + sum) % 6, (a \div 4) % 16, ((a % 4) + (sum \div 6)) % 6>>
      Take(run, pair) ==
        IF Len(pair) = 2 THEN [sum |-> Next36(run.sum, pair[1], pair[2]),
                               out |-> run.out \o Three(pair[1], run.sum) \o <<pair[2] \div 16, pair[2] % 16>>]
        ELSE [run EXCEPT !.out = @ \o Three(pair[1], run.sum)]
  IN FoldLeft(Take, [sum |-> 1, out |-> <<>>], Pieces(data, 2)).out
DecodeBubbleBabble(text) ==
  LET First(w, sum) == 64 * (((w[1] - sum) % 6) % 4) + 4 * (w[2] % 16) + (((w[3] - (sum \div 6)) % 6) % 4)
      Take(run, w) ==
        CASE Len(w) = 5 -> LET a == First(w, run.sum) b == 16 * w[4] + w[5]
                           IN [sum |-> Next36(run.sum, a, b), out |-> run.out \o <<a, b>>]
          [] Len(w) \in {3, 4} -> [run EXCEPT !.out = Append(@, First(w, run.sum))]
          [] OTHER -> run
  IN FoldLeft(Take, [sum |-> 1, out |-> <<>>], Pieces(text, 5)).out

\* An odd byte is read back with a zero after it.
ProquintsEncode(data) ==
  LET Word(pair) == <<pair[1] \div 16, (pair[1] \div 4) % 4, 4 * (pair[1] % 4) + (pair[2] \div 64), (pair[2] \div 16) % 4, pair[2] % 16>>
  IN [k \in DOMAIN Pieces(data, 2) |-> Word(Filled(Pieces(data, 2)[k], 2, 0))]
ProquintsDecode(words) ==
  FlattenSeq([k \in DOMAIN words |->
                LET w == words[k] IN <<16 * w[1] + 4 * w[2] + (w[3] \div 4), 64 * (w[3] % 4) + 16 * w[4] + w[5]>>])

EncodeGrayBytes(data) == [i \in DOMAIN data |-> BitXor(data[i], data[i] \div 2)]
DecodeGrayBytes(data) ==
  [i \in DOMAIN data |-> FoldLeft(LAMBDA b, k : BitXor(b, data[i] \div 2^k), data[i], Upto(7))]

-----------------------------------------------------------------------------
(* Bech32: five bits to a sign, and six signs of checksum for a prefix.     *)
(* Thirty bits are six signs, the highest first.                            *)

LOCAL Xored(a, b) == [i \in DOMAIN a |-> BitXor(a[i], b[i])]
BechGenerators == << <<29, 22, 20, 21, 29, 18>>, <<19, 5, 1, 3, 19, 13>>, <<15, 10, 2, 6, 15, 26>>,
                     <<30, 20, 4, 12, 30, 29>>, <<21, 1, 8, 24, 21, 19>> >>
BechConstant(spec) == IF spec = "bech32m" THEN <<21, 28, 16, 12, 5, 3>> ELSE <<0, 0, 0, 0, 0, 1>>

Polymod(values) ==
  FoldLeft(LAMBDA chk, v :
             FoldLeft(LAMBDA c, i : IF (chk[1] \div 2^(i - 1)) % 2 = 1 THEN Xored(c, BechGenerators[i]) ELSE c,
                      Append(Tail(chk), v), Upto(5)),
           <<0, 0, 0, 0, 0, 1>>, values)

\* The prefix is "hello".
HrpExpand == <<3, 3, 3, 3, 3, 0, 8, 5, 12, 12, 15>>

EncodeBech32(spec, data) ==
  LET bits   == HighBits(data, 8)
      values == Regrouped(Filled(bits, 5 * ((Len(bits) + 4) \div 5), 0), 5, HighValue)
  IN values \o Xored(Polymod(HrpExpand \o values \o <<0, 0, 0, 0, 0, 0>>), BechConstant(spec))
DecodeBech32(text) ==
  LET bits  == HighBits(SubSeq(text, 1, Len(text) - 6), 5)
      spare == Len(bits) % 8
      sums  == {BechConstant(spec) : spec \in {"bech32", "bech32m"}}
  IN IF Len(text) < 6 \/ Len(text) > 84 \/ Polymod(HrpExpand \o text) \notin sums
        \/ spare >= 5 \/ (\E i \in Len(bits) - spare + 1 .. Len(bits) : bits[i] = 1)
     THEN None ELSE Some(Regrouped(SubSeq(bits, 1, Len(bits) - spare), 8, HighValue))

-----------------------------------------------------------------------------
(* Punycode: the plain characters, and then where to put each of the others. *)

LOCAL Base == 36
LOCAL Threshold(k, bias) == CASE k <= bias -> 1 [] k > bias /\ k >= bias + 26 -> 26 [] OTHER -> k - bias

Adapt(delta, points, first) ==
  LET halved == IF first THEN delta \div 700 ELSE delta \div 2
      d == halved + (halved \div points)
      Fall[n \in Nat] == IF n > 455 THEN LET rest == Fall[n \div 35] IN [k |-> rest.k + Base, d |-> rest.d] ELSE [k |-> 0, d |-> n]
  IN Fall[d].k + ((Base * Fall[d].d) \div (Fall[d].d + 38))

\* A number in digits of a base that changes, the lowest first.
LOCAL Varied(delta, bias) ==
  LET Digits[k \in Nat, q \in Nat] ==
        LET t == Threshold(k, bias)
        IN IF q < t THEN <<q>> ELSE <<t + ((q - t) % (Base - t))>> \o Digits[k + Base, (q - t) \div (Base - t)]
  IN Digits[Base, delta]

LOCAL Smallest(S) == CHOOSE x \in S : \A y \in S : x <= y

PunycodeEncode(text) ==
  LET basic  == SelectSeq(text, LAMBDA cp : cp < 128)
      others == SetToSortSeq({cp \in ToSet(text) : cp >= 128}, LAMBDA a, b : a < b)
      \* One character, when n is the character being put in.
      Point(n, run, cp) ==
        CASE cp < n -> [run EXCEPT !.delta = @ + 1]
          [] cp = n -> [out |-> run.out \o Varied(run.delta, run.bias), delta |-> 0, h |-> run.h + 1,
                        bias |-> Adapt(run.delta, run.h + 1, run.h = Len(basic)), n |-> run.n]
          [] OTHER -> run
      Level(run, n) ==
        LET passed == FoldLeft(LAMBDA r, cp : Point(n, r, cp), [run EXCEPT !.delta = @ + (n - run.n) * (run.h + 1)], text)
        IN [passed EXCEPT !.delta = @ + 1, !.n = n + 1]
  IN <<basic, FoldLeft(Level, [out |-> <<>>, delta |-> 0, h |-> Len(basic), bias |-> 72, n |-> 128], others).out>>

PunycodeDecode(text) ==
  LET Take(run, digit) ==
        LET i     == run.i + digit * run.w
            t     == Threshold(run.k, run.bias)
            size  == Len(run.out) + 1
            n     == run.n + (i \div size)
        IN IF digit >= t THEN [run EXCEPT !.i = i, !.w = @ * (Base - t), !.k = @ + Base]
           ELSE [out |-> InsertAt(run.out, (i % size) + 1, n), i |-> (i % size) + 1, from |-> (i % size) + 1, n |-> n,
                 bias |-> Adapt(i - run.from, size, run.from = 0), w |-> 1, k |-> Base]
      end == FoldLeft(Take, [out |-> text[1], i |-> 0, from |-> 0, n |-> 128, bias |-> 72, w |-> 1, k |-> Base], text[2])
  IN IF end.k # Base THEN None ELSE Some(end.out)

-----------------------------------------------------------------------------
(* Five-level teleprinter code: two tables, and a shift between them.  A    *)
(* character is the table it is in and its code there; those of both, like  *)
(* the space, belong to the letters.                                        *)

CodeLetters == 31
CodeFigures == 27

EncodeBaudotIta2(text) ==
  LET Take(run, ch) ==
        LET figures == ch[1] = "figures"
        IN [figures |-> figures,
            out |-> run.out \o (CASE figures = run.figures -> <<>> [] figures /\ ~run.figures -> <<CodeFigures>> [] OTHER -> <<CodeLetters>>)
                            \o <<ch[2]>>]
  IN FoldLeft(Take, [figures |-> FALSE, out |-> <<>>], text).out

LOCAL InBoth == {4, 8, 2}
DecodeBaudotIta2(codes) ==
  LET Take(run, c) ==
        CASE c = CodeLetters -> [run EXCEPT !.figures = FALSE]
          [] c = CodeFigures -> [run EXCEPT !.figures = TRUE]
          [] c = 0           -> run
          [] OTHER -> [run EXCEPT !.out = Append(@, <<IF run.figures /\ c \notin InBoth THEN "figures" ELSE "letters", c>>)]
  IN FoldLeft(Take, [figures |-> FALSE, out |-> <<>>], codes).out

-----------------------------------------------------------------------------
Encode(c, d) ==
  CASE c.text = "base36" -> EncodeBase(36, d)
    [] c.text = "base62" -> EncodeBase(62, d)
    [] c.text = "base58check" -> EncodeBase58Check(<<0>>, d)
    [] c.text = "base85" -> Base85Encode(c.variant, d).value
    [] c.text = "base91" -> Base91Encode(d)
    [] c.text = "base45" -> Base45Encode(d)
    [] c.text = "gsm0338" -> Gsm0338Pack(d)
    [] c.text = "binhex" -> BinhexEncode(d)
    [] c.text = "uuencode" -> EncodeUU(d)
    [] c.text = "quoted-printable" -> EncodeQuotedPrintable(d)
    [] c.text = "bubble-babble" -> EncodeBubbleBabble(d)
    [] c.text = "proquints" -> ProquintsEncode(d)
    [] c.text = "gray-code" -> EncodeGrayBytes(d)
    [] c.text = "bech32" -> EncodeBech32(c.variant, d)
    [] c.text = "punycode" -> PunycodeEncode(d)
    [] c.text = "baudot" -> EncodeBaudotIta2(d)

Decoded(c, t) ==
  CASE c.text = "base36" -> Some(DecodeBase(36, t))
    [] c.text = "base62" -> Some(DecodeBase(62, t))
    [] c.text = "base58check" -> DecodeBase58Check(t)
    [] c.text = "base85" -> Base85Decode(c.variant, t)
    [] c.text = "base91" -> Some(Base91Decode(t))
    [] c.text = "base45" -> Base45Decode(t)
    [] c.text = "gsm0338" -> Some(Gsm0338Unpack(t))
    [] c.text = "binhex" -> BinhexDecode(t)
    [] c.text = "uuencode" -> Some(DecodeUU(t))
    [] c.text = "quoted-printable" -> Some(DecodeQuotedPrintable(t))
    [] c.text = "bubble-babble" -> Some(DecodeBubbleBabble(t))
    [] c.text = "proquints" -> Some(ProquintsDecode(t))
    [] c.text = "gray-code" -> Some(DecodeGrayBytes(t))
    [] c.text = "bech32" -> DecodeBech32(t)
    [] c.text = "punycode" -> PunycodeDecode(t)
    [] c.text = "baudot" -> Some(DecodeBaudotIta2(t))
=============================================================================
