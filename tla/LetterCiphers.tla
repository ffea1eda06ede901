---------------------------- MODULE LetterCiphers ----------------------------
(***************************************************************************)
(* The ciphers of squares, boards and grids: those that replace letters by *)
(* pairs or by coordinates, and those that rearrange them.  Letters are    *)
(* 0 .. 25; a digit d is 30 + d, and what else there is has a name below.   *)
(***************************************************************************)
EXTENDS Integers, Sequences
LOCAL INSTANCE SequencesExt

LOCAL Letters == 0 .. 25
Hash == 26
Point == 40
Slash == 41
Space == 42
Unknown == 43
LOCAL Filler == 23

LOCAL Upto(n) == [i \in 1 .. n |-> i]
LOCAL Without(letter) == SelectSeq([i \in 1 .. 26 |-> i - 1], LAMBDA ch : ch # letter)

LettersOf(text) == SelectSeq(text, LAMBDA ch : ch \in Letters)

\* The letters, with I for J.
Merged(text) == [i \in DOMAIN LettersOf(text) |-> IF LettersOf(text)[i] = 9 THEN 8 ELSE LettersOf(text)[i]]

Distinct(s) == FoldLeft(LAMBDA seen, ch : IF ch \in ToSet(seen) THEN seen ELSE Append(seen, ch), <<>>, s)

-----------------------------------------------------------------------------
(* Squares of five by five, and the coordinates in them.                    *)

Alphabet25  == Without(9)
Square(key) == Distinct(Merged(key) \o Alphabet25)

LOCAL Place(square, ch) == (CHOOSE i \in DOMAIN square : square[i] = ch) - 1
LOCAL Row(square, ch) == Place(square, ch) \div 5
LOCAL Col(square, ch) == Place(square, ch) % 5
LOCAL At(square, row, col) == square[5 * row + col + 1]

Even(text, filler) == IF Len(text) % 2 = 0 THEN text ELSE Append(text, filler)
InPairs(text, Pair(_, _)) == FlattenSeq([i \in 1 .. Len(text) \div 2 |-> Pair(text[2 * i - 1], text[2 * i])])

PolybiusEncode(text)   == [i \in DOMAIN Merged(text) |-> <<Row(Alphabet25, Merged(text)[i]) + 1, Col(Alphabet25, Merged(text)[i]) + 1>>]
PolybiusDecode(tokens) == [i \in DOMAIN tokens |-> At(Alphabet25, tokens[i][1] - 1, tokens[i][2] - 1)]

\* The other corners of the rectangle two letters span.
Corners(from, to, a, b) ==
  <<At(to[1], Row(from[1], a), Col(from[2], b)), At(to[2], Row(from[2], b), Col(from[1], a))>>

\* A letter twice, or the last alone, is parted by a filler.
Digraphs(text) ==
  LET Take(run, ch) ==
        IF run.held = <<>> THEN [run EXCEPT !.held = <<ch>>]
        ELSE IF run.held = <<ch>> THEN [run EXCEPT !.out = @ \o <<ch, Filler>>]
        ELSE [out |-> run.out \o Append(run.held, ch), held |-> <<>>]
      end == FoldLeft(Take, [out |-> <<>>, held |-> <<>>], text)
  IN IF end.held = <<>> THEN end.out ELSE end.out \o Append(end.held, Filler)

PlayfairPair(square, turn, a, b) ==
  CASE Row(square, a) = Row(square, b) ->
         <<At(square, Row(square, a), (Col(square, a) + turn) % 5), At(square, Row(square, a), (Col(square, b) + turn) % 5)>>
    [] Row(square, a) # Row(square, b) /\ Col(square, a) = Col(square, b) ->
         <<At(square, (Row(square, a) + turn) % 5, Col(square, a)), At(square, (Row(square, b) + turn) % 5, Col(square, a))>>
    [] OTHER -> Corners(<<square, square>>, <<square, square>>, a, b)

Playfair(key, dir, text) ==
  LET square == Square(key)
  IN IF dir = "encrypt" THEN InPairs(Digraphs(Merged(text)), LAMBDA a, b : PlayfairPair(square, 1, a, b))
     ELSE InPairs(Merged(text), LAMBDA a, b : PlayfairPair(square, 4, a, b))

FourSquare(keys, dir, text) ==
  LET plain == <<Alphabet25, Alphabet25>>
      keyed == <<Square(keys[1]), Square(keys[2])>>
  IN IF dir = "encrypt" THEN InPairs(Even(Merged(text), Filler), LAMBDA a, b : Corners(plain, keyed, a, b))
     ELSE InPairs(LettersOf(text), LAMBDA a, b : Corners(keyed, plain, a, b))

\* Two letters in one row change squares and keep their columns.
TwoSquarePair(from, to, a, b) ==
  IF Row(from[1], a) # Row(from[2], b) THEN Corners(from, to, a, b)
  ELSE <<At(to[1], Row(from[1], a), Col(from[1], a)), At(to[2], Row(from[2], b), Col(from[2], b))>>

TwoSquare(keys, dir, text) ==
  LET first == Square(keys[1]) second == Square(keys[2])
      from  == IF dir = "encrypt" THEN <<first, second>> ELSE <<second, first>>
  IN InPairs(Even(Merged(text), Filler), LAMBDA a, b : TwoSquarePair(from, <<from[2], from[1]>>, a, b))

Nihilist(keys, dir, text) ==
  LET square == Square(keys[1])
      Coordinate(ch) == 10 * (Row(square, ch) + 1) + Col(square, ch) + 1
      Added(i) == Coordinate(Merged(keys[2])[((i - 1) % Len(keys[2])) + 1])
      Shown(n) == At(square, (n \div 10) - 1, (n % 10) - 1)
  IN IF dir = "encrypt" THEN [i \in DOMAIN Merged(text) |-> Coordinate(Merged(text)[i]) + Added(i)]
     ELSE [i \in DOMAIN text |-> Shown(text[i] - Added(i))]

-----------------------------------------------------------------------------
(* Fractions: the coordinates of a block, of two or three each, read in    *)
(* another order.                                                           *)

TrifidCube(key) == Distinct(key \o [i \in 1 .. 27 |-> i - 1])

Fractioned(square, base, dims, dir, block) ==
  LET n == Len(block)
      Digit(ch, d) == (Place(square, ch) \div base^(dims - 1 - d)) % base
      \* The j-th coordinate when all of one kind come together, or all of one letter.
      Kinds(j) == Digit(block[(j % n) + 1], j \div n)
      Whole(j) == Digit(block[(j \div dims) + 1], j % dims)
      Taken(i, d) == IF dir = "encrypt" THEN Kinds(dims * (i - 1) + d) ELSE Whole(d * n + i - 1)
      Letter(i) == FoldLeft(LAMBDA sum, d : base * sum + Taken(i, d - 1), 0, Upto(dims))
  IN [i \in 1 .. n |-> square[Letter(i) + 1]]

InBlocks(text, period, Change(_)) ==
  FlattenSeq([b \in 1 .. (Len(text) + period - 1) \div period |->
                Change(SubSeq(text, period * (b - 1) + 1, IF period * b < Len(text) THEN period * b ELSE Len(text)))])

Bifid(key, dir, text)  == InBlocks(Merged(text), 5, LAMBDA b : Fractioned(Square(key), 5, 2, dir, b))
Trifid(key, dir, text) == InBlocks(SelectSeq(text, LAMBDA ch : ch \in Letters \cup {Hash}), 5,
                                   LAMBDA b : Fractioned(TrifidCube(key), 3, 3, dir, b))

-----------------------------------------------------------------------------
(* Columns: a text written in rows is read by columns in the key's order.   *)

KeyOrder(key) == SortSeq(Upto(Len(key)), LAMBDA a, b : key[a] < key[b] \/ (key[a] = key[b] /\ a < b))

Cells(order, text) ==
  FlattenSeq([k \in DOMAIN order |->
                FlattenSeq([i \in DOMAIN text |-> IF (i - 1) % Len(order) = order[k] - 1 THEN <<text[i]>> ELSE <<>>])])

\* The columns are cut off in the key's order, each of the length it has, and
\* read by rows.
ByRows(order, Length(_), text) ==
  LET Rank(c)  == CHOOSE k \in DOMAIN order : order[k] = c
      Start(c) == FoldLeft(LAMBDA sum, k : IF k < Rank(c) THEN sum + Length(order[k]) ELSE sum, 0, Upto(Len(order)))
      Cell(r, c) == IF r <= Length(c) /\ Start(c) + r <= Len(text) THEN <<text[Start(c) + r]>> ELSE <<>>
  IN FlattenSeq([r \in 1 .. (Len(text) + Len(order) - 1) \div Len(order) |->
                   FlattenSeq([c \in DOMAIN order |-> Cell(r, c)])])

\* The first columns hold what is over.
Ragged(order, text, c) == (Len(text) \div Len(order)) + (IF c <= Len(text) % Len(order) THEN 1 ELSE 0)

Transposed(order, dir, text) ==
  IF dir = "encrypt" THEN Cells(order, text) ELSE ByRows(order, LAMBDA c : Ragged(order, text, c), text)

Scytale(diameter, dir, text) == Transposed(Upto(diameter), dir, text)

Rectangle(width, text) == text \o [i \in 1 .. (-Len(text)) % width |-> Filler]

Columnar(key, dir, text) ==
  LET order == KeyOrder(key)
      rows  == (Len(text) + Len(key) - 1) \div Len(key)
  IN IF dir = "encrypt" THEN Cells(order, Rectangle(Len(key), text)) ELSE ByRows(order, LAMBDA c : rows, text)

\* ADFGX and ADFGVX: the two coordinates of each letter, transposed.
Halved(grid, size, text) ==
  FlattenSeq([i \in DOMAIN text |-> <<Place(grid, text[i]) \div size, Place(grid, text[i]) % size>>])
Joined(grid, size, halves) == InPairs(halves, LAMBDA row, col : <<grid[size * row + col + 1]>>)

Adfgx(keys, dir, text) ==
  IF dir = "encrypt" THEN Transposed(KeyOrder(keys[2]), dir, Halved(Square(keys[1]), 5, Merged(text)))
  ELSE Joined(Square(keys[1]), 5, Transposed(KeyOrder(keys[2]), dir, text))

AdfgvxGrid == <<13, 0, 31, 2, 33, 7, 38, 19, 1, 32, 14, 12, 4, 35, 22, 17, 15, 3, 34, 5, 36, 6, 37, 8, 39, 9, 30, 10, 11, 16, 18, 20, 21, 23, 24, 25>>

Adfgvx(key, dir, text) ==
  IF dir = "encrypt" THEN Transposed(KeyOrder(key), dir, Halved(AdfgvxGrid, 6, SelectSeq(text, LAMBDA ch : ch \in ToSet(AdfgvxGrid))))
  ELSE Joined(AdfgvxGrid, 6, Transposed(KeyOrder(key), dir, text))

\* The places of a zigzag, rail by rail.
RailOf(rails, i) ==
  LET period == 2 * (rails - 1) at == (i - 1) % period IN IF at < rails THEN at ELSE period - at

Zigzag(rails, n) ==
  SortSeq(Upto(n), LAMBDA a, b : RailOf(rails, a) < RailOf(rails, b) \/ (RailOf(rails, a) = RailOf(rails, b) /\ a < b))

RailFence(rails, dir, text) ==
  LET path == Zigzag(rails, Len(text))
  IN [i \in DOMAIN text |-> IF dir = "encrypt" THEN text[path[i]] ELSE text[CHOOSE k \in DOMAIN path : path[k] = i]]

-----------------------------------------------------------------------------
HillMatrix == << <<3, 3>>, <<2, 5>> >>

Invert2x2(m) ==
  LET det == (m[1][1] * m[2][2] - m[1][2] * m[2][1]) % 26
      inverse == CHOOSE d \in 1 .. 25 : (d * det) % 26 = 1
  IN << <<(m[2][2] * inverse) % 26, (-m[1][2] * inverse) % 26>>, <<(-m[2][1] * inverse) % 26, (m[1][1] * inverse) % 26>> >>

Hill(dir, text) ==
  LET m == IF dir = "encrypt" THEN HillMatrix ELSE Invert2x2(HillMatrix)
  IN InPairs(Even(LettersOf(text), Filler), LAMBDA a, b : <<(m[1][1] * a + m[1][2] * b) % 26, (m[2][1] * a + m[2][2] * b) % 26>>)

\* Five letters of two kinds for each of 24: I and J are one, and U and V.
BaconLetters == SelectSeq(Alphabet25, LAMBDA ch : ch # 21)
LOCAL BaconLetter(ch) == CASE ch = 9 -> 8 [] ch = 21 -> 20 [] OTHER -> ch

BaconEncode(text) ==
  FlattenSeq([i \in DOMAIN LettersOf(text) |->
                [b \in 1 .. 5 |-> (Place(BaconLetters, BaconLetter(LettersOf(text)[i])) \div 2^(5 - b)) % 2]])
BaconDecode(marks) ==
  [i \in 1 .. Len(marks) \div 5 |->
     LET n == FoldLeft(LAMBDA sum, b : 2 * sum + marks[5 * (i - 1) + b], 0, Upto(5))
     IN IF n < 24 THEN BaconLetters[n + 1] ELSE Unknown]

-----------------------------------------------------------------------------
(* Boards: the commonest letters have one digit, the others two, of which  *)
(* the first is a gap of the top row.                                       *)

Gaps == <<2, 6>>
LOCAL TopColumns == <<0, 1, 3, 4, 5, 7, 8, 9>>

LOCAL Left(key, top) == SelectSeq(Distinct(key), LAMBDA ch : ch \notin ToSet(top))

\* The rows under the top one filled one after the other, or column by column.
Board(top, rest, bywhole) ==
  LET Below(k) == IF bywhole THEN <<Gaps[((k - 1) \div 10) + 1], (k - 1) % 10>>
                  ELSE <<Gaps[((k - 1) % 2) + 1], (k - 1) \div 2>>
      held == SubSeq(rest, 1, IF Len(rest) < 20 THEN Len(rest) ELSE 20)
  IN [ch \in ToSet(top) \cup ToSet(held) |->
        IF ch \in ToSet(top) THEN <<TopColumns[Place(top, ch) + 1]>> ELSE Below(Place(held, ch) + 1)]

StraddlingBoard(key) ==
  LET top == <<4, 18, 19, 14, 13, 8, 0, 17>>
  IN Board(top, Left(key \o [i \in 1 .. 26 |-> i - 1] \o [i \in 1 .. 10 |-> 29 + i] \o <<Point, Slash>>, top), TRUE)

VicBoard(key) ==
  LET top == <<4, 18, 19, 14, 13, 8, 0, 17>> IN Board(top, Left(key \o [i \in 1 .. 26 |-> i - 1], top), FALSE)

BoardEncode(board, missing, text) ==
  FlattenSeq([i \in DOMAIN text |-> IF text[i] \in DOMAIN board THEN board[text[i]] ELSE missing])

BoardDecode(board, missing, digits) ==
  LET Take(run, d) ==
        LET code == Append(run.held, d)
        IN IF run.held = <<>> /\ d \in ToSet(Gaps) THEN [run EXCEPT !.held = <<d>>]
           ELSE [held |-> <<>>,
                 out  |-> run.out \o (IF \E ch \in DOMAIN board : board[ch] = code
                                      THEN <<CHOOSE ch \in DOMAIN board : board[ch] = code>> ELSE missing)]
  IN FoldLeft(Take, [held |-> <<>>, out |-> <<>>], digits).out

StraddlingCheckerboard(key, dir, text) ==
  IF dir = "encrypt" THEN BoardEncode(StraddlingBoard(key), <<>>, text) ELSE BoardDecode(StraddlingBoard(key), <<>>, text)

LOCAL Alphanumeric(text) == SelectSeq(text, LAMBDA ch : ch \in Letters \cup 30 .. 39)

Vic(key, dir, text) ==
  IF dir = "encrypt" THEN Transposed(Upto(5), dir, BoardEncode(VicBoard(key), <<0>>, Alphanumeric(text)))
  ELSE BoardDecode(VicBoard(key), <<Unknown>>, Transposed(Upto(5), dir, text))

-----------------------------------------------------------------------------
(* Fractionated Morse: dots, dashes and breaks, three to a letter.          *)

MorseMap ==
  LET codes == << <<0, 1>>, <<1, 0, 0, 0>>, <<1, 0, 1, 0>>, <<1, 0, 0>>, <<0>>, <<0, 0, 1, 0>>, <<1, 1, 0>>, <<0, 0, 0, 0>>,
                  <<0, 0>>, <<0, 1, 1, 1>>, <<1, 0, 1>>, <<0, 1, 0, 0>>, <<1, 1>>, <<1, 0>>, <<1, 1, 1>>, <<0, 1, 1, 0>>,
                  <<1, 1, 0, 1>>, <<0, 1, 0>>, <<0, 0, 0>>, <<1>>, <<0, 0, 1>>, <<0, 0, 0, 1>>, <<0, 1, 1>>, <<1, 0, 0, 1>>,
                  <<1, 0, 1, 1>>, <<1, 1, 0, 0>> >>
      Numeral(d) == [i \in 1 .. 5 |-> IF (d <= 5) = (i <= d % 5 \/ d = 5) THEN 0 ELSE 1]
  IN [ch \in Letters \cup 30 .. 39 |-> IF ch \in Letters THEN codes[ch + 1] ELSE Numeral(ch - 30)]

LOCAL Break == 2

MorseStream(text) ==
  LET Take(run, ch) ==
        CASE ch = Space -> [out   |-> IF run.spaced THEN run.out ELSE run.out \o <<Break, Break>>, first |-> TRUE, spaced |-> TRUE]
          [] ch \in DOMAIN MorseMap -> [out   |-> run.out \o (IF run.first THEN <<>> ELSE <<Break>>) \o MorseMap[ch],
                                        first |-> FALSE, spaced |-> FALSE]
          [] OTHER -> [run EXCEPT !.spaced = FALSE]
  IN FoldLeft(Take, [out |-> <<>>, first |-> TRUE, spaced |-> FALSE], text).out

\* Three breaks have no letter of their own, and take the first.
FractionatedMorseEncrypt(key, text) ==
  LET alphabet == Distinct(key \o [i \in 1 .. 26 |-> i - 1])
      stream   == MorseStream(text)
      padded   == stream \o [i \in 1 .. (-Len(stream)) % 3 |-> Break]
      Third(i) == 9 * padded[3 * i - 2] + 3 * padded[3 * i - 1] + padded[3 * i]
  IN [i \in 1 .. Len(padded) \div 3 |-> alphabet[IF Third(i) < 26 THEN Third(i) + 1 ELSE 1]]

FractionatedMorseDecrypt(key, text) ==
  LET alphabet == Distinct(key \o [i \in 1 .. 26 |-> i - 1])
      stream   == FlattenSeq([i \in DOMAIN text |-> LET n == Place(alphabet, text[i]) IN <<n \div 9, (n \div 3) % 3, n % 3>>])
      Letter(code) == IF \E ch \in DOMAIN MorseMap : MorseMap[ch] = code
                      THEN <<CHOOSE ch \in DOMAIN MorseMap : MorseMap[ch] = code>> ELSE <<>>
      Worded(run)  == IF run.word = <<>> THEN run.out ELSE IF run.out = <<>> THEN run.word ELSE run.out \o <<Space>> \o run.word
      Lettered(run) == [run EXCEPT !.word = @ \o Letter(run.code), !.code = <<>>]
      Take(run, m) ==
        CASE m # Break             -> [run EXCEPT !.code = Append(@, m), !.broken = FALSE]
          [] m = Break /\ ~run.broken -> [Lettered(run) EXCEPT !.broken = TRUE]
          [] OTHER -> [out |-> Worded(run), word |-> <<>>, code |-> <<>>, broken |-> FALSE]
  IN Worded(Lettered(FoldLeft(Take, [out |-> <<>>, word |-> <<>>, code |-> <<>>, broken |-> FALSE], stream)))

-----------------------------------------------------------------------------
Crypt(c, dir, text) ==
  CASE c.cipher = "polybius"  -> IF dir = "encrypt" THEN PolybiusEncode(text) ELSE PolybiusDecode(text)
    [] c.cipher = "playfair"  -> Playfair(c.key, dir, text)
    [] c.cipher = "foursquare" -> FourSquare(c.key, dir, text)
    [] c.cipher = "two-square" -> TwoSquare(c.key, dir, text)
    [] c.cipher = "nihilist"  -> Nihilist(c.key, dir, text)
    [] c.cipher = "bifid"     -> Bifid(c.key, dir, text)
    [] c.cipher = "trifid"    -> Trifid(c.key, dir, text)
    [] c.cipher = "scytale"   -> Scytale(c.key, dir, text)
    [] c.cipher = "columnar"  -> Columnar(c.key, dir, text)
    [] c.cipher = "adfgx"     -> Adfgx(c.key, dir, text)
    [] c.cipher = "adfgvx"    -> Adfgvx(c.key, dir, text)
    [] c.cipher = "railfence" -> RailFence(c.key, dir, text)
    [] c.cipher = "hill-cipher" -> Hill(dir, text)
    [] c.cipher = "bacon"     -> IF dir = "encrypt" THEN BaconEncode(text) ELSE BaconDecode(text)
    [] c.cipher = "straddling-checkerboard" -> StraddlingCheckerboard(c.key, dir, text)
    [] c.cipher = "vic-cipher" -> Vic(c.key, dir, text)
    [] c.cipher = "fractionated-morse" ->
         IF dir = "encrypt" THEN FractionatedMorseEncrypt(c.key, text) ELSE FractionatedMorseDecrypt(c.key, text)
=============================================================================
