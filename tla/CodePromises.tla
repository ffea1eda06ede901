----------------------------- MODULE CodePromises -----------------------------
(***************************************************************************)
(* What the codes promise of the words, numbers and shares they are read   *)
(* from.  A job says what was sent (true), and how many symbols of it have *)
(* been damaged since (harm).                                              *)
(***************************************************************************)
EXTENDS Codes, SettingPromises

\* How many damaged symbols of a word a code undertakes to repair.  The Golay
\* decoder's tables are good for one error, not for the three it names.
Radius(c) ==
  CASE c.code \in {"hamming", "longhand", "golay"} -> 1
    [] c.code = "rs"       -> c.ecc \div 2
    [] c.code = "bch"      -> (BchProfile[c.profile].distance - 1) \div 2
    [] c.code = "hadamard" -> 2^(c.m - 2) - 1

\* A word damaged within the code's reach is read as what was sent, and the
\* decoder says truly what it repaired: the position for Hamming, the
\* positions for Reed-Solomon, the number of bits for BCH and Golay.
DamageIsRepaired ==
  Read({"hamming", "longhand", "rs", "bch", "golay", "hadamard"}) /\ Cardinality(job.harm) <= Radius(config) =>
    CASE config.code \in {"hamming", "longhand"} ->
           /\ Result.value = job.true /\ ~Result.doubleError
           /\ IF job.harm = {} THEN Result.corrected = 0 ELSE job.harm = {Result.corrected}
      [] config.code = "rs" ->
           /\ Result.ok /\ SubSeq(Result.value, 1, Len(data) - config.ecc) = job.true /\ Result.fixed = job.harm
      [] config.code \in {"bch", "golay"} ->
           Result.ok /\ Result.value = job.true /\ Result.fixed = Cardinality(job.harm)
      [] config.code = "hadamard" -> Result = job.true

\* Beyond it no repair is passed off as sure: a double error is called one
\* where there is a bit to tell it by; half BCH's distance is refused or read
\* rightly, and no codeword is further off than it says; and what
\* Reed-Solomon answers is a codeword in reach of what was received.
DoubtIsSaid ==
  Read({"hamming", "longhand", "rs", "bch"}) /\ Cardinality(job.harm) > Radius(config) =>
    CASE config.code \in {"hamming", "longhand"} -> config.extended /\ Cardinality(job.harm) = 2 => Result.doubleError
      [] config.code = "bch" ->
           Result.ok => /\ Result.fixed <= Cardinality(job.harm)
                        /\ Result.value # job.true => Result.fixed < Cardinality(job.harm)
      [] config.code = "rs" ->
           Result.ok => LET k == Len(data) - config.ecc
                        IN /\ SubSeq(Result.value, k + 1, Len(data))
                                = RsEncode(RsField(config.profile), SubSeq(Result.value, 1, k), config.ecc)
                           /\ Result.fixed = {i \in DOMAIN data : data[i] # Result.value[i]}
                           /\ 2 * Cardinality(Result.fixed) <= config.ecc

\* The exchanges of neighbours a scheme lets through: those that read the
\* same, zero for nine where digits are doubled, and digits five apart where
\* the weights are all odd.
Overlooked(scheme, a, b) ==
  CASE scheme \in {"verhoeff", "damm", "isbn10"} -> a = b
    [] scheme = "iban"                           -> Expanded(<<a, b>>) = Expanded(<<b, a>>)
    [] scheme \in {"luhn", "isin", "cusip"}      -> a = b \/ {a, b} = {0, 9}
    [] scheme \in {"isbn13", "aba", "sedol"}     -> (a - b) % 5 = 0

\* A number with the check digit it was given is accepted; with one digit
\* mistyped it is not; with two neighbours exchanged it is accepted only where
\* its scheme cannot tell.
SlipsAreNoticed ==
  Read({"number"}) =>
    CASE job.slip = "none"  -> Result
      [] job.slip = "digit" -> ~Result
      [] job.slip = "swap"  -> Result = Overlooked(config.scheme, data[job.harm], data[job.harm + 1])

\* A decoder of words is right within its reach and honest beyond it, and a
\* check digit notices what its scheme is for.
WordsAreReadTruly == DamageIsRepaired /\ DoubtIsSaid /\ SlipsAreNoticed

\* Bytes packed into words of another size come out whole when their number is
\* known, and otherwise with no more after them than zeros.
PackingIsUndone ==
  LET sent == Len(job.true)
  IN /\ SubSeq(Result, 1, sent) = job.true /\ Len(Result) % 8 = 0
     /\ config.length = sent => Len(Result) = sent
     /\ \A i \in sent + 1 .. Len(Result) : Result[i] = 0

\* A book keeps its number through the other form of it.
BookConverts ==
  LET new == Isbn10To13(data)
  IN Isbn13Validate(new) /\ HasIsbn10(new) /\ Isbn13To10(new) = data

\* A line of UART frames is read as the values that were framed, whatever
\* idles between them; a frame cut off at the end is left over, not read; one
\* flipped data bit changes that bit of that value and nothing else, and is a
\* parity error, when a parity bit covers it, and never a framing error.
FramesComeBack ==
  LET sent     == Len(job.true)
      kept     == IF job.cut = 0 THEN sent ELSE sent - 1
      Clean(f) == ~f.parityError /\ ~f.framingError
  IN /\ Len(Result.frames) = kept
     /\ Result.trailing = IF job.cut = 0 THEN 0 ELSE UartSpan(config) - job.cut
     /\ \A i \in 1 .. kept :
          IF i = 1 /\ job.harm # {}
          THEN /\ SymDiff(Result.frames[i].value, job.true[i]) = job.harm
               /\ ~Result.frames[i].framingError
               /\ Result.frames[i].parityError = (config.parity \in {"even", "odd"} /\ 8 \notin job.harm)
          ELSE Result.frames[i].value = job.true[i] /\ Clean(Result.frames[i])

\* What of a message a cipher of letters can write: I and J are one in a
\* square of 25, and so are U and V in Bacon's alphabet; a filler parts a
\* doubled letter or completes a pair or a row; a board of thirty keeps few
\* digits or none, for each of which VIC writes an E's digit.
Writable(c, sent) ==
  LET letters  == Ciphers!LettersOf(sent)
      merged   == Ciphers!Merged(sent)
      filler   == 23
      board    == Ciphers!StraddlingBoard(c.key)
      shown(ch) == ch \notin 30 .. 39
  IN CASE c.cipher \in {"polybius", "nihilist", "bifid", "adfgx"} -> merged
       [] c.cipher = "playfair" -> Ciphers!Digraphs(merged)
       [] c.cipher \in {"foursquare", "two-square"} -> Ciphers!Even(merged, filler)
       [] c.cipher = "hill-cipher" -> Ciphers!Even(letters, filler)
       [] c.cipher = "bacon" -> [i \in DOMAIN merged |-> IF merged[i] = 21 THEN 20 ELSE merged[i]]
       [] c.cipher = "columnar" -> sent \o [i \in 1 .. (-Len(sent)) % Len(c.key) |-> filler]
       [] c.cipher = "straddling-checkerboard" -> SelectSeq(sent, LAMBDA ch : ch \in DOMAIN board)
       [] c.cipher = "vic-cipher" -> [i \in DOMAIN sent |-> IF shown(sent[i]) THEN sent[i] ELSE 4]
       [] OTHER -> sent

\* A textual encoding gives back every byte.  What it can add is what it has
\* no room to leave out: proquints are of two bytes, and eight septets fill
\* seven octets with or without an @ at the end.
Added(c, sent) ==
  CASE c.text = "proquints" /\ Len(sent) % 2 = 1 -> <<0>>
    [] c.text = "gsm0338" /\ Len(Texts!GsmSeptets(sent)) % 8 = 7 -> <<0>>
    [] OTHER -> <<>>

\* How far a wheel machine can be relied on: Lorenz folds five bits into 26
\* letters, which is undone only until its shortest wheel has come round.
Reach(c, sent) ==
  IF c.cipher = "lorenz" THEN Min({Len(sent), Min({Machines!LorenzSizes.chi[i] : i \in 1 .. 5})}) ELSE Len(sent)

\* Every cipher undoes itself, its wheels wherever the message left them; and
\* Enigma writes no letter as itself.
TextsComeBack ==
  /\ Read({"machine"}) =>
       /\ Len(Result) = Len(job.true) /\ \A i \in 1 .. Reach(config, job.true) : Result[i] = job.true[i]
       /\ config.cipher = "enigma" => \A i \in DOMAIN data : data[i] \in 0 .. 25 => data[i] # job.true[i]
  /\ Read({"letters"}) => Result = Writable(config, job.true)
  /\ Read({"text"})    => /\ Result = Texts!Some(job.true \o Added(config, job.true))
                          /\ config.text = "quoted-printable" => \A k \in DOMAIN data : Len(data[k]) <= 75

\* The codes that repair nothing give back what they were given: packed bytes,
\* a book's number, the values on a line, a message.
CodesComeBack ==
  /\ Read({"packed"}) => PackingIsUndone
  /\ Read({"number"}) /\ config.scheme = "isbn10" /\ Result => BookConverts
  /\ Read({"uart"}) => FramesComeBack
  /\ TextsComeBack

\* What was encrypted or encoded comes back.
ComesBack == StreamsComeBack /\ CodesComeBack

-----------------------------------------------------------------------------
Places == {data[i].x : i \in DOMAIN data}

\* Any shares, as many as the threshold or more, give the secret; a phrase
\* that does not parse is as good as missing, one that is there twice counts
\* once, and too few phrases, or of two secrets, are refused.  Raw shares of
\* one place twice are refused.  One share fewer than the threshold leaves
\* every secret possible.
ThresholdIsExact ==
  /\ Read({"shamir"}) =>
       /\ Cardinality(Places) < Len(data) => ~Result.ok
       /\ Cardinality(Places) = Len(data) /\ Len(data) >= config.threshold => Result = Answered(job.true)
  /\ Read({"slip39"}) =>
       IF job.mixed THEN Result = NoAnswer
       ELSE IF job.good >= config.threshold
       THEN /\ Result.ok /\ SubSeq(Result.value, 1, Len(job.true)) = job.true
            /\ \A i \in Len(job.true) + 1 .. Len(Result.value) : Result.value[i] = 0
       ELSE Result \in {NoAnswer, Example}
  /\ Read({"shamir"}) /\ config.threshold = 2 /\ Len(data) = 1 =>
       \A s \in {0, 1, 97, 255} : \E a \in 0 .. 255 : ShareByte(data[1].x, <<s, a>>) = data[1].y[1]

\* With one share to spare a changed one is noticed, and shares that were not
\* changed are never said to be; with two it is named, and the secret is given
\* all the same.
TamperIsFound ==
  Read({"tampered"}) =>
    /\ Result.tampered = (job.harm # {})
    /\ job.harm = {} \/ Len(data) >= config.threshold + 2 => Result.secret = job.true /\ Result.places = job.harm

\* What is read from shares is the secret or nothing, and what is said of a
\* share is true of that share.
SharesAreJudged == ThresholdIsExact /\ TamperIsFound

-----------------------------------------------------------------------------
\* A certificate of a path is within its dates, and signed by the next one up,
\* a CA that may sign; the top one is its own issuer or its issuer unknown.
LinksHold(path) ==
  \A i \in DOMAIN path :
    LET above == IF i = Len(path) THEN path[i] ELSE path[i + 1]
        open  == i = Len(path) /\ path[i].issuer # path[i].subject
    IN /\ path[i].active
       /\ open \/ path[i].signer = above.key
       /\ i < Len(path) => above.ca /\ (above.usages # {} => "keyCertSign" \in above.usages)

\* In whatever order the certificates of a path come, the chain is the path and
\* is valid exactly when every link of it holds; a path with a gap is never
\* valid; and other certificates with it are neither lost nor hide its flaws.
\* Of two leaves the path is that of the first.
ChainsAreJudged ==
  Read({"chain"}) =>
    LET leaves == SelectSeq(data, LAMBDA c : c.subject \in {1, 8})
        path   == IF job.given = "company" THEN <<leaves[1]>> \o SubSeq(job.true, 2, Len(job.true)) ELSE job.true
    IN /\ ToSet(Result.chain) = ToSet(data) /\ Len(Result.chain) = Len(data)
       /\ CASE job.given = "path"    -> Result.chain = path /\ Result.valid = LinksHold(path) /\ Result.rooted = (Last(path).issuer = Last(path).subject)
            [] job.given = "gap"     -> ~Result.valid
            [] job.given = "company" -> IsPrefix(path, Result.chain) /\ (Result.valid => LinksHold(path))

-----------------------------------------------------------------------------
Choosable(c) ==
  CASE c.choice = "int"     -> c.min .. c.max
    [] c.choice = "shuffle" -> {s \in [1 .. c.count -> 1 .. c.count] : \A i, j \in DOMAIN s : s[i] = s[j] => i = j}
    [] c.choice = "sample"  -> {s \in [1 .. c.count -> c.min .. c.max] : \A i, j \in DOMAIN s : s[i] = s[j] => i = j}

\* Over all random bytes every choice is made, no other, and each equally
\* often; and at least half of what one draw can bring is used.
DrawsAreFair ==
  Read({"draws"}) =>
    LET counts == Result.counts
    IN /\ DOMAIN counts = Choosable(config)
       /\ \A a, b \in {counts[x] : x \in DOMAIN counts} : a = b
       /\ config.choice = "int" => 2 * Cardinality(DOMAIN counts) * counts[config.min] >= Result.tapes

-----------------------------------------------------------------------------
\* golay.ts: "Corrects up to 3 bit errors ... in every 24-bit codeword".
GolayCorrectsThree ==
  Read({"golay"}) /\ Cardinality(job.harm) <= 3 => Result.ok /\ Result.value = job.true

\* slip39-workbench.tsx: "30-bit polynomial (Detects all single errors)".
PhraseCatchesOneWord ==
  Read({"phrase"}) => Result.ok = (job.harm = {})
=============================================================================
