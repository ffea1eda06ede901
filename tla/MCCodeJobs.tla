------------------------------ MODULE MCCodeJobs ------------------------------
(***************************************************************************)
(* What the codes are given to read: a few messages under every pattern of *)
(* damage up to a little more than each code repairs, numbers with every   *)
(* slip of one digit or two neighbours, lines of two frames, every set of  *)
(* shares, certificates in every order, and every tape of random bytes.    *)
(***************************************************************************)
EXTENDS CodePromises

Upto1(n) == {{}} \cup {{a} : a \in 1 .. n}
Upto2(n) == {{}} \cup {{a, b} : a, b \in 1 .. n}
Upto3(n) == {{}} \cup {{a, b, c} : a, b, c \in 1 .. n}

Flipped(word, harm) == [i \in DOMAIN word |-> IF i \in harm THEN 1 - word[i] ELSE word[i]]

WordJob(c, d, harm) ==
  [config |-> c, data |-> Flipped(Encoded(c, d), harm), true |-> d, harm |-> harm]

Squares(n) == [i \in 1 .. n |-> (i * i) % 2]

HammingJobs ==
  {WordJob([engine |-> "code", code |-> code, dataBits |-> 4, extended |-> e], d, h) :
     code \in {"hamming", "longhand"}, e \in BOOLEAN, d \in [1 .. 4 -> {0, 1}], h \in Upto1(7)}
  \cup {WordJob([engine |-> "code", code |-> code, dataBits |-> 4, extended |-> TRUE], d, h) :
     code \in {"hamming", "longhand"}, d \in [1 .. 4 -> {0, 1}], h \in Upto2(8)}
  \cup {WordJob([engine |-> "code", code |-> "hamming", dataBits |-> 11, extended |-> TRUE], d, h) :
     d \in {[i \in 1 .. 11 |-> 0], Squares(11), [i \in 1 .. 11 |-> IF i > 4 THEN 1 ELSE 0]}, h \in Upto2(16)}

BchJobs ==
  {WordJob([engine |-> "code", code |-> "bch", profile |-> "format"], d, h) : d \in {{}, {0, 2}, {1, 3, 4}}, h \in Upto3(15)}
  \cup {WordJob([engine |-> "code", code |-> "bch", profile |-> "version"], {1, 2, 5}, h) :
          h \in Upto3(18) \cup {h \cup {1, 18} : h \in Upto2(18)}}

HadamardJobs ==
  {WordJob([engine |-> "code", code |-> "hadamard", m |-> 3], d, h) : d \in SUBSET (0 .. 3), h \in Upto1(8)}
  \cup {WordJob([engine |-> "code", code |-> "hadamard", m |-> 4], d, h) : d \in {{}, {0, 4}, {1, 2, 3}}, h \in Upto3(16)}
  \cup {WordJob([engine |-> "code", code |-> "hadamard", m |-> 5], d, i .. i + 6) : d \in {{2, 5}, {0, 1, 4}}, i \in 1 .. 26}

GolayJobs(patterns) == {WordJob([engine |-> "code", code |-> "golay"], d, h) : d \in {{}, {0, 3, 11}}, h \in patterns}

\* Up to two symbols of a word, changed.
RsJobs ==
  {LET c == [engine |-> "code", code |-> "rs", profile |-> p, ecc |-> ecc]
       w == Encoded(c, d)
   IN [config |-> c, true |-> d, harm |-> h,
       data |-> [i \in DOMAIN w |-> IF i \in h THEN BitXor(w[i], IF i = Min(h) THEN 200 ELSE 77) ELSE w[i]]] :
     p \in {"qr", "datamatrix"}, ecc \in {2, 4, 5}, d \in {<<32, 91, 11>>, <<0, 0, 200>>}, h \in Upto2(5)}

PackedJobs ==
  {LET c == [engine |-> "code", code |-> "packed", k |-> k, length |-> IF known THEN 8 * n ELSE 99]
       d == [i \in 1 .. 8 * n |-> ((i * i + i) \div 3) % 2]
   IN [config |-> c, data |-> Packed(d, k), true |-> d, harm |-> {}] :
     k \in {4, 5, 6, 12}, n \in 0 .. 4, known \in BOOLEAN}

-----------------------------------------------------------------------------
NumberJob(scheme, s, slip, at) ==
  [config |-> [engine |-> "code", code |-> "number", scheme |-> scheme], data |-> s, slip |-> slip, harm |-> at]

Slips(scheme, s) ==
  {NumberJob(scheme, s, "none", 0)}
  \cup {NumberJob(scheme, [s EXCEPT ![i] = x], "digit", i) :
          <<i, x>> \in {p \in (DOMAIN s) \X Digits : s[p[1]] \in Digits /\ p[2] # s[p[1]]}}
  \cup {NumberJob(scheme, [s EXCEPT ![i] = s[i + 1], ![i + 1] = s[i]], "swap", i) :
          i \in {j \in 1 .. Len(s) - 1 : scheme \in {"isin", "cusip"} => {s[j], s[j + 1]} \subseteq Digits}}

Ramped(n) == {[i \in 1 .. n |-> (a * i + b * i * i) % 10] : a \in {1, 2}, b \in 0 .. 2}

Bodies(scheme) ==
  CASE scheme \in {"verhoeff", "damm", "luhn"} -> {<<a, b>> : a \in Digits, b \in {0, 4, 9}} \cup Ramped(9)
    [] scheme = "isbn10" -> Ramped(9)
    [] scheme = "isbn13" -> {<<9, 7, 8>> \o s : s \in Ramped(9)}
    [] scheme = "aba"    -> Ramped(8)
    [] scheme = "sedol"  -> Ramped(6) \cup {<<11, 0>> \o s : s \in Ramped(4)}
    [] scheme = "cusip"  -> Ramped(8) \cup {s \o <<17, 1, 0>> : s \in Ramped(5)}
    [] scheme = "isin"   -> {<<30, 28>> \o s : s \in Ramped(9)}
    [] scheme = "iban"   -> {<<16, 11>> \o s : s \in Ramped(12)} \cup {<<11, 14, 11, 1, 33>> \o s : s \in Ramped(9)}

NumberJobs == UNION {UNION {Slips(scheme, Numbered(scheme, b)) : b \in Bodies(scheme)} :
                scheme \in {"verhoeff", "damm", "luhn", "isbn10", "isbn13", "aba", "sedol", "cusip", "isin", "iban"}}

-----------------------------------------------------------------------------
UartConfigs ==
  {[engine |-> "code", code |-> "uart", dataBits |-> n, parity |-> p, halfStops |-> stops, lsbFirst |-> lsb, inverted |-> inv] :
     n \in {5, 8, 9}, p \in {"none", "even", "odd", "mark", "space"}, stops \in {2, 4}, lsb, inv \in BOOLEAN}

\* Two frames with idle bits before each; a bit of the first one's data
\* flipped, or the end of the second one cut off.
UartJob(c, values, idle, harm, cut) ==
  LET rest == [i \in 1 .. idle |-> 1]
      line == Levels(c, rest) \o UartFrame(values[1], c) \o Levels(c, rest) \o UartFrame(values[2], c)
      hit  == {idle + 2 + (IF c.lsbFirst THEN b ELSE c.dataBits - 1 - b) : b \in harm}
  IN [config |-> c, data |-> SubSeq(Flipped(line, hit), 1, Len(line) - cut), true |-> values, harm |-> harm, cut |-> cut]

UartJobs ==
  {UartJob(c, v, idle, {}, cut) : c \in UartConfigs, v \in {<<{}, {0, 1, 2, 3, 4}>>, <<{0, 3}, {1}>>}, idle \in {0, 2}, cut \in {0, 1, 5}}
  \cup {UartJob(c, <<{0, 2, 3}, {4}>>, 1, {b}, 0) : c \in UartConfigs, b \in {0, 4}}
  \cup {UartJob(c, <<{0, 2, 3}, {8}>>, 1, {8}, 0) : c \in {d \in UartConfigs : d.dataBits = 9}}

-----------------------------------------------------------------------------
Random(n) == [i \in 1 .. n |-> (37 * i * i + 11) % 256]
Secrets == {<<70, 200>>, <<0, 255, 1, 128>>}
Sharings == {<<3, 2>>, <<4, 3>>, <<4, 4>>}

Set(n, least) == {s \in SUBSET (1 .. n) : Cardinality(s) >= least}
Reversed(s) == [i \in DOMAIN s |-> s[Len(s) - i + 1]]

ShamirJobs ==
  UNION {LET shares == ShamirSplit(secret, sharing[1], sharing[2], Random(9 * sharing[2]))
             c == [engine |-> "code", code |-> "shamir", threshold |-> sharing[2]]
         IN {[config |-> c, data |-> d, true |-> secret] :
               d \in UNION {{Chosen(shares, s), Reversed(Chosen(shares, s)), Append(Chosen(shares, s), shares[1])} :
                              s \in Set(sharing[1], 1)}} :
           secret \in Secrets, sharing \in Sharings}

\* Phrases, one of them twice, one that does not parse, one of another secret.
Slip39Jobs ==
  UNION {LET phrases == Slip39Generate(secret, sharing[1], sharing[2], Random(9 * sharing[2]), 4919)
             other   == Slip39Generate(secret, sharing[1], sharing[2], Random(9 * sharing[2]), 4918)
             spoilt  == [phrases[1] EXCEPT ![Len(phrases[1])] = BitXor(@, 1)]
             c == [engine |-> "code", code |-> "slip39", threshold |-> sharing[2]]
             Job(d, good, mixed) == [config |-> c, data |-> d, true |-> secret, good |-> good, mixed |-> mixed]
         IN UNION {LET d == Chosen(phrases, s) n == Cardinality(s)
                   IN {Job(d, n, FALSE), Job(Append(d, d[1]), n, FALSE), Job(<<spoilt>> \o d, n, FALSE),
                       Job(Append(d, other[2]), n, TRUE)} : s \in Set(sharing[1], 1)} :
           secret \in Secrets, sharing \in Sharings}

TamperedJobs ==
  UNION {LET shares == ShamirSplit(<<70, 200>>, sharing[1], sharing[2], Random(9))
             c == [engine |-> "code", code |-> "tampered", threshold |-> sharing[2]]
         IN {[config |-> c, true |-> <<70, 200>>, harm |-> {i} \ {0},
              data |-> [s \in DOMAIN shares |-> IF s = i THEN [shares[s] EXCEPT !.y[b] = BitXor(@, e)] ELSE shares[s]]] :
                i \in 0 .. sharing[1], b \in {1, 2}, e \in {1, 128}} :
           sharing \in {<<3, 2>>, <<4, 2>>, <<5, 3>>, <<5, 2>>, <<4, 3>>}}

-----------------------------------------------------------------------------
CipherJob(c, d) == [config |-> c, data |-> Ciphered(c, d), true |-> d, harm |-> {}]

\* Every letter, the wheels long enough under way for the slower ones to turn,
\* and characters no wheel moves for.
Spoken   == <<7, 4, 11, 11, 14, 22, 14, 17, 11, 3>>
Sayings  == {<<>>, <<0>>, Spoken, <<0, 0, 0, 0, 0, 0, 0, 0, 0, 0, 0>>, <<25, 42, 9, 21, 50, 20, 8, 8, 23, 16>>,
             [i \in 1 .. 12 |-> (7 * i * i + 3) % 26]}
Plain(s) == \A i \in DOMAIN s : s[i] \in 0 .. 25

Keys(cipher) ==
  CASE cipher = "vigenere"  -> {<<11, 4, 12, 14, 13>>, <<3>>, <<2, 0, 1, 5>>}
    [] cipher = "autokey"   -> {<<16, 20, 4, 4, 13, 11, 24>>, <<25>>}
    [] cipher \in {"beaufort", "porta"} -> {<<5, 14, 17, 19>>, <<0>>, <<25, 12>>}
    [] cipher = "affine"    -> {<<5, 8>>, <<25, 25>>, <<1, 0>>}
    [] cipher = "alberti"   -> {<<0>>, <<4>>, <<1>>}
    [] cipher = "solitaire" -> {<<>>, <<2, 17, 24, 15, 19, 14>>}
    \* The middle rotor on its notch, and the right one before its own.
    [] cipher = "enigma"    -> {<<0, 0, 0>>, <<0, 3, 20>>, <<25, 4, 21>>}
    [] cipher \in {"typex", "sigaba"} -> {<<0, 0, 0, 0, 0>>, <<0, 0, 25, 25, 20>>}
    [] OTHER                -> {<<>>}

\* Alberti's rings lack letters the other one has.
Machinable(cipher) ==
  CASE cipher = "alberti" -> {<<>>, <<0, 1, 2, 3, 4, 5, 6, 8, 11, 12, 13>>, <<31, 34, 25, 42, 14, 14>>}
    [] cipher = "lorenz"  -> Sayings \cup {[i \in 1 .. 30 |-> (7 * i + 3) % 26]}
    [] OTHER              -> Sayings

MachineJobs ==
  UNION {{CipherJob([engine |-> "code", code |-> "machine", cipher |-> cipher, key |-> k], d) :
            k \in Keys(cipher), d \in Machinable(cipher)} :
           cipher \in {"vigenere", "autokey", "beaufort", "porta", "atbash", "affine", "alberti", "chaocipher",
                       "solitaire", "m209", "lorenz", "enigma", "typex", "sigaba"}}

Keyword   == <<2, 8, 15, 7, 4, 17>>
Repeating == <<25, 4, 1, 17, 0, 18, 18>>
GridKeys(cipher) ==
  CASE cipher \in {"playfair", "bifid", "trifid", "straddling-checkerboard", "vic-cipher", "fractionated-morse"} -> {<<>>, Keyword}
    [] cipher \in {"foursquare", "two-square", "nihilist", "adfgx"} -> {<<Keyword, Repeating>>, <<Repeating, Keyword>>}
    [] cipher \in {"columnar", "adfgvx"} -> {Keyword, Repeating}
    [] cipher = "scytale"   -> 1 .. 5
    [] cipher = "railfence" -> {2, 3, 4, 11, 12}
    [] OTHER                -> {<<>>}

\* The words of a message in Morse are parted by single spaces.
Grids(cipher) ==
  CASE cipher = "fractionated-morse" -> {<<>>, Spoken, <<4, 42, 4>>, <<0, 25, 42, 30, 35, 42, 39>>}
    [] cipher = "adfgvx"             -> {<<>>, Spoken, <<0, 39, 25, 30>>}
    [] cipher = "vic-cipher"         -> {s \in Sayings : Plain(s)} \cup {<<0, 39, 25, 30, 1>>}
    [] cipher \in {"trifid"}         -> {s \in Sayings : Plain(s)} \cup {<<26, 0, 26>>}
    [] cipher = "straddling-checkerboard" -> {s \in Sayings : Plain(s)} \cup {<<30, 0, 31, 39, 41, 40>>}
    [] OTHER                         -> Sayings

GridJobs ==
  UNION {{CipherJob([engine |-> "code", code |-> "letters", cipher |-> cipher, key |-> k], d) :
            k \in GridKeys(cipher), d \in Grids(cipher)} :
           cipher \in {"polybius", "playfair", "foursquare", "two-square", "nihilist", "bifid", "trifid", "scytale", "columnar", "adfgx",
                       "adfgvx", "railfence", "hill-cipher", "bacon", "straddling-checkerboard", "vic-cipher", "fractionated-morse"}}

-----------------------------------------------------------------------------
\* Zeros at the beginning, all bits, a run with the mark of runs in it, and
\* more than one line.
ByteTexts == {<<>>, <<0>>, <<0, 0>>, <<255>>, <<0, 255>>, <<255, 0>>, <<255, 255, 255>>, <<0, 0, 0, 0>>, <<0, 0, 0, 0, 7>>, <<255, 255, 255, 255>>,
              <<72, 101, 108, 108, 111>>, <<144, 144, 144, 5, 5, 5, 5, 5, 0, 255>>, <<1, 2, 3, 4, 5, 6, 7>>}

Variants(text) ==
  CASE text = "base85" -> {"ascii85", "z85", "rfc1924"} [] text = "bech32" -> {"bech32", "bech32m"} [] OTHER -> {"-"}

Encodable(text, variant) ==
  CASE variant = "z85"     -> {s \in ByteTexts : Len(s) % 4 = 0}
    [] text = "base58check" -> ByteTexts \ {<<>>}
    [] text = "gsm0338"    -> {<<>>, <<72, 101, 108, 108, 111>>, <<72, 148, 192, 0, 111, 65, 66>>, <<1, 2, 3, 4, 5, 6, 7>>, <<1, 2, 3, 4, 5, 6, 7, 8>>, <<1, 148>>}
    [] text = "punycode"   -> {<<>>, <<97>>, <<98, 252, 99, 104, 101, 114>>, <<252, 252, 8364, 65, 252>>, <<20320, 22909>>, <<128, 1114111>>}
    [] text = "baudot"     -> {<<>>, << <<"letters", 3>>, <<"figures", 16>>, <<"letters", 4>>, <<"figures", 16>>, <<"figures", 19>>, <<"letters", 1>> >>}
    [] text = "uuencode"   -> ByteTexts \cup {[i \in 1 .. n |-> i] : n \in {45, 46}}
    [] text = "quoted-printable" -> ByteTexts \cup {[i \in 1 .. 27 |-> IF i = 9 THEN b ELSE 200] : b \in {65, 9, 201}}
    [] OTHER               -> ByteTexts

TextJobs ==
  UNION {{CipherJob([engine |-> "code", code |-> "text", text |-> text, variant |-> v], d) : d \in Encodable(text, v)} :
           <<text, v>> \in UNION {{<<t, v>> : v \in Variants(t)} :
             t \in {"base36", "base62", "base58check", "base85", "base91", "base45", "gsm0338", "binhex", "uuencode",
                    "quoted-printable", "bubble-babble", "proquints", "gray-code", "bech32", "punycode", "baudot"}}}

-----------------------------------------------------------------------------
\* A path from a leaf (1) to its root (n), and what may be wrong on it.
Certificate(i, n, flaw) ==
  LET above == IF i = n THEN i ELSE i + 1
  IN [subject |-> i, issuer |-> above, serial |-> i, key |-> i, active |-> flaw # "expired", ca |-> i > 1 /\ flaw # "no CA",
      signer |-> IF flaw = "forged" THEN 9 ELSE above,
      usages |-> CASE flaw = "may not sign" -> {"digitalSignature"} [] flaw = "says nothing" -> {}
                   [] OTHER -> {"digitalSignature", "keyCertSign"}]

\* A root nobody asked about, and another leaf under the same issuer.
Stranger == [Certificate(7, 7, "none") EXCEPT !.ca = TRUE]
Sibling  == [Certificate(1, 2, "none") EXCEPT !.subject = 8, !.serial = 8, !.key = 8]

Path(n, flaws) == [i \in 1 .. n |-> Certificate(i, n, IF \E f \in flaws : f[1] = i THEN (CHOOSE f \in flaws : f[1] = i)[2] ELSE "none")]

FlawedPaths(n, flaws) ==
  {Path(n, f) : f \in {g \in flaws : \A a, b \in g : a[1] = b[1] => a = b}}
Single(n) == {{f} : f \in ((1 .. n) \X {"expired", "forged", "says nothing"}) \cup ((2 .. n) \X {"no CA", "may not sign"})}
Pairs(n)  == {a \cup b : a, b \in Single(n)}

ChainJob(d, path, given) ==
  [config |-> [engine |-> "code", code |-> "chain"], data |-> d, true |-> path, given |-> given]

\* The whole path or its lower end, a path with a gap, and one in company, in
\* every order.
ChainJobs ==
  {ChainJob(d, SubSeq(p, 1, k), "path") :
     <<p, k, d>> \in UNION {{<<q, j, e>> : e \in SetToSeqs(ToSet(SubSeq(q, 1, j)))} :
        <<q, j>> \in UNION {FlawedPaths(n, {{}} \cup IF n = 3 THEN Pairs(n) ELSE Single(n)) \X (1 .. n) : n \in 2 .. 4}}}
  \cup UNION {{ChainJob(d, p, "gap") : d \in SetToSeqs({p[1], p[3]})} : p \in FlawedPaths(3, {{}} \cup Single(3))}
  \cup UNION {{ChainJob(d, p, "company") : d \in SetToSeqs(ToSet(p) \cup {other})} :
                p \in FlawedPaths(3, {{}} \cup Single(3)), other \in {Stranger, Sibling}}

\* Bytes of two bits, and of four where a value has to come up twice.
DrawJobs ==
  {[config |-> [engine |-> "code", code |-> "draws"] @@ c, data |-> <<>>, true |-> <<>>] : c \in
     {[choice |-> "int", bits |-> 2, min |-> -2, max |-> m, tape |-> n] : m \in -2 .. 8, n \in {2, 4}}
     \cup {[choice |-> "int", bits |-> 2, min |-> 1, max |-> m, tape |-> 3] : m \in {1, 2, 3, 16, 21, 63}}
     \cup {[choice |-> "int", bits |-> 4, min |-> 0, max |-> m, tape |-> 2] : m \in {6, 14, 15, 99}}
     \cup {[choice |-> "shuffle", bits |-> 2, count |-> k, tape |-> 4] : k \in 0 .. 3}
     \cup {[choice |-> "shuffle", bits |-> 4, count |-> 4, tape |-> 3]}
     \cup {[choice |-> "sample", bits |-> 2, min |-> 3, max |-> 2 + s, count |-> k, tape |-> 4] : s \in 3 .. 4, k \in 0 .. 2}
     \cup {[choice |-> "sample", bits |-> 4, min |-> 0, max |-> 8, count |-> 2, tape |-> 3]}}

\* Grouped so that TLC adds smaller sets to larger ones: a union looks every
\* member of its right side up in its left.
CodeJobs ==
  NumberJobs \cup (BchJobs \cup (HadamardJobs \cup (HammingJobs \cup (ChainJobs \cup (UartJobs \cup
    (Slip39Jobs \cup TextJobs \cup GridJobs \cup RsJobs \cup ShamirJobs \cup MachineJobs
      \cup TamperedJobs \cup GolayJobs(Upto1(24)) \cup DrawJobs \cup PackedJobs))))))
=============================================================================
