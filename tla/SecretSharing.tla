---------------------------- MODULE SecretSharing ----------------------------
(***************************************************************************)
(* Shamir's sharing of a secret's bytes over the field of AES, and the     *)
(* phrases of SLIP-0039 a share is written down as.  A share is a record   *)
(* x, y: the place and the polynomials' values there; a phrase a sequence  *)
(* of words, each a number below 1024.                                     *)
(***************************************************************************)
EXTENDS Fields, FiniteSets
LOCAL INSTANCE SequencesExt
LOCAL INSTANCE FiniteSetsExt

Answered(value) == [ok |-> TRUE, value |-> value]
NoAnswer        == [ok |-> FALSE, value |-> <<>>]

-----------------------------------------------------------------------------
(* Shamir.  random holds the threshold - 1 upper coefficients of each byte. *)

ShareByte(x, coefficients) == Evaluate(AesField, coefficients, x)

ShamirShare(secret, threshold, random, x) ==
  [x |-> x,
   y |-> [b \in DOMAIN secret |->
            ShareByte(x, <<secret[b]>> \o SubSeq(random, (b - 1) * (threshold - 1) + 1, b * (threshold - 1)))]]

ShamirSplit(secret, total, threshold, random) ==
  [i \in 1 .. total |-> ShamirShare(secret, threshold, random, i)]

Product(values) == FoldLeft(LAMBDA p, v : Mul(AesField, p, v), 1, values)

\* The weight of share i's value at zero; subtracting is adding.
Lagrange(shares, i) ==
  LET others == SelectSeq([j \in DOMAIN shares |-> j], LAMBDA j : j # i)
  IN Div(AesField, Product([j \in DOMAIN others |-> shares[others[j]].x]),
         Product([j \in DOMAIN others |-> BitXor(shares[i].x, shares[others[j]].x)]))

\* It throws for no shares and for two of one place.
Weighed(shares, weights) ==
  [b \in DOMAIN shares[1].y |-> XorAll([i \in DOMAIN shares |-> Mul(AesField, shares[i].y[b], weights[i])])]

ShamirCombine(shares) ==
  IF shares = <<>> \/ \E i, j \in DOMAIN shares : i # j /\ shares[i].x = shares[j].x
  THEN NoAnswer
  ELSE Answered(Weighed(shares, [i \in DOMAIN shares |-> Lagrange(shares, i)]))

-----------------------------------------------------------------------------
(* Which shares do not fit: every subset of the threshold's size votes for  *)
(* the secret it gives, and a share in no subset of the winner's is named.  *)

Subsets(n, k) == {s \in SUBSET (1 .. n) : Cardinality(s) = k}
Chosen(shares, set) == LET at == SelectSeq([i \in DOMAIN shares |-> i], LAMBDA i : i \in set)
                       IN [i \in DOMAIN at |-> shares[at[i]]]

\* The order the subsets are visited in.
Precedes(s, t) == LET only == SymDiff(s, t) IN only # {} /\ Min(only) \in s

Votes(shares, threshold) ==
  [s \in Subsets(Len(shares), threshold) |-> ShamirCombine(Chosen(shares, s)).value]

Verdict(shares, vote, first) ==
  [tampered |-> \E s, t \in DOMAIN vote : vote[s] # vote[t], secret |-> vote[first],
   places   |-> {shares[i].x : i \in DOMAIN shares \ UNION {s \in DOMAIN vote : vote[s] = vote[first]}}]

Foremost(sets) == CHOOSE s \in sets : \A t \in sets \ {s} : Precedes(s, t)

\* Mutant: the first vote wins, however many another gets.
FirstVoter(vote) == Foremost(DOMAIN vote)

\* A secret that comes first wins a tie.
FirstOfMost(vote) ==
  LET Support(s) == Cardinality({t \in DOMAIN vote : vote[t] = vote[s]})
  IN Foremost({s \in DOMAIN vote : \A t \in DOMAIN vote : Support(t) <= Support(s)})

DetectTamperedShares(shares, threshold) ==
  LET Judged(vote) == Verdict(shares, vote, FirstOfMost(vote)) IN Judged(Votes(shares, threshold))

-----------------------------------------------------------------------------
(* SLIP-0039 phrases. *)

ByteBits(byte, n) == [i \in 1 .. n |-> (byte \div 2^(n - i)) % 2]
Number(bits)      == FoldLeft(LAMBDA n, b : 2 * n + b, 0, bits)

\* Numbers of from bits each as numbers of to bits each, zeros at the end.
Regrouped(numbers, from, to) ==
  LET bits == FlattenSeq([i \in DOMAIN numbers |-> ByteBits(numbers[i], from)])
      full == (Len(bits) + to - 1) \div to
      all  == bits \o [i \in 1 .. full * to - Len(bits) |-> 0]
  IN [i \in 1 .. full |-> Number(SubSeq(all, (i - 1) * to + 1, i * to))]

BytesToWordIndices(bytes) == Regrouped(bytes, 8, 10)
WordIndicesToBytes(words, length) == SubSeq(Regrouped(words, 10, 8), 1, length)

\* What each of the five lowest bits of the word shifted out adds.
Feedback == <<<<3, 713, 245>>, <<1, 710, 925>>, <<2, 737, 711>>, <<4, 236, 206>>, <<4, 969, 119>>>>

\* Thirty bits, as three words.
Slip39Checksum(words) ==
  LET Next3(chk, word) ==
        LET moved  == <<chk[2], chk[3], word>>
            active == SelectSeq(<<1, 2, 3, 4, 5>>, LAMBDA i : (chk[1] \div 2^(i - 1)) % 2 = 1)
        IN [p \in 1 .. 3 |-> BitXor(moved[p], XorAll([i \in DOMAIN active |-> Feedback[active[i]][p]]))]
  IN FoldLeft(Next3, <<0, 0, 1>>, words)

\* The identifier is sixteen bits, member and threshold four; the group is
\* always the one group of one.
Slip39Phrase(identifier, threshold, share) ==
  LET payload == <<identifier \div 64, (identifier % 64) * 16, 0,
                   ((share.x - 1) % 16) * 64 + ((threshold - 1) % 16) * 4>>
                 \o BytesToWordIndices(share.y)
  IN payload \o Slip39Checksum(payload)

Slip39Generate(secret, total, threshold, random, identifier) ==
  [i \in 1 .. total |-> Slip39Phrase(identifier, threshold, ShamirShare(secret, threshold, random, i))]

\* Refused when it is too short or its checksum is another.
Slip39Parse(phrase, length) ==
  LET size    == Len(phrase)
      payload == SubSeq(phrase, 1, size - 3)
  IN IF size < 7 \/ Slip39Checksum(payload) # SubSeq(phrase, size - 2, size) THEN NoAnswer
     ELSE Answered([identifier |-> phrase[1] * 64 + phrase[2] \div 16,
                    x          |-> (phrase[4] \div 64) + 1,
                    threshold  |-> ((phrase[4] \div 4) % 16) + 1,
                    y          |-> WordIndicesToBytes(SubSeq(payload, 5, size - 3), length)])

\* Of shares with one member index the last counts.
Slip39Combine(shares) ==
  LET Superseded(i) == \E j \in DOMAIN shares : j > i /\ shares[j].x = shares[i].x
      unique == Chosen(shares, {i \in DOMAIN shares : ~Superseded(i)})
  IN IF \/ shares = <<>>
        \/ \E i \in DOMAIN shares : shares[i].identifier # shares[1].identifier
        \/ Len(unique) < shares[1].threshold
     THEN NoAnswer ELSE ShamirCombine(unique)

\* What the panel is given: the phrases that parse, the others left out, of
\* the secret length the first one's word count makes room for.  With fewer
\* than two it shows an example of its own.
Example == Answered(<<"example">>)

Slip39Recover(phrases) ==
  LET length == (IF Len(phrases[1]) > 7 THEN (Len(phrases[1]) - 7) * 10 ELSE 0) \div 8
      parsed == SelectSeq([i \in DOMAIN phrases |-> Slip39Parse(phrases[i], length)], LAMBDA p : p.ok)
  IN IF Len(parsed) < 2 THEN Example ELSE Slip39Combine([i \in DOMAIN parsed |-> parsed[i].value])
=============================================================================
