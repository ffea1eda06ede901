--------------------------- MODULE CipherMachines ---------------------------
(***************************************************************************)
(* The ciphers that replace a text letter by letter, each with a state     *)
(* that the letters move: a place in a key, a deck of cards, wheels and    *)
(* rotors.  Letters are 0 .. 25; every other character passes through and  *)
(* moves nothing.  Upper and lower case are left out: the case of a letter *)
(* is kept or dropped beside the cipher, which sees the letter only.       *)
(***************************************************************************)
EXTENDS Integers, Sequences, FiniteSets
LOCAL INSTANCE SequencesExt
LOCAL INSTANCE Fields

Letters    == 0 .. 25
Directions == {"encrypt", "decrypt"}

\* Step(m, p) is the next state of the machine and the letter it shows for p.
Through(start, Step(_, _), text) ==
  FoldLeft(LAMBDA run, ch :
             IF ch \notin Letters THEN [run EXCEPT !.out = Append(@, ch)]
             ELSE LET step == Step(run.machine, ch)
                  IN [run EXCEPT !.machine = step[1], !.out = Append(@, step[2])],
           [machine |-> start, out |-> <<>>], text).out

LOCAL Sign(dir) == IF dir = "encrypt" THEN 1 ELSE -1
LOCAL Reading(key, n) == key[(n % Len(key)) + 1]

-----------------------------------------------------------------------------
(* Alphabets and repeating keys: the state is how many letters went by. *)

\* A repeating key of numbers; Caesar's has one, Gronsfeld's are digits.
Vigenere(key, dir, text) ==
  Through(0, LAMBDA n, p : <<n + 1, (p + Sign(dir) * Reading(key, n)) % 26>>, text)

\* What is enciphered so far lengthens the key: the plaintext, either way.
Autokey(key, dir, text) ==
  Through(key, LAMBDA stream, p :
            LET shown == (p + Sign(dir) * Head(stream)) % 26
            IN <<Append(Tail(stream), IF dir = "encrypt" THEN p ELSE shown), shown>>, text)

Beaufort(key, text) == Through(0, LAMBDA n, p : <<n + 1, (Reading(key, n) - p) % 26>>, text)

PortaLetter(k, p) == IF p < 13 THEN 13 + ((p + k) % 13) ELSE (p - 13 - k) % 13
Porta(key, text)  == Through(0, LAMBDA n, p : <<n + 1, PortaLetter(Reading(key, n) \div 2, p)>>, text)

Atbash(text) == Through(0, LAMBDA n, p : <<n, 25 - p>>, text)

Affine(a, b, dir, text) ==
  LET inverse == CHOOSE c \in 1 .. 25 : (a * c) % 26 = 1
      Line(p) == IF dir = "encrypt" THEN a * p + b ELSE inverse * (p - b)
  IN Through(0, LAMBDA n, p : <<n, Line(p) % 26>>, text)

\* Alberti's rings: neither holds every letter, and the outer one has digits
\* (31 .. 34), the inner one an ampersand (44).
AlbertiOuter == <<0, 1, 2, 3, 4, 5, 6, 8, 11, 12, 13, 14, 15, 16, 17, 18, 19, 21, 23, 25, 31, 32, 33, 34>>
AlbertiInner == <<6, 10, 11, 13, 15, 17, 19, 21, 25, 44, 23, 24, 18, 14, 12, 16, 8, 7, 5, 3, 1, 0, 2, 4>>

LOCAL Where(ring, ch) == CHOOSE i \in DOMAIN ring : ring[i] = ch

Alberti(period, dir, text) ==
  LET from == IF dir = "encrypt" THEN AlbertiOuter ELSE AlbertiInner
      to   == IF dir = "encrypt" THEN AlbertiInner ELSE AlbertiOuter
      Turn(run, ch) ==
        IF ch \notin ToSet(from) THEN [run EXCEPT !.out = Append(@, ch)]
        ELSE [out   |-> Append(run.out, to[((Where(from, ch) - 1 - Sign(dir) * run.align) % 24) + 1]),
              count |-> run.count + 1,
              align |-> IF period > 0 /\ ((run.count + 1) % period) = 0 THEN (run.align + 1) % 24 ELSE run.align]
  IN FoldLeft(Turn, [out |-> <<>>, count |-> 0, align |-> 0], text).out

-----------------------------------------------------------------------------
(* Chaocipher: two alphabets that are rearranged after every letter. *)

ChaoLeft  == <<7, 23, 20, 2, 25, 21, 0, 12, 3, 18, 11, 10, 15, 4, 5, 9, 17, 8, 6, 19, 22, 14, 1, 13, 24, 16>>
ChaoRight == <<15, 19, 11, 13, 1, 16, 3, 4, 14, 24, 18, 5, 0, 21, 25, 10, 6, 9, 17, 8, 7, 22, 23, 20, 12, 2>>

LOCAL Turned(wheel, n) == SubSeq(wheel, n + 1, Len(wheel)) \o SubSeq(wheel, 1, n)
LOCAL Nadir == 14
LOCAL Sunk(wheel, at) == InsertAt(RemoveAt(wheel, at), Nadir, wheel[at])

PermuteLeft(wheel, pos)  == Sunk(Turned(wheel, pos), 2)
PermuteRight(wheel, pos) == Sunk(Turned(wheel, (pos + 1) % 26), 3)

Chaocipher(dir, text) ==
  LET Step(m, p) ==
        LET at == Where(IF dir = "encrypt" THEN m.right ELSE m.left, p)
        IN <<[left |-> PermuteLeft(m.left, at - 1), right |-> PermuteRight(m.right, at - 1)],
             IF dir = "encrypt" THEN m.left[at] ELSE m.right[at]>>
  IN Through([left |-> ChaoLeft, right |-> ChaoRight], Step, text)

-----------------------------------------------------------------------------
(* Solitaire: a deck of 54 cards, 53 and 54 the jokers. *)

LOCAL Jokers == {53, 54}

\* The card goes n places down; past the bottom it goes on from the top, and
\* is never the top card itself.
MoveDown(deck, card, n) ==
  LET to == Where(deck, card) + n
  IN InsertAt(RemoveAt(deck, Where(deck, card)), IF to > 54 THEN to - 53 ELSE to, card)

TripleCut(deck) ==
  LET places == {Where(deck, j) : j \in Jokers}
      first  == CHOOSE i \in places : \A k \in places : i <= k
      second == CHOOSE i \in places : \A k \in places : i >= k
  IN SubSeq(deck, second + 1, 54) \o SubSeq(deck, first, second) \o SubSeq(deck, 1, first - 1)

CountCut(deck, n) ==
  IF n >= 53 THEN deck ELSE SubSeq(deck, n + 1, 53) \o SubSeq(deck, 1, n) \o <<deck[54]>>

DeckStep(deck) == LET cut == TripleCut(MoveDown(MoveDown(deck, 53, 1), 54, 2)) IN CountCut(cut, cut[54])

KeyDeck(passphrase) ==
  FoldLeft(LAMBDA deck, ch : CountCut(DeckStep(deck), ch + 1), [i \in 1 .. 54 |-> i], passphrase)

\* The deck and the number it shows; a joker shows none and the deck goes on.
NextKey[deck \in Seq(1 .. 54)] ==
  LET next  == DeckStep(deck)
      shown == next[(IF next[1] >= 53 THEN 53 ELSE next[1]) + 1]
  IN IF shown \in Jokers THEN NextKey[next] ELSE <<next, IF shown > 26 THEN shown - 26 ELSE shown>>

Solitaire(passphrase, dir, text) ==
  Through(KeyDeck(passphrase),
          LAMBDA deck, p : LET key == NextKey[deck] IN <<key[1], (p + Sign(dir) * key[2]) % 26>>, text)

-----------------------------------------------------------------------------
(* Wheels: M-209 and Lorenz.  Each wheel is at the number of its turns.     *)

WheelPins == <<
  <<1, 1, 0, 1, 0, 0, 0, 1, 0, 0, 0, 1, 0, 1, 1, 0, 1, 0, 0, 0, 1, 1, 0, 1, 0, 1>>,
  <<1, 0, 0, 1, 0, 1, 0, 1, 0, 0, 1, 0, 1, 1, 0, 0, 1, 0, 1, 1, 0, 0, 1, 0, 0>>,
  <<1, 0, 1, 0, 0, 1, 0, 1, 0, 0, 1, 0, 1, 0, 0, 1, 0, 0, 1, 0, 1, 0, 1>>,
  <<0, 0, 1, 0, 1, 0, 0, 1, 0, 0, 0, 1, 0, 1, 0, 1, 0, 0, 1, 0, 1>>,
  <<0, 1, 0, 1, 0, 1, 0, 0, 1, 1, 0, 0, 1, 0, 1, 0, 0, 1, 0>>,
  <<1, 0, 1, 0, 1, 0, 1, 0, 1, 0, 0, 1, 0, 1, 0, 1, 0>>>>

\* Two bars with a lug for each single wheel but none, and one for each pair
\* of wheels but the first with the last and the second with the third; two
\* bars have no lug.
DrumLugs == << {}, {}, {1}, {1}, {2}, {2}, {3}, {3}, {4}, {4}, {5}, {5}, {6}, {6}, {1, 2}, {1, 3},
               {1, 4}, {1, 5}, {2, 4}, {2, 5}, {2, 6}, {3, 4}, {3, 5}, {3, 6}, {4, 5}, {4, 6}, {5, 6} >>

Displacement(n) ==
  LET active == {w \in 1 .. 6 : Reading(WheelPins[w], n) = 1}
  IN Cardinality({bar \in DOMAIN DrumLugs : DrumLugs[bar] \cap active # {}})

M209(text) == Through(0, LAMBDA n, p : <<n + 1, (25 - p + Displacement(n)) % 26>>, text)

\* Lorenz: the cams of every wheel alternate, but for the motor wheel of 61,
\* where every third is set.
LorenzSizes == [chi |-> <<41, 31, 29, 26, 23>>, psi |-> <<43, 47, 51, 53, 59>>]

LOCAL Cams(sizes, turns) == {i \in 1 .. 5 : (turns % sizes[i]) % 2 = 0}
LOCAL AsNumber(bits) == FoldLeft(LAMBDA n, i : n + IF i \in bits THEN 2^(i - 1) ELSE 0, 0, <<1, 2, 3, 4, 5>>)

LorenzStep(m, p) ==
  LET key    == BitXor(AsNumber(Cams(LorenzSizes.chi, m.turns)), AsNumber(Cams(LorenzSizes.psi, m.slow)))
      active == (m.turns % 61) % 3 = 0
      moves  == active /\ (m.motor % 37) % 2 = 0
  IN <<[turns |-> m.turns + 1, motor |-> IF active THEN m.motor + 1 ELSE m.motor, slow |-> IF moves THEN m.slow + 1 ELSE m.slow],
       BitXor(p, key) % 26>>

Lorenz(text) == Through([turns |-> 0, motor |-> 0, slow |-> 0], LorenzStep, text)

-----------------------------------------------------------------------------
(* Rotors: Enigma, Typex and SIGABA.  A rotor is a permutation of the       *)
(* letters, turned by its position.                                         *)

Rotors == <<
  <<4, 10, 12, 5, 11, 6, 3, 16, 21, 25, 13, 19, 14, 22, 24, 7, 23, 20, 18, 15, 0, 8, 1, 17, 2, 9>>,
  <<0, 9, 3, 10, 18, 8, 17, 20, 23, 1, 11, 7, 22, 19, 12, 2, 16, 6, 25, 13, 15, 24, 5, 21, 14, 4>>,
  <<1, 3, 5, 7, 9, 11, 2, 15, 17, 19, 23, 21, 25, 13, 24, 4, 8, 22, 6, 0, 10, 12, 20, 18, 16, 14>>,
  <<4, 18, 14, 21, 15, 25, 9, 0, 24, 16, 20, 8, 17, 7, 23, 11, 13, 5, 19, 6, 10, 3, 2, 12, 22, 1>>,
  <<21, 25, 1, 17, 6, 8, 19, 24, 20, 15, 18, 3, 13, 7, 11, 23, 0, 22, 12, 9, 16, 14, 5, 4, 2, 10>>>>

ReflectorA == <<4, 9, 12, 25, 0, 11, 24, 23, 21, 1, 22, 5, 2, 17, 16, 20, 14, 13, 19, 18, 15, 8, 10, 7, 6, 3>>
ReflectorB == <<24, 17, 20, 7, 16, 18, 11, 3, 15, 23, 13, 6, 14, 10, 12, 8, 4, 1, 5, 25, 2, 22, 21, 9, 0, 19>>

ForwardRotor(r, shift, c)  == (Rotors[r][((c + shift) % 26) + 1] - shift) % 26
BackwardRotor(r, shift, c) == (Where(Rotors[r], (c + shift) % 26) - 1 - shift) % 26

\* In through the rotors from the right, and out from the left.
In(pos, c)  == FoldRight(LAMBDA r, x : ForwardRotor(r, pos[r], x), [r \in DOMAIN pos |-> r], c)
Out(pos, c) == FoldLeft(LAMBDA x, r : BackwardRotor(r, pos[r], x), c, [r \in DOMAIN pos |-> r])
Reflected(pos, reflector, c) == Out(pos, reflector[In(pos, c) + 1])

\* Enigma's rotors I, II and III, their notches at V and E: the middle rotor
\* moves on its own notch, with the left one, or on the right one's.
Notches == <<16, 4, 21>>
StepRotors(pos) ==
  LET atMiddle == pos[2] = Notches[2]
      atRight  == pos[3] = Notches[3]
  IN <<IF atMiddle THEN (pos[1] + 1) % 26 ELSE pos[1],
       IF atMiddle \/ atRight THEN (pos[2] + 1) % 26 ELSE pos[2],
       (pos[3] + 1) % 26>>

Enigma(start, text) ==
  Through(start, LAMBDA pos, p : LET next == StepRotors(pos) IN <<next, Reflected(next, ReflectorB, p)>>, text)

\* The rightmost wheel turns with every letter, and each of the two before it
\* when the one on its right comes round.
Odometer(pos) ==
  LET fifth  == (pos[5] + 1) % 26
      fourth == IF fifth = 0 THEN (pos[4] + 1) % 26 ELSE pos[4]
      third  == IF fifth = 0 /\ fourth = 0 THEN (pos[3] + 1) % 26 ELSE pos[3]
  IN <<pos[1], pos[2], third, fourth, fifth>>

Typex(start, text) ==
  Through(start, LAMBDA pos, p : LET next == Odometer(pos) IN <<next, Reflected(next, ReflectorA, p)>>, text)

\* SIGABA's control rotors choose which of the cipher rotors turn; the last
\* always does.
SigabaStep(dir, m, p) ==
  LET control == Odometer(m.control)
      mask    == BitXor(BitXor(control[5], control[4]), control[3])
      cipher  == [r \in 1 .. 5 |-> IF r = 5 \/ (mask \div 2^(r - 1)) % 2 = 1 THEN (m.cipher[r] + 1) % 26 ELSE m.cipher[r]]
  IN <<[control |-> control, cipher |-> cipher], IF dir = "encrypt" THEN In(cipher, p) ELSE Out(cipher, p)>>

Sigaba(start, dir, text) ==
  Through([control |-> start, cipher |-> <<0, 0, 0, 0, 0>>], LAMBDA m, p : SigabaStep(dir, m, p), text)

-----------------------------------------------------------------------------
Crypt(c, dir, text) ==
  CASE c.cipher = "vigenere"   -> Vigenere(c.key, dir, text)
    [] c.cipher = "autokey"    -> Autokey(c.key, dir, text)
    [] c.cipher = "beaufort"   -> Beaufort(c.key, text)
    [] c.cipher = "porta"      -> Porta(c.key, text)
    [] c.cipher = "atbash"     -> Atbash(text)
    [] c.cipher = "affine"     -> Affine(c.key[1], c.key[2], dir, text)
    [] c.cipher = "alberti"    -> Alberti(c.key[1], dir, text)
    [] c.cipher = "chaocipher" -> Chaocipher(dir, text)
    [] c.cipher = "solitaire"  -> Solitaire(c.key, dir, text)
    [] c.cipher = "m209"       -> M209(text)
    [] c.cipher = "lorenz"     -> Lorenz(text)
    [] c.cipher = "enigma"     -> Enigma(c.key, text)
    [] c.cipher = "typex"      -> Typex(c.key, text)
    [] c.cipher = "sigaba"     -> Sigaba(c.key, dir, text)
=============================================================================
