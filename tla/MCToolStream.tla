---------------------------- MODULE MCToolStream ----------------------------
(***************************************************************************)
(* Small instances of ToolStream: two-bit bytes in blocks of three under a *)
(* fixed permutation, a counter that wraps after two blocks, containers of *)
(* two-byte chunks, units of three bytes.                                  *)
(***************************************************************************)
EXTENDS MCCodeJobs, MCSettings

Bytes == 0 .. 3

MCXor(a, b) == (((a \div 2) + (b \div 2)) % 2) * 2 + ((a + b) % 2)
MCIv == <<3, 3, 2>>

\* An unbalanced Feistel network of three rounds.
MCEncryptBlock(b) ==
  LET x == MCXor(b[1], (b[2] + b[3] + 1) % 4)
      y == MCXor(b[2], (x + 2 * b[3]) % 4)
      z == MCXor(b[3], (x * y + 1) % 4)
  IN <<z, x, y>>

MCDecryptBlock(c) ==
  LET z == MCXor(c[1], (c[2] * c[3] + 1) % 4)
      y == MCXor(c[3], (c[2] + 2 * z) % 4)
  IN <<MCXor(c[2], (y + z + 1) % 4), y, z>>

-----------------------------------------------------------------------------
SeqsUpTo(S, n) == UNION {[1 .. k -> S] : k \in 0 .. n}

Case(c, d) == [config |-> c, data |-> d, true |-> <<>>, intact |-> FALSE]

BlockConfig(m, p, dir) == [engine |-> "block", mode |-> m, padding |-> p, direction |-> dir]

\* Tails that look like padding and tails that do not, behind 0 .. 2 blocks.
Messages == SeqsUpTo({0, 1, 2}, 3) \cup {<<1, 2, 3>> \o t : t \in SeqsUpTo({0, 1, 2}, 3)}
            \cup {<<1, 2, 3, 0, 1, 2>> \o t : t \in SeqsUpTo({0, 3}, 2)}

\* Ciphertexts whose last block opens to any padding whatever.
Ciphertexts(m) ==
  {EncryptAligned(m, t) : t \in [1 .. 3 -> Bytes]}
  \cup {EncryptAligned(m, <<1, 2, 3>> \o t) : t \in [1 .. 3 -> Bytes]}
  \cup {<<1, 2, 3, 0, 1, 2, 2>>, <<1, 2, 3, 3>>, <<3, 0>>, <<>>}
  \cup {EncryptAligned(m, <<1, 2, 3, 0, 0, 2>> \o t) : t \in {<<0, 0, 1>>, <<1, 3, 3>>, <<2, 0, 0>>, <<0, 0, 0>>}}

PaddedJobs ==
  {Case(BlockConfig(m, p, "encrypt"), d) : m \in PaddedModes, p \in Paddings \ {"iso10126"}, d \in Messages}
  \cup UNION {{Case(BlockConfig(m, p, "decrypt"), d) : p \in Paddings, d \in Ciphertexts(m)} : m \in PaddedModes}

Ramp(n) == [i \in 1 .. n |-> (i * i) % 4]
StreamJobs == {Case(BlockConfig(m, "none", dir), Ramp(n)) : m \in StreamModes, dir \in Directions, n \in 0 .. 8}

UnitJobs == {Case([engine |-> e, direction |-> "encrypt"], [i \in 1 .. n |-> <<"m", i>>]) :
               e \in {"arx", "word", "gcm"}, n \in 0 .. 10}

HashJobs == {Case([engine |-> "hash", design |-> g, direction |-> "encrypt"], [i \in 1 .. n |-> <<"m", i>>]) :
               g \in Designs, n \in 0 .. 15}

-----------------------------------------------------------------------------
FramedConfig(t, dir) == [engine |-> "framed", tool |-> t, direction |-> dir]

Message(n) == [i \in 1 .. n |-> <<"p", i>>]

SealJobs == {Case(FramedConfig(t, "encrypt"), Message(n)) : t \in {"age", "cobblestone"}, n \in 0 .. 7}

\* A container of n bytes, as the list of its parts.
Count(t, n) == IF t = "age" THEN (IF n = 0 THEN 1 ELSE (n + ChunkSize - 1) \div ChunkSize)
               ELSE (n \div ChunkSize) + 1
Frame(t, n, i) == Seal(i - 1, t = "age" /\ i = Count(t, n),
                       SubSeq(Message(n), (i - 1) * ChunkSize + 1, Least(i * ChunkSize, n)))
Preface(t) == IF t = "age" THEN <<Header, Nonce>> ELSE <<Commitment>>
Parts(t, n) == Preface(t) \o [i \in 1 .. Count(t, n) |-> Frame(t, n, i)]

Without(s, i) == SubSeq(s, 1, i - 1) \o SubSeq(s, i + 1, Len(s))
Twice(s, i)   == SubSeq(s, 1, i) \o SubSeq(s, i, Len(s))
Swapped(s, i) == [s EXCEPT ![i] = s[i + 1], ![i + 1] = s[i]]

FullFrames(n) == [i \in 1 .. n \div ChunkSize |->
                    Seal(i - 1, FALSE, SubSeq(Message(n), (i - 1) * ChunkSize + 1, i * ChunkSize))]

\* Cut short anywhere, a part or the second byte of the preface lost, a part
\* repeated, two neighbours exchanged, an empty last frame put on.
Damaged(t, n) ==
  LET parts == Parts(t, n)
      whole == FlattenSeq(parts)
  IN {SubSeq(whole, 1, k) : k \in 0 .. Len(whole) - 1}
     \cup {FlattenSeq(Without(parts, i)) : i \in DOMAIN parts}
     \cup {FlattenSeq(Twice(parts, i)) : i \in DOMAIN parts}
     \cup {FlattenSeq(Swapped(parts, i)) : i \in 1 .. Len(parts) - 1}
     \cup {whole \o Seal(Count(t, n), TRUE, <<>>), Without(whole, 2), Without(whole, HeaderSize + NonceSize)}
     \cup {[whole EXCEPT ![Len(whole)] = <<"n", 1>>], [whole EXCEPT ![HeaderSize + NonceSize] = <<"p", 1>>]}
     \* full frames none of which says it is the last, and then nothing, or an
     \* empty one that does
     \cup {FlattenSeq(Preface(t) \o FullFrames(n) \o e) :
             e \in IF n < ChunkSize THEN {} ELSE {<<>>, <<Seal(n \div ChunkSize, TRUE, <<>>)>>}}

OpenJobs ==
  {[config |-> FramedConfig(t, "decrypt"), data |-> FlattenSeq(Parts(t, n)), true |-> Message(n), intact |-> TRUE] :
     t \in {"age", "cobblestone"}, n \in 0 .. 5}
  \cup UNION {{[config |-> FramedConfig(t, "decrypt"), data |-> d, true |-> Message(n), intact |-> FALSE] :
                 d \in Damaged(t, n) \ {FlattenSeq(Parts(t, n))}} : t \in {"age", "cobblestone"}, n \in 0 .. 5}

\* Registers narrower than an octet, as wide, and wider, of polynomials with
\* and without a highest term but one; and fields no model can be made of.
Form(w, p, in, out, init, xor) == [model |-> "custom", width |-> w, poly |-> p, init |-> init, refIn |-> in, refOut |-> out, xorOut |-> xor]
Forms ==
  {Form(w, p, in, out, s, x) : <<w, p>> \in {<<3, {0, 1}>>, <<3, {0, 2}>>, <<4, {0, 1}>>, <<5, {0, 2}>>, <<6, {0, 1, 5}>>, <<8, {0, 1, 2}>>, <<9, {0, 4, 8}>>},
      in \in BOOLEAN, out \in BOOLEAN, s \in {{-1}, {0, 2}}, x \in {{}, {1, 2}}}
  \cup {[Form(5, {0, 2}, FALSE, TRUE, {0}, {0}) EXCEPT ![f] = v] : f \in {"poly", "init", "xorOut"}, v \in {{-1}, {0, 5}, {7}}}
  \cup {[Form(4, {0, 1}, TRUE, TRUE, {0, 1, 2, 3}, {}) EXCEPT !.model = "named"]}
CrcJobs ==
  {Case([engine |-> "crc", direction |-> "encrypt", form |-> f], d) : f \in Forms,
     d \in {<<>>, <<{}>>, <<{0}>>, <<{3}, {}>>, <<{}, {0, 1}, {2}>>, <<{0, 3}, {1}, {0, 1, 2, 3}, {2, 3}>>}}

MCJobs ==
  CodeJobs \cup (SettingJobs \cup (PaddedJobs \cup
    (CrcJobs \cup HashJobs \cup OpenJobs \cup StreamJobs \cup UnitJobs \cup SealJobs)))
=============================================================================
