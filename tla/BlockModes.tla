----------------------------- MODULE BlockModes -----------------------------
(***************************************************************************)
(* The block cipher modes: padding, the one-shot functions, and the        *)
(* incremental counterpart that a file is streamed through.  A byte is one *)
(* of 0 .. Radix - 1, and the cipher is any permutation of blocks.         *)
(*                                                                         *)
(* A function that may throw returns a record: ok, and out, the bytes.     *)
(***************************************************************************)
EXTENDS Integers, Sequences

CONSTANTS
  Radix,            \* how many values a byte has
  BlockSize,
  Iv,               \* the initialisation vector, one block
  Xor(_, _),        \* of two bytes
  EncryptBlock(_), DecryptBlock(_)

\* A byte can count the bytes of a block, xor undoes itself, and the cipher
\* maps blocks to blocks and back.
ASSUME BlocksAreBlocks ==
  LET Octets == 0 .. Radix - 1
      Blocks == [1 .. BlockSize -> Octets]
  IN /\ BlockSize \in Nat \ {0} /\ Radix \in Nat /\ BlockSize < Radix
     /\ Iv \in Blocks
     /\ \A a, b \in Octets : Xor(a, b) \in Octets /\ Xor(Xor(a, b), b) = a
     /\ \A b \in Blocks : /\ EncryptBlock(b) \in Blocks /\ DecryptBlock(b) \in Blocks
                          /\ DecryptBlock(EncryptBlock(b)) = b

Marker == Radix \div 2   \* 0x80

PaddedModes  == {"ecb", "cbc"}
StreamModes  == {"cfb", "ofb", "ctr"}
Directions   == {"encrypt", "decrypt"}
\* iso10126 fills with random bytes and is never streamed when encrypting.
Paddings     == {"pkcs7", "iso7816", "x923", "iso10126", "zero", "none"}

Good(out) == [ok |-> TRUE, out |-> out]
Refused   == [ok |-> FALSE, out |-> <<>>]

Fill(n, x)     == [i \in 1 .. n |-> x]
Take(s, n)     == SubSeq(s, 1, n)
Drop(s, n)     == SubSeq(s, n + 1, Len(s))
XorSeq(s, t)   == [i \in DOMAIN s |-> Xor(s[i], t[i])]
Block(s, i)    == SubSeq(s, (i - 1) * BlockSize + 1, i * BlockSize)
BlockOf(at)    == ((at - 1) \div BlockSize) + 1
OffsetOf(at)   == ((at - 1) % BlockSize) + 1
Whole(s)       == Len(s) % BlockSize = 0

-----------------------------------------------------------------------------
(* Padding. *)

PadBlocks(data, scheme) ==
  LET n == BlockSize - (Len(data) % BlockSize)
  IN CASE scheme = "none"    -> IF Whole(data) THEN Good(data) ELSE Refused
       [] scheme = "pkcs7"   -> Good(data \o Fill(n, n))
       [] scheme = "iso7816" -> Good(data \o <<Marker>> \o Fill(n - 1, 0))
       [] scheme = "zero"    -> Good(data \o Fill(n, 0))
       [] scheme = "x923"    -> Good(data \o Fill(n - 1, 0) \o <<n>>)

UnpadBlocks(data, scheme) ==
  IF scheme = "none" THEN Good(data)
  ELSE IF Len(data) = 0 \/ ~Whole(data) THEN Refused
  ELSE LET size  == Len(data)
           floor == size - BlockSize
           count == data[size]
           \* how much is left when the trailing zeros of the last block go
           kept  == CHOOSE n \in floor .. size :
                      /\ \A i \in n + 1 .. size : data[i] = 0
                      /\ n = floor \/ data[n] # 0
       IN CASE scheme = "iso7816" ->
                 IF kept > floor /\ data[kept] = Marker THEN Good(Take(data, kept - 1)) ELSE Refused
            [] scheme = "zero" -> Good(Take(data, kept))
            [] OTHER ->
                 IF /\ count \in 1 .. BlockSize
                    /\ scheme = "pkcs7" => \A i \in size - count + 1 .. size : data[i] = count
                    /\ scheme = "x923" => \A i \in size - count + 1 .. size - 1 : data[i] = 0
                 THEN Good(Take(data, size - count)) ELSE Refused

-----------------------------------------------------------------------------
(* The counter block, a big-endian number. *)

Wraps(counter) == \A i \in DOMAIN counter : counter[i] = Radix - 1

IncrementCounter(counter) ==
  [i \in DOMAIN counter |->
     IF \A j \in i + 1 .. BlockSize : counter[j] = Radix - 1
     THEN (counter[i] + 1) % Radix ELSE counter[i]]

-----------------------------------------------------------------------------
(* One-shot: the whole input at once. *)

\* ECB and CBC over whole blocks.
EncryptAligned(mode, data) ==
  LET count == Len(data) \div BlockSize
      sealed[i \in 0 .. count] ==
        IF i = 0 THEN Iv
        ELSE EncryptBlock(IF mode = "cbc" THEN XorSeq(Block(data, i), sealed[i - 1]) ELSE Block(data, i))
  IN [at \in 1 .. Len(data) |-> sealed[BlockOf(at)][OffsetOf(at)]]

DecryptAligned(mode, data) ==
  LET opened(i) == LET plain == DecryptBlock(Block(data, i))
                   IN IF mode = "ecb" THEN plain
                      ELSE XorSeq(plain, IF i = 1 THEN Iv ELSE Block(data, i - 1))
  IN [at \in 1 .. Len(data) |-> opened(BlockOf(at))[OffsetOf(at)]]

\* The three stream modes, block by block; the last may be short.
StreamOneShot(mode, direction, data) ==
  LET count == (Len(data) + BlockSize - 1) \div BlockSize
      \* the state the i-th keystream block is made from, and the output so far
      after[i \in 0 .. count] ==
        IF i = 0 THEN [state |-> Iv, out |-> <<>>, bad |-> FALSE]
        ELSE LET was    == after[i - 1]
                 source == SubSeq(data, (i - 1) * BlockSize + 1,
                                  IF i = count THEN Len(data) ELSE i * BlockSize)
                 key    == EncryptBlock(was.state)
                 target == XorSeq(source, key)
                 cipher == IF direction = "encrypt" THEN target ELSE source
             IN [out   |-> was.out \o target,
                 bad   |-> was.bad \/ (mode = "ctr" /\ i < count /\ Wraps(was.state)),
                 state |-> CASE mode = "ofb" -> key
                             [] mode = "ctr" -> IncrementCounter(was.state)
                             [] mode = "cfb" -> cipher \o Drop(was.state, Len(cipher))]
  IN IF after[count].bad THEN Refused ELSE Good(after[count].out)

EncryptBlockMode(mode, padding, data) ==
  IF mode \in StreamModes THEN StreamOneShot(mode, "encrypt", data)
  ELSE LET padded == PadBlocks(data, padding)
       IN IF padded.ok THEN Good(EncryptAligned(mode, padded.out)) ELSE Refused

\* OFB and CTR decrypt by encrypting.
DecryptBlockMode(mode, padding, data) ==
  CASE mode \in PaddedModes ->
         IF Len(data) = 0 \/ ~Whole(data) THEN Refused
         ELSE UnpadBlocks(DecryptAligned(mode, data), padding)
    [] mode = "cfb" -> StreamOneShot(mode, "decrypt", data)
    [] OTHER -> EncryptBlockMode(mode, padding, data)

BlockOneShot(config, data) ==
  IF config.direction = "encrypt" THEN EncryptBlockMode(config.mode, config.padding, data)
  ELSE DecryptBlockMode(config.mode, config.padding, data)

-----------------------------------------------------------------------------
(* Incremental.  An update returns the next state, the bytes it emits and   *)
(* whether it threw.                                                        *)

Step(state, out) == [ok |-> TRUE, state |-> state, out |-> out]
Thrown(state)    == [ok |-> FALSE, state |-> state, out |-> <<>>]

BlockStart == [chain |-> Iv, keystream |-> Fill(BlockSize, 0), offset |-> BlockSize,
               exhausted |-> FALSE, pending |-> <<>>, length |-> 0]

\* processAligned: the blocks, and what the next one is chained to.
ProcessAligned(config, chain, data) ==
  LET count == Len(data) \div BlockSize
      done[i \in 0 .. count] ==
        IF i = 0 THEN [chain |-> chain, out |-> <<>>]
        ELSE LET was    == done[i - 1]
                 source == Block(data, i)
                 cbc    == config.mode = "cbc"
                 target == IF config.direction = "encrypt"
                           THEN EncryptBlock(IF cbc THEN XorSeq(source, was.chain) ELSE source)
                           ELSE IF cbc THEN XorSeq(DecryptBlock(source), was.chain)
                                ELSE DecryptBlock(source)
             IN [out |-> was.out \o target,
                 chain |-> IF ~cbc THEN was.chain
                           ELSE IF config.direction = "encrypt" THEN target ELSE source]
  IN done[count]

\* Mutant: the counter's wrap is not remembered.
StreamByteWrapping(config, s, byte) ==
  LET fresh == s.offset = BlockSize
      key   == IF fresh THEN EncryptBlock(s.chain) ELSE s.keystream
      at    == IF fresh THEN 1 ELSE s.offset + 1
      out   == Xor(byte, key[at])
      next  == CASE config.mode = "ofb" -> IF fresh THEN key ELSE s.chain
                 [] config.mode = "ctr" -> IF fresh THEN IncrementCounter(s.chain) ELSE s.chain
                 [] config.mode = "cfb" ->
                      [s.chain EXCEPT ![at] = IF config.direction = "encrypt" THEN out ELSE byte]
  IN Step([s EXCEPT !.chain = next, !.keystream = key, !.offset = at], <<out>>)

\* updateStreamMode, for one byte.
StreamByte(config, s, byte) ==
  LET fresh == s.offset = BlockSize
      key   == IF fresh THEN EncryptBlock(s.chain) ELSE s.keystream
      at    == IF fresh THEN 1 ELSE s.offset + 1
      out   == Xor(byte, key[at])
      next  == CASE config.mode = "ofb" -> IF fresh THEN key ELSE s.chain
                 [] config.mode = "ctr" -> IF fresh THEN IncrementCounter(s.chain) ELSE s.chain
                 [] config.mode = "cfb" ->
                      [s.chain EXCEPT ![at] = IF config.direction = "encrypt" THEN out ELSE byte]
  IN IF fresh /\ config.mode = "ctr" /\ s.exhausted THEN Thrown(s)
     ELSE Step([s EXCEPT !.chain = next, !.keystream = key, !.offset = at,
                         !.exhausted = IF fresh /\ config.mode = "ctr" THEN Wraps(s.chain) ELSE @],
               <<out>>)

UpdateStreamMode(config, s, chunk) ==
  LET after[i \in 0 .. Len(chunk)] ==
        IF i = 0 THEN Step(s, <<>>)
        ELSE LET was == after[i - 1]
                 now == StreamByte(config, was.state, chunk[i])
             IN IF ~was.ok THEN was
                ELSE IF ~now.ok THEN now ELSE Step(now.state, was.out \o now.out)
  IN after[Len(chunk)]

\* Mutant: a decryption releases nothing before the end.
BlockUpdateHoldsAll(config, s, chunk) ==
  IF config.mode \in StreamModes THEN UpdateStreamMode(config, s, chunk)
  ELSE LET pending == s.pending \o chunk
           blocks  == Len(pending) \div BlockSize
           length  == (IF config.direction = "decrypt" THEN 0 ELSE blocks) * BlockSize
           done    == ProcessAligned(config, s.chain, Take(pending, length))
       IN Step([s EXCEPT !.pending = Drop(pending, length), !.chain = done.chain,
                         !.length = @ + Len(chunk)], done.out)

\* A decryption that has to unpad keeps its last whole block back.
BlockUpdate(config, s, chunk) ==
  IF config.mode \in StreamModes THEN UpdateStreamMode(config, s, chunk)
  ELSE LET pending == s.pending \o chunk
           blocks  == Len(pending) \div BlockSize
           held    == config.direction = "decrypt" /\ config.padding # "none" /\ blocks > 0
           length  == (IF held THEN blocks - 1 ELSE blocks) * BlockSize
           done    == ProcessAligned(config, s.chain, Take(pending, length))
       IN Step([s EXCEPT !.pending = Drop(pending, length), !.chain = done.chain,
                         !.length = @ + Len(chunk)], done.out)

BlockFinish(config, s) ==
  CASE config.mode \in StreamModes -> Good(<<>>)
    [] config.mode \in PaddedModes /\ config.direction = "encrypt" ->
         LET padded == PadBlocks(s.pending, config.padding)
         IN IF padded.ok THEN Good(ProcessAligned(config, s.chain, padded.out).out) ELSE Refused
    [] OTHER ->
         IF config.padding = "none" /\ Len(s.pending) = 0
         THEN IF s.length = 0 THEN Refused ELSE Good(<<>>)
         ELSE IF Len(s.pending) = 0 \/ ~Whole(s.pending) THEN Refused
         ELSE UnpadBlocks(ProcessAligned(config, s.chain, s.pending).out, config.padding)
=============================================================================
