--------------------------- MODULE FramedStreams ---------------------------
(***************************************************************************)
(* The two containers that seal a file chunk by chunk: age and             *)
(* Cobblestone, as the one-shot functions and as incremental classes.      *)
(*                                                                         *)
(* Sealing is symbolic.  Seal(k, last, p) is Len(p) + TagSize bytes, each  *)
(* of which names its chunk number, its last flag, all of p and its place, *)
(* so what opens is what was sealed under that very nonce, unchanged.  A   *)
(* byte is a tuple: <<"p", v>> of a message, <<"h", i>> of a header,       *)
(* <<"n", i>> of the payload nonce, <<"s", ...>> sealed.                   *)
(***************************************************************************)
EXTENDS Integers, Sequences, SequencesExt

CONSTANTS
  ChunkSize, TagSize,
  HeaderSize, MaxHeader,  \* of an age container; longest header looked for
  NonceSize,              \* of its payload nonce
  MaxChunkIndex,          \* AGE_MAX_CHUNK_INDEX
  CommitSize              \* of Cobblestone's salt and commitment

\* No header, nonce or salt is longer than the longest header looked for.
ASSUME SizesFit ==
  /\ {ChunkSize, TagSize, HeaderSize, NonceSize, CommitSize} \subseteq Nat \ {0}
  /\ {HeaderSize, NonceSize, CommitSize} \subseteq 0 .. MaxHeader
  /\ MaxHeader \in Nat /\ MaxChunkIndex \in Nat

FrameSize == ChunkSize + TagSize

Header     == [i \in 1 .. HeaderSize |-> <<"h", i>>]
Nonce      == [i \in 1 .. NonceSize |-> <<"n", i>>]
Commitment == [i \in 1 .. CommitSize |-> <<"h", i>>]

Seal(k, last, p) == [i \in 1 .. Len(p) + TagSize |-> <<"s", k, last, p, i>>]

Opened(p)  == [ok |-> TRUE, out |-> p]
Unopened   == [ok |-> FALSE, out |-> <<>>]

Open(k, last, bytes) ==
  IF Len(bytes) >= TagSize /\ bytes[1][1] = "s" /\ bytes = Seal(k, last, bytes[1][4])
  THEN Opened(bytes[1][4]) ELSE Unopened

First(s, n) == SubSeq(s, 1, n)
After(s, n) == SubSeq(s, n + 1, Len(s))

Emit(state, out) == [ok |-> TRUE, state |-> state, out |-> out]
Throw(state)     == [ok |-> FALSE, state |-> state, out |-> <<>>]

\* Frames 1 .. count of size bytes each, sealed or opened from chunk number k
\* on with the flag off; the first that does not open throws.
SealFrames(k, count, bytes) ==
  FlattenSeq([i \in 1 .. count |-> Seal(k + i - 1, FALSE, SubSeq(bytes, (i - 1) * ChunkSize + 1, i * ChunkSize))])

OpenFrames(k, count, bytes) ==
  LET frame(i) == Open(k + i - 1, FALSE, SubSeq(bytes, (i - 1) * FrameSize + 1, i * FrameSize))
  IN IF \E i \in 1 .. count : ~frame(i).ok THEN Unopened
     ELSE Opened(FlattenSeq([i \in 1 .. count |-> frame(i).out]))

\* The chunk of a message that belongs at number k, which may be short or empty.
MessageChunk(p, k) ==
  LET end == (k + 1) * ChunkSize
  IN SubSeq(p, k * ChunkSize + 1, IF end < Len(p) THEN end ELSE Len(p))

\* How many whole frames leave at least kept bytes behind.
Frames(length, size, kept) == IF length < kept THEN 0 ELSE (length - kept) \div size

-----------------------------------------------------------------------------
(* The containers as their formats describe them, to judge the engines by:  *)
(* what comes first, whole chunks sealed at their numbers, and the rest of  *)
(* the message, of which age keeps a byte at least and which it flags.      *)

Foreword(c) == IF c.tool = "age" THEN Header \o Nonce ELSE Commitment
Kept(c)     == IF c.tool = "age" THEN 1 ELSE 0

SealCount(kept, p) == Frames(Len(p), ChunkSize, kept)
Container(pre, k, last, p) == pre \o (SealFrames(0, k, p) \o Seal(k, last, After(p, k * ChunkSize)))

Sealed(c, p) == Container(Foreword(c), SealCount(Kept(c), p), c.tool = "age", p)

\* A message of more chunks than there are numbers has no container.
Fits(c, p) == c.tool = "age" => SealCount(1, p) <= MaxChunkIndex

-----------------------------------------------------------------------------
(* age, encrypting: a full frame may be the last one, so it is held until   *)
(* more plaintext arrives.                                                  *)

AgeStart == [buffer |-> <<>>, index |-> 0, header |-> FALSE, nonce |-> FALSE, keyed |-> FALSE, failed |-> FALSE]

Preamble(s) == IF s.header THEN <<>> ELSE Header \o Nonce

\* Mutant: a full frame is sealed as soon as it is there.
AgeEncryptEagerly(s, chunk) ==
  LET combined == s.buffer \o chunk
      count    == Frames(Len(combined), ChunkSize, 0)
  IN IF chunk = <<>> THEN Emit(s, <<>>)
     ELSE IF s.index + count > MaxChunkIndex THEN Throw(s)
     ELSE Emit([s EXCEPT !.buffer = After(combined, count * ChunkSize), !.index = @ + count, !.header = TRUE],
               Preamble(s) \o SealFrames(s.index, count, combined))

AgeEncryptUpdate(s, chunk) ==
  LET combined == s.buffer \o chunk
      count    == Frames(Len(combined), ChunkSize, 1)
  IN IF chunk = <<>> THEN Emit(s, <<>>)
     ELSE IF s.index + count > MaxChunkIndex THEN Throw(s)
     ELSE Emit([s EXCEPT !.buffer = After(combined, count * ChunkSize), !.index = @ + count, !.header = TRUE],
               Preamble(s) \o SealFrames(s.index, count, combined))

AgeEncryptFinish(s) == Opened(Preamble(s) \o Seal(s.index, TRUE, s.buffer))

-----------------------------------------------------------------------------
(* age, decrypting. *)

\* processPreamble: the header ends at its MAC line; then the payload nonce,
\* from which the payload key is derived.  Any nonce gives a key.
AgePreamble(s) ==
  LET ends == {i \in DOMAIN s.buffer : s.buffer[i] = <<"h", HeaderSize>>}
      end  == CHOOSE i \in ends : \A j \in ends : i <= j
      headed == IF s.header THEN Emit(s, <<>>)
                ELSE IF ends = {} THEN IF Len(s.buffer) > MaxHeader THEN Throw(s) ELSE Emit(s, <<>>)
                ELSE IF end > MaxHeader \/ First(s.buffer, end) # Header THEN Throw(s)
                ELSE Emit([s EXCEPT !.buffer = After(@, end), !.header = TRUE], <<>>)
      t == headed.state
  IN IF ~headed.ok \/ ~t.header \/ t.nonce \/ Len(t.buffer) < NonceSize THEN headed
     ELSE Emit([t EXCEPT !.buffer = After(@, NonceSize), !.nonce = TRUE,
                         !.keyed = First(t.buffer, NonceSize) = Nonce], <<>>)

AgeOpenFrames(t, count, plain) ==
  IF count > 0 /\ (~t.keyed \/ ~plain.ok \/ t.index + count > MaxChunkIndex)
  THEN Throw([t EXCEPT !.failed = TRUE])
  ELSE Emit([t EXCEPT !.buffer = After(@, count * FrameSize), !.index = @ + count], plain.out)

AgeDecryptReady(ready, t) ==
  LET count == Frames(Len(t.buffer), FrameSize, 1)
  IN IF ~ready.ok THEN Throw([t EXCEPT !.failed = TRUE])
     ELSE IF ~t.nonce THEN Emit(t, <<>>)
     ELSE AgeOpenFrames(t, count, OpenFrames(t.index, count, t.buffer))

AgeDecryptUpdate(s, chunk) ==
  LET ready == AgePreamble([s EXCEPT !.buffer = @ \o chunk])
  IN IF chunk = <<>> THEN Emit(s, <<>>) ELSE AgeDecryptReady(ready, ready.state)

\* Mutant: the last frame's flag is not asked for.
AgeDecryptFinishAny(s) ==
  IF s.failed \/ ~s.header \/ ~s.nonce \/ ~s.keyed \/ Len(s.buffer) \notin TagSize .. FrameSize
  THEN Unopened
  ELSE LET sealed == Open(s.index, TRUE, s.buffer)
       IN IF sealed.ok THEN sealed ELSE Open(s.index, FALSE, s.buffer)

\* The last frame is empty only when it is the only one.
AgeDecryptFinish(s) ==
  IF \/ s.failed \/ ~s.header \/ ~s.nonce \/ ~s.keyed
     \/ Len(s.buffer) \notin TagSize .. FrameSize
     \/ s.index > 0 /\ Len(s.buffer) = TagSize
  THEN Unopened ELSE Open(s.index, TRUE, s.buffer)

-----------------------------------------------------------------------------
(* Cobblestone: the last chunk is the one that is short, so a full one is   *)
(* sealed at once, and a container of full chunks ends with an empty one.   *)

CobbleStart == [buffer |-> <<>>, index |-> 0, header |-> FALSE]

CobbleHeader(s) == IF s.header THEN <<>> ELSE Commitment

CobbleEncryptUpdate(s, chunk) ==
  LET combined == s.buffer \o chunk
      count    == Frames(Len(combined), ChunkSize, 0)
  IN IF chunk = <<>> THEN Emit(s, <<>>)
     ELSE Emit([buffer |-> After(combined, count * ChunkSize), index |-> s.index + count, header |-> TRUE],
               CobbleHeader(s) \o SealFrames(s.index, count, combined))

CobbleEncryptFinish(s) == Opened(CobbleHeader(s) \o Seal(s.index, FALSE, s.buffer))

\* A chunk is opened once what is behind it could be a last chunk.
CobbleDecryptUpdate(s, chunk) ==
  LET combined == s.buffer \o chunk
      headed   == s.header \/ Len(combined) >= CommitSize
      body     == IF s.header THEN combined ELSE After(combined, CommitSize)
      count    == Frames(Len(body), FrameSize, TagSize)
      plain    == OpenFrames(s.index, count, body)
  IN IF chunk = <<>> THEN Emit(s, <<>>)
     ELSE IF ~headed THEN Emit([s EXCEPT !.buffer = combined], <<>>)
     ELSE IF (~s.header /\ First(combined, CommitSize) # Commitment) \/ ~plain.ok THEN Throw(s)
     ELSE Emit([buffer |-> After(body, count * FrameSize), index |-> s.index + count, header |-> TRUE], plain.out)

CobbleDecryptFinish(s) ==
  IF ~s.header \/ Len(s.buffer) \notin TagSize .. FrameSize - 1
  THEN Unopened ELSE Open(s.index, FALSE, s.buffer)

CobbleEncrypt(data) ==
  LET full == Len(data) \div ChunkSize
  IN Opened(Commitment \o SealFrames(0, full, data) \o Seal(full, FALSE, After(data, full * ChunkSize)))

CobbleDecrypt(data) ==
  LET payload == After(data, CommitSize)
      full    == Len(payload) \div FrameSize
      plain   == OpenFrames(0, full, payload)
      final   == Open(full, FALSE, After(payload, full * FrameSize))
  IN IF \/ Len(data) < CommitSize + TagSize
        \/ First(data, CommitSize) # Commitment
        \/ Len(payload) % FrameSize < TagSize
        \/ ~plain.ok \/ ~final.ok
     THEN Unopened ELSE Opened(plain.out \o final.out)

-----------------------------------------------------------------------------
(* Dispatch. *)

FrameStart(config) == IF config.tool = "age" THEN AgeStart ELSE CobbleStart

FrameUpdate(config, s, chunk) ==
  IF config.tool = "age"
  THEN IF config.direction = "encrypt" THEN AgeEncryptUpdate(s, chunk) ELSE AgeDecryptUpdate(s, chunk)
  ELSE IF config.direction = "encrypt" THEN CobbleEncryptUpdate(s, chunk) ELSE CobbleDecryptUpdate(s, chunk)

FrameFinish(config, s) ==
  IF config.tool = "age"
  THEN IF config.direction = "encrypt" THEN AgeEncryptFinish(s) ELSE AgeDecryptFinish(s)
  ELSE IF config.direction = "encrypt" THEN CobbleEncryptFinish(s) ELSE CobbleDecryptFinish(s)

\* ageEncrypt and ageDecrypt: one update with everything, and a finish.
Joined(fed, last) == IF fed.ok /\ last.ok THEN Opened(fed.out \o last.out) ELSE Unopened
AgeOneShot(config, data) ==
  LET fed == FrameUpdate(config, AgeStart, data) IN Joined(fed, FrameFinish(config, fed.state))

FrameOneShot(config, data) ==
  IF config.tool = "age" THEN AgeOneShot(config, data)
  ELSE IF config.direction = "encrypt" THEN CobbleEncrypt(data) ELSE CobbleDecrypt(data)
=============================================================================
