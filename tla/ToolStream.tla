----------------------------- MODULE ToolStream -----------------------------
(***************************************************************************)
(* A tool reading its input.  One that streams takes it cut anywhere, chunk *)
(* by chunk, as a file comes, where a typed input is computed in one call: *)
(* createCipherStream's adapter around one of the engines, or a hash,      *)
(* driven by runStream.  One that reads a code has no stream and is given  *)
(* all of it at once.                                                      *)
(***************************************************************************)
EXTENDS BlockModes, FramedStreams, HashStreams, CyclicChecks

CONSTANT  Jobs \* records: config, data, and where data is a container or a
               \* code that may have been damaged, true, the message inside,
               \* and what became of it

CONSTANT  ReadBack(_, _) \* what a tool makes of a code, of its configuration
                         \* and all of the input

ASSUME InputsAreSequences == \A j \in Jobs : j.data \in Seq(Range(j.data))

ASSUME EnginesAreKnown ==
  \A j \in Jobs : j.config.engine \in {"block", "framed", "arx", "word", "gcm", "hash", "crc", "code"}

\* A block mode is given bytes, and does not stream where it would pad with
\* random ones.
ASSUME BlockModesAreConfigured ==
  \A j \in Jobs : j.config.engine = "block" =>
    /\ j.data \in Seq(0 .. Radix - 1)
    /\ j.config.mode \in PaddedModes \cup StreamModes
    /\ j.config.direction \in Directions /\ j.config.padding \in Paddings
    /\ j.config.mode \in PaddedModes /\ j.config.direction = "encrypt" => j.config.padding # "iso10126"

\* A hash is of one of the designs.
ASSUME HashesAreDesigned == \A j \in Jobs : j.config.engine = "hash" => j.config.design \in Designs

\* A CRC is taken of octets, over a register some bits wide; a published
\* model's polynomial and first value fit it, those typed are looked at.
ASSUME CrcsAreFilledIn ==
  \A j \in Jobs : j.config.engine = "crc" =>
    /\ j.data \in Seq(SUBSET (0 .. OctetBits - 1))
    /\ {"model", "width", "poly", "init", "xorOut", "refIn", "refOut"} \subseteq DOMAIN j.config.form
    /\ j.config.form.width \in Nat \ {0}
    /\ j.config.form.model # "custom" =>
         j.config.form.poly \subseteq 0 .. j.config.form.width - 1 /\ j.config.form.init \subseteq 0 .. j.config.form.width - 1

\* A container's configuration names its format and what is done with it.
ASSUME ContainersAreConfigured ==
  \A j \in Jobs : j.config.engine = "framed" => {"tool", "direction"} \subseteq DOMAIN j.config

\* What came of a message is intact just if it is the container of it.
\* And what is sealed in it was sealed with the key: of the message's own
\* chunks, each at its place, and as the last one only at the message's end;
\* or, by another writer of age, nothing as the last of several.
ASSUME NothingIsForged ==
  \A j \in Jobs : j.config.engine = "framed" /\ j.config.direction # "encrypt" =>
    /\ j.true \in Seq(Range(j.true))
    /\ j.intact = (Fits(j.config, j.true) /\ j.data = Sealed(j.config, j.true))
    /\ \A b \in Range(j.data) : b[1] = "s" =>
         /\ b[2] \in Nat
         /\ \/ /\ b[4] = MessageChunk(j.true, b[2])
               /\ b[3] => Len(j.true) <= (b[2] + 1) * ChunkSize
            \/ b[2] > 0 /\ b[3] /\ b[4] = <<>>

VARIABLES job, fed, engine, emitted, status

vars == <<job, fed, engine, emitted, status>>

config == job.config
data   == job.data

-----------------------------------------------------------------------------
(* The adapter.  Every engine gives Start, Update and Finish the same form. *)

Started(c) ==
  CASE c.engine = "block"  -> BlockStart
    [] c.engine = "framed" -> FrameStart(c)
    [] c.engine = "arx"    -> RawStart
    [] c.engine = "word"   -> WordStart
    [] c.engine = "gcm"    -> GcmStart
    [] c.engine = "hash"   -> DigestStart(c.design)
    [] c.engine = "crc"    -> CrcStart(c.form)
    [] c.engine = "code"   -> <<>>

Always(r)      == [ok |-> TRUE, state |-> r.state, out |-> r.out]
Silently(state) == [ok |-> TRUE, state |-> state, out |-> <<>>]

Updated(c, s, chunk) ==
  CASE c.engine = "block"  -> BlockUpdate(c, s, chunk)
    [] c.engine = "framed" -> FrameUpdate(c, s, chunk)
    [] c.engine = "arx"    -> Always(RawUpdate(s, chunk))
    [] c.engine = "word"   -> Always(WordUpdate(s, chunk))
    [] c.engine = "gcm"    -> Always(GcmUpdate(s, chunk))
    [] c.engine = "hash"   -> Silently(DigestUpdate(c.design, s, chunk))
    [] c.engine = "crc"    -> Silently(CrcUpdate(c.form, s, chunk))
    [] c.engine = "code"   -> Silently(s \o chunk)

Finished(c, s) ==
  CASE c.engine = "block"  -> BlockFinish(c, s)
    [] c.engine = "framed" -> FrameFinish(c, s)
    [] c.engine \in {"arx", "word"} -> Good(<<>>)
    [] c.engine = "gcm"    -> Good(GcmFinish(s))
    [] c.engine = "hash"   -> Good(DigestOf(c.design, s))
    [] c.engine = "crc"    -> CrcFinish(c.form, s)
    [] c.engine = "code"   -> Good(<<ReadBack(c, s)>>)

\* Where the next chunk may end.
Ends == IF config.engine = "code" THEN {Len(data)} \ {fed} ELSE fed .. Len(data)

-----------------------------------------------------------------------------
Init == /\ job \in Jobs
        /\ fed = 0 /\ engine = Started(config) /\ emitted = <<>> /\ status = "feeding"

\* What the driver does with what an engine hands it; an engine that throws
\* ends the stream.
Deliver(r, next) == /\ emitted' = emitted \o r.out
                    /\ status' = IF r.ok THEN next ELSE "failed"

Advance(r) == engine' = r.state /\ Deliver(r, "feeding")

\* The next chunk, which may be empty.
Feed == /\ status = "feeding"
        /\ \E n \in Ends : fed' = n /\ Advance(Updated(config, engine, SubSeq(data, fed + 1, n)))
        /\ UNCHANGED job

Finish == /\ status = "feeding" /\ fed = Len(data)
          /\ Deliver(Finished(config, engine), "done")
          /\ UNCHANGED <<job, fed, engine>>

Next == Feed \/ Finish

Spec == Init /\ [][Next]_vars

-----------------------------------------------------------------------------
(* What it is compared with: the function a typed input goes through, or,   *)
(* where the program has none, the published construction.                  *)

OneShot(c, d) ==
  CASE c.engine = "block"  -> BlockOneShot(c, d)
    [] c.engine = "framed" -> FrameOneShot(c, d)
    [] c.engine \in {"arx", "word"} -> Good(RawOneShot(d))
    [] c.engine = "gcm"    -> Good(RawOneShot(d) \o <<Tag(Ghash(RawOneShot(d)), Len(d))>>)
    [] c.engine = "hash"   -> Good(DigestOneShot(c.design, d))
    [] c.engine = "crc"    -> CrcOneShot(c.form, d)

\* The other direction, one-shot, for what has one.
Undone(c, out) ==
  CASE c.engine = "block"  -> DecryptBlockMode(c.mode, c.padding, out)
    [] c.engine = "framed" -> FrameOneShot([c EXCEPT !.direction = "decrypt"], out)
    [] c.engine = "gcm"    -> GcmDecrypt(out)

(* Properties *)

\* The stream is somewhere in its input, and no engine holds more back than
\* a unit of its own and what a decision about it needs: memory does not
\* grow with the file.
TypeOK ==
  /\ fed \in 0 .. Len(data) /\ status \in {"feeding", "done", "failed"}
  /\ CASE config.engine = "block"  -> Len(engine.pending) < 2 * BlockSize
       [] config.engine = "framed" ->
            status = "feeding" => Len(engine.buffer) <= MaxHeader \/ Len(engine.buffer) < FrameSize + TagSize
       [] config.engine = "arx"    -> Len(engine.held) < UnitSize
       [] config.engine = "word"   -> engine.at \in 0 .. UnitSize
       [] config.engine = "gcm"    -> Len(engine.tail) < UnitSize
       [] config.engine = "hash"   -> HoldsLittle(config.design, engine)
       [] config.engine = "crc"    -> engine \subseteq 0 .. Max({config.form.width, OctetBits}) - 1
       [] config.engine = "code"   -> engine = SubSeq(data, 1, fed)

Done(engines) == config.engine \in engines /\ status = "done"

\* However the file was cut, the stream ends as if it had come at once: a
\* block mode or a container with the bytes of the one-shot function, or
\* refused where that refuses; a raw cipher with every byte of its keystream
\* spent once and in order; GCM with the tag of the whole ciphertext; a hash
\* with the blocks of the message, the marker, the zeros and the length, and
\* nothing its buffer held before; a CRC with the remainder of the message,
\* which the reflected table shown with it gives as well.  And nothing is emitted on the way that a
\* later chunk makes wrong: what is out is the beginning of that answer.
CutsAreInvisible ==
  config.engine # "code" /\ (status # "feeding" \/ emitted # <<>>) =>
    LET answer == OneShot(config, data)
    IN /\ status = "done"   => answer.ok /\ emitted = answer.out
       /\ status = "failed" => ~answer.ok
       /\ answer.ok         => IsPrefix(emitted, answer.out)
       /\ Done({"crc"}) /\ config.form.refIn /\ config.form.refOut =>
            LET m == ResolveModel(config.form).model
            IN ToOctets(ByReflectedTable(m, data), m.width) = emitted

\* What was encrypted comes back.  Zero padding alone may lose bytes, and
\* loses only zeros the message ended with; and no padding makes an empty
\* ciphertext of an empty message, which decryption refuses.
StreamsComeBack ==
  /\ Done({"block", "framed", "gcm"}) /\ config.direction = "encrypt"
  /\ ~(emitted = <<>> /\ config.mode \in PaddedModes)
  =>
    LET back == Undone(config, emitted)
    IN /\ back.ok
       /\ IF config.engine = "block" /\ config.mode \in PaddedModes /\ config.padding = "zero"
          THEN /\ IsPrefix(back.out, data)
               /\ \A i \in Len(back.out) + 1 .. Len(data) : data[i] = 0
          ELSE back.out = data

\* A decryption ends well exactly when what it decrypted to is some message
\* padded by the scheme, every byte of the padding being looked at, and then
\* with that message.
PaddingIsChecked ==
  /\ config.engine = "block" /\ config.mode \in PaddedModes /\ config.direction = "decrypt"
  /\ config.padding \in {"pkcs7", "iso7816", "x923"} /\ status # "feeding" /\ Whole(data)
  =>
    LET opened  == DecryptAligned(config.mode, data)
        lengths == {n \in 0 .. Len(opened) - 1 : PadBlocks(Take(opened, n), config.padding).out = opened}
    IN /\ (status = "done") = (lengths # {})
       /\ status = "done" => Len(emitted) \in lengths /\ emitted = Take(opened, Len(emitted))

\* A sealed container that was cut short, or had a frame dropped, repeated
\* or moved, is never accepted, and gives out nothing but true bytes of the
\* message from its beginning; an intact one is accepted.
OnlyAuthenticPlaintext ==
  config.engine = "framed" /\ config.direction = "decrypt" =>
    /\ IsPrefix(emitted, job.true)
    /\ status = "done" <=> status # "feeding" /\ job.intact
    /\ status = "done" => emitted = job.true

\* Decryption ends well only with what some encryption was given: the padding
\* is one its scheme writes, the container one that was sealed, to its end.
PlaintextIsChecked == PaddingIsChecked /\ OnlyAuthenticPlaintext
=============================================================================
