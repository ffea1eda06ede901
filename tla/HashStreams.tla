---------------------------- MODULE HashStreams ----------------------------
(***************************************************************************)
(* How the hashes that are not built on MerkleDamgard take a message that  *)
(* comes in pieces, and how each of them closes.  What a design does with  *)
(* a block is arithmetic; which blocks it sees is not, and a hash is the   *)
(* list of what it compressed, mixed or absorbed, in order.                *)
(*                                                                         *)
(* Four ways of keeping what does not fill a block: filling a buffer that  *)
(* is emptied when full, or when full and more comes; XXH3's stripes; and  *)
(* the levels of MD6's tree.                                               *)
(***************************************************************************)
EXTENDS ByteStreams

CONSTANTS Prologue,         \* bytes that become the state of PHOTON-Beetle
          BufferStripes,    \* stripes in XXH3's buffer
          StripesPerBlock,  \* stripes between two scrambles
          ShortInput,       \* the longest message of XXH3's other functions
          FanOut            \* children of a node of MD6

ASSUME HashesFit ==
  /\ Prologue \in Nat /\ FanOut \in Nat \ {0, 1}
  /\ BufferStripes \in Nat \ {0} /\ StripesPerBlock \in Nat \ {0}
  /\ ShortInput \in UnitSize .. BufferStripes * UnitSize

Blank == [i \in 1 .. UnitSize |-> <<"0">>]
Zeros(n) == [i \in 1 .. n |-> <<"0">>]

\* A chunk cut to go into a buffer with this room left, then into empty ones.
Pieces(room, chunk) ==
  LET first == Least(room, Len(chunk))
  IN IF chunk = <<>> THEN <<>> ELSE <<Upto(chunk, first)>> \o Units(Rest(chunk, first))

-----------------------------------------------------------------------------
(* Emptied when full.  ECHO compresses a block under the number of message *)
(* bytes up to its end, Streebog under that before it; FSB takes a new     *)
(* buffer for every round, the others write over the old one.              *)

FillStart == [buffer |-> Blank, buffered |-> 0, length |-> 0, counter |-> 0, blocks |-> <<>>]

Compressed(design, s) ==
  CASE design = "echo"     -> <<s.buffer, s.counter + UnitSize>>
    [] design = "streebog" -> <<s.buffer, s.counter>>
    [] OTHER               -> s.buffer

Took(design, s, piece) ==
  LET n == [s EXCEPT !.buffer = Written(@, s.buffered, piece), !.buffered = @ + Len(piece)]
  IN IF n.buffered < UnitSize THEN n
     ELSE [n EXCEPT !.buffered = 0, !.counter = @ + UnitSize,
                    !.buffer = IF design = "fsb" THEN Blank ELSE @,
                    !.blocks = Append(@, Compressed(design, n))]

Pour(design, s, chunk) ==
  LET pieces == Pieces(UnitSize - s.buffered, chunk)
      after[i \in 0 .. Len(pieces)] == IF i = 0 THEN s ELSE Took(design, after[i - 1], pieces[i])
  IN after[Len(pieces)]

FillUpdate(design, s, chunk) == Pour(design, [s EXCEPT !.length = @ + Len(chunk)], chunk)

\* The last block: the tail, the marker, and zeros over what the buffer held.
Marked(s) == [Zeroed(s.buffer, s.buffered) EXCEPT ![s.buffered + 1] = <<"80">>]

\* The padding goes through the same buffer as the message.
HavalDigest(s) ==
  LET at      == s.length % UnitSize
      zeros   == (IF at < UnitSize - LengthField THEN UnitSize ELSE 2 * UnitSize) - LengthField - at - 1
      padded  == Pour("haval", s, <<<<"80">>>> \o Zeros(zeros))
      trailer == Zeros(LengthField - 1) \o <<<<"length", s.length>>>>
  IN Pour("haval", padded, trailer).blocks

\* Nothing is zeroed: the buffer is new since its block began.
FsbDigest(s) ==
  LET marked == [s.buffer EXCEPT ![s.buffered + 1] = <<"80">>]
      spills == s.buffered + 1 + LengthField > UnitSize
  IN s.blocks \o (IF spills THEN <<marked>> ELSE <<>>)
     \o <<WithLength(IF spills THEN Blank ELSE marked, s.length)>>

\* A block without a byte of the message in it is compressed under zero.
EchoDigest(s) ==
  LET total  == s.counter + s.buffered
      under  == IF s.buffered = 0 THEN 0 ELSE total
      spills == s.buffered + 1 > UnitSize - LengthField
  IN s.blocks \o IF spills
     THEN <<<<Marked(s), under>>, <<WithLength(Blank, total), 0>>>>
     ELSE <<<<WithLength(Marked(s), total), under>>>>

\* Always a last block; then what was counted, and the sum of the blocks.
StreebogDigest(s) ==
  LET blocks == Append(s.blocks, <<Marked(s), s.counter>>)
  IN blocks \o <<<<"count", s.counter + s.buffered>>, <<"sum", blocks>>>>

\* A tail is filled up with zeros and there is none where a block ended; the
\* length comes in a block of its own.
ZeroFilled(s) == IF s.buffered = 0 THEN s.blocks ELSE Append(s.blocks, Zeroed(s.buffer, s.buffered))

SnefruDigest(s) == Append(ZeroFilled(s), <<"length", s.length>>)
SimdDigest(s)   == Append(ZeroFilled(s), <<"length", s.counter + s.buffered>>)
GostDigest(s)   == ZeroFilled(s) \o <<<<"length", s.length>>, <<"sum", ZeroFilled(s)>>>>

\* A sum of words: what is left is a word with zeros.
WordsDigest(s) == ZeroFilled(s)

\* A sponge: always a last block with a marker, and no length.
SpongeDigest(s) == Append(s.blocks, Marked(s))

\* What mixes the tail byte by byte, with the length; HighwayHash, no tail
\* where there is none.
MurmurDigest(s)  == Append(s.blocks, <<"tail", Upto(s.buffer, s.buffered), s.length>>)
HighwayDigest(s) == IF s.buffered = 0 THEN s.blocks
                    ELSE Append(s.blocks, <<"tail", Upto(s.buffer, s.buffered), s.buffered>>)

\* n bytes of n, and a checksum of everything, which is no part of itself.
Md2Digest(s) ==
  LET padded == [i \in 1 .. UnitSize |-> IF i > s.buffered THEN <<"pad", UnitSize - s.buffered>>
                                         ELSE s.buffer[i]]
      blocks == Append(s.blocks, padded)
  IN Append(blocks, <<"checksum", blocks>>)

\* Shorter than a stripe, XXH32 and XXH64 are another function.
XxhDigest(s) == Append(s.blocks, <<IF s.length >= UnitSize THEN "long" ELSE "short",
                                   Upto(s.buffer, s.buffered), s.length>>)

-----------------------------------------------------------------------------
(* Emptied when full and more comes, for designs that treat the last block *)
(* unlike the others even where it is full.                                *)

HoldUpdate(s, chunk) ==
  LET take   == IF s.buffered = 0 THEN 0 ELSE Least(UnitSize - s.buffered, Len(chunk))
      merged == Written(s.buffer, s.buffered, Upto(chunk, take))
      body   == Rest(chunk, take)
      whole  == IF body = <<>> THEN 0 ELSE ((Len(body) - 1) \div UnitSize) * UnitSize
      over   == Rest(body, whole)
  IN IF s.buffered > 0 /\ (s.buffered + take < UnitSize \/ body = <<>>)
     THEN [s EXCEPT !.buffer = merged, !.buffered = @ + take]
     ELSE [s EXCEPT !.buffer = Written(merged, 0, over), !.buffered = Len(over),
                    !.blocks = @ \o (IF s.buffered > 0 THEN <<merged>> ELSE <<>>)
                                 \o Units(Upto(body, whole))]

LastBlock(tail) == <<"last", IF Len(tail) < UnitSize THEN Append(tail, <<"80">>) ELSE tail>>

EschDigest(s) == Append(s.blocks, LastBlock(Upto(s.buffer, s.buffered)))

\* The first bytes of the message are the state itself.
BeetleStart == [prologue |-> <<>>, rest |-> FillStart]

BeetleUpdate(s, chunk) ==
  LET take == IF Len(s.prologue) < Prologue THEN Least(Prologue - Len(s.prologue), Len(chunk)) ELSE 0
      over == Rest(chunk, take)
  IN [prologue |-> s.prologue \o Upto(chunk, take),
      rest     |-> IF over = <<>> THEN s.rest ELSE HoldUpdate(s.rest, over)]

Pad(bytes) == IF bytes = <<>> \/ Len(bytes) = UnitSize THEN bytes ELSE Append(bytes, <<"80">>)

BeetleDigest(s) ==
  LET held     == Upto(s.rest.buffer, s.rest.buffered)
      absorbed == Len(s.rest.blocks) * UnitSize + Len(held)
      domain   == IF absorbed = 0 THEN (IF Len(s.prologue) = Prologue THEN 2 ELSE 1)
                  ELSE IF absorbed % UnitSize = 0 THEN 1 ELSE 2
  IN IF Len(s.prologue) < Prologue
     THEN <<<<"state", s.prologue, IF s.prologue = <<>> THEN "whole" ELSE "padded">>, <<"domain", 1>>>>
     ELSE <<<<"state", s.prologue, "whole">>>> \o s.rest.blocks
          \o (IF held = <<>> THEN <<>> ELSE <<Pad(held)>>) \o <<<<"domain", domain>>>>

\* Skein tells each block where it ends, and whether it is the first or last.
SkeinStart == [buffer |-> Blank, buffered |-> 0, position |-> 0, first |-> TRUE, blocks |-> <<>>]

ProcessBuffered(s, final) ==
  LET position == s.position + s.buffered
  IN [s EXCEPT !.buffered = 0, !.position = position, !.first = FALSE,
               !.blocks = Append(@, <<Zeroed(s.buffer, s.buffered), position, s.first, final>>)]

SkeinUpdate(s, chunk) ==
  LET full   == s.buffered = UnitSize
      pieces == Pieces(IF full THEN UnitSize ELSE UnitSize - s.buffered, chunk)
      after[i \in 0 .. Len(pieces)] ==
        IF i = 0 THEN s
        ELSE LET was   == after[i - 1]
                 ready == IF was.buffered = UnitSize THEN ProcessBuffered(was, FALSE) ELSE was
             IN [ready EXCEPT !.buffer = Written(@, ready.buffered, pieces[i]), !.buffered = @ + Len(pieces[i])]
  IN after[Len(pieces)]

SkeinDigest(s) == ProcessBuffered(s, TRUE).blocks

-----------------------------------------------------------------------------
(* XXH3.  The buffer is never cleared: its last stripe is what a digest    *)
(* with less than a stripe in hand reaches back into.                      *)

BufferSize == BufferStripes * UnitSize

Xxh3Start == [buffer |-> Zeros(BufferSize), buffered |-> 0, stripes |-> 0, total |-> 0, acc |-> <<>>]

\* Stripes accumulated, with a scramble wherever a block completes.
Consumed(acc, soFar, stripes) ==
  LET after[i \in 0 .. Len(stripes)] ==
        IF i = 0 THEN [acc |-> acc, soFar |-> soFar]
        ELSE LET was  == after[i - 1]
                 next == Append(was.acc, <<stripes[i], was.soFar>>)
             IN IF was.soFar + 1 = StripesPerBlock
                THEN [acc |-> Append(next, <<"scramble">>), soFar |-> 0]
                ELSE [acc |-> next, soFar |-> was.soFar + 1]
  IN after[Len(stripes)]

Put(buffer, at, bytes) ==
  [i \in 1 .. BufferSize |-> IF i \in at + 1 .. at + Len(bytes) THEN bytes[i - at] ELSE buffer[i]]

Xxh3Update(s, chunk) ==
  LET load     == IF s.buffered = 0 THEN 0 ELSE BufferSize - s.buffered
      filled   == Put(s.buffer, s.buffered, Upto(chunk, load))
      first    == Consumed(s.acc, s.stripes, IF s.buffered = 0 THEN <<>> ELSE Units(filled))
      body     == Rest(chunk, load)
      whole    == IF Len(body) > BufferSize THEN ((Len(body) - 1) \div UnitSize) * UnitSize ELSE 0
      second   == Consumed(first.acc, first.soFar, Units(Upto(body, whole)))
      retained == IF whole = 0 THEN filled
                  ELSE Put(filled, BufferSize - UnitSize, SubSeq(body, whole - UnitSize + 1, whole))
  IN IF Len(chunk) <= BufferSize - s.buffered
     THEN [s EXCEPT !.buffer = Put(@, s.buffered, chunk), !.buffered = @ + Len(chunk), !.total = @ + Len(chunk)]
     ELSE [buffer |-> Put(retained, 0, Rest(body, whole)), buffered |-> Len(body) - whole,
           stripes |-> second.soFar, total |-> s.total + Len(chunk), acc |-> second.acc]

Xxh3Digest(s) ==
  LET held  == Upto(s.buffer, s.buffered)
      whole == ((s.buffered - 1) \div UnitSize) * UnitSize
      last  == IF s.buffered >= UnitSize THEN Rest(held, s.buffered - UnitSize)
               ELSE Rest(s.buffer, BufferSize - (UnitSize - s.buffered)) \o held
      acc   == IF s.buffered >= UnitSize THEN Consumed(s.acc, s.stripes, Units(Upto(held, whole))).acc ELSE s.acc
  IN IF s.total <= ShortInput THEN <<<<"short", Upto(s.buffer, s.total)>>>>
     ELSE acc \o <<<<"last", last>>, <<"length", s.total>>>>

-----------------------------------------------------------------------------
(* MD6.  above[l] holds the children of the node being filled at level     *)
(* l + 1, made[l] counts the nodes level l has given out.                  *)

Md6Start == [leaf |-> <<>>, above |-> <<>>, made |-> <<0>>]

Node(level, index, of, pad, root) == [level |-> level, index |-> index, of |-> of, pad |-> pad, root |-> root]

Leaf(s, root) == Node(1, s.made[1], s.leaf, UnitSize - Len(s.leaf), root)

\* A value joins level l + 1, and what that fills, or the end, closes.
Join(t, final) ==
  LET l     == t.level
      new   == l > Len(t.above)
      above == IF new THEN Append(t.above, <<>>) ELSE t.above
      made  == IF new THEN Append(t.made, 0) ELSE t.made
      of    == Append(above[l], t.carried)
      top   == final /\ l = Len(above)
      node  == Node(l + 1, made[l + 1], of, FanOut - Len(of), top)
      ended == [t EXCEPT !.above = [above EXCEPT ![l] = of], !.made = made, !.stopped = TRUE]
  IN IF (~final /\ Len(of) < FanOut) \/ (top /\ Len(of) = 1) THEN ended
     ELSE [above |-> [above EXCEPT ![l] = <<>>], made |-> [made EXCEPT ![l + 1] = @ + 1],
           carried |-> node, level |-> l + 1, stopped |-> top]

PushUp(s, leaf, final) ==
  LET start == [above |-> s.above, made |-> [s.made EXCEPT ![1] = @ + 1],
                carried |-> leaf, level |-> 1, stopped |-> FALSE]
      after[i \in 0 .. Len(s.above) + 1] ==
        IF i = 0 THEN start
        ELSE IF after[i - 1].stopped THEN after[i - 1] ELSE Join(after[i - 1], final)
  IN after[Len(s.above) + 1]

Md6Update(s, chunk) ==
  LET pieces == Pieces(IF Len(s.leaf) = UnitSize THEN UnitSize ELSE UnitSize - Len(s.leaf), chunk)
      Closed(t) == LET up == PushUp(t, Leaf(t, FALSE), FALSE)
                   IN [leaf |-> <<>>, above |-> up.above, made |-> up.made]
      after[i \in 0 .. Len(pieces)] ==
        IF i = 0 THEN s
        ELSE LET ready == IF Len(after[i - 1].leaf) = UnitSize THEN Closed(after[i - 1]) ELSE after[i - 1]
             IN [ready EXCEPT !.leaf = @ \o pieces[i]]
  IN after[Len(pieces)]

Md6Digest(s) ==
  LET alone == s.above = <<>>
  IN IF alone THEN <<Leaf(s, TRUE)>> ELSE <<PushUp(s, Leaf(s, FALSE), TRUE).carried>>

-----------------------------------------------------------------------------
(* The hasher of a design. *)

Filling == {"haval", "fsb", "echo", "streebog", "snefru", "simd", "gost", "sponge", "murmur", "highway"}
Bulk    == {"marked", "md2", "xxh", "words"}  \* which take whole blocks from the chunk
Designs == Filling \cup Bulk \cup {"esch", "beetle", "skein", "xxh3", "md6"}

DigestStart(design) ==
  CASE design = "beetle" -> BeetleStart
    [] design = "skein"  -> SkeinStart
    [] design = "xxh3"   -> Xxh3Start
    [] design = "md6"    -> Md6Start
    [] design \in Bulk   -> HashStart
    [] OTHER             -> FillStart

DigestUpdate(design, s, chunk) ==
  CASE design \in Filling -> FillUpdate(design, s, chunk)
    [] design \in Bulk    -> HashUpdate(s, chunk)
    [] design = "esch"    -> HoldUpdate(s, chunk)
    [] design = "beetle"  -> BeetleUpdate(s, chunk)
    [] design = "skein"   -> SkeinUpdate(s, chunk)
    [] design = "xxh3"    -> Xxh3Update(s, chunk)
    [] design = "md6"     -> Md6Update(s, chunk)

DigestOf(design, s) ==
  CASE design = "haval"    -> HavalDigest(s)
    [] design = "fsb"      -> FsbDigest(s)
    [] design = "echo"     -> EchoDigest(s)
    [] design = "streebog" -> StreebogDigest(s)
    [] design = "snefru"   -> SnefruDigest(s)
    [] design = "simd"     -> SimdDigest(s)
    [] design = "gost"     -> GostDigest(s)
    [] design = "sponge"   -> SpongeDigest(s)
    [] design = "murmur"   -> MurmurDigest(s)
    [] design = "highway"  -> HighwayDigest(s)
    [] design = "marked"   -> HashDigest(s)
    [] design = "md2"      -> Md2Digest(s)
    [] design = "xxh"      -> XxhDigest(s)
    [] design = "words"    -> WordsDigest(s)
    [] design = "esch"     -> EschDigest(s)
    [] design = "beetle"   -> BeetleDigest(s)
    [] design = "skein"    -> SkeinDigest(s)
    [] design = "xxh3"     -> Xxh3Digest(s)
    [] design = "md6"      -> Md6Digest(s)

\* No design keeps more than a block of the message, XXH3 its buffer, and
\* MD6 besides that no full level.
HoldsLittle(design, s) ==
  CASE design \in Filling \cup Bulk   -> s.buffered < UnitSize
    [] design \in {"esch", "skein"} -> s.buffered <= UnitSize
    [] design = "beetle" -> Len(s.prologue) <= Prologue /\ s.rest.buffered <= UnitSize
    [] design = "xxh3"   -> s.buffered <= BufferSize /\ s.stripes < StripesPerBlock
    [] design = "md6"    -> Len(s.leaf) <= UnitSize /\ \A l \in DOMAIN s.above : Len(s.above[l]) < FanOut

-----------------------------------------------------------------------------
(* What each design is of a whole message. *)

Aligned(d) == Upto(d, (Len(d) \div UnitSize) * UnitSize)
Remainder(d)    == Rest(d, Len(Aligned(d)))

\* Zeros up to the end of a block.
Filled(d) == d \o Zeros((UnitSize - (Len(d) % UnitSize)) % UnitSize)

Padded(d) ==
  LET zeros == CHOOSE z \in 0 .. UnitSize - 1 : (Len(d) + 1 + z + LengthField) % UnitSize = 0
  IN d \o <<<<"80">>>> \o Zeros(zeros + LengthField - 1) \o <<<<"length", Len(d)>>>>

EchoOf(d) ==
  LET blocks == Units(Padded(d))
  IN [i \in DOMAIN blocks |->
        <<blocks[i], IF (i - 1) * UnitSize < Len(d) THEN Least(i * UnitSize, Len(d)) ELSE 0>>]

StreebogOf(d) ==
  LET units  == Units(Filled(Append(d, <<"80">>)))
      blocks == [i \in DOMAIN units |-> <<units[i], (i - 1) * UnitSize>>]
  IN blocks \o <<<<"count", Len(d)>>, <<"sum", blocks>>>>

Md2Of(d) ==
  LET n      == UnitSize - (Len(d) % UnitSize)
      blocks == Units(d \o [i \in 1 .. n |-> <<"pad", n>>])
  IN Append(blocks, <<"checksum", blocks>>)

\* Cut into blocks of which the last may be full, and is there in any case.
Blocks(d) == IF d = <<>> THEN <<<<>>>> ELSE Units(d)

EschOf(d) ==
  LET units == Blocks(d) IN [i \in DOMAIN units |-> IF i = Len(units) THEN LastBlock(units[i]) ELSE units[i]]

SkeinOf(d) ==
  LET units == Blocks(d)
  IN [i \in DOMAIN units |->
        <<IF units[i] = <<>> THEN Blank ELSE Filled(units[i]), Least(i * UnitSize, Len(d)), i = 1, i = Len(units)>>]

BeetleOf(d) ==
  LET rest == Units(Rest(d, Prologue))
  IN IF Len(d) < Prologue
     THEN <<<<"state", d, IF d = <<>> THEN "whole" ELSE "padded">>, <<"domain", 1>>>>
     ELSE <<<<"state", Upto(d, Prologue), "whole">>>> \o [i \in DOMAIN rest |-> Pad(rest[i])]
          \o <<<<"domain", IF Len(d) > Prologue /\ (Len(d) - Prologue) % UnitSize = 0 THEN 1 ELSE 2>>>>

\* hashLong: every stripe that begins before the last byte, scrambled by the
\* block, and then the last stripe's worth of bytes once more.
Xxh3Of(d) ==
  LET stripes == (Len(d) - 1) \div UnitSize
      Stripe(i) == <<SubSeq(d, (i - 1) * UnitSize + 1, i * UnitSize), (i - 1) % StripesPerBlock>>
      acc[i \in 0 .. stripes] ==
        IF i = 0 THEN <<>>
        ELSE Append(acc[i - 1], Stripe(i)) \o IF i % StripesPerBlock = 0 THEN <<<<"scramble">>>> ELSE <<>>
  IN IF Len(d) <= ShortInput THEN <<<<"short", d>>>>
     ELSE acc[stripes] \o <<<<"last", Rest(d, Len(d) - UnitSize)>>, <<"length", Len(d)>>>>

\* The tree built row by row over the leaves, whose single top is the root.
Md6Of(d) ==
  LET leaves == Blocks(d)
      row[l \in 1 .. Len(leaves)] ==
        IF l = 1
        THEN [i \in DOMAIN leaves |->
                Node(1, i - 1, leaves[i], UnitSize - Len(leaves[i]), Len(leaves) = 1)]
        ELSE IF Len(row[l - 1]) = 1 THEN row[l - 1]
        ELSE LET below == row[l - 1]
                 count == (Len(below) + FanOut - 1) \div FanOut
             IN [i \in 1 .. count |->
                   LET of == SubSeq(below, (i - 1) * FanOut + 1, Least(i * FanOut, Len(below)))
                   IN Node(l, i - 1, of, FanOut - Len(of), count = 1)]
  IN row[Len(leaves)]

DigestOneShot(design, d) ==
  CASE design \in {"haval", "fsb", "marked"} -> Units(Padded(d))
    [] design = "echo"     -> EchoOf(d)
    [] design = "streebog" -> StreebogOf(d)
    [] design \in {"snefru", "simd"} -> Append(Units(Filled(d)), <<"length", Len(d)>>)
    [] design = "words"    -> Units(Filled(d))
    [] design = "gost"     -> Units(Filled(d)) \o <<<<"length", Len(d)>>, <<"sum", Units(Filled(d))>>>>
    [] design = "sponge"   -> Units(Filled(Append(d, <<"80">>)))
    [] design = "murmur"   -> Append(Units(Aligned(d)), <<"tail", Remainder(d), Len(d)>>)
    [] design = "highway"  -> Units(Aligned(d)) \o IF Remainder(d) = <<>> THEN <<>> ELSE <<<<"tail", Remainder(d), Len(Remainder(d))>>>>
    [] design = "md2"      -> Md2Of(d)
    [] design = "xxh"      -> Append(Units(Aligned(d)), <<IF Len(d) >= UnitSize THEN "long" ELSE "short", Remainder(d), Len(d)>>)
    [] design = "esch"     -> EschOf(d)
    [] design = "beetle"   -> BeetleOf(d)
    [] design = "skein"    -> SkeinOf(d)
    [] design = "xxh3"     -> Xxh3Of(d)
    [] design = "md6"      -> Md6Of(d)
=============================================================================
