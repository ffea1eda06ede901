---------------------------- MODULE ByteStreams ----------------------------
(***************************************************************************)
(* Three ways of cutting a byte stream into units of a fixed size: the     *)
(* keystream adapters of the raw stream ciphers, GCM's incremental         *)
(* encryptor, and the buffer every Merkle-Damgard hash shares.             *)
(*                                                                         *)
(* A keystream byte is its position, a byte xored with it the pair of both *)
(* (<<"x", byte, position>>); a hash is the list of blocks it compressed.  *)
(***************************************************************************)
EXTENDS Integers, Sequences

CONSTANTS UnitSize,     \* of an ARX block, a cipher word, a hash block
          LengthField   \* bytes of the length at the end of a hashed message

ASSUME UnitsAreUnits == UnitSize \in Nat \ {0} /\ LengthField \in 1 .. UnitSize

Upto(s, n) == SubSeq(s, 1, n)
Rest(s, n) == SubSeq(s, n + 1, Len(s))
Least(a, b) == IF a < b THEN a ELSE b

\* s cut into units, the last of which may be short.
Units(s) == [i \in 1 .. (Len(s) + UnitSize - 1) \div UnitSize |->
              SubSeq(s, (i - 1) * UnitSize + 1, Least(i * UnitSize, Len(s)))]

\* data xored with the keystream from position at on.
XorFrom(data, at) == [i \in DOMAIN data |-> <<"x", data[i], at + i - 1>>]

-----------------------------------------------------------------------------
(* arxEngine, whose block counter is addressable, and roundedEngine, whose  *)
(* generator only goes forward a word at a time: what is left of a unit is  *)
(* held for the next chunk.  unit is the counter, or the words drawn.       *)

RawStart == [unit |-> 0, held |-> <<>>]

RawUpdate(s, chunk) ==
  LET used  == Least(Len(chunk), Len(s.held))
      left  == Len(chunk) - used
      whole == left \div UnitSize
      tail  == left % UnitSize
      \* the unit drawn for the tail, none when the chunk ends with a unit
      drawn == IF tail = 0 THEN <<>>
               ELSE [i \in 1 .. UnitSize |-> (s.unit + whole) * UnitSize + i - 1]
  IN [state |-> [unit |-> s.unit + whole + (IF tail = 0 THEN 0 ELSE 1),
                 held |-> IF tail = 0 THEN Rest(s.held, used) ELSE Rest(drawn, tail)],
      out   |-> [i \in 1 .. used |-> <<"x", chunk[i], s.held[i]>>]
                \o XorFrom(SubSeq(chunk, used + 1, used + whole * UnitSize), s.unit * UnitSize)
                \o [i \in 1 .. tail |-> <<"x", chunk[used + whole * UnitSize + i], drawn[i]>>]]

\* littleEndian64Engine: byte by byte out of the newest word.
WordStart == [unit |-> 0, at |-> UnitSize]

WordUpdate(s, chunk) ==
  LET after[i \in 0 .. Len(chunk)] ==
        IF i = 0 THEN [state |-> s, out |-> <<>>]
        ELSE LET was  == after[i - 1]
                 full == was.state.at = UnitSize
                 unit == IF full THEN was.state.unit + 1 ELSE was.state.unit
                 at   == IF full THEN 0 ELSE was.state.at
             IN [state |-> [unit |-> unit, at |-> at + 1],
                 out   |-> Append(was.out, <<"x", chunk[i], (unit - 1) * UnitSize + at>>)]
  IN after[Len(chunk)]

RawOneShot(data) == XorFrom(data, 0)

-----------------------------------------------------------------------------
(* GCM.  GHASH pads every update of its own to whole blocks, which is why   *)
(* the ciphertext has to be handed to it in whole blocks until the end.     *)

Ghash(bytes) == [i \in DOMAIN Units(bytes) |->
                   LET u == Units(bytes)[i] IN u \o [j \in 1 .. UnitSize - Len(u) |-> <<"0">>]]

Tag(blocks, length) == <<"tag", Append(blocks, <<"length", length>>)>>

GcmStart == [at |-> 0, blocks |-> <<>>, tail |-> <<>>]

GcmUpdate(s, chunk) ==
  LET cipher == XorFrom(chunk, s.at)
      take   == IF s.tail = <<>> THEN 0 ELSE Least(UnitSize - Len(s.tail), Len(cipher))
      tail   == s.tail \o Upto(cipher, take)
      filled == Len(tail) = UnitSize
      body   == Rest(cipher, take)
      whole  == (Len(body) \div UnitSize) * UnitSize
      over   == Rest(body, whole)
  IN [state |-> [at     |-> s.at + Len(chunk),
                 blocks |-> s.blocks \o (IF filled THEN Ghash(tail) ELSE <<>>) \o Ghash(Upto(body, whole)),
                 tail   |-> IF over # <<>> THEN over ELSE IF filled THEN <<>> ELSE tail],
      out   |-> cipher]

GcmFinish(s) == <<Tag(s.blocks \o Ghash(s.tail), s.at)>>

\* gcmDecrypt: the tag is that of the whole ciphertext, or nothing comes out.
GcmDecrypt(sealed) ==
  LET cipher == Upto(sealed, Len(sealed) - 1)
  IN IF Len(sealed) > 0 /\ sealed[Len(sealed)] = Tag(Ghash(cipher), Len(cipher))
     THEN [ok |-> TRUE, out |-> [i \in DOMAIN cipher |-> cipher[i][2]]]
     ELSE [ok |-> FALSE, out |-> <<>>]

-----------------------------------------------------------------------------
(* MerkleDamgard.  The buffer keeps its old bytes until they are written    *)
(* over: only buffered says how many of them count.                         *)

HashStart == [buffer |-> [i \in 1 .. UnitSize |-> <<"0">>], buffered |-> 0,
              length |-> 0, blocks |-> <<>>]

Written(buffer, at, bytes) ==
  [i \in 1 .. UnitSize |-> IF i \in at + 1 .. at + Len(bytes) THEN bytes[i - at] ELSE buffer[i]]

HashUpdate(s, chunk) ==
  LET take   == IF s.buffered = 0 THEN 0 ELSE Least(UnitSize - s.buffered, Len(chunk))
      merged == Written(s.buffer, s.buffered, Upto(chunk, take))
      short  == s.buffered > 0 /\ s.buffered + take < UnitSize
      body   == Rest(chunk, take)
      whole  == (Len(body) \div UnitSize) * UnitSize
      over   == Rest(body, whole)
  IN IF short
     THEN [s EXCEPT !.buffer = merged, !.buffered = @ + take, !.length = @ + Len(chunk)]
     ELSE [buffer   |-> Written(merged, 0, over),
           buffered |-> Len(over),
           length   |-> s.length + Len(chunk),
           blocks   |-> s.blocks \o (IF s.buffered > 0 THEN <<merged>> ELSE <<>>)
                                 \o Units(Upto(body, whole))]

Zeroed(buffer, at) == [i \in 1 .. UnitSize |-> IF i > at THEN <<"0">> ELSE buffer[i]]
WithLength(buffer, length) == [buffer EXCEPT ![UnitSize] = <<"length", length>>]

HashDigest(s) ==
  LET at      == s.buffered + 1
      marked  == [s.buffer EXCEPT ![at] = <<"80">>]
      spills  == at + LengthField > UnitSize
      flushed == IF spills THEN <<Zeroed(marked, at)>> ELSE <<>>
  IN s.blocks \o flushed
     \o <<WithLength(Zeroed(marked, IF spills THEN 0 ELSE at), s.length)>>
=============================================================================
