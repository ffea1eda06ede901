--------------------------- MODULE MCFileCompute ---------------------------
(***************************************************************************)
(* Small instances of FileCompute: a cipher that emits as it reads, a pass *)
(* over all variants, a one-shot tool and a random-access one on large     *)
(* files, and a file its tool refuses.                                     *)
(***************************************************************************)
EXTENDS FileCompute

CONSTANTS cipher, variants, oneShot, archive, refused

MCMode == [c \in Calls |->
  IF c = oneShot THEN "buffered" ELSE IF c = archive THEN "random-access" ELSE "streaming"]

\* The cipher hands over two pieces, then none, then one when it finishes; a
\* tool that hands over nothing on the way has a digest at the end.
MCWhole == [c \in Calls |-> IF c = cipher THEN <<1, 2, 9>> ELSE <<9>>]
MCCut == [c \in Calls |-> [k \in 0..(Chunks + 1) |->
  IF k = Chunks + 1 THEN Len(MCWhole[c]) ELSE IF c = cipher /\ k > 0 THEN 2 ELSE 0]]
=============================================================================
