------------------------- MODULE MCVariantsSession -------------------------
(***************************************************************************)
(* A small instance of VariantsSession: a tool that reads the input under  *)
(* one of its settings only, two texts one of which does not decode, and   *)
(* two files.                                                              *)
(***************************************************************************)
EXTENDS VariantsSession

CONSTANTS reads, derives, stampF, stampG, f, g

MCReads == [s \in Specs |-> s = reads]
MCStamp == [x \in Files |-> IF x = f THEN stampF ELSE stampG]
=============================================================================
