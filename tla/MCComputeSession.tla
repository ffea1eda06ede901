-------------------------- MODULE MCComputeSession --------------------------
(***************************************************************************)
(* Small instances of ComputeSession: a hash, which reads its input typed  *)
(* or from a file; a generator that reads nothing under one of its two     *)
(* settings and accepts no file; and keys, the RSA tool, which takes files *)
(* and reads nothing while it generates a key pair.                        *)
(***************************************************************************)
EXTENDS ComputeSession

CONSTANTS hash, generator, keys, s1, s2, f, stampF, stampG

MCAccepted == [t \in Tools |-> IF t = generator THEN {"text"} ELSE Modes]
MCReads    == [t \in Tools |-> [s \in Specs |-> t = hash \/ s = s2]]
MCStamp    == [x \in Files |-> IF x = f THEN stampF ELSE stampG]
MCMaterial == [t \in Tools |-> FALSE]
=============================================================================
