--------------------------- MODULE ComputePromise ---------------------------
(***************************************************************************)
(* What computing a file promises its callers, however it is done: each    *)
(* call is answered once, and an answer that carries output carries the    *)
(* whole of what the tool makes of the file, every piece once and in       *)
(* order.                                                                  *)
(***************************************************************************)
CONSTANTS Calls,  \* the calls made
          Whole   \* call -> everything the tool makes of its file, in order

VARIABLES promise,  \* call -> "none", "open" or how it was settled
          value     \* call -> the output it was settled with

vars == <<promise, value>>

Failures == {"toolError", "failed", "aborted"}

Init == /\ promise = [c \in Calls |-> "none"]
        /\ value = [c \in Calls |-> <<>>]

Open(c) == /\ promise[c] = "none"
           /\ promise' = [promise EXCEPT ![c] = "open"]
           /\ UNCHANGED value

\* A call may be refused as it is made.
Fail(c) == /\ promise[c] \in {"none", "open"}
           /\ \E f \in Failures : promise' = [promise EXCEPT ![c] = f]
           /\ UNCHANGED value

Resolve(c) == /\ promise[c] = "open"
              /\ promise' = [promise EXCEPT ![c] = "resolved"]
              /\ value' = [value EXCEPT ![c] = Whole[c]]

Next == \E c \in Calls : Open(c) \/ Fail(c) \/ Resolve(c)

Spec == Init /\ [][Next]_vars
=============================================================================
