----------------------------- MODULE LatestWins -----------------------------
(***************************************************************************)
(* What a panel that shows the answer to a changing question promises.     *)
(*                                                                         *)
(* Questions are numbered as they are asked.  An answer can be painted     *)
(* only while it is the answer to the newest question and that question is *)
(* still open, so an answer is painted at most once, a late answer is      *)
(* never painted over a newer one, and an answer taken off the screen      *)
(* never comes back.  0 stands for "no answer on screen".                  *)
(***************************************************************************)
EXTENDS Naturals

VARIABLES asked,  \* how many questions have been asked; also the newest one
          open,   \* the newest question can still be answered
          shown   \* the question whose answer is on screen, or 0

vars == <<asked, open, shown>>

TypeOK == /\ asked \in Nat
          /\ open \in BOOLEAN
          /\ shown \in Nat

Init == asked = 0 /\ open = FALSE /\ shown = 0

\* A new question.  The old answer may stay up while the new one is worked
\* out, and the question may turn out to need no work at all.
Ask == /\ asked' = asked + 1
       /\ open' \in BOOLEAN
       /\ shown' \in {shown, 0}

\* The newest question is answered, with a value or (0) with a failure.
Answer == /\ open
          /\ open' = FALSE
          /\ shown' \in {asked, 0}
          /\ UNCHANGED asked

\* The newest question may be given up and the old answer may be taken down;
\* neither puts anything on the screen.
Withdraw == /\ open' \in {open, FALSE}
            /\ shown' \in {shown, 0}
            /\ UNCHANGED asked

\* A different tool is opened: the panel starts again.
Restart == asked' = 0 /\ open' = FALSE /\ shown' = 0

Next == Ask \/ Answer \/ Withdraw \/ Restart

Spec == Init /\ [][Next]_vars
=============================================================================
