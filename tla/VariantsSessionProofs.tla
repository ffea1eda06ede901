----------------------- MODULE VariantsSessionProofs -----------------------
(***************************************************************************)
(* Proofs about VariantsSession, for all settings, texts, files and stamps *)
(* and for any number of passes and of mounted hooks.                      *)
(*                                                                         *)
(* The argument rests on what no single promise states: one pass at most   *)
(* has not had its signal raised; while the panel says that one runs its   *)
(* controller is the one held; and rows and passes carry the content and   *)
(* the key of one and the same box, the box of the press.                  *)
(***************************************************************************)
EXTENDS VariantsSession, TLAPS

Honest(content, key) == \E b \in Boxes : content = Content(b) /\ key = InputKey(b)

PassesAreHonest == \A p \in passes : Honest(p.content, p.key)
RowsAreHonest   == values # None => Honest(values.content, ranKey)

OneUnraised ==
  /\ \A p, q \in passes : ~p.aborted /\ ~q.aborted => p = q
  /\ \A p \in passes : p.mount = mount /\ p.aborted => p.job < job
RunningIsHeld == status = "running" => controller = job
FreshHook     == ~loaded => job = 1 /\ status # "running"

\* The inductive invariant.
IInv == /\ TypeOK /\ PassesAreHonest /\ RowsAreHonest
        /\ OneUnraised /\ RunningIsHeld /\ FreshHook /\ OnlyNewestReads

-----------------------------------------------------------------------------
(* Keys and contents. *)

\* Two boxes with one key have one content, or two files with one stamp.
LEMMA KeyTells ==
  ASSUME NEW a \in Boxes, NEW b \in Boxes, InputKey(a) = InputKey(b)
  PROVE  \/ Content(a) = Content(b)
         \/ /\ Content(a)[1] = "file" /\ Content(b)[1] = "file"
            /\ Stamp[Content(a)[2]] = Stamp[b.file]
<1>1. CASE ~ReadsInput[a.spec] \/ ~ReadsInput[b.spec]
  BY <1>1 DEF InputKey, Content
<1>2. CASE /\ ReadsInput[a.spec] /\ ReadsInput[b.spec]
           /\ a.source = "typed" \/ b.source = "typed"
  BY <1>2 DEF InputKey, Content, Boxes
<1>3. CASE /\ ReadsInput[a.spec] /\ ReadsInput[b.spec]
           /\ a.source = "file" /\ b.source = "file"
  <2>1. Content(a) = <<"file", a.file>> /\ Content(b) = <<"file", b.file>>
    BY <1>3 DEF Content
  <2>2. a.file = b.file \/ Stamp[a.file] = Stamp[b.file]
    BY <1>3 DEF InputKey
  <2> QED BY <2>1, <2>2
<1> QED BY <1>1, <1>2, <1>3 DEF Boxes

\* Rows of an honest pass are marked unless they are those of the box.
LEMMA HonestRows == TypeOK /\ RowsAreHonest => UnmarkedIsCurrent
<1> SUFFICES ASSUME TypeOK, RowsAreHonest, values # None, ~Stale
             PROVE  \/ values.content = Content(box)
                    \/ /\ values.content[1] = "file" /\ Content(box)[1] = "file"
                       /\ Stamp[values.content[2]] = Stamp[box.file]
  BY DEF UnmarkedIsCurrent
<1>1. PICK b \in Boxes : values.content = Content(b) /\ ranKey = InputKey(b)
  BY DEF RowsAreHonest, Honest
<1>2. InputKey(b) = InputKey(box)
  BY <1>1, VNone DEF Stale
<1> QED BY <1>1, <1>2, KeyTells DEF TypeOK

-----------------------------------------------------------------------------
(* Raising the signal of the controller that is held. *)

\* Nothing but its signal tells a pass of Aborted from the pass it was.
LEMMA AbortedPass ==
  ASSUME passes \subseteq Passes, NEW q \in Aborted
  PROVE  \E p \in passes :
           /\ q \in Passes
           /\ q.mount = p.mount /\ q.job = p.job /\ q.content = p.content /\ q.key = p.key
           /\ q.stage = p.stage
           /\ q.aborted <=> p.aborted \/ (p.mount = mount /\ p.job = controller)
<1>1. PICK p \in passes : q = [p EXCEPT !.aborted = @ \/ (p.mount = mount /\ p.job = controller)]
  BY DEF Aborted
<1>2. p \in Passes
  OBVIOUS
<1> QED BY <1>1, <1>2 DEF Passes

\* Then every pass has its signal raised, for the one that had not is held.
LEMMA AllRaised ==
  ASSUME IInv, NEW q \in Aborted
  PROVE  q.aborted
<1>1. passes \subseteq Passes
  BY DEF IInv, TypeOK
<1>2. PICK p \in passes : q.aborted <=> p.aborted \/ (p.mount = mount /\ p.job = controller)
  BY <1>1, AbortedPass
<1>3. ~p.aborted => p.mount = mount /\ p.job = job /\ controller = job
  BY DEF IInv, OnlyNewestReads, RunningIsHeld, Heard, Live
<1> QED BY <1>2, <1>3

LEMMA AbortedHonest ==
  ASSUME IInv
  PROVE  \A q \in Aborted : /\ q \in Passes /\ Honest(q.content, q.key) /\ q.mount <= mount
                            /\ q.mount = mount => q.job <= job
<1> TAKE q \in Aborted
<1>1. passes \subseteq Passes
  BY DEF IInv, TypeOK
<1>2. PICK p \in passes : /\ q \in Passes /\ q.mount = p.mount /\ q.job = p.job
                          /\ q.content = p.content /\ q.key = p.key
  BY <1>1, AbortedPass
<1> QED BY <1>2 DEF IInv, TypeOK, PassesAreHonest

-----------------------------------------------------------------------------
(* Each action keeps the invariant, and is a step of LatestWins or none. *)

Kept == IInv' /\ [Latest!Next]_(Latest!vars)

USE VBounds DEF Heard, Live, panel

LEMMA ContentNotNone == \A b \in Boxes : InputKey(b) # None
BY VNone

LEMMA EditBoxStep == IInv /\ EditBox => Kept
<1> SUFFICES ASSUME IInv, EditBox PROVE Kept
  OBVIOUS
<1> USE DEF IInv, EditBox
<1>1. box' \in Boxes
  BY DEF TypeOK, Boxes
<1>2. TypeOK'
  BY <1>1 DEF TypeOK
<1>3. /\ PassesAreHonest' /\ RowsAreHonest' /\ OneUnraised' /\ RunningIsHeld'
      /\ FreshHook' /\ OnlyNewestReads'
  BY DEF PassesAreHonest, RowsAreHonest, Honest, OneUnraised, RunningIsHeld, FreshHook, OnlyNewestReads
<1>4. UNCHANGED Latest!vars
  BY DEF Latest!vars
<1> QED BY <1>2, <1>3, <1>4 DEF Kept

LEMMA RunStep == IInv /\ Run => Kept
<1> SUFFICES ASSUME IInv, Run PROVE Kept
  OBVIOUS
<1> USE DEF Run
<1> DEFINE pass == [mount |-> mount, job |-> job', content |-> Content(box),
                    key |-> InputKey(box), aborted |-> FALSE,
                    stage |-> IF ReadsInput[box.spec] /\ box.source = "file"
                              THEN "reading" ELSE "preparing"]
<1>1. box \in Boxes /\ job \in 1 .. MaxJob - 1 /\ job' = job + 1 /\ mount \in 1 .. MaxMount
  BY DEF IInv, TypeOK
<1>2. pass \in Passes
  BY <1>1 DEF Passes
<1>3. passes' \subseteq Aborted \cup {pass}
  OBVIOUS
<1>4. \A q \in Aborted : q.aborted
  BY AllRaised
<1>5. loaded
  BY DEF CanRun
<1>6. TypeOK'
  <2>1. passes' \subseteq Passes
    BY <1>2, <1>3, AbortedHonest
  <2>2. \A p \in passes' : p.mount <= mount /\ (p.mount = mount => p.job <= job')
    BY <1>1, <1>2, <1>3, AbortedHonest DEF Passes
  <2>3. status' \in {"running", "error"} /\ progress' \in [job : 1 .. MaxJob, moved : BOOLEAN]
    BY <1>1
  <2> QED BY <1>1, <2>1, <2>2, <2>3 DEF IInv, TypeOK
<1>7. PassesAreHonest'
  <2>1. \A p \in passes' : Honest(p.content, p.key)
    BY <1>1, <1>3, AbortedHonest DEF Honest
  <2> QED BY <2>1 DEF PassesAreHonest, Honest
<1>8. RowsAreHonest'
  BY DEF IInv, RowsAreHonest, Honest
<1>9. OneUnraised'
  <2>1. \A q \in Aborted : q.mount = mount => q.job < job'
    BY <1>1, AbortedHonest DEF Passes
  <2>2. ~pass.aborted
    OBVIOUS
  <2>3. \A p \in passes' : ~p.aborted => p = pass
    BY <1>3, <1>4
  <2>4. \A p \in passes' : p.mount = mount' /\ p.aborted => p.job < job'
    BY <1>3, <2>1, <2>2
  <2> QED BY <2>3, <2>4 DEF OneUnraised
<1>10. OnlyNewestReads'
  <2>1. pass.mount = mount /\ pass.job = job' /\ ~pass.aborted
    OBVIOUS
  <2>2. \A p \in passes' : ~p.aborted => p = pass
    BY <1>3, <1>4
  <2>3. \A p \in passes' : ~p.aborted => status' = "running"
    BY <1>4
  <2>4. status' = "running" => pass \in passes'
    OBVIOUS
  <2>5. progress' \in [job : 1 .. MaxJob, moved : BOOLEAN] /\ progress'.job = job'
    BY <1>1
  <2>6. progress' # None
    BY <2>5, VNone
  <2> QED BY <2>1, <2>2, <2>3, <2>4, <2>5, <2>6 DEF OnlyNewestReads
<1>11. RunningIsHeld' /\ FreshHook'
  BY <1>5 DEF RunningIsHeld, FreshHook
<1>12. Latest!Ask
  BY <1>1 DEF Latest!Ask
<1> QED BY <1>6, <1>7, <1>8, <1>9, <1>10, <1>11, <1>12 DEF Kept, IInv, Latest!Next

\* What a stop, the tool's arrival and a remount have in common: every pass
\* has its signal raised and a number no later pass will have.
LEMMA RaisedStep ==
  ASSUME IInv, passes' = Aborted, status' = "idle", box' = box, controller' = 0,
         \/ mount' = mount /\ job' = job + 1
         \/ mount' = mount + 1
  PROVE  /\ PassesAreHonest' /\ OneUnraised' /\ RunningIsHeld' /\ OnlyNewestReads'
         /\ passes' \subseteq Passes
         /\ \A p \in passes' : p.mount <= mount' /\ (p.mount = mount' => p.job <= job')
<1>1. job \in 1 .. MaxJob + 1 /\ mount \in 1 .. MaxMount
  BY DEF IInv, TypeOK
<1>2. \A p \in passes' : p.aborted
  BY AllRaised
<1>3. \A p \in passes' : p.mount = mount' => p.job < job'
  BY <1>1, AbortedHonest DEF Passes
<1>4. PassesAreHonest'
  BY AbortedHonest DEF PassesAreHonest, Honest
<1>5. OneUnraised' /\ RunningIsHeld' /\ OnlyNewestReads'
  BY <1>2, <1>3 DEF OneUnraised, RunningIsHeld, OnlyNewestReads
<1>6. \A p \in passes' : p \in Passes /\ p.mount <= mount' /\ (p.mount = mount' => p.job <= job')
  BY <1>1, <1>3, AbortedHonest DEF Passes
<1> QED BY <1>4, <1>5, <1>6

LEMMA StopStep == IInv /\ Stop => Kept
<1> SUFFICES ASSUME IInv, Stop PROVE Kept
  OBVIOUS
<1> USE DEF Stop
<1>1. /\ PassesAreHonest' /\ OneUnraised' /\ RunningIsHeld' /\ OnlyNewestReads'
      /\ passes' \subseteq Passes
      /\ \A p \in passes' : p.mount <= mount' /\ (p.mount = mount' => p.job <= job')
  BY RaisedStep
<1>2. TypeOK'
  BY <1>1 DEF IInv, TypeOK
<1>3. RowsAreHonest'
  BY DEF IInv, RowsAreHonest, Honest
<1>4. FreshHook'
  BY DEF IInv, FreshHook, RunningIsHeld, TypeOK, OnlyNewestReads, OneUnraised
<1>5. Latest!Ask
  BY DEF Latest!Ask, IInv, TypeOK
<1> QED BY <1>1, <1>2, <1>3, <1>4, <1>5 DEF Kept, IInv, Latest!Next

LEMMA ToolArrivesStep == IInv /\ ToolArrives => Kept
<1> SUFFICES ASSUME IInv, ToolArrives PROVE Kept
  OBVIOUS
<1> USE DEF ToolArrives
<1>1. /\ PassesAreHonest' /\ OneUnraised' /\ RunningIsHeld' /\ OnlyNewestReads'
      /\ passes' \subseteq Passes
      /\ \A p \in passes' : p.mount <= mount' /\ (p.mount = mount' => p.job <= job')
  BY RaisedStep
<1>2. TypeOK'
  BY <1>1 DEF IInv, TypeOK, FreshHook
<1>3. RowsAreHonest' /\ FreshHook'
  BY DEF RowsAreHonest, FreshHook
<1>4. Latest!Ask
  BY DEF Latest!Ask, IInv, TypeOK
<1> QED BY <1>1, <1>2, <1>3, <1>4 DEF Kept, IInv, Latest!Next

LEMMA RemountStep == IInv /\ Remount => Kept
<1> SUFFICES ASSUME IInv, Remount PROVE Kept
  OBVIOUS
<1> USE DEF Remount
<1>1. /\ PassesAreHonest' /\ OneUnraised' /\ RunningIsHeld' /\ OnlyNewestReads'
      /\ passes' \subseteq Passes
      /\ \A p \in passes' : p.mount <= mount' /\ (p.mount = mount' => p.job <= job')
  BY RaisedStep
<1>2. TypeOK'
  <2>1. mount' \in 1 .. MaxMount /\ job' \in 1 .. MaxJob + 1 /\ box \in Boxes
    BY DEF IInv, TypeOK
  <2> QED BY <1>1, <2>1 DEF TypeOK
<1>3. RowsAreHonest' /\ FreshHook'
  BY DEF RowsAreHonest, FreshHook
<1>4. Latest!Restart
  BY DEF Latest!Restart
<1> QED BY <1>1, <1>2, <1>3, <1>4 DEF Kept, IInv, Latest!Next

LEMMA PreparedStep == ASSUME IInv, NEW p \in passes, Prepared(p) PROVE Kept
<1> USE DEF Prepared
<1> DEFINE q == [p EXCEPT !.stage = "reading"]
<1>1. /\ p \in Passes /\ q \in Passes
      /\ q.mount = p.mount /\ q.job = p.job /\ q.content = p.content /\ q.key = p.key
      /\ q.aborted = p.aborted
  BY DEF IInv, TypeOK, Passes
<1>2. passes' = (passes \ {p}) \cup {q} \/ (passes' = passes \ {p} /\ p.mount = mount /\ ~Live(p))
  OBVIOUS
<1>3. \A r \in passes' : r \in passes \ {p} \/ r = q
  BY <1>2
<1>4. TypeOK'
  BY <1>1, <1>3 DEF IInv, TypeOK
<1>5. PassesAreHonest' /\ RowsAreHonest'
  BY <1>1, <1>3 DEF IInv, PassesAreHonest, RowsAreHonest, Honest
<1>6. OneUnraised'
  BY <1>1, <1>3 DEF IInv, OneUnraised
<1>7. OnlyNewestReads'
  BY <1>1, <1>2, <1>3 DEF IInv, OnlyNewestReads
<1>8. RunningIsHeld' /\ FreshHook'
  BY DEF IInv, RunningIsHeld, FreshHook
<1>9. UNCHANGED Latest!vars
  BY DEF Latest!vars
<1> QED BY <1>4, <1>5, <1>6, <1>7, <1>8, <1>9 DEF Kept, IInv

LEMMA AdvanceStep == ASSUME IInv, NEW p \in passes, Advance(p) PROVE Kept
<1> USE DEF Advance
<1>1. progress' \in [job : 1 .. MaxJob, moved : BOOLEAN] /\ progress'.job = job
  BY DEF IInv, TypeOK, Passes
<1>2. TypeOK'
  BY <1>1 DEF IInv, TypeOK
<1>3. progress' # None
  BY <1>1, VNone
<1>4. OnlyNewestReads'
  BY <1>1, <1>3 DEF IInv, OnlyNewestReads
<1>5. /\ PassesAreHonest' /\ RowsAreHonest' /\ OneUnraised' /\ RunningIsHeld' /\ FreshHook'
  BY DEF IInv, PassesAreHonest, RowsAreHonest, Honest, OneUnraised, RunningIsHeld, FreshHook
<1>6. UNCHANGED Latest!vars
  BY DEF Latest!vars
<1> QED BY <1>2, <1>4, <1>5, <1>6 DEF Kept, IInv

LEMMA FinishStep == ASSUME IInv, NEW p \in passes, Finish(p) PROVE Kept
<1> USE DEF Finish
<1>1. p \in Passes /\ Honest(p.content, p.key)
  BY DEF IInv, TypeOK, PassesAreHonest
<1>2. \A r \in passes' : r \in passes /\ r # p
  OBVIOUS
<1>3. PassesAreHonest'
  BY <1>2 DEF IInv, PassesAreHonest, Honest
<1>4. OneUnraised' /\ FreshHook'
  BY <1>2 DEF IInv, OneUnraised, FreshHook
<1>5. CASE Heard(p)
  <2>1. ~p.aborted /\ status = "running"
    BY <1>5 DEF IInv, OneUnraised, OnlyNewestReads, TypeOK, Passes
  <2>2. \A r \in passes' : r.aborted
    BY <1>2, <2>1 DEF IInv, OneUnraised
  <2>3. OnlyNewestReads' /\ RunningIsHeld'
    BY <1>5, <2>2 DEF OnlyNewestReads, RunningIsHeld
  <2>4. RowsAreHonest'
    BY <1>1, <1>5 DEF RowsAreHonest, Honest
  <2>5. values' = None \/ values' \in [content : {Content(b) : b \in Boxes}, job : 1 .. MaxJob]
    BY <1>1, <1>5 DEF Passes
  <2>6. status' = "done" /\ ranKey' = p.key /\ progress' = [job |-> p.job, moved |-> TRUE]
    BY <1>5
  <2>7. p.key \in {InputKey(b) : b \in Boxes} /\ p.job \in 1 .. MaxJob
    BY <1>1 DEF Passes
  <2>8. progress' \in [job : 1 .. MaxJob, moved : BOOLEAN]
    BY <2>6, <2>7
  <2>9. TypeOK'
    BY <1>2, <2>5, <2>6, <2>7, <2>8 DEF IInv, TypeOK
  <2>10. Latest!Answer
    BY <1>5, <2>1 DEF Latest!Answer
  <2> QED BY <1>3, <1>4, <2>3, <2>4, <2>9, <2>10 DEF Kept, IInv, Latest!Next
<1>6. CASE ~Heard(p)
  <2>1. TypeOK'
    BY <1>2, <1>6 DEF IInv, TypeOK
  <2>2. RowsAreHonest' /\ RunningIsHeld'
    BY <1>6 DEF IInv, RowsAreHonest, Honest, RunningIsHeld
  <2>3. OnlyNewestReads'
    BY <1>2, <1>6 DEF IInv, OnlyNewestReads
  <2>4. UNCHANGED Latest!vars
    BY <1>6 DEF Latest!vars
  <2> QED BY <1>3, <1>4, <2>1, <2>2, <2>3, <2>4 DEF Kept, IInv
<1> QED BY <1>5, <1>6

LEMMA FailStep == ASSUME IInv, NEW p \in passes, Fail(p) PROVE Kept
<1> USE DEF Fail
<1>1. \A r \in passes' : r \in passes /\ r # p
  OBVIOUS
<1>2. PassesAreHonest' /\ RowsAreHonest'
  BY <1>1 DEF IInv, PassesAreHonest, RowsAreHonest, Honest
<1>3. OneUnraised' /\ FreshHook'
  BY <1>1 DEF IInv, OneUnraised, FreshHook
<1>4. TypeOK'
  BY <1>1 DEF IInv, TypeOK
<1>5. CASE Heard(p)
  <2>1. ~p.aborted
    BY <1>5 DEF IInv, OneUnraised, TypeOK, Passes
  <2>2. \A r \in passes' : r.aborted
    BY <1>1, <2>1 DEF IInv, OneUnraised
  <2>3. OnlyNewestReads' /\ RunningIsHeld'
    BY <1>5, <2>2 DEF OnlyNewestReads, RunningIsHeld
  <2>4. Latest!Withdraw
    BY <1>5 DEF Latest!Withdraw
  <2> QED BY <1>2, <1>3, <1>4, <2>3, <2>4 DEF Kept, IInv, Latest!Next
<1>6. CASE ~Heard(p)
  <2>1. OnlyNewestReads' /\ RunningIsHeld'
    BY <1>1, <1>6 DEF IInv, OnlyNewestReads, RunningIsHeld
  <2>2. UNCHANGED Latest!vars
    BY <1>6 DEF Latest!vars
  <2> QED BY <1>2, <1>3, <1>4, <2>1, <2>2 DEF Kept, IInv
<1> QED BY <1>5, <1>6

LEMMA CancelStep == ASSUME IInv, NEW p \in passes, Cancel(p) PROVE Kept
<1> USE DEF Cancel
<1>1. \A r \in passes' : r \in passes /\ r # p
  OBVIOUS
<1>2. PassesAreHonest' /\ RowsAreHonest'
  BY <1>1 DEF IInv, PassesAreHonest, RowsAreHonest, Honest
<1>3. OneUnraised' /\ FreshHook' /\ RunningIsHeld'
  BY <1>1 DEF IInv, OneUnraised, FreshHook, RunningIsHeld
<1>4. TypeOK'
  BY <1>1 DEF IInv, TypeOK
<1>5. OnlyNewestReads'
  BY <1>1 DEF IInv, OnlyNewestReads
<1>6. UNCHANGED Latest!vars
  BY DEF Latest!vars
<1> QED BY <1>2, <1>3, <1>4, <1>5, <1>6 DEF Kept, IInv

-----------------------------------------------------------------------------

LEMMA InitStep == Init => IInv /\ Latest!Init
<1> SUFFICES ASSUME Init PROVE IInv /\ Latest!Init
  OBVIOUS
<1> USE DEF Init
<1>1. TypeOK
  <2>1. 1 \in 1 .. MaxJob + 1 /\ 1 \in 1 .. MaxMount
    OBVIOUS
  <2> QED BY <2>1 DEF TypeOK
<1>2. PassesAreHonest /\ RowsAreHonest /\ OneUnraised /\ RunningIsHeld /\ FreshHook /\ OnlyNewestReads
  BY DEF PassesAreHonest, RowsAreHonest, OneUnraised, RunningIsHeld, FreshHook, OnlyNewestReads
<1>3. Latest!Init
  BY DEF Latest!Init
<1> QED BY <1>1, <1>2, <1>3 DEF IInv

LEMMA NextStep == IInv /\ [Next]_vars => Kept
<1> SUFFICES ASSUME IInv, [Next]_vars PROVE Kept
  OBVIOUS
<1>1. CASE EditBox \/ Run \/ Stop \/ ToolArrives \/ Remount
  BY <1>1, EditBoxStep, RunStep, StopStep, ToolArrivesStep, RemountStep
<1>2. CASE \E p \in passes : Prepared(p) \/ Advance(p) \/ Finish(p) \/ Fail(p) \/ Cancel(p)
  BY <1>2, PreparedStep, AdvanceStep, FinishStep, FailStep, CancelStep
<1>3. CASE UNCHANGED vars
  <2>1. UNCHANGED Latest!vars
    BY <1>3 DEF vars, Latest!vars
  <2>2. IInv'
    BY <1>3 DEF vars, IInv, TypeOK, PassesAreHonest, RowsAreHonest, Honest, OneUnraised,
       RunningIsHeld, FreshHook, OnlyNewestReads
  <2> QED BY <2>1, <2>2 DEF Kept
<1> QED BY <1>1, <1>2, <1>3 DEF Next

\* The inductive invariant holds throughout.
THEOREM Invariance == Spec => []IInv
<1>1. Init => IInv
  BY InitStep
<1>2. IInv /\ [Next]_vars => IInv'
  BY NextStep DEF Kept
<1> QED BY <1>1, <1>2, PTL DEF Spec

\* Every variable of useVariants keeps to its kind, however many passes are
\* started and hooks mounted.
THEOREM TypeCorrect == Spec => []TypeOK
BY Invariance, PTL DEF IInv

\* Rows that carry no stale mark are the rows of what the box holds, as far as
\* name, size and date tell two files apart, whatever was edited, stopped or
\* opened while they were computed.
THEOREM NoUnmarkedStaleRows == Spec => []UnmarkedIsCurrent
<1>1. IInv => UnmarkedIsCurrent
  BY HonestRows DEF IInv
<1> QED BY <1>1, Invariance, PTL

\* No pass but the one the panel says is running goes on reading, those of a
\* hook that has been unmounted included.
THEOREM NoStrayReading == Spec => []OnlyNewestReads
BY Invariance, PTL DEF IInv

\* The panel implements LatestWins: rows of a pass that was stopped, or that a
\* newer one superseded, are never painted.
THEOREM LatestRowsWin == Spec => AnswersLatest
<1>1. Init => Latest!Init
  BY InitStep
<1>2. IInv /\ [Next]_vars => [Latest!Next]_(Latest!vars)
  BY NextStep DEF Kept
<1> QED BY <1>1, <1>2, Invariance, PTL DEF Spec, AnswersLatest, Latest!Spec
=============================================================================
