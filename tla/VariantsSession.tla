-------------------------- MODULE VariantsSession --------------------------
(***************************************************************************)
(* The variants panel: the hook useVariants and its Run / Stop button.     *)
(*                                                                         *)
(* A pass computes every sibling row over one reading of the input, is     *)
(* started only by the button, and delivers all of its rows at once.  The  *)
(* box may change while it reads: its values are never cleared for that,   *)
(* only marked stale, by comparing the key they were computed under with   *)
(* the key of the box.  A pass is first "preparing" (its rows' modules are *)
(* loading), then "reading"; one over a file does both in its worker.      *)
(***************************************************************************)
EXTENDS Naturals

CONSTANTS
  Specs,        \* settings of the tool
  Texts,        \* contents of the box, other than the empty one
  Undecodable,  \* the ones that do not decode in their source mode
  Files,        \* files the user may choose
  Stamp,        \* file -> its name, size and modification time
  ReadsInput,   \* spec -> does the tool read the input under it
  EmptyText, NoFile, None,
  MaxJob, MaxMount  \* bounds: presses of one mounted hook, mounted hooks

ASSUME VDistinct == /\ EmptyText \notin Texts
                    /\ NoFile \notin Files
ASSUME VCapabilities == /\ Undecodable \subseteq Texts
                        /\ ReadsInput \in [Specs -> BOOLEAN]
ASSUME VBounds == MaxJob \in Nat \ {0} /\ MaxMount \in Nat \ {0}

VARIABLES
  box,       \* spec, source ("typed" or "file"), text and file of the panel
  loaded,    \* the tool definition has arrived
  status,    \* "idle", "running", "done" or "error"
  values,    \* None, or the input the rows on screen were computed from
  ranKey,    \* None, or the key of the box those rows were started under
  progress,  \* None, or the job whose figure is shown and whether it moved
  job,       \* jobRef
  controller,\* the job whose AbortController abortRef holds, 0 for none
  passes,    \* passes that have started and not ended
  mount      \* which instance of the hook is mounted

panel == <<status, values, ranKey, progress>>
vars  == <<box, loaded, panel, job, controller, passes, mount>>

Boxes == [spec : Specs, source : {"typed", "file"},
          text : Texts \cup {EmptyText}, file : Files \cup {NoFile}]

-----------------------------------------------------------------------------
(* What a pass would be over, and the key that stands for it. *)

Content(b) == IF ~ReadsInput[b.spec] THEN <<"options", b.spec>>
              ELSE IF b.source = "file" THEN <<"file", b.file>>
              ELSE <<"typed", b.text>>

InputKey(b) == IF ~ReadsInput[b.spec] THEN <<"options", b.spec>>
               ELSE IF b.source = "typed" THEN <<"typed", b.text>>
               ELSE IF b.file = NoFile THEN <<"file:none", b.file>>
               ELSE <<"file", Stamp[b.file]>>

ASSUME VNone == /\ None \notin {InputKey(b) : b \in Boxes}
                /\ None \notin [job : 1 .. MaxJob, moved : BOOLEAN]

Stale == ranKey # None /\ ranKey # InputKey(box)

CanRun == /\ loaded
          /\ ReadsInput[box.spec] =>
               IF box.source = "file" THEN box.file # NoFile ELSE box.text # EmptyText

\* Passes once the controller in abortRef has been raised.
Aborted == {[p EXCEPT !.aborted = @ \/ (p.mount = mount /\ p.job = controller)] : p \in passes}

-----------------------------------------------------------------------------
(* The user. *)

EditBox == /\ job < MaxJob
           /\ \/ \E s \in Specs : box' = [box EXCEPT !.spec = s]
              \/ \E x \in Texts \cup {EmptyText} : box' = [box EXCEPT !.text = x]
              \/ \E x \in Files \cup {NoFile} : box' = [box EXCEPT !.file = x, !.source = "file"]
              \/ box' = [box EXCEPT !.source = IF @ = "file" THEN "typed" ELSE "file"]
           /\ UNCHANGED <<loaded, panel, job, controller, passes, mount>>

\* The button says Run unless a pass is running.
Run ==
  /\ CanRun /\ status # "running" /\ job < MaxJob
  /\ job' = job + 1 /\ controller' = job'
  /\ progress' = [job |-> job', moved |-> FALSE]
  /\ LET typed == ReadsInput[box.spec] /\ box.source = "typed"
         pass  == [mount |-> mount, job |-> job', content |-> Content(box),
                   key |-> InputKey(box), aborted |-> FALSE,
                   stage |-> IF ReadsInput[box.spec] /\ box.source = "file"
                             THEN "reading" ELSE "preparing"]
     IN IF typed /\ box.text \in Undecodable
        THEN status' = "error" /\ passes' = Aborted
        ELSE status' = "running" /\ passes' = Aborted \cup {pass}
  /\ UNCHANGED <<box, loaded, values, ranKey, mount>>

\* Mutant: the pass is aborted, but its number stays the newest.
StopSameJob ==
  /\ status = "running" /\ job < MaxJob
  /\ passes' = Aborted /\ controller' = 0
  /\ UNCHANGED job
  /\ status' = "idle" /\ progress' = None
  /\ UNCHANGED <<box, loaded, values, ranKey, mount>>

\* Mutant: the reference to the raised controller is kept.
StopKeepsController ==
  /\ status = "running" /\ job < MaxJob
  /\ passes' = Aborted /\ UNCHANGED controller
  /\ job' = job + 1
  /\ status' = "idle" /\ progress' = None
  /\ UNCHANGED <<box, loaded, values, ranKey, mount>>

Stop ==
  /\ status = "running" /\ job < MaxJob
  /\ passes' = Aborted /\ controller' = 0
  /\ job' = job + 1
  /\ status' = "idle" /\ progress' = None
  /\ UNCHANGED <<box, loaded, values, ranKey, mount>>

\* The tool effect, when the definition the workbench was waiting for lands.
ToolArrives ==
  /\ ~loaded /\ loaded' = TRUE
  /\ passes' = Aborted /\ controller' = 0
  /\ job' = job + 1
  /\ status' = "idle" /\ values' = None /\ ranKey' = None /\ progress' = None
  /\ UNCHANGED <<box, mount>>

\* Mutant: the hook goes away and leaves its pass reading.
RemountKeepsReading ==
  /\ mount < MaxMount
  /\ UNCHANGED passes
  /\ mount' = mount + 1 /\ loaded' = FALSE
  /\ job' = 1 /\ controller' = 0
  /\ status' = "idle" /\ values' = None /\ ranKey' = None /\ progress' = None
  /\ UNCHANGED box

\* Another tool: the workbench is keyed by its id, so the old hook is
\* unmounted, which only aborts, and a new one starts, whose first tool
\* effect has already run.
Remount ==
  /\ mount < MaxMount
  /\ passes' = Aborted
  /\ mount' = mount + 1 /\ loaded' = FALSE
  /\ job' = 1 /\ controller' = 0
  /\ status' = "idle" /\ values' = None /\ ranKey' = None /\ progress' = None
  /\ UNCHANGED box

-----------------------------------------------------------------------------
(* A pass.  The setters of a hook that is gone change nothing; live() is    *)
(* about the number only, which leaving the hook does not change.           *)

Live(p)  == p.job = job
Heard(p) == p.mount = mount /\ Live(p)

\* The rows' modules have landed.  A pass that is not the newest ends here;
\* the others go on to read.
Prepared(p) ==
  /\ p.stage = "preparing"
  /\ passes' = (passes \ {p}) \cup
               (IF p.mount = mount => Live(p) THEN {[p EXCEPT !.stage = "reading"]} ELSE {})
  /\ UNCHANGED <<box, loaded, panel, job, controller, mount>>

Advance(p) ==
  /\ p.stage = "reading" /\ Heard(p)
  /\ progress' = [job |-> p.job, moved |-> TRUE]
  /\ UNCHANGED <<box, loaded, status, values, ranKey, job, controller, passes, mount>>

\* Mutant: the key is read when the values arrive.
FinishUnderNewKey(p) ==
  /\ p.stage = "reading"
  /\ passes' = passes \ {p}
  /\ IF Heard(p)
     THEN /\ values' \in {[content |-> p.content, job |-> p.job], None}
          /\ ranKey' = InputKey(box)
          /\ status' = "done"
          /\ progress' = [job |-> p.job, moved |-> TRUE]
     ELSE UNCHANGED panel
  /\ UNCHANGED <<box, loaded, job, controller, mount>>

\* Every byte has been read.  A row that could not be computed has no value,
\* and when the shared reading itself fails none has (None).
Finish(p) ==
  /\ p.stage = "reading"
  /\ passes' = passes \ {p}
  /\ IF Heard(p)
     THEN /\ values' \in {[content |-> p.content, job |-> p.job], None}
          /\ ranKey' = p.key
          /\ status' = "done"
          /\ progress' = [job |-> p.job, moved |-> TRUE]
     ELSE UNCHANGED panel
  /\ UNCHANGED <<box, loaded, job, controller, mount>>

\* Mutant: a failure is swallowed with the cancellations.
FailSilently(p) ==
  /\ passes' = passes \ {p}
  /\ UNCHANGED <<box, loaded, panel, job, controller, mount>>

\* A module does not load, the worker fails, the file cannot be read.
Fail(p) ==
  /\ passes' = passes \ {p}
  /\ IF Heard(p) THEN status' = "error" ELSE UNCHANGED status
  /\ UNCHANGED <<box, loaded, values, ranKey, progress, job, controller, mount>>

\* The reading notices its signal; a cancelled run is not a failure.
Cancel(p) ==
  /\ p.aborted /\ p.stage = "reading"
  /\ passes' = passes \ {p}
  /\ UNCHANGED <<box, loaded, panel, job, controller, mount>>

-----------------------------------------------------------------------------
Init ==
  /\ box \in Boxes
  /\ loaded = FALSE
  /\ status = "idle" /\ values = None /\ ranKey = None /\ progress = None
  /\ job = 1 /\ controller = 0 /\ passes = {} /\ mount = 1

PassEnds(p) == Finish(p) \/ Fail(p) \/ Cancel(p)
PassMoves(p) == Prepared(p) \/ PassEnds(p)

Next == \/ EditBox \/ Run \/ Stop \/ ToolArrives \/ Remount
        \/ \E p \in passes : Prepared(p) \/ Advance(p) \/ Finish(p) \/ Fail(p) \/ Cancel(p)

Spec == Init /\ [][Next]_vars

\* Every module import, every reading and every worker ends one way or the
\* other, whatever else goes on; nothing is assumed of the user.
FairSpec == /\ Spec
            /\ \A n \in 1 .. MaxMount, j \in 1 .. MaxJob :
                 WF_vars(\E p \in passes : p.mount = n /\ p.job = j /\ PassMoves(p))

-----------------------------------------------------------------------------
(* Properties *)

Passes == [mount : 1 .. MaxMount, job : 1 .. MaxJob, content : {Content(b) : b \in Boxes},
           key : {InputKey(b) : b \in Boxes}, aborted : BOOLEAN,
           stage : {"preparing", "reading"}]

\* The variables hold what the hook's state and refs can hold, a controller
\* is only ever that of the newest job, and a pass of the mounted hook is of
\* a job that was started.
TypeOK ==
  /\ box \in Boxes /\ loaded \in BOOLEAN
  /\ status \in {"idle", "running", "done", "error"}
  /\ values = None \/ values \in [content : {Content(b) : b \in Boxes}, job : 1 .. MaxJob]
  /\ ranKey = None \/ ranKey \in {InputKey(b) : b \in Boxes}
  /\ progress = None \/ progress \in [job : 1 .. MaxJob, moved : BOOLEAN]
  /\ job \in 1 .. MaxJob + 1 /\ controller \in {0, job} /\ mount \in 1 .. MaxMount
  /\ passes \subseteq Passes
  /\ \A p \in passes : p.mount <= mount /\ (p.mount = mount => p.job <= job)

\* Rows on screen without the stale mark are the rows of what the box holds
\* now, however often it was changed while they were being computed -- as far
\* as name, size and date tell two files apart.
UnmarkedIsCurrent ==
  values # None /\ ~Stale =>
    \/ values.content = Content(box)
    \/ /\ values.content[1] = "file" /\ Content(box)[1] = "file"
       /\ Stamp[values.content[2]] = Stamp[box.file]

\* At most one reading is not on its way out: any pass but the one the panel
\* says is running, those of an unmounted hook included, has had its signal
\* raised, and while it says so there is one, whose own figure is shown.  A
\* stop or a change of tool never leaves a file being read.
OnlyNewestReads ==
  /\ \A p \in passes : ~p.aborted => Heard(p) /\ status = "running"
  /\ status = "running" => /\ \E p \in passes : Heard(p) /\ ~p.aborted
                           /\ progress # None /\ progress.job = job

\* The rows shown are never those of a pass that was stopped or superseded.
\* The first job of every hook is its mounting.
Latest == INSTANCE LatestWins WITH
  asked <- job - 1,
  open  <- status = "running",
  shown <- IF values = None THEN 0 ELSE values.job - 1

AnswersLatest == Latest!Spec

\* A pass that is running ends, is stopped, or goes with the hook: the button
\* never stays on Stop.
RunEnds == status = "running" ~> status # "running"
=============================================================================
