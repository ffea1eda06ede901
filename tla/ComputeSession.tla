--------------------------- MODULE ComputeSession ---------------------------
(***************************************************************************)
(* The compute session of one tool panel: the hooks useCompute and         *)
(* useDebouncedTrigger, the workbench that mounts them and holds the       *)
(* request lock, and the lazily loaded legacy conversion tables.           *)
(*                                                                         *)
(* Every discrete event (a keystroke, a switch, a press) is one step that  *)
(* contains the whole cascade React runs for it: the handler, the render   *)
(* and every effect whose dependencies moved, in declaration order.  The   *)
(* steps that really are separate are the asynchronous ones: the debounce  *)
(* timer, the tool module loading, the tables landing or failing to, a     *)
(* file reporting progress, a computation settling.                        *)
(*                                                                         *)
(* Every typed source mode (text, hex, Base64) is "text" here, and a text  *)
(* encoding is only "unicode" or "legacy" (one that needs the tables).     *)
(***************************************************************************)
EXTENDS Naturals

CONSTANTS
  Tools,        \* tool ids
  Specs,        \* settings of a tool
  Texts,        \* contents of the input box, other than the empty one
  Undecodable,  \* the ones that do not decode in their source mode
  Files,        \* files the user may choose
  Stamp,        \* file -> its name, size and modification time
  EmptyText, NoFile, NoSpec,
  AcceptedModes,  \* tool -> the source modes it accepts
  ReadsInput,     \* tool -> spec -> does it read the input at all
  HasMaterial,    \* tool -> does it take input material from options instead
  MaxJob          \* bound: the user does nothing more after this many jobs

Modes     == {"text", "file"}
Encodings == {"unicode", "legacy"}

ASSUME Distinct == /\ EmptyText \notin Texts
                   /\ NoFile \notin Files
                   /\ NoSpec \notin Specs
ASSUME Capabilities ==
  /\ Undecodable \subseteq Texts
  /\ AcceptedModes \in [Tools -> (SUBSET Modes) \ {{}}]
  /\ ReadsInput \in [Tools -> [Specs -> BOOLEAN]]
  /\ HasMaterial \in [Tools -> BOOLEAN]
ASSUME Stamps == DOMAIN Stamp = Files
ASSUME Bounds == MaxJob \in Nat

VARIABLES
  toolId, loaded, spec,              \* the workbench
  mode, text, enc, file, autoUpdate, \* the application shell's input and switch
  runFile,     \* the file that run has closed over
  tables,      \* "absent", "loading", "ready" or "failed"
  view,        \* the ComputeState on screen
  job,         \* jobRef
  timer,       \* the scheduled action: {} or the singleton of its closure
  runs,        \* computations that have started and not settled
  controller,  \* the job whose AbortController abortRef holds
  lastRunSpec, \* lastRunSpecRef
  unspent,     \* manualTrigger # lastManualRef
  first,       \* lastToolRef # tool
  lock         \* manualComputePendingRef

input   == <<mode, text, enc, file, runFile>>
session == <<view, job, timer, runs, controller, lastRunSpec, unspent, first, lock>>
vars    == <<toolId, loaded, spec, input, autoUpdate, tables, session>>

-----------------------------------------------------------------------------
(* What the effects read. *)

\* run and the file effect depend on the file's key: another file of the same
\* stamp neither starts a run nor is what the next one reads.
FileKey == IF file = NoFile THEN <<>> ELSE <<Stamp[file]>>

Source  == IF mode = "text" THEN <<text, enc>> ELSE <<runFile>>
Request == [mode |-> mode, source |-> Source, spec |-> spec]

Decoded == IF mode = "file" THEN "ok"
           ELSE IF enc = "legacy" /\ tables # "ready" THEN "loading"
           ELSE IF text \in Undecodable THEN "bad" ELSE "ok"

Reads     == ReadsInput[toolId][spec]
Generates == loaded /\ ~Reads /\ ~HasMaterial[toolId]
EffectiveAuto == autoUpdate \/ Generates

IsInputBlank   == IF mode = "file" THEN file = NoFile ELSE text = EmptyText
AwaitingTables == mode = "text" /\ enc = "legacy"
ReadyToCompute == loaded /\ (Reads => ~IsInputBlank)
IsBusy         == view.status \in {"pending", "computing"}
CanRecompute   == ReadyToCompute /\ ~IsBusy

\* Compute is on screen when nothing else would start a run, Recompute beside
\* every stale result.
ButtonShown == ~EffectiveAuto \/ Generates \/ ~Reads \/ view.status = "stale"

-----------------------------------------------------------------------------
(* The state on screen.  A result is {} or the singleton of the run it      *)
(* came from.                                                               *)

Closure == [job |-> job, request |-> Request, decoded |-> Decoded]

Showing(s, res) == [status |-> s, reason |-> "none", result |-> res]
BlankView       == Showing("blank", {})

MarkPending(v) == Showing("pending", v.result)

MarkStale(v, why) ==
  IF v.status = "done"
  THEN [status |-> "stale", reason |-> why, result |-> v.result] ELSE v

\* commit(): dropped unless the run is the newest one.
Commit(c, v, old) == IF c.job = job' THEN v ELSE old

(* run(), up to its first await: it abandons the run before it, and then    *)
(* finishes on the spot or starts a computation.  old is the view it may    *)
(* replace.                                                                 *)
Run(c, old) ==
  /\ controller' = c.job
  /\ runs' = IF c.decoded = "ok" THEN runs \cup {c} ELSE runs
  /\ view' = Commit(c, Showing(IF c.decoded = "bad" THEN "error" ELSE "computing", {}), old)
  /\ UNCHANGED lastRunSpec

-----------------------------------------------------------------------------
(* The effects, over the state after the event.  v is the view the event    *)
(* left, pressed whether a press has not been acted on yet.                 *)

Quiet == UNCHANGED <<job, runs, controller, lastRunSpec>>

TextIsBlank(v, pressed) ==
  /\ Reads' /\ text' = EmptyText
  /\ timer' = {} /\ view' = BlankView
  /\ unspent' = pressed
  /\ UNCHANGED first /\ Quiet

\* Mutant: switching off leaves the debounce running.
TextIsHeldKeepsTimer(v, pressed) ==
  /\ ~(Reads' /\ text' = EmptyText)
  /\ ~EffectiveAuto' /\ ~pressed
  /\ UNCHANGED timer
  /\ view' = MarkStale(v, IF lastRunSpec = spec' THEN "input" ELSE "settings")
  /\ unspent' = FALSE /\ first' = FALSE
  /\ Quiet

TextIsHeld(v, pressed) ==
  /\ ~(Reads' /\ text' = EmptyText)
  /\ ~EffectiveAuto' /\ ~pressed
  /\ timer' = {}
  /\ view' = MarkStale(v, IF lastRunSpec = spec' THEN "input" ELSE "settings")
  /\ unspent' = FALSE /\ first' = FALSE
  /\ Quiet

\* Mutant: a press is acted on and never marked as acted on.
TextRunsNowRespends(v, pressed) ==
  /\ ~(Reads' /\ text' = EmptyText)
  /\ pressed \/ (EffectiveAuto' /\ first)
  /\ job' = job + 1
  /\ timer' = {} /\ unspent' = pressed /\ first' = FALSE
  /\ Run(Closure', v)

TextRunsNow(v, pressed) ==
  /\ ~(Reads' /\ text' = EmptyText)
  /\ pressed \/ (EffectiveAuto' /\ first)
  /\ job' = job + 1
  /\ timer' = {} /\ unspent' = FALSE /\ first' = FALSE
  /\ Run(Closure', v)

\* Mutant: the schedule does not replace the action already waiting.
TextWaitsTwice(v, pressed) ==
  /\ ~(Reads' /\ text' = EmptyText)
  /\ EffectiveAuto' /\ ~pressed /\ ~first
  /\ job' = job + 1
  /\ timer' = timer \cup {Closure'}
  /\ view' = IF timer = {} THEN MarkPending(v) ELSE v
  /\ unspent' = FALSE /\ first' = FALSE
  /\ UNCHANGED <<runs, controller, lastRunSpec>>

\* Mutant: the debounced run keeps the number of the run before it.
TextWaitsSameJob(v, pressed) ==
  /\ ~(Reads' /\ text' = EmptyText)
  /\ EffectiveAuto' /\ ~pressed /\ ~first
  /\ Quiet
  /\ timer' = {Closure'}
  /\ view' = IF timer = {} THEN MarkPending(v) ELSE v
  /\ unspent' = FALSE /\ first' = FALSE

\* The pending effect runs when the debounce starts waiting, not when it is
\* waiting already.
TextWaits(v, pressed) ==
  /\ ~(Reads' /\ text' = EmptyText)
  /\ EffectiveAuto' /\ ~pressed /\ ~first
  /\ job' = job + 1
  /\ timer' = {Closure'}
  /\ view' = IF timer = {} THEN MarkPending(v) ELSE v
  /\ unspent' = FALSE /\ first' = FALSE
  /\ UNCHANGED <<runs, controller, lastRunSpec>>

TextEffect(v, pressed) ==
  \/ TextIsBlank(v, pressed)
  \/ TextIsHeld(v, pressed)
  \/ TextRunsNow(v, pressed)
  \/ TextWaits(v, pressed)

FileIsMissing(v, pressed) ==
  /\ file' = NoFile
  /\ view' = BlankView /\ unspent' = pressed
  /\ Quiet

FileIsHeld(v, pressed) ==
  /\ file' # NoFile /\ ~EffectiveAuto' /\ ~pressed
  /\ view' = MarkStale(v, "input") /\ unspent' = FALSE
  /\ Quiet

\* Mutant: a new file is read under the number of the old one.
FileRunsSameJob(v, pressed) ==
  /\ file' # NoFile /\ (EffectiveAuto' \/ pressed)
  /\ unspent' = FALSE /\ UNCHANGED job
  /\ Run(Closure', v)

FileRuns(v, pressed) ==
  /\ file' # NoFile /\ (EffectiveAuto' \/ pressed)
  /\ job' = job + 1 /\ unspent' = FALSE
  /\ Run(Closure', v)

FileEffect(v, pressed) ==
  /\ timer' = {} /\ UNCHANGED first  \* the text effect's clean-up, and its early return
  /\ FileIsMissing(v, pressed) \/ FileIsHeld(v, pressed) \/ FileRuns(v, pressed)

\* A file panel's settings moved: the file effect does not depend on them.
FileSpecEffect ==
  /\ timer' = {} /\ view' = MarkStale(view, "settings")
  /\ UNCHANGED <<unspent, first>> /\ Quiet

\* The request lock is held from a press until the panel shows how it ended.
Hold(held) == lock' = (held /\ view'.status \notin {"done", "error"})

InputEffects ==
  /\ \/ mode' = "text" /\ TextEffect(view, unspent)
     \/ mode' = "file" /\ FileEffect(view, unspent)
  /\ Hold(lock)

\* Tables are fetched when an encoding first needs them; one load is shared
\* and a failed one is never started again.
TablesEffect == tables' = IF AwaitingTables' /\ tables = "absent" THEN "loading" ELSE tables

-----------------------------------------------------------------------------
(* What the user does.  The input controls are on screen for a tool that    *)
(* reads its input.                                                         *)

UserMay    == loaded /\ job < MaxJob
MayTouchInput == UserMay /\ Reads

EditText(t) ==
  /\ MayTouchInput /\ mode = "text" /\ t # text
  /\ text' = t
  /\ UNCHANGED <<toolId, loaded, spec, mode, enc, file, runFile, autoUpdate, tables>>
  /\ InputEffects

ChooseEncoding(e) ==
  /\ MayTouchInput /\ mode = "text" /\ e # enc
  /\ enc' = e
  /\ UNCHANGED <<toolId, loaded, spec, mode, text, file, runFile, autoUpdate>>
  /\ TablesEffect
  /\ InputEffects

ChangeMode(m) ==
  /\ MayTouchInput /\ m # mode /\ m \in AcceptedModes[toolId]
  /\ mode' = m /\ runFile' = file
  /\ UNCHANGED <<toolId, loaded, spec, text, enc, file, autoUpdate>>
  /\ TablesEffect
  /\ InputEffects

\* Choosing a file selects the file mode; NoFile forgets the one chosen.
ChooseFile(f) ==
  /\ MayTouchInput /\ "file" \in AcceptedModes[toolId]
  /\ <<mode, file>> # <<"file", f>>
  /\ f = NoFile => mode = "file"
  /\ mode' = "file" /\ file' = f
  /\ UNCHANGED <<toolId, loaded, spec, text, enc, autoUpdate, tables>>
  /\ \/ (mode # "file" \/ FileKey' # FileKey) /\ runFile' = f /\ InputEffects
     \/ mode = "file" /\ FileKey' = FileKey /\ UNCHANGED <<runFile, session>>

ChangeSpec(s) ==
  /\ UserMay /\ s # spec
  /\ spec' = s /\ runFile' = file
  /\ UNCHANGED <<toolId, loaded, mode, text, enc, file, autoUpdate, tables>>
  /\ \/ mode = "text" /\ TextEffect(view, unspent)
     \/ mode = "file" /\ FileSpecEffect
  /\ Hold(lock)

\* The file effect does not depend on the switch.
ToggleAuto ==
  /\ UserMay /\ ~Generates
  /\ autoUpdate' = ~autoUpdate
  /\ UNCHANGED <<toolId, loaded, spec, input, tables>>
  /\ \/ mode = "text" /\ TextEffect(view, unspent) /\ Hold(lock)
     \/ mode = "file" /\ UNCHANGED session

\* A press the lock refuses does nothing at all.
PressCompute ==
  /\ UserMay /\ ButtonShown /\ CanRecompute /\ ~lock
  /\ UNCHANGED <<toolId, loaded, spec, input, autoUpdate, tables>>
  /\ \/ mode = "text" /\ TextEffect(MarkPending(view), TRUE)
     \/ mode = "file" /\ FileEffect(MarkPending(view), TRUE)
  /\ Hold(TRUE)

\* The workbench is keyed on the tool: opening one, or coming back to the tools
\* from another view, mounts a new session.  The input, the switch and the
\* tables are not part of it, and whatever was running replies to a panel that
\* is gone.
OpenTool(t) ==
  /\ toolId' = t /\ loaded' = FALSE /\ spec' = NoSpec
  /\ view' = BlankView /\ job' = 0 /\ timer' = {} /\ runs' = {}
  /\ controller' = 0 /\ lastRunSpec' = NoSpec
  /\ unspent' = FALSE /\ first' = TRUE /\ lock' = FALSE
  /\ runFile' = file
  /\ UNCHANGED <<mode, text, enc, file, autoUpdate>>
  /\ TablesEffect

-----------------------------------------------------------------------------
(* What the machine does. *)

\* The tool module arrives with its first settings; a source mode it does not
\* accept is replaced by one it does.  The file effect runs only if that moved
\* the mode: nothing else it depends on changes when a tool arrives.
LoadTool ==
  /\ ~loaded
  /\ loaded' = TRUE /\ spec' \in Specs
  /\ IF mode \in AcceptedModes[toolId] THEN mode' = mode
     ELSE mode' \in AcceptedModes[toolId]
  /\ runFile' = file
  /\ UNCHANGED <<toolId, text, enc, file, autoUpdate>>
  /\ TablesEffect
  /\ \/ mode' = "text" /\ TextEffect(view, unspent)
     \/ mode' = "file" /\ mode # "file" /\ FileEffect(view, unspent)
     \/ mode' = "file" /\ mode = "file" /\ UNCHANGED <<view, timer, unspent, first>> /\ Quiet
  /\ Hold(lock)

TimerFires ==
  \E c \in timer :
    /\ timer' = {}
    /\ UNCHANGED <<toolId, loaded, spec, input, autoUpdate, tables, job, unspent, first>>
    /\ Run(c, view)
    /\ Hold(lock)

\* Mutant: the tables land and nothing the session depends on moves.
TablesArriveUnseen ==
  /\ tables = "loading" /\ tables' = "ready"
  /\ UNCHANGED <<toolId, loaded, spec, input, autoUpdate, session>>

\* The tables land: the epoch moves if this panel is still waiting for them.
TablesArrive ==
  /\ tables = "loading" /\ tables' = "ready"
  /\ UNCHANGED <<toolId, loaded, spec, input, autoUpdate>>
  /\ IF AwaitingTables /\ loaded THEN TextEffect(view, unspent) /\ Hold(lock)
     ELSE UNCHANGED session

TablesFail ==
  /\ tables = "loading" /\ tables' = "failed"
  /\ UNCHANGED <<toolId, loaded, spec, input, autoUpdate, session>>

\* Only a file reports progress; a superseded run's report is dropped.
Progress(c) ==
  /\ c \in runs /\ c.request.mode = "file"
  /\ view' = IF c.job = job THEN Showing("computing", {}) ELSE view
  /\ UNCHANGED <<toolId, loaded, spec, input, autoUpdate, tables, job, timer, runs,
                 controller, lastRunSpec, unspent, first, lock>>

\* Mutant: a reply is painted whichever run it belongs to.
SettleUnchecked(c, outcome) ==
  /\ c \in runs
  /\ runs' = runs \ {c}
  /\ view' = Showing(outcome, IF outcome = "done" THEN {c} ELSE {})
  /\ lastRunSpec' = IF outcome = "done" THEN c.request.spec ELSE lastRunSpec
  /\ Hold(lock)
  /\ UNCHANGED <<toolId, loaded, spec, input, autoUpdate, tables, job, timer,
                 controller, unspent, first>>

\* Mutant: the settings a result was computed under are not recorded.
SettleForgetsSpec(c, outcome) ==
  /\ c \in runs
  /\ runs' = runs \ {c}
  /\ view' = IF c.job = job THEN Showing(outcome, IF outcome = "done" THEN {c} ELSE {}) ELSE view
  /\ Hold(lock)
  /\ UNCHANGED <<toolId, loaded, spec, input, autoUpdate, tables, job, timer,
                 controller, lastRunSpec, unspent, first>>

\* Mutant: a computation that throws commits nothing.
SettleUncaught(c, outcome) ==
  /\ c \in runs
  /\ runs' = runs \ {c}
  /\ IF c.job = job /\ outcome = "done"
     THEN view' = Showing(outcome, {c}) /\ lastRunSpec' = c.request.spec
     ELSE UNCHANGED <<view, lastRunSpec>>
  /\ Hold(lock)
  /\ UNCHANGED <<toolId, loaded, spec, input, autoUpdate, tables, job, timer,
                 controller, unspent, first>>

\* A computation ends, with a value or by throwing.
Settle(c, outcome) ==
  /\ c \in runs
  /\ runs' = runs \ {c}
  /\ IF c.job = job
     THEN /\ view' = Showing(outcome, IF outcome = "done" THEN {c} ELSE {})
          /\ lastRunSpec' = IF outcome = "done" THEN c.request.spec ELSE lastRunSpec
     ELSE UNCHANGED <<view, lastRunSpec>>
  /\ Hold(lock)
  /\ UNCHANGED <<toolId, loaded, spec, input, autoUpdate, tables, job, timer,
                 controller, unspent, first>>

\* A file run whose controller was aborted rejects with an AbortError, which
\* commits nothing.
Abandon(c) ==
  /\ c \in runs /\ c.request.mode = "file" /\ c.job # controller
  /\ runs' = runs \ {c}
  /\ UNCHANGED <<toolId, loaded, spec, input, autoUpdate, tables, view, job, timer,
                 controller, lastRunSpec, unspent, first, lock>>

-----------------------------------------------------------------------------

\* A tool has just been opened over whatever input the shell holds.
Init ==
  /\ toolId \in Tools /\ loaded = FALSE /\ spec = NoSpec
  /\ mode \in Modes /\ text \in Texts \cup {EmptyText} /\ file \in Files \cup {NoFile}
  /\ runFile = file
  /\ enc \in Encodings /\ autoUpdate \in BOOLEAN
  /\ tables = IF AwaitingTables THEN "loading" ELSE "absent"
  /\ view = BlankView /\ job = 0 /\ timer = {} /\ runs = {}
  /\ controller = 0 /\ lastRunSpec = NoSpec
  /\ unspent = FALSE /\ first = TRUE /\ lock = FALSE

User ==
  \/ \E t \in Texts \cup {EmptyText} : EditText(t)
  \/ \E e \in Encodings : ChooseEncoding(e)
  \/ \E m \in Modes : ChangeMode(m)
  \/ \E f \in Files \cup {NoFile} : ChooseFile(f)
  \/ \E s \in Specs : ChangeSpec(s)
  \/ ToggleAuto
  \/ PressCompute
  \/ \E t \in Tools : OpenTool(t)

TablesSettle == TablesArrive \/ TablesFail

SettleOne == \E c \in runs : \E outcome \in {"done", "error"} : Settle(c, outcome)

Machine ==
  \/ LoadTool
  \/ TimerFires
  \/ TablesSettle
  \/ SettleOne
  \/ \E c \in runs : Progress(c) \/ Abandon(c)

Next == User \/ Machine

Spec == Init /\ [][Next]_vars

\* The user owes nothing.  A module load, a timer and a table fetch end, and
\* every computation does: each is a separate promise, so each settles.
Fairness ==
  /\ WF_vars(LoadTool)
  /\ WF_vars(TimerFires)
  /\ WF_vars(TablesSettle)
  /\ \A j \in 1..(MaxJob + 1) :
       WF_vars(\E c \in runs : c.job = j /\ \E outcome \in {"done", "error"} : Settle(c, outcome))

FairSpec == Spec /\ Fairness

-----------------------------------------------------------------------------
(* Types. *)

Requests ==
  [mode : {"text"}, source : (Texts \cup {EmptyText}) \X Encodings, spec : Specs]
    \cup [mode : {"file"}, source : {<<f>> : f \in Files}, spec : Specs]
Closures == [job : Nat, request : Requests, decoded : {"ok", "bad", "loading"}]
Statuses == {"blank", "pending", "computing", "done", "error", "stale"}
Views == [status : Statuses, reason : {"none", "input", "settings"},
          result : SUBSET Closures]

PanelTypeOK ==
  /\ toolId \in Tools /\ loaded \in BOOLEAN
  /\ spec \in Specs \cup {NoSpec} /\ (loaded <=> spec # NoSpec)
  /\ mode \in Modes /\ text \in Texts \cup {EmptyText} /\ enc \in Encodings
  /\ file \in Files \cup {NoFile} /\ autoUpdate \in BOOLEAN
  /\ IF runFile \in Files THEN file \in Files /\ Stamp[runFile] = Stamp[file] ELSE runFile = NoFile /\ file = NoFile
  /\ tables \in {"absent", "loading", "ready", "failed"}

SessionTypeOK ==
  /\ view \in Views /\ \A c, d \in view.result : c = d
  /\ job \in Nat /\ controller \in Nat
  /\ timer \in SUBSET Closures /\ \A c, d \in timer : c = d
  /\ runs \in SUBSET Closures
  /\ lastRunSpec \in Specs \cup {NoSpec}
  /\ unspent \in BOOLEAN /\ first \in BOOLEAN /\ lock \in BOOLEAN

\* Every variable holds a value of its kind; the timer and the result on
\* screen hold at most one run each.
TypeOK == PanelTypeOK /\ SessionTypeOK

-----------------------------------------------------------------------------
(* What the session promises, and keeps. *)

Newest    == {c \in runs : c.job = job}
TextReady == loaded /\ mode = "text" /\ ~(Reads /\ text = EmptyText)
Current   == \A c \in view.result : c.request = Request

\* A scheduled run was scheduled for what is in the panel now: whatever it
\* closed over that has moved since has cancelled it, and it waits only while
\* the panel says so and the switch is on.
TimerIsCurrent ==
  /\ \A c \in timer : c = Closure
  /\ timer # {} => view.status = "pending" /\ TextReady /\ EffectiveAuto

\* The run whose reply the panel would paint is, with the switch on, a run over
\* what is in the panel now.
AutoRunIsCurrent ==
  TextReady /\ EffectiveAuto => \A c \in Newest : c.request = Request

\* Each job has at most one run, none is from the future, and a job still
\* waiting for its timer has none.
RunsAreDistinct ==
  /\ \A c \in runs : c.job <= job
  /\ \A c, d \in runs : c.job = d.job => c = d
  /\ timer # {} => Newest = {}

\* With the switch on, a value shown as the answer to a typed input is the
\* answer to that input under those settings, however the replies, the edits
\* and the tables were interleaved.
AutoIsFresh == TextReady /\ EffectiveAuto /\ view.status = "done" => Current

\* With the switch on, a panel with something typed in it has an answer or is
\* on the way to one: nothing scheduled is lost and no reply is waited for in
\* vain.  Tables that failed to load are the exception.
AutoNeverStalls ==
  TextReady /\ EffectiveAuto =>
    \/ view.status \in {"done", "error"}
    \/ view.status = "pending" /\ timer # {}
    \/ view.status = "computing" /\ (Newest # {} \/ Decoded = "loading")

\* With the switch off every job answers a press of its own: a press starts its
\* job at once or is kept, only a press can be kept, and one that was kept
\* starts at most one job later.
JobsArePressed ==
  [][/\ ~EffectiveAuto' /\ job' > job => PressCompute \/ (unspent /\ ~unspent')
     /\ unspent' /\ ~unspent => PressCompute /\ job' = job]_vars

\* A typed input's result marked out of date because of its settings was
\* computed under other settings than those in the panel.
SettingsReasonIsTrue ==
  [][mode' = "text" /\ view'.status = "stale" /\ view.status = "done"
       /\ view'.reason = "settings" => \A c \in view'.result : c.request.spec # spec']_vars

\* As long as the switch stays on, the digest shown for a file is that of the
\* file in the panel, or of one that cannot be told from it by its stamp.
FilesStayCurrent ==
  []autoUpdate =>
    [](mode = "file" /\ file # NoFile /\ view.status = "done" =>
         \A c \in view.result : c.request.mode = "file" /\ Stamp[c.request.source[1]] = Stamp[file])

\* With the switch on, an input the user leaves alone gets its answer.
AutoSettles ==
  \A r \in Requests :
    TextReady /\ EffectiveAuto /\ Request = r
      ~> \/ Request # r \/ ~EffectiveAuto
         \/ view.status \in {"done", "error"}
         \/ enc = "legacy" /\ tables = "failed"

\* The job a result came from; 0 when there is no result.
JobOf(result) == IF result = {} THEN 0 ELSE (CHOOSE c \in result : TRUE).job

(* The questions are the jobs, the answer on screen is the result's job.  *)
LW == INSTANCE LatestWins WITH
        asked <- job,
        open  <- timer # {} \/ Newest # {},
        shown <- JobOf(view.result)

\* The session answers only its newest job and each job at most once: a reply
\* from a superseded run is never painted over a newer one, and a result that
\* left the screen does not come back.
AnswersLatest == LW!Spec

-----------------------------------------------------------------------------
(* What a comment says, and the code does not do. *)

\* "Off means nothing recomputes until you press Compute": with the switch off
\* a job starts only in a press, whatever else the user does.
OffMeansOff == [][~EffectiveAuto' /\ job' > job => PressCompute]_vars

\* "marked rather than silently updated or silently left looking current"
TextDoneIsCurrent == TextReady /\ view.status = "done" => Current
=============================================================================
