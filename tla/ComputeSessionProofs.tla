------------------------ MODULE ComputeSessionProofs ------------------------
(***************************************************************************)
(* Proofs about ComputeSession, for all tools, settings, texts and files   *)
(* and for sessions of any length.                                         *)
(*                                                                         *)
(* The argument rests on two facts no single one of the promises states:   *)
(* the runs in flight carry different jobs, none newer than jobRef, and    *)
(* while the debounce waits the job it will start has no run; and with the *)
(* switch on the run of the newest job is over what is in the panel.       *)
(***************************************************************************)
EXTENDS ComputeSession, TLAPS

\* The inductive invariant.
IInv == /\ TypeOK
        /\ RunsAreDistinct /\ TimerIsCurrent /\ AutoRunIsCurrent
        /\ AutoIsFresh /\ AutoNeverStalls

USE DEF Modes, Encodings

-----------------------------------------------------------------------------
(* Types. *)

\* What an effect may capture.
Capturable == PanelTypeOK /\ loaded /\ job \in Nat /\ (mode = "file" => file # NoFile)

LEMMA ClosureType == Capturable => Closure \in Closures
<1> SUFFICES ASSUME Capturable PROVE Closure \in Closures
  OBVIOUS
<1> USE DEF Capturable, PanelTypeOK
<1>1. Decoded \in {"ok", "bad", "loading"}
  BY DEF Decoded
<1>2. CASE mode = "text"
  <2>1. Source \in (Texts \cup {EmptyText}) \X {"unicode", "legacy"}
    BY <1>2 DEF Source
  <2> QED BY <1>1, <1>2, <2>1 DEF Closure, Request, Closures, Requests
<1>3. CASE mode = "file"
  <2>1. Source \in {<<f>> : f \in Files}
    BY <1>3 DEF Source
  <2> QED BY <1>1, <1>3, <2>1 DEF Closure, Request, Closures, Requests
<1> QED BY <1>2, <1>3

LEMMA ClosureTypeNext == Capturable' => Closure' \in Closures
<1>1. (Capturable => Closure \in Closures)'
  BY ClosureType, PTL
<1> QED BY <1>1

LEMMA MarkStaleType ==
  ASSUME NEW v \in Views, NEW why \in {"input", "settings"}
  PROVE  /\ MarkStale(v, why) \in Views
         /\ MarkStale(v, why).result = v.result
         /\ MarkStale(v, why).status = v.status \/ MarkStale(v, why).status = "stale"
         /\ MarkStale(v, why).status # "done"
BY DEF MarkStale, Views, Statuses

LEMMA MarkPendingType ==
  ASSUME NEW v \in Views
  PROVE  /\ MarkPending(v) \in Views
         /\ MarkPending(v).result = v.result
         /\ MarkPending(v).status = "pending"
BY DEF MarkPending, Showing, Views, Statuses

LEMMA BlankViewType == BlankView \in Views /\ BlankView.result = {} /\ BlankView.status = "blank"
BY DEF BlankView, Showing, Views, Statuses

\* run() up to its first await.
LEMMA RunFacts ==
  ASSUME NEW c \in Closures, NEW old \in Views, Run(c, old)
  PROVE  /\ view' \in Views
         /\ view' = old \/ (view'.result = {} /\ view'.status \in {"computing", "error"})
         /\ controller' = c.job
         /\ runs' = runs \/ runs' = runs \cup {c}
         /\ lastRunSpec' = lastRunSpec
         /\ c.job = job' => view'.status \in {"computing", "error"} /\ view'.result = {}
         /\ c.job = job' /\ view'.status = "computing" => c \in runs' \/ c.decoded = "loading"
BY DEF Run, Commit, Showing, Views, Statuses, Closures

-----------------------------------------------------------------------------
(* What one flush of the effects establishes, whatever event it follows.   *)

\* The types of the session apart from the lock, which each action sets itself.
CoreTypeOK ==
  /\ view \in Views /\ \A c, d \in view.result : c = d
  /\ job \in Nat /\ controller \in Nat
  /\ timer \in SUBSET Closures /\ \A c, d \in timer : c = d
  /\ runs \in SUBSET Closures
  /\ lastRunSpec \in Specs \cup {NoSpec}
  /\ unspent \in BOOLEAN /\ first \in BOOLEAN

Safe == /\ CoreTypeOK
        /\ RunsAreDistinct /\ TimerIsCurrent /\ AutoRunIsCurrent
        /\ AutoIsFresh /\ AutoNeverStalls

LEMMA SafeIsInvariantCore == IInv <=> Safe /\ PanelTypeOK /\ lock \in BOOLEAN
BY DEF IInv, Safe, CoreTypeOK, TypeOK, SessionTypeOK

\* The view an event hands to the effects.
Handed(v) ==
  /\ v \in Views
  /\ v.result = view.result
  /\ timer # {} => v.status = "pending"

\* A step of the abstract specification.
LWStep == LW!Ask \/ LW!Answer \/ LW!Withdraw

LEMMA KeepOrClear ==
  ASSUME view'.result = view.result \/ view'.result = {}
  PROVE  JobOf(view'.result) \in {JobOf(view.result), 0}
BY DEF JobOf

\* An effect that starts nothing: the timer goes, the runs stay.
LEMMA QuietEffect ==
  ASSUME Safe, Quiet, timer' = {}, view' \in Views,
         view'.result = view.result \/ view'.result = {},
         unspent' \in BOOLEAN, first' \in BOOLEAN,
         ~TextReady' \/ ~EffectiveAuto'
  PROVE  Safe' /\ LW!Withdraw
<1> USE DEF Safe, CoreTypeOK, Quiet
<1>1. CoreTypeOK'
  OBVIOUS
<1>2. RunsAreDistinct'
  BY DEF RunsAreDistinct, Newest
<1>3. TimerIsCurrent' /\ AutoRunIsCurrent' /\ AutoIsFresh' /\ AutoNeverStalls'
  BY DEF TimerIsCurrent, AutoRunIsCurrent, AutoIsFresh, AutoNeverStalls
<1>4. LW!Withdraw
  BY KeepOrClear DEF LW!Withdraw, Newest
<1> QED BY <1>1, <1>2, <1>3, <1>4

\* An effect that starts a run at once.
LEMMA RunningEffect ==
  ASSUME Safe, job' = job + 1, timer' = {}, NEW old \in Views,
         Closure' \in Closures, Run(Closure', old),
         unspent' \in BOOLEAN, first' \in BOOLEAN
  PROVE  Safe' /\ LW!Ask
<1> USE DEF Safe, CoreTypeOK
<1>0. Closure'.job = job' /\ Closure'.request = Request' /\ Closure'.decoded = Decoded'
  BY DEF Closure
<1>1. /\ view' \in Views /\ view'.result = {} /\ view'.status \in {"computing", "error"}
      /\ controller' = job'
      /\ runs' = runs \/ runs' = runs \cup {Closure'}
      /\ lastRunSpec' = lastRunSpec
      /\ view'.status = "computing" => Closure' \in runs' \/ Decoded' = "loading"
  BY <1>0, RunFacts
<1>2. CoreTypeOK'
  BY <1>1
<1>3. \A c \in runs : c.job \in Nat /\ c.job < job'
  BY DEF RunsAreDistinct, Closures
<1>4. RunsAreDistinct'
  <2>1. \A c \in runs' : c.job <= job'
    BY <1>0, <1>1, <1>3
  <2>2. \A c, d \in runs' : c.job = d.job => c = d
    BY <1>0, <1>1, <1>3 DEF RunsAreDistinct
  <2> QED BY <2>1, <2>2 DEF RunsAreDistinct
<1>5. \A c \in Newest' : c.request = Request'
  BY <1>0, <1>1, <1>3 DEF Newest
<1>6. TimerIsCurrent' /\ AutoRunIsCurrent' /\ AutoIsFresh'
  BY <1>1, <1>5 DEF TimerIsCurrent, AutoRunIsCurrent, AutoIsFresh
<1>7. AutoNeverStalls'
  <2>1. view'.status = "computing" => Newest' # {} \/ Decoded' = "loading"
    BY <1>0, <1>1 DEF Newest
  <2> QED BY <1>1, <2>1, Zenon DEF AutoNeverStalls
<1>8. LW!Ask
  BY <1>1, KeepOrClear DEF LW!Ask
<1> QED BY <1>2, <1>4, <1>6, <1>7, <1>8

\* An effect that schedules a run.
LEMMA WaitingEffect ==
  ASSUME Safe, NEW v, Handed(v), NEW p, TextWaits(v, p), mode' = "text", loaded',
         Closure' \in Closures
  PROVE  Safe' /\ LW!Ask
<1> USE DEF Safe, CoreTypeOK, Handed
<1>r. TextReady' /\ EffectiveAuto'
  BY DEF TextWaits, TextReady
<1>w. /\ job' = job + 1 /\ timer' = {Closure'}
      /\ view' = IF timer = {} THEN MarkPending(v) ELSE v
      /\ runs' = runs /\ controller' = controller /\ lastRunSpec' = lastRunSpec
  BY DEF TextWaits
<1>0. Closure'.job = job'
  BY DEF Closure
<1>1. view' \in Views /\ view'.result = view.result /\ view'.status = "pending"
  BY <1>w, MarkPendingType
<1>2. CoreTypeOK'
  <2>1. timer' \in SUBSET Closures /\ \A c, d \in timer' : c = d
    BY <1>w
  <2>2. \A c, d \in view'.result : c = d
    BY <1>1
  <2>3. /\ job' \in Nat /\ controller' \in Nat /\ runs' \in SUBSET Closures
        /\ lastRunSpec' \in Specs \cup {NoSpec}
    BY <1>w
  <2>4. unspent' \in BOOLEAN /\ first' \in BOOLEAN
    BY DEF TextWaits
  <2> QED BY <1>1, <2>1, <2>2, <2>3, <2>4
<1>3. \A c \in runs' : c.job \in Nat /\ c.job < job'
  BY <1>w DEF RunsAreDistinct, Closures
<1>4. Newest' = {}
  BY <1>3 DEF Newest
<1>5. RunsAreDistinct'
  BY <1>w, <1>3, <1>4 DEF RunsAreDistinct
<1>6. TimerIsCurrent'
  <2>1. \A c \in timer' : c = Closure'
    BY <1>w
  <2>2. timer' # {} => view'.status = "pending" /\ TextReady' /\ EffectiveAuto'
    BY <1>r, <1>1, Zenon
  <2> HIDE DEF Safe, CoreTypeOK, Handed
  <2> QED BY <2>1, <2>2, Zenon DEF TimerIsCurrent
<1>7. AutoRunIsCurrent' /\ AutoIsFresh' /\ AutoNeverStalls'
  BY <1>w, <1>1, <1>4 DEF AutoRunIsCurrent, AutoIsFresh, AutoNeverStalls
<1>8. LW!Ask
  BY <1>w, <1>1, KeepOrClear DEF LW!Ask
<1> QED BY <1>2, <1>5, <1>6, <1>7, <1>8

\* One flush of the effects, in either source mode.
EffectOf(v, p) ==
  \/ mode' = "text" /\ TextEffect(v, p)
  \/ mode' = "file" /\ FileEffect(v, p)

LEMMA EffectStep ==
  ASSUME Safe, PanelTypeOK', loaded', NEW v, Handed(v), NEW p \in BOOLEAN, EffectOf(v, p)
  PROVE  Safe' /\ LWStep
<1> USE DEF LWStep, Handed
<1>0. job \in Nat /\ first \in BOOLEAN
  BY DEF Safe, CoreTypeOK
<1>1. ASSUME job' = job + 1, mode' = "file" => file' # NoFile
      PROVE  Closure' \in Closures
  <2>1. Capturable'
    BY <1>0, <1>1 DEF Capturable
  <2> QED BY <2>1, ClosureTypeNext
<1>2. ASSUME mode' = "text", TextEffect(v, p)
      PROVE  Safe' /\ LWStep
  <2>1. CASE TextIsBlank(v, p)
    BY <1>0, <1>2, <2>1, BlankViewType, QuietEffect DEF TextIsBlank, TextReady
  <2>2. CASE TextIsHeld(v, p)
    <3>1. PICK why \in {"input", "settings"} : view' = MarkStale(v, why)
      BY <2>2 DEF TextIsHeld
    <3>2. /\ Quiet /\ timer' = {} /\ unspent' \in BOOLEAN /\ first' \in BOOLEAN /\ ~EffectiveAuto'
      BY <2>2 DEF TextIsHeld
    <3>3. view' \in Views /\ view'.result = view.result
      BY <3>1, MarkStaleType
    <3> QED BY <3>2, <3>3, QuietEffect
  <2>3. CASE TextRunsNow(v, p)
    <3>1. Closure' \in Closures
      BY <1>1, <1>2, <2>3 DEF TextRunsNow
    <3> QED BY <2>3, <3>1, RunningEffect DEF TextRunsNow
  <2>4. CASE TextWaits(v, p)
    <3>1. Closure' \in Closures
      BY <1>1, <1>2, <2>4 DEF TextWaits
    <3> QED BY <1>2, <2>4, <3>1, WaitingEffect
  <2> QED BY <1>2, <2>1, <2>2, <2>3, <2>4 DEF TextEffect
<1>3. ASSUME mode' = "file", FileEffect(v, p)
      PROVE  Safe' /\ LWStep
  <2> USE DEF FileEffect
  <2>0. ~TextReady'
    BY <1>3 DEF TextReady
  <2>1. CASE FileIsMissing(v, p)
    BY <1>0, <1>3, <2>0, <2>1, BlankViewType, QuietEffect DEF FileIsMissing
  <2>2. CASE FileIsHeld(v, p)
    BY <1>0, <1>3, <2>0, <2>2, MarkStaleType, QuietEffect DEF FileIsHeld
  <2>3. CASE FileRuns(v, p)
    <3>1. Closure' \in Closures
      BY <1>1, <1>3, <2>3 DEF FileRuns
    <3> QED BY <1>0, <1>3, <2>3, <3>1, RunningEffect DEF FileRuns
  <2> QED BY <1>3, <2>1, <2>2, <2>3
<1> QED BY <1>2, <1>3 DEF EffectOf

-----------------------------------------------------------------------------
(* Every step keeps the invariant and is a step of LatestWins.             *)

LEMMA HandedView == Safe => Handed(view) /\ unspent \in BOOLEAN
BY DEF Safe, CoreTypeOK, TimerIsCurrent, Handed

LEMMA HandedPending == Safe => Handed(MarkPending(view))
BY MarkPendingType DEF Safe, CoreTypeOK, Handed

LEMMA HoldType == ASSUME NEW held, Hold(held) PROVE lock' \in BOOLEAN
BY DEF Hold

\* What a step of the session keeps.
Kept == PanelTypeOK' /\ Safe' /\ lock' \in BOOLEAN /\ (LWStep \/ LW!Restart)

\* An event whose whole cascade is one flush of the effects.
LEMMA FlushStep ==
  ASSUME IInv, PanelTypeOK', loaded',
         NEW v, Handed(v), NEW p \in BOOLEAN, EffectOf(v, p), NEW held, Hold(held)
  PROVE  Kept
<1>1. Safe
  BY SafeIsInvariantCore
<1>2. Safe' /\ LWStep
  BY <1>1, EffectStep
<1> QED BY <1>2, HoldType DEF Kept

\* An event no typed input is affected by: the session stays as it was.
LEMMA UntouchedStep ==
  ASSUME Safe, PanelTypeOK', lock' \in BOOLEAN, Quiet,
         UNCHANGED <<view, timer, unspent, first>>, ~TextReady, ~TextReady'
  PROVE  Kept
<1> USE DEF Safe, CoreTypeOK, Quiet
<1>1. CoreTypeOK'
  OBVIOUS
<1>2. RunsAreDistinct'
  BY DEF RunsAreDistinct, Newest
<1>3. timer' = {}
  BY DEF TimerIsCurrent
<1>4. TimerIsCurrent' /\ AutoRunIsCurrent' /\ AutoIsFresh' /\ AutoNeverStalls'
  BY <1>3 DEF TimerIsCurrent, AutoRunIsCurrent, AutoIsFresh, AutoNeverStalls
<1>5. LW!Withdraw
  BY KeepOrClear DEF LW!Withdraw, Newest
<1> QED BY <1>1, <1>2, <1>4, <1>5 DEF Kept, LWStep

LEMMA EditTextStep ==
  ASSUME IInv, NEW t \in Texts \cup {EmptyText}, EditText(t)  PROVE Kept
<1>1. PanelTypeOK' /\ loaded'
  BY DEF IInv, TypeOK, EditText, PanelTypeOK, MayTouchInput, UserMay
<1>2. EffectOf(view, unspent) /\ Hold(lock)
  BY DEF EditText, InputEffects, EffectOf
<1> QED BY <1>1, <1>2, HandedView, SafeIsInvariantCore, FlushStep

LEMMA ChooseEncodingStep ==
  ASSUME IInv, NEW e \in Encodings, ChooseEncoding(e)  PROVE Kept
<1>1. PanelTypeOK' /\ loaded'
  BY DEF IInv, TypeOK, ChooseEncoding, TablesEffect, PanelTypeOK, MayTouchInput, UserMay
<1>2. EffectOf(view, unspent) /\ Hold(lock)
  BY DEF ChooseEncoding, InputEffects, EffectOf
<1> QED BY <1>1, <1>2, HandedView, SafeIsInvariantCore, FlushStep

LEMMA ChangeModeStep ==
  ASSUME IInv, NEW m \in Modes, ChangeMode(m)  PROVE Kept
<1>1. PanelTypeOK' /\ loaded'
  BY DEF IInv, TypeOK, ChangeMode, TablesEffect, PanelTypeOK, MayTouchInput, UserMay
<1>2. EffectOf(view, unspent) /\ Hold(lock)
  BY DEF ChangeMode, InputEffects, EffectOf
<1> QED BY <1>1, <1>2, HandedView, SafeIsInvariantCore, FlushStep

LEMMA ChooseFileStep ==
  ASSUME IInv, NEW f \in Files \cup {NoFile}, ChooseFile(f)  PROVE Kept
<1>1. PanelTypeOK' /\ loaded'
  <2>1. /\ UNCHANGED <<toolId, loaded, spec, text, enc, autoUpdate, tables>>
        /\ mode' = "file" /\ file' = f /\ loaded
    BY DEF ChooseFile, MayTouchInput, UserMay
  <2>2. runFile' = f \/ (runFile' = runFile /\ FileKey' = FileKey)
    BY DEF ChooseFile
  <2>3. IF runFile' \in Files THEN file' \in Files /\ Stamp[runFile'] = Stamp[file']
        ELSE runFile' = NoFile /\ file' = NoFile
    BY <2>1, <2>2, Distinct DEF IInv, TypeOK, PanelTypeOK, FileKey
  <2> QED BY <2>1, <2>3 DEF IInv, TypeOK, PanelTypeOK
<1>2. CASE InputEffects
  <2>1. EffectOf(view, unspent) /\ Hold(lock)
    BY <1>2 DEF InputEffects, EffectOf
  <2> QED BY <1>1, <2>1, HandedView, SafeIsInvariantCore, FlushStep
<1>3. CASE mode = "file" /\ UNCHANGED session
  <2>1. ~TextReady /\ ~TextReady'
    BY <1>3 DEF TextReady, ChooseFile
  <2>2. Quiet /\ UNCHANGED <<view, timer, unspent, first>> /\ lock' \in BOOLEAN
    BY <1>3, SafeIsInvariantCore DEF session, Quiet
  <2> QED BY <1>1, <2>1, <2>2, SafeIsInvariantCore, UntouchedStep
<1> QED BY <1>2, <1>3 DEF ChooseFile

LEMMA ChangeSpecStep ==
  ASSUME IInv, NEW s \in Specs, ChangeSpec(s)  PROVE Kept
<1>1. PanelTypeOK' /\ loaded' /\ lock' \in BOOLEAN
  BY Distinct, HoldType DEF IInv, TypeOK, ChangeSpec, PanelTypeOK, UserMay, input
<1>2. CASE mode = "text" /\ TextEffect(view, unspent)
  <2>1. EffectOf(view, unspent) /\ Hold(lock)
    BY <1>2 DEF ChangeSpec, EffectOf, input
  <2> QED BY <1>1, <2>1, HandedView, SafeIsInvariantCore, FlushStep
<1>3. CASE mode = "file" /\ FileSpecEffect
  <2>1. Safe
    BY SafeIsInvariantCore
  <2>2. ~TextReady'
    BY <1>3 DEF TextReady, ChangeSpec, input
  <2>3. view' \in Views /\ view'.result = view.result
    BY <1>3, <2>1, MarkStaleType DEF FileSpecEffect, Safe, CoreTypeOK
  <2>4. Quiet /\ timer' = {} /\ unspent' \in BOOLEAN /\ first' \in BOOLEAN
    BY <1>3, <2>1 DEF FileSpecEffect, Safe, CoreTypeOK
  <2>5. Safe' /\ LW!Withdraw
    BY <2>1, <2>2, <2>3, <2>4, QuietEffect
  <2> QED BY <1>1, <2>5 DEF Kept, LWStep
<1> QED BY <1>2, <1>3 DEF ChangeSpec

LEMMA ToggleAutoStep == ASSUME IInv, ToggleAuto  PROVE Kept
<1>1. PanelTypeOK' /\ loaded'
  BY DEF IInv, TypeOK, ToggleAuto, PanelTypeOK, UserMay, input
<1>2. CASE mode = "text" /\ TextEffect(view, unspent) /\ Hold(lock)
  <2>1. EffectOf(view, unspent)
    BY <1>2 DEF ToggleAuto, EffectOf, input
  <2> QED BY <1>1, <1>2, <2>1, HandedView, SafeIsInvariantCore, FlushStep
<1>3. CASE mode = "file" /\ UNCHANGED session
  <2>1. ~TextReady /\ ~TextReady'
    BY <1>3 DEF TextReady, ToggleAuto, input
  <2>2. Quiet /\ UNCHANGED <<view, timer, unspent, first>> /\ lock' \in BOOLEAN
    BY <1>3, SafeIsInvariantCore DEF session, Quiet
  <2> QED BY <1>1, <2>1, <2>2, SafeIsInvariantCore, UntouchedStep
<1> QED BY <1>2, <1>3 DEF ToggleAuto

LEMMA PressComputeStep == ASSUME IInv, PressCompute  PROVE Kept
<1>1. PanelTypeOK' /\ loaded'
  BY DEF IInv, TypeOK, PressCompute, PanelTypeOK, UserMay, input
<1>2. EffectOf(MarkPending(view), TRUE) /\ Hold(TRUE)
  BY DEF PressCompute, EffectOf, input
<1> QED BY <1>1, <1>2, HandedPending, SafeIsInvariantCore, FlushStep

LEMMA OpenToolStep == ASSUME IInv, NEW t \in Tools, OpenTool(t)  PROVE Kept
<1>1. PanelTypeOK' /\ lock' \in BOOLEAN
  BY DEF IInv, TypeOK, OpenTool, PanelTypeOK, TablesEffect, input
<1>2. /\ job' = 0 /\ timer' = {} /\ runs' = {} /\ view' = BlankView /\ ~loaded'
      /\ controller' = 0 /\ lastRunSpec' = NoSpec /\ unspent' = FALSE /\ first' = TRUE
  BY DEF OpenTool
<1>3. CoreTypeOK'
  BY <1>2, BlankViewType DEF CoreTypeOK
<1>4. Newest' = {} /\ ~TextReady'
  BY <1>2 DEF Newest, TextReady
<1>5. Safe'
  BY <1>2, <1>3, <1>4
  DEF Safe, RunsAreDistinct, TimerIsCurrent, AutoRunIsCurrent, AutoIsFresh, AutoNeverStalls
<1>6. LW!Restart
  BY <1>2, <1>4, BlankViewType DEF LW!Restart, JobOf
<1> QED BY <1>1, <1>5, <1>6 DEF Kept

LEMMA LoadToolStep == ASSUME IInv, LoadTool  PROVE Kept
<1>1. PanelTypeOK' /\ loaded' /\ lock' \in BOOLEAN
  BY Distinct, Capabilities, HoldType
  DEF IInv, TypeOK, LoadTool, PanelTypeOK, TablesEffect
<1>2. CASE EffectOf(view, unspent)
  <2>1. Hold(lock)
    BY DEF LoadTool
  <2> QED BY <1>1, <1>2, <2>1, HandedView, SafeIsInvariantCore, FlushStep
<1>3. CASE mode' = "file" /\ UNCHANGED <<view, timer, unspent, first>> /\ Quiet
  <2>1. ~TextReady /\ ~TextReady'
    BY <1>3 DEF TextReady, LoadTool
  <2> QED BY <1>1, <1>3, <2>1, SafeIsInvariantCore, UntouchedStep
<1> QED BY <1>2, <1>3 DEF LoadTool, EffectOf

\* The panel is as it was, and what a run would capture with it.
Same == /\ UNCHANGED <<toolId, loaded, spec, input, autoUpdate, tables, job>>
        /\ PanelTypeOK' /\ lock' \in BOOLEAN

LEMMA SameReads ==
  ASSUME Same
  PROVE  /\ Request' = Request /\ Decoded' = Decoded /\ Closure' = Closure
         /\ TextReady' = TextReady /\ EffectiveAuto' = EffectiveAuto
<1> USE DEF Same, input
<1>1. Request' = Request
  BY DEF Request, Source
<1>2. Decoded' = Decoded
  BY DEF Decoded
<1>3. Closure' = Closure
  BY <1>1, <1>2 DEF Closure
<1>4. TextReady' = TextReady /\ EffectiveAuto' = EffectiveAuto
  BY DEF TextReady, EffectiveAuto, Generates, Reads
<1> QED BY <1>1, <1>2, <1>3, <1>4

LEMMA TimerFiresStep == ASSUME IInv, TimerFires  PROVE Kept
<1> USE DEF Safe, CoreTypeOK
<1>s. Safe
  BY SafeIsInvariantCore
<1>1. PICK c \in timer : Run(c, view) /\ timer' = {} /\ Hold(lock)
  BY DEF TimerFires
<1>2. Same /\ unspent' = unspent /\ first' = first
  BY HoldType DEF TimerFires, IInv, TypeOK, PanelTypeOK, Same, input
<1>3. /\ c \in Closures /\ c.job = job /\ job' = job /\ Newest = {}
      /\ c.request = Request' /\ c.decoded = Decoded'
  BY <1>s, <1>2, SameReads DEF TimerIsCurrent, RunsAreDistinct, Closure, Same
<1>4. /\ view' \in Views /\ view'.result = {} /\ view'.status \in {"computing", "error"}
      /\ controller' = job /\ lastRunSpec' = lastRunSpec
      /\ runs' = runs \/ runs' = runs \cup {c}
      /\ view'.status = "computing" => c \in runs' \/ Decoded' = "loading"
  BY <1>s, <1>1, <1>3, RunFacts
<1>5. CoreTypeOK'
  <2>1. view' \in Views /\ (\A d, e \in view'.result : d = e) /\ timer' = {}
    BY <1>1, <1>4
  <2>2. job' \in Nat /\ controller' \in Nat /\ lastRunSpec' \in Specs \cup {NoSpec}
    BY <1>s, <1>3, <1>4
  <2>3. runs' \in SUBSET Closures
    BY <1>s, <1>3, <1>4
  <2>4. unspent' \in BOOLEAN /\ first' \in BOOLEAN
    BY <1>s, <1>2, Zenon
  <2> QED BY <2>1, <2>2, <2>3, <2>4
<1>6. RunsAreDistinct'
  <2>1. \A d \in runs : d.job \in Nat /\ d.job <= job /\ d.job # job
    BY <1>s, <1>3 DEF RunsAreDistinct, Newest, Closures
  <2>2. \A d \in runs' : d.job <= job'
    BY <1>s, <1>3, <1>4, <2>1
  <2>3. \A d, e \in runs' : d.job = e.job => d = e
    BY <1>s, <1>3, <1>4, <2>1 DEF RunsAreDistinct
  <2> QED BY <1>1, <2>2, <2>3 DEF RunsAreDistinct
<1>7. \A d \in Newest' : d.request = Request'
  BY <1>3, <1>4 DEF Newest
<1>8. TimerIsCurrent' /\ AutoRunIsCurrent' /\ AutoIsFresh'
  BY <1>1, <1>4, <1>7 DEF TimerIsCurrent, AutoRunIsCurrent, AutoIsFresh
<1>9. AutoNeverStalls'
  <2>1. view'.status = "computing" => Newest' # {} \/ Decoded' = "loading"
    BY <1>3, <1>4 DEF Newest
  <2>2. view'.status \in {"computing", "error"}
    BY <1>4
  <2> HIDE DEF Safe, CoreTypeOK
  <2> QED BY <2>1, <2>2 DEF AutoNeverStalls
<1>10. LW!Withdraw
  BY <1>1, <1>3, <1>4, KeepOrClear DEF LW!Withdraw
<1> QED BY <1>2, <1>5, <1>6, <1>8, <1>9, <1>10 DEF Same, Kept, LWStep

\* The session and what it reads are as they were, whatever the tables did.
LEMMA AsItWas ==
  ASSUME Safe, PanelTypeOK', lock' \in BOOLEAN, Decoded' = Decoded,
         UNCHANGED <<toolId, loaded, spec, input, autoUpdate, session>>
  PROVE  Kept
<1> USE DEF Safe, CoreTypeOK, input, session
<1>1. CoreTypeOK'
  OBVIOUS
<1>2. RunsAreDistinct' /\ Newest' = Newest
  BY DEF RunsAreDistinct, Newest
<1>3. Request' = Request
  BY DEF Request, Source
<1>4. Closure' = Closure
  BY <1>3 DEF Closure
<1>5. TextReady' = TextReady /\ EffectiveAuto' = EffectiveAuto
  BY DEF TextReady, EffectiveAuto, Generates, Reads
<1>6. TimerIsCurrent' /\ AutoRunIsCurrent' /\ AutoIsFresh' /\ AutoNeverStalls'
  BY <1>2, <1>3, <1>4, <1>5
  DEF TimerIsCurrent, AutoRunIsCurrent, AutoIsFresh, AutoNeverStalls, Current
<1>7. LW!Withdraw
  BY <1>2, KeepOrClear DEF LW!Withdraw
<1> QED BY <1>1, <1>2, <1>6, <1>7 DEF Kept, LWStep

LEMMA TablesArriveStep == ASSUME IInv, TablesArrive  PROVE Kept
<1>s. Safe
  BY SafeIsInvariantCore
<1>1. PanelTypeOK'
  BY DEF IInv, TypeOK, TablesArrive, PanelTypeOK, input
<1>2. CASE AwaitingTables /\ loaded
  <2>1. EffectOf(view, unspent) /\ Hold(lock) /\ loaded'
    BY <1>2 DEF TablesArrive, EffectOf, AwaitingTables, input
  <2> QED BY <1>1, <2>1, HandedView, SafeIsInvariantCore, FlushStep
<1>3. CASE ~(AwaitingTables /\ loaded) /\ UNCHANGED session
  <2>1. lock' \in BOOLEAN /\ Quiet /\ UNCHANGED <<view, timer, unspent, first>>
    BY <1>3, SafeIsInvariantCore DEF session, Quiet
  <2>2. CASE ~TextReady
    <3>1. ~TextReady'
      BY <2>2 DEF TextReady, TablesArrive, Reads, input
    <3> QED BY <1>s, <1>1, <2>1, <2>2, <3>1, UntouchedStep
  <2>3. CASE TextReady
    <3>1. enc = "unicode" /\ mode = "text"
      BY <1>3, <2>3 DEF TextReady, AwaitingTables, IInv, TypeOK, PanelTypeOK
    <3>2. UNCHANGED <<toolId, loaded, spec, input, autoUpdate, session>>
      BY <1>3 DEF TablesArrive
    <3>3. Decoded' = Decoded
      BY <3>1, <3>2 DEF Decoded, input
    <3> QED BY <1>s, <1>1, <2>1, <3>2, <3>3, AsItWas
  <2> QED BY <2>2, <2>3
<1> QED BY <1>2, <1>3 DEF TablesArrive

LEMMA TablesFailStep == ASSUME IInv, TablesFail  PROVE Kept
<1>1. PanelTypeOK' /\ lock' \in BOOLEAN
  BY DEF IInv, TypeOK, SessionTypeOK, TablesFail, PanelTypeOK, input, session
<1>2. UNCHANGED <<toolId, loaded, spec, input, autoUpdate, session>>
  BY DEF TablesFail
<1>3. Decoded' = Decoded
  BY <1>2 DEF Decoded, TablesFail, input
<1> QED BY <1>1, <1>2, <1>3, SafeIsInvariantCore, AsItWas

LEMMA ProgressStep == ASSUME IInv, NEW c \in runs, Progress(c)  PROVE Kept
<1> USE DEF Safe, CoreTypeOK
<1>s. Safe
  BY SafeIsInvariantCore
<1>1. /\ UNCHANGED <<job, timer, runs, controller, lastRunSpec, unspent, first>>
      /\ view' = IF c.job = job THEN Showing("computing", {}) ELSE view
  BY DEF Progress
<1>2. Same
  BY DEF Progress, IInv, TypeOK, SessionTypeOK, PanelTypeOK, Same, input
<1>3. view' = view \/ (view'.status = "computing" /\ view'.result = {} /\ view' \in Views
                        /\ c \in Newest /\ timer = {})
  BY <1>s, <1>1 DEF Showing, Views, Statuses, Newest, RunsAreDistinct
<1>4. CoreTypeOK'
  BY <1>s, <1>1, <1>3
<1>5. RunsAreDistinct' /\ Newest' = Newest
  BY <1>s, <1>1 DEF RunsAreDistinct, Newest
<1>6. TimerIsCurrent'
  BY <1>s, <1>1, <1>2, <1>3, SameReads DEF TimerIsCurrent
<1>7. AutoRunIsCurrent'
  BY <1>s, <1>2, <1>5, SameReads DEF AutoRunIsCurrent
<1>8. AutoIsFresh' /\ AutoNeverStalls'
  BY <1>s, <1>1, <1>2, <1>3, <1>5, SameReads DEF AutoIsFresh, AutoNeverStalls, Current
<1>9. LW!Withdraw
  BY <1>1, <1>3, <1>5, KeepOrClear DEF LW!Withdraw
<1> QED BY <1>2, <1>4, <1>5, <1>6, <1>7, <1>8, <1>9 DEF Same, Kept, LWStep

LEMMA AbandonStep == ASSUME IInv, NEW c \in runs, Abandon(c)  PROVE Kept
<1> USE DEF Safe, CoreTypeOK
<1>s. Safe
  BY SafeIsInvariantCore
<1>1. /\ UNCHANGED <<view, job, timer, controller, lastRunSpec, unspent, first>>
      /\ runs' = runs \ {c} /\ c.request.mode = "file"
  BY DEF Abandon
<1>2. Same
  BY DEF Abandon, IInv, TypeOK, SessionTypeOK, PanelTypeOK, Same, input
<1>3. CoreTypeOK'
  BY <1>s, <1>1
<1>4. RunsAreDistinct' /\ Newest' = Newest \ {c}
  BY <1>s, <1>1 DEF RunsAreDistinct, Newest
<1>5. TimerIsCurrent' /\ AutoIsFresh'
  BY <1>s, <1>1, <1>2, SameReads DEF TimerIsCurrent, AutoIsFresh, Current
<1>6. AutoRunIsCurrent'
  BY <1>s, <1>2, <1>4, SameReads DEF AutoRunIsCurrent
<1>7. TextReady /\ EffectiveAuto => c \notin Newest
  BY <1>s, <1>1 DEF AutoRunIsCurrent, Request, TextReady
<1>8. AutoNeverStalls'
  BY <1>s, <1>1, <1>2, <1>4, <1>7, SameReads DEF AutoNeverStalls
<1>9. LW!Withdraw
  BY <1>1, <1>4, KeepOrClear DEF LW!Withdraw
<1> QED BY <1>2, <1>3, <1>4, <1>5, <1>6, <1>8, <1>9 DEF Same, Kept, LWStep

LEMMA SettleStep ==
  ASSUME IInv, NEW c \in runs, NEW outcome \in {"done", "error"}, Settle(c, outcome)
  PROVE  Kept
<1> USE DEF Safe, CoreTypeOK
<1>s. Safe
  BY SafeIsInvariantCore
<1>1. /\ UNCHANGED <<job, timer, controller, unspent, first>>
      /\ runs' = runs \ {c}
  BY DEF Settle
<1>2. Same
  BY HoldType DEF Settle, IInv, TypeOK, PanelTypeOK, Same, input
<1>3. RunsAreDistinct' /\ Newest' = Newest \ {c}
  BY <1>s, <1>1 DEF RunsAreDistinct, Newest
<1>4. c \in Closures
  BY <1>s
<1>5. CASE c.job = job
  <2>1. /\ view' = Showing(outcome, IF outcome = "done" THEN {c} ELSE {})
        /\ lastRunSpec' = IF outcome = "done" THEN c.request.spec ELSE lastRunSpec
    BY <1>5 DEF Settle
  <2>2. /\ view' \in Views /\ \A d, e \in view'.result : d = e
        /\ view'.result \subseteq {c} /\ view'.status \in {"done", "error"}
    BY <1>4, <2>1 DEF Showing, Views, Statuses
  <2>3. lastRunSpec' \in Specs \cup {NoSpec}
    BY <1>s, <1>4, <2>1 DEF Closures, Requests
  <2>4. CoreTypeOK'
    BY <1>s, <1>1, <2>2, <2>3
  <2>5. Newest = {c} /\ Newest' = {} /\ timer = {}
    BY <1>s, <1>3, <1>5 DEF Newest, RunsAreDistinct
  <2>6. TimerIsCurrent' /\ AutoRunIsCurrent'
    BY <1>1, <2>5 DEF TimerIsCurrent, AutoRunIsCurrent
  <2>7. AutoNeverStalls'
    BY <2>2 DEF AutoNeverStalls
  <2>8. AutoIsFresh'
    BY <1>s, <1>2, <2>2, <2>5, SameReads DEF AutoRunIsCurrent, AutoIsFresh, Current
  <2>9. JobOf(view'.result) \in {job, 0}
    BY <1>5, <2>2 DEF JobOf
  <2>10. LW!Answer
    BY <1>1, <2>5, <2>9 DEF LW!Answer
  <2> QED BY <1>2, <1>3, <2>4, <2>6, <2>7, <2>8, <2>10 DEF Same, Kept, LWStep
<1>6. CASE c.job # job
  <2>1. UNCHANGED <<view, lastRunSpec>>
    BY <1>6 DEF Settle
  <2>2. Newest' = Newest
    BY <1>3, <1>6 DEF Newest
  <2>3. CoreTypeOK'
    BY <1>s, <1>1, <2>1
  <2>4. TimerIsCurrent' /\ AutoRunIsCurrent'
    BY <1>s, <1>1, <1>2, <2>1, <2>2, SameReads DEF TimerIsCurrent, AutoRunIsCurrent
  <2>5. AutoIsFresh' /\ AutoNeverStalls'
    BY <1>s, <1>1, <1>2, <2>1, <2>2, SameReads DEF AutoIsFresh, AutoNeverStalls, Current
  <2>6. LW!Withdraw
    BY <1>1, <2>1, <2>2, KeepOrClear DEF LW!Withdraw
  <2> QED BY <1>2, <1>3, <2>3, <2>4, <2>5, <2>6 DEF Same, Kept, LWStep
<1> QED BY <1>5, <1>6

-----------------------------------------------------------------------------

LEMMA InitStep == Init => IInv /\ LW!Init
<1> SUFFICES ASSUME Init PROVE IInv /\ LW!Init
  OBVIOUS
<1> USE DEF Init
<1>1. PanelTypeOK
  BY Distinct DEF PanelTypeOK
<1>2. CoreTypeOK /\ lock \in BOOLEAN
  BY BlankViewType DEF CoreTypeOK
<1>3. Newest = {} /\ ~TextReady
  BY DEF Newest, TextReady
<1>4. Safe
  BY <1>2, <1>3
  DEF Safe, RunsAreDistinct, TimerIsCurrent, AutoRunIsCurrent, AutoIsFresh, AutoNeverStalls
<1>5. LW!Init
  BY <1>3, BlankViewType DEF LW!Init, JobOf
<1> QED BY <1>1, <1>2, <1>4, <1>5, SafeIsInvariantCore

LEMMA KeptIsEnough == Kept => IInv' /\ [LW!Next]_(LW!vars)
<1> SUFFICES ASSUME Kept PROVE IInv' /\ [LW!Next]_(LW!vars)
  OBVIOUS
<1>1. IInv'
  BY DEF Kept, IInv, Safe, CoreTypeOK, TypeOK, SessionTypeOK
<1>2. LW!Next
  BY DEF Kept, LWStep, LW!Next
<1> QED BY <1>1, <1>2

LEMMA NextStep == IInv /\ [Next]_vars => IInv' /\ [LW!Next]_(LW!vars)
<1> SUFFICES ASSUME IInv, [Next]_vars PROVE IInv' /\ [LW!Next]_(LW!vars)
  OBVIOUS
<1>1. CASE User
  <2>1. Kept
    BY <1>1, EditTextStep, ChooseEncodingStep, ChangeModeStep, ChooseFileStep,
       ChangeSpecStep, ToggleAutoStep, PressComputeStep, OpenToolStep DEF User
  <2> QED BY <2>1, KeptIsEnough
<1>2. CASE Machine
  <2>1. Kept
    BY <1>2, LoadToolStep, TimerFiresStep, TablesArriveStep, TablesFailStep,
       ProgressStep, AbandonStep, SettleStep DEF Machine, TablesSettle, SettleOne
  <2> QED BY <2>1, KeptIsEnough
<1>3. CASE UNCHANGED vars
  <2>1. UNCHANGED <<toolId, loaded, spec, input, autoUpdate, session>> /\ tables' = tables
    BY <1>3 DEF vars
  <2>2. PanelTypeOK' /\ lock' \in BOOLEAN /\ Decoded' = Decoded
    BY <2>1 DEF IInv, TypeOK, SessionTypeOK, PanelTypeOK, Decoded, input, session
  <2>3. Kept
    BY <2>1, <2>2, SafeIsInvariantCore, AsItWas
  <2> QED BY <2>3, KeptIsEnough
<1> QED BY <1>1, <1>2, <1>3 DEF Next

\* The inductive invariant holds throughout.
THEOREM Invariance == Spec => []IInv
<1>1. Init => IInv
  BY InitStep
<1>2. IInv /\ [Next]_vars => IInv'
  BY NextStep
<1> QED BY <1>1, <1>2, PTL DEF Spec

\* Every variable keeps to its kind in sessions of any length: at most one run
\* is ever scheduled and at most one result shown.
THEOREM TypeCorrect == Spec => []TypeOK
BY Invariance, PTL DEF IInv

\* The debounced action is always the one for what the panel holds: the hook
\* never fires a closure over an edit, setting or table state that has moved.
THEOREM ScheduleIsCurrent == Spec => []TimerIsCurrent
BY Invariance, PTL DEF IInv

\* With the switch on, no interleaving shows a result for another input or
\* other settings than those in the panel.
THEOREM NoWrongAnswer == Spec => []AutoIsFresh
BY Invariance, PTL DEF IInv

\* With the switch on, no interleaving leaves a typed input without an answer
\* and with nothing that would bring one, but for tables that failed to load.
THEOREM NoLostAnswer == Spec => []AutoNeverStalls
BY Invariance, PTL DEF IInv

\* The session implements LatestWins: no reply of a superseded run is painted,
\* none twice, and none comes back.
THEOREM LatestAnswerWins == Spec => AnswersLatest
<1>1. Init => LW!Init
  BY InitStep
<1>2. IInv /\ [Next]_vars => [LW!Next]_(LW!vars)
  BY NextStep
<1> QED BY <1>1, <1>2, Invariance, PTL DEF Spec, AnswersLatest, LW!Spec

-----------------------------------------------------------------------------
(* What a press starts, and why a result is marked: two action properties. *)
(* The second needs what the session remembers of the result on screen.    *)

\* The settings a result on screen was computed under are those remembered.
SpecIsRemembered ==
  view.status = "done" => \A c \in view.result : c.request.spec = lastRunSpec

\* The two promises, of one step.
AnswersPress ==
  /\ ~EffectiveAuto' /\ job' > job => PressCompute \/ (unspent /\ ~unspent')
  /\ unspent' /\ ~unspent => PressCompute /\ job' = job

SaysWhy ==
  mode' = "text" /\ view'.status = "stale" /\ view.status = "done" /\ view'.reason = "settings"
    => \A c \in view'.result : c.request.spec # spec'

\* What a flush of the effects does with a view and a press.
Spends(v, p) ==
  /\ ~EffectiveAuto' /\ job' > job => p /\ ~unspent'
  /\ unspent' => p /\ job' = job

Marks(v) ==
  /\ lastRunSpec' = lastRunSpec
  /\ view' = v \/ view'.status # "done"
  /\ view'.status = "stale" =>
       \/ view' = v
       \/ mode' = "text" /\ view'.result = v.result /\ v.status = "done"
            /\ (view'.reason = "settings" => lastRunSpec # spec')
       \/ mode' = "file" /\ v.status = "done"

\* A press left unspent found nothing to read.
FindsNothing ==
  \/ mode' = "text" /\ Reads' /\ text' = EmptyText
  \/ mode' = "file" /\ file' = NoFile

LEMMA EffectSpends ==
  ASSUME NEW v, NEW p \in BOOLEAN, job \in Nat, EffectOf(v, p)
  PROVE  Spends(v, p) /\ (unspent' => FindsNothing)
<1>1. CASE mode' = "text" /\ TextIsBlank(v, p)
  BY <1>1 DEF TextIsBlank, Quiet, Spends, FindsNothing
<1>2. CASE mode' = "text" /\ TextIsHeld(v, p)
  BY <1>2 DEF TextIsHeld, Quiet, Spends
<1>3. CASE mode' = "text" /\ TextRunsNow(v, p)
  BY <1>3 DEF TextRunsNow, Spends
<1>4. CASE mode' = "text" /\ TextWaits(v, p)
  BY <1>4 DEF TextWaits, Spends
<1>5. CASE mode' = "file" /\ FileIsMissing(v, p)
  BY <1>5 DEF FileIsMissing, Quiet, Spends, FindsNothing
<1>6. CASE mode' = "file" /\ FileIsHeld(v, p)
  BY <1>6 DEF FileIsHeld, Quiet, Spends
<1>7. CASE mode' = "file" /\ FileRuns(v, p)
  BY <1>7 DEF FileRuns, Spends
<1> QED
  BY <1>1, <1>2, <1>3, <1>4, <1>5, <1>6, <1>7 DEF EffectOf, TextEffect, FileEffect

LEMMA RunMarks ==
  ASSUME NEW c, NEW v, Run(c, v)
  PROVE  /\ lastRunSpec' = lastRunSpec
         /\ view' = v \/ view'.status \in {"computing", "error"}
BY DEF Run, Commit, Showing

LEMMA HeldMarks ==
  ASSUME NEW v, NEW why, view' = MarkStale(v, why)
  PROVE  \/ view' = v
         \/ view'.status = "stale" /\ view'.reason = why /\ view'.result = v.result
              /\ v.status = "done"
BY DEF MarkStale

LEMMA EffectMarks == ASSUME NEW v, NEW p, EffectOf(v, p)  PROVE Marks(v)
<1>1. CASE mode' = "text" /\ TextIsBlank(v, p)
  BY <1>1 DEF TextIsBlank, Quiet, Marks, BlankView, Showing
<1>2. CASE mode' = "text" /\ TextIsHeld(v, p)
  <2>1. lastRunSpec' = lastRunSpec
    BY <1>2 DEF TextIsHeld, Quiet
  <2>2. CASE lastRunSpec = spec'
    <3>1. view' = MarkStale(v, "input")
      BY <1>2, <2>2 DEF TextIsHeld
    <3> QED BY <1>2, <2>1, <3>1, HeldMarks DEF Marks
  <2>3. CASE lastRunSpec # spec'
    <3>1. view' = MarkStale(v, "settings")
      BY <1>2, <2>3 DEF TextIsHeld
    <3> QED BY <1>2, <2>1, <2>3, <3>1, HeldMarks DEF Marks
  <2> QED BY <2>2, <2>3
<1>3. CASE mode' = "text" /\ TextRunsNow(v, p)
  BY <1>3, RunMarks DEF TextRunsNow, Marks
<1>4. CASE mode' = "text" /\ TextWaits(v, p)
  BY <1>4 DEF TextWaits, Marks, MarkPending, Showing
<1>5. CASE mode' = "file" /\ FileIsMissing(v, p)
  BY <1>5 DEF FileIsMissing, Quiet, Marks, BlankView, Showing
<1>6. CASE mode' = "file" /\ FileIsHeld(v, p)
  BY <1>6, HeldMarks DEF FileIsHeld, Quiet, Marks
<1>7. CASE mode' = "file" /\ FileRuns(v, p)
  BY <1>7, RunMarks DEF FileRuns, Marks
<1> QED
  BY <1>1, <1>2, <1>3, <1>4, <1>5, <1>6, <1>7 DEF EffectOf, TextEffect, FileEffect

\* An event that hands the effects the view as it is, and no press of its own.
LEMMA FlushPromises ==
  ASSUME IInv, SpecIsRemembered, EffectOf(view, unspent)
  PROVE  SpecIsRemembered' /\ AnswersPress /\ SaysWhy
<1>1. job \in Nat /\ unspent \in BOOLEAN
  BY DEF IInv, TypeOK, SessionTypeOK
<1>2. Spends(view, unspent) /\ Marks(view)
  BY <1>1, EffectSpends, EffectMarks
<1>3. SpecIsRemembered'
  BY <1>2 DEF Marks, SpecIsRemembered
<1>4. AnswersPress
  BY <1>2 DEF Spends, AnswersPress
<1>5. SaysWhy
  BY <1>2 DEF Marks, SaysWhy, SpecIsRemembered
<1> QED BY <1>3, <1>4, <1>5

\* A press.
LEMMA PressPromises ==
  ASSUME IInv, SpecIsRemembered, PressCompute
  PROVE  SpecIsRemembered' /\ AnswersPress /\ SaysWhy
<1>1. job \in Nat
  BY DEF IInv, TypeOK, SessionTypeOK
<1>2. EffectOf(MarkPending(view), TRUE)
  BY DEF PressCompute, EffectOf, input
<1>3. Spends(MarkPending(view), TRUE) /\ Marks(MarkPending(view))
  BY <1>1, <1>2, EffectSpends, EffectMarks
<1>4. MarkPending(view).status = "pending"
  BY DEF MarkPending, Showing
<1>5. SpecIsRemembered' /\ SaysWhy
  BY <1>3, <1>4 DEF Marks, SpecIsRemembered, SaysWhy
<1>6. AnswersPress
  BY <1>3 DEF Spends, AnswersPress
<1> QED BY <1>5, <1>6

\* A step without a flush, that starts no job and leaves presses alone.
LEMMA OtherPromises ==
  ASSUME job \in Nat, job' = job, unspent' = unspent,
         SpecIsRemembered', view' = view \/ view'.status # "stale" \/ mode' = "file"
  PROVE  SpecIsRemembered' /\ AnswersPress /\ SaysWhy
<1>1. ~(job' > job)
  OBVIOUS
<1> QED BY <1>1 DEF AnswersPress, SaysWhy

LEMMA PromisesStep ==
  ASSUME IInv, SpecIsRemembered, [Next]_vars
  PROVE  SpecIsRemembered' /\ AnswersPress /\ SaysWhy
<1>0. job \in Nat
  BY DEF IInv, TypeOK, SessionTypeOK
<1>1. ASSUME NEW t \in Texts \cup {EmptyText}, EditText(t)  PROVE EffectOf(view, unspent)
  BY <1>1 DEF EditText, InputEffects, EffectOf
<1>2. ASSUME NEW e \in Encodings, ChooseEncoding(e)  PROVE EffectOf(view, unspent)
  BY <1>2 DEF ChooseEncoding, InputEffects, EffectOf
<1>3. ASSUME NEW m \in Modes, ChangeMode(m)  PROVE EffectOf(view, unspent)
  BY <1>3 DEF ChangeMode, InputEffects, EffectOf
<1>4. ASSUME NEW f \in Files \cup {NoFile}, ChooseFile(f)
      PROVE  EffectOf(view, unspent) \/ UNCHANGED session
  BY <1>4 DEF ChooseFile, InputEffects, EffectOf
<1>5. ASSUME NEW s \in Specs, ChangeSpec(s)
      PROVE  EffectOf(view, unspent) \/ (mode' = "file" /\ FileSpecEffect)
  BY <1>5 DEF ChangeSpec, EffectOf, input
<1>6. ASSUME ToggleAuto
      PROVE  EffectOf(view, unspent) \/ UNCHANGED session
  BY <1>6 DEF ToggleAuto, EffectOf, input
<1>7. ASSUME LoadTool
      PROVE  EffectOf(view, unspent) \/ (UNCHANGED <<view, unspent>> /\ Quiet)
  BY <1>7 DEF LoadTool, EffectOf
<1>8. ASSUME TablesArrive
      PROVE  EffectOf(view, unspent) \/ UNCHANGED session
  BY <1>8 DEF TablesArrive, EffectOf, AwaitingTables, input
<1>9. CASE EffectOf(view, unspent)
  BY <1>9, FlushPromises
<1>10. CASE mode' = "file" /\ FileSpecEffect
  <2>1. view' = view \/ view'.status = "stale"
    BY <1>10, HeldMarks DEF FileSpecEffect
  <2>2. job' = job /\ unspent' = unspent /\ lastRunSpec' = lastRunSpec
    BY <1>10 DEF FileSpecEffect, Quiet
  <2>3. SpecIsRemembered'
    BY <2>1, <2>2 DEF SpecIsRemembered
  <2> QED BY <1>0, <1>10, <2>2, <2>3, OtherPromises
<1>11. CASE UNCHANGED <<view, unspent, job, lastRunSpec>>
  <2>1. SpecIsRemembered'
    BY <1>11 DEF SpecIsRemembered
  <2> QED BY <1>0, <1>11, <2>1, OtherPromises
<1>12. ASSUME NEW t \in Tools, OpenTool(t)
       PROVE  SpecIsRemembered' /\ AnswersPress /\ SaysWhy
  <2>1. view'.status = "blank" /\ job' = 0 /\ unspent' = FALSE
    BY <1>12 DEF OpenTool, BlankView, Showing
  <2> QED BY <1>0, <2>1 DEF SpecIsRemembered, AnswersPress, SaysWhy
<1>13. CASE TimerFires
  <2>1. PICK c \in timer : Run(c, view)
    BY <1>13 DEF TimerFires
  <2>2. job' = job /\ unspent' = unspent
    BY <1>13 DEF TimerFires
  <2>3. lastRunSpec' = lastRunSpec /\ (view' = view \/ view'.status \in {"computing", "error"})
    BY <2>1, RunMarks
  <2>4. SpecIsRemembered'
    BY <2>3 DEF SpecIsRemembered
  <2> QED BY <1>0, <2>2, <2>3, <2>4, OtherPromises
<1>14. ASSUME NEW c \in runs, Progress(c)
       PROVE  SpecIsRemembered' /\ AnswersPress /\ SaysWhy
  <2>1. job' = job /\ unspent' = unspent /\ lastRunSpec' = lastRunSpec
    BY <1>14 DEF Progress
  <2>2. view' = view \/ view'.status = "computing"
    BY <1>14 DEF Progress, Showing
  <2>3. SpecIsRemembered'
    BY <2>1, <2>2 DEF SpecIsRemembered
  <2> QED BY <1>0, <2>1, <2>2, <2>3, OtherPromises
<1>15. ASSUME NEW c \in runs, NEW outcome \in {"done", "error"}, Settle(c, outcome)
       PROVE  SpecIsRemembered' /\ AnswersPress /\ SaysWhy
  <2>1. job' = job /\ unspent' = unspent
    BY <1>15 DEF Settle
  <2>2. \/ UNCHANGED <<view, lastRunSpec>>
        \/ view'.status = "error"
        \/ /\ view'.status = "done" /\ view'.result = {c}
           /\ lastRunSpec' = c.request.spec
    BY <1>15 DEF Settle, Showing
  <2>3. SpecIsRemembered'
    BY <2>2 DEF SpecIsRemembered
  <2>4. view' = view \/ view'.status # "stale"
    BY <2>2
  <2> QED BY <1>0, <2>1, <2>3, <2>4, OtherPromises
<1>16. ASSUME NEW c \in runs, Abandon(c)
       PROVE  UNCHANGED <<view, unspent, job, lastRunSpec>>
  BY <1>16 DEF Abandon
<1>17. CASE User
  BY <1>1, <1>2, <1>3, <1>4, <1>5, <1>6, <1>9, <1>10, <1>11, <1>12, <1>17, PressPromises
  DEF User, session
<1>18. CASE Machine
  <2>1. CASE LoadTool
    BY <1>7, <1>9, <1>11, <2>1 DEF Quiet
  <2>2. CASE TablesSettle
    BY <1>8, <1>9, <1>11, <2>2 DEF TablesSettle, TablesFail, session
  <2>3. CASE SettleOne
    BY <1>15, <2>3 DEF SettleOne
  <2>4. CASE \E c \in runs : Progress(c) \/ Abandon(c)
    BY <1>11, <1>14, <1>16, <2>4
  <2> QED BY <1>13, <1>18, <2>1, <2>2, <2>3, <2>4 DEF Machine
<1>19. CASE UNCHANGED vars
  BY <1>11, <1>19 DEF vars, session
<1> QED BY <1>17, <1>18, <1>19 DEF Next

LEMMA SpecRemembered == Spec => []SpecIsRemembered
<1>1. Init => SpecIsRemembered
  BY DEF Init, BlankView, Showing, SpecIsRemembered
<1>2. IInv /\ SpecIsRemembered /\ [Next]_vars => SpecIsRemembered'
  BY PromisesStep
<1> QED BY <1>1, <1>2, Invariance, PTL DEF Spec

\* With the switch off no job starts that no press asked for, and no press
\* starts two: the trigger is compared and spent, however the events fall.
THEOREM JobsAnswerPresses == Spec => JobsArePressed
<1>1. IInv /\ SpecIsRemembered /\ [Next]_vars => [AnswersPress]_vars
  BY PromisesStep
<1> QED BY <1>1, Invariance, SpecRemembered, PTL DEF Spec, JobsArePressed, AnswersPress

\* A result the text path blames on its settings was computed under others.
THEOREM SettingsAreToBlame == Spec => SettingsReasonIsTrue
<1>1. IInv /\ SpecIsRemembered /\ [Next]_vars => [SaysWhy]_vars
  BY PromisesStep
<1> QED BY <1>1, Invariance, SpecRemembered, PTL DEF Spec, SettingsReasonIsTrue, SaysWhy

-----------------------------------------------------------------------------
(* What the comment promises of the switch holds for a tool that reads its  *)
(* input under every setting, and so for every tool that cannot be pressed  *)
(* over a file that is not there.                                           *)

AllSettingsRead ==
  \A t \in Tools : "file" \in AcceptedModes[t] => \A s \in Specs : ReadsInput[t][s]

\* No press is kept, and the panel is in a mode its tool takes.
ModeIsTaken == loaded => mode \in AcceptedModes[toolId]
NothingKept == ~unspent /\ ModeIsTaken

LEMMA ModeStep == ASSUME ModeIsTaken, [Next]_vars  PROVE ModeIsTaken'
<1> USE DEF ModeIsTaken
<1>1. CASE User
  <2>1. ASSUME NEW t \in Texts \cup {EmptyText}, EditText(t)  PROVE ModeIsTaken'
    BY <2>1 DEF EditText
  <2>2. ASSUME NEW e \in Encodings, ChooseEncoding(e)  PROVE ModeIsTaken'
    BY <2>2 DEF ChooseEncoding
  <2>3. ASSUME NEW m \in Modes, ChangeMode(m)  PROVE ModeIsTaken'
    BY <2>3 DEF ChangeMode
  <2>4. ASSUME NEW f \in Files \cup {NoFile}, ChooseFile(f)  PROVE ModeIsTaken'
    BY <2>4 DEF ChooseFile
  <2>5. ASSUME NEW s \in Specs, ChangeSpec(s)  PROVE ModeIsTaken'
    BY <2>5 DEF ChangeSpec, input
  <2>6. CASE ToggleAuto \/ PressCompute
    BY <2>6 DEF ToggleAuto, PressCompute, input
  <2>7. ASSUME NEW t \in Tools, OpenTool(t)  PROVE ModeIsTaken'
    BY <2>7 DEF OpenTool
  <2> QED BY <1>1, <2>1, <2>2, <2>3, <2>4, <2>5, <2>6, <2>7 DEF User
<1>2. CASE LoadTool
  BY <1>2 DEF LoadTool
<1>3. CASE Machine /\ ~LoadTool
  BY <1>3 DEF Machine, TimerFires, TablesSettle, TablesArrive, TablesFail,
              SettleOne, Settle, Progress, Abandon, input
<1>4. CASE UNCHANGED vars
  BY <1>4 DEF vars, input
<1> QED BY <1>1, <1>2, <1>3, <1>4 DEF Next

LEMMA NothingKeptStep ==
  ASSUME AllSettingsRead, IInv, SpecIsRemembered, NothingKept, [Next]_vars
  PROVE  NothingKept' /\ [~EffectiveAuto' /\ job' > job => PressCompute]_vars
<1>1. ModeIsTaken'
  BY ModeStep DEF NothingKept
<1>2. job \in Nat /\ unspent = FALSE /\ PanelTypeOK
  BY DEF IInv, TypeOK, SessionTypeOK, NothingKept
<1>3. AnswersPress
  BY PromisesStep
<1>4. ASSUME PressCompute  PROVE ~unspent'
  <2>1. EffectOf(MarkPending(view), TRUE)
    BY <1>4 DEF PressCompute, EffectOf, input
  <2>2. unspent' => FindsNothing
    BY <1>2, <2>1, EffectSpends
  <2>3. /\ UNCHANGED <<toolId, spec, mode, text, file>>
        /\ loaded /\ (Reads => ~IsInputBlank)
    BY <1>4 DEF PressCompute, CanRecompute, ReadyToCompute, UserMay, input
  <2>4. Reads' <=> Reads
    BY <2>3 DEF Reads
  <2>5. toolId \in Tools /\ spec \in Specs /\ mode \in AcceptedModes[toolId]
    BY <1>2, <2>3 DEF PanelTypeOK, NothingKept, ModeIsTaken
  <2>6. mode = "file" => Reads
    BY <2>5 DEF AllSettingsRead, Reads
  <2>7. ~FindsNothing
    BY <2>3, <2>4, <2>6 DEF FindsNothing, IsInputBlank
  <2> QED BY <2>2, <2>7
<1>5. ~unspent'
  BY <1>2, <1>3, <1>4 DEF AnswersPress
<1> QED BY <1>1, <1>2, <1>3, <1>5 DEF NothingKept, AnswersPress

\* "Off means nothing recomputes until you press Compute", where no setting
\* takes the input away from a tool that takes files.
THEOREM OffIsOff == ASSUME AllSettingsRead  PROVE Spec => OffMeansOff
<1>1. Init => NothingKept
  BY DEF Init, NothingKept, ModeIsTaken
<1>2. IInv /\ SpecIsRemembered /\ NothingKept /\ [Next]_vars
        => NothingKept' /\ [~EffectiveAuto' /\ job' > job => PressCompute]_vars
  BY NothingKeptStep
<1> QED BY <1>1, <1>2, Invariance, SpecRemembered, PTL DEF Spec, OffMeansOff
=============================================================================
