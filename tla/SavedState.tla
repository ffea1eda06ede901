----------------------------- MODULE SavedState -----------------------------
(***************************************************************************)
(* The one setting that survives a restart: the application shell that     *)
(* loads and persists "Auto update", and the store it is kept in.          *)
(*                                                                         *)
(* On the desktop the store is a file behind the main process: requests    *)
(* are queued, each is written to a temporary file of its own and renamed  *)
(* over the state file.  In a browser it is one local storage entry, read  *)
(* and written at once.  The shell is the same, except that only a browser *)
(* address can carry a share link.                                         *)
(*                                                                         *)
(* Requests are numbered in the order the shell makes them; the number     *)
(* stands for the request in what the store holds.                         *)
(***************************************************************************)
EXTENDS Naturals, Sequences

CONSTANTS
  Hosts,       \* what it may run in: "desktop", "web"
  MaxRequests  \* bound: the user does nothing more after this many requests

ASSUME HostsAreKnown == Hosts \subseteq {"desktop", "web"}
ASSUME RequestBound == MaxRequests \in Nat

VARIABLES
  host,        \* never changes
  process,     \* the main process is running
  window,      \* the shell is on screen
  autoUpdate, hydrated,
  reading,     \* readSavedState: "none", "asked" or "answered"
  answer,      \* what it answered
  requested,   \* requests made so far
  writeQueue,  \* requests chained behind the one being written
  writing,     \* the writes going on, with how far they have come
  file,        \* the state file, or the entry
  lost,        \* the last write to end failed
  chosen       \* what the user last chose, or what was saved before

shell == <<window, autoUpdate, hydrated, reading, answer>>
store == <<requested, writeQueue, writing, file, lost>>
vars  == <<host, process, shell, store, chosen>>

\* What the store holds, or what a read of it answers.
Saved(n, v) == [is |-> "saved", request |-> n, autoUpdate |-> v]
Absent      == [is |-> "absent"]
Torn        == [is |-> "torn"]
Holds(f)    == f.is = "saved"

-----------------------------------------------------------------------------
(* The store. *)

\* writeSavedState.  Local storage takes a value at once, or throws and is
\* ignored.
Write(v) ==
  /\ requested' = requested + 1
  /\ IF host = "desktop"
     THEN /\ writeQueue' = Append(writeQueue, Saved(requested', v))
          /\ UNCHANGED <<writing, file, lost>>
     ELSE /\ \/ file' = Saved(requested', v) /\ lost' = FALSE
             \/ file' = file /\ lost' = TRUE
          /\ UNCHANGED <<writeQueue, writing>>

\* Mutant: a write does not wait for the one before it.
WriteBeginsAtOnce ==
  /\ process /\ writeQueue # <<>>
  /\ writing' = writing \cup {[what |-> Head(writeQueue), step |-> "temp"]}
  /\ writeQueue' = Tail(writeQueue)
  /\ UNCHANGED <<host, process, shell, requested, file, lost, chosen>>

\* writeSavedStateNow, up to the temporary file.
WriteBegins ==
  /\ process /\ writeQueue # <<>> /\ writing = {}
  /\ writing' = {[what |-> Head(writeQueue), step |-> "temp"]}
  /\ writeQueue' = Tail(writeQueue)
  /\ UNCHANGED <<host, process, shell, requested, file, lost, chosen>>

\* Mutant: the state file is written in place.
WriteTempInPlace(w) ==
  /\ process /\ w.step = "temp"
  /\ file' = Torn
  /\ writing' = (writing \ {w}) \cup {[w EXCEPT !.step = "rename"]}
  /\ UNCHANGED <<host, process, shell, requested, writeQueue, lost, chosen>>

WriteTemp(w) ==
  /\ process /\ w.step = "temp"
  /\ writing' = (writing \ {w}) \cup {[w EXCEPT !.step = "rename"]}
  /\ UNCHANGED <<host, process, shell, requested, writeQueue, file, lost, chosen>>

Rename(w) ==
  /\ process /\ w.step = "rename"
  /\ file' = w.what /\ lost' = FALSE
  /\ writing' = writing \ {w}
  /\ UNCHANGED <<host, process, shell, requested, writeQueue, chosen>>

\* Mutant: a write that fails is never taken off the chain.
WriteFailsForGood(w) ==
  /\ process /\ w.step = "temp" /\ ~lost
  /\ lost' = TRUE
  /\ writing' = (writing \ {w}) \cup {[w EXCEPT !.step = "failed"]}
  /\ UNCHANGED <<host, process, shell, requested, writeQueue, file, chosen>>

\* Making the directory, the temporary file or the rename fails; the queue
\* goes on to the next.
WriteFails(w) ==
  /\ process
  /\ lost' = TRUE
  /\ writing' = writing \ {w}
  /\ UNCHANGED <<host, process, shell, requested, writeQueue, file, chosen>>

\* readSavedState: no state for a file that is absent, cannot be read or cannot
\* be parsed.  On the desktop it does not wait for the writes queued.
MainReads ==
  /\ process /\ window /\ reading = "asked"
  /\ reading' = "answered"
  /\ answer' \in {IF Holds(file) THEN file ELSE Absent, Absent}
  /\ UNCHANGED <<host, process, window, autoUpdate, hydrated, store, chosen>>

-----------------------------------------------------------------------------
(* The shell. *)

UserMay == requested < MaxRequests

\* A window or page opens on the default.  A share link is taken as it is and
\* counts as hydrated; then what the page holds is persisted.
OpenFromLink ==
  /\ UserMay /\ host = "web" /\ ~window
  /\ process' = TRUE /\ window' = TRUE
  /\ autoUpdate' = TRUE /\ hydrated' = TRUE /\ reading' = "none"
  /\ Write(TRUE)
  /\ UNCHANGED <<host, answer, chosen>>

Open ==
  /\ UserMay /\ ~window
  /\ process' = TRUE /\ window' = TRUE
  /\ autoUpdate' = TRUE /\ hydrated' = FALSE /\ reading' = "asked"
  /\ UNCHANGED <<host, answer, store, chosen>>

\* The answer arrives; the persist effect follows, now that it may.
Hydrate ==
  /\ window /\ reading = "answered"
  /\ reading' = "none" /\ hydrated' = TRUE
  /\ autoUpdate' = IF Holds(answer) THEN answer.autoUpdate ELSE autoUpdate
  /\ Write(autoUpdate')
  /\ answer' = Absent
  /\ UNCHANGED <<host, process, window, chosen>>

\* Mutant: what the page holds is persisted only when it hydrates.
ToggleUnsaved ==
  /\ UserMay /\ window
  /\ autoUpdate' = ~autoUpdate /\ chosen' = autoUpdate'
  /\ UNCHANGED <<host, process, window, hydrated, reading, answer, store>>

Toggle ==
  /\ UserMay /\ window
  /\ autoUpdate' = ~autoUpdate /\ chosen' = autoUpdate'
  /\ IF hydrated THEN Write(autoUpdate') ELSE UNCHANGED store
  /\ UNCHANGED <<host, process, window, hydrated, reading, answer>>

\* The page or window goes; on some systems the main process stays.
Close ==
  /\ window /\ window' = FALSE
  /\ hydrated' = FALSE /\ reading' = "none" /\ answer' = Absent
  /\ UNCHANGED <<host, process, autoUpdate, store, chosen>>

\* The process ends, by quitting or by a crash: whatever was queued is gone.
Exit ==
  /\ process /\ process' = FALSE
  /\ window' = FALSE /\ hydrated' = FALSE
  /\ reading' = "none" /\ answer' = Absent
  /\ writeQueue' = <<>> /\ writing' = {}
  /\ UNCHANGED <<host, autoUpdate, requested, file, lost, chosen>>

-----------------------------------------------------------------------------

\* The application is not running; what an earlier session saved is request 0.
Init ==
  /\ host \in Hosts
  /\ process = FALSE /\ window = FALSE
  /\ autoUpdate = TRUE /\ hydrated = FALSE
  /\ reading = "none" /\ answer = Absent
  /\ requested = 0 /\ writeQueue = <<>> /\ writing = {} /\ lost = FALSE
  /\ chosen \in BOOLEAN
  /\ file = IF chosen THEN Absent ELSE Saved(0, FALSE)

WriteStep == \/ WriteBegins
             \/ \E w \in writing : WriteTemp(w) \/ Rename(w) \/ WriteFails(w)

Next == \/ WriteStep \/ MainReads
        \/ OpenFromLink \/ Open \/ Hydrate \/ Toggle \/ Close \/ Exit

Spec == Init /\ [][Next]_vars

\* The main process and the page keep running while they are there.
FairSpec == Spec /\ WF_vars(WriteStep) /\ WF_vars(MainReads) /\ WF_vars(Hydrate)

-----------------------------------------------------------------------------

Requests == [is : {"saved"}, request : Nat, autoUpdate : BOOLEAN]

\* Every variable holds a value of its kind.
TypeOK ==
  /\ host \in Hosts /\ process \in BOOLEAN /\ window \in BOOLEAN
  /\ autoUpdate \in BOOLEAN /\ hydrated \in BOOLEAN
  /\ reading \in {"none", "asked", "answered"}
  /\ answer \in {Absent} \cup Requests
  /\ requested \in Nat /\ writeQueue \in Seq(Requests)
  /\ writing \in SUBSET [what : Requests, step : {"temp", "rename"}]
  /\ file \in {Absent, Torn} \cup Requests
  /\ lost \in BOOLEAN /\ chosen \in BOOLEAN

\* "a crash mid-write cannot leave a truncated store behind": whenever the
\* process ends, the file is as some complete write left it.
NeverTorn == file # Torn

\* "two renames completing out of order leave the older state on disk": what
\* the store holds is only ever replaced by what was requested later.
NeverOlder ==
  [][Holds(file) /\ file' # file => Holds(file') /\ file'.request > file.request]_vars

\* Once the writes have ended, and unless the last of them failed, the store
\* holds what the page shows, however many switches, crashes and new windows
\* there were.
StoreFollowsPage ==
  window /\ hydrated /\ writeQueue = <<>> /\ writing = {} /\ ~lost =>
    Holds(file) /\ file.autoUpdate = autoUpdate

\* "one bad payload would wedge every later save": a queued write is not held
\* up by one that failed before it.
QueueDrains == writeQueue # <<>> ~> writeQueue = <<>>

\* "Auto update is a preference: you set it once because of how you like to
\* work, and having it reset every launch would be a bug."
PreferenceSurvives ==
  hydrated /\ writeQueue = <<>> /\ writing = {} /\ ~lost /\ Holds(file) =>
    file.autoUpdate = chosen
=============================================================================
