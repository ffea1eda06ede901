-------------------------- MODULE SavedStateProofs --------------------------
(***************************************************************************)
(* What SavedState promises, for any number of requests.                   *)
(*                                                                         *)
(* Requests are numbered as they are made, so "in order" is a statement    *)
(* about numbers: what the file holds, what is being written and what is   *)
(* queued stand in increasing order, none beyond the last request made.    *)
(* The rest follows the latest request of a hydrated page through these    *)
(* three places.                                                           *)
(***************************************************************************)
EXTENDS SavedState, TLAPS

-----------------------------------------------------------------------------

\* The queue is in the order of the requests.
QueueInOrder ==
  /\ \A i \in 1..Len(writeQueue) : writeQueue[i].request <= requested
  /\ \A i, j \in 1..Len(writeQueue) :
       i < j => writeQueue[i].request < writeQueue[j].request

\* At most one request is being written, made before those queued.
OneWrite ==
  /\ \A w \in writing : w.what.request <= requested
  /\ \A v, w \in writing : v = w
  /\ \A w \in writing : \A i \in 1..Len(writeQueue) :
       w.what.request < writeQueue[i].request

\* What the store holds was requested before all of these.
FileIsOlder ==
  Holds(file) =>
    /\ file.request <= requested
    /\ \A w \in writing : file.request < w.what.request
    /\ \A i \in 1..Len(writeQueue) : file.request < writeQueue[i].request

\* Local storage has no queue.
WebIsDirect == host = "web" => writing = {} /\ writeQueue = <<>>

\* The latest request of a page that has hydrated is what the page shows, and
\* it is the last of the queue, or being written, or stored, unless it failed.
LatestIsShown ==
  window /\ hydrated =>
    /\ writeQueue # <<>> =>
         writeQueue[Len(writeQueue)].autoUpdate = autoUpdate
    /\ writeQueue = <<>> =>
         \A w \in writing : w.what.autoUpdate = autoUpdate
    /\ writeQueue = <<>> /\ writing = {} /\ ~lost =>
         Holds(file) /\ file.autoUpdate = autoUpdate

IInv == /\ TypeOK /\ NeverTorn /\ QueueInOrder /\ OneWrite /\ FileIsOlder
        /\ WebIsDirect /\ LatestIsShown

-----------------------------------------------------------------------------

LEMMA InitHolds == Init => IInv
  <1> SUFFICES ASSUME Init PROVE IInv
    OBVIOUS
  <1> USE DEF Init, Saved, Absent, Torn, Holds, Requests
  <1>1. TypeOK
    <2>1. file \in {Absent, Torn} \cup Requests
      <3>1. CASE chosen
        BY <3>1
      <3>2. CASE ~chosen
        BY <3>2
      <3> QED
        BY <3>1, <3>2
    <2>2. writeQueue \in Seq(Requests)
      OBVIOUS
    <2> QED
      BY <2>1, <2>2 DEF TypeOK
  <1>2. NeverTorn
    BY DEF NeverTorn
  <1>3. QueueInOrder /\ OneWrite /\ FileIsOlder /\ WebIsDirect /\ LatestIsShown
    BY DEF QueueInOrder, OneWrite, FileIsOlder, WebIsDirect, LatestIsShown
  <1> QED
    BY <1>1, <1>2, <1>3 DEF IInv

\* A request keeps the invariant, whatever the page does besides, when the page
\* shows what it asked for.
LEMMA WriteKeeps ==
  ASSUME IInv, NEW v \in BOOLEAN, Write(v), UNCHANGED host,
         process' \in BOOLEAN, window' \in BOOLEAN, hydrated' \in BOOLEAN,
         reading' \in {"none", "asked", "answered"},
         answer' \in {Absent} \cup Requests, chosen' \in BOOLEAN,
         autoUpdate' = v
  PROVE  IInv'
  <1> USE DEF IInv
  <1>1. requested \in Nat /\ requested' = requested + 1
    BY DEF TypeOK, Write
  <1>2. Saved(requested', v) \in Requests
    BY <1>1 DEF Saved, Requests
  <1>3. CASE host = "desktop"
    <2>1. /\ writeQueue' = Append(writeQueue, Saved(requested', v))
          /\ UNCHANGED <<writing, file, lost>>
      BY <1>3 DEF Write
    <2>2. writeQueue \in Seq(Requests)
      BY DEF TypeOK
    <2>3. /\ Len(writeQueue') = Len(writeQueue) + 1
          /\ \A i \in 1..Len(writeQueue) : writeQueue'[i] = writeQueue[i]
          /\ writeQueue'[Len(writeQueue')] = Saved(requested', v)
          /\ writeQueue' # <<>>
          /\ writeQueue' \in Seq(Requests)
      BY <2>1, <2>2, <1>2
    <2>4. TypeOK' /\ NeverTorn'
      BY <1>1, <2>1, <2>3 DEF TypeOK, NeverTorn, Absent, Torn, Requests
    <2>5. QueueInOrder'
      <3>1. \A i \in 1..Len(writeQueue) :
              /\ writeQueue'[i].request = writeQueue[i].request
              /\ writeQueue[i].request \in Nat
              /\ writeQueue[i].request <= requested
        <4> TAKE i \in 1..Len(writeQueue)
        <4>1. writeQueue[i] \in Requests
          BY <2>2
        <4> QED
          BY <2>3, <4>1 DEF QueueInOrder, Requests
      <3>2. writeQueue'[Len(writeQueue) + 1].request = requested + 1
        BY <1>1, <2>3 DEF Saved
      <3>3. /\ Len(writeQueue) \in Nat
            /\ \A i \in 1..Len(writeQueue') :
                 i \in 1..Len(writeQueue) \/ i = Len(writeQueue) + 1
        BY <2>2, <2>3
      <3> HIDE DEF IInv
      <3>4. QueueInOrder
        BY DEF IInv
      <3>5. \A i \in 1..Len(writeQueue') : writeQueue'[i].request <= requested'
        BY <1>1, <3>1, <3>2, <3>3
      <3>6. \A i, j \in 1..Len(writeQueue') :
              i < j => writeQueue'[i].request < writeQueue'[j].request
        BY <1>1, <3>1, <3>2, <3>3, <3>4 DEF QueueInOrder
      <3> QED
        BY <3>5, <3>6 DEF QueueInOrder
    <2>6. OneWrite'
      BY <1>1, <2>1, <2>2, <2>3 DEF OneWrite, Saved, Requests, TypeOK
    <2>7. FileIsOlder'
      BY <1>1, <2>1, <2>2, <2>3
      DEF FileIsOlder, Saved, Holds, Requests, TypeOK, Absent, Torn
    <2>8. WebIsDirect' /\ LatestIsShown'
      BY <1>3, <2>3 DEF WebIsDirect, LatestIsShown, Saved
    <2> QED
      BY <2>4, <2>5, <2>6, <2>7, <2>8
  <1>4. CASE host # "desktop"
    <2>1. host = "web"
      BY <1>4, HostsAreKnown DEF TypeOK
    <2>2. /\ \/ file' = Saved(requested', v) /\ lost' = FALSE
             \/ file' = file /\ lost' = TRUE
          /\ writeQueue' = <<>> /\ writing' = {}
      BY <1>4, <2>1 DEF Write, WebIsDirect
    <2>3. TypeOK' /\ NeverTorn'
      <3>1. writeQueue' \in Seq(Requests)
        BY <2>2
      <3>2. file' \in {Absent, Torn} \cup Requests
        BY <1>2, <2>2 DEF TypeOK
      <3>3. TypeOK'
        <4>1. lost' \in BOOLEAN
          BY <2>2
        <4>2. host' \in Hosts /\ requested' \in Nat /\ autoUpdate' \in BOOLEAN
          BY <1>1 DEF TypeOK
        <4>3. writing' \in SUBSET [what : Requests, step : {"temp", "rename"}]
          BY <2>2
        <4> HIDE DEF IInv
        <4> QED
          BY <3>1, <3>2, <4>1, <4>2, <4>3 DEF TypeOK
      <3>4. Saved(requested', v).is = "saved" /\ Torn.is = "torn"
        BY DEF Saved, Torn
      <3>5. NeverTorn'
        BY <2>2, <3>4 DEF NeverTorn
      <3> QED
        BY <3>3, <3>5
    <2>4. QueueInOrder' /\ OneWrite' /\ WebIsDirect'
      BY <2>2 DEF QueueInOrder, OneWrite, WebIsDirect
    <2>5. FileIsOlder'
      <3>1. CASE file' = file
        BY <1>1, <2>2, <3>1
        DEF FileIsOlder, Holds, TypeOK, Requests, Absent, Torn
      <3>2. CASE file' = Saved(requested', v)
        BY <1>1, <2>2, <3>2 DEF FileIsOlder, Saved
      <3> QED
        BY <2>2, <3>1, <3>2
    <2>6. LatestIsShown'
      BY <2>2 DEF LatestIsShown, Saved, Holds
    <2> QED
      BY <2>3, <2>4, <2>5, <2>6
  <1> QED
    BY <1>3, <1>4

-----------------------------------------------------------------------------
(* The steps of the store. *)

LEMMA WriteBeginsKeeps == IInv /\ WriteBegins => IInv'
  <1> SUFFICES ASSUME IInv, WriteBegins PROVE IInv'
    OBVIOUS
  <1> USE DEF IInv
  <1>1. /\ writeQueue \in Seq(Requests) /\ writeQueue # <<>> /\ writing = {}
        /\ writing' = {[what |-> Head(writeQueue), step |-> "temp"]}
        /\ writeQueue' = Tail(writeQueue)
        /\ UNCHANGED <<host, process, window, autoUpdate, hydrated, reading,
                       answer, requested, file, lost, chosen>>
    BY DEF WriteBegins, TypeOK, shell
  <1>2. /\ Head(writeQueue) \in Requests
        /\ Head(writeQueue) = writeQueue[1]
        /\ writeQueue' \in Seq(Requests)
        /\ Len(writeQueue) \in Nat \ {0}
        /\ Len(writeQueue') = Len(writeQueue) - 1
        /\ \A i \in 1..Len(writeQueue') : writeQueue'[i] = writeQueue[i + 1]
        /\ \A i \in 1..Len(writeQueue') : i + 1 \in 1..Len(writeQueue)
        /\ 1 \in 1..Len(writeQueue)
    BY <1>1
  <1>3. \A i \in 1..Len(writeQueue) : writeQueue[i].request \in Nat
    <2> TAKE i \in 1..Len(writeQueue)
    <2>1. writeQueue[i] \in Requests
      BY <1>1
    <2> QED
      BY <2>1 DEF Requests
  <1>4. TypeOK' /\ NeverTorn'
    BY <1>1, <1>2 DEF TypeOK, NeverTorn
  <1>5. QueueInOrder'
    BY <1>1, <1>2, <1>3 DEF QueueInOrder
  <1>6. OneWrite'
    BY <1>1, <1>2, <1>3 DEF OneWrite, QueueInOrder
  <1>7. FileIsOlder'
    BY <1>1, <1>2, <1>3 DEF FileIsOlder, Holds
  <1>8. WebIsDirect'
    BY <1>1 DEF WebIsDirect
  <1>9. LatestIsShown'
    <2> SUFFICES ASSUME window, hydrated
                 PROVE  LatestIsShown'
      BY <1>1 DEF LatestIsShown
    <2>1. writeQueue[Len(writeQueue)].autoUpdate = autoUpdate
      BY <1>1 DEF LatestIsShown
    <2>2. CASE Len(writeQueue) = 1
      <3>1. /\ writeQueue' = <<>> /\ writing' # {}
            /\ \A w \in writing' : w.what = writeQueue[1]
        BY <1>1, <1>2, <2>2
      <3> QED
        BY <1>1, <2>1, <2>2, <3>1 DEF LatestIsShown
    <2>3. CASE Len(writeQueue) # 1
      <3>1. /\ Len(writeQueue') \in 1..Len(writeQueue')
            /\ writeQueue'[Len(writeQueue')] = writeQueue[Len(writeQueue)]
            /\ writeQueue' # <<>>
        BY <1>2, <2>3
      <3> QED
        BY <1>1, <2>1, <3>1 DEF LatestIsShown
    <2> QED
      BY <2>2, <2>3
  <1> QED
    BY <1>4, <1>5, <1>6, <1>7, <1>8, <1>9

LEMMA WriteTempKeeps ==
  ASSUME IInv, NEW w \in writing, WriteTemp(w) PROVE IInv'
  <1> USE DEF IInv
  <1> DEFINE x == [w EXCEPT !.step = "rename"]
  <1>1. /\ writing \subseteq [what : Requests, step : {"temp", "rename"}]
        /\ writing = {w}
    BY DEF TypeOK, OneWrite
  <1>2. /\ writing' = {x}
        /\ UNCHANGED <<host, process, window, autoUpdate, hydrated, reading,
                       answer, requested, writeQueue, file, lost, chosen>>
    BY <1>1 DEF WriteTemp, shell
  <1>3. /\ x \in [what : Requests, step : {"temp", "rename"}]
        /\ x.what = w.what
    BY <1>1
  <1> HIDE DEF x
  <1>4. TypeOK' /\ NeverTorn'
    BY <1>2, <1>3 DEF TypeOK, NeverTorn
  <1>5. QueueInOrder' /\ WebIsDirect'
    BY <1>1, <1>2 DEF QueueInOrder, WebIsDirect
  <1>6. OneWrite'
    BY <1>1, <1>2, <1>3 DEF OneWrite
  <1>7. FileIsOlder'
    BY <1>1, <1>2, <1>3 DEF FileIsOlder, Holds
  <1>8. LatestIsShown'
    BY <1>1, <1>2, <1>3 DEF LatestIsShown, Holds
  <1> QED
    BY <1>4, <1>5, <1>6, <1>7, <1>8

LEMMA RenameKeeps ==
  ASSUME IInv, NEW w \in writing, Rename(w) PROVE IInv'
  <1> USE DEF IInv
  <1>1. /\ writing \subseteq [what : Requests, step : {"temp", "rename"}]
        /\ writing = {w} /\ w.what \in Requests
    BY DEF TypeOK, OneWrite
  <1>2. /\ writing' = {} /\ file' = w.what /\ lost' = FALSE
        /\ UNCHANGED <<host, process, window, autoUpdate, hydrated, reading,
                       answer, requested, writeQueue, chosen>>
    BY <1>1 DEF Rename, shell
  <1>3. Holds(w.what) /\ w.what # Torn
    BY <1>1 DEF Holds, Requests, Torn
  <1>4. TypeOK' /\ NeverTorn'
    BY <1>1, <1>2, <1>3 DEF TypeOK, NeverTorn
  <1>5. QueueInOrder' /\ OneWrite' /\ WebIsDirect'
    BY <1>1, <1>2 DEF QueueInOrder, OneWrite, WebIsDirect
  <1>6. FileIsOlder'
    BY <1>1, <1>2 DEF FileIsOlder, OneWrite
  <1>7. LatestIsShown'
    BY <1>1, <1>2, <1>3 DEF LatestIsShown, Holds
  <1> QED
    BY <1>4, <1>5, <1>6, <1>7

LEMMA WriteFailsKeeps ==
  ASSUME IInv, NEW w \in writing, WriteFails(w) PROVE IInv'
  <1> USE DEF IInv
  <1>1. writing = {w}
    BY DEF OneWrite
  <1>2. /\ writing' = {} /\ lost' = TRUE
        /\ UNCHANGED <<host, process, window, autoUpdate, hydrated, reading,
                       answer, requested, writeQueue, file, chosen>>
    BY <1>1 DEF WriteFails, shell
  <1>3. TypeOK' /\ NeverTorn'
    BY <1>2 DEF TypeOK, NeverTorn
  <1>4. QueueInOrder' /\ OneWrite' /\ WebIsDirect' /\ FileIsOlder'
    BY <1>2 DEF QueueInOrder, OneWrite, WebIsDirect, FileIsOlder, Holds
  <1>5. LatestIsShown'
    BY <1>2 DEF LatestIsShown
  <1> QED
    BY <1>3, <1>4, <1>5

-----------------------------------------------------------------------------
(* The steps of the shell. *)

\* A step of the shell that asks for nothing keeps all that is about the store.
LEMMA ShellKeeps ==
  ASSUME IInv, UNCHANGED <<host, store>>, TypeOK',
         (window /\ hydrated /\ UNCHANGED autoUpdate) \/ ~(window' /\ hydrated')
  PROVE  IInv'
  <1> USE DEF IInv, store
  <1>1. NeverTorn' /\ QueueInOrder' /\ OneWrite' /\ FileIsOlder' /\ WebIsDirect'
    BY DEF NeverTorn, QueueInOrder, OneWrite, FileIsOlder, WebIsDirect, Holds
  <1>2. LatestIsShown'
    BY DEF LatestIsShown, Holds
  <1> QED
    BY <1>1, <1>2

LEMMA MainReadsKeeps == IInv /\ MainReads => IInv'
  <1> SUFFICES ASSUME IInv, MainReads PROVE IInv'
    OBVIOUS
  <1>1. answer' \in {Absent} \cup Requests
    BY DEF MainReads, IInv, TypeOK, NeverTorn, Holds, Absent, Torn
  <1>2. TypeOK'
    BY <1>1 DEF MainReads, store, IInv, TypeOK
  <1>3. (window /\ hydrated /\ UNCHANGED autoUpdate) \/ ~(window' /\ hydrated')
    BY DEF MainReads, IInv, TypeOK
  <1> QED
    BY <1>2, <1>3, ShellKeeps DEF MainReads

LEMMA OpenKeeps == IInv /\ Open => IInv'
  <1> SUFFICES ASSUME IInv, Open PROVE IInv'
    OBVIOUS
  <1>1. TypeOK'
    BY DEF Open, store, IInv, TypeOK
  <1> QED
    BY <1>1, ShellKeeps DEF Open

LEMMA CloseKeeps == IInv /\ Close => IInv'
  <1> SUFFICES ASSUME IInv, Close PROVE IInv'
    OBVIOUS
  <1>1. TypeOK'
    BY DEF Close, store, IInv, TypeOK
  <1> QED
    BY <1>1, ShellKeeps DEF Close

LEMMA OpenFromLinkKeeps == IInv /\ OpenFromLink => IInv'
  <1> SUFFICES ASSUME IInv, OpenFromLink PROVE IInv'
    OBVIOUS
  <1>1. /\ Write(TRUE) /\ UNCHANGED host
        /\ process' \in BOOLEAN /\ window' \in BOOLEAN /\ hydrated' \in BOOLEAN
        /\ reading' \in {"none", "asked", "answered"}
        /\ answer' \in {Absent} \cup Requests /\ chosen' \in BOOLEAN
        /\ autoUpdate' = TRUE
    BY DEF OpenFromLink, IInv, TypeOK
  <1> QED
    BY <1>1, WriteKeeps

LEMMA HydrateKeeps == IInv /\ Hydrate => IInv'
  <1> SUFFICES ASSUME IInv, Hydrate PROVE IInv'
    OBVIOUS
  <1>1. autoUpdate' \in BOOLEAN
    BY DEF Hydrate, IInv, TypeOK, Holds, Absent, Requests
  <1>2. /\ Write(autoUpdate') /\ UNCHANGED host
        /\ process' \in BOOLEAN /\ window' \in BOOLEAN /\ hydrated' \in BOOLEAN
        /\ reading' \in {"none", "asked", "answered"}
        /\ answer' \in {Absent} \cup Requests /\ chosen' \in BOOLEAN
    BY DEF Hydrate, IInv, TypeOK
  <1> QED
    BY <1>1, <1>2, WriteKeeps

LEMMA ToggleKeeps == IInv /\ Toggle => IInv'
  <1> SUFFICES ASSUME IInv, Toggle PROVE IInv'
    OBVIOUS
  <1>1. /\ autoUpdate' \in BOOLEAN /\ chosen' \in BOOLEAN
        /\ UNCHANGED <<host, process, window, hydrated, reading, answer>>
    BY DEF Toggle, IInv, TypeOK
  <1>2. CASE hydrated
    <2>1. /\ Write(autoUpdate')
          /\ process' \in BOOLEAN /\ window' \in BOOLEAN /\ hydrated' \in BOOLEAN
          /\ reading' \in {"none", "asked", "answered"}
          /\ answer' \in {Absent} \cup Requests
      BY <1>1, <1>2 DEF Toggle, IInv, TypeOK
    <2> QED
      BY <1>1, <2>1, WriteKeeps
  <1>3. CASE ~hydrated
    <2>1. UNCHANGED store
      BY <1>3 DEF Toggle
    <2>2. TypeOK'
      BY <1>1, <2>1 DEF store, IInv, TypeOK
    <2> QED
      BY <1>1, <1>3, <2>1, <2>2, ShellKeeps
  <1> QED
    BY <1>2, <1>3

\* The process ends: what is queued is gone, what the file holds is not.
LEMMA ExitKeeps == IInv /\ Exit => IInv'
  <1> SUFFICES ASSUME IInv, Exit PROVE IInv'
    OBVIOUS
  <1> USE DEF IInv
  <1>1. writeQueue' = <<>> /\ writing' = {} /\ ~window'
    BY DEF Exit
  <1>2. TypeOK' /\ NeverTorn'
    <2>1. writeQueue' \in Seq(Requests)
      BY <1>1
    <2> QED
      BY <2>1 DEF Exit, TypeOK, NeverTorn
  <1>3. QueueInOrder' /\ OneWrite' /\ WebIsDirect' /\ LatestIsShown'
    BY <1>1 DEF QueueInOrder, OneWrite, WebIsDirect, LatestIsShown
  <1>4. FileIsOlder'
    BY <1>1 DEF Exit, FileIsOlder, Holds
  <1> QED
    BY <1>2, <1>3, <1>4

-----------------------------------------------------------------------------

LEMMA NextKeeps == IInv /\ [Next]_vars => IInv'
  <1> SUFFICES ASSUME IInv, [Next]_vars PROVE IInv'
    OBVIOUS
  <1>1. CASE WriteStep
    BY <1>1, WriteBeginsKeeps, WriteTempKeeps, RenameKeeps, WriteFailsKeeps
    DEF WriteStep
  <1>2. CASE MainReads \/ OpenFromLink \/ Open \/ Hydrate \/ Toggle \/ Close \/ Exit
    BY <1>2, MainReadsKeeps, OpenFromLinkKeeps, OpenKeeps, HydrateKeeps,
       ToggleKeeps, CloseKeeps, ExitKeeps
  <1>3. CASE UNCHANGED vars
    <2>1. /\ UNCHANGED <<host, store>> /\ UNCHANGED autoUpdate
          /\ (window' /\ hydrated') => (window /\ hydrated)
          /\ TypeOK'
      BY <1>3 DEF vars, shell, store, IInv, TypeOK
    <2> QED
      BY <2>1, ShellKeeps
  <1> QED
    BY <1>1, <1>2, <1>3 DEF Next

\* The invariant: requests stand in order in the queue, the write going on and
\* the file, and the latest of a hydrated page is what the page shows.
THEOREM SavedInvariance == Spec => []IInv
  BY InitHolds, NextKeeps, PTL DEF Spec

\* Every variable keeps a value of its kind, however many requests are made.
THEOREM SavedTypeCorrect == Spec => []TypeOK
  <1>1. IInv => TypeOK
    BY DEF IInv
  <1> QED
    BY <1>1, SavedInvariance, PTL

\* No crash at any point of any write leaves a torn file.
THEOREM CrashSafe == Spec => []NeverTorn
  <1>1. IInv => NeverTorn
    BY DEF IInv
  <1> QED
    BY <1>1, SavedInvariance, PTL

\* Once the writes have ended, the store holds what the page shows.
THEOREM StoreAgrees == Spec => []StoreFollowsPage
  <1>1. IInv => StoreFollowsPage
    BY DEF IInv, LatestIsShown, StoreFollowsPage
  <1> QED
    BY <1>1, SavedInvariance, PTL

\* What the store holds is only ever replaced by what was requested later.
THEOREM NoOlderState == Spec => NeverOlder
  <1> DEFINE Later == Holds(file) /\ file' # file =>
                        Holds(file') /\ file'.request > file.request
  <1>1. ASSUME IInv, IInv', [Next]_vars PROVE [Later]_vars
    <2> SUFFICES ASSUME Holds(file), file' # file
                 PROVE  Holds(file') /\ file'.request > file.request
      BY <1>1 DEF vars
    <2>1. file \in Requests /\ requested \in Nat /\ file.request <= requested
      BY <1>1 DEF IInv, TypeOK, FileIsOlder, Holds, Absent, Torn
    <2>2. file.request \in Nat
      BY <2>1 DEF Requests
    <2>3. CASE \E v \in BOOLEAN : Write(v)
      <3>1. PICK v \in BOOLEAN : Write(v)
        BY <2>3
      <3>2. file' = Saved(requested + 1, v)
        BY <3>1 DEF Write
      <3> QED
        BY <2>1, <2>2, <3>2 DEF Saved, Holds
    <2>4. CASE \E w \in writing : Rename(w)
      <3>1. PICK w \in writing : Rename(w)
        BY <2>4
      <3>2. file' = w.what /\ w.what \in Requests
        BY <1>1, <3>1 DEF Rename, IInv, TypeOK
      <3>3. file.request < w.what.request
        BY <1>1 DEF IInv, FileIsOlder
      <3> QED
        BY <2>2, <3>2, <3>3 DEF Holds, Requests
    <2>5. (\E v \in BOOLEAN : Write(v)) \/ (\E w \in writing : Rename(w))
      <3>1. ASSUME Hydrate PROVE \E v \in BOOLEAN : Write(v)
        <4>1. autoUpdate' \in BOOLEAN /\ Write(autoUpdate')
          BY <1>1, <3>1 DEF Hydrate, IInv, TypeOK
        <4> QED
          BY <4>1
      <3>2. ASSUME Toggle PROVE \E v \in BOOLEAN : Write(v)
        <4>1. autoUpdate' \in BOOLEAN /\ Write(autoUpdate')
          BY <1>1, <3>2 DEF Toggle, IInv, TypeOK, store
        <4> QED
          BY <4>1
      <3>3. ASSUME OpenFromLink PROVE \E v \in BOOLEAN : Write(v)
        BY <3>3 DEF OpenFromLink
      <3> QED
        BY <1>1, <3>1, <3>2, <3>3
        DEF Next, vars, store, WriteStep, WriteBegins, WriteTemp, WriteFails,
            MainReads, Open, Close, Exit
    <2> QED
      BY <2>3, <2>4, <2>5
  <1> QED
    BY <1>1, SavedInvariance, PTL DEF Spec, NeverOlder
=============================================================================
