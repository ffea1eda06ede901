---------------------------- MODULE FileCompute ----------------------------
(***************************************************************************)
(* Running a file through a tool: computeFile and computeVariantsFile on   *)
(* the page, the worker they post the file to, and runStream, the loop     *)
(* both the worker and the page's own fallback drive a tool stream with.   *)
(*                                                                         *)
(* Three things run side by side: the page (its message handlers and the   *)
(* fallback, one event at a time), one worker per call, and the caller,    *)
(* who may abort.  Calls share nothing but workerSupported.                *)
(*                                                                         *)
(* A file is Chunks reads long.  Whole[c] is all that the stream of call c *)
(* hands over, Cut[c][k] how many pieces of it after the k-th read; the    *)
(* rest is what finish() does.  A tool that is not streaming sees the file *)
(* whole.                                                                  *)
(***************************************************************************)
EXTENDS Naturals, Sequences, FiniteSets

CONSTANTS
  Calls,
  Variants,   \* the calls that compute every variant in one pass
  Mode,       \* call -> "streaming", "random-access" or "buffered"
  Oversize,   \* calls whose file the tool's own source policy refuses
  Large,      \* calls whose file exceeds MAX_MAIN_THREAD_FILE_BYTES
  Retaining,  \* calls that preallocate their output and may fail to
  Chunks, Whole, Cut,
  Interval    \* reads between two progress reports

Modes  == {"streaming", "random-access", "buffered"}

ASSUME CallsAreSorted ==
  /\ Variants \subseteq Calls /\ Oversize \subseteq Calls \ Variants
  /\ Large \subseteq Calls /\ Retaining \subseteq Calls \ Variants
  /\ Mode \in [Calls -> Modes]
  /\ \A c \in Variants : Mode[c] = "streaming"
  /\ \A c \in Retaining : Mode[c] = "streaming"
ASSUME FileIsRead ==
  /\ Chunks \in Nat /\ Interval \in Nat \ {0}
  /\ Whole \in [Calls -> Seq(Nat)]
  /\ Cut \in [Calls -> [0..(Chunks + 1) -> Nat]]
  /\ \A c \in Calls : Cut[c][0] = 0 /\ Cut[c][Chunks + 1] = Len(Whole[c])
  /\ \A c \in Calls : \A j, k \in 0..(Chunks + 1) : j <= k => Cut[c][j] <= Cut[c][k]

VARIABLES
  workerSupported,  \* the page's memory of a worker that failed
  promise, value,   \* how each call was settled, and with what
  aborted,          \* the caller's signal
  site,             \* where the call is running: "none", "worker" or "main"
  thread,           \* what its worker is doing
  at,               \* reads the stream has taken in
  due,              \* pieces still to be handed over for the last of them
  sent,             \* outputSequence
  lastReported,     \* runStream's lastReported
  toPage, toWorker, \* the worker's port, both ways
  output,           \* the accumulator of the page, or emitted in the fallback
  reported          \* the last figure the caller's onProgress was given

run  == <<thread, at, due, sent, lastReported, toPage, toWorker>>
vars == <<workerSupported, promise, value, aborted, site, run, output, reported>>

-----------------------------------------------------------------------------

Put(f, c, v) == f' = [f EXCEPT ![c] = v]

PostAll(c, messages) == Put(toPage, c, toPage[c] \o messages)
Progress(n)    == [type |-> "progress", figure |-> n]
Piece(n, p)    == [type |-> "output", sequence |-> n, piece |-> p]
\* error stands for a result whose error field is set, and for a map of variants
\* that lacks a row whose stream threw.
Done(error, bytes) == [type |-> "done", error |-> error, bytes |-> bytes]
ErrorMessage   == [type |-> "error"]

Streams(c) == Mode[c] = "streaming"
IsOpen(c)  == promise[c] = "open"

\* assertSafeMainThreadFallback.
SafeOnMain(c) == c \notin Large \/ Mode[c] \in {"streaming", "random-access"}

\* What a read yields, or finish() after the last of them.
Output(c, k) == SubSeq(Whole[c], Cut[c][k - 1] + 1, Cut[c][k])

Settle(c, outcome, bytes) ==
  /\ Put(promise, c, outcome)
  /\ value' = IF outcome = "resolved" THEN [value EXCEPT ![c] = bytes] ELSE value

\* cleanup: terminating a worker also empties its port.
Cleanup(c) ==
  /\ Put(thread, c, "none") /\ Put(due, c, <<>>)
  /\ Put(toPage, c, <<>>) /\ Put(toWorker, c, <<>>)
  /\ Put(site, c, "none")
  /\ UNCHANGED <<sent, lastReported>>

-----------------------------------------------------------------------------
(* The page: making the call. *)

\* Mutant: what the worker had produced is kept.
BeginOnMainKeeps(c) ==
  /\ Put(site, c, "main") /\ Put(at, c, 0)
  /\ Put(lastReported, c, 0)
  /\ reported' = IF Streams(c) THEN [reported EXCEPT ![c] = 0] ELSE reported
  /\ UNCHANGED output

\* The fallback reads the file from its beginning, into nothing.
BeginOnMain(c) ==
  /\ Put(site, c, "main") /\ Put(at, c, 0)
  /\ Put(output, c, <<>>) /\ Put(lastReported, c, 0)
  /\ reported' = IF Streams(c) THEN [reported EXCEPT ![c] = 0] ELSE reported

\* The worker could not be had.  A file too large to be held on the page's
\* thread is refused and the worker will be tried again; otherwise it never is.
\* Nothing of the worker is left.
FallBack(c) ==
  /\ Put(thread, c, "none") /\ Put(due, c, <<>>)
  /\ Put(toPage, c, <<>>) /\ Put(toWorker, c, <<>>) /\ UNCHANGED sent
  /\ \/ /\ ~SafeOnMain(c)
        /\ Settle(c, "failed", <<>>) /\ Put(site, c, "none")
        /\ UNCHANGED <<workerSupported, at, output, lastReported, reported>>
     \/ /\ SafeOnMain(c)
        /\ workerSupported' = FALSE
        /\ Put(promise, c, "open") /\ UNCHANGED value
        /\ BeginOnMain(c)

Refuse(c) ==
  /\ promise[c] = "none" /\ c \in Oversize
  /\ Settle(c, "failed", <<>>)
  /\ UNCHANGED <<workerSupported, aborted, site, run, output, reported>>

MayStart(c) == promise[c] = "none" /\ c \notin Oversize

StartInWorker(c) ==
  /\ MayStart(c) /\ workerSupported /\ ~aborted[c]
  /\ Put(promise, c, "open") /\ Put(site, c, "worker") /\ Put(thread, c, "loading")
  /\ UNCHANGED <<workerSupported, value, aborted, at, due, sent, lastReported,
                 toPage, toWorker, output, reported>>

\* The signal had been raised, or the room for the output could not be had.
StartIsCutShort(c) ==
  /\ MayStart(c) /\ workerSupported
  /\ \/ aborted[c] /\ Settle(c, "aborted", <<>>)
     \/ ~aborted[c] /\ c \in Retaining /\ Settle(c, "failed", <<>>)
  /\ UNCHANGED <<workerSupported, aborted, site, run, output, reported>>

ConstructionFails(c) ==
  /\ MayStart(c) /\ workerSupported
  /\ FallBack(c) /\ UNCHANGED aborted

StartOnMain(c) ==
  /\ MayStart(c) /\ ~workerSupported /\ SafeOnMain(c)
  /\ Put(promise, c, "open") /\ BeginOnMain(c)
  /\ UNCHANGED <<workerSupported, value, aborted, thread, due, sent, toPage, toWorker>>

IsTooLargeForMain(c) ==
  /\ MayStart(c) /\ ~workerSupported /\ ~SafeOnMain(c)
  /\ Settle(c, "failed", <<>>)
  /\ UNCHANGED <<workerSupported, aborted, site, run, output, reported>>

Start(c) ==
  \/ Refuse(c)
  \/ StartInWorker(c)
  \/ StartIsCutShort(c)
  \/ ConstructionFails(c)
  \/ StartOnMain(c)
  \/ IsTooLargeForMain(c)

-----------------------------------------------------------------------------
(* The worker.  A tool stream may throw at any read and in finish(), which  *)
(* makes the result an error; what throws outside it is posted as one.      *)

Posts(c, messages) ==
  /\ PostAll(c, messages) /\ Put(thread, c, "ended") /\ Put(due, c, <<>>)
  /\ UNCHANGED <<at, sent, lastReported, toWorker>>

\* Only the worker itself moves.
OnlyRun == UNCHANGED <<workerSupported, promise, value, aborted, site, output, reported>>

WorkerLoads(c) ==
  /\ thread[c] = "loading"
  /\ IF Streams(c)
     THEN PostAll(c, <<Progress(0)>>) /\ Put(thread, c, "reading")
     ELSE PostAll(c, <<>>) /\ Put(thread, c, "whole")
  /\ UNCHANGED <<at, due, sent, lastReported, toWorker>>
  /\ OnlyRun

\* loadTool, a variant's preparation, a read of the file or a one-shot tool throws.
WorkerThrows(c) ==
  /\ thread[c] \in {"loading", "reading", "whole"}
  /\ thread[c] = "reading" => at[c] < Chunks
  /\ Posts(c, <<ErrorMessage>>)
  /\ OnlyRun

WorkerComputesWhole(c) ==
  /\ thread[c] = "whole"
  /\ \E error \in BOOLEAN : Posts(c, <<Done(error, IF error THEN <<>> ELSE Whole[c])>>)
  /\ OnlyRun

\* runStream: one read is taken in, or the stream throws.
WorkerReads(c) ==
  /\ thread[c] = "reading" /\ at[c] < Chunks
  /\ \/ Posts(c, <<Done(TRUE, <<>>)>>)
     \/ /\ Put(thread, c, "emitting")
        /\ Put(due, c, IF c \in Variants THEN <<>> ELSE Output(c, at[c] + 1))
        /\ UNCHANGED <<at, sent, lastReported, toPage, toWorker>>
  /\ OnlyRun

\* Mutant: the stream does not wait for the page.
WorkerEmitsAhead(c) ==
  /\ thread[c] \in {"emitting", "finishing"} /\ due[c] # <<>>
  /\ PostAll(c, <<Piece(sent[c], Head(due[c]))>>)
  /\ Put(sent, c, sent[c] + 1) /\ Put(due, c, Tail(due[c]))
  /\ UNCHANGED <<thread, at, lastReported, toWorker>>
  /\ OnlyRun

\* onOutput: one piece, and a promise that its acknowledgement resolves.
WorkerEmits(c) ==
  /\ thread[c] \in {"emitting", "finishing"} /\ due[c] # <<>>
  /\ PostAll(c, <<Piece(sent[c], Head(due[c]))>>)
  /\ Put(sent, c, sent[c] + 1) /\ Put(due, c, Tail(due[c]))
  /\ Put(thread, c, IF thread[c] = "emitting" THEN "awaiting" ELSE "awaitingLast")
  /\ UNCHANGED <<at, lastReported, toWorker>>
  /\ OnlyRun

WorkerHearsAck(c) ==
  /\ toWorker[c] # <<>> /\ Head(toWorker[c]) = sent[c] - 1
  /\ Put(toWorker, c, Tail(toWorker[c]))
  /\ \/ thread[c] = "awaiting" /\ Put(thread, c, "emitting")
     \/ thread[c] = "awaitingLast" /\ Put(thread, c, "finishing")
  /\ UNCHANGED <<at, due, sent, lastReported, toPage>>
  /\ OnlyRun

\* The progress of a read, unless it falls inside the throttle window.
Reports(c, n) == n - lastReported[c] >= Interval

WorkerEndsRead(c) ==
  /\ thread[c] = "emitting" /\ due[c] = <<>>
  /\ Put(thread, c, "reading") /\ Put(at, c, at[c] + 1)
  /\ IF Reports(c, at[c] + 1)
     THEN PostAll(c, <<Progress(at[c] + 1)>>) /\ Put(lastReported, c, at[c] + 1)
     ELSE UNCHANGED <<toPage, lastReported>>
  /\ UNCHANGED <<due, sent, toWorker>>
  /\ OnlyRun

\* Mutant: no figure after the last read.
WorkerFinishesSilently(c) ==
  /\ thread[c] = "reading" /\ at[c] = Chunks
  /\ \/ Posts(c, <<Done(TRUE, <<>>)>>)
     \/ /\ Put(thread, c, "finishing")
        /\ Put(due, c, IF c \in Variants THEN <<>> ELSE Output(c, Chunks + 1))
        /\ UNCHANGED <<at, sent, lastReported, toPage, toWorker>>
  /\ OnlyRun

\* The final figure, then finish(), whose bytes are handed over like the rest.
WorkerFinishes(c) ==
  /\ thread[c] = "reading" /\ at[c] = Chunks
  /\ \/ Posts(c, <<Progress(Chunks), Done(TRUE, <<>>)>>)
     \/ /\ Put(thread, c, "finishing")
        /\ Put(due, c, IF c \in Variants THEN <<>> ELSE Output(c, Chunks + 1))
        /\ PostAll(c, <<Progress(Chunks)>>)
        /\ UNCHANGED <<at, sent, lastReported, toWorker>>
  /\ OnlyRun

\* The bytes already handed over are not in the result; a variants pass hands
\* over nothing before it.
WorkerIsDone(c) ==
  /\ thread[c] = "finishing" /\ due[c] = <<>>
  /\ Posts(c, <<Done(FALSE, IF c \in Variants THEN Whole[c] ELSE <<>>)>>)
  /\ OnlyRun

WorkerStep(c) ==
  \/ WorkerLoads(c) \/ WorkerThrows(c) \/ WorkerComputesWhole(c) \/ WorkerReads(c)
  \/ WorkerEmits(c) \/ WorkerHearsAck(c) \/ WorkerEndsRead(c)
  \/ WorkerFinishes(c) \/ WorkerIsDone(c)

\* The environment: a worker may fail to load, or die at any later point.
WorkerDies(c) ==
  /\ thread[c] \notin {"none", "dead"}
  /\ Put(thread, c, "dead")
  /\ UNCHANGED <<at, due, sent, lastReported, toPage, toWorker>>
  /\ OnlyRun

-----------------------------------------------------------------------------
(* The page: what the worker sends, and the signal. *)

Next1(c) == Head(toPage[c])

PageHearsProgress(c) ==
  /\ toPage[c] # <<>> /\ Next1(c).type = "progress"
  /\ Put(reported, c, Next1(c).figure)
  /\ Put(toPage, c, Tail(toPage[c]))
  /\ UNCHANGED <<workerSupported, promise, value, aborted, site, thread, at, due, sent,
                 lastReported, toWorker, output>>

\* Mutant: a piece is taken and not acknowledged.
PageHearsOutputSilently(c) ==
  /\ toPage[c] # <<>> /\ Next1(c).type = "output"
  /\ Put(output, c, Append(output[c], Next1(c).piece))
  /\ Put(toPage, c, Tail(toPage[c]))
  /\ UNCHANGED <<workerSupported, promise, value, aborted, site, thread, at, due, sent,
                 lastReported, toWorker, reported>>

PageHearsOutput(c) ==
  /\ toPage[c] # <<>> /\ Next1(c).type = "output"
  /\ Put(output, c, Append(output[c], Next1(c).piece))
  /\ Put(toWorker, c, Append(toWorker[c], Next1(c).sequence))
  /\ Put(toPage, c, Tail(toPage[c]))
  /\ UNCHANGED <<workerSupported, promise, value, aborted, site, thread, at, due, sent,
                 lastReported, reported>>

\* The result of a call: what has been accumulated, then what the result carries.
PageHearsDone(c) ==
  /\ toPage[c] # <<>> /\ Next1(c).type = "done"
  /\ Settle(c, IF Next1(c).error THEN "toolError" ELSE "resolved", output[c] \o Next1(c).bytes)
  /\ Cleanup(c)
  /\ UNCHANGED <<workerSupported, aborted, at, output, reported>>

PageHearsErrorMessage(c) ==
  /\ toPage[c] # <<>> /\ Next1(c).type = "error"
  /\ Settle(c, "failed", <<>>)
  /\ Cleanup(c)
  /\ UNCHANGED <<workerSupported, aborted, at, output, reported>>

\* The worker's own error event, which may overtake the messages on its port.
PageHearsDeath(c) == thread[c] = "dead" /\ FallBack(c) /\ UNCHANGED aborted

PageStep(c) ==
  \/ PageHearsProgress(c) \/ PageHearsOutput(c) \/ PageHearsDone(c)
  \/ PageHearsErrorMessage(c) \/ PageHearsDeath(c)

\* Mutant: the promise is rejected and the worker left running.
AbortLeavesWorker(c) ==
  /\ ~aborted[c] /\ Put(aborted, c, TRUE)
  /\ IF site[c] = "worker" THEN Settle(c, "aborted", <<>>) ELSE UNCHANGED <<promise, value>>
  /\ UNCHANGED <<workerSupported, site, run, at, output, reported>>

\* The caller aborts.  While a worker has the file the listener settles the
\* call there and then; the fallback looks at the signal before each read.
Abort(c) ==
  /\ ~aborted[c] /\ Put(aborted, c, TRUE)
  /\ IF site[c] = "worker" THEN Settle(c, "aborted", <<>>) /\ Cleanup(c)
     ELSE UNCHANGED <<promise, value, site, thread, due, sent, lastReported, toPage, toWorker>>
  /\ UNCHANGED <<workerSupported, at, output, reported>>

-----------------------------------------------------------------------------
(* The page: the fallback.  Everything between two reads is one turn.       *)

OnMain(c) == site[c] = "main" /\ IsOpen(c)
MainEnds  == UNCHANGED <<workerSupported, aborted, thread, due, sent, toPage, toWorker>>

MainIsAborted(c) ==
  /\ OnMain(c) /\ Streams(c) /\ at[c] < Chunks /\ aborted[c]
  /\ Settle(c, "aborted", <<>>) /\ Put(site, c, "none")
  /\ MainEnds /\ UNCHANGED <<at, lastReported, output, reported>>

\* The file cannot be read, the tool stream throws, or a one-shot tool does.
MainThrows(c) ==
  /\ OnMain(c)
  /\ Streams(c) => at[c] < Chunks
  /\ \E outcome \in {"failed", "toolError"} :
       /\ Streams(c) /\ aborted[c] => outcome = "failed"
       /\ Settle(c, outcome, <<>>)
  /\ Put(site, c, "none")
  /\ MainEnds /\ UNCHANGED <<at, lastReported, output, reported>>

\* Mutant: the end of the file is read as one chunk more.
MainReadsPast(c) ==
  /\ OnMain(c) /\ Streams(c) /\ at[c] <= Chunks /\ ~aborted[c]
  /\ Put(at, c, at[c] + 1)
  /\ Put(output, c, output[c] \o Output(c, at[c] + 1))
  /\ UNCHANGED <<reported, lastReported>>
  /\ MainEnds /\ UNCHANGED <<promise, value, site>>

MainReads(c) ==
  /\ OnMain(c) /\ Streams(c) /\ at[c] < Chunks /\ ~aborted[c]
  /\ Put(at, c, at[c] + 1)
  /\ Put(output, c, output[c] \o Output(c, at[c] + 1))
  /\ IF Reports(c, at[c] + 1)
     THEN Put(reported, c, at[c] + 1) /\ Put(lastReported, c, at[c] + 1)
     ELSE UNCHANGED <<reported, lastReported>>
  /\ MainEnds /\ UNCHANGED <<promise, value, site>>

\* The signal is not looked at once the last read is in.
MainFinishes(c) ==
  /\ OnMain(c) /\ Streams(c) /\ at[c] = Chunks
  /\ Put(reported, c, Chunks)
  /\ \/ Settle(c, "toolError", <<>>) /\ UNCHANGED output
     \/ /\ Put(output, c, output[c] \o Output(c, Chunks + 1))
        /\ Settle(c, "resolved", output'[c])
  /\ Put(site, c, "none")
  /\ MainEnds /\ UNCHANGED <<at, lastReported>>

\* A one-shot or random-access tool takes no signal and reports nothing.
MainComputesWhole(c) ==
  /\ OnMain(c) /\ ~Streams(c)
  /\ Settle(c, "resolved", Whole[c]) /\ Put(site, c, "none")
  /\ MainEnds /\ UNCHANGED <<at, lastReported, output, reported>>

MainStep(c) ==
  \/ MainIsAborted(c) \/ MainThrows(c) \/ MainReads(c)
  \/ MainFinishes(c) \/ MainComputesWhole(c)

-----------------------------------------------------------------------------

Init ==
  /\ workerSupported = TRUE
  /\ promise = [c \in Calls |-> "none"] /\ value = [c \in Calls |-> <<>>]
  /\ aborted = [c \in Calls |-> FALSE]
  /\ site = [c \in Calls |-> "none"] /\ thread = [c \in Calls |-> "none"]
  /\ at = [c \in Calls |-> 0] /\ due = [c \in Calls |-> <<>>]
  /\ sent = [c \in Calls |-> 0] /\ lastReported = [c \in Calls |-> 0]
  /\ toPage = [c \in Calls |-> <<>>] /\ toWorker = [c \in Calls |-> <<>>]
  /\ output = [c \in Calls |-> <<>>] /\ reported = [c \in Calls |-> 0]

Next == \E c \in Calls :
          Start(c) \/ WorkerStep(c) \/ WorkerDies(c) \/ PageStep(c) \/ Abort(c) \/ MainStep(c)

Spec == Init /\ [][Next]_vars

\* Both threads keep running; nobody owes a call, an abort or a death.
FairSpec ==
  Spec /\ \A c \in Calls : WF_vars(WorkerStep(c)) /\ WF_vars(PageStep(c)) /\ WF_vars(MainStep(c))

-----------------------------------------------------------------------------

Threads == {"none", "loading", "whole", "reading", "emitting", "awaiting", "finishing",
            "awaitingLast", "ended", "dead"}
Messages == [type : {"progress"}, figure : 0..Chunks]
              \cup [type : {"output"}, sequence : Nat, piece : Nat]
              \cup [type : {"done"}, error : BOOLEAN, bytes : Seq(Nat)]
              \cup [type : {"error"}]

\* Every variable holds values of its kind.
TypeOK ==
  /\ workerSupported \in BOOLEAN
  /\ promise \in [Calls -> {"none", "open", "resolved", "toolError", "failed", "aborted"}]
  /\ value \in [Calls -> Seq(Nat)] /\ aborted \in [Calls -> BOOLEAN]
  /\ site \in [Calls -> {"none", "worker", "main"}] /\ thread \in [Calls -> Threads]
  /\ at \in [Calls -> 0..Chunks] /\ due \in [Calls -> Seq(Nat)]
  /\ sent \in [Calls -> Nat] /\ lastReported \in [Calls -> 0..Chunks]
  /\ toPage \in [Calls -> Seq(Messages)] /\ toWorker \in [Calls -> Seq(Nat)]
  /\ output \in [Calls -> Seq(Nat)] /\ reported \in [Calls -> 0..Chunks]

\* "Awaiting this callback provides backpressure": however fast the tool and
\* slow the page, one piece of output is on its way between them at a time.
\* And a call that computes on the page's own thread and holds the file whole
\* has a file small enough for it, however many calls found the worker missing.
Underway(c) == {i \in 1..Len(toPage[c]) : toPage[c][i].type = "output"}
InFlight(c) == Cardinality(Underway(c)) + Len(toWorker[c])
MemoryIsBounded ==
  \A c \in Calls : InFlight(c) <= 1 /\ (site[c] = "main" => SafeOnMain(c))

\* A streamed call that resolves has told its caller that the file is all read:
\* "otherwise a progress bar sticks at 99%".
ProgressEndsFull ==
  \A c \in Calls : promise[c] = "resolved" /\ Streams(c) => reported[c] = Chunks

\* A settled call is over: its caller hears of no more progress, and nothing
\* that ran for it is left running.  One that was aborted reads a streamed
\* file no further.
SettledIsOver ==
  [][\A c \in Calls :
       /\ promise[c] \notin {"none", "open"} => reported'[c] = reported[c] /\ thread'[c] = "none"
       /\ aborted[c] /\ Streams(c) => at'[c] \in {0, at[c]}]_vars

\* Every call is answered.
Settles == \A c \in Calls : IsOpen(c) ~> ~IsOpen(c)

(* The implementation of ComputePromise.  A call that ends in a tool error  *)
(* keeps no output.                                                         *)
P == INSTANCE ComputePromise

\* Whatever the worker does, dies after or leaves half done, and whichever
\* thread ends up doing the work, a call that resolves carries the whole
\* output once and in order, and is answered once.
KeepsPromise == P!Spec
=============================================================================
