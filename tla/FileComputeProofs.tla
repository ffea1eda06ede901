-------------------------- MODULE FileComputeProofs --------------------------
(***************************************************************************)
(* Proofs about FileCompute, for any calls and files, any way the tool     *)
(* cuts its output and any figures the loop reports.  A call is followed   *)
(* through the queue between its worker and the page: what the page has,   *)
(* what is on its way and what is due are together what the tool has made  *)
(* of the reads taken in.                                                  *)
(***************************************************************************)
EXTENDS FileCompute, SequenceTheorems, FiniteSetTheorems, TLAPS

(***************************************************************************)
(* The page's queue: figures, and then at most one message of another kind. *)
(***************************************************************************)

InOrder(q) == \A i \in 1..Len(q) : i < Len(q) => q[i].type = "progress"
Kind(q) == IF q = <<>> THEN "progress" ELSE q[Len(q)].type
Carried(q) == IF Kind(q) = "output" THEN <<q[Len(q)].piece>> ELSE <<>>
Answers(q) == Kind(q) = "done" /\ ~q[Len(q)].error

\* The figure the caller will have been given when the queue is empty.
Figure(q, n) ==
  IF Kind(q) = "progress" THEN (IF q = <<>> THEN n ELSE q[Len(q)].figure)
  ELSE (IF Len(q) = 1 THEN n ELSE q[Len(q) - 1].figure)

Upto(c, n) == SubSeq(Whole[c], 1, n)
Handed(c)  == output[c] \o Carried(toPage[c])

(***************************************************************************)
(* What holds of a call between any two steps.                             *)
(***************************************************************************)

Placed(c) ==
  /\ promise[c] = "open" <=> site[c] # "none"
  /\ promise[c] = "none" => output[c] = <<>> /\ at[c] = 0
  /\ site[c] = "worker" <=> thread[c] # "none"
  /\ site[c] = "worker" => ~aborted[c]
  /\ site[c] # "worker" => toPage[c] = <<>> /\ toWorker[c] = <<>> /\ due[c] = <<>>
  /\ site[c] = "main" => SafeOnMain(c)

Ordered(c) ==
  /\ InOrder(toPage[c])
  /\ Len(toWorker[c]) <= 1
  /\ Kind(toPage[c]) = "output" => toWorker[c] = <<>>

Running(c) ==
  /\ thread[c] \in {"loading", "whole"} => at[c] = 0 /\ output[c] = <<>> /\ due[c] = <<>>
  /\ thread[c] = "whole" => ~Streams(c)
  /\ thread[c] \in {"reading", "emitting", "awaiting", "finishing", "awaitingLast"} => Streams(c)
  /\ thread[c] \in {"loading", "whole", "reading", "emitting", "finishing"} =>
       Kind(toPage[c]) = "progress" /\ toWorker[c] = <<>>
  /\ thread[c] \in {"awaiting", "awaitingLast"} => Kind(toPage[c]) \in {"progress", "output"}
  /\ thread[c] \in {"emitting", "awaiting"} => at[c] < Chunks

Complete(c) ==
  /\ c \in Variants => due[c] = <<>> /\ (site[c] = "worker" => Handed(c) = <<>>)
  /\ c \notin Variants =>
       /\ thread[c] = "reading" => Handed(c) = Upto(c, Cut[c][at[c]])
       /\ thread[c] \in {"emitting", "awaiting"} => Handed(c) \o due[c] = Upto(c, Cut[c][at[c] + 1])
       /\ thread[c] \in {"finishing", "awaitingLast"} => Handed(c) \o due[c] = Whole[c]
  /\ site[c] = "main" /\ Streams(c) => output[c] = Upto(c, Cut[c][at[c]])
  /\ Answers(toPage[c]) => output[c] \o toPage[c][Len(toPage[c])].bytes = Whole[c]

Counted(c) ==
  /\ thread[c] \in {"finishing", "awaitingLast"} => Figure(toPage[c], reported[c]) = Chunks
  /\ Answers(toPage[c]) /\ Streams(c) => Figure(toPage[c], reported[c]) = Chunks
  /\ promise[c] = "resolved" /\ Streams(c) => reported[c] = Chunks

CallInv(c) == Placed(c) /\ Ordered(c) /\ Running(c) /\ Complete(c) /\ Counted(c)
IInv == TypeOK /\ \A c \in Calls : CallInv(c)

-----------------------------------------------------------------------------
(* The queue as it grows and as it is emptied. *)

LEMMA MessageKinds ==
  /\ \A m \in Messages : m.type \in {"progress", "output", "done", "error"}
  /\ \A m \in Messages : m.type = "progress" => m.figure \in 0..Chunks
  /\ \A m \in Messages : m.type = "output" => m.piece \in Nat /\ m.sequence \in Nat
  /\ \A m \in Messages : m.type = "done" => m.error \in BOOLEAN /\ m.bytes \in Seq(Nat)
<1>1. SUFFICES ASSUME NEW m \in Messages
               PROVE  /\ m.type \in {"progress", "output", "done", "error"}
                      /\ m.type = "progress" => m.figure \in 0..Chunks
                      /\ m.type = "output" => m.piece \in Nat /\ m.sequence \in Nat
                      /\ m.type = "done" => m.error \in BOOLEAN /\ m.bytes \in Seq(Nat)
  OBVIOUS
<1>2. CASE m \in [type : {"progress"}, figure : 0..Chunks]
  BY <1>2
<1>3. CASE m \in [type : {"output"}, sequence : Nat, piece : Nat]
  BY <1>3
<1>4. CASE m \in [type : {"done"}, error : BOOLEAN, bytes : Seq(Nat)]
  BY <1>4
<1>5. CASE m \in [type : {"error"}]
  BY <1>5
<1>6. QED BY <1>2, <1>3, <1>4, <1>5 DEF Messages

LEMMA EmptyQueue == \A q \in Seq(Messages) : Len(q) \in Nat /\ (q = <<>> <=> Len(q) = 0)
BY EmptySeq, LenProperties

\* A message is put behind figures only.
LEMMA Posted ==
  ASSUME NEW q \in Seq(Messages), InOrder(q), Kind(q) = "progress", NEW m \in Messages, NEW n
  PROVE  /\ q \o <<m>> \in Seq(Messages) /\ InOrder(q \o <<m>>)
         /\ Len(q \o <<m>>) = Len(q) + 1 /\ (q \o <<m>>)[Len(q) + 1] = m
         /\ Kind(q \o <<m>>) = m.type
         /\ Figure(q \o <<m>>, n) = IF m.type = "progress" THEN m.figure ELSE Figure(q, n)
<1> DEFINE p == q \o <<m>>
<1>0. <<m>> \in Seq(Messages) /\ Len(<<m>>) = 1 /\ <<m>>[1] = m
  OBVIOUS
<1>1. /\ p \in Seq(Messages) /\ Len(p) = Len(q) + 1 /\ p[Len(q) + 1] = m
      /\ \A i \in 1..Len(q) : p[i] = q[i]
  BY <1>0, ConcatProperties, LenProperties
<1>2. p # <<>> /\ Len(q) \in Nat
  BY <1>1, LenProperties
<1>3. \A i \in 1..Len(q) : q[i].type = "progress"
  BY DEF InOrder, Kind
<1>4. InOrder(p)
  BY <1>1, <1>2, <1>3 DEF InOrder
<1>5. Kind(p) = m.type
  BY <1>1, <1>2 DEF Kind
<1>6. Figure(p, n) = IF m.type = "progress" THEN m.figure ELSE Figure(q, n)
  <2>1. CASE q = <<>>
    <3>1. Len(p) = 1 /\ Len(q) = 0
      BY <1>1, <2>1
    <3>2. QED BY <1>1, <1>2, <1>5, <2>1, <3>1 DEF Figure, Kind
  <2>2. CASE q # <<>>
    <3>1. Len(q) > 0 /\ p[Len(q)] = q[Len(q)]
      BY <1>1, <2>2, EmptySeq
    <3>2. QED BY <1>1, <1>2, <1>5, <2>2, <3>1 DEF Figure
  <2>3. QED BY <2>1, <2>2
<1>7. QED BY <1>1, <1>4, <1>5, <1>6

\* A figure is taken from the head.
LEMMA FigureTaken ==
  ASSUME NEW q \in Seq(Messages), InOrder(q), q # <<>>, Head(q).type = "progress", NEW n
  PROVE  /\ Tail(q) \in Seq(Messages) /\ InOrder(Tail(q))
         /\ Kind(Tail(q)) = Kind(q)
         /\ Figure(Tail(q), Head(q).figure) = Figure(q, n)
         /\ Kind(q) # "progress" => Tail(q) # <<>> /\ Tail(q)[Len(Tail(q))] = q[Len(q)]
<1> DEFINE p == Tail(q)
<1>1. /\ p \in Seq(Messages) /\ Len(p) = Len(q) - 1
      /\ \A i \in 1..Len(p) : p[i] = q[i + 1]
      /\ Len(q) \in Nat /\ Len(q) > 0 /\ Head(q) = q[1]
  BY HeadTailProperties, EmptyQueue, LenProperties
<1>2. InOrder(p)
  BY <1>1 DEF InOrder
<1>3. CASE Len(q) = 1
  <2>0. Len(p) = 0
    BY <1>1, <1>3
  <2>1. p = <<>>
    BY <1>1, <2>0, EmptyQueue, Zenon
  <2>2. QED BY <1>1, <1>2, <1>3, <2>1 DEF Kind, Figure
<1>4. CASE Len(q) > 1
  <2>1. p # <<>> /\ p[Len(p)] = q[Len(q)]
    BY <1>1, <1>4
  <2>2. Kind(p) = Kind(q)
    BY <1>1, <1>4, <2>1 DEF Kind
  <2>3. Len(p) > 1 => p[Len(p) - 1] = q[Len(q) - 1]
    BY <1>1, <1>4
  <2>4. Len(p) = 1 => q[Len(q) - 1] = Head(q)
    BY <1>1, <1>4
  <2>5. Figure(p, Head(q).figure) = Figure(q, n)
    BY <1>1, <1>4, <2>1, <2>2, <2>3, <2>4 DEF Figure
  <2>6. QED BY <1>1, <1>2, <2>1, <2>2, <2>5
<1>5. QED BY <1>1, <1>3, <1>4

\* What is not a figure is the last in the queue.
LEMMA LastTaken ==
  ASSUME NEW q \in Seq(Messages), InOrder(q), q # <<>>, Head(q).type # "progress", NEW n
  PROVE  /\ Tail(q) = <<>> /\ Len(q) = 1 /\ q[1] = Head(q) /\ Head(q) \in Messages
         /\ Kind(q) = Head(q).type /\ Figure(q, n) = n
<1>1. /\ Len(q) \in Nat /\ Len(q) > 0 /\ Head(q) = q[1] /\ Head(q) \in Messages
      /\ Tail(q) \in Seq(Messages) /\ Len(Tail(q)) = Len(q) - 1
  BY HeadTailProperties, EmptyQueue, LenProperties
<1>2. Len(q) = 1
  BY <1>1 DEF InOrder
<1>3. Len(Tail(q)) = 0
  BY <1>1, <1>2
<1>4. Tail(q) = <<>>
  BY <1>1, <1>3, EmptyQueue, Zenon
<1>5. QED BY <1>1, <1>2, <1>4 DEF Kind, Figure

-----------------------------------------------------------------------------
(* What the stream hands over, cut by cut. *)

LEMMA Handing ==
  ASSUME NEW s \in Seq(Nat), NEW d \in Seq(Nat)
  PROVE  /\ s \o <<>> = s /\ <<>> \o s = s
         /\ d # <<>> => Head(d) \in Nat /\ Tail(d) \in Seq(Nat) /\ s \o <<Head(d)>> \in Seq(Nat)
                        /\ (s \o <<Head(d)>>) \o Tail(d) = s \o d
<1>1. s \o <<>> = s /\ <<>> \o s = s
  BY ConcatEmptySeq
<1>2. ASSUME d # <<>>
      PROVE  Head(d) \in Nat /\ Tail(d) \in Seq(Nat) /\ s \o <<Head(d)>> \in Seq(Nat)
             /\ (s \o <<Head(d)>>) \o Tail(d) = s \o d
  <2>1. Head(d) \in Nat /\ Tail(d) \in Seq(Nat)
    BY <1>2, HeadTailProperties
  <2>2. <<Head(d)>> \in Seq(Nat)
    BY <2>1
  <2>3. Len(d) \in Nat /\ Len(d) # 0 /\ Head(d) = d[1]
    BY <1>2, EmptySeq
  <2>4. d = <<Head(d)>> \o Tail(d)
    <3>1. d = SubSeq(d, 1, Len(d)) /\ Tail(d) = SubSeq(d, 2, Len(d))
      BY <1>2, SubSeqFull, TailIsSubSeq
    <3>2. SubSeq(d, 1, Len(d)) = <<d[1]>> \o SubSeq(d, 1 + 1, Len(d))
      BY <2>3, SubSeqRecursiveFirst
    <3>3. QED BY <2>3, <3>1, <3>2
  <2>5. (s \o <<Head(d)>>) \o Tail(d) = s \o (<<Head(d)>> \o Tail(d))
    <3> DEFINE h == <<Head(d)>>
    <3> DEFINE t == Tail(d)
    <3>1. h \in Seq(Nat) /\ t \in Seq(Nat)
      BY <2>1, <2>2
    <3> HIDE DEF h, t
    <3>2. (s \o h) \o t = s \o (h \o t)
      BY <3>1, ConcatAssociative, SMTT(30)
    <3>3. QED BY <3>2 DEF h, t
  <2>6. s \o <<Head(d)>> \in Seq(Nat)
    BY <2>2, ConcatProperties
  <2>7. QED BY <2>1, <2>4, <2>5, <2>6
<1>3. QED BY <1>1, <1>2

LEMMA Cutting ==
  ASSUME NEW c \in Calls
  PROVE  /\ Upto(c, Cut[c][0]) = <<>> /\ Upto(c, Cut[c][Chunks + 1]) = Whole[c]
         /\ \A k \in 1..(Chunks + 1) : /\ Output(c, k) \in Seq(Nat)
                                       /\ Upto(c, Cut[c][k - 1]) \o Output(c, k) = Upto(c, Cut[c][k])
<1>1. Whole[c] \in Seq(Nat) /\ Cut[c] \in [0..(Chunks + 1) -> Nat] /\ Len(Whole[c]) \in Nat /\ Chunks \in Nat
  BY FileIsRead, LenProperties
<1>2. Upto(c, Cut[c][0]) = <<>>
  BY FileIsRead, SubSeqEmpty DEF Upto
<1>3. Upto(c, Cut[c][Chunks + 1]) = Whole[c]
  BY <1>1, FileIsRead, SubSeqFull DEF Upto
<1>4. ASSUME NEW k \in 1..(Chunks + 1)
      PROVE  /\ Output(c, k) \in Seq(Nat)
             /\ Upto(c, Cut[c][k - 1]) \o Output(c, k) = Upto(c, Cut[c][k])
  <2>1. k - 1 \in 0..(Chunks + 1) /\ k \in 0..(Chunks + 1) /\ Chunks + 1 \in 0..(Chunks + 1) /\ k - 1 <= k /\ k <= Chunks + 1
    BY <1>1
  <2>2. /\ Cut[c][k - 1] \in Nat /\ Cut[c][k] \in Nat
        /\ Cut[c][k - 1] <= Cut[c][k] /\ Cut[c][k] <= Len(Whole[c])
    BY <1>1, <2>1, FileIsRead
  <2>3. Output(c, k) \in Seq(Nat)
    <3>0. \A i \in (Cut[c][k - 1] + 1)..Cut[c][k] : i \in 1..Len(Whole[c])
      <4> DEFINE a == Cut[c][k - 1]
      <4> DEFINE b == Cut[c][k]
      <4> DEFINE n == Len(Whole[c])
      <4>1. a \in Nat /\ b \in Nat /\ n \in Nat /\ b <= n
        BY <1>1, <2>2
      <4> HIDE DEF a, b, n
      <4>2. \A i \in (a + 1)..b : i \in 1..n
        BY <4>1
      <4>3. QED BY <4>2 DEF a, b, n
    <3>1. \A i \in (Cut[c][k - 1] + 1)..Cut[c][k] : Whole[c][i] \in Nat
      BY <1>1, <3>0, ElementOfSeq
    <3>2. QED BY <2>2, <3>1, SubSeqProperties DEF Output
  <2>4. /\ 1 \in 1..(Len(Whole[c]) + 1) /\ Cut[c][k - 1] \in (1 - 1)..Len(Whole[c])
        /\ Cut[c][k] \in Cut[c][k - 1]..Len(Whole[c])
    BY <1>1, <2>2
  <2>5. SubSeq(Whole[c], 1, Cut[c][k - 1]) \o SubSeq(Whole[c], Cut[c][k - 1] + 1, Cut[c][k]) = SubSeq(Whole[c], 1, Cut[c][k])
    BY <1>1, <2>4, ConcatAdjacentSubSeq
  <2>6. QED BY <2>3, <2>5 DEF Upto, Output
<1>5. QED BY <1>2, <1>3, <1>4

-----------------------------------------------------------------------------
(* A step of one call is no step of another. *)

Same(d) ==
  /\ promise'[d] = promise[d] /\ value'[d] = value[d] /\ aborted'[d] = aborted[d] /\ site'[d] = site[d]
  /\ thread'[d] = thread[d] /\ at'[d] = at[d] /\ due'[d] = due[d]
  /\ toPage'[d] = toPage[d] /\ toWorker'[d] = toWorker[d]
  /\ output'[d] = output[d] /\ reported'[d] = reported[d]

LEMMA SameKeeps ==
  ASSUME NEW d \in Calls, CallInv(d), Same(d)
  PROVE  CallInv(d)'
<1>1. Placed(d)'
  BY DEF CallInv, Placed, Same, SafeOnMain
<1>2. Ordered(d)'
  BY DEF CallInv, Ordered, Same, Kind, InOrder
<1>3. Running(d)'
  BY DEF CallInv, Running, Same, Kind, Streams
<1>4. Complete(d)'
  BY DEF CallInv, Complete, Same, Kind, Answers, Carried, Handed, Upto, Streams
<1>5. Counted(d)'
  BY DEF CallInv, Counted, Same, Kind, Answers, Figure, Streams
<1>6. QED BY <1>1, <1>2, <1>3, <1>4, <1>5 DEF CallInv

LEMMA Lifted ==
  ASSUME IInv, NEW c \in Calls, TypeOK', CallInv(c)', \A d \in Calls \ {c} : Same(d)
  PROVE  IInv'
BY SameKeeps DEF IInv

-----------------------------------------------------------------------------
(* Where a step may leave a call that no worker has. *)

NoWorker(c) == thread[c] = "none" /\ toPage[c] = <<>> /\ toWorker[c] = <<>> /\ due[c] = <<>>

LEMMA Idle ==
  ASSUME NEW c \in Calls, NoWorker(c)', site'[c] = "none", promise'[c] \notin {"none", "open"},
         promise'[c] = "resolved" /\ Streams(c) => reported'[c] = Chunks
  PROVE  CallInv(c)'
<1>1. Placed(c)'
  BY DEF NoWorker, Placed
<1>2. Ordered(c)'
  BY EmptyQueue DEF NoWorker, Ordered, InOrder, Kind
<1>3. Running(c)' /\ Complete(c)' /\ Counted(c)'
  BY DEF NoWorker, Running, Complete, Counted, Answers, Kind, Streams
<1>4. QED BY <1>1, <1>2, <1>3 DEF CallInv

LEMMA OnThePage ==
  ASSUME NEW c \in Calls, NoWorker(c)', site'[c] = "main", promise'[c] = "open", SafeOnMain(c),
         Streams(c) => output'[c] = Upto(c, Cut[c][at'[c]])
  PROVE  CallInv(c)'
<1>1. Placed(c)'
  BY DEF NoWorker, Placed, SafeOnMain
<1>2. Ordered(c)'
  BY EmptyQueue DEF NoWorker, Ordered, InOrder, Kind
<1>3. Running(c)' /\ Complete(c)' /\ Counted(c)'
  BY DEF NoWorker, Running, Complete, Counted, Answers, Kind, Streams, Upto
<1>4. QED BY <1>1, <1>2, <1>3 DEF CallInv

-----------------------------------------------------------------------------
(* Starting a call. *)

LEMMA RefusalKeeps ==
  ASSUME IInv, NEW c \in Calls, Refuse(c) \/ StartIsCutShort(c) \/ IsTooLargeForMain(c)
  PROVE  IInv'
<1> USE DEF Refuse, StartIsCutShort, IsTooLargeForMain, MayStart, Settle, Put, run
<1>1. TypeOK'
  BY DEF IInv, TypeOK
<1>2. \A d \in Calls \ {c} : Same(d)
  BY DEF IInv, TypeOK, Same
<1>3. NoWorker(c)' /\ site'[c] = "none" /\ promise'[c] \in {"failed", "aborted"}
  BY DEF IInv, TypeOK, CallInv, Placed, NoWorker
<1>4. QED BY <1>1, <1>2, <1>3, Idle, Lifted

LEMMA StartInWorkerKeeps ==
  ASSUME IInv, NEW c \in Calls, StartInWorker(c)
  PROVE  IInv'
<1> USE DEF StartInWorker, MayStart, Put
<1>1. TypeOK'
  BY DEF IInv, TypeOK, Threads
<1>2. \A d \in Calls \ {c} : Same(d)
  BY DEF IInv, TypeOK, Same
<1>3. CallInv(c)'
  <2>0. /\ promise'[c] = "open" /\ site'[c] = "worker" /\ thread'[c] = "loading" /\ ~aborted'[c]
        /\ toPage'[c] = <<>> /\ toWorker'[c] = <<>> /\ due'[c] = <<>> /\ output'[c] = <<>> /\ at'[c] = 0
    BY DEF IInv, TypeOK, CallInv, Placed
  <2>1. Placed(c)'
    BY <2>0 DEF Placed
  <2>2. Ordered(c)' /\ Kind(toPage'[c]) = "progress"
    BY <2>0, EmptyQueue DEF Ordered, InOrder, Kind
  <2>3. Running(c)'
    BY <2>0, <2>2 DEF Running
  <2>4. output'[c] \o Carried(toPage'[c]) = <<>>
    BY <2>0, <2>2, Handing DEF Carried
  <2>5. Complete(c)' /\ Counted(c)'
    BY <2>0, <2>2, <2>4 DEF Complete, Counted, Handed, Answers
  <2>6. QED BY <2>1, <2>2, <2>3, <2>4, <2>5 DEF CallInv
<1>4. QED BY <1>1, <1>2, <1>3, Lifted

LEMMA FallBackKeeps ==
  ASSUME IInv, NEW c \in Calls, FallBack(c), UNCHANGED aborted,
         promise[c] = "none" \/ site[c] = "worker"
  PROVE  IInv'
<1> USE DEF FallBack, BeginOnMain, Settle, Put
<1>0. 0 \in 0..Chunks /\ <<>> \in Seq(Nat) /\ <<>> \in Seq(Messages)
  BY FileIsRead
<1>1. TypeOK'
  <2>1. CASE ~SafeOnMain(c)
    BY <1>0, <2>1 DEF IInv, TypeOK, Threads
  <2>2. CASE SafeOnMain(c)
    <3>1. /\ at' = [at EXCEPT ![c] = 0] /\ output' = [output EXCEPT ![c] = <<>>]
          /\ lastReported' = [lastReported EXCEPT ![c] = 0]
          /\ reported' = reported \/ reported' = [reported EXCEPT ![c] = 0]
      BY <2>2
    <3>2. /\ at' \in [Calls -> 0..Chunks] /\ output' \in [Calls -> Seq(Nat)]
          /\ lastReported' \in [Calls -> 0..Chunks] /\ reported' \in [Calls -> 0..Chunks]
      <4> HIDE DEF FallBack
      <4>1. at' \in [Calls -> 0..Chunks] /\ output' \in [Calls -> Seq(Nat)]
        BY <1>0, <3>1 DEF IInv, TypeOK
      <4>2. lastReported' \in [Calls -> 0..Chunks]
        BY <1>0, <3>1 DEF IInv, TypeOK
      <4>3. reported' \in [Calls -> 0..Chunks]
        BY <1>0, <3>1 DEF IInv, TypeOK
      <4>4. QED BY <4>1, <4>2, <4>3
    <3>3. /\ thread' = [thread EXCEPT ![c] = "none"] /\ due' = [due EXCEPT ![c] = <<>>]
          /\ toPage' = [toPage EXCEPT ![c] = <<>>] /\ toWorker' = [toWorker EXCEPT ![c] = <<>>]
          /\ site' = [site EXCEPT ![c] = "main"] /\ promise' = [promise EXCEPT ![c] = "open"]
          /\ workerSupported' = FALSE /\ UNCHANGED <<sent, aborted, value>>
      BY <2>2
    <3>4. QED
      <4> HIDE DEF FallBack
      <4> QED BY <1>0, <3>2, <3>3 DEF IInv, TypeOK, Threads
  <2>3. QED BY <2>1, <2>2
<1>2. \A d \in Calls \ {c} : Same(d)
  <2>1. ASSUME NEW d \in Calls \ {c} PROVE Same(d)
    <3>1. /\ promise'[d] = promise[d] /\ value'[d] = value[d] /\ aborted'[d] = aborted[d] /\ site'[d] = site[d]
          /\ thread'[d] = thread[d] /\ due'[d] = due[d] /\ toPage'[d] = toPage[d] /\ toWorker'[d] = toWorker[d]
      BY DEF IInv, TypeOK
    <3>2. at'[d] = at[d]
      BY DEF IInv, TypeOK
    <3>3. output'[d] = output[d]
      BY DEF IInv, TypeOK
    <3>4. reported'[d] = reported[d]
      BY DEF IInv, TypeOK
    <3>5. QED BY <3>1, <3>2, <3>3, <3>4 DEF Same
  <2>2. QED BY <2>1
<1>3. CASE ~SafeOnMain(c)
  <2>1. NoWorker(c)' /\ site'[c] = "none" /\ promise'[c] = "failed"
    BY <1>3 DEF IInv, TypeOK, NoWorker
  <2>2. QED BY <1>1, <1>2, <2>1, Idle, Lifted
<1>4. CASE SafeOnMain(c)
  <2>1. NoWorker(c)' /\ site'[c] = "main" /\ promise'[c] = "open"
    BY <1>4 DEF IInv, TypeOK, NoWorker
  <2>2. output'[c] = <<>> /\ at'[c] = 0
    BY <1>4 DEF IInv, TypeOK
  <2>3. output'[c] = Upto(c, Cut[c][at'[c]])
    BY <2>2, Cutting
  <2>4. QED BY <1>1, <1>2, <1>4, <2>1, <2>3, OnThePage, Lifted
<1>5. QED BY <1>3, <1>4

LEMMA StartOnMainKeeps ==
  ASSUME IInv, NEW c \in Calls, StartOnMain(c)
  PROVE  IInv'
<1> USE DEF StartOnMain, BeginOnMain, MayStart, Put
<1>0. 0 \in 0..Chunks /\ <<>> \in Seq(Nat)
  BY FileIsRead
<1>1. TypeOK'
  BY <1>0 DEF IInv, TypeOK
<1>2. \A d \in Calls \ {c} : Same(d)
  BY DEF IInv, TypeOK, Same
<1>3. NoWorker(c)' /\ site'[c] = "main" /\ promise'[c] = "open" /\ output'[c] = <<>> /\ at'[c] = 0
  BY DEF IInv, TypeOK, CallInv, Placed, NoWorker
<1>4. output'[c] = Upto(c, Cut[c][at'[c]])
  BY <1>3, Cutting
<1>5. QED BY <1>1, <1>2, <1>3, <1>4, OnThePage, Lifted

-----------------------------------------------------------------------------
(* The worker. *)

Moves(c, t, p, a, u, w) ==
  /\ thread' = [thread EXCEPT ![c] = t] /\ toPage' = [toPage EXCEPT ![c] = p] /\ at' = [at EXCEPT ![c] = a]
  /\ due' = [due EXCEPT ![c] = u] /\ toWorker' = [toWorker EXCEPT ![c] = w]
  /\ OnlyRun

Moved(c, t, p, a, u, w) ==
  /\ promise'[c] = "open" /\ site'[c] = "worker" /\ ~aborted'[c]
  /\ output'[c] = output[c] /\ reported'[c] = reported[c]
  /\ thread'[c] = t /\ toPage'[c] = p /\ at'[c] = a /\ due'[c] = u /\ toWorker'[c] = w

LEMMA WorkerMoves ==
  ASSUME IInv, NEW c \in Calls, thread[c] # "none",
         NEW t \in Threads \ {"none"}, NEW p \in Seq(Messages), NEW a \in 0..Chunks,
         NEW u \in Seq(Nat), NEW w \in Seq(Nat), Moves(c, t, p, a, u, w),
         sent' \in [Calls -> Nat], lastReported' \in [Calls -> 0..Chunks]
  PROVE  /\ Moved(c, t, p, a, u, w) /\ TypeOK'
         /\ Ordered(c)' /\ Running(c)' /\ Complete(c)' /\ Counted(c)' => IInv'
<1>1. TypeOK'
  BY DEF IInv, TypeOK, Moves, OnlyRun
<1>2. promise[c] = "open" /\ site[c] = "worker" /\ ~aborted[c]
  BY DEF IInv, CallInv, Placed
<1>3. Moved(c, t, p, a, u, w)
  BY <1>2 DEF IInv, TypeOK, Moves, Moved, OnlyRun
<1>4. Placed(c)'
  BY <1>3 DEF Moved, Placed
<1>5. \A d \in Calls \ {c} : Same(d)
  BY DEF IInv, TypeOK, Moves, OnlyRun, Same
<1>6. QED BY <1>1, <1>3, <1>4, <1>5, Lifted DEF CallInv

\* What is known of a worker's call and of its queue.
LEMMA AtWork ==
  ASSUME IInv, NEW c \in Calls
  PROVE  /\ toPage[c] \in Seq(Messages) /\ toWorker[c] \in Seq(Nat) /\ output[c] \in Seq(Nat) /\ due[c] \in Seq(Nat)
         /\ at[c] \in 0..Chunks /\ InOrder(toPage[c]) /\ reported[c] \in 0..Chunks
         /\ thread' = [thread EXCEPT ![c] = thread[c]] <=> thread' = thread
         /\ toPage' = [toPage EXCEPT ![c] = toPage[c]] <=> toPage' = toPage
         /\ at' = [at EXCEPT ![c] = at[c]] <=> at' = at
         /\ due' = [due EXCEPT ![c] = due[c]] <=> due' = due
         /\ toWorker' = [toWorker EXCEPT ![c] = toWorker[c]] <=> toWorker' = toWorker
         /\ sent \in [Calls -> Nat] /\ lastReported \in [Calls -> 0..Chunks]
         /\ Handed(c) \in Seq(Nat)
         /\ Kind(toPage[c]) = "progress" => Handed(c) = output[c]
<1>1. /\ toPage[c] \in Seq(Messages) /\ toWorker[c] \in Seq(Nat) /\ output[c] \in Seq(Nat) /\ due[c] \in Seq(Nat)
      /\ at[c] \in 0..Chunks /\ InOrder(toPage[c]) /\ reported[c] \in 0..Chunks
      /\ sent \in [Calls -> Nat] /\ lastReported \in [Calls -> 0..Chunks]
  BY DEF IInv, TypeOK, CallInv, Ordered
<1>2. Kind(toPage[c]) # "output" => Handed(c) = output[c]
  BY <1>1, Handing DEF Handed, Carried
<1>3. Handed(c) \in Seq(Nat)
  <2>1. CASE Kind(toPage[c]) = "output"
    <3>1. toPage[c] # <<>> /\ Len(toPage[c]) \in 1..Len(toPage[c])
      BY <1>1, <2>1, EmptyQueue DEF Kind
    <3>2. toPage[c][Len(toPage[c])] \in Messages
      BY <1>1, <3>1, ElementOfSeq
    <3>3. toPage[c][Len(toPage[c])].piece \in Nat
      BY <2>1, <3>1, <3>2, MessageKinds DEF Kind
    <3>4. Carried(toPage[c]) \in Seq(Nat)
      BY <2>1, <3>3 DEF Carried
    <3>5. QED BY <1>1, <3>4, ConcatProperties DEF Handed
  <2>2. QED BY <1>1, <1>2, <2>1
<1>4. QED BY <1>1, <1>2, <1>3 DEF IInv, TypeOK

LEMMA WorkerLoadsKeeps ==
  ASSUME IInv, NEW c \in Calls, WorkerLoads(c)
  PROVE  IInv'
<1>0. /\ Kind(toPage[c]) = "progress" /\ toWorker[c] = <<>> /\ due[c] = <<>> /\ at[c] = 0 /\ output[c] = <<>>
      /\ thread[c] # "none"
  BY DEF IInv, CallInv, Running, WorkerLoads
<1>1. CASE Streams(c)
  <2> DEFINE p == toPage[c] \o <<Progress(0)>>
  <2>1. Progress(0) \in Messages /\ Progress(0).type = "progress"
    BY FileIsRead DEF Progress, Messages
  <2>2. p \in Seq(Messages) /\ InOrder(p) /\ Kind(p) = "progress"
    <3>1. toPage[c] \in Seq(Messages) /\ InOrder(toPage[c])
      BY AtWork
    <3>2. QED BY <1>0, <2>1, <3>1, Posted
  <2>3. Moves(c, "reading", p, at[c], due[c], toWorker[c]) /\ UNCHANGED <<sent, lastReported>>
    BY <1>1, AtWork DEF WorkerLoads, Moves, PostAll, Put
  <2> HIDE DEF p
  <2>4. "reading" \in Threads \ {"none"}
    BY DEF Threads
  <2>5. /\ Moved(c, "reading", p, at[c], due[c], toWorker[c])
        /\ Ordered(c)' /\ Running(c)' /\ Complete(c)' /\ Counted(c)' => IInv'
    BY <1>0, <2>2, <2>3, <2>4, AtWork, WorkerMoves
  <2>6. Ordered(c)' /\ Running(c)' /\ Counted(c)'
    BY <1>0, <1>1, <2>2, <2>5, EmptySeq DEF Moved, Ordered, Running, Counted, Answers, Streams
  <2>7. Handed(c)' = <<>>
    BY <1>0, <2>2, <2>5, Handing DEF Moved, Handed, Carried
  <2>8. Upto(c, Cut[c][at[c]]) = <<>>
    BY <1>0, Cutting
  <2>9. Complete(c)'
    BY <1>0, <2>2, <2>5, <2>7, <2>8 DEF Moved, Complete, Answers, Upto
  <2>10. QED BY <2>5, <2>6, <2>9
<1>2. CASE ~Streams(c)
  <2>1. toPage[c] \o <<>> = toPage[c]
    BY AtWork, ConcatEmptySeq
  <2>2. Moves(c, "whole", toPage[c], at[c], due[c], toWorker[c]) /\ UNCHANGED <<sent, lastReported>>
    BY <1>2, <2>1, AtWork DEF WorkerLoads, Moves, PostAll, Put
  <2>3. "whole" \in Threads \ {"none"}
    BY DEF Threads
  <2>4. /\ Moved(c, "whole", toPage[c], at[c], due[c], toWorker[c])
        /\ Ordered(c)' /\ Running(c)' /\ Complete(c)' /\ Counted(c)' => IInv'
    BY <1>0, <2>2, <2>3, AtWork, WorkerMoves
  <2>5. Ordered(c)' /\ Running(c)' /\ Counted(c)'
    BY <1>0, <1>2, <2>4, AtWork, EmptySeq DEF Moved, Ordered, Running, Counted, Answers, Streams
  <2>6. Handed(c)' = <<>>
    BY <1>0, <2>4, Handing DEF Moved, Handed, Carried
  <2>7. Complete(c)'
    BY <1>0, <2>4, <2>6 DEF Moved, Complete, Answers
  <2>8. QED BY <2>4, <2>5, <2>7
<1>3. QED BY <1>1, <1>2

\* A worker posts its last message.
LEMMA Ending ==
  ASSUME IInv, NEW c \in Calls, thread[c] # "none", Kind(toPage[c]) = "progress",
         NEW p \in Seq(Messages), InOrder(p), Kind(p) \in {"done", "error"},
         Answers(p) => /\ output[c] \o p[Len(p)].bytes = Whole[c]
                       /\ Streams(c) => Figure(p, reported[c]) = Chunks,
         toPage' = [toPage EXCEPT ![c] = p], thread' = [thread EXCEPT ![c] = "ended"],
         due' = [due EXCEPT ![c] = <<>>], UNCHANGED <<at, sent, lastReported, toWorker>>, OnlyRun
  PROVE  IInv'
<1>1. Moves(c, "ended", p, at[c], <<>>, toWorker[c])
  BY AtWork DEF Moves
<1>2. "ended" \in Threads \ {"none"} /\ <<>> \in Seq(Nat)
  BY DEF Threads
<1>3. /\ Moved(c, "ended", p, at[c], <<>>, toWorker[c])
      /\ Ordered(c)' /\ Running(c)' /\ Complete(c)' /\ Counted(c)' => IInv'
  BY <1>1, <1>2, AtWork, WorkerMoves
<1>4. Ordered(c)'
  BY <1>3 DEF IInv, CallInv, Moved, Ordered
<1>5. Running(c)' /\ Counted(c)'
  BY <1>3 DEF Moved, Running, Counted, Streams
<1>6. site[c] = "worker" /\ Handed(c) = output[c]
  BY AtWork DEF IInv, CallInv, Placed
<1>7. Handed(c)' = output[c]
  <2>1. output'[c] = output[c] /\ toPage'[c] = p /\ output[c] \in Seq(Nat)
    BY <1>3, AtWork DEF Moved
  <2>2. Handed(c)' = output[c] \o <<>>
    BY <2>1 DEF Handed, Carried
  <2>3. QED BY <2>1, <2>2, Handing
<1>8. Complete(c)'
  BY <1>3, <1>6, <1>7 DEF IInv, CallInv, Moved, Complete
<1>9. QED BY <1>3, <1>4, <1>5, <1>8

LEMMA Endings ==
  /\ ErrorMessage \in Messages /\ ErrorMessage.type = "error"
  /\ \A b \in Seq(Nat) : \A error \in BOOLEAN :
       /\ Done(error, b) \in Messages /\ Done(error, b).type = "done"
       /\ Done(error, b).error = error /\ Done(error, b).bytes = b
  /\ \A n \in 0..Chunks : Progress(n) \in Messages /\ Progress(n).type = "progress" /\ Progress(n).figure = n
BY DEF ErrorMessage, Done, Progress, Messages

\* One message behind figures, an answer only when it is the whole output.
LEMMA EndsWith ==
  ASSUME IInv, NEW c \in Calls, thread[c] # "none", Kind(toPage[c]) = "progress",
         NEW m \in Messages, m.type \in {"done", "error"},
         m.type = "done" /\ ~m.error => /\ output[c] \o m.bytes = Whole[c]
                                        /\ Streams(c) => Figure(toPage[c], reported[c]) = Chunks,
         Posts(c, <<m>>), OnlyRun
  PROVE  IInv'
<1> DEFINE p == toPage[c] \o <<m>>
<1>1. /\ p \in Seq(Messages) /\ InOrder(p) /\ Kind(p) = m.type /\ p[Len(p)] = m
      /\ Figure(p, reported[c]) = Figure(toPage[c], reported[c])
  <2>1. toPage[c] \in Seq(Messages) /\ InOrder(toPage[c])
    BY AtWork
  <2>2. /\ p \in Seq(Messages) /\ InOrder(p) /\ Kind(p) = m.type
        /\ Len(p) = Len(toPage[c]) + 1 /\ p[Len(toPage[c]) + 1] = m
        /\ Figure(p, reported[c]) = IF m.type = "progress" THEN m.figure ELSE Figure(toPage[c], reported[c])
    BY <2>1, Posted
  <2> HIDE DEF p
  <2>3. QED BY <2>2
<1>2. /\ toPage' = [toPage EXCEPT ![c] = p] /\ thread' = [thread EXCEPT ![c] = "ended"]
      /\ due' = [due EXCEPT ![c] = <<>>] /\ UNCHANGED <<at, sent, lastReported, toWorker>>
  BY DEF Posts, PostAll, Put
<1>3. Answers(p) => /\ output[c] \o p[Len(p)].bytes = Whole[c]
                    /\ Streams(c) => Figure(p, reported[c]) = Chunks
  BY <1>1 DEF Answers
<1> HIDE DEF p
<1>4. QED BY <1>1, <1>2, <1>3, Ending

LEMMA WorkerEndsKeeps ==
  ASSUME IInv, NEW c \in Calls, WorkerThrows(c) \/ WorkerComputesWhole(c) \/ WorkerIsDone(c)
  PROVE  IInv'
<1>0. thread[c] # "none" /\ Kind(toPage[c]) = "progress" /\ Handed(c) = output[c] /\ site[c] = "worker"
  <2>1. thread[c] \in {"loading", "reading", "whole", "finishing"}
    BY DEF WorkerThrows, WorkerComputesWhole, WorkerIsDone
  <2>2. QED BY <2>1, AtWork DEF IInv, CallInv, Placed, Running
<1>1. Whole[c] \in Seq(Nat) /\ <<>> \in Seq(Nat)
  BY FileIsRead
<1>2. CASE WorkerThrows(c)
  BY <1>0, <1>2, Endings, EndsWith DEF WorkerThrows
<1>3. CASE WorkerComputesWhole(c)
  <2>1. PICK error \in BOOLEAN : Posts(c, <<Done(error, IF error THEN <<>> ELSE Whole[c])>>)
    BY <1>3 DEF WorkerComputesWhole
  <2>2. ~Streams(c) /\ output[c] \o Whole[c] = Whole[c]
    BY <1>1, <1>3, Handing DEF WorkerComputesWhole, IInv, CallInv, Running
  <2>3. OnlyRun
    BY <1>3 DEF WorkerComputesWhole
  <2>4. CASE error
    BY <1>0, <1>1, <2>1, <2>3, <2>4, Endings, EndsWith
  <2>5. CASE ~error
    <3>1. Posts(c, <<Done(FALSE, Whole[c])>>)
      BY <2>1, <2>5
    <3>2. Streams(c) => Figure(toPage[c], reported[c]) = Chunks
      BY <2>2
    <3>3. output[c] \o Whole[c] = Whole[c]
      BY <2>2
    <3>4. /\ Done(FALSE, Whole[c]) \in Messages /\ Done(FALSE, Whole[c]).type = "done"
          /\ Done(FALSE, Whole[c]).bytes = Whole[c]
      BY <1>1, Endings
    <3>5. QED BY <1>0, <2>3, <3>1, <3>2, <3>3, <3>4, EndsWith
  <2>6. QED BY <2>4, <2>5
<1>4. CASE WorkerIsDone(c)
  <2>1. OnlyRun /\ Figure(toPage[c], reported[c]) = Chunks
    BY <1>4 DEF WorkerIsDone, IInv, CallInv, Counted
  <2>2. CASE c \in Variants
    <3>1. output[c] = <<>> /\ output[c] \o Whole[c] = Whole[c]
      BY <1>0, <1>1, <2>2, Handing DEF IInv, CallInv, Complete
    <3>2. Posts(c, <<Done(FALSE, Whole[c])>>)
      BY <1>4, <2>2 DEF WorkerIsDone
    <3>3. /\ Done(FALSE, Whole[c]) \in Messages /\ Done(FALSE, Whole[c]).type = "done"
          /\ Done(FALSE, Whole[c]).bytes = Whole[c]
      BY <1>1, Endings
    <3>4. QED BY <1>0, <2>1, <3>1, <3>2, <3>3, EndsWith
  <2>3. CASE c \notin Variants
    <3>1. output[c] \o <<>> = Whole[c]
      BY <1>0, <1>4, <2>3 DEF IInv, CallInv, Complete, WorkerIsDone
    <3>2. Posts(c, <<Done(FALSE, <<>>)>>)
      BY <1>4, <2>3 DEF WorkerIsDone
    <3>3. /\ Done(FALSE, <<>>) \in Messages /\ Done(FALSE, <<>>).type = "done"
          /\ Done(FALSE, <<>>).bytes = <<>>
      BY <1>1, Endings
    <3>4. QED BY <1>0, <2>1, <3>1, <3>2, <3>3, EndsWith
  <2>4. QED BY <2>2, <2>3
<1>5. QED BY <1>2, <1>3, <1>4
\* The stream yields a piece list for the read it has taken in, or for finish().
LEMMA WorkerReadsKeeps ==
  ASSUME IInv, NEW c \in Calls, WorkerReads(c)
  PROVE  IInv'
<1>0. /\ thread[c] = "reading" /\ at[c] < Chunks /\ OnlyRun /\ Streams(c) /\ site[c] = "worker"
      /\ Kind(toPage[c]) = "progress" /\ toWorker[c] = <<>>
  BY DEF IInv, CallInv, Placed, Running, WorkerReads
<1>1. CASE Posts(c, <<Done(TRUE, <<>>)>>)
  <2>1. <<>> \in Seq(Nat) /\ thread[c] # "none"
    BY <1>0
  <2>2. /\ Done(TRUE, <<>>) \in Messages /\ Done(TRUE, <<>>).type = "done"
        /\ Done(TRUE, <<>>).error = TRUE
    BY <2>1, Endings
  <2>3. QED BY <1>0, <1>1, <2>1, <2>2, EndsWith
<1>2. CASE ~Posts(c, <<Done(TRUE, <<>>)>>)
  <2> DEFINE u == IF c \in Variants THEN <<>> ELSE Output(c, at[c] + 1)
  <2>0. at[c] + 1 \in 1..(Chunks + 1) /\ (at[c] + 1) - 1 = at[c] /\ at[c] \in 0..Chunks
    BY <1>0, AtWork, FileIsRead
  <2>1. u \in Seq(Nat) /\ "emitting" \in Threads \ {"none"}
    BY <2>0, Cutting DEF Threads
  <2>2. Moves(c, "emitting", toPage[c], at[c], u, toWorker[c]) /\ UNCHANGED <<sent, lastReported>>
    BY <1>2, AtWork DEF WorkerReads, Moves, Put
  <2>3. c \in Variants => u = <<>>
    OBVIOUS
  <2>4. c \notin Variants => Handed(c) \o u = Upto(c, Cut[c][at[c] + 1])
    <3>1. Upto(c, Cut[c][at[c]]) \o Output(c, at[c] + 1) = Upto(c, Cut[c][at[c] + 1])
      BY <2>0, Cutting
    <3>2. c \notin Variants => Handed(c) = Upto(c, Cut[c][at[c]])
      BY <1>0 DEF IInv, CallInv, Complete
    <3>3. QED BY <3>1, <3>2
  <2> HIDE DEF u
  <2>5. /\ Moved(c, "emitting", toPage[c], at[c], u, toWorker[c])
        /\ Ordered(c)' /\ Running(c)' /\ Complete(c)' /\ Counted(c)' => IInv'
    BY <1>0, <2>1, <2>2, AtWork, WorkerMoves
  <2>6. Handed(c)' = Handed(c)
    BY <2>5 DEF Moved, Handed
  <2>7. Ordered(c)'
    BY <2>5 DEF IInv, CallInv, Moved, Ordered
  <2>8. Running(c)' /\ Counted(c)'
    BY <1>0, <2>5 DEF Moved, Running, Counted, Streams, Answers
  <2>9. Complete(c)'
    BY <1>0, <2>3, <2>4, <2>5, <2>6 DEF IInv, CallInv, Moved, Complete, Answers, Upto
  <2>10. QED BY <2>5, <2>7, <2>8, <2>9
<1>3. QED BY <1>1, <1>2

\* A piece goes out behind figures, and the stream waits.
LEMMA WorkerEmitsKeeps ==
  ASSUME IInv, NEW c \in Calls, WorkerEmits(c)
  PROVE  IInv'
<1> DEFINE m == Piece(sent[c], Head(due[c]))
<1> DEFINE p == toPage[c] \o <<m>>
<1> DEFINE t == IF thread[c] = "emitting" THEN "awaiting" ELSE "awaitingLast"
<1> DEFINE u == Tail(due[c])
<1>0. /\ thread[c] \in {"emitting", "finishing"} /\ due[c] # <<>> /\ Streams(c) /\ site[c] = "worker"
      /\ Kind(toPage[c]) = "progress" /\ toWorker[c] = <<>> /\ c \notin Variants
      /\ toPage[c] \in Seq(Messages) /\ InOrder(toPage[c]) /\ output[c] \in Seq(Nat) /\ due[c] \in Seq(Nat)
      /\ Handed(c) = output[c]
  BY AtWork DEF IInv, CallInv, Placed, Running, Complete, WorkerEmits
<1>1. /\ Head(due[c]) \in Nat /\ u \in Seq(Nat) /\ output[c] \o <<Head(due[c])>> \in Seq(Nat)
      /\ (output[c] \o <<Head(due[c])>>) \o u = output[c] \o due[c]
  BY <1>0, Handing
<1>2. m \in Messages /\ m.type = "output" /\ m.piece = Head(due[c])
  BY <1>1, AtWork DEF Messages, Piece
<1> HIDE DEF m
<1>3. /\ p \in Seq(Messages) /\ InOrder(p) /\ Kind(p) = "output"
      /\ Len(p) = Len(toPage[c]) + 1 /\ p[Len(toPage[c]) + 1] = m
      /\ Figure(p, reported[c]) = Figure(toPage[c], reported[c])
  BY <1>0, <1>2, Posted
<1>4. t \in Threads \ {"none"}
  BY DEF Threads
<1>5. Moves(c, t, p, at[c], u, toWorker[c]) /\ lastReported' = lastReported /\ sent' \in [Calls -> Nat]
  <2>1. sent' = [sent EXCEPT ![c] = sent[c] + 1]
    BY DEF WorkerEmits, Put
  <2>2. sent' \in [Calls -> Nat]
    BY <2>1, AtWork
  <2>3. /\ thread' = [thread EXCEPT ![c] = t] /\ toPage' = [toPage EXCEPT ![c] = p]
        /\ due' = [due EXCEPT ![c] = u] /\ UNCHANGED <<at, lastReported, toWorker>> /\ OnlyRun
    BY DEF WorkerEmits, PostAll, Put, m
  <2> HIDE DEF m, p, t, u
  <2>4. QED BY <2>2, <2>3, AtWork DEF Moves
<1> HIDE DEF p
<1>6. Carried(p) = <<Head(due[c])>>
  BY <1>2, <1>3 DEF Carried
<1>7. thread[c] = "emitting" => t = "awaiting"
  OBVIOUS
<1>8. thread[c] = "finishing" => t = "awaitingLast"
  BY <1>0
<1> HIDE DEF t, u
<1>9. /\ Moved(c, t, p, at[c], u, toWorker[c])
      /\ Ordered(c)' /\ Running(c)' /\ Complete(c)' /\ Counted(c)' => IInv'
  BY <1>0, <1>1, <1>3, <1>4, <1>5, AtWork, WorkerMoves
<1>10. Ordered(c)'
  <2>1. Len(<<>>) <= 1
    OBVIOUS
  <2>2. QED BY <1>0, <1>3, <1>9, <2>1 DEF Moved, Ordered
<1>11. Running(c)' /\ Counted(c)'
  BY <1>0, <1>3, <1>7, <1>8, <1>9 DEF IInv, CallInv, Moved, Running, Counted, Streams, Answers
<1>12. Handed(c)' \o due'[c] = Handed(c) \o due[c]
  <2>1. Handed(c)' = output[c] \o Carried(p)
    BY <1>9 DEF Moved, Handed
  <2>2. due'[c] = u
    BY <1>9 DEF Moved
  <2>3. QED BY <1>0, <1>1, <1>6, <2>1, <2>2
<1>13. Complete(c)'
  BY <1>0, <1>3, <1>7, <1>8, <1>9, <1>12 DEF IInv, CallInv, Moved, Complete, Answers, Upto
<1>14. QED BY <1>9, <1>10, <1>11, <1>13

LEMMA WorkerHearsAckKeeps ==
  ASSUME IInv, NEW c \in Calls, WorkerHearsAck(c)
  PROVE  IInv'
<1>0. /\ thread[c] \in {"awaiting", "awaitingLast"} /\ Streams(c) /\ site[c] = "worker"
      /\ toWorker[c] # <<>> /\ Kind(toPage[c]) = "progress"
      /\ toWorker[c] \in Seq(Nat) /\ Len(toWorker[c]) <= 1
  BY AtWork DEF IInv, CallInv, Placed, Ordered, Running, WorkerHearsAck
<1>1. Tail(toWorker[c]) = <<>>
  <2>1. Len(toWorker[c]) \in Nat /\ Len(toWorker[c]) # 0 /\ Tail(toWorker[c]) \in Seq(Nat)
        /\ Len(Tail(toWorker[c])) = Len(toWorker[c]) - 1
    BY <1>0, EmptySeq, LenProperties, HeadTailProperties
  <2>2. Len(Tail(toWorker[c])) = 0
    <3>1. Len(toWorker[c]) <= 1
      BY <1>0
    <3>2. Len(toWorker[c]) = 1
      <4> DEFINE n == Len(toWorker[c])
      <4>1. n \in Nat /\ n # 0 /\ n <= 1
        BY <2>1, <3>1
      <4> HIDE DEF n
      <4>2. n = 1
        BY <4>1
      <4>3. QED BY <4>2 DEF n
    <3>3. QED BY <2>1, <3>2
  <2>3. QED BY <2>1, <2>2, EmptySeq, Zenon
<1> DEFINE t == IF thread[c] = "awaiting" THEN "emitting" ELSE "finishing"
<1>2. t \in Threads \ {"none"} /\ <<>> \in Seq(Nat) /\ Len(<<>>) <= 1
  BY DEF Threads
<1>3. Moves(c, t, toPage[c], at[c], due[c], <<>>) /\ UNCHANGED <<sent, lastReported>>
  BY <1>0, <1>1, AtWork DEF WorkerHearsAck, Moves, Put
<1>4. thread[c] = "awaiting" => t = "emitting"
  OBVIOUS
<1>5. thread[c] = "awaitingLast" => t = "finishing"
  BY <1>0
<1> HIDE DEF t
<1>6. /\ Moved(c, t, toPage[c], at[c], due[c], <<>>)
      /\ Ordered(c)' /\ Running(c)' /\ Complete(c)' /\ Counted(c)' => IInv'
  BY <1>0, <1>2, <1>3, AtWork, WorkerMoves
<1>7. Ordered(c)'
  BY <1>0, <1>2, <1>6 DEF IInv, CallInv, Moved, Ordered
<1>8. Running(c)' /\ Counted(c)'
  BY <1>0, <1>4, <1>5, <1>6 DEF IInv, CallInv, Moved, Running, Counted, Streams, Answers
<1>9. Handed(c)' = Handed(c) /\ due'[c] = due[c]
  BY <1>6 DEF Moved, Handed
<1>10. Complete(c)'
  BY <1>0, <1>4, <1>5, <1>6, <1>9 DEF IInv, CallInv, Moved, Complete, Answers, Upto
<1>11. QED BY <1>6, <1>7, <1>8, <1>10
LEMMA WorkerEndsReadKeeps ==
  ASSUME IInv, NEW c \in Calls, WorkerEndsRead(c)
  PROVE  IInv'
<1> DEFINE a == at[c] + 1
<1> DEFINE m == Progress(a)
<1> DEFINE p == IF Reports(c, a) THEN toPage[c] \o <<m>> ELSE toPage[c]
<1>0. /\ thread[c] = "emitting" /\ due[c] = <<>> /\ Streams(c) /\ site[c] = "worker"
      /\ Kind(toPage[c]) = "progress" /\ toWorker[c] = <<>> /\ at[c] < Chunks /\ at[c] \in 0..Chunks
      /\ toPage[c] \in Seq(Messages) /\ InOrder(toPage[c]) /\ output[c] \in Seq(Nat)
      /\ Handed(c) = output[c]
  BY AtWork DEF IInv, CallInv, Placed, Running, WorkerEndsRead
<1>1. a \in 0..Chunks /\ OnlyRun
  BY <1>0, FileIsRead DEF WorkerEndsRead
<1>2. m \in Messages /\ m.type = "progress"
  <2> HIDE DEF a
  <2>1. QED BY <1>1, Endings
<1>3. /\ lastReported' \in [Calls -> 0..Chunks] /\ UNCHANGED sent /\ due' = [due EXCEPT ![c] = <<>>]
      /\ toWorker' = [toWorker EXCEPT ![c] = <<>>] /\ at' = [at EXCEPT ![c] = a]
      /\ thread' = [thread EXCEPT ![c] = "reading"]
  <2>1. lastReported' = lastReported \/ lastReported' = [lastReported EXCEPT ![c] = a]
    BY DEF WorkerEndsRead, Put
  <2>2. lastReported' \in [Calls -> 0..Chunks]
    BY <1>1, <2>1, AtWork
  <2>3. /\ UNCHANGED <<sent, due, toWorker>> /\ at' = [at EXCEPT ![c] = a]
        /\ thread' = [thread EXCEPT ![c] = "reading"]
    BY DEF WorkerEndsRead, Put
  <2>4. QED BY <1>0, <2>2, <2>3, AtWork
<1>4. toPage' = [toPage EXCEPT ![c] = p]
  BY AtWork DEF WorkerEndsRead, PostAll, Put
<1> HIDE DEF m, a
<1>5. /\ p \in Seq(Messages) /\ InOrder(p) /\ Kind(p) = "progress"
  BY <1>0, <1>2, Posted
<1> HIDE DEF p
<1>6. Moves(c, "reading", p, a, <<>>, <<>>)
  BY <1>1, <1>3, <1>4 DEF Moves
<1>7. "reading" \in Threads \ {"none"} /\ <<>> \in Seq(Nat) /\ Len(<<>>) <= 1
  BY DEF Threads
<1>8. /\ Moved(c, "reading", p, a, <<>>, <<>>)
      /\ Ordered(c)' /\ Running(c)' /\ Complete(c)' /\ Counted(c)' => IInv'
  BY <1>0, <1>1, <1>3, <1>5, <1>6, <1>7, AtWork, WorkerMoves
<1>9. Ordered(c)'
  BY <1>5, <1>7, <1>8 DEF Moved, Ordered
<1>10. Running(c)' /\ Counted(c)'
  BY <1>0, <1>5, <1>8 DEF Moved, Running, Counted, Streams, Answers
<1>11. Handed(c)' = Handed(c)
  <2>1. Handed(c)' = output[c] \o <<>>
    BY <1>5, <1>8 DEF Moved, Handed, Carried
  <2>2. QED BY <1>0, <2>1, Handing
<1>12. c \notin Variants => Handed(c) = Upto(c, Cut[c][a])
  <2>1. c \notin Variants => Handed(c) \o <<>> = Upto(c, Cut[c][a])
    BY <1>0 DEF IInv, CallInv, Complete, a
  <2>2. QED BY <1>0, <2>1, Handing
<1>13. Complete(c)'
  BY <1>0, <1>5, <1>8, <1>11, <1>12 DEF IInv, CallInv, Moved, Complete, Answers, Upto
<1>14. QED BY <1>8, <1>9, <1>10, <1>13

LEMMA InARow == \A a, b \in Messages : <<a>> \o <<b>> = <<a, b>>
<1>1. SUFFICES ASSUME NEW a \in Messages, NEW b \in Messages PROVE <<a>> \o <<b>> = <<a, b>>
  OBVIOUS
<1>2. <<a>> \in Seq(Messages) /\ <<b>> \in Seq(Messages) /\ <<a, b>> \in Seq(Messages)
  OBVIOUS
<1>3. <<a>> \o <<b>> \in Seq(Messages) /\ Len(<<a>> \o <<b>>) = 2
      /\ (<<a>> \o <<b>>)[1] = a /\ (<<a>> \o <<b>>)[2] = b
  BY <1>2, ConcatProperties
<1> DEFINE p == <<a>> \o <<b>>
<1> DEFINE q == <<a, b>>
<1>4. p \in Seq(Messages) /\ q \in Seq(Messages) /\ Len(p) = Len(q) /\ Len(p) = 2
      /\ p[1] = q[1] /\ p[2] = q[2]
  BY <1>2, <1>3
<1> HIDE DEF p, q
<1>5. \A i \in 1..Len(p) : p[i] = q[i]
  BY <1>4
<1>6. p = q
  BY <1>4, <1>5, SeqEqual
<1>7. QED BY <1>6 DEF p, q

\* The last figure goes out before anything else the stream has to say.
LEMMA WorkerFinishesKeeps ==
  ASSUME IInv, NEW c \in Calls, WorkerFinishes(c)
  PROVE  IInv'
<1> DEFINE q == toPage[c] \o <<Progress(Chunks)>>
<1>0. /\ thread[c] = "reading" /\ at[c] = Chunks /\ Streams(c) /\ site[c] = "worker"
      /\ Kind(toPage[c]) = "progress" /\ toWorker[c] = <<>> /\ at[c] \in 0..Chunks
      /\ toPage[c] \in Seq(Messages) /\ InOrder(toPage[c]) /\ output[c] \in Seq(Nat)
      /\ Handed(c) = output[c] /\ OnlyRun
  BY AtWork DEF IInv, CallInv, Placed, Running, WorkerFinishes
<1>1. Progress(Chunks) \in Messages /\ Progress(Chunks).type = "progress" /\ Progress(Chunks).figure = Chunks
  BY Endings, FileIsRead
<1>2. /\ q \in Seq(Messages) /\ InOrder(q) /\ Kind(q) = "progress"
      /\ Figure(q, reported[c]) = Chunks
  BY <1>0, <1>1, Posted
<1>3. CASE Posts(c, <<Progress(Chunks), Done(TRUE, <<>>)>>)
  <2> DEFINE m == Done(TRUE, <<>>)
  <2> DEFINE p == q \o <<m>>
  <2>1. m \in Messages /\ m.type = "done" /\ m.error = TRUE
    <3>1. <<>> \in Seq(Nat)
      OBVIOUS
    <3>2. QED BY <3>1, Endings
  <2>2. p = toPage[c] \o <<Progress(Chunks), m>>
    <3> HIDE DEF m
    <3>1. <<Progress(Chunks)>> \in Seq(Messages) /\ <<m>> \in Seq(Messages)
      BY <1>1, <2>1
    <3>2. <<Progress(Chunks)>> \o <<m>> = <<Progress(Chunks), m>>
      BY <1>1, <2>1, InARow
    <3>3. p = toPage[c] \o (<<Progress(Chunks)>> \o <<m>>)
      BY <1>0, <3>1, ConcatAssociative
    <3>4. QED BY <3>2, <3>3
  <2>3. /\ toPage' = [toPage EXCEPT ![c] = p] /\ thread' = [thread EXCEPT ![c] = "ended"]
        /\ due' = [due EXCEPT ![c] = <<>>] /\ UNCHANGED <<at, sent, lastReported, toWorker>>
    BY <1>3, <2>2 DEF Posts, PostAll, Put
  <2> HIDE DEF m, q
  <2>4. /\ p \in Seq(Messages) /\ InOrder(p) /\ Kind(p) = "done"
        /\ Len(p) = Len(q) + 1 /\ p[Len(q) + 1] = m
    BY <1>2, <2>1, Posted
  <2> HIDE DEF p
  <2>5. ~Answers(p)
    BY <2>1, <2>4 DEF Answers
  <2>6. QED BY <1>0, <2>3, <2>4, <2>5, Ending
<1>4. CASE ~Posts(c, <<Progress(Chunks), Done(TRUE, <<>>)>>)
  <2> DEFINE u == IF c \in Variants THEN <<>> ELSE Output(c, Chunks + 1)
  <2>0. Chunks + 1 \in 1..(Chunks + 1) /\ (Chunks + 1) - 1 = Chunks
    BY FileIsRead
  <2>1. u \in Seq(Nat) /\ "finishing" \in Threads \ {"none"}
    BY <2>0, Cutting DEF Threads
  <2>2. Moves(c, "finishing", q, at[c], u, toWorker[c]) /\ UNCHANGED <<sent, lastReported>>
    BY <1>4, AtWork DEF WorkerFinishes, Moves, PostAll, Put
  <2>3. c \in Variants => u = <<>>
    OBVIOUS
  <2>4. c \notin Variants => Handed(c) \o u = Whole[c]
    <3>1. Upto(c, Cut[c][Chunks]) \o Output(c, Chunks + 1) = Whole[c]
      BY <2>0, Cutting
    <3>2. c \notin Variants => Handed(c) = Upto(c, Cut[c][Chunks])
      BY <1>0 DEF IInv, CallInv, Complete
    <3>3. QED BY <3>1, <3>2
  <2> HIDE DEF u, q
  <2>5. /\ Moved(c, "finishing", q, at[c], u, toWorker[c])
        /\ Ordered(c)' /\ Running(c)' /\ Complete(c)' /\ Counted(c)' => IInv'
    BY <1>0, <1>2, <2>1, <2>2, AtWork, WorkerMoves
  <2>6. Handed(c)' = Handed(c)
    <3>1. Handed(c)' = output[c] \o <<>>
      BY <1>2, <2>5 DEF Moved, Handed, Carried
    <3>2. QED BY <1>0, <3>1, Handing
  <2>7. Ordered(c)'
    BY <1>0, <1>2, <2>5 DEF IInv, CallInv, Moved, Ordered
  <2>8. Running(c)' /\ Counted(c)'
    BY <1>0, <1>2, <2>5 DEF Moved, Running, Counted, Streams, Answers
  <2>9. Complete(c)'
    BY <1>0, <1>2, <2>3, <2>4, <2>5, <2>6 DEF IInv, CallInv, Moved, Complete, Answers, Upto
  <2>10. QED BY <2>5, <2>7, <2>8, <2>9
<1>5. QED BY <1>3, <1>4

\* A dead worker says nothing more, and its messages are still there.
LEMMA WorkerDiesKeeps ==
  ASSUME IInv, NEW c \in Calls, WorkerDies(c)
  PROVE  IInv'
<1>1. Moves(c, "dead", toPage[c], at[c], due[c], toWorker[c]) /\ UNCHANGED <<sent, lastReported>>
  BY AtWork DEF WorkerDies, Moves, Put
<1>2. "dead" \in Threads \ {"none"} /\ thread[c] # "none" /\ site[c] = "worker"
  BY DEF WorkerDies, Threads, IInv, CallInv, Placed
<1>3. /\ Moved(c, "dead", toPage[c], at[c], due[c], toWorker[c])
      /\ Ordered(c)' /\ Running(c)' /\ Complete(c)' /\ Counted(c)' => IInv'
  BY <1>1, <1>2, AtWork, WorkerMoves
<1>4. Ordered(c)'
  BY <1>3 DEF IInv, CallInv, Moved, Ordered
<1>5. Running(c)' /\ Counted(c)'
  BY <1>3 DEF IInv, CallInv, Moved, Running, Counted, Streams, Answers
<1>6. Handed(c)' = Handed(c)
  BY <1>3 DEF Moved, Handed
<1>7. Complete(c)'
  BY <1>2, <1>3, <1>6 DEF IInv, CallInv, Moved, Complete, Answers
<1>8. QED BY <1>3, <1>4, <1>5, <1>7
-----------------------------------------------------------------------------
(* The page, with a worker. *)

\* What is known when the page takes a message.
LEMMA AtThePage ==
  ASSUME IInv, NEW c \in Calls, toPage[c] # <<>>
  PROVE  /\ promise[c] = "open" /\ site[c] = "worker" /\ thread[c] # "none" /\ ~aborted[c]
         /\ toPage[c] \in Seq(Messages) /\ InOrder(toPage[c]) /\ output[c] \in Seq(Nat)
         /\ Head(toPage[c]) \in Messages /\ Tail(toPage[c]) \in Seq(Messages)
BY AtWork, HeadTailProperties DEF IInv, CallInv, Placed

LEMMA PageHearsProgressKeeps ==
  ASSUME IInv, NEW c \in Calls, PageHearsProgress(c)
  PROVE  IInv'
<1> DEFINE q == toPage[c]
<1> DEFINE p == Tail(q)
<1> DEFINE n == Head(q).figure
<1>0. /\ q # <<>> /\ Head(q).type = "progress" /\ q \in Seq(Messages) /\ InOrder(q) /\ Head(q) \in Messages
  BY AtThePage DEF PageHearsProgress, Next1
<1>1. /\ p \in Seq(Messages) /\ InOrder(p) /\ Kind(p) = Kind(q) /\ Figure(p, n) = Figure(q, reported[c])
      /\ Kind(q) # "progress" => p # <<>> /\ p[Len(p)] = q[Len(q)]
  BY <1>0, FigureTaken
<1>2. n \in 0..Chunks
  BY <1>0, MessageKinds
<1>3. /\ toPage' = [toPage EXCEPT ![c] = p] /\ reported' = [reported EXCEPT ![c] = n]
      /\ UNCHANGED <<workerSupported, promise, value, aborted, site, thread, at, due, sent,
                     lastReported, toWorker, output>>
  BY DEF PageHearsProgress, Put, Next1
<1> HIDE DEF n, p
<1>4. TypeOK' /\ toPage'[c] = p /\ reported'[c] = n
  BY <1>1, <1>2, <1>3 DEF IInv, TypeOK
<1>5. \A d \in Calls \ {c} : Same(d)
  BY <1>3 DEF IInv, TypeOK, Same
<1>6. q # <<>> /\ promise[c] = "open" /\ site[c] = "worker"
  BY <1>0, AtThePage
<1>7. Carried(p) = Carried(q)
  BY <1>0, <1>1 DEF Carried
<1>8. Answers(p) <=> Answers(q)
  BY <1>0, <1>1 DEF Answers
<1>9. Kind(q) = "done" => p[Len(p)] = q[Len(q)]
  BY <1>1
<1>10. Placed(c)'
  BY <1>3, <1>6 DEF IInv, CallInv, Placed
<1>11. Ordered(c)'
  BY <1>1, <1>3, <1>4 DEF IInv, CallInv, Ordered
<1>12. Running(c)'
  BY <1>1, <1>3, <1>4 DEF IInv, CallInv, Running, Streams
<1>13. Complete(c)'
  <2>1. Handed(c)' = Handed(c)
    BY <1>3, <1>4, <1>7 DEF Handed
  <2>2. Answers(p) => output[c] \o p[Len(p)].bytes = Whole[c]
    BY <1>8, <1>9 DEF IInv, CallInv, Complete, Answers
  <2>3. QED BY <1>3, <1>4, <1>6, <2>1, <2>2 DEF IInv, CallInv, Complete, Upto, Streams
<1>14. Counted(c)'
  BY <1>1, <1>3, <1>4, <1>6, <1>8 DEF IInv, CallInv, Counted, Streams
<1>15. QED BY <1>4, <1>5, <1>10, <1>11, <1>12, <1>13, <1>14, Lifted DEF CallInv

LEMMA PageHearsOutputKeeps ==
  ASSUME IInv, NEW c \in Calls, PageHearsOutput(c)
  PROVE  IInv'
<1> DEFINE q == toPage[c]
<1> DEFINE m == Head(q)
<1>0. /\ q # <<>> /\ m.type = "output" /\ q \in Seq(Messages) /\ InOrder(q) /\ m \in Messages
      /\ output[c] \in Seq(Nat) /\ promise[c] = "open" /\ site[c] = "worker"
  BY AtThePage DEF PageHearsOutput, Next1
<1>1. /\ Tail(q) = <<>> /\ Len(q) = 1 /\ q[1] = m /\ Kind(q) = "output"
      /\ Figure(q, reported[c]) = reported[c]
  BY <1>0, LastTaken
<1>2. m.piece \in Nat /\ m.sequence \in Nat
  BY <1>0, MessageKinds
<1>3. toWorker[c] = <<>>
  BY <1>1 DEF IInv, CallInv, Ordered
<1>4. Append(toWorker[c], m.sequence) = <<m.sequence>> /\ <<m.sequence>> \in Seq(Nat) /\ Len(<<m.sequence>>) <= 1
  BY <1>2, <1>3
<1>5. Append(output[c], m.piece) = output[c] \o <<m.piece>> /\ Append(output[c], m.piece) \in Seq(Nat)
  BY <1>0, <1>2, AppendIsConcat, AppendProperties
<1>6. /\ toPage' = [toPage EXCEPT ![c] = <<>>] /\ toWorker' = [toWorker EXCEPT ![c] = <<m.sequence>>]
      /\ output' = [output EXCEPT ![c] = output[c] \o <<m.piece>>]
      /\ UNCHANGED <<workerSupported, promise, value, aborted, site, thread, at, due, sent,
                     lastReported, reported>>
  BY <1>1, <1>4, <1>5 DEF PageHearsOutput, Put, Next1
<1>7. output[c] \o <<m.piece>> \in Seq(Nat) /\ Handed(c) = output[c] \o <<m.piece>>
  BY <1>1, <1>5 DEF Handed, Carried
<1> HIDE DEF m
<1>8. <<>> \in Seq(Messages) /\ Kind(<<>>) = "progress" /\ InOrder(<<>>)
  BY EmptyQueue DEF Kind, InOrder
<1>9. TypeOK' /\ toPage'[c] = <<>> /\ toWorker'[c] = <<m.sequence>> /\ output'[c] = output[c] \o <<m.piece>>
  BY <1>4, <1>6, <1>7, <1>8 DEF IInv, TypeOK
<1>10. \A d \in Calls \ {c} : Same(d)
  BY <1>6 DEF IInv, TypeOK, Same
<1>11. Placed(c)'
  BY <1>0, <1>6 DEF IInv, CallInv, Placed
<1>12. Ordered(c)'
  BY <1>4, <1>8, <1>9 DEF Ordered
<1>13. thread[c] \notin {"loading", "whole", "reading", "emitting", "finishing"}
  BY <1>1 DEF IInv, CallInv, Running
<1>14. Running(c)'
  BY <1>6, <1>8, <1>9, <1>13 DEF IInv, CallInv, Running, Streams
<1>15. Handed(c)' = Handed(c)
  <2>1. Handed(c)' = Handed(c) \o <<>>
    BY <1>7, <1>8, <1>9 DEF Handed, Carried
  <2>2. QED BY <1>7, <2>1, Handing
<1>16. Complete(c)'
  BY <1>0, <1>6, <1>8, <1>9, <1>13, <1>15 DEF IInv, CallInv, Complete, Answers, Upto, Streams
<1>17. Counted(c)'
  <2>1. Figure(<<>>, reported[c]) = reported[c]
    BY <1>8 DEF Figure
  <2>2. QED BY <1>0, <1>1, <1>6, <1>8, <1>9, <1>13, <2>1 DEF IInv, CallInv, Counted, Answers, Streams
<1>18. QED BY <1>9, <1>10, <1>11, <1>12, <1>14, <1>16, <1>17, Lifted DEF CallInv

\* The call is settled, and nothing of its worker is left.
LEMMA SettlingKeeps ==
  ASSUME IInv, NEW c \in Calls, NEW outcome \in {"resolved", "toolError", "failed", "aborted"},
         NEW bytes \in Seq(Nat), Settle(c, outcome, bytes),
         outcome = "resolved" /\ Streams(c) => reported[c] = Chunks,
         site' = [site EXCEPT ![c] = "none"], thread' = [thread EXCEPT ![c] = "none"],
         due' = [due EXCEPT ![c] = <<>>], toPage' = [toPage EXCEPT ![c] = <<>>],
         toWorker' = [toWorker EXCEPT ![c] = <<>>], aborted' \in [Calls -> BOOLEAN],
         \A d \in Calls \ {c} : aborted'[d] = aborted[d],
         UNCHANGED <<workerSupported, at, sent, lastReported, output, reported>>
  PROVE  IInv'
<1>0. <<>> \in Seq(Nat) /\ <<>> \in Seq(Messages)
  OBVIOUS
<1>1. /\ promise' = [promise EXCEPT ![c] = outcome]
      /\ value' = value \/ value' = [value EXCEPT ![c] = bytes]
  BY DEF Settle, Put
<1>2. TypeOK'
  <2>1. value' \in [Calls -> Seq(Nat)]
    BY <1>1 DEF IInv, TypeOK
  <2>2. promise' \in [Calls -> {"none", "open", "resolved", "toolError", "failed", "aborted"}]
    BY <1>1 DEF IInv, TypeOK
  <2>3. site' \in [Calls -> {"none", "worker", "main"}] /\ thread' \in [Calls -> Threads]
    BY DEF IInv, TypeOK, Threads
  <2>4. /\ due' \in [Calls -> Seq(Nat)] /\ toPage' \in [Calls -> Seq(Messages)]
        /\ toWorker' \in [Calls -> Seq(Nat)]
    BY <1>0 DEF IInv, TypeOK
  <2>5. QED BY <2>1, <2>2, <2>3, <2>4 DEF IInv, TypeOK
<1>3. \A d \in Calls \ {c} : Same(d)
  BY <1>1 DEF IInv, TypeOK, Same
<1>4. NoWorker(c)' /\ site'[c] = "none" /\ promise'[c] = outcome
  BY <1>1 DEF IInv, TypeOK, NoWorker
<1>5. QED BY <1>2, <1>3, <1>4, Idle, Lifted

LEMMA PageHearsTheEndKeeps ==
  ASSUME IInv, NEW c \in Calls, PageHearsDone(c) \/ PageHearsErrorMessage(c)
  PROVE  IInv'
<1> DEFINE q == toPage[c]
<1> DEFINE m == Head(q)
<1>0. /\ q # <<>> /\ q \in Seq(Messages) /\ InOrder(q) /\ m \in Messages /\ output[c] \in Seq(Nat)
      /\ m.type \in {"done", "error"}
  BY AtThePage DEF PageHearsDone, PageHearsErrorMessage, Next1
<1>1. /\ Tail(q) = <<>> /\ Len(q) = 1 /\ q[1] = m /\ Kind(q) = m.type
      /\ Figure(q, reported[c]) = reported[c]
  BY <1>0, LastTaken
<1>2. /\ site' = [site EXCEPT ![c] = "none"] /\ thread' = [thread EXCEPT ![c] = "none"]
      /\ due' = [due EXCEPT ![c] = <<>>] /\ toPage' = [toPage EXCEPT ![c] = <<>>]
      /\ toWorker' = [toWorker EXCEPT ![c] = <<>>]
      /\ UNCHANGED <<workerSupported, aborted, at, sent, lastReported, output, reported>>
  BY DEF PageHearsDone, PageHearsErrorMessage, Cleanup, Put
<1>3. aborted \in [Calls -> BOOLEAN] /\ <<>> \in Seq(Nat)
  BY DEF IInv, TypeOK
<1>4. CASE PageHearsErrorMessage(c)
  <2>1. Settle(c, "failed", <<>>)
    BY <1>4 DEF PageHearsErrorMessage
  <2>2. QED BY <1>2, <1>3, <2>1, SettlingKeeps
<1>5. CASE PageHearsDone(c)
  <2> DEFINE bytes == output[c] \o m.bytes
  <2>1. m.type = "done" /\ Settle(c, IF m.error THEN "toolError" ELSE "resolved", bytes)
    BY <1>5 DEF PageHearsDone, Next1
  <2>2. bytes \in Seq(Nat)
    BY <1>0, <2>1, MessageKinds, ConcatProperties
  <2>3. CASE m.error
    <3>1. Settle(c, "toolError", bytes)
      BY <2>1, <2>3 DEF Settle
    <3> HIDE DEF bytes
    <3>2. QED BY <1>2, <1>3, <2>2, <3>1, SettlingKeeps
  <2>4. CASE ~m.error
    <3>1. Settle(c, "resolved", bytes)
      BY <2>1, <2>4 DEF Settle
    <3>2. Answers(q)
      BY <1>0, <1>1, <2>1, <2>4 DEF Answers
    <3>3. Streams(c) => reported[c] = Chunks
      BY <1>1, <3>2 DEF IInv, CallInv, Counted
    <3> HIDE DEF bytes
    <3>4. QED BY <1>2, <1>3, <2>2, <3>1, <3>3, SettlingKeeps
  <2>5. QED BY <2>3, <2>4
<1>6. QED BY <1>4, <1>5

LEMMA PageLosesItsWorkerKeeps ==
  ASSUME IInv, NEW c \in Calls, PageHearsDeath(c) \/ ConstructionFails(c)
  PROVE  IInv'
<1>1. FallBack(c) /\ UNCHANGED aborted
  BY DEF PageHearsDeath, ConstructionFails
<1>2. promise[c] = "none" \/ site[c] = "worker"
  BY DEF PageHearsDeath, ConstructionFails, MayStart, IInv, CallInv, Placed
<1>3. QED BY <1>1, <1>2, FallBackKeeps

LEMMA AbortKeeps ==
  ASSUME IInv, NEW c \in Calls, Abort(c)
  PROVE  IInv'
<1>1. aborted' = [aborted EXCEPT ![c] = TRUE] /\ UNCHANGED <<workerSupported, at, output, reported>>
  BY DEF Abort, Put
<1>2. aborted' \in [Calls -> BOOLEAN] /\ \A d \in Calls \ {c} : aborted'[d] = aborted[d]
  BY <1>1 DEF IInv, TypeOK
<1>3. CASE site[c] = "worker"
  <2>1. /\ Settle(c, "aborted", <<>>) /\ <<>> \in Seq(Nat)
        /\ site' = [site EXCEPT ![c] = "none"] /\ thread' = [thread EXCEPT ![c] = "none"]
        /\ due' = [due EXCEPT ![c] = <<>>] /\ toPage' = [toPage EXCEPT ![c] = <<>>]
        /\ toWorker' = [toWorker EXCEPT ![c] = <<>>] /\ UNCHANGED <<sent, lastReported>>
    BY <1>3 DEF Abort, Cleanup, Put
  <2>2. QED BY <1>1, <1>2, <2>1, SettlingKeeps
<1>4. CASE site[c] # "worker"
  <2>1. UNCHANGED <<promise, value, site, thread, due, sent, lastReported, toPage, toWorker>>
    BY <1>4 DEF Abort
  <2>2. TypeOK'
    BY <1>1, <1>2, <2>1 DEF IInv, TypeOK
  <2>3. \A d \in Calls \ {c} : Same(d)
    BY <1>1, <1>2, <2>1 DEF Same
  <2>4. Placed(c)'
    BY <1>1, <1>4, <2>1 DEF IInv, CallInv, Placed, SafeOnMain
  <2>5. Ordered(c)' /\ Running(c)'
    BY <1>1, <2>1 DEF IInv, CallInv, Ordered, Running, Streams, InOrder, Kind
  <2>6. Complete(c)' /\ Counted(c)'
    BY <1>1, <2>1 DEF IInv, CallInv, Complete, Counted, Streams, Kind, Answers, Carried, Handed, Upto, Figure
  <2>7. QED BY <2>2, <2>3, <2>4, <2>5, <2>6, Lifted DEF CallInv
<1>5. QED BY <1>3, <1>4
-----------------------------------------------------------------------------
(* The page, on its own. *)

LEMMA AloneOnThePage ==
  ASSUME IInv, NEW c \in Calls, OnMain(c)
  PROVE  /\ NoWorker(c) /\ promise[c] = "open" /\ site[c] = "main" /\ SafeOnMain(c)
         /\ Streams(c) => output[c] = Upto(c, Cut[c][at[c]])
BY DEF IInv, CallInv, Placed, Complete, NoWorker, OnMain, IsOpen

\* A settled call leaves the page's thread.
LEMMA MainEndsKeeps ==
  ASSUME IInv, NEW c \in Calls, MainIsAborted(c) \/ MainThrows(c) \/ MainComputesWhole(c)
  PROVE  IInv'
<1>1. OnMain(c)
  BY DEF MainIsAborted, MainThrows, MainComputesWhole
<1>2. PICK outcome \in {"resolved", "toolError", "failed", "aborted"} :
        /\ promise' = [promise EXCEPT ![c] = outcome]
        /\ outcome = "resolved" => ~Streams(c)
        /\ value' = value \/ value' = [value EXCEPT ![c] = Whole[c]]
  BY DEF MainIsAborted, MainThrows, MainComputesWhole, Settle, Put
<1>3. /\ site' = [site EXCEPT ![c] = "none"]
      /\ UNCHANGED <<workerSupported, aborted, thread, due, sent, toPage, toWorker, at, lastReported, output, reported>>
  BY DEF MainIsAborted, MainThrows, MainComputesWhole, MainEnds, Put
<1>4. Whole[c] \in Seq(Nat)
  BY FileIsRead
<1>5. TypeOK'
  BY <1>2, <1>3, <1>4 DEF IInv, TypeOK
<1>6. \A d \in Calls \ {c} : Same(d)
  BY <1>2, <1>3 DEF IInv, TypeOK, Same
<1>7. NoWorker(c)'
  BY <1>1, <1>3, AloneOnThePage DEF NoWorker
<1>8. site'[c] = "none" /\ promise'[c] = outcome
  BY <1>2, <1>3 DEF IInv, TypeOK
<1>9. QED BY <1>2, <1>5, <1>6, <1>7, <1>8, Idle, Lifted DEF Streams

LEMMA MainReadsKeeps ==
  ASSUME IInv, NEW c \in Calls, MainReads(c)
  PROVE  IInv'
<1> DEFINE a == at[c] + 1
<1>0. /\ OnMain(c) /\ Streams(c) /\ at[c] < Chunks /\ at[c] \in 0..Chunks /\ output[c] \in Seq(Nat)
  BY AtWork DEF MainReads
<1>1. a \in 0..Chunks /\ a \in 1..(Chunks + 1) /\ a - 1 = at[c]
  BY <1>0, FileIsRead
<1>2. Output(c, a) \in Seq(Nat) /\ output[c] \o Output(c, a) = Upto(c, Cut[c][a])
  BY <1>0, <1>1, AloneOnThePage, Cutting
<1>3. output[c] \o Output(c, a) \in Seq(Nat)
  BY <1>0, <1>2, ConcatProperties
<1>4. /\ at' = [at EXCEPT ![c] = a] /\ output' = [output EXCEPT ![c] = output[c] \o Output(c, a)]
      /\ reported' = reported \/ reported' = [reported EXCEPT ![c] = a]
      /\ lastReported' = lastReported \/ lastReported' = [lastReported EXCEPT ![c] = a]
      /\ UNCHANGED <<workerSupported, aborted, thread, due, sent, toPage, toWorker, promise, value, site>>
  BY DEF MainReads, MainEnds, Put
<1> HIDE DEF a
<1>5. TypeOK'
  <2>1. at' \in [Calls -> 0..Chunks] /\ output' \in [Calls -> Seq(Nat)]
    BY <1>1, <1>3, <1>4 DEF IInv, TypeOK
  <2>2. reported' \in [Calls -> 0..Chunks]
    BY <1>1, <1>4 DEF IInv, TypeOK
  <2>3. lastReported' \in [Calls -> 0..Chunks]
    BY <1>1, <1>4 DEF IInv, TypeOK
  <2>4. QED BY <1>4, <2>1, <2>2, <2>3 DEF IInv, TypeOK
<1>6. \A d \in Calls \ {c} : Same(d)
  BY <1>4 DEF IInv, TypeOK, Same
<1>7. NoWorker(c)' /\ site'[c] = "main" /\ promise'[c] = "open" /\ SafeOnMain(c)
  BY <1>0, <1>4, AloneOnThePage DEF NoWorker
<1>8. output'[c] = Upto(c, Cut[c][at'[c]])
  BY <1>2, <1>4 DEF IInv, TypeOK
<1>9. QED BY <1>5, <1>6, <1>7, <1>8, OnThePage, Lifted

LEMMA MainFinishesKeeps ==
  ASSUME IInv, NEW c \in Calls, MainFinishes(c)
  PROVE  IInv'
<1> DEFINE last == output[c] \o Output(c, Chunks + 1)
<1>0. OnMain(c) /\ Streams(c) /\ at[c] = Chunks /\ output[c] \in Seq(Nat)
  BY AtWork DEF MainFinishes
<1>1. Chunks + 1 \in 1..(Chunks + 1) /\ Chunks \in 0..Chunks
  BY FileIsRead
<1>2. last \in Seq(Nat)
  BY <1>0, <1>1, Cutting, ConcatProperties
<1>3. /\ site' = [site EXCEPT ![c] = "none"] /\ reported' = [reported EXCEPT ![c] = Chunks]
      /\ UNCHANGED <<workerSupported, aborted, thread, due, sent, toPage, toWorker, at, lastReported>>
  BY DEF MainFinishes, MainEnds, Put
<1>4. \/ /\ promise' = [promise EXCEPT ![c] = "toolError"] /\ UNCHANGED <<value, output>>
      \/ /\ promise' = [promise EXCEPT ![c] = "resolved"] /\ output' = [output EXCEPT ![c] = last]
         /\ value' = [value EXCEPT ![c] = output'[c]]
  BY DEF MainFinishes, Settle, Put
<1> HIDE DEF last
<1>5. output' \in [Calls -> Seq(Nat)]
  BY <1>2, <1>4 DEF IInv, TypeOK
<1>6. value' \in [Calls -> Seq(Nat)]
  <2>1. output'[c] \in Seq(Nat) /\ value \in [Calls -> Seq(Nat)]
    BY <1>5 DEF IInv, TypeOK
  <2>2. value' = value \/ value' = [value EXCEPT ![c] = output'[c]]
    BY <1>4
  <2>3. QED BY <2>1, <2>2
<1>7. TypeOK'
  BY <1>1, <1>3, <1>4, <1>5, <1>6 DEF IInv, TypeOK
<1>8. \A d \in Calls \ {c} : Same(d)
  BY <1>3, <1>4 DEF IInv, TypeOK, Same
<1>9. /\ NoWorker(c)' /\ site'[c] = "none" /\ promise'[c] \in {"toolError", "resolved"}
      /\ reported'[c] = Chunks
  BY <1>0, <1>3, <1>4, AloneOnThePage DEF IInv, TypeOK, NoWorker
<1>10. QED BY <1>7, <1>8, <1>9, Idle, Lifted

-----------------------------------------------------------------------------

LEMMA Beginning == Init => IInv
<1> SUFFICES ASSUME Init PROVE IInv
  OBVIOUS
<1>0. 0 \in 0..Chunks /\ <<>> \in Seq(Nat) /\ <<>> \in Seq(Messages)
  BY FileIsRead
<1>1. TypeOK
  BY <1>0 DEF Init, TypeOK, Threads
<1>2. ASSUME NEW c \in Calls PROVE CallInv(c)
  <2>1. /\ promise[c] = "none" /\ site[c] = "none" /\ thread[c] = "none" /\ ~aborted[c] /\ at[c] = 0
        /\ due[c] = <<>> /\ toPage[c] = <<>> /\ toWorker[c] = <<>> /\ output[c] = <<>>
    BY DEF Init
  <2>2. Kind(toPage[c]) = "progress" /\ Len(toWorker[c]) <= 1 /\ InOrder(toPage[c])
    BY <2>1, EmptyQueue DEF Kind, InOrder
  <2>3. Placed(c) /\ Ordered(c) /\ Running(c) /\ Complete(c) /\ Counted(c)
    BY <2>1, <2>2 DEF Placed, Ordered, Running, Complete, Counted, Answers
  <2>4. QED BY <2>3 DEF CallInv
<1>3. QED BY <1>1, <1>2 DEF IInv

LEMMA Keeping == IInv /\ [Next]_vars => IInv'
<1> SUFFICES ASSUME IInv, [Next]_vars PROVE IInv'
  OBVIOUS
<1>1. CASE UNCHANGED vars
  <2>1. TypeOK'
    BY <1>1 DEF IInv, TypeOK, vars, run
  <2>2. \A d \in Calls : Same(d)
    BY <1>1 DEF Same, vars, run
  <2>3. QED BY <2>1, <2>2, SameKeeps DEF IInv
<1>2. ASSUME NEW c \in Calls,
             Start(c) \/ WorkerStep(c) \/ WorkerDies(c) \/ PageStep(c) \/ Abort(c) \/ MainStep(c)
      PROVE  IInv'
  <2>1. CASE Start(c)
    BY <2>1, RefusalKeeps, StartInWorkerKeeps, PageLosesItsWorkerKeeps, StartOnMainKeeps DEF Start
  <2>2. CASE WorkerStep(c)
    BY <2>2, WorkerLoadsKeeps, WorkerEndsKeeps, WorkerReadsKeeps, WorkerEmitsKeeps, WorkerHearsAckKeeps,
       WorkerEndsReadKeeps, WorkerFinishesKeeps DEF WorkerStep
  <2>3. CASE WorkerDies(c)
    BY <2>3, WorkerDiesKeeps
  <2>4. CASE PageStep(c)
    BY <2>4, PageHearsProgressKeeps, PageHearsOutputKeeps, PageHearsTheEndKeeps, PageLosesItsWorkerKeeps
       DEF PageStep
  <2>5. CASE Abort(c)
    BY <2>5, AbortKeeps
  <2>6. CASE MainStep(c)
    BY <2>6, MainEndsKeeps, MainReadsKeeps, MainFinishesKeeps DEF MainStep
  <2>7. QED BY <1>2, <2>1, <2>2, <2>3, <2>4, <2>5, <2>6
<1>3. QED BY <1>1, <1>2 DEF Next

LEMMA Invariance == Spec => []IInv
BY Beginning, Keeping, PTL DEF Spec

\* Every variable holds values of its kind, for any calls and files.
THEOREM TypeCorrect == Spec => []TypeOK
<1>1. IInv => TypeOK
  BY DEF IInv
<1>2. QED BY <1>1, Invariance, PTL

\* However fast the tool and slow the page, one piece of output is on its way at
\* a time; and the page's own thread is never given a file it must not hold.
THEOREM BoundedMemory == Spec => []MemoryIsBounded
<1>1. ASSUME IInv, NEW c \in Calls
      PROVE  InFlight(c) <= 1 /\ (site[c] = "main" => SafeOnMain(c))
  <2> DEFINE q == toPage[c]
  <2>1. /\ q \in Seq(Messages) /\ InOrder(q) /\ Len(q) \in Nat /\ Len(toWorker[c]) \in Nat
        /\ Len(toWorker[c]) <= 1 /\ (Kind(q) = "output" => toWorker[c] = <<>>)
        /\ (site[c] = "main" => SafeOnMain(c))
    BY <1>1, AtWork, LenProperties DEF IInv, CallInv, Ordered, Placed
  <2>2. \A i \in Underway(c) : i = Len(q) /\ i >= 1
    BY <2>1 DEF Underway, InOrder
  <2>3. CASE Kind(q) = "output"
    <3>1. Len(q) \in 1..Len(q) /\ q[Len(q)].type = "output"
      BY <2>1, <2>3, EmptyQueue DEF Kind
    <3>2. Underway(c) = {Len(q)}
      BY <2>2, <3>1 DEF Underway
    <3>3. Cardinality(Underway(c)) = 1
      BY <3>2, FS_Singleton
    <3>4. Len(toWorker[c]) = 0
      BY <2>1, <2>3, EmptySeq
    <3>5. QED BY <2>1, <3>3, <3>4 DEF InFlight
  <2>4. CASE Kind(q) # "output"
    <3>1. Underway(c) = {}
      <4>1. ASSUME NEW i \in Underway(c) PROVE FALSE
        <5>1. i = Len(q) /\ i >= 1 /\ q[i].type = "output"
          BY <2>2 DEF Underway
        <5>2. q # <<>>
          BY <2>1, <5>1, EmptyQueue
        <5>3. QED BY <2>4, <5>1, <5>2 DEF Kind
      <4>2. QED BY <4>1
    <3>2. Cardinality(Underway(c)) = 0
      BY <3>1, FS_EmptySet
    <3>3. QED BY <2>1, <3>2 DEF InFlight
  <2>5. QED BY <2>3, <2>4
<1>2. IInv => MemoryIsBounded
  BY <1>1 DEF MemoryIsBounded
<1>3. QED BY <1>2, Invariance, PTL

\* A streamed call that resolves has told its caller that the file is all read.
THEOREM FullProgress == Spec => []ProgressEndsFull
<1>1. IInv => ProgressEndsFull
  BY DEF IInv, CallInv, Counted, ProgressEndsFull
<1>2. QED BY <1>1, Invariance, PTL
-----------------------------------------------------------------------------
(* A settled call is over. *)

Over(d) ==
  /\ promise[d] \notin {"none", "open"} => reported'[d] = reported[d] /\ thread'[d] = "none"
  /\ aborted[d] /\ Streams(d) => at'[d] \in {0, at[d]}

\* What a step of one call leaves to the others.
Apart(d) ==
  reported'[d] = reported[d] /\ thread'[d] = thread[d] /\ at'[d] = at[d]

LEMMA ApartIsOver ==
  ASSUME IInv, NEW d \in Calls, Apart(d)
  PROVE  Over(d)
BY DEF IInv, CallInv, Placed, Apart, Over

LEMMA StartIsOver ==
  ASSUME IInv, NEW c \in Calls, Start(c) \/ PageHearsDeath(c)
  PROVE  \A d \in Calls : Over(d)
<1>1. promise[c] \in {"none", "open"}
  BY DEF IInv, CallInv, Placed, Start, Refuse, StartInWorker, StartIsCutShort, ConstructionFails, StartOnMain,
         IsTooLargeForMain, MayStart, PageHearsDeath
<1>2. /\ thread' = thread \/ \E t \in Threads : thread' = [thread EXCEPT ![c] = t]
      /\ at' = at \/ at' = [at EXCEPT ![c] = 0]
      /\ reported' = reported \/ reported' = [reported EXCEPT ![c] = 0]
  BY DEF Start, Refuse, StartInWorker, StartIsCutShort, ConstructionFails, StartOnMain, IsTooLargeForMain,
         PageHearsDeath, FallBack, BeginOnMain, Put, run, Threads
<1>3. \A d \in Calls \ {c} : Apart(d)
  BY <1>2 DEF IInv, TypeOK, Apart
<1>4. Over(c)
  BY <1>1, <1>2 DEF IInv, TypeOK, Over
<1>5. QED BY <1>3, <1>4, ApartIsOver

LEMMA WorkerIsOver ==
  ASSUME IInv, NEW c \in Calls, WorkerStep(c) \/ WorkerDies(c)
  PROVE  \A d \in Calls : Over(d)
<1> USE DEF WorkerStep, WorkerDies, WorkerLoads, WorkerThrows, WorkerComputesWhole, WorkerReads, WorkerEmits,
            WorkerHearsAck, WorkerEndsRead, WorkerFinishes, WorkerIsDone
<1>1. thread[c] # "none"
  OBVIOUS
<1>2. promise[c] = "open" /\ ~aborted[c]
  BY <1>1 DEF IInv, CallInv, Placed
<1>3. /\ \E t \in Threads : thread' = [thread EXCEPT ![c] = t]
      /\ at' = at \/ at' = [at EXCEPT ![c] = at[c] + 1]
      /\ reported' = reported
  BY DEF OnlyRun, Posts, Put, Threads
<1>4. \A d \in Calls \ {c} : Apart(d)
  BY <1>3 DEF IInv, TypeOK, Apart
<1>5. Over(c)
  BY <1>2 DEF Over
<1>6. QED BY <1>4, <1>5, ApartIsOver

LEMMA PageIsOver ==
  ASSUME IInv, NEW c \in Calls,
         PageHearsProgress(c) \/ PageHearsOutput(c) \/ PageHearsDone(c) \/ PageHearsErrorMessage(c) \/ Abort(c)
  PROVE  \A d \in Calls : Over(d)
<1> USE DEF PageHearsProgress, PageHearsOutput, PageHearsDone, PageHearsErrorMessage, Abort
<1>1. CASE Abort(c)
  <2>1. /\ thread' = thread \/ thread' = [thread EXCEPT ![c] = "none"]
        /\ at' = at /\ reported' = reported
    BY <1>1 DEF Cleanup, Put
  <2>2. \A d \in Calls : promise[d] \notin {"none", "open"} => thread[d] = "none"
    BY DEF IInv, CallInv, Placed
  <2>3. QED BY <2>1, <2>2 DEF IInv, TypeOK, Over
<1>2. CASE ~Abort(c)
  <2>1. toPage[c] # <<>>
    BY <1>2
  <2>2. promise[c] = "open"
    BY <2>1, AtThePage
  <2>3. /\ thread' = thread \/ thread' = [thread EXCEPT ![c] = "none"]
        /\ at' = at /\ (reported' = reported \/ \E n \in Nat : reported' = [reported EXCEPT ![c] = n])
    <3>1. CASE PageHearsProgress(c)
      <4>1. Next1(c).figure \in Nat
        BY <2>1, <3>1, AtThePage, MessageKinds, FileIsRead DEF Next1
      <4>2. QED BY <3>1, <4>1 DEF Put
    <3>2. CASE ~PageHearsProgress(c)
      BY <1>2, <3>2 DEF Cleanup, Put
    <3>3. QED BY <3>1, <3>2
  <2>4. \A d \in Calls \ {c} : Apart(d)
    BY <2>3 DEF IInv, TypeOK, Apart
  <2>5. Over(c)
    BY <2>2, <2>3 DEF Over
  <2>6. QED BY <2>4, <2>5, ApartIsOver
<1>3. QED BY <1>1, <1>2

LEMMA MainIsOver ==
  ASSUME IInv, NEW c \in Calls, MainStep(c)
  PROVE  \A d \in Calls : Over(d)
<1> USE DEF MainStep, MainIsAborted, MainThrows, MainReads, MainFinishes, MainComputesWhole
<1>1. promise[c] = "open"
  BY DEF OnMain, IsOpen
<1>2. /\ thread' = thread
      /\ at' = at \/ (~aborted[c] /\ at' = [at EXCEPT ![c] = at[c] + 1])
      /\ reported' = reported \/ \E n \in Nat : reported' = [reported EXCEPT ![c] = n]
  <2>1. at[c] + 1 \in Nat /\ Chunks \in Nat
    BY FileIsRead, AtWork
  <2>2. QED BY <2>1 DEF MainEnds, Put
<1>3. \A d \in Calls \ {c} : Apart(d)
  BY <1>2 DEF IInv, TypeOK, Apart, MainEnds
<1>4. Over(c)
  BY <1>1, <1>2 DEF Over
<1>5. QED BY <1>3, <1>4, ApartIsOver

\* A settled call hears of no more progress and leaves nothing running, and an
\* aborted one reads a streamed file no further.
THEOREM SettledStays == Spec => SettledIsOver
<1>1. ASSUME IInv, [Next]_vars
      PROVE  [\A c \in Calls : Over(c)]_vars
  <2>1. CASE UNCHANGED vars
    BY <2>1
  <2>2. ASSUME NEW c \in Calls,
               Start(c) \/ WorkerStep(c) \/ WorkerDies(c) \/ PageStep(c) \/ Abort(c) \/ MainStep(c)
        PROVE  \A d \in Calls : Over(d)
    BY <1>1, <2>2, StartIsOver, WorkerIsOver, PageIsOver, MainIsOver DEF PageStep
  <2>3. QED BY <1>1, <2>1, <2>2 DEF Next
<1>2. QED BY <1>1, Invariance, PTL DEF Spec, SettledIsOver, Over

-----------------------------------------------------------------------------
(* The promise to the callers. *)

LEMMA Failing ==
  ASSUME NEW c \in Calls, promise[c] \in {"none", "open"}, NEW f \in {"toolError", "failed", "aborted"},
         NEW bytes, Settle(c, f, bytes)
  PROVE  P!Fail(c)
BY DEF Settle, Put, P!Fail, P!Failures

Kept(c) == P!Open(c) \/ P!Fail(c) \/ P!Resolve(c) \/ UNCHANGED <<promise, value>>

LEMMA StartKeepsPromise ==
  ASSUME IInv, NEW c \in Calls, Start(c) \/ PageHearsDeath(c)
  PROVE  Kept(c)
<1>1. CASE Refuse(c) \/ StartIsCutShort(c) \/ IsTooLargeForMain(c)
  BY <1>1, Failing DEF Refuse, StartIsCutShort, IsTooLargeForMain, MayStart, Kept
<1>2. CASE StartInWorker(c) \/ StartOnMain(c)
  BY <1>2 DEF StartInWorker, StartOnMain, MayStart, Put, P!Open, Kept
<1>3. CASE PageHearsDeath(c) \/ ConstructionFails(c)
  <2>1. promise[c] \in {"none", "open"} /\ FallBack(c) /\ promise \in [Calls -> {"none", "open", "resolved", "toolError", "failed", "aborted"}]
    BY <1>3 DEF PageHearsDeath, ConstructionFails, MayStart, IInv, TypeOK, CallInv, Placed
  <2>2. CASE ~SafeOnMain(c)
    BY <2>1, <2>2, Failing DEF FallBack, Kept
  <2>3. CASE SafeOnMain(c)
    <3>1. promise' = [promise EXCEPT ![c] = "open"] /\ UNCHANGED value
      BY <2>1, <2>3 DEF FallBack, Put
    <3>2. promise[c] = "open" => promise' = promise
      BY <2>1, <3>1
    <3>3. QED BY <2>1, <3>1, <3>2 DEF P!Open, Kept
  <2>4. QED BY <2>2, <2>3
<1>4. QED BY <1>1, <1>2, <1>3 DEF Start

LEMMA WorkerKeepsPromise ==
  ASSUME NEW c \in Calls, WorkerStep(c) \/ WorkerDies(c)
  PROVE  Kept(c)
BY DEF WorkerStep, WorkerDies, WorkerLoads, WorkerThrows, WorkerComputesWhole, WorkerReads, WorkerEmits,
       WorkerHearsAck, WorkerEndsRead, WorkerFinishes, WorkerIsDone, OnlyRun, Kept

LEMMA PageKeepsPromise ==
  ASSUME IInv, NEW c \in Calls,
         PageHearsProgress(c) \/ PageHearsOutput(c) \/ PageHearsDone(c) \/ PageHearsErrorMessage(c) \/ Abort(c)
  PROVE  Kept(c)
<1>1. CASE PageHearsProgress(c) \/ PageHearsOutput(c)
  BY <1>1 DEF PageHearsProgress, PageHearsOutput, Kept
<1>2. CASE PageHearsErrorMessage(c)
  BY <1>2, AtThePage, Failing DEF PageHearsErrorMessage, Kept
<1>3. CASE Abort(c)
  <2>1. site[c] = "worker" => promise[c] = "open"
    BY DEF IInv, CallInv, Placed
  <2>2. QED BY <1>3, <2>1, Failing DEF Abort, Kept
<1>4. CASE PageHearsDone(c)
  <2> DEFINE q == toPage[c]
  <2> DEFINE m == Head(q)
  <2>1. /\ q # <<>> /\ q \in Seq(Messages) /\ InOrder(q) /\ m.type = "done" /\ promise[c] = "open"
    BY <1>4, AtThePage DEF PageHearsDone, Next1
  <2>2. Len(q) = 1 /\ q[1] = m /\ Kind(q) = "done"
    BY <2>1, LastTaken
  <2>3. CASE m.error
    <3>1. Settle(c, "toolError", output[c] \o m.bytes)
      BY <1>4, <2>3 DEF PageHearsDone, Next1, Settle
    <3>2. QED BY <2>1, <3>1, Failing DEF Kept
  <2>4. CASE ~m.error
    <3>1. Answers(q) /\ q[Len(q)] = m
      BY <2>1, <2>2, <2>4 DEF Answers
    <3>2. output[c] \o m.bytes = Whole[c]
      BY <3>1 DEF IInv, CallInv, Complete
    <3>3. promise' = [promise EXCEPT ![c] = "resolved"] /\ value' = [value EXCEPT ![c] = output[c] \o m.bytes]
      BY <1>4, <2>4 DEF PageHearsDone, Next1, Settle, Put
    <3>4. QED BY <2>1, <3>2, <3>3 DEF P!Resolve, Kept
  <2>5. QED BY <2>3, <2>4
<1>5. QED BY <1>1, <1>2, <1>3, <1>4

LEMMA MainKeepsPromise ==
  ASSUME IInv, NEW c \in Calls, MainStep(c)
  PROVE  Kept(c)
<1>1. promise[c] = "open"
  BY DEF MainStep, MainIsAborted, MainThrows, MainReads, MainFinishes, MainComputesWhole, OnMain, IsOpen
<1>2. CASE MainIsAborted(c) \/ MainThrows(c)
  BY <1>1, <1>2, Failing DEF MainIsAborted, MainThrows, Kept
<1>3. CASE MainReads(c)
  BY <1>3 DEF MainReads, Kept
<1>4. CASE MainFinishes(c)
  <2>1. CASE Settle(c, "toolError", <<>>)
    BY <1>1, <2>1, Failing DEF Kept
  <2>2. CASE ~Settle(c, "toolError", <<>>)
    <3>1. /\ promise' = [promise EXCEPT ![c] = "resolved"] /\ value' = [value EXCEPT ![c] = output'[c]]
          /\ output' = [output EXCEPT ![c] = output[c] \o Output(c, Chunks + 1)]
      BY <1>4, <2>2 DEF MainFinishes, Settle, Put
    <3>2. output[c] = Upto(c, Cut[c][Chunks]) /\ c \in DOMAIN output
      BY <1>4, AloneOnThePage DEF MainFinishes, IInv, TypeOK
    <3>3. Chunks + 1 \in 1..(Chunks + 1) /\ (Chunks + 1) - 1 = Chunks
      BY FileIsRead
    <3>4. output[c] \o Output(c, Chunks + 1) = Whole[c]
      BY <3>2, <3>3, Cutting
    <3>5. QED BY <1>1, <3>1, <3>2, <3>4 DEF P!Resolve, Kept
  <2>3. QED BY <2>1, <2>2
<1>5. CASE MainComputesWhole(c)
  BY <1>1, <1>5 DEF MainComputesWhole, Settle, Put, P!Resolve, Kept
<1>6. QED BY <1>2, <1>3, <1>4, <1>5 DEF MainStep

\* Whatever the worker does, dies after or leaves half done, a call that resolves
\* carries the whole output once and in order, and is answered once.
THEOREM PromiseKept == Spec => KeepsPromise
<1>1. Init => P!Init
  BY DEF Init, P!Init
<1>2. ASSUME IInv, [Next]_vars
      PROVE  [P!Next]_(P!vars)
  <2>1. CASE UNCHANGED vars
    BY <2>1 DEF vars, P!vars
  <2>2. ASSUME NEW c \in Calls,
               Start(c) \/ WorkerStep(c) \/ WorkerDies(c) \/ PageStep(c) \/ Abort(c) \/ MainStep(c)
        PROVE  [P!Next]_(P!vars)
    <3>1. Kept(c)
      BY <1>2, <2>2, StartKeepsPromise, WorkerKeepsPromise, PageKeepsPromise, MainKeepsPromise DEF PageStep
    <3>2. QED BY <3>1 DEF Kept, P!Next, P!vars
  <2>3. QED BY <1>2, <2>1, <2>2 DEF Next
<1>3. QED BY <1>1, <1>2, Invariance, PTL DEF Spec, KeepsPromise, P!Spec
=============================================================================
