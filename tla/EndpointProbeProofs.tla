------------------------ MODULE EndpointProbeProofs ------------------------
(***************************************************************************)
(* Proofs about EndpointProbe, for all hosts, any timeout and any number of *)
(* requests and of windows.                                                *)
(*                                                                         *)
(* The argument is a count: a request is held by one socket, one lookup or  *)
(* one answer, and none is numbered higher than the last.  A settled        *)
(* promise then moves its request and copies nothing, so what is out        *)
(* changes with a press and with a continuation only, which are the two     *)
(* places where a flag of the modal changes.                               *)
(***************************************************************************)
EXTENDS EndpointProbe, TLAPS

Places  == {"certspotter", "crt.sh", "responder"}
Sockets == [ask : Asks, idle : 0 .. Timeout, moved : 0 .. MaxActivity, settled : {FALSE}]
Lookups == [ask : Asks, at : Places]
Answers == [ask : Asks, outcome : {"some", "none", "failed"}, from : Places \cup {"server", "ipc"}]
Modals  == [probe : 0 .. MaxRequest, loading : [Kinds -> BOOLEAN], error : [Kinds -> BOOLEAN],
            result : Shown \cup {None}, ocsp : Shown \cup {None}, ct : Shown \cup {None}]

FieldsOK ==
  /\ host \in Hosts \cup {EmptyHost} /\ window \in 1 .. MaxWindow /\ last \in 0 .. MaxRequest
  /\ modal \in Modals /\ modal.probe <= last
  /\ sockets \subseteq Sockets /\ lookups \subseteq Lookups /\ answers \subseteq Answers

\* The parser of the arguments refuses and never answers.
AnswersAreShowable == \A a \in answers : a.outcome # "failed" => a.from # "ipc"

\* A request is held in one place, once.
HeldOnce ==
  /\ \A s, t \in sockets : s.ask.id = t.ask.id => s = t
  /\ \A l, m \in lookups : l.ask.id = m.ask.id => l = m
  /\ \A a, b \in answers : a.ask.id = b.ask.id => a = b
  /\ \A s \in sockets, l \in lookups : s.ask.id # l.ask.id
  /\ \A s \in sockets, a \in answers : s.ask.id # a.ask.id
  /\ \A l \in lookups, a \in answers : l.ask.id # a.ask.id

Numbered == \A r \in InFlight : r.id <= last /\ r.window <= window /\ r.probe >= 1

\* A probe whose answer this window waits for is the one last pressed.
AwaitedIsLast == \A r \in InFlight : r.kind = "probe" /\ r.window = window => r.probe = modal.probe

\* The inductive invariant.
IInv == /\ FieldsOK /\ AnswersAreShowable /\ HeldOnce /\ Numbered /\ AwaitedIsLast
        /\ FlagsAreReal /\ ResultIsOfLastProbe

-----------------------------------------------------------------------------
(* What is out. *)

Out == {s.ask : s \in sockets} \cup {l.ask : l \in lookups} \cup {a.ask : a \in answers}

\* No socket that is settled is kept.
LEMMA InFlightIsOut == sockets \subseteq Sockets => InFlight = Out
<1> SUFFICES ASSUME sockets \subseteq Sockets PROVE InFlight = Out
  OBVIOUS
<1>1. {x \in sockets : ~x.settled} = sockets
  BY DEF Sockets
<1> QED BY <1>1 DEF InFlight, Out

LEMMA InFlightIsOutNext == sockets' \subseteq Sockets => InFlight' = Out'
<1>1. (sockets \subseteq Sockets => InFlight = Out)'
  BY InFlightIsOut, PTL
<1> QED BY <1>1 DEF Sockets, Asks

LEMMA OutAreAsks == FieldsOK => InFlight \subseteq Asks
<1> SUFFICES ASSUME FieldsOK PROVE Out \subseteq Asks
  BY InFlightIsOut DEF FieldsOK
<1> QED BY DEF FieldsOK, Out, Sockets, Lookups, Answers

\* Where the requests are held, apart from the modal that made them.
Holding == /\ sockets \subseteq Sockets /\ lookups \subseteq Lookups /\ answers \subseteq Answers
           /\ AnswersAreShowable /\ HeldOnce

\* What the modal promises of what is out.
ModalOK == /\ host \in Hosts \cup {EmptyHost} /\ window \in 1 .. MaxWindow /\ last \in 0 .. MaxRequest
           /\ modal \in Modals /\ modal.probe <= last
           /\ Numbered /\ AwaitedIsLast /\ FlagsAreReal /\ ResultIsOfLastProbe

LEMMA IInvSplit == IInv <=> Holding /\ ModalOK
BY DEF IInv, Holding, ModalOK, FieldsOK

\* A step that moves requests and makes none.
LEMMA ModalKept ==
  ASSUME ModalOK, UNCHANGED <<modal, window, last>>, host' \in Hosts \cup {EmptyHost}, InFlight' = InFlight
  PROVE  ModalOK'
BY DEF ModalOK, Numbered, AwaitedIsLast, FlagsAreReal, ResultIsOfLastProbe

-----------------------------------------------------------------------------
(* A press. *)

\* A request with the next number is held once, wherever it goes.
LEMMA Submitted ==
  ASSUME IInv, NEW ask \in Asks, ask.id = last + 1, Submit(ask)
  PROVE  Holding' /\ InFlight' = InFlight \cup {ask}
<1> USE DEF IInv, FieldsOK, AnswersAreShowable, HeldOnce, Holding, Out
<1>n. \A r \in Out : r.id # ask.id
  <2>1. TAKE r \in Out
  <2>2. r \in InFlight /\ r \in Asks
    BY InFlightIsOut, OutAreAsks
  <2> QED BY <2>2, PBounds DEF Numbered, Asks
<1>1. CASE ask.host \in Invalid /\ ask.kind # "ocsp"
  <2> DEFINE a == Settled(ask, "failed", "ipc")
  <2>1. a \in Answers /\ a.ask = ask /\ a.outcome = "failed"
    BY DEF Settled, Answers
  <2>2. answers' = answers \cup {a} /\ UNCHANGED <<sockets, lookups>>
    BY <1>1 DEF Submit
  <2> HIDE DEF a
  <2>3. Holding'
    BY <2>1, <2>2, <1>n
  <2> QED BY <2>1, <2>2, <2>3, InFlightIsOut, InFlightIsOutNext
<1>2. CASE ~(ask.host \in Invalid /\ ask.kind # "ocsp") /\ ask.kind = "probe"
  <2> DEFINE s == [ask |-> ask, idle |-> 0, moved |-> 0, settled |-> FALSE]
  <2>1. s \in Sockets /\ s.ask = ask
    BY PBounds DEF Sockets
  <2>2. sockets' = sockets \cup {s} /\ UNCHANGED <<lookups, answers>>
    BY <1>2 DEF Submit
  <2> HIDE DEF s
  <2>3. Holding'
    BY <2>1, <2>2, <1>n
  <2> QED BY <2>1, <2>2, <2>3, InFlightIsOut, InFlightIsOutNext
<1>3. CASE ~(ask.host \in Invalid /\ ask.kind # "ocsp") /\ ask.kind # "probe"
  <2>1. PICK l \in Lookups : l.ask = ask /\ lookups' = lookups \cup {l} /\ UNCHANGED <<sockets, answers>>
    <3>1. CASE ask.kind = "ct"
      BY <1>3, <3>1 DEF Submit, Lookups, Places
    <3>2. CASE ask.kind # "ct"
      BY <1>3, <3>2 DEF Submit, Lookups, Places
    <3> QED BY <3>1, <3>2
  <2>3. Holding'
    BY <2>1, <1>n
  <2> QED BY <2>1, <2>3, InFlightIsOut, InFlightIsOutNext
<1> QED BY <1>1, <1>2, <1>3

\* Its button is disabled with it: it was not before, so no request of its
\* kind was out for this window.
LEMMA Pressed ==
  ASSUME ModalOK, InFlight \subseteq Asks,
         NEW k \in Kinds, ~modal.loading[k], NEW ask \in Asks,
         last < MaxRequest, last' = last + 1, UNCHANGED <<host, window>>, InFlight' = InFlight \cup {ask},
         ask.id = last', ask.kind = k, ask.window = window, ask.probe = modal'.probe, ask.probe >= 1,
         modal' \in Modals, modal'.probe <= last', k = "probe" \/ modal'.probe = modal.probe,
         modal'.loading = [modal.loading EXCEPT ![k] = TRUE], ResultIsOfLastProbe'
  PROVE  ModalOK'
<1> USE PBounds DEF ModalOK
<1>1. Numbered'
  BY DEF Numbered, Asks
<1>2. \A r \in InFlight : ~(r.kind = k /\ r.window = window)
  BY DEF FlagsAreReal
<1>3. AwaitedIsLast'
  BY <1>2 DEF AwaitedIsLast
<1>4. FlagsAreReal'
  <2> SUFFICES ASSUME NEW j \in Kinds
               PROVE  LET mine == {r \in InFlight' : r.kind = j /\ r.window = window'}
                      IN modal'.loading[j] = (mine # {}) /\ (\A r, s \in mine : r = s)
    BY DEF FlagsAreReal, Kinds
  <2>2. modal.loading \in [Kinds -> BOOLEAN]
    BY DEF Modals
  <2>3. CASE j = k
    BY <1>2, <2>2, <2>3
  <2>4. CASE j # k
    <3>1. modal'.loading[j] = modal.loading[j]
      BY <2>2, <2>4
    <3>2. {r \in InFlight' : r.kind = j /\ r.window = window'} = {r \in InFlight : r.kind = j /\ r.window = window}
      BY <2>4
    <3> DEFINE mine == {r \in InFlight : r.kind = j /\ r.window = window}
    <3>3. modal.loading[j] = (mine # {}) /\ \A r, s \in mine : r = s
      BY DEF FlagsAreReal
    <3> HIDE DEF mine
    <3> QED BY <3>1, <3>2, <3>3, Zenon DEF mine
  <2> QED BY <2>3, <2>4
<1> QED BY <1>1, <1>3, <1>4

LEMMA FitsLast == FieldsOK /\ last < MaxRequest => last + 1 \in 1 .. MaxRequest /\ last + 1 \in Nat
BY PBounds DEF FieldsOK

LEMMA PressProbeStep == IInv /\ PressProbe => IInv'
<1> SUFFICES ASSUME IInv, PressProbe PROVE IInv'
  OBVIOUS
<1> DEFINE ask == Asked("probe")
<1>1. ask \in Asks /\ ask.id = last + 1 /\ ask.kind = "probe" /\ ask.window = window /\ ask.probe = last + 1
  BY FitsLast DEF PressProbe, Asked, Asks, IInv, FieldsOK, Kinds
<1>2. Holding' /\ InFlight' = InFlight \cup {ask}
  BY <1>1, Submitted DEF PressProbe
<1>3. modal.loading \in [Kinds -> BOOLEAN]
  BY DEF IInv, FieldsOK, Modals
<1>4. modal' = [probe |-> last + 1, loading |-> [modal.loading EXCEPT !["probe"] = TRUE],
                error |-> [j \in Kinds |-> FALSE], result |-> None, ocsp |-> None, ct |-> None]
  BY DEF PressProbe, NewModal
<1>5. modal' \in Modals
  <2>1. [modal.loading EXCEPT !["probe"] = TRUE] \in [Kinds -> BOOLEAN] /\ [j \in Kinds |-> FALSE] \in [Kinds -> BOOLEAN]
    BY <1>3
  <2>2. last + 1 \in 0 .. MaxRequest
    BY FitsLast, PBounds DEF PressProbe, IInv
  <2> QED BY <1>4, <2>1, <2>2 DEF Modals
<1>6. ResultIsOfLastProbe'
  BY <1>4 DEF ResultIsOfLastProbe, Kinds
<1>7. modal'.probe = last + 1 /\ modal'.loading = [modal.loading EXCEPT !["probe"] = TRUE]
  BY <1>4
<1> HIDE DEF ask
<1>8. ModalOK /\ InFlight \subseteq Asks /\ "probe" \in Kinds /\ last + 1 \in 1 .. MaxRequest
  BY IInvSplit, OutAreAsks, FitsLast DEF IInv, Kinds, PressProbe
<1>9. ModalOK'
  BY <1>1, <1>2, <1>5, <1>6, <1>7, <1>8, Pressed DEF PressProbe
<1> QED BY <1>2, <1>9, IInvSplit DEF IInv, Holding, ModalOK, FieldsOK

\* The two lookups are offered beside a result only, which is that of a probe.
LEMMA PressLookup ==
  ASSUME IInv, NEW k \in {"ct", "ocsp"}, modal.result # None, ~modal.loading[k], last < MaxRequest,
         last' = last + 1, modal' = [modal EXCEPT !.loading[k] = TRUE, !.error[k] = FALSE],
         Submit(Asked(k)), UNCHANGED <<host, window>>
  PROVE  IInv'
<1> DEFINE ask == Asked(k)
<1>1. modal \in Modals /\ modal.result \in Shown /\ modal.result.probe = modal.probe
  BY DEF IInv, FieldsOK, Modals, ResultIsOfLastProbe
<1>2. modal.probe \in 1 .. MaxRequest
  BY <1>1 DEF Shown
<1>3. ask \in Asks /\ ask.id = last + 1 /\ ask.kind = k /\ ask.window = window /\ ask.probe = modal.probe
  BY <1>2, FitsLast DEF Asked, Asks, IInv, FieldsOK, Kinds
<1>4. Holding' /\ InFlight' = InFlight \cup {ask}
  BY <1>3, Submitted
<1>5. /\ modal'.loading = [modal.loading EXCEPT ![k] = TRUE] /\ modal'.error = [modal.error EXCEPT ![k] = FALSE]
      /\ modal'.probe = modal.probe /\ modal'.result = modal.result
      /\ modal' \in Modals
  BY <1>1 DEF Modals, Kinds
<1>6. ResultIsOfLastProbe'
  BY <1>1, <1>5 DEF IInv, ResultIsOfLastProbe, Kinds, Modals
<1> HIDE DEF ask
<1>7. ModalOK /\ InFlight \subseteq Asks /\ k \in Kinds /\ k # "probe" /\ last + 1 \in 1 .. MaxRequest
  BY IInvSplit, OutAreAsks, FitsLast DEF IInv, Kinds
<1>8. modal.probe <= last + 1 /\ modal.probe >= 1
  BY <1>2, <1>7 DEF ModalOK
<1>9. ModalOK'
  BY <1>2, <1>3, <1>4, <1>5, <1>6, <1>7, <1>8, Pressed
<1> QED BY <1>4, <1>9, IInvSplit DEF IInv, Holding, ModalOK, FieldsOK

-----------------------------------------------------------------------------
(* A promise is settled, and heard. *)

\* What a step that leaves the modal alone and what is out as it was has to
\* show of the places it moves requests between.
LEMMA Moved ==
  ASSUME IInv, Holding', Out' = Out, UNCHANGED <<host, modal, window, last>>
  PROVE  IInv'
<1>1. InFlight' = InFlight
  BY InFlightIsOut, InFlightIsOutNext DEF IInv, FieldsOK, Holding
<1>2. ModalOK'
  BY <1>1, IInvSplit, ModalKept DEF ModalOK
<1> QED BY <1>2, IInvSplit DEF IInv, Holding, ModalOK, FieldsOK

LEMMA SettleSocketStep ==
  ASSUME IInv, NEW s \in sockets, NEW o \in {"some", "failed"}, SettleSocket(s, o)
  PROVE  IInv'
<1> USE DEF IInv, FieldsOK, HeldOnce
<1> DEFINE a == Settled(s.ask, o, "server")
<1>1. a \in Answers /\ a.ask = s.ask /\ a.from # "ipc"
  BY DEF Settled, Answers, Sockets
<1>2. sockets' = sockets \ {s} /\ answers' = answers \cup {a} /\ lookups' = lookups
  BY DEF SettleSocket
<1> HIDE DEF a
<1>3. HeldOnce'
  BY <1>1, <1>2
<1>4. Holding'
  BY <1>1, <1>2, <1>3 DEF Holding, AnswersAreShowable
<1>5. Out' = Out
  BY <1>1, <1>2 DEF Out
<1> QED BY <1>4, <1>5, Moved DEF SettleSocket

LEMMA SocketActivityStep ==
  ASSUME IInv, NEW s \in sockets, SocketActivity(s)
  PROVE  IInv'
<1> DEFINE t == [s EXCEPT !.idle = 0, !.moved = @ + 1]
<1>1. t \in Sockets /\ t.ask = s.ask
  <2>1. s \in Sockets /\ s.moved < MaxActivity
    BY DEF SocketActivity, IInv, FieldsOK
  <2>2. s.moved + 1 \in 0 .. MaxActivity /\ 0 \in 0 .. Timeout
    BY <2>1, PBounds DEF Sockets
  <2> QED BY <2>1, <2>2 DEF Sockets
<1> USE DEF IInv, FieldsOK, HeldOnce
<1>2. sockets' = (sockets \ {s}) \cup {t} /\ UNCHANGED <<lookups, answers>>
  BY DEF SocketActivity
<1> HIDE DEF t
<1>3. HeldOnce'
  BY <1>1, <1>2
<1>4. Holding'
  BY <1>1, <1>2, <1>3 DEF Holding, AnswersAreShowable
<1>5. Out' = Out
  BY <1>1, <1>2 DEF Out
<1> QED BY <1>4, <1>5, Moved DEF SocketActivity

LEMMA TickStep == IInv /\ Tick => IInv'
<1> SUFFICES ASSUME IInv, Tick PROVE IInv'
  OBVIOUS
<1> DEFINE Aged(s) == [s EXCEPT !.idle = IF s.settled THEN @ ELSE @ + 1]
<1>1. ASSUME NEW s \in sockets PROVE Aged(s) \in Sockets /\ Aged(s).ask = s.ask
  <2>1. s \in Sockets /\ ~s.settled
    BY DEF IInv, FieldsOK, Sockets
  <2>2. s.idle + 1 \in 0 .. Timeout
    BY <2>1, PBounds DEF Tick, Sockets
  <2>3. Aged(s) = [s EXCEPT !.idle = @ + 1]
    BY <2>1
  <2> QED BY <2>1, <2>2, <2>3 DEF Sockets
<1> USE DEF IInv, FieldsOK, HeldOnce
<1>2. sockets' = {Aged(s) : s \in sockets} /\ UNCHANGED <<lookups, answers>>
  BY DEF Tick
<1> HIDE DEF Aged
<1>3. HeldOnce'
  BY <1>1, <1>2
<1>4. Holding'
  BY <1>1, <1>2, <1>3 DEF Holding, AnswersAreShowable
<1>5. Out' = Out
  BY <1>1, <1>2 DEF Out
<1> QED BY <1>4, <1>5, Moved DEF Tick

LEMMA SettleLookupStep ==
  ASSUME IInv, NEW l \in lookups, NEW o \in {"some", "none", "failed"}, SettleLookup(l, o)
  PROVE  IInv'
<1> USE DEF IInv, FieldsOK, HeldOnce
<1> DEFINE a == Settled(l.ask, o, l.at)
<1>1. a \in Answers /\ a.ask = l.ask /\ a.from # "ipc"
  BY DEF Settled, Answers, Lookups, Places
<1>2. lookups' = lookups \ {l} /\ answers' = answers \cup {a} /\ sockets' = sockets
  BY DEF SettleLookup
<1> HIDE DEF a
<1>3. HeldOnce'
  BY <1>1, <1>2
<1>4. Holding'
  BY <1>1, <1>2, <1>3 DEF Holding, AnswersAreShowable
<1>5. Out' = Out
  BY <1>1, <1>2 DEF Out
<1> QED BY <1>4, <1>5, Moved DEF SettleLookup

LEMMA NextProviderStep ==
  ASSUME IInv, NEW l \in lookups, CertspotterGivesNothing(l)
  PROVE  IInv'
<1> USE DEF IInv, FieldsOK, HeldOnce
<1> DEFINE m == [l EXCEPT !.at = "crt.sh"]
<1>1. m \in Lookups /\ m.ask = l.ask
  BY DEF Lookups, Places
<1>2. lookups' = (lookups \ {l}) \cup {m} /\ UNCHANGED <<sockets, answers>>
  BY DEF CertspotterGivesNothing
<1> HIDE DEF m
<1>3. HeldOnce'
  BY <1>1, <1>2
<1>4. Holding'
  BY <1>1, <1>2, <1>3 DEF Holding, AnswersAreShowable
<1>5. Out' = Out
  BY <1>1, <1>2 DEF Out
<1> QED BY <1>4, <1>5, Moved DEF CertspotterGivesNothing

\* What is painted has the modal's form.  Only the field of its kind changes.
LEMMA PaintedType ==
  ASSUME modal \in Modals, NEW a \in Answers, a.outcome # "failed" => a.from # "ipc", a.ask.probe >= 1
  PROVE  LET k == a.ask.kind
         IN /\ k \in Kinds /\ Painted(a) \in Modals /\ Painted(a).probe = modal.probe
            /\ Painted(a).loading = [modal.loading EXCEPT ![k] = FALSE]
            /\ Painted(a).error = [modal.error EXCEPT ![k] = IF a.outcome = "failed" THEN TRUE ELSE @]
            /\ \/ Painted(a).result = modal.result /\ (k # "probe" \/ a.outcome = "failed")
               \/ Painted(a).result.probe = a.ask.probe /\ k = "probe" /\ a.outcome # "failed"
<1> DEFINE k == a.ask.kind
           off == [modal EXCEPT !.loading[k] = FALSE]
           about == [probe |-> a.ask.probe, host |-> a.ask.host, rows |-> a.outcome, from |-> a.from]
<1>1. k \in Kinds /\ a.ask \in Asks
  BY DEF Answers, Asks
<1>2. a.outcome # "failed" => about \in Shown
  BY <1>1, PBounds DEF Answers, Asks, Shown, Places
<1>3. off \in Modals /\ off.loading = [modal.loading EXCEPT ![k] = FALSE]
      /\ off.error = modal.error /\ off.probe = modal.probe /\ off.result = modal.result
  BY <1>1 DEF Modals
<1>4. about.probe = a.ask.probe
  OBVIOUS
<1>5. modal.error \in [Kinds -> BOOLEAN] /\ modal.error = [modal.error EXCEPT ![k] = modal.error[k]]
  BY <1>1 DEF Modals
<1>6. CASE a.outcome = "failed"
  <2>1. Painted(a) = [off EXCEPT !.error[k] = TRUE]
    BY <1>6 DEF Painted
  <2> HIDE DEF off, k
  <2>2. [off.error EXCEPT ![k] = TRUE] \in [Kinds -> BOOLEAN]
    BY <1>3 DEF Modals
  <2>3. Painted(a) = [off EXCEPT !.error = [off.error EXCEPT ![k] = TRUE]]
    BY <2>1
  <2>4. Painted(a) \in Modals /\ Painted(a).loading = off.loading /\ Painted(a).error = [off.error EXCEPT ![k] = TRUE]
        /\ Painted(a).probe = off.probe /\ Painted(a).result = off.result
    BY <2>2, <2>3, <1>3 DEF Modals
  <2> QED BY <1>1, <1>3, <1>6, <2>4 DEF k
<1>7. CASE a.outcome # "failed"
  <2>1. Painted(a) = CASE k = "probe" -> [off EXCEPT !.result = about]
                       [] k = "ocsp"  -> [off EXCEPT !.ocsp = about]
                       [] OTHER       -> [off EXCEPT !.ct = about]
    BY <1>7 DEF Painted
  <2>2. about \in Shown
    BY <1>2, <1>7
  <2> HIDE DEF off, k, about
  <2>3. Painted(a) \in Modals /\ Painted(a).loading = off.loading /\ Painted(a).error = off.error
        /\ Painted(a).probe = off.probe
        /\ Painted(a).result = IF k = "probe" THEN about ELSE off.result
    BY <2>1, <2>2, <1>3 DEF Modals
  <2> QED BY <1>1, <1>3, <1>4, <1>5, <1>7, <2>3 DEF k
<1> QED BY <1>6, <1>7

\* The answer heard leaves with its request, and with nothing else.
LEMMA HeardLeaves ==
  ASSUME IInv, NEW a \in answers, Hear(a)
  PROVE  Holding' /\ InFlight' = InFlight \ {a.ask} /\ a.ask \in InFlight
<1> USE DEF IInv, FieldsOK, HeldOnce
<1>1. answers' = answers \ {a} /\ UNCHANGED <<sockets, lookups>>
  BY DEF Hear
<1>2. HeldOnce'
  BY <1>1
<1>3. Holding'
  BY <1>1, <1>2 DEF Holding, AnswersAreShowable
<1>4. Out' = Out \ {a.ask} /\ a.ask \in Out
  BY <1>1 DEF Out
<1> QED BY <1>3, <1>4, InFlightIsOut, InFlightIsOutNext DEF Holding

\* For another window's answer the modal of this one is left alone.
LEMMA HearForNobody ==
  ASSUME IInv, NEW a \in answers, Hear(a), a.ask.window # window
  PROVE  IInv'
<1>1. Holding' /\ InFlight' = InFlight \ {a.ask}
  BY HeardLeaves
<1>2. UNCHANGED <<host, modal, window, last>>
  BY DEF Hear
<1>3. \A k \in Kinds : {r \in InFlight' : r.kind = k /\ r.window = window'} = {r \in InFlight : r.kind = k /\ r.window = window}
  BY <1>1, <1>2
<1>4. FlagsAreReal'
  BY <1>2, <1>3 DEF FlagsAreReal, IInv
<1>5. ModalOK'
  BY <1>1, <1>2, <1>4 DEF ModalOK, Numbered, AwaitedIsLast, ResultIsOfLastProbe, IInv, FieldsOK
<1> QED BY <1>1, <1>5, IInvSplit DEF IInv, Holding, ModalOK, FieldsOK

\* For this window's the flag of its kind was up, and goes with the request.
LEMMA HearHere ==
  ASSUME IInv, NEW a \in answers, Hear(a), a.ask.window = window
  PROVE  IInv'
<1> DEFINE k == a.ask.kind
<1>1. Holding' /\ InFlight' = InFlight \ {a.ask} /\ a.ask \in InFlight
  BY HeardLeaves
<1>2. modal' = Painted(a) /\ UNCHANGED <<host, window, last>>
  BY DEF Hear
<1>3. /\ k \in Kinds /\ modal' \in Modals /\ modal'.probe = modal.probe
      /\ modal'.loading = [modal.loading EXCEPT ![k] = FALSE]
      /\ modal'.error = [modal.error EXCEPT ![k] = IF a.outcome = "failed" THEN TRUE ELSE @]
      /\ \/ modal'.result = modal.result /\ (k # "probe" \/ a.outcome = "failed")
         \/ modal'.result.probe = a.ask.probe /\ k = "probe" /\ a.outcome # "failed"
  BY <1>1, <1>2, PaintedType DEF IInv, FieldsOK, AnswersAreShowable, Numbered
<1>4. modal.loading \in [Kinds -> BOOLEAN] /\ modal.error \in [Kinds -> BOOLEAN] /\ "probe" \in Kinds
  BY DEF IInv, FieldsOK, Modals, Kinds
<1>5. modal.loading[k] /\ \A r \in InFlight : r.kind = k /\ r.window = window => r = a.ask
  <2> DEFINE mine == {r \in InFlight : r.kind = k /\ r.window = window}
  <2>1. modal.loading[k] = (mine # {}) /\ \A r, s \in mine : r = s
    BY <1>3 DEF IInv, FlagsAreReal
  <2>2. a.ask \in mine
    BY <1>1
  <2>3. mine # {} => modal.loading[k]
    <3> HIDE DEF mine
    <3> QED BY <2>1, Zenon
  <2> QED BY <2>1, <2>2, <2>3
<1>6. FlagsAreReal'
  <2> SUFFICES ASSUME NEW j \in Kinds
               PROVE  LET mine == {r \in InFlight' : r.kind = j /\ r.window = window'}
                      IN modal'.loading[j] = (mine # {}) /\ (\A r, s \in mine : r = s)
    BY DEF FlagsAreReal, Kinds
  <2>1. CASE j = k
    <3>1. {r \in InFlight' : r.kind = j /\ r.window = window'} = {}
      BY <1>1, <1>2, <1>5, <2>1
    <3>2. modal'.loading[j] = FALSE
      BY <1>3, <1>4, <2>1
    <3> QED BY <3>1, <3>2
  <2>2. CASE j # k
    <3>1. modal'.loading[j] = modal.loading[j]
      BY <1>3, <1>4, <2>2
    <3>2. {r \in InFlight' : r.kind = j /\ r.window = window'} = {r \in InFlight : r.kind = j /\ r.window = window}
      BY <1>1, <1>2, <2>2
    <3> DEFINE mine == {r \in InFlight : r.kind = j /\ r.window = window}
    <3>3. modal.loading[j] = (mine # {}) /\ \A r, s \in mine : r = s
      BY DEF FlagsAreReal, IInv
    <3> HIDE DEF mine
    <3> QED BY <3>1, <3>2, <3>3, Zenon DEF mine
  <2> QED BY <2>1, <2>2
<1>7. ResultIsOfLastProbe'
  <2>1. CASE k = "probe"
    <3>1. modal.result = None /\ ~modal.error["probe"] /\ a.ask.probe = modal.probe
      BY <1>1, <1>5, <2>1 DEF IInv, ResultIsOfLastProbe, AwaitedIsLast
    <3>2. ~modal'.loading["probe"]
      BY <1>3, <1>4, <2>1
    <3>3. modal'.error["probe"] => a.outcome = "failed"
      BY <1>3, <1>4, <2>1, <3>1
    <3> QED BY <1>3, <3>1, <3>2, <3>3 DEF ResultIsOfLastProbe
  <2>2. CASE k # "probe"
    <3>1. modal'.loading["probe"] = modal.loading["probe"] /\ modal'.error["probe"] = modal.error["probe"]
      BY <1>3, <1>4, <2>2
    <3> QED BY <1>3, <2>2, <3>1 DEF ResultIsOfLastProbe, IInv
  <2> QED BY <2>1, <2>2
<1>8. Numbered' /\ AwaitedIsLast'
  BY <1>1, <1>2, <1>3 DEF Numbered, AwaitedIsLast, IInv
<1>9. ModalOK'
  BY <1>2, <1>3, <1>6, <1>7, <1>8 DEF ModalOK, IInv, FieldsOK
<1> QED BY <1>1, <1>9, IInvSplit DEF IInv, Holding, ModalOK, FieldsOK

-----------------------------------------------------------------------------
(* The rest, and the theorems. *)

LEMMA NewModalType ==
  /\ NewModal \in Modals /\ NewModal.probe = 0 /\ NewModal.result = None
  /\ \A k \in Kinds : ~NewModal.loading[k] /\ ~NewModal.error[k]
BY PBounds DEF NewModal, Modals

LEMMA NewModalFlags == \A k \in Kinds : NewModal.loading[k] = FALSE
BY DEF NewModal

\* No request was made for a window yet to come.
LEMMA ReopenWindowStep == IInv /\ ReopenWindow => IInv'
<1> SUFFICES ASSUME IInv, ReopenWindow PROVE IInv'
  OBVIOUS
<1>1. UNCHANGED <<last, sockets, lookups, answers>> /\ window' = window + 1 /\ modal' = NewModal /\ host' = EmptyHost
  BY DEF ReopenWindow
<1>2. Holding'
  BY <1>1, IInvSplit DEF Holding, AnswersAreShowable, HeldOnce
<1>3. InFlight' = InFlight
  BY <1>1 DEF InFlight
<1>4. window + 1 \in 1 .. MaxWindow /\ last \in Nat /\ last \in 0 .. MaxRequest
  BY PBounds DEF ReopenWindow, IInv, FieldsOK
<1>5. \A r \in InFlight' : r.window # window' /\ r.window <= window' /\ r.id <= last /\ r.probe >= 1
  BY <1>1, <1>3, <1>4, OutAreAsks DEF IInv, FieldsOK, Numbered, Asks
<1>6. FlagsAreReal'
  <2> SUFFICES ASSUME NEW k \in Kinds
               PROVE  LET mine == {r \in InFlight' : r.kind = k /\ r.window = window'}
                      IN modal'.loading[k] = (mine # {}) /\ (\A r, s \in mine : r = s)
    BY DEF FlagsAreReal, Kinds
  <2>1. {r \in InFlight' : r.kind = k /\ r.window = window'} = {} /\ modal'.loading[k] = FALSE
    BY <1>1, <1>5, NewModalFlags
  <2> QED BY <2>1
<1>7. ResultIsOfLastProbe'
  BY <1>1, NewModalType DEF ResultIsOfLastProbe, Kinds
<1>8. ModalOK'
  BY <1>1, <1>4, <1>5, <1>6, <1>7, NewModalType DEF ModalOK, Numbered, AwaitedIsLast
<1> QED BY <1>2, <1>8, IInvSplit DEF IInv, Holding, ModalOK, FieldsOK

LEMMA EditHostStep == IInv /\ EditHost => IInv'
<1> SUFFICES ASSUME IInv, EditHost PROVE IInv'
  OBVIOUS
<1>1. UNCHANGED <<modal, window, last, sockets, lookups, answers>> /\ host' \in Hosts \cup {EmptyHost}
  BY DEF EditHost
<1>2. InFlight' = InFlight
  BY <1>1 DEF InFlight
<1>3. Holding' /\ ModalOK'
  BY <1>1, <1>2, IInvSplit, ModalKept DEF Holding, AnswersAreShowable, HeldOnce
<1> QED BY <1>3, IInvSplit DEF IInv, Holding, ModalOK, FieldsOK

LEMMA InitHolds == Init => IInv
<1> SUFFICES ASSUME Init PROVE IInv
  OBVIOUS
<1>1. InFlight = {}
  BY DEF Init, InFlight
<1>2. FlagsAreReal /\ ResultIsOfLastProbe
  <2>1. FlagsAreReal
    <3> SUFFICES ASSUME NEW k \in Kinds
                 PROVE  LET mine == {r \in InFlight : r.kind = k /\ r.window = window}
                        IN modal.loading[k] = (mine # {}) /\ (\A r, s \in mine : r = s)
      BY DEF FlagsAreReal
    <3>1. {r \in InFlight : r.kind = k /\ r.window = window} = {} /\ modal.loading[k] = FALSE
      BY <1>1, NewModalFlags DEF Init
    <3> QED BY <3>1
  <2> QED BY <2>1, NewModalType DEF Init, ResultIsOfLastProbe, Kinds
<1>3. FieldsOK
  BY NewModalType, PBounds DEF Init, FieldsOK
<1> QED BY <1>1, <1>2, <1>3 DEF Init, IInv, AnswersAreShowable, HeldOnce, Numbered, AwaitedIsLast

LEMMA LookupStep == ASSUME IInv, NEW l \in lookups, LookupMoves(l) PROVE IInv'
<1>1. CASE CertspotterGivesNothing(l)
  BY <1>1, NextProviderStep
<1>2. CASE ~CertspotterGivesNothing(l)
  <2>1. PICK o \in {"some", "none", "failed"} : SettleLookup(l, o)
    BY <1>2 DEF LookupMoves, CertspotterAnswers, CrtAnswers, ResponderAnswers, LookupFails
  <2> QED BY <2>1, SettleLookupStep
<1> QED BY <1>1, <1>2

LEMMA NextStep == IInv /\ [Next]_vars => IInv'
<1> SUFFICES ASSUME IInv, [Next]_vars PROVE IInv'
  OBVIOUS
<1>1. CASE EditHost \/ PressProbe \/ ReopenWindow \/ Tick
  BY <1>1, EditHostStep, PressProbeStep, ReopenWindowStep, TickStep
<1>2. CASE PressCt
  BY <1>2, PressLookup DEF PressCt
<1>3. CASE PressOcsp
  BY <1>3, PressLookup DEF PressOcsp
<1>4. ASSUME NEW s \in sockets, SocketActivity(s) \/ SecureConnect(s) \/ SocketError(s) \/ SocketTimesOut(s)
      PROVE  IInv'
  BY <1>4, SocketActivityStep, SettleSocketStep DEF SecureConnect, SocketError, SocketTimesOut
<1>5. ASSUME NEW l \in lookups, LookupMoves(l) PROVE IInv'
  BY <1>5, LookupStep
<1>6. ASSUME NEW a \in answers, Hear(a) PROVE IInv'
  BY <1>6, HearHere, HearForNobody
<1>7. CASE UNCHANGED vars
  <2>1. InFlight' = InFlight
    BY <1>7 DEF vars, InFlight
  <2>2. Holding' /\ ModalOK'
    BY <1>7, <2>1, IInvSplit, ModalKept DEF vars, Holding, AnswersAreShowable, HeldOnce, IInv, FieldsOK
  <2> QED BY <2>2, IInvSplit DEF IInv, Holding, ModalOK, FieldsOK
<1> QED BY <1>1, <1>2, <1>3, <1>4, <1>5, <1>6, <1>7 DEF Next

\* The inductive invariant holds throughout.
THEOREM Invariance == Spec => []IInv
<1>1. Init => IInv
  BY InitHolds
<1>2. IInv /\ [Next]_vars => IInv'
  BY NextStep
<1> QED BY <1>1, <1>2, PTL DEF Spec

\* However answers, timeouts and errors race, a request is in one place only:
\* no promise is settled twice, and none has left a socket behind.
THEOREM TypeCorrect == Spec => []TypeOK
<1>1. IInv => TypeOK
  <2> SUFFICES ASSUME IInv PROVE TypeOK
    OBVIOUS
  <2> USE DEF IInv, FieldsOK
  <2>1. /\ modal.loading \in [Kinds -> BOOLEAN] /\ modal.error \in [Kinds -> BOOLEAN]
        /\ {modal.result, modal.ocsp, modal.ct} \ {None} \subseteq Shown
        /\ modal.probe \in 0 .. last
    BY PBounds DEF Modals
  <2>2. \A s \in sockets : ~s.settled /\ s.idle \in 0 .. Timeout /\ s.moved \in 0 .. MaxActivity
    BY DEF Sockets
  <2> QED BY <2>1, <2>2, OutAreAsks DEF TypeOK, HeldOnce
<1> QED BY <1>1, Invariance, PTL

\* A button is disabled exactly while its own request is out, for any number
\* of windows opened over requests still unanswered.
THEOREM ButtonsAreTrue == Spec => []FlagsAreReal
BY Invariance, PTL DEF IInv

\* What stands as a probe's result or failure is that of the last one pressed.
THEOREM LastProbeShown == Spec => []ResultIsOfLastProbe
BY Invariance, PTL DEF IInv
=============================================================================
