--------------------------- MODULE EndpointProbe ---------------------------
(***************************************************************************)
(* The live TLS prober: the modal of the renderer and the three network    *)
(* requests of the desktop main process it asks for.                       *)
(*                                                                         *)
(* A probe opens a socket, whose handshake, error and idle timeout race to *)
(* settle one promise.  A certificate transparency lookup tries two        *)
(* providers in turn, an OCSP lookup one responder.  A settled promise is  *)
(* an answer in transit until the handler that awaits it continues; the    *)
(* modal may have been used for something else by then, and a window that  *)
(* was closed hears nothing.                                               *)
(*                                                                         *)
(* Requests are numbered as they are made.  Time is counted in ticks; the  *)
(* fetches' own deadlines are a failure that may come at any moment.       *)
(***************************************************************************)
EXTENDS Naturals

CONSTANTS
  Hosts,       \* what the host box may hold, other than nothing
  Invalid,     \* the ones the main process refuses
  EmptyHost, None,
  Timeout,     \* ticks of silence after which a socket gives up
  MaxActivity, \* assumption: how often an unfinished handshake makes progress
  MaxRequest, MaxWindow  \* bounds: requests made, windows opened

ASSUME PDistinct == Invalid \subseteq Hosts /\ EmptyHost \notin Hosts
ASSUME PBounds == /\ Timeout \in Nat \ {0} /\ MaxActivity \in Nat
                  /\ MaxRequest \in Nat /\ MaxWindow \in Nat \ {0}

VARIABLES
  host,    \* the host box
  modal,   \* what the modal shows, one record
  window,  \* which window is open
  last,    \* the newest request
  sockets, \* sockets of the main process that are not destroyed
  lookups, \* OCSP and CT fetches under way in the main process
  answers  \* settled promises whose caller has not continued yet

vars == <<host, modal, window, last, sockets, lookups, answers>>

Kinds == {"probe", "ocsp", "ct"}

\* result, ocsp and ct are None or what the answer shown was about.
NewModal == [probe |-> 0, loading |-> [k \in Kinds |-> FALSE],
             error |-> [k \in Kinds |-> FALSE],
             result |-> None, ocsp |-> None, ct |-> None]

Settled(ask, outcome, from) == [ask |-> ask, outcome |-> outcome, from |-> from]

\* What a request was made for: ocsp is about the certificate on screen.
Asked(kind) == [kind |-> kind, id |-> last', window |-> window, host |-> host,
                probe |-> IF kind = "probe" THEN last' ELSE modal.probe]

-----------------------------------------------------------------------------
(* The modal.  Each button is disabled while its own request is out, and    *)
(* the two lookups are offered beside a result only.                        *)

EditHost == /\ last < MaxRequest
            /\ \E h \in Hosts \cup {EmptyHost} : host' = h
            /\ UNCHANGED <<modal, window, last, sockets, lookups, answers>>

\* ipcMain's handler parses the arguments first; a refusal is an answer.
Submit(ask) ==
  IF ask.host \in Invalid /\ ask.kind # "ocsp"
  THEN answers' = answers \cup {Settled(ask, "failed", "ipc")} /\ UNCHANGED <<sockets, lookups>>
  ELSE CASE ask.kind = "probe" ->
              /\ sockets' = sockets \cup {[ask |-> ask, idle |-> 0, moved |-> 0, settled |-> FALSE]}
              /\ UNCHANGED <<lookups, answers>>
         [] ask.kind = "ct" ->
              lookups' = lookups \cup {[ask |-> ask, at |-> "certspotter"]} /\ UNCHANGED <<sockets, answers>>
         [] OTHER ->
              lookups' = lookups \cup {[ask |-> ask, at |-> "responder"]} /\ UNCHANGED <<sockets, answers>>

\* Mutant: the result of the probe before stays up.
PressProbeKeepsResult ==
  /\ ~modal.loading["probe"] /\ host # EmptyHost /\ last < MaxRequest
  /\ last' = last + 1
  /\ modal' = [modal EXCEPT !.probe = last', !.loading["probe"] = TRUE]
  /\ Submit(Asked("probe"))
  /\ UNCHANGED <<host, window>>

PressProbe ==
  /\ ~modal.loading["probe"] /\ host # EmptyHost /\ last < MaxRequest
  /\ last' = last + 1
  /\ modal' = [NewModal EXCEPT !.probe = last',
                               !.loading = [modal.loading EXCEPT !["probe"] = TRUE]]
  /\ Submit(Asked("probe"))
  /\ UNCHANGED <<host, window>>

PressCt ==
  /\ modal.result # None /\ ~modal.loading["ct"] /\ host # EmptyHost /\ last < MaxRequest
  /\ last' = last + 1
  /\ modal' = [modal EXCEPT !.loading["ct"] = TRUE, !.error["ct"] = FALSE]
  /\ Submit(Asked("ct"))
  /\ UNCHANGED <<host, window>>

\* A leaf that names no responder, or came without its issuer, has no button.
PressOcsp ==
  /\ modal.result # None /\ ~modal.loading["ocsp"] /\ last < MaxRequest
  /\ last' = last + 1
  /\ modal' = [modal EXCEPT !.loading["ocsp"] = TRUE, !.error["ocsp"] = FALSE]
  /\ Submit(Asked("ocsp"))
  /\ UNCHANGED <<host, window>>

\* The window is closed and another opened: the main process goes on with
\* what it was asked, for nobody.
ReopenWindow ==
  /\ window < MaxWindow
  /\ window' = window + 1 /\ modal' = NewModal /\ host' = EmptyHost
  /\ UNCHANGED <<last, sockets, lookups, answers>>

\* What the modal shows once the awaited answer is an outcome: the value goes
\* in the field of its kind, or the error does, and the flag is taken down.
Painted(a) ==
  LET k == a.ask.kind
      off == [modal EXCEPT !.loading[k] = FALSE]
      about == [probe |-> a.ask.probe, host |-> a.ask.host, rows |-> a.outcome, from |-> a.from]
  IN IF a.outcome = "failed" THEN [off EXCEPT !.error[k] = TRUE]
     ELSE CASE k = "probe" -> [off EXCEPT !.result = about]
            [] k = "ocsp"  -> [off EXCEPT !.ocsp = about]
            [] OTHER       -> [off EXCEPT !.ct = about]

\* Mutant: the flag is taken down on success only, not in a finally.
HearOnSuccess(a) ==
  /\ answers' = answers \ {a}
  /\ modal' = IF a.ask.window # window THEN modal
              ELSE IF a.outcome = "failed" THEN [modal EXCEPT !.error[a.ask.kind] = TRUE]
              ELSE Painted(a)
  /\ UNCHANGED <<host, window, last, sockets, lookups>>

\* The handler continues after its await.
Hear(a) ==
  /\ answers' = answers \ {a}
  /\ modal' = IF a.ask.window = window THEN Painted(a) ELSE modal
  /\ UNCHANGED <<host, window, last, sockets, lookups>>

-----------------------------------------------------------------------------
(* probeTlsEndpoint.  Settling destroys the socket. *)

\* Mutant: the promise is settled and its socket kept as if it were not.
SettleSocketTwice(s, outcome) ==
  /\ ~s.settled /\ s.moved < MaxActivity
  /\ sockets' = (sockets \ {s}) \cup {[s EXCEPT !.moved = @ + 1]}
  /\ answers' = answers \cup {Settled(s.ask, outcome, "server")}
  /\ UNCHANGED <<host, modal, window, last, lookups>>

SettleSocket(s, outcome) ==
  /\ ~s.settled
  /\ sockets' = sockets \ {s}
  /\ answers' = answers \cup {Settled(s.ask, outcome, "server")}
  /\ UNCHANGED <<host, modal, window, last, lookups>>

\* Connected, a staple, part of a certificate: the silence starts again.
SocketActivity(s) ==
  /\ ~s.settled /\ s.moved < MaxActivity
  /\ sockets' = (sockets \ {s}) \cup {[s EXCEPT !.idle = 0, !.moved = @ + 1]}
  /\ UNCHANGED <<host, modal, window, last, lookups, answers>>

SecureConnect(s) == SettleSocket(s, "some")
SocketError(s)   == SettleSocket(s, "failed")

\* Mutant: the timeout closes the socket and settles nothing.
SocketTimesOutSilently(s) ==
  /\ s.idle = Timeout
  /\ sockets' = sockets \ {s}
  /\ UNCHANGED <<host, modal, window, last, lookups, answers>>

SocketTimesOut(s) == s.idle = Timeout /\ SettleSocket(s, "failed")

Tick == /\ sockets # {}
        /\ \A s \in sockets : ~s.settled => s.idle < Timeout
        /\ sockets' = {[s EXCEPT !.idle = IF s.settled THEN @ ELSE @ + 1] : s \in sockets}
        /\ UNCHANGED <<host, modal, window, last, lookups, answers>>

-----------------------------------------------------------------------------
(* queryCtLogs and queryOcspResponder.  An OCSP reply that does not parse   *)
(* is a failure of the handler, and so is "failed" here.                    *)

SettleLookup(l, outcome) ==
  /\ lookups' = lookups \ {l}
  /\ answers' = answers \cup {Settled(l.ask, outcome, l.at)}
  /\ UNCHANGED <<host, modal, window, last, sockets>>

CertspotterAnswers(l) == l.at = "certspotter" /\ SettleLookup(l, "some")

\* No list, an empty one, a refusal, an error, its six seconds: the second
\* provider is asked, for twelve more.
CertspotterGivesNothing(l) ==
  /\ l.at = "certspotter"
  /\ lookups' = (lookups \ {l}) \cup {[l EXCEPT !.at = "crt.sh"]}
  /\ UNCHANGED <<host, modal, window, last, sockets, answers>>

CrtAnswers(l)      == l.at = "crt.sh" /\ \E rows \in {"some", "none"} : SettleLookup(l, rows)
ResponderAnswers(l) == l.at = "responder" /\ SettleLookup(l, "some")
LookupFails(l)     == l.at # "certspotter" /\ SettleLookup(l, "failed")

-----------------------------------------------------------------------------
Init == /\ host = EmptyHost /\ modal = NewModal /\ window = 1 /\ last = 0
        /\ sockets = {} /\ lookups = {} /\ answers = {}

LookupMoves(l) == \/ CertspotterAnswers(l) \/ CertspotterGivesNothing(l)
                  \/ CrtAnswers(l) \/ ResponderAnswers(l) \/ LookupFails(l)

Next == \/ EditHost \/ PressProbe \/ PressCt \/ PressOcsp \/ ReopenWindow \/ Tick
        \/ \E s \in sockets : SocketActivity(s) \/ SecureConnect(s) \/ SocketError(s) \/ SocketTimesOut(s)
        \/ \E l \in lookups : LookupMoves(l)
        \/ \E a \in answers : Hear(a)

Spec == Init /\ [][Next]_vars

\* Time passes, a socket's timer fires, a fetch ends by its deadline at the
\* latest, and a settled promise is heard.  Nothing is assumed of the server
\* except that it does not trickle forever (MaxActivity): the deadline of a
\* handshake is one of silence, not of its length.
FairSpec == /\ Spec
            /\ WF_vars(Tick)
            /\ \A n \in 1 .. MaxRequest :
                 /\ WF_vars(\E s \in sockets : s.ask.id = n /\ SocketTimesOut(s))
                 /\ WF_vars(\E l \in lookups : l.ask.id = n /\ LookupMoves(l))
                 /\ WF_vars(\E a \in answers : a.ask.id = n /\ Hear(a))

-----------------------------------------------------------------------------
(* Properties *)

Asks   == [kind : Kinds, id : 1 .. MaxRequest, window : 1 .. MaxWindow,
           host : Hosts \cup {EmptyHost}, probe : 0 .. MaxRequest]
Shown  == [probe : 1 .. MaxRequest, host : Hosts \cup {EmptyHost}, rows : {"some", "none"},
           from : {"server", "certspotter", "crt.sh", "responder"}]
InFlight == {s.ask : s \in {x \in sockets : ~x.settled}} \cup {l.ask : l \in lookups}
            \cup {a.ask : a \in answers}

\* The fields hold what the modal's state can hold; a request that is out is
\* in one place only, so no promise is settled twice, and no socket outlives
\* the promise it was opened for.
TypeOK ==
  /\ host \in Hosts \cup {EmptyHost} /\ window \in 1 .. MaxWindow /\ last \in 0 .. MaxRequest
  /\ modal.probe \in 0 .. last
  /\ modal.loading \in [Kinds -> BOOLEAN] /\ modal.error \in [Kinds -> BOOLEAN]
  /\ {modal.result, modal.ocsp, modal.ct} \ {None} \subseteq Shown
  /\ InFlight \subseteq Asks
  /\ \A s \in sockets : ~s.settled /\ s.idle \in 0 .. Timeout /\ s.moved \in 0 .. MaxActivity
  /\ \A s \in sockets, l \in lookups : s.ask.id # l.ask.id
  /\ \A a \in answers :
       /\ \A s \in sockets : s.ask.id # a.ask.id
       /\ \A l \in lookups : l.ask.id # a.ask.id

\* A button is disabled exactly while its request is out, whichever other
\* buttons were pressed meanwhile; so each kind is asked one at a time.
FlagsAreReal ==
  \A k \in Kinds :
    LET mine == {r \in InFlight : r.kind = k /\ r.window = window}
    IN /\ modal.loading[k] = (mine # {})
       /\ \A r, s \in mine : r = s

\* What stands as the result, or as the failure, of a probe is that of the
\* last one pressed, and never both.
ResultIsOfLastProbe ==
  /\ modal.result # None => /\ modal.result.probe = modal.probe
                            /\ ~modal.loading["probe"] /\ ~modal.error["probe"]
  /\ modal.error["probe"] => ~modal.loading["probe"]

\* Every button comes back; and a probe's socket goes, window or no window.
RequestsEnd ==
  /\ \A k \in Kinds : modal.loading[k] ~> ~modal.loading[k]
  /\ \A n \in 1 .. MaxRequest :
       (\E s \in sockets : s.ask.id = n) ~> (\A s \in sockets : s.ask.id # n)
=============================================================================
