----------------------- MODULE TransportServiceProps -----------------------
(* Properties of the transport service with the relays beside it.           *)
EXTENDS TransportService

\* Whatever crashes, a Bot API call is never made again once Telegram may have
\* carried it out, and a call recorded as sent was carried out exactly once
\* (OutboundDrain.send, recoverInterruptedOutboundActions).
DeliveredOnce ==
  \A a \in Actions : /\ delivered[a] <= 1
                     /\ action[a].status = "sent" => delivered[a] = 1

\* The chat never shows a chunk of an answer before the chunks that precede it
\* (claimDueOutboundActions), also when calls fail, are retried or interrupted.
ChunksInOrder ==
  \A a, b \in Actions : a[1] = b[1] /\ a[2] < b[2] /\ delivered[b] > 0 => delivered[a] > 0

\* Every step of the service and the relays uses the outbound table as its own
\* specification allows, whole answers at a time (finalizeRelayJobBatch's one
\* transaction), so what OutboundStoreProofs proves holds here too.
ImplementsOutbound == Outbound!Spec

\* The hard boundary of TransportControl: disengage is active only once its
\* farewell has arrived, through lost responses, restarts and a relay that
\* rewrites the control row from a copy of its own (handleAckSent, recover).
FarewellFirst == Disengaged => action[control.disengage.ack].status = "sent"

(***************************************************************************)
(* README.md: the away timer starts only after Telegram confirms the reply, *)
(* and one that was confirmed survives a later /away whose reply is lost.   *)
(* What may become of the away entry of the row: it is asked for, keeping a *)
(* timer that has not run out; its own reply arrived and starts its own     *)
(* timer; its reply is lost and the timer before is back, if there was one; *)
(* its timer has run out; or the owner's mention ended it (requestAway,     *)
(* handleAckSent, handleAckTerminal, clearExpiredAway, releaseAway).        *)
(***************************************************************************)
Arrived(a) == action[a].status = "sent"

AwayStep(was, next) ==
  \/ next.phase = "pending" /\ (next.until = was.until \/ (was.phase = "active" /\ was.until \in elapsed))
  \/ was.phase = "pending" /\ Arrived(was.ack) /\ next.phase = "active" /\ next.until = was.ack
  \/ was.phase = "pending" /\ ~Arrived(was.ack) /\ was.until # None
       /\ next.phase = "active" /\ next.until = was.until
  \/ was.phase = "pending" /\ ~Arrived(was.ack) /\ was.until = None /\ next.phase = "none"
  \/ was.phase = "active" /\ was.until \in elapsed /\ next.phase = "none"
  \/ svc.then = "release" /\ next.phase = "none"

\* Every change of the away entry is one of these, whatever is sent, lost or
\* expires between reading the row and writing it, and whatever crashes; until
\* a relay, which writes the row from a copy of its own, has taken a stop, and
\* apart from the engage script.
AwayTimerKept ==
  [][control'.away # control.away /\ relay.heard = {} /\ ~At("exited")
       => AwayStep(control.away, control'.away)]_vars

\* An away whose reply is still to be settled does not stay pending for ever,
\* whatever becomes of the reply: pending blocks all messages (handleAckSent,
\* handleAckTerminal, the drain's retries, recover).  It ends, or the process
\* does, or a relay is about to write its own copy of the row (see the README).
AwaySettles ==
  control.away.phase = "pending" /\ action[control.away.ack].status # "sent"
    /\ ~Lost(control.away.ack)
  ~> control.away.phase # "pending" \/ At("down") \/ relay.pc = "writing"

-----------------------------------------------------------------------------
\* README.md: a disengaged transport drains, then is ready and exits; without
\* a crash or an operator it does not hang.
DisengageCompletes ==
  Disengaged ~> (Ready \/ At("down") \/ ~Disengaged)

\* README.md and transport-control.mjs: accepted relay work and outbound
\* actions are drained before the service exits.
ExitsDrained == At("exited") => Running = {} /\ Outbound!Undelivered = {}

\* README.md: a stop is recorded before it is answered, so a stop that was
\* answered is in the control row until the relay has sent it.
StopRecorded ==
  \A u \in Updates :
    Kind[u] = "stop" /\ action[<<u, 0>>].status = "sent"
      => u \in control.interrupts \cup relay.heard
=============================================================================
