-------------------------- MODULE TransportService --------------------------
(***************************************************************************)
(* The transport service: one process that polls Telegram, turns stored     *)
(* updates into relay jobs or transport controls, and drains the outbound   *)
(* table.  It shares the SQLite store with the relay processes, which run   *)
(* the jobs (JobLifecycle says what they promise) and complete interrupts.  *)
(*                                                                         *)
(* The transport control state is one settings row.  Every transition reads *)
(* the row, then writes a new one: two statements, without a transaction.   *)
(* Inside one process nothing comes between them; between processes         *)
(* anything may.  So a transition is two steps here, with the row to be     *)
(* written held in between.                                                *)
(*                                                                         *)
(* Time is abstract: an update lease or a retry may be found expired        *)
(* whenever it is looked at, and an away timer runs out at any moment.      *)
(***************************************************************************)
EXTENDS Naturals, FiniteSets

CONSTANTS
  Updates,      \* telegram_updates.update_id, a set of naturals
  Kind,         \* Kind[u]: what the update is, see Kinds
  Chunks,       \* how many chunks an answer has
  Turns, None,  \* as in JobLifecycle
  ClaimLimit,   \* as in OutboundStore
  MaxAttempts,  \* attempts after which an update fails for good (5)
  MaxBoots      \* bound: starts of the service process

Kinds == {"message", "mention", "away", "disengage", "stop"}

\* Updates that become jobs.  A mention of the bot by the owner also ends away.
Messages == {u \in Updates : Kind[u] \in {"message", "mention"}}

\* The acknowledgement of a command, and the chunks of the answer to a message.
Acks == (Updates \ Messages) \X {0}
Actions == Acks \cup (Messages \X (1..Chunks))
GroupOf == [a \in Actions |-> a[1]]
IndexOf == [a \in Actions |-> a[2]]

ASSUME TransportServiceAssumption ==
  /\ Updates \subseteq Nat
  /\ Kind \in [Updates -> Kinds]
  /\ Chunks \in Nat \ {0} /\ ClaimLimit \in Nat \ {0} /\ MaxAttempts \in Nat \ {0}
  /\ MaxBoots \in Nat \ {0}
  /\ None \notin Turns \cup Acks

VARIABLES
  action,          \* outbound_actions, see OutboundStore
  control,         \* the transport_control_state row
  update,          \* telegram_updates
  phase, runner,   \* relay_jobs, see JobLifecycle
  svc,             \* the worker loop of the service process
  polling,         \* whether its poller runs
  relay,           \* the relay process, as far as it handles interrupts
  delivered,       \* delivered[a]: how often Telegram carried out action a
  elapsed,         \* away timers that have run out
  boots            \* starts of the service process so far

vars == <<action, control, update, phase, runner, svc, polling, relay, delivered, elapsed, boots>>
jobs == <<phase, runner>>

Outbound == INSTANCE OutboundStore WITH Group <- GroupOf, Index <- IndexOf
Lifecycle == INSTANCE JobLifecycle WITH Jobs <- Messages

-----------------------------------------------------------------------------
(***************************************************************************)
(* A timer (untilMs) is named by the reply whose arrival set it.  until is  *)
(* the timer of an active away, and the snapshot (previous) of a pending    *)
(* one.                                                                    *)
(***************************************************************************)
NoAway == [phase |-> "none", ack |-> None, until |-> None]
NoDisengage == [phase |-> "none", ack |-> None, ready |-> FALSE]
NoControl == [away |-> NoAway, disengage |-> NoDisengage, interrupts |-> {}]

ControlRows ==
  [away : [phase : {"none", "pending", "active"}, ack : Acks \cup {None}, until : Acks \cup {None}],
   disengage : [phase : {"none", "pending", "active"}, ack : Acks \cup {None}, ready : BOOLEAN],
   interrupts : SUBSET Updates]

UpdateRows ==
  [status : {"absent", "pending", "processing", "completed", "failed"}, attempts : 0..(MaxAttempts + MaxBoots - 1)]

SvcPcs ==
  {"down", "recover_away", "recover_disengage", "start", "top", "recover_leases",
   "clear_away", "claim", "process", "acknowledge", "complete", "release",
   "drain", "send", "mark", "hook", "write", "busy", "busy_jobs", "exit", "exited"}

Idle ==
  [pc |-> "down", then |-> "down", row |-> NoControl, batch |-> {}, away |-> FALSE,
   sends |-> {}, current |-> None, outcome |-> "none", quiesce |-> FALSE, sent |-> FALSE]

Outcomes == {"ok", "rate_limited", "transport_error", "api_error"}

SvcStates ==
  [pc : SvcPcs, then : SvcPcs, row : ControlRows, batch : SUBSET Updates, away : BOOLEAN,
   sends : SUBSET Actions, current : Actions \cup {None}, outcome : Outcomes \cup {"none"},
   quiesce : BOOLEAN, sent : BOOLEAN]

RelayStates ==
  [pc : {"idle", "inflight", "writing"}, request : Updates \cup {None}, row : ControlRows,
   heard : SUBSET Updates]

TypeOK ==
  /\ Outbound!OutboundTypeOK
  /\ control \in ControlRows
  /\ update \in [Updates -> UpdateRows]
  /\ phase \in [Messages -> Lifecycle!Phases]
  /\ runner \in [Messages -> Turns \cup {None}]
  /\ svc \in SvcStates
  /\ polling \in BOOLEAN
  /\ relay \in RelayStates
  /\ delivered \in [Actions -> 0..2]
  /\ elapsed \in SUBSET Acks
  /\ boots \in 0..MaxBoots

Init ==
  /\ Outbound!Init
  /\ Lifecycle!Init
  /\ control = NoControl
  /\ update = [u \in Updates |-> [status |-> "absent", attempts |-> 0]]
  /\ svc = Idle
  /\ polling = FALSE
  /\ relay = [pc |-> "idle", request |-> None, row |-> NoControl, heard |-> {}]
  /\ delivered = [a \in Actions |-> 0]
  /\ elapsed = {}
  /\ boots = 0

-----------------------------------------------------------------------------
(***************************************************************************)
(* Helpers: program counter and the two halves of a control transition.    *)
(***************************************************************************)
At(pc) == svc.pc = pc
Go(pc) == svc' = [svc EXCEPT !.pc = pc]

\* A transition that changes nothing returns without writing.
Stage(row, then) ==
  svc' = IF row = control THEN [svc EXCEPT !.pc = then]
         ELSE [svc EXCEPT !.pc = "write", !.then = then, !.row = row]

WriteControl ==
  /\ At("write")
  /\ control' = svc.row
  /\ svc' = [svc EXCEPT !.pc = svc.then, !.row = NoControl, !.then = "down"]
  /\ UNCHANGED <<action, update, jobs, polling, relay, delivered, elapsed, boots>>

\* handleAckSent: the away timer starts, or disengage becomes active.
AckSent(row, a) ==
  CASE row.away.phase = "pending" /\ row.away.ack = a ->
         [row EXCEPT !.away = [phase |-> "active", ack |-> a, until |-> a]]
    [] row.disengage.phase = "pending" /\ row.disengage.ack = a ->
         [row EXCEPT !.disengage.phase = "active"]
    [] OTHER -> row

\* Mutant: the timer before is forgotten.
AckTerminalForgets(row, a) ==
  CASE row.away.phase = "pending" /\ row.away.ack = a -> [row EXCEPT !.away = NoAway]
    [] row.disengage.phase = "pending" /\ row.disengage.ack = a ->
         [row EXCEPT !.disengage = NoDisengage]
    [] OTHER -> row

\* handleAckTerminal: back to the timer before, or to no disengage.
AckTerminal(row, a) ==
  CASE row.away.phase = "pending" /\ row.away.ack = a ->
         [row EXCEPT !.away = IF @.until # None THEN [@ EXCEPT !.phase = "active"] ELSE NoAway]
    [] row.disengage.phase = "pending" /\ row.disengage.ack = a ->
         [row EXCEPT !.disengage = NoDisengage]
    [] OTHER -> row

Lost(a) == action[a].status = "ambiguous" \/ Outbound!GivenUp(a)

\* Mutant: a farewell that may not have arrived counts as sent.
SettleAckAlways(a, then) ==
  Stage(IF action[a].status = "sent" \/ Lost(a) THEN AckSent(control, a) ELSE control, then)

\* Mutant: a reply that did not arrive is not looked at.
SettleSent(a, then) ==
  Stage(IF action[a].status = "sent" THEN AckSent(control, a) ELSE control, then)

\* The hook for an action that has reached a final state.
SettleAck(a, then) ==
  Stage(CASE action[a].status = "sent" -> AckSent(control, a)
          [] Lost(a) -> AckTerminal(control, a)
          [] OTHER -> control, then)

Disengaged == control.disengage.phase = "active"

-----------------------------------------------------------------------------
(***************************************************************************)
(* createTransportRuntime, crashes and the engage script.                  *)
(***************************************************************************)
Boot ==
  /\ At("down") \/ At("exited")
  /\ boots < MaxBoots
  /\ boots' = boots + 1
  /\ Outbound!RecoverInterruptedOutboundActions
  /\ svc' = [Idle EXCEPT !.pc = "recover_away"]
  /\ UNCHANGED <<control, update, jobs, polling, relay, delivered, elapsed>>

\* TransportControl.recover for one of its two entries.
RecoverEntry(entry, then) ==
  IF entry.phase # "pending" THEN Go(then)
  ELSE IF action[entry.ack].status = "absent" THEN Stage(AckTerminal(control, entry.ack), then)
  ELSE SettleAck(entry.ack, then)

Recover ==
  /\ \/ At("recover_away") /\ RecoverEntry(control.away, "recover_disengage")
     \/ At("recover_disengage") /\ RecoverEntry(control.disengage, "start")
  /\ UNCHANGED <<action, control, update, jobs, polling, relay, delivered, elapsed, boots>>

Start ==
  /\ At("start")
  /\ polling' = ~Disengaged
  /\ Go("top")
  /\ UNCHANGED <<action, control, update, jobs, relay, delivered, elapsed, boots>>

\* A crash or SIGTERM, between any two statements.
Crash ==
  /\ ~At("down") /\ ~At("exited")
  /\ svc' = Idle
  /\ polling' = FALSE
  /\ UNCHANGED <<action, control, update, jobs, relay, delivered, elapsed, boots>>

\* scripts/engage.mjs, run by hand once the service has exited.
Engage ==
  /\ At("exited")
  /\ control # NoControl
  /\ control' = NoControl
  /\ UNCHANGED <<action, update, jobs, svc, polling, relay, delivered, elapsed, boots>>

\* A timer that was set runs out.
TimerRunsOut(a) ==
  /\ Kind[a[1]] = "away" /\ action[a].status = "sent" /\ a \notin elapsed
  /\ elapsed' = elapsed \cup {a}
  /\ UNCHANGED <<action, control, update, jobs, svc, polling, relay, delivered, boots>>

-----------------------------------------------------------------------------
(***************************************************************************)
(* Telegram intake.                                                        *)
(***************************************************************************)
\* storeUpdate, in the order of update ids; the poller runs when the worker waits.
StoreUpdate(u) ==
  /\ polling
  /\ At("top") \/ At("process") \/ At("mark")
  /\ update[u].status = "absent"
  /\ \A v \in Updates : v < u => update[v].status # "absent"
  /\ update' = [update EXCEPT ![u].status = "pending"]
  /\ UNCHANGED <<action, control, jobs, svc, polling, relay, delivered, elapsed, boots>>

\* One turn of the worker loop; what it finds here decides the whole turn: an
\* active disengage stops the poller and only drains.
Top ==
  /\ At("top")
  /\ polling' = (polling /\ ~Disengaged)
  /\ svc' = [svc EXCEPT !.pc = IF Disengaged THEN "drain" ELSE "recover_leases", !.quiesce = Disengaged]
  /\ UNCHANGED <<action, control, update, jobs, relay, delivered, elapsed, boots>>

\* Between batches nothing of this process is claimed: what is still processing
\* was claimed before a crash, and its lease may have expired.
RecoverLeases ==
  /\ At("recover_leases")
  /\ \E S \in SUBSET {u \in Updates : update[u].status = "processing"} :
       update' = [u \in Updates |-> IF u \in S THEN [update[u] EXCEPT !.status = "pending"] ELSE update[u]]
  /\ Go("clear_away")
  /\ UNCHANGED <<action, control, jobs, polling, relay, delivered, elapsed, boots>>

AwayRunning == control.away.phase = "active" /\ control.away.until \notin elapsed

ClearExpiredAway ==
  /\ At("clear_away")
  /\ IF control.away.phase = "active" /\ ~AwayRunning
     THEN Stage([control EXCEPT !.away = NoAway], "claim")
     ELSE Go("claim")
  /\ UNCHANGED <<action, control, update, jobs, polling, relay, delivered, elapsed, boots>>

\* Rows that failed once may not be available yet.
ClaimFrom(S, away) ==
  LET W == {u \in S : update[u].status = "pending"}
  IN  \E C \in SUBSET W :
        /\ \A u \in W : update[u].attempts = 0 => u \in C
        /\ update' = [u \in Updates |-> IF u \in C THEN [status |-> "processing", attempts |-> update[u].attempts + 1]
                                        ELSE update[u]]
        /\ svc' = [svc EXCEPT !.pc = IF C = {} THEN "drain" ELSE "process", !.batch = C, !.away = away]

Away == control.away.phase = "pending" \/ AwayRunning

\* drainOnce: disengage stops all intake; away takes commands and mentions only.
ClaimUpdates ==
  /\ At("claim")
  /\ \/ control.disengage.phase # "none" /\ Go("drain") /\ UNCHANGED update
     \/ /\ control.disengage.phase = "none" /\ Away
        /\ ClaimFrom({u \in Updates : Kind[u] # "message"}, TRUE)
     \/ /\ control.disengage.phase = "none" /\ ~Away
        /\ ClaimFrom(Updates, FALSE)
  /\ UNCHANGED <<action, control, jobs, polling, relay, delivered, elapsed, boots>>

-----------------------------------------------------------------------------
(***************************************************************************)
(* processClaimedUpdate, for the claimed updates in order.                 *)
(***************************************************************************)
Current(u) == u \in svc.batch /\ \A v \in svc.batch : u <= v

Leave(u, row) ==
  /\ update' = [update EXCEPT ![u] = row]
  /\ svc' = [svc EXCEPT !.batch = @ \ {u}, !.pc = IF svc.batch = {u} THEN "drain" ELSE "process"]

\* INSERT OR IGNORE: a second attempt finds the job there already.
EnqueueJob(u) ==
  /\ At("process") /\ Current(u)
  /\ u \in Messages /\ (Kind[u] = "mention" => ~svc.away)
  /\ Lifecycle!Submit(u) \/ (phase[u] # "absent" /\ UNCHANGED jobs)
  /\ Go("complete")
  /\ UNCHANGED <<action, control, update, polling, relay, delivered, elapsed, boots>>

\* Mutant: one attempt too many.
FailUpdateLate(u) ==
  /\ At("process") /\ Current(u)
  /\ u \in Messages /\ (Kind[u] = "mention" => ~svc.away)
  /\ Leave(u, [update[u] EXCEPT !.status = IF update[u].attempts > MaxAttempts THEN "failed" ELSE "pending"])
  /\ UNCHANGED <<action, control, jobs, polling, relay, delivered, elapsed, boots>>

\* The attachment could not be fetched: try again later, at most MaxAttempts times.
FailUpdate(u) ==
  /\ At("process") /\ Current(u)
  /\ u \in Messages /\ (Kind[u] = "mention" => ~svc.away)
  /\ Leave(u, [update[u] EXCEPT !.status = IF update[u].attempts >= MaxAttempts THEN "failed" ELSE "pending"])
  /\ UNCHANGED <<action, control, jobs, polling, relay, delivered, elapsed, boots>>

\* A mention during away ends it and goes back to the queue untouched.
ReleaseAway(u) ==
  /\ At("process") /\ Current(u)
  /\ Kind[u] = "mention" /\ svc.away
  /\ Stage([control EXCEPT !.away = NoAway], "release")
  /\ UNCHANGED <<action, control, update, jobs, polling, relay, delivered, elapsed, boots>>

ReleaseUpdate(u) ==
  /\ At("release") /\ Current(u)
  /\ Leave(u, [status |-> "pending", attempts |-> update[u].attempts - 1])
  /\ UNCHANGED <<action, control, jobs, polling, relay, delivered, elapsed, boots>>

Asked(u, until) == [control EXCEPT !.away = [phase |-> "pending", ack |-> <<u, 0>>, until |-> until]]

\* Mutant: an away whose reply was never confirmed is remembered as a timer.
RequestedAnyPrevious(u) ==
  CASE Kind[u] = "stop" -> [control EXCEPT !.interrupts = @ \cup {u}]
    [] Kind[u] = "disengage" ->
         [control EXCEPT !.disengage = [phase |-> "pending", ack |-> <<u, 0>>, ready |-> FALSE]]
    [] OTHER -> Asked(u, IF control.away.phase = "none" THEN None ELSE control.away.ack)

\* The row an accepted command asks for.  A timer that is still running is
\* kept as a snapshot, as is the snapshot of an away that is still pending.
Requested(u) ==
  CASE Kind[u] = "stop" -> [control EXCEPT !.interrupts = @ \cup {u}]
    [] Kind[u] = "disengage" ->
         [control EXCEPT !.disengage = [phase |-> "pending", ack |-> <<u, 0>>, ready |-> FALSE]]
    [] OTHER -> Asked(u, IF Away THEN control.away.until ELSE None)

\* A command that is accepted is acknowledged, one that is dropped is not.
Accepted(u) ==
  IF Kind[u] = "stop" THEN u \notin control.interrupts ELSE control.disengage.phase = "none"

HandleCommand(u) ==
  /\ At("process") /\ Current(u) /\ u \notin Messages
  /\ IF Accepted(u)
     THEN svc' = [svc EXCEPT !.pc = "write", !.then = "acknowledge", !.row = Requested(u)]
     ELSE Go("complete")
  /\ UNCHANGED <<action, control, update, jobs, polling, relay, delivered, elapsed, boots>>

Acknowledge(u) ==
  /\ At("acknowledge") /\ Current(u)
  /\ Outbound!CreateOutboundActions({<<u, 0>>})
  /\ Go("complete")
  /\ UNCHANGED <<control, update, jobs, polling, relay, delivered, elapsed, boots>>

CompleteUpdate(u) ==
  /\ At("complete") /\ Current(u)
  /\ Leave(u, [update[u] EXCEPT !.status = "completed"])
  /\ UNCHANGED <<action, control, jobs, polling, relay, delivered, elapsed, boots>>

-----------------------------------------------------------------------------
(***************************************************************************)
(* OutboundDrain.                                                          *)
(***************************************************************************)
Drain ==
  /\ At("drain")
  /\ \E S \in SUBSET Actions :
       /\ Outbound!ClaimDueOutboundActions(S)
       /\ svc' = [svc EXCEPT !.pc = "send", !.sends = S, !.sent = S # {}]
  /\ UNCHANGED <<control, update, jobs, polling, relay, delivered, elapsed, boots>>

\* The Bot API call.  Telegram may have carried out a call that failed on the
\* way, and one whose response cannot be parsed.
Send(a) ==
  /\ At("send") /\ a \in svc.sends
  /\ \E outcome \in Outcomes, done \in BOOLEAN :
       /\ outcome = "ok" => done
       /\ outcome = "rate_limited" => ~done
       /\ delivered' = [delivered EXCEPT ![a] = IF done THEN @ + 1 ELSE @]
       /\ svc' = [svc EXCEPT !.pc = "mark", !.current = a, !.outcome = outcome, !.sends = @ \ {a}]
  /\ UNCHANGED <<action, control, update, jobs, polling, relay, elapsed, boots>>

Mark ==
  LET a == svc.current
  IN  /\ At("mark")
      /\ CASE svc.outcome = "ok" -> Outbound!MarkOutboundSent(a)
           [] svc.outcome = "rate_limited" -> Outbound!MarkOutboundFailed(a, "later")
           [] svc.outcome = "transport_error" -> Outbound!MarkOutboundAmbiguous(a)
           [] OTHER -> Outbound!MarkOutboundFailed(a, "never")
      /\ svc' = [svc EXCEPT !.pc = "hook", !.outcome = "none"]
      /\ UNCHANGED <<control, update, jobs, polling, relay, delivered, elapsed, boots>>

Hook ==
  /\ At("hook")
  /\ SettleAck(svc.current, "send")
  /\ UNCHANGED <<action, control, update, jobs, polling, relay, delivered, elapsed, boots>>

\* Everything claimed has been sent.
Drained ==
  /\ At("send") /\ svc.sends = {}
  /\ svc' = [svc EXCEPT !.pc = IF svc.quiesce THEN "busy" ELSE "top", !.current = None,
                         !.sent = @ /\ svc.quiesce]
  /\ UNCHANGED <<action, control, update, jobs, polling, relay, delivered, elapsed, boots>>

RetryComesDue ==
  /\ \E a \in Actions : Outbound!RetryComesDue(a)
  /\ UNCHANGED <<control, update, jobs, svc, polling, relay, delivered, elapsed, boots>>

-----------------------------------------------------------------------------
(***************************************************************************)
(* Disengage.                                                              *)
(***************************************************************************)
Queued == {u \in Messages : phase[u] = "queued"}
Running == {u \in Messages : phase[u] = "running"}

\* The worker counts the undelivered actions, then the jobs: two queries.
CountActions ==
  /\ At("busy")
  /\ svc' = IF svc.sent \/ Outbound!Undelivered # {} THEN [svc EXCEPT !.pc = "top", !.sent = FALSE]
            ELSE [svc EXCEPT !.pc = "busy_jobs"]
  /\ UNCHANGED <<action, control, update, jobs, polling, relay, delivered, elapsed, boots>>

\* countActiveRelayJobs counts what is queued, not what a turn is running.
CountJobs ==
  /\ At("busy_jobs")
  /\ IF Queued # {} THEN Go("top")
     ELSE Stage([control EXCEPT !.disengage.ready = @ \/ Disengaged], "exit")
  /\ UNCHANGED <<action, control, update, jobs, polling, relay, delivered, elapsed, boots>>

\* Exit status 78: systemd does not restart the service.
Exit ==
  /\ At("exit")
  /\ svc' = [Idle EXCEPT !.pc = "exited"]
  /\ polling' = FALSE
  /\ UNCHANGED <<action, control, update, jobs, relay, delivered, elapsed, boots>>

-----------------------------------------------------------------------------
(***************************************************************************)
(* The relay: jobs, and interrupt requests.                                *)
(***************************************************************************)
Ready == Disengaged /\ control.disengage.ready

\* Once the service is ready to go, no relay claims any more.
RunJob ==
  /\ ~Ready
  /\ \E u \in Messages, t \in Turns : Lifecycle!Run({u}, t)
  /\ UNCHANGED <<action, control, update, svc, polling, relay, delivered, elapsed, boots>>

DropJob ==
  /\ \E u \in Messages : Lifecycle!Expire({u}) \/ Lifecycle!Fail({u})
  /\ UNCHANGED <<action, control, update, svc, polling, relay, delivered, elapsed, boots>>

\* Mutant: only the first chunk is created with the result.
AnswerFirstChunk ==
  /\ \E u \in Messages, t \in Turns :
       /\ Lifecycle!Answer({u}, t)
       /\ UNCHANGED action \/ Outbound!CreateOutboundActions({<<u, 1>>})
  /\ UNCHANGED <<control, update, svc, polling, relay, delivered, elapsed, boots>>

\* The result and its outbound actions are one transaction; a skip has none.
AnswerJob ==
  /\ \E u \in Messages, t \in Turns :
       /\ Lifecycle!Answer({u}, t)
       /\ UNCHANGED action \/ Outbound!CreateOutboundActions({a \in Actions : GroupOf[a] = u})
  /\ UNCHANGED <<control, update, svc, polling, relay, delivered, elapsed, boots>>

\* claimOnce sends an interrupt_request to the connector.
SendInterrupt(u) ==
  /\ relay.pc = "idle" /\ ~Ready
  /\ u \in control.interrupts
  /\ relay' = [relay EXCEPT !.pc = "inflight", !.request = u, !.heard = @ \cup {u}]
  /\ UNCHANGED <<action, control, update, jobs, svc, polling, delivered, elapsed, boots>>

RelayIdle == [relay EXCEPT !.pc = "idle", !.request = None, !.row = NoControl]

\* interrupt_recorded: completeInterrupt reads the row; a request that is no
\* longer there ends the relay.
ReadInterrupts ==
  /\ relay.pc = "inflight"
  /\ relay' = IF relay.request \in control.interrupts
              THEN [relay EXCEPT !.pc = "writing",
                                 !.row = [control EXCEPT !.interrupts = @ \ {relay.request}]]
              ELSE RelayIdle
  /\ UNCHANGED <<action, control, update, jobs, svc, polling, delivered, elapsed, boots>>

WriteInterrupts ==
  /\ relay.pc = "writing"
  /\ control' = relay.row
  /\ relay' = RelayIdle
  /\ UNCHANGED <<action, update, jobs, svc, polling, delivered, elapsed, boots>>

\* The relay process ends; the next one starts without an inflight request.
RelayEnds ==
  /\ relay.pc # "idle"
  /\ relay' = RelayIdle
  /\ UNCHANGED <<action, control, update, jobs, svc, polling, delivered, elapsed, boots>>

-----------------------------------------------------------------------------
Intake ==
  \/ RecoverLeases \/ ClearExpiredAway \/ ClaimUpdates
  \/ \E u \in Updates :
       \/ EnqueueJob(u) \/ FailUpdate(u) \/ ReleaseAway(u) \/ ReleaseUpdate(u)
       \/ HandleCommand(u) \/ Acknowledge(u) \/ CompleteUpdate(u)

Delivery == Drain \/ (\E a \in Actions : Send(a)) \/ Mark \/ Hook \/ Drained

Service == Recover \/ Start \/ Top \/ Intake \/ Delivery \/ CountActions \/ CountJobs \/ Exit \/ WriteControl

Relay ==
  \/ RunJob \/ DropJob \/ AnswerJob
  \/ (\E u \in Updates : SendInterrupt(u))
  \/ ReadInterrupts \/ WriteInterrupts \/ RelayEnds

Next ==
  \/ Boot \/ Crash \/ Engage \/ Service \/ RetryComesDue
  \/ (\E u \in Updates : StoreUpdate(u))
  \/ (\E a \in Acks : TimerRunsOut(a))
  \/ Relay

Spec == Init /\ [][Next]_vars

(***************************************************************************)
(* Fairness.  The worker loop goes on until the process dies or exits, and  *)
(* retries come due.  A job that is queued or running ends: the relays and  *)
(* its time to live see to that.  Telegram does not rate-limit one call for *)
(* ever.  Nothing is assumed of the user, crashes and restarts.            *)
(***************************************************************************)
Answered(a) == Send(a) /\ svc'.outcome # "rate_limited"

Fairness ==
  /\ WF_vars(Service) /\ WF_vars(RetryComesDue)
  /\ \A a \in Actions : SF_vars(Answered(a))
  /\ WF_vars(DropJob \/ AnswerJob)

FairSpec == Spec /\ Fairness
=============================================================================
