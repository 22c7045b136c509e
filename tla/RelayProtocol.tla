--------------------------- MODULE RelayProtocol ---------------------------
(***************************************************************************)
(* The processes around the relay tables: the transport service, one relay *)
(* process per connector (relay-stdio + RelayProtocolSession), the local    *)
(* connector processes (LocalSessionConnector), and the Codex app-server    *)
(* (external: one thread, at most one active turn, outlives connectors).    *)
(*                                                                         *)
(* A relay and its connector exchange lines over two FIFO pipes.  Either    *)
(* end may die at any moment; a supervisor starts the next connector, with  *)
(* a fresh identity, once the previous one has exited.                      *)
(***************************************************************************)
EXTENDS Integers, FiniteSets, Sequences

CONSTANTS
  Jobs, Connectors, Turns, ThreadOf, ConvOf, Control, WithAttachments,
  Oversized, AttachCapable, BatchLimit, JobLease, SessionLease, JobTtl,
  QuietMs, MaxWaitMs, None,
  MaxLocalTurns,   \* bound: turns started from the local TUI
  MaxBacklog,      \* bound: lines a connector may be ahead of its relay
  ClockRuns,       \* whether leases and deadlines pass at all
  MayKill          \* whether a relay process may die without running close()

ASSUME RelayProtocolAssumption ==
  /\ MaxLocalTurns \in Nat /\ MaxBacklog \in Nat \ {0}
  /\ MayKill \in BOOLEAN /\ ClockRuns \in BOOLEAN
  \* The supervisor starts every connector with one configured thread.
  /\ \A c, d \in Connectors : ThreadOf[c] = ThreadOf[d]

\* What RelayStore assumes of the constants it is instantiated with.
ASSUME StoreAssumption ==
  /\ Jobs \subseteq Nat
  /\ ThreadOf \in [Connectors -> {ThreadOf[c] : c \in Connectors}]
  /\ ConvOf \in [Jobs -> {ConvOf[j] : j \in Jobs}]
  /\ {JobLease, SessionLease, JobTtl} \subseteq Nat \ {0}
  /\ BatchLimit \in Nat \ {0}
  /\ QuietMs \in Nat /\ MaxWaitMs \in Nat /\ QuietMs <= MaxWaitMs
  /\ None \notin Connectors /\ None \notin Turns

VARIABLES
  job, session, answers,   \* the shared store, see RelayStore
  relay,                   \* relay[c]: the relay process serving connector c
  conn,                    \* conn[c]: connector process c
  turns,                   \* turns[t]: the app-server's turns
  toRelay,                 \* toRelay[c]: lines written by c, not yet handled
  toConn                   \* toConn[c]: lines written to c, not yet handled

storeVars == <<job, session, answers>>
vars == <<job, session, answers, relay, conn, turns, toRelay, toConn>>

Store == INSTANCE RelayStore

-----------------------------------------------------------------------------
(***************************************************************************)
(* State.  A batch is the set of its jobs; {} is "no batch" (null).        *)
(***************************************************************************)
RelayPcs ==
  {"none",       \* not spawned
   "open",       \* waiting for a line or for the claim timer
   "claiming",   \* inside claimOnce, ownership checked, claim not yet made
   "preparing",  \* inside claimOnce, batch leased, not yet sent
   "releasing",  \* inside claimOnce, one attachment job failed, the rest leased
   "closing",    \* a handler threw; close() has not run yet
   "leaving",    \* close() settled the batch, session not yet disconnected
   "gone"}       \* exited

RelayStates ==
  [pc : RelayPcs, hello : BOOLEAN, fatal : BOOLEAN, batch : SUBSET Jobs,
   accepting : BOOLEAN]

ConnPcs ==
  {"new",        \* not started
   "idle",       \* no current job
   "starting",   \* current job set, turn/start not yet answered
   "running",    \* current job has a turn
   "recording",  \* current job awaits job_recorded
   "down"}       \* exited

ConnStates ==
  [pc : ConnPcs, batch : SUBSET Jobs, turn : Turns \cup {None}, active : SUBSET Turns]

\* `by`, the connector that asked for the turn (None: the local TUI), is history.
TurnStates ==
  [status : {"unused", "running", "done"}, jobs : SUBSET Jobs, by : Connectors \cup {None}]

ResultKinds == {"reply", "skip", "invalid"}

FromConnector ==
  [type : {"hello", "heartbeat"}, accepting : BOOLEAN]
  \cup [type : {"job_accepted"}, batch : Store!Batches, turn : Turns]
  \cup [type : {"job_deferred"}, batch : Store!Batches]
  \cup [type : {"job_failed"}, batch : Store!Batches, turn : Turns \cup {None}]
  \cup [type : {"job_result"}, batch : Store!Batches, turn : Turns, result : ResultKinds]

FromRelay == [type : {"job_batch", "job_recorded"}, batch : Store!Batches]

TypeOK ==
  /\ Store!TypeOK
  /\ relay \in [Connectors -> RelayStates]
  /\ conn \in [Connectors -> ConnStates]
  /\ turns \in [Turns -> TurnStates]
  /\ toRelay \in [Connectors -> Seq(FromConnector)]
  /\ toConn \in [Connectors -> Seq(FromRelay)]

NewRelay == [pc |-> "none", hello |-> FALSE, fatal |-> FALSE, batch |-> {}, accepting |-> FALSE]
NewConn == [pc |-> "new", batch |-> {}, turn |-> None, active |-> {}]

Init ==
  /\ Store!Init
  /\ relay = [c \in Connectors |-> NewRelay]
  /\ conn = [c \in Connectors |-> NewConn]
  /\ turns = [t \in Turns |-> [status |-> "unused", jobs |-> {}, by |-> None]]
  /\ toRelay = [c \in Connectors |-> <<>>]
  /\ toConn = [c \in Connectors |-> <<>>]

-----------------------------------------------------------------------------
(***************************************************************************)
(* Helpers.                                                                *)
(***************************************************************************)
RunningTurns == {t \in Turns : turns[t].status = "running"}

Alive(c) == conn[c].pc \notin {"new", "down"}

\* Lines written to a dead connector are lost.
ToConn(c, frame) ==
  toConn' = IF Alive(c) THEN [toConn EXCEPT ![c] = Append(@, frame)] ELSE toConn

\* Lines written to a dead relay are lost; conn[c] writes while it is alive.
Reaches(c) == relay[c].pc # "gone"
ToRelay(c, frame) ==
  /\ Len(toRelay[c]) < MaxBacklog
  /\ toRelay' = IF Reaches(c) THEN [toRelay EXCEPT ![c] = Append(@, frame)] ELSE toRelay

Recorded(c, S) == ToConn(c, [type |-> "job_recorded", batch |-> S])

Heartbeat(accepting) == [type |-> "heartbeat", accepting |-> accepting]

\* LocalSessionConnector.#acceptingJobs for a given view of the active turns.
Available(c, active) == conn[c].pc = "idle" /\ active = {}

-----------------------------------------------------------------------------
(***************************************************************************)
(* The transport service and the clock.                                    *)
(***************************************************************************)
Enqueue ==
  /\ \E j \in Jobs, ttl \in 1..JobTtl : Store!EnqueueRelayJob(j, ttl)
  /\ UNCHANGED <<relay, conn, turns, toRelay, toConn>>

ExpireJobs ==
  /\ Store!ExpireRelayJobs
  /\ UNCHANGED <<relay, conn, turns, toRelay, toConn>>

\* Any reader of the session row, e.g. the offline notice of the dispatcher.
ReadSession ==
  /\ Store!GetRelaySession
  /\ UNCHANGED <<relay, conn, turns, toRelay, toConn>>

Tick ==
  /\ ClockRuns
  /\ Store!Tick
  /\ UNCHANGED <<relay, conn, turns, toRelay, toConn>>

-----------------------------------------------------------------------------
(***************************************************************************)
(* The relay process of connector c: the claim timer.                      *)
(***************************************************************************)
\* The pre-acceptance watchdog of claimOnce.
PreAcceptanceLapsed(c) ==
  /\ relay[c].batch # {}
  /\ \A j \in relay[c].batch : j \in Store!LeasedTo(c) /\ job[j].lease = 0

\* claimOnce throws: the line reader is closed, but lines it already holds are
\* still handled before close() runs.
ClaimFails(c) ==
  /\ relay[c].pc = "open" /\ relay[c].hello /\ ~relay[c].fatal
  /\ PreAcceptanceLapsed(c) \/ ~Store!OwnsRelaySession(c)
  /\ relay' = [relay EXCEPT ![c].fatal = TRUE]
  /\ UNCHANGED <<job, session, answers, conn, turns, toRelay, toConn>>

\* Mutant: a second batch is claimed while one is in flight.
CheckOwnershipOnly(c) ==
  /\ relay[c].pc = "open" /\ relay[c].hello
  /\ ~PreAcceptanceLapsed(c) /\ Store!OwnsRelaySession(c)
  /\ relay[c].accepting
  /\ relay' = [relay EXCEPT ![c].pc = "claiming"]
  /\ UNCHANGED <<job, session, answers, conn, turns, toRelay, toConn>>

\* Ownership is read here, the claim is a later transaction.
CheckOwnership(c) ==
  /\ relay[c].pc = "open" /\ relay[c].hello
  /\ ~PreAcceptanceLapsed(c) /\ Store!OwnsRelaySession(c)
  /\ relay[c].accepting /\ relay[c].batch = {}
  /\ relay' = [relay EXCEPT ![c].pc = "claiming"]
  /\ UNCHANGED <<job, session, answers, conn, turns, toRelay, toConn>>

Claim(c) ==
  /\ relay[c].pc = "claiming"
  /\ \E S \in SUBSET Jobs :
       /\ Store!ClaimRelayJobBatch(c, S)
       /\ relay' = [relay EXCEPT ![c].pc = IF S = {} THEN "open" ELSE "preparing",
                                 ![c].batch = S]
  /\ UNCHANGED <<conn, turns, toRelay, toConn>>

\* The oldest job does not fit into a frame: claimRelayJobBatch throws.
ClaimPoisoned(c) ==
  /\ relay[c].pc = "claiming"
  /\ Store!ClaimThrows(c)
  /\ relay' = [relay EXCEPT ![c].pc = "open", ![c].fatal = TRUE]
  /\ UNCHANGED <<job, session, answers, conn, turns, toRelay, toConn>>

SendBatch(c) ==
  /\ relay[c].pc = "preparing"
  /\ relay' = [relay EXCEPT ![c].pc = "open", ![c].accepting = FALSE]
  /\ ToConn(c, [type |-> "job_batch", batch |-> relay[c].batch])
  /\ UNCHANGED <<job, session, answers, conn, turns, toRelay>>

\* An attachment that cannot be read fails its own job, then releases the rest;
\* a failure that names no job, or a batch whose frame is too large, fails all.
QuarantineJobs(c, S) ==
  /\ relay[c].pc = "preparing"
  /\ S = relay[c].batch \/ \E j \in relay[c].batch \cap WithAttachments : S = {j}
  /\ \/ /\ Store!FailRelayJobBatch(c, S, None)
        /\ relay' = [relay EXCEPT ![c].pc = IF S = relay[c].batch THEN "open" ELSE "releasing",
                                  ![c].batch = @ \ S]
     \/ /\ ~(S \subseteq Store!LeasedTo(c))
        /\ relay' = [relay EXCEPT ![c].pc = "open", ![c].fatal = TRUE, ![c].batch = {}]
        /\ UNCHANGED storeVars
  /\ UNCHANGED <<conn, turns, toRelay, toConn>>

Quarantine(c) == \E S \in Store!Batches : QuarantineJobs(c, S)

ReleaseRest(c) ==
  /\ relay[c].pc = "releasing"
  /\ \/ /\ Store!ReleaseRelayJobBatch(c, relay[c].batch)
        /\ relay' = [relay EXCEPT ![c].pc = "open", ![c].batch = {}]
     \/ /\ ~(relay[c].batch \subseteq Store!LeasedTo(c))
        /\ relay' = [relay EXCEPT ![c].pc = "open", ![c].fatal = TRUE, ![c].batch = {}]
        /\ UNCHANGED storeVars
  /\ UNCHANGED <<conn, turns, toRelay, toConn>>

-----------------------------------------------------------------------------
(***************************************************************************)
(* The relay process of connector c: lines from the connector.             *)
(***************************************************************************)
Line(c, type) ==
  /\ relay[c].pc = "open"
  /\ toRelay[c] # <<>>
  /\ Head(toRelay[c]).type = type

Consume(c) == toRelay' = [toRelay EXCEPT ![c] = Tail(@)]

\* The handler throws: no further line is handled.
HandlerThrows(c) ==
  /\ relay' = [relay EXCEPT ![c].pc = "closing"]
  /\ UNCHANGED <<job, session, answers, toConn>>

HandleHello(c) ==
  /\ Line(c, "hello")
  /\ Store!RegisterRelaySession(c)
  /\ relay' = [relay EXCEPT ![c].hello = TRUE,
                            ![c].accepting = Head(toRelay[c]).accepting]
  /\ Consume(c)
  /\ UNCHANGED <<conn, turns, toConn>>

HandleHeartbeat(c) ==
  /\ Line(c, "heartbeat")
  /\ \/ /\ Store!HeartbeatRelaySession(c)
        /\ relay' = [relay EXCEPT ![c].accepting = Head(toRelay[c]).accepting]
        /\ UNCHANGED toConn
     \/ ~Store!OwnsRelaySession(c) /\ HandlerThrows(c)
  /\ Consume(c)
  /\ UNCHANGED <<conn, turns>>

\* Frames name a batch by its id, which is made of its first and last job.
SameBatch(S, T) == Store!Ends(S) = Store!Ends(T)

\* #requireInflight
Matches(c) == SameBatch(Head(toRelay[c]).batch, relay[c].batch)

HandleAccepted(c) ==
  /\ Line(c, "job_accepted")
  /\ \/ /\ Matches(c)
        /\ Store!AcceptRelayJobBatch(c, relay[c].batch, Head(toRelay[c]).turn)
        /\ UNCHANGED <<relay, toConn>>
     \/ /\ ~(Matches(c) /\ relay[c].batch \subseteq Store!LeasedTo(c))
        /\ HandlerThrows(c)
  /\ Consume(c)
  /\ UNCHANGED <<conn, turns>>

\* Mutant: the connector is not told.
FinishSilently(c) ==
  /\ relay' = [relay EXCEPT ![c].batch = {}]
  /\ UNCHANGED toConn

\* The batch is over: forget it and tell the connector.
FinishBatch(c) ==
  /\ relay' = [relay EXCEPT ![c].batch = {}]
  /\ Recorded(c, relay[c].batch)

HandleDeferred(c) ==
  /\ Line(c, "job_deferred")
  /\ \/ /\ Matches(c)
        /\ Store!ReleaseRelayJobBatch(c, relay[c].batch)
        /\ FinishBatch(c)
     \/ /\ ~(Matches(c) /\ relay[c].batch \subseteq Store!LeasedTo(c))
        /\ HandlerThrows(c)
  /\ Consume(c)
  /\ UNCHANGED <<conn, turns>>

\* A result that breaks the output contract fails the batch of the turn; one that it
\* does not foresee (a dice with an unknown emoji) throws.
HandleResult(c) ==
  LET f == Head(toRelay[c])
  IN  /\ Line(c, "job_result")
      /\ \/ /\ Matches(c)
            /\ relay[c].batch \subseteq Store!OwnedBy(f.turn)
            /\ IF f.result = "invalid"
               THEN Store!FailRelayJobBatch(c, relay[c].batch, f.turn)
               ELSE \E batch \in Store!Ends(relay[c].batch) :
                      Store!FinalizeRelayJobBatch(batch, relay[c].batch, f.turn, f.result)
            /\ FinishBatch(c)
         \/ HandlerThrows(c)
      /\ Consume(c)
      /\ UNCHANGED <<conn, turns>>

\* Accepted jobs fail in the name of the turn, others in the connector's.
HandleFailed(c) ==
  LET f == Head(toRelay[c])
      accepted == \A j \in relay[c].batch : job[j].status = "accepted"
      mine == IF accepted THEN Store!OwnedBy(f.turn) ELSE Store!LeasedTo(c)
  IN  /\ Line(c, "job_failed")
      /\ \/ /\ Matches(c)
            /\ relay[c].batch \subseteq mine
            /\ Store!FailRelayJobBatch(c, relay[c].batch, f.turn)
            /\ FinishBatch(c)
         \/ /\ ~(Matches(c) /\ relay[c].batch \subseteq mine)
            /\ HandlerThrows(c)
      /\ Consume(c)
      /\ UNCHANGED <<conn, turns>>

-----------------------------------------------------------------------------
(***************************************************************************)
(* The relay process of connector c: the end.                              *)
(***************************************************************************)
\* close() is reached after an error, or at end of input.
Ending(c) ==
  \/ relay[c].pc = "closing"
  \/ /\ relay[c].pc = "open"
     /\ relay[c].fatal \/ (conn[c].pc = "down" /\ toRelay[c] = <<>>)

\* Mutant: close() returns its batch to the queue whatever its state.
CloseRequeues(c) ==
  /\ Ending(c)
  /\ job' = Store!Update([j \in relay[c].batch |-> Store!Unlease(job[j])])
  /\ relay' = [relay EXCEPT ![c].pc = "leaving", ![c].batch = {}]
  /\ UNCHANGED <<session, answers, conn, turns, toRelay, toConn>>

\* First transaction of close(): an accepted batch fails, a leased one returns
\* to the queue, anything else is left alone.
CloseSettles(c) ==
  LET S == relay[c].batch
      sameTurn == \E t \in Turns : S \subseteq Store!OwnedBy(t)
      leased == S \subseteq Store!LeasedTo(c)
  IN  /\ Ending(c)
      /\ \/ S # {} /\ \E t \in Turns : /\ S \subseteq Store!OwnedBy(t)
                                       /\ Store!FailRelayJobBatch(c, S, t)
         \/ S # {} /\ leased /\ Store!ReleaseRelayJobBatch(c, S)
         \/ (S = {} \/ ~(sameTurn \/ leased)) /\ UNCHANGED storeVars
      /\ relay' = [relay EXCEPT ![c].pc = "leaving", ![c].batch = {}]
      /\ UNCHANGED <<conn, turns, toRelay, toConn>>

Gone(c) == relay' = [relay EXCEPT ![c] = [NewRelay EXCEPT !.pc = "gone"]]

\* Second transaction of close(), then the process exits.
CloseDisconnects(c) ==
  /\ relay[c].pc = "leaving"
  /\ \/ relay[c].hello /\ Store!DisconnectRelaySession(c)
     \/ ~(relay[c].hello /\ Store!OwnsRelaySession(c)) /\ UNCHANGED storeVars
  /\ Gone(c)
  /\ toRelay' = [toRelay EXCEPT ![c] = <<>>]
  /\ UNCHANGED <<conn, turns, toConn>>

\* SIGTERM (ProcessRelayClient.close), SIGKILL, or the host: no close().
Kill(c) ==
  /\ MayKill
  /\ relay[c].pc \notin {"none", "gone"}
  /\ Gone(c)
  /\ toRelay' = [toRelay EXCEPT ![c] = <<>>]
  /\ UNCHANGED <<job, session, answers, conn, turns, toConn>>

-----------------------------------------------------------------------------
(***************************************************************************)
(* Connector process c.                                                    *)
(***************************************************************************)
\* start(): resume the thread, spawn a relay, say hello.
Connect(c) ==
  /\ conn[c].pc = "new"
  /\ \A d \in Connectors : ~Alive(d)
  /\ conn' = [conn EXCEPT ![c] = [NewConn EXCEPT !.pc = "idle", !.active = RunningTurns]]
  /\ relay' = [relay EXCEPT ![c].pc = "open"]
  /\ toRelay' = [toRelay EXCEPT ![c] =
       <<[type |-> "hello", accepting |-> RunningTurns = {}]>>]
  /\ UNCHANGED <<job, session, answers, turns, toConn>>

\* Crash or exit at any moment.  Lines already written may or may not arrive.
Stop(c) ==
  /\ Alive(c)
  /\ conn' = [conn EXCEPT ![c] = [NewConn EXCEPT !.pc = "down"]]
  /\ \E n \in 0..Len(toRelay[c]) : toRelay' = [toRelay EXCEPT ![c] = SubSeq(@, 1, n)]
  /\ toConn' = [toConn EXCEPT ![c] = <<>>]
  /\ UNCHANGED <<job, session, answers, relay, turns>>

\* The heartbeat timer.  Bound: it only speaks when its pipe is empty.
TimerHeartbeat(c) ==
  /\ Alive(c) /\ toRelay[c] = <<>>
  /\ ToRelay(c, Heartbeat(Available(c, conn[c].active)))
  /\ UNCHANGED <<job, session, answers, relay, conn, turns, toConn>>

\* #reconcileAvailability: the thread's own list of active turns wins.
Reconcile(c) ==
  /\ conn[c].pc = "idle"
  /\ conn[c].active # RunningTurns
  /\ conn' = [conn EXCEPT ![c].active = RunningTurns]
  /\ ToRelay(c, Heartbeat(RunningTurns = {}))
  /\ UNCHANGED <<job, session, answers, relay, turns, toConn>>

\* notification turn/started; the chain is busy while a turn is starting.
NoticeTurnStarted(c) ==
  /\ Alive(c) /\ conn[c].pc # "starting"
  /\ \E t \in RunningTurns \ conn[c].active :
       conn' = [conn EXCEPT ![c].active = @ \cup {t}]
  /\ ToRelay(c, Heartbeat(FALSE))
  /\ UNCHANGED <<job, session, answers, relay, turns, toConn>>

\* notification turn/completed for a turn that is not the current job's.
NoticeTurnCompleted(c) ==
  /\ Alive(c) /\ conn[c].pc # "starting"
  /\ \E t \in conn[c].active :
       /\ turns[t].status = "done"
       /\ t # conn[c].turn \/ conn[c].pc = "recording"
       /\ conn' = [conn EXCEPT ![c].active = @ \ {t}]
       /\ ToRelay(c, Heartbeat(Available(c, conn[c].active \ {t})))
  /\ UNCHANGED <<job, session, answers, relay, turns, toConn>>

\* Mutant: a turn that ended without a final message is not reported.
ReportSometimes(c) ==
  /\ conn[c].pc = "running"
  /\ turns[conn[c].turn].status = "done"
  /\ conn' = [conn EXCEPT ![c].pc = "recording", ![c].active = @ \ {conn[c].turn}]
  /\ UNCHANGED <<job, session, answers, relay, turns, toRelay, toConn>>

\* notification turn/completed for the current job: report what came of it.
ReportTurn(c) ==
  LET t == conn[c].turn
      S == conn[c].batch
  IN  /\ conn[c].pc = "running"
      /\ turns[t].status = "done"
      /\ conn' = [conn EXCEPT ![c].pc = "recording", ![c].active = @ \ {t}]
      /\ \/ ToRelay(c, [type |-> "job_failed", batch |-> S, turn |-> t])
         \/ \E r \in ResultKinds :
              ToRelay(c, [type |-> "job_result", batch |-> S, turn |-> t, result |-> r])
      /\ UNCHANGED <<job, session, answers, relay, turns, toConn>>

Received(c, type) ==
  /\ Alive(c) /\ conn[c].pc # "starting"
  /\ toConn[c] # <<>>
  /\ Head(toConn[c]).type = type
  /\ toConn' = [toConn EXCEPT ![c] = Tail(@)]

ReceiveBatch(c) ==
  /\ Received(c, "job_batch")
  /\ Available(c, conn[c].active)
  /\ conn' = [conn EXCEPT ![c].pc = "starting", ![c].batch = Head(toConn[c]).batch]
  /\ ToRelay(c, Heartbeat(FALSE))
  /\ UNCHANGED <<job, session, answers, relay, turns>>

DeferBatch(c) ==
  /\ Received(c, "job_batch")
  /\ ~Available(c, conn[c].active)
  /\ ToRelay(c, [type |-> "job_deferred", batch |-> Head(toConn[c]).batch])
  /\ UNCHANGED <<job, session, answers, relay, conn, turns>>

\* job_recorded for the current job ends it, any other is ignored.
ReceiveRecorded(c) ==
  /\ Received(c, "job_recorded")
  /\ \/ /\ SameBatch(Head(toConn[c]).batch, conn[c].batch)
        /\ conn' = [conn EXCEPT ![c].pc = "idle", ![c].batch = {}, ![c].turn = None]
        /\ ToRelay(c, Heartbeat(conn[c].active = {}))
     \/ /\ ~SameBatch(Head(toConn[c]).batch, conn[c].batch)
        /\ UNCHANGED <<conn, toRelay>>
  /\ UNCHANGED <<job, session, answers, relay, turns>>

-----------------------------------------------------------------------------
(***************************************************************************)
(* turn/start, answered by the app-server (external).                      *)
(***************************************************************************)
CanStart(t) == RunningTurns = {} /\ turns[t].status = "unused"

StartTurn(t, S, c) ==
  turns' = [turns EXCEPT ![t] = [status |-> "running", jobs |-> S, by |-> c]]

\* The turn exists before its id is known to anyone but the connector.
TurnStarted(c) ==
  /\ conn[c].pc = "starting"
  /\ \E t \in Turns :
       /\ CanStart(t)
       /\ StartTurn(t, conn[c].batch, c)
       /\ conn' = [conn EXCEPT ![c].pc = "running", ![c].turn = t,
                               ![c].active = @ \cup {t}]
       /\ ToRelay(c, [type |-> "job_accepted", batch |-> conn[c].batch, turn |-> t])
  /\ UNCHANGED <<job, session, answers, relay, toConn>>

\* 'active turn' error: give the batch back.
TurnRefused(c) ==
  /\ conn[c].pc = "starting"
  /\ RunningTurns # {}
  /\ conn' = [conn EXCEPT ![c].pc = "recording"]
  /\ ToRelay(c, [type |-> "job_deferred", batch |-> conn[c].batch])
  /\ UNCHANGED <<job, session, answers, relay, turns, toConn>>

\* Any other error, including the 30 s request timeout after which the turn may
\* be running all the same.
TurnStartFails(c) ==
  /\ conn[c].pc = "starting"
  /\ \/ UNCHANGED turns
     \/ \E t \in Turns : CanStart(t) /\ StartTurn(t, conn[c].batch, c)
  /\ conn' = [conn EXCEPT ![c].pc = "recording"]
  /\ ToRelay(c, [type |-> "job_failed", batch |-> conn[c].batch, turn |-> None])
  /\ UNCHANGED <<job, session, answers, relay, toConn>>

\* The user types into the TUI on the same thread.
LocalTurn ==
  /\ Cardinality({t \in Turns : turns[t].status # "unused" /\ turns[t].by = None}) < MaxLocalTurns
  /\ \E t \in Turns : CanStart(t) /\ StartTurn(t, {}, None)
  /\ UNCHANGED <<job, session, answers, relay, conn, toRelay, toConn>>

FinishTurn(t) ==
  /\ turns[t].status = "running"
  /\ turns' = [turns EXCEPT ![t].status = "done"]
  /\ UNCHANGED <<job, session, answers, relay, conn, toRelay, toConn>>

-----------------------------------------------------------------------------
HandleLine(c) ==
  \/ HandleHello(c) \/ HandleHeartbeat(c) \/ HandleAccepted(c)
  \/ HandleDeferred(c) \/ HandleResult(c) \/ HandleFailed(c)

FinishClaim(c) ==
  Claim(c) \/ ClaimPoisoned(c) \/ SendBatch(c) \/ Quarantine(c) \/ ReleaseRest(c)

RelayStep(c) ==
  \/ ClaimFails(c) \/ CheckOwnership(c) \/ FinishClaim(c) \/ HandleLine(c)
  \/ CloseSettles(c) \/ CloseDisconnects(c)

ReceiveLine(c) == ReceiveBatch(c) \/ DeferBatch(c) \/ ReceiveRecorded(c)

AnswerTurnStart(c) == TurnStarted(c) \/ TurnRefused(c) \/ TurnStartFails(c)

ConnStep(c) ==
  \/ TimerHeartbeat(c) \/ Reconcile(c)
  \/ NoticeTurnStarted(c) \/ NoticeTurnCompleted(c) \/ ReportTurn(c)
  \/ ReceiveLine(c) \/ AnswerTurnStart(c)

Next ==
  \/ Enqueue \/ ExpireJobs \/ ReadSession \/ Tick
  \/ \E c \in Connectors : RelayStep(c) \/ ConnStep(c) \/ Connect(c) \/ Stop(c) \/ Kill(c)
  \/ LocalTurn
  \/ \E t \in Turns : FinishTurn(t)

Spec == Init /\ [][Next]_vars

(***************************************************************************)
(* Fairness.  Inside a relay or a connector everything runs off one promise *)
(* chain, which is FIFO: a line that has been read, a timer tick or an exit *)
(* that is due cannot be overtaken for ever, even though other work on the  *)
(* chain disables it now and then (SF).  Timers keep firing, so the clock   *)
(* and the transport loop make progress.  A connector whose relay is gone   *)
(* sees its output close and exits.  turn/start is answered or times out.   *)
(* Assumed of the app-server: a turn ends.  Nothing is assumed of users,    *)
(* crashes, kills or restarts.                                             *)
(***************************************************************************)
Fairness ==
  /\ WF_vars(Tick) /\ WF_vars(ExpireJobs)
  /\ \A c \in Connectors :
       /\ SF_vars(HandleLine(c)) /\ SF_vars(ClaimFails(c)) /\ SF_vars(CheckOwnership(c))
       /\ WF_vars(FinishClaim(c))
       /\ SF_vars(CloseSettles(c)) /\ WF_vars(CloseDisconnects(c))
       /\ SF_vars(ReceiveLine(c)) /\ WF_vars(AnswerTurnStart(c)) /\ WF_vars(ReportTurn(c))
       /\ WF_vars(relay[c].pc = "gone" /\ Stop(c))
  /\ \A t \in Turns : WF_vars(FinishTurn(t))

FairSpec == Spec /\ Fairness
=============================================================================
