----------------------------- MODULE DirectMode -----------------------------
(***************************************************************************)
(* Direct mode: one bridge process runs the owner's Codex turns itself.    *)
(*                                                                         *)
(* The main worker drains updates, outbound actions and wakes in turn and  *)
(* waits for each batch; a second worker claims only the owner's stops and *)
(* approval callbacks, so that they pass a running turn.  The runner keeps *)
(* the turn in memory and in the conversation's row, the approval router   *)
(* keeps the app-server's open requests in memory and in the approvals     *)
(* table.  The app-server (external) outlives the bridge.                  *)
(*                                                                         *)
(* One conversation is modelled: conversations share only the turn         *)
(* semaphore.  A step runs from one await of the code to the next.         *)
(***************************************************************************)
EXTENDS Integers, FiniteSets, Sequences

CONSTANTS
  Updates,      \* update and wake identifiers, in Telegram's order
  Situations,   \* the updates to come and the bounds on what goes wrong
  Chunks,       \* length of the longest answer in Telegram messages
  MaxAttempts,  \* attempts before a failure is permanent (5 in the code)
  MaxTurns      \* bound: turns the app-server ever accepts

Kinds == {"message", "reaction", "stop", "new", "tap", "wake", "absent"}

\* kind[u]: what update u is, if there is one.  The other fields are bounds: length of an
\* answer, approval requests of the app-server, failures and refusals of the other side,
\* bridge restarts.
Situation == [kind : [Updates -> Kinds], chunks : 1 .. Chunks,
              asks : Nat, faults : Nat, boots : Nat]

ASSUME DirectModeAssumption ==
  /\ Updates \subseteq Nat \ {0}   \* 0 stands for SQL NULL
  /\ {Chunks, MaxAttempts, MaxTurns} \subseteq Nat \ {0}
  /\ Situations \subseteq Situation
  \* Commands and callbacks count in the owner's DM only, and only reactions in
  \* a forum topic are handled under another key than the one they are chained by.
  /\ \A s \in Situations : \A u, v \in Updates :
       s.kind[u] = "reaction" => s.kind[v] \notin {"stop", "new", "tap"}

VARIABLES
  row,     \* row[u]: its row of telegram_updates (wake_requests for a wake)
  work,    \* work[u]: the run of processClaimedUpdate or #processWake for u
  batch,   \* what the main worker, the control worker and the outbound drain hold
  conv,    \* the conversation's row, its active_source setting, threads opened
  mem,     \* the runner's activeTurns, startingConversations, pendingInterrupts
  turns,   \* turns[t]: turn t at the app-server and its interruptPromise
  ask,     \* ask[t]: the approval request of turn t
  out,     \* out[u]: the outbound actions of u
  press,   \* press[u]: the button that callback update u stands for
  stage,   \* the process: down, recovering its interrupted turn, or up
  budget   \* the situation: the kinds of updates, and what is left of its bounds

vars == <<row, work, batch, conv, mem, turns, ask, out, press, stage, budget>>

-----------------------------------------------------------------------------
Turns == 1 .. Len(turns)
Ended == {"completed", "failed", "interrupted"}
Settled == {"completed", "failed", "expired"}

\* "backoff": pending, not yet available; "lapsed": processing, its lease over.
RowStates ==
  {"unseen", "pending", "backoff", "processing", "lapsed"} \cup Settled

WorkStates ==
  [pc : {"idle", "queued", "saving", "resuming", "opening", "starting", "halting",
         "waiting", "overdue", "answering", "sending", "stopping", "acking"},
   turn : Nat,      \* the turn run, or being stopped
   thread : Nat,    \* the thread resumed or opened
   reply : Nat,     \* turn in the app-server's answer to turn/start, 0: none yet
   broke : BOOLEAN, \* contextBreak
   part : 0 .. Chunks] \* outbound action being sent

PartStates == {"none", "sending", "sent", "retry", "failed", "ambiguous"}

ActiveTurns ==
  {<<>>} \cup ({"starting"} \X Updates) \cup ({"turn"} \X (1 .. MaxTurns))

TurnStates ==
  [source : Updates, thread : Nat, status : {"accepted", "running"} \cup Ended,
   interrupt : {"none", "awaiting", "requested", "answered", "refused", "done", "failed"}]

\* `torn` and `lost` are history: the runs under which another run detached the thread,
\* and whether the bridge died while the row did not show what such a run was about.
Conversation ==
  [thread : Nat, active : ActiveTurns, source : Updates \cup {0}, opened : Nat,
   torn : SUBSET Updates, lost : BOOLEAN]

\* `answer`: what the app-server has read; `way`: a response on its way there, or lost.
AskStates ==
  [state : {"none", "pending", "approved", "denied", "expired"}, due : BOOLEAN,
   held : BOOLEAN, prompt : {"none", "sending", "shown"},
   way : {"none", "approve", "deny", "lost"}, answer : {"none", "approve", "deny"}]

TypeOK ==
  /\ row \in [Updates -> [status : RowStates, attempts : Nat]]
  /\ work \in [Updates -> WorkStates]
  /\ batch \in [main : SUBSET Updates, control : SUBSET Updates,
                drain : SUBSET (Updates \X (0 .. Chunks))]
  /\ conv \in Conversation
  /\ mem \in [active : 0 .. MaxTurns, starting : BOOLEAN, pending : BOOLEAN]
  /\ turns \in Seq(TurnStates) /\ Len(turns) <= MaxTurns
  /\ ask \in [1 .. MaxTurns -> AskStates]
  /\ out \in [Updates -> [part : [0 .. Chunks -> PartStates],
                          said : {"none", "stopped", "idle", "new"}]]
  /\ press \in [Updates -> [turn : 0 .. MaxTurns, decision : {"approve", "deny"}]]
  /\ stage \in {"down", "recovering", "up"}
  /\ budget \in Situation

Idle == [pc |-> "idle", turn |-> 0, thread |-> 0, reply |-> 0, broke |-> FALSE, part |-> 0]
Unasked == [state |-> "none", due |-> FALSE, held |-> FALSE, prompt |-> "none",
            way |-> "none", answer |-> "none"]

Init ==
  /\ row = [u \in Updates |-> [status |-> "unseen", attempts |-> 0]]
  /\ work = [u \in Updates |-> Idle]
  /\ batch = [main |-> {}, control |-> {}, drain |-> {}]
  /\ conv = [thread |-> 0, active |-> <<>>, source |-> 0, opened |-> 0,
             torn |-> {}, lost |-> FALSE]
  /\ mem = [active |-> 0, starting |-> FALSE, pending |-> FALSE]
  /\ turns = <<>>
  /\ ask = [t \in 1 .. MaxTurns |-> Unasked]
  /\ out = [u \in Updates |-> [part |-> [k \in 0 .. Chunks |-> "none"], said |-> "none"]]
  /\ press = [u \in Updates |-> [turn |-> 0, decision |-> "deny"]]
  /\ stage = "up"
  /\ budget \in Situations

Up == stage = "up"
Kind == budget.kind
Fault == budget.faults > 0 /\ budget' = [budget EXCEPT !.faults = @ - 1]
NoFault == UNCHANGED budget

-----------------------------------------------------------------------------
(* Rows and runs. *)

IsWake(u) == Kind[u] = "wake"
RunsTurn(u) == Kind[u] \in {"message", "reaction", "wake"}

\* A reaction is chained under its chat, then given the topic of its message.
Chain(u) == IF Kind[u] = "reaction" THEN u ELSE 0

\* The run of u leaves its worker's batch and its row gets status s.
Leave(u, s) ==
  /\ row' = [row EXCEPT ![u].status = s]
  /\ work' = [work EXCEPT ![u] = Idle]
  /\ batch' = [batch EXCEPT !.main = @ \ {u}, !.control = @ \ {u}]

CompleteUpdate(u) == Leave(u, "completed")

\* `accepted`: the error carries turnAccepted.
FailUpdate(u, accepted) ==
  Leave(u, IF accepted \/ row[u].attempts >= MaxAttempts THEN "failed" ELSE "backoff")

Goto(u, pc) == work' = [work EXCEPT ![u].pc = pc]

Overdue(t) == ask[t].held /\ ask[t].state = "pending" /\ ask[t].due

\* Mutant: the row expires, the request stays open.
ExpireRows ==
  ask' = [t \in DOMAIN ask |->
            IF Overdue(t) THEN [ask[t] EXCEPT !.state = "expired"] ELSE ask[t]]

\* respond: request r is answered once, a second answer throws.
Respond(r, a) == IF r.way = "none" /\ r.answer = "none" THEN [r EXCEPT !.way = a] ELSE r

\* expirePending denies every open request whose time is over.  If the socket is
\* closed it throws, and the worker and the bridge end (Crash).
ExpirePending ==
  ask' = [t \in DOMAIN ask |->
            IF Overdue(t)
            THEN Respond([ask[t] EXCEPT !.state = "expired", !.held = FALSE], "deny")
            ELSE ask[t]]

Claim(S, pc) ==
  /\ row' = [u \in Updates |->
               IF u \in S THEN [status |-> "processing", attempts |-> row[u].attempts + 1]
               ELSE row[u]]
  /\ work' = [u \in Updates |-> IF u \in S THEN [Idle EXCEPT !.pc = pc[u]] ELSE work[u]]

\* Stops in the main worker's batch preempt the chains.
Preempts(u) == Kind[u] = "stop"

\* Mutant: without recoverExpiredLeases.
DrainFreshUpdates ==
  LET claimed == {u \in Updates : ~IsWake(u) /\ row[u].status = "pending"}
  IN  /\ Up /\ batch.main = {} /\ batch.drain = {}
      /\ claimed # {} \/ \E t \in DOMAIN ask : Overdue(t)
      /\ ExpirePending
      /\ Claim(claimed, [u \in claimed |-> IF Preempts(u) THEN "saving" ELSE "queued"])
      /\ batch' = [batch EXCEPT !.main = claimed]
      /\ UNCHANGED <<conv, mem, turns, out, press, stage, budget>>

\* drainOnce: expired leases return to the queue and are claimed with the rest.
DrainUpdates ==
  LET claimed == {u \in Updates : ~IsWake(u) /\ row[u].status \in {"pending", "lapsed"}}
  IN  /\ Up /\ batch.main = {} /\ batch.drain = {}
      /\ claimed # {} \/ \E t \in DOMAIN ask : Overdue(t)
      /\ ExpirePending
      /\ Claim(claimed, [u \in claimed |-> IF Preempts(u) THEN "saving" ELSE "queued"])
      /\ batch' = [batch EXCEPT !.main = claimed]
      /\ UNCHANGED <<conv, mem, turns, out, press, stage, budget>>

\* drainControlsOnce: owner stops and callbacks only, and no lease recovery.
DrainControls ==
  LET claimed == {u \in Updates : Kind[u] \in {"stop", "tap"} /\ row[u].status = "pending"}
  IN  /\ Up /\ batch.control = {}
      /\ claimed # {} \/ \E t \in DOMAIN ask : Overdue(t)
      /\ ExpirePending
      /\ Claim(claimed, [u \in claimed |-> "saving"])
      /\ batch' = [batch EXCEPT !.control = claimed]
      /\ UNCHANGED <<conv, mem, turns, out, press, stage, budget>>

\* drainWakesOnce: wakes past their time expire, whatever became of their run.
DrainWakes ==
  \E gone \in SUBSET {u \in Updates : IsWake(u) /\ row[u].status \notin Settled \cup {"unseen"}} :
    LET claimed == {u \in Updates : IsWake(u) /\ row[u].status \in {"pending", "lapsed"}} \ gone
    IN  /\ Up /\ batch.main = {} /\ batch.drain = {} /\ gone \cup claimed # {}
        /\ row' = [u \in Updates |->
                     CASE u \in gone -> [row[u] EXCEPT !.status = "expired"]
                       [] u \in claimed -> [status |-> "processing",
                                            attempts |-> row[u].attempts + 1]
                       [] OTHER -> row[u]]
        /\ work' = [u \in Updates |-> IF u \in claimed THEN [Idle EXCEPT !.pc = "queued"]
                                      ELSE work[u]]
        /\ batch' = [batch EXCEPT !.main = claimed]
        /\ UNCHANGED <<conv, mem, turns, ask, out, press, stage, budget>>

\* #schedule: a chain runs its tasks one after the other.
RunQueued(u) ==
  /\ work[u].pc = "queued"
  /\ ~\E v \in batch.main : v < u /\ Chain(v) = Chain(u) /\ ~Preempts(v)
  /\ Goto(u, "saving")
  /\ UNCHANGED <<row, batch, conv, mem, turns, ask, out, press, stage, budget>>

\* Saving an attachment fails (#recordApprovedUpdate).
SaveFails(u) ==
  /\ work[u].pc = "saving" /\ Kind[u] = "message" /\ Fault
  /\ \E permanent \in BOOLEAN : FailUpdate(u, permanent)
  /\ UNCHANGED <<conv, mem, turns, ask, out, press, stage>>

-----------------------------------------------------------------------------
(* CodexRunner.runTurn *)

\* What a run is doing while it uses the conversation's thread, and a turn on it.
OnTurn == {"starting", "halting", "waiting", "overdue"}
OnThread == {"resuming"} \cup OnTurn

\* The run of u detaches the thread, whoever else is on it.
DetachThread(u) ==
  conv' = [conv EXCEPT !.thread = 0, !.active = <<>>,
                       !.torn = @ \cup {v \in Updates \ {u} : work[v].pc \in OnThread}]

ClearActiveTurn(c, active) ==
  IF c.active = active THEN [c EXCEPT !.active = <<>>, !.source = 0] ELSE c

RunTurn(u) ==
  /\ work[u].pc = "saving" /\ RunsTurn(u)
  /\ mem' = [mem EXCEPT !.starting = TRUE]
  /\ work' = [work EXCEPT ![u].pc = IF conv.thread # 0 THEN "resuming" ELSE "opening",
                          ![u].thread = conv.thread]
  /\ UNCHANGED <<row, batch, conv, turns, ask, out, press, stage, budget>>

\* A failure before beginActiveTurn: the update may be tried again.
NotStarted(u) ==
  /\ mem' = [mem EXCEPT !.starting = FALSE, !.pending = FALSE]
  /\ FailUpdate(u, FALSE)

ThreadFails(u) ==
  /\ work[u].pc \in {"resuming", "opening"} /\ Fault
  /\ NotStarted(u)
  /\ UNCHANGED <<conv, turns, ask, out, press, stage>>

ThreadStale(u) ==
  /\ work[u].pc = "resuming" /\ Fault
  /\ DetachThread(u)
  /\ work' = [work EXCEPT ![u].pc = "opening", ![u].broke = TRUE]
  /\ UNCHANGED <<row, batch, mem, turns, ask, out, press, stage>>

\* beginActiveTurn on conversation row c, then the request turn/start.
BeginActiveTurn(u, c, thread) ==
  IF c.active \notin {<<>>, <<"starting", u>>}
  THEN conv' = c /\ NotStarted(u)
  ELSE /\ conv' = [c EXCEPT !.active = <<"starting", u>>, !.source = u]
       /\ mem' = [mem EXCEPT !.starting = FALSE]
       /\ work' = [work EXCEPT ![u].pc = "starting", ![u].thread = thread]
       /\ UNCHANGED <<row, batch>>

ThreadReady(u) ==
  /\ \/ work[u].pc = "resuming" /\ BeginActiveTurn(u, conv, work[u].thread)
     \/ /\ work[u].pc = "opening"
        /\ LET t == conv.opened + 1
           IN  BeginActiveTurn(u, [conv EXCEPT !.thread = t, !.opened = t], t)
  /\ NoFault /\ UNCHANGED <<turns, ask, out, press, stage>>

\* The app-server accepts the turn; its answer is on the way.
AcceptTurn(u) ==
  /\ work[u].pc = "starting" /\ work[u].reply = 0 /\ Len(turns) < MaxTurns
  /\ turns' = Append(turns, [source |-> u, thread |-> work[u].thread,
                             status |-> "accepted", interrupt |-> "none"])
  /\ work' = [work EXCEPT ![u].reply = Len(turns) + 1]
  /\ UNCHANGED <<row, batch, conv, mem, ask, out, press, stage, budget>>

\* Mutant: the finally block forgets the recorded turn.
EndRunRecorded(u, active, accepted) ==
  /\ conv' = conv
  /\ mem' = [active |-> IF mem.active = work[u].turn THEN 0 ELSE mem.active,
             starting |-> FALSE, pending |-> FALSE]
  /\ FailUpdate(u, accepted)

\* runTurn throws: its finally block, with `active` what it had recorded.
EndRun(u, active, accepted) ==
  /\ conv' = ClearActiveTurn(conv, active)
  /\ mem' = [active |-> IF mem.active = work[u].turn THEN 0 ELSE mem.active,
             starting |-> FALSE, pending |-> FALSE]
  /\ FailUpdate(u, accepted)

\* dispose rejects those who wait for the turn to start.
Dispose(t) ==
  turns' = IF turns[t].interrupt = "awaiting"
           THEN [turns EXCEPT ![t].interrupt = "failed"] ELSE turns

RejectTurn(u) ==
  /\ work[u].pc = "starting" /\ work[u].reply = 0 /\ Fault
  /\ EndRun(u, <<"starting", u>>, FALSE)
  /\ UNCHANGED <<turns, ask, out, press, stage>>

\* turn/start times out: whether the turn was accepted stays unknown.
StartTimesOut(u) ==
  /\ work[u].pc = "starting" /\ Fault
  /\ EndRun(u, <<"starting", u>>, TRUE)
  /\ UNCHANGED <<turns, ask, out, press, stage>>

\* The answer to turn/start: replaceActiveTurn, and a stop that came meanwhile.
TurnStarted(u) ==
  LET t == work[u].reply
  IN  /\ work[u].pc = "starting" /\ t # 0 /\ conv.active = <<"starting", u>>
      /\ conv' = [conv EXCEPT !.active = <<"turn", t>>]
      /\ mem' = [mem EXCEPT !.active = t, !.pending = FALSE]
      /\ work' = [work EXCEPT ![u].turn = t,
                              ![u].pc = IF mem.pending THEN "halting" ELSE "waiting"]
      /\ turns' = IF mem.pending THEN [turns EXCEPT ![t].interrupt = "awaiting"] ELSE turns
      /\ UNCHANGED <<row, batch, ask, out, press, stage, budget>>

\* The placeholder is gone: another run found the thread stale and detached it.
\* The turn is left to itself.
TurnUnrecorded(u) ==
  /\ work[u].pc = "starting" /\ work[u].reply # 0 /\ conv.active # <<"starting", u>>
  /\ EndRun(u, <<"starting", u>>, TRUE)
  /\ NoFault /\ UNCHANGED <<turns, ask, out, press, stage>>

\* The pending stop went through, or failed and with it the update.
Halted(u) ==
  LET t == work[u].turn
  IN  /\ work[u].pc = "halting" /\ turns[t].interrupt \in {"done", "failed"}
      /\ IF turns[t].interrupt = "done"
         THEN Goto(u, "waiting") /\ UNCHANGED <<row, batch, conv, mem>>
         ELSE EndRun(u, <<"turn", t>>, TRUE)
      /\ UNCHANGED <<turns, ask, out, press, stage, budget>>

\* turn/completed, but no answer: the turn failed, was interrupted or is malformed.
TurnFails(u) ==
  LET t == work[u].turn
  IN  /\ work[u].pc = "waiting"
      /\ \/ turns[t].status \in {"failed", "interrupted"} /\ NoFault
         \/ turns[t].status = "completed" /\ Fault
      /\ EndRun(u, <<"turn", t>>, TRUE) /\ Dispose(t)
      /\ UNCHANGED <<ask, out, press, stage>>

WaitTimesOut(u) ==
  /\ work[u].pc = "waiting" /\ turns[work[u].turn].status \notin Ended
  /\ Goto(u, "overdue")
  /\ UNCHANGED <<row, batch, conv, mem, turns, ask, out, press, stage, budget>>

\* The timed-out turn is interrupted, unless that fails too, and given up.
GiveUp(u) ==
  LET t == work[u].turn
      asked == IF turns[t].status \in Ended THEN turns
               ELSE [turns EXCEPT ![t].status = "interrupted"]
  IN  /\ work[u].pc = "overdue"
      /\ \/ NoFault /\ turns' = [asked EXCEPT ![t].interrupt =
                                   IF @ = "awaiting" THEN "failed" ELSE @]
         \/ Fault /\ Dispose(t)
      /\ EndRun(u, <<"turn", t>>, TRUE)
      /\ UNCHANGED <<ask, out, press, stage>>

\* runTurn returns an answer: everything in its finally block, then the sends.
TurnAnswers(u) ==
  LET t == work[u].turn
  IN  /\ work[u].pc = "waiting" /\ turns[t].status = "completed"
      /\ conv' = ClearActiveTurn(conv, <<"turn", t>>)
      /\ mem' = [mem EXCEPT !.active = IF @ = t THEN 0 ELSE @,
                            !.starting = FALSE, !.pending = FALSE]
      /\ Dispose(t)
      /\ work' = [work EXCEPT ![u].pc = "answering",
                              ![u].part = IF work[u].broke THEN 0 ELSE 1]
      /\ UNCHANGED <<row, batch, ask, out, press, stage, budget>>

-----------------------------------------------------------------------------
(* #interruptActive: one promise per turn, shared by all who await it. *)

\* waitStarted returns and turn/interrupt is sent, or its 30 seconds are over.
SendInterrupt(t) ==
  /\ Up /\ turns[t].interrupt = "awaiting"
  /\ turns' = [turns EXCEPT ![t].interrupt =
                 IF turns[t].status = "accepted" THEN "failed" ELSE "requested"]
  /\ UNCHANGED <<row, work, batch, conv, mem, ask, out, press, stage, budget>>

\* The app-server interrupts a live turn and refuses for one that has ended.
HandleInterrupt(t) ==
  /\ turns[t].interrupt = "requested"
  /\ turns' = [turns EXCEPT ![t] =
                 IF @.status \in Ended THEN [@ EXCEPT !.interrupt = "refused"]
                 ELSE [@ EXCEPT !.status = "interrupted", !.interrupt = "answered"]]
  /\ UNCHANGED <<row, work, batch, conv, mem, ask, out, press, stage, budget>>

\* The answer reaches the bridge, perhaps after the turn's own completion.
InterruptReturns(t) ==
  /\ Up /\ turns[t].interrupt \in {"answered", "refused"}
  /\ IF turns[t].interrupt = "answered"
     THEN /\ conv' = ClearActiveTurn(conv, <<"turn", t>>)
          /\ turns' = [turns EXCEPT ![t].interrupt = "done"]
     ELSE /\ conv' = conv
          /\ turns' = [turns EXCEPT ![t].interrupt = "failed"]
  /\ UNCHANGED <<row, work, batch, mem, ask, out, press, stage, budget>>

-----------------------------------------------------------------------------
(* Outbound actions: #sendOutboundAction, #queueTargetedResponses, replies. *)

\* Mutant: an action of unknown fate is sent again.
UnsentOrAmbiguous == {"none", "retry", "ambiguous"}

\* Created and claimed in one step (createOutboundAction, markOutboundSending).
Unsent == {"none", "retry"}

\* #sendSystemReply: an existing row keeps its text.
Reply(u, text) ==
  LET due == out[u].part[1] \in Unsent
  IN  /\ out' = [out EXCEPT ![u].said = IF out[u].part[1] = "none" THEN text ELSE @,
                            ![u].part[1] = IF due THEN "sending" ELSE @]
      /\ work' = [work EXCEPT ![u].pc = IF due THEN "sending" ELSE "answering",
                              ![u].part = 1]

\* Mutant: the loop runs one part too far.
GoOnTooFar(u, status) ==
  IF work[u].part <= budget.chunks /\ RunsTurn(u) /\ (work[u].part = 0 \/ status = "sent")
  THEN work' = [work EXCEPT ![u].pc = "answering", ![u].part = @ + 1]
       /\ UNCHANGED <<row, batch>>
  ELSE CompleteUpdate(u)

\* Mutant: without the break after a chunk that was not sent.
GoOnAnyway(u, status) ==
  IF work[u].part < budget.chunks /\ RunsTurn(u)
  THEN work' = [work EXCEPT ![u].pc = "answering", ![u].part = @ + 1]
       /\ UNCHANGED <<row, batch>>
  ELSE CompleteUpdate(u)

\* The loop goes on past a notice and after a chunk that was sent.
GoOn(u, status) ==
  IF work[u].part < budget.chunks /\ RunsTurn(u) /\ (work[u].part = 0 \/ status = "sent")
  THEN work' = [work EXCEPT ![u].pc = "answering", ![u].part = @ + 1]
       /\ UNCHANGED <<row, batch>>
  ELSE CompleteUpdate(u)

\* markOutboundSending: an action is claimed by one sender at a time.
SendPart(u) ==
  LET k == work[u].part
  IN  /\ work[u].pc = "answering"
      /\ out[u].part[k] \in Unsent
      /\ out' = [out EXCEPT ![u].part[k] = "sending"]
      /\ Goto(u, "sending")
      /\ UNCHANGED <<row, batch, conv, mem, turns, ask, press, stage, budget>>

\* The action was sent or given up before, or is held by the drain or not yet due.
SkipPart(u) ==
  LET k == work[u].part
  IN  /\ work[u].pc = "answering"
      /\ out[u].part[k] # "none"
      /\ GoOn(u, out[u].part[k])
      /\ UNCHANGED <<conv, mem, turns, ask, out, press, stage, budget>>

\* What comes of a send: rate limits and connection errors are tried again.
Outcome(status) ==
  IF status = "sent" THEN NoFault ELSE Fault

PartSent(u) ==
  \E status \in {"sent", "retry", "failed", "ambiguous"} :
    /\ work[u].pc = "sending" /\ Outcome(status)
    /\ out' = [out EXCEPT ![u].part[work[u].part] = status]
    /\ GoOn(u, status)
    /\ UNCHANGED <<conv, mem, turns, ask, press, stage>>

\* The turn decided to skip, or every response was sent by a tool already.
NothingToSend(u) ==
  /\ work[u].pc = "answering" /\ RunsTurn(u) /\ work[u].part = 1
  /\ CompleteUpdate(u)
  /\ UNCHANGED <<conv, mem, turns, ask, out, press, stage, budget>>

\* A response without a valid target throws, and not as an accepted turn.
InvalidTarget(u) ==
  /\ work[u].pc = "answering" /\ RunsTurn(u) /\ work[u].part = 1 /\ Fault
  /\ FailUpdate(u, FALSE)
  /\ UNCHANGED <<conv, mem, turns, ask, out, press, stage>>

\* drainOutboundOnce claims all that is due at once, then sends one by one.
ClaimOutbound ==
  LET due == {a \in Updates \X (0 .. Chunks) :
                /\ out[a[1]].part[a[2]] = "retry"
                /\ \A j \in 1 .. a[2] - 1 : out[a[1]].part[j] = "sent"}
  IN  /\ Up /\ batch.main = {} /\ batch.drain = {} /\ due # {}
      /\ batch' = [batch EXCEPT !.drain = due]
      /\ out' = [u \in Updates |->
                   [out[u] EXCEPT !.part = [k \in 0 .. Chunks |->
                      IF <<u, k>> \in due THEN "sending" ELSE out[u].part[k]]]]
      /\ UNCHANGED <<row, work, conv, mem, turns, ask, press, stage, budget>>

DrainOutbound ==
  \E a \in batch.drain, status \in {"sent", "retry", "failed", "ambiguous"} :
    /\ Outcome(status)
    /\ out' = [out EXCEPT ![a[1]].part[a[2]] = status]
    /\ batch' = [batch EXCEPT !.drain = @ \ {a}]
    /\ UNCHANGED <<row, work, conv, mem, turns, ask, press, stage>>

-----------------------------------------------------------------------------
(* /stop, /new and approval callbacks. *)

\* CodexRunner.interrupt; RecordHeld shows that no other case is left.
Stop(u) ==
  /\ work[u].pc = "saving" /\ Kind[u] = "stop"
  /\ LET t == mem.active
         starting == mem.starting \/ (conv.thread # 0 /\ conv.active # <<>>)
     IN  IF t # 0
         THEN /\ turns' = [turns EXCEPT ![t].interrupt = IF @ = "none" THEN "awaiting" ELSE @]
              /\ work' = [work EXCEPT ![u].pc = "stopping", ![u].turn = t]
              /\ UNCHANGED <<mem, out>>
         ELSE /\ mem' = [mem EXCEPT !.pending = @ \/ starting]
              /\ Reply(u, IF starting THEN "stopped" ELSE "idle")
              /\ turns' = turns
  /\ UNCHANGED <<row, batch, conv, ask, press, stage, budget>>

StopReturns(u) ==
  LET t == work[u].turn
  IN  /\ work[u].pc = "stopping" /\ turns[t].interrupt \in {"done", "failed"}
      /\ IF turns[t].interrupt = "done"
         THEN Reply(u, "stopped") /\ UNCHANGED <<row, batch>>
         ELSE FailUpdate(u, FALSE) /\ out' = out
      /\ UNCHANGED <<conv, mem, turns, ask, press, stage, budget>>

NewConversation(u) ==
  /\ work[u].pc = "saving" /\ Kind[u] = "new"
  /\ DetachThread(u)
  /\ Reply(u, "new")
  /\ UNCHANGED <<row, batch, mem, turns, ask, press, stage, budget>>

\* ApprovalRouter.handleCallback up to its answerCallbackQuery: the row is committed,
\* then the app-server is answered.  On a closed socket that throws.
Tap(u) ==
  LET t == press[u].turn
      approved == press[u].decision = "approve"
      current == conv.thread = turns[t].thread /\ conv.active = <<"turn", t>>
      resolved == IF ask[t].due THEN "expired"
                  ELSE IF current /\ approved THEN "approved" ELSE "denied"
      settled == [ask[t] EXCEPT !.state = resolved, !.held = FALSE]
  IN  /\ work[u].pc = "saving" /\ Kind[u] = "tap"
      /\ \/ /\ ask' = IF ~ask[t].held THEN ask
                      ELSE [ask EXCEPT ![t] =
                              Respond(settled, IF resolved = "approved" THEN "approve"
                                                                        ELSE "deny")]
            /\ Goto(u, "acking") /\ NoFault /\ UNCHANGED <<row, batch>>
         \/ /\ ask[t].held /\ Fault
            /\ ask' = [ask EXCEPT ![t] = Respond(settled, "lost")]
            /\ FailUpdate(u, FALSE)
      /\ UNCHANGED <<conv, mem, turns, out, press, stage>>

TapAcknowledged(u) ==
  /\ work[u].pc = "acking"
  /\ \/ NoFault /\ CompleteUpdate(u)
     \/ Fault /\ \E permanent \in BOOLEAN : FailUpdate(u, permanent)
  /\ UNCHANGED <<conv, mem, turns, ask, out, press, stage>>

-----------------------------------------------------------------------------
(* The app-server, its approval requests, and the clock. *)

TurnRuns(t) ==
  /\ turns[t].status = "accepted"
  /\ turns' = [turns EXCEPT ![t].status = "running"]
  /\ UNCHANGED <<row, work, batch, conv, mem, ask, out, press, stage, budget>>

\* The app-server reads a response.
ReadResponse(t) ==
  /\ ask[t].way \in {"approve", "deny"}
  /\ ask' = [ask EXCEPT ![t].answer = ask[t].way, ![t].way = "none"]
  /\ UNCHANGED <<row, work, batch, conv, mem, turns, out, press, stage, budget>>

\* A turn waits for the answer to its request while the bridge lives to give it.
TurnFinishes(t) ==
  /\ turns[t].status = "running" /\ ~ask[t].held /\ ask[t].way \in {"none", "lost"}
  /\ \E status \in {"completed", "failed"} :
       /\ Outcome(IF status = "completed" THEN "sent" ELSE status)
       /\ turns' = [turns EXCEPT ![t].status = status]
  /\ UNCHANGED <<row, work, batch, conv, mem, ask, out, press, stage>>

\* handleServerRequest: recorded and put to the owner, or denied at once for a
\* thread that is no conversation's any more.
HandleServerRequest(t) ==
  /\ Up /\ turns[t].status = "running" /\ ask[t] = Unasked /\ budget.asks > 0
  /\ budget' = [budget EXCEPT !.asks = @ - 1]
  /\ ask' = [ask EXCEPT ![t] =
               IF conv.thread = turns[t].thread
               THEN [@ EXCEPT !.state = "pending", !.held = TRUE, !.prompt = "sending"]
               ELSE Respond(@, "deny")]
  /\ UNCHANGED <<row, work, batch, conv, mem, turns, out, press, stage>>

\* Mutant: the row is denied whatever it says by now.
PromptReturnsLate(t) ==
  /\ Up /\ ask[t].prompt = "sending"
  /\ \/ NoFault /\ ask' = [ask EXCEPT ![t].prompt = "shown"]
     \/ Fault /\ ask' = [ask EXCEPT ![t] = Respond(
          [@ EXCEPT !.prompt = "shown", !.held = FALSE, !.state = "denied"], "deny")]
  /\ UNCHANGED <<row, work, batch, conv, mem, turns, out, press, stage>>

\* The prompt was sent, or failed (and may have reached the owner all the same).
PromptReturns(t) ==
  LET state == IF ask[t].state # "pending" THEN ask[t].state
               ELSE IF ask[t].due THEN "expired" ELSE "denied"
  IN  /\ Up /\ ask[t].prompt = "sending"
      /\ \/ NoFault /\ ask' = [ask EXCEPT ![t].prompt = "shown"]
         \/ Fault /\ ask' = [ask EXCEPT ![t] = Respond(
              [@ EXCEPT !.prompt = "shown", !.held = FALSE, !.state = state], "deny")]
      /\ UNCHANGED <<row, work, batch, conv, mem, turns, out, press, stage>>

\* The owner presses a button; Telegram delivers it as update u (Poller).
PressButton(u) ==
  \E t \in Turns, decision \in {"approve", "deny"} :
    /\ Kind[u] = "tap" /\ row[u].status = "unseen" /\ ask[t].prompt # "none"
    /\ row' = [row EXCEPT ![u].status = "pending"]
    /\ press' = [press EXCEPT ![u] = [turn |-> t, decision |-> decision]]
    /\ UNCHANGED <<work, batch, conv, mem, turns, ask, out, stage, budget>>

\* Updates arrive in order (Poller, ingestUpdates); wakes over their socket.
Arrive(u) ==
  /\ Kind[u] \notin {"tap", "absent"} /\ row[u].status = "unseen"
  /\ IsWake(u) \/ \A v \in Updates : v < u /\ Kind[v] \notin {"tap", "wake", "absent"} =>
                                      row[v].status # "unseen"
  /\ row' = [row EXCEPT ![u].status = "pending"]
  /\ UNCHANGED <<work, batch, conv, mem, turns, ask, out, press, stage, budget>>

BackoffEnds(u) ==
  /\ row[u].status = "backoff"
  /\ row' = [row EXCEPT ![u].status = "pending"]
  /\ UNCHANGED <<work, batch, conv, mem, turns, ask, out, press, stage, budget>>

\* A lease (120 seconds) outlasts every run of a live process.
LeaseRunsOut(u) ==
  /\ row[u].status = "processing" /\ work[u].pc = "idle"
  /\ row' = [row EXCEPT ![u].status = "lapsed"]
  /\ UNCHANGED <<work, batch, conv, mem, turns, ask, out, press, stage, budget>>

ApprovalDue(t) ==
  /\ ask[t].state = "pending" /\ ~ask[t].due
  /\ ask' = [ask EXCEPT ![t].due = TRUE]
  /\ UNCHANGED <<row, work, batch, conv, mem, turns, out, press, stage, budget>>

-----------------------------------------------------------------------------
(* Crash and restart. *)

\* The row shows what the run of u is about: recoverInterruptedTurns will find it.
Listed(u) ==
  conv.thread # 0 /\ conv.active \in {<<"starting", u>>, <<"turn", work[u].turn>>}

\* Everything in memory is lost, the answers under way with it, in either direction:
\* a kill may also come between an approval's commit and its answer.
Crash ==
  /\ stage # "down" /\ budget.boots > 0
  /\ stage' = "down"
  /\ budget' = [budget EXCEPT !.boots = @ - 1]
  /\ work' = [u \in Updates |-> Idle]
  /\ batch' = [main |-> {}, control |-> {}, drain |-> {}]
  /\ mem' = [active |-> 0, starting |-> FALSE, pending |-> FALSE]
  /\ turns' = [t \in Turns |-> [turns[t] EXCEPT !.interrupt = "none"]]
  /\ ask' = [t \in DOMAIN ask |->
               [ask[t] EXCEPT !.held = FALSE,
                              !.prompt = IF @ = "none" THEN @ ELSE "shown",
                              !.way = IF @ = "none" THEN @ ELSE "lost"]]
  /\ conv' = [conv EXCEPT !.lost =
                @ \/ \E u \in conv.torn : work[u].pc \in OnTurn /\ ~Listed(u)]
  /\ UNCHANGED <<row, out, press>>

\* createBridgeRuntime up to recoverInterruptedTurns: sends under way become
\* ambiguous, open approvals expire.
Boot ==
  /\ stage = "down"
  /\ out' = [u \in Updates |->
               [out[u] EXCEPT !.part = [k \in 0 .. Chunks |->
                  IF out[u].part[k] = "sending" THEN "ambiguous" ELSE out[u].part[k]]]]
  /\ ask' = [t \in DOMAIN ask |->
               IF ask[t].state = "pending" THEN [ask[t] EXCEPT !.state = "expired"] ELSE ask[t]]
  /\ stage' = "recovering"
  /\ UNCHANGED <<row, work, batch, conv, mem, turns, press, budget>>

\* Mutant: only rows that wait are failed, not those that were being processed.
FailPendingSource(u) ==
  row' = IF u # 0 /\ row[u].status \in {"pending", "backoff"}
         THEN [row EXCEPT ![u].status = "failed"] ELSE row

\* failUncertainSource
FailUncertainSource(u) ==
  row' = IF u # 0 /\ row[u].status \notin Settled
         THEN [row EXCEPT ![u].status = "failed"] ELSE row

\* The recorded turn is interrupted, unless only its placeholder is known or the
\* conversation has another thread by now, on which the app-server finds no turn.
RecoverInterruptedTurns ==
  /\ stage = "recovering"
  /\ IF conv.thread # 0 /\ conv.active # <<>>
     THEN /\ turns' = [t \in Turns |->
                         IF /\ conv.active = <<"turn", t>> /\ conv.thread = turns[t].thread
                            /\ turns[t].status \notin Ended
                         THEN [turns[t] EXCEPT !.status = "interrupted"] ELSE turns[t]]
          /\ FailUncertainSource(conv.source)
          /\ conv' = ClearActiveTurn(conv, conv.active)
     ELSE UNCHANGED <<turns, row, conv>>
  /\ stage' = "up"
  /\ UNCHANGED <<work, batch, mem, ask, out, press, budget>>

-----------------------------------------------------------------------------
Runner(u) ==
  \/ RunTurn(u) \/ ThreadFails(u) \/ ThreadStale(u) \/ ThreadReady(u)
  \/ RejectTurn(u) \/ StartTimesOut(u) \/ TurnStarted(u) \/ TurnUnrecorded(u) \/ Halted(u)
  \/ TurnFails(u) \/ WaitTimesOut(u) \/ GiveUp(u) \/ TurnAnswers(u)

Sender(u) ==
  \/ SendPart(u) \/ SkipPart(u) \/ PartSent(u) \/ NothingToSend(u) \/ InvalidTarget(u)

Handler(u) ==
  \/ RunQueued(u) \/ SaveFails(u) \/ Runner(u) \/ Sender(u)
  \/ Stop(u) \/ StopReturns(u) \/ NewConversation(u) \/ Tap(u) \/ TapAcknowledged(u)

Workers == DrainUpdates \/ DrainControls \/ DrainWakes \/ ClaimOutbound \/ DrainOutbound

Router(t) == PromptReturns(t) \/ SendInterrupt(t) \/ InterruptReturns(t)

Clock ==
  \/ \E u \in Updates : BackoffEnds(u) \/ LeaseRunsOut(u)
  \/ \E t \in Turns : ApprovalDue(t)

World ==
  \/ \E u \in Updates : Arrive(u) \/ PressButton(u) \/ AcceptTurn(u)
  \/ \E t \in Turns : TurnRuns(t) \/ TurnFinishes(t) \/ HandleServerRequest(t)
                      \/ HandleInterrupt(t) \/ ReadResponse(t)

Next ==
  \/ Workers \/ Clock \/ World
  \/ \E u \in Updates : Handler(u)
  \/ \E t \in Turns : Router(t)
  \/ Crash \/ Boot \/ RecoverInterruptedTurns

Spec == Init /\ [][Next]_vars

\* What u waits for; no two of these are enabled together.
Awaited(u) == AcceptTurn(u) \/ BackoffEnds(u) \/ LeaseRunsOut(u)

\* The bridge runs, the clock runs, and a request to the app-server is answered
\* or times out; nothing is asked of turns, of the owner or of arrivals.
FairSpec ==
  /\ Spec
  /\ WF_vars(DrainUpdates) /\ WF_vars(DrainControls) /\ WF_vars(DrainWakes)
  /\ WF_vars(ClaimOutbound) /\ WF_vars(DrainOutbound)
  /\ \A u \in Updates : WF_vars(Handler(u)) /\ WF_vars(Awaited(u))
  /\ \A t \in 1 .. MaxTurns :
       WF_vars(t \in Turns /\ (Router(t) \/ HandleInterrupt(t) \/ ApprovalDue(t)))
  /\ WF_vars(Boot \/ RecoverInterruptedTurns)
=============================================================================
