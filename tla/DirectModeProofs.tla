-------------------------- MODULE DirectModeProofs --------------------------
(***************************************************************************)
(* Proofs about the bridge that runs turns itself, for any updates, answers *)
(* of any length and any number of turns, faults and restarts.             *)
(***************************************************************************)
EXTENDS DirectModeProps, TLAPS, SequenceTheorems

-----------------------------------------------------------------------------
(***************************************************************************)
(* How a run moves.  Whatever a handler does, its update either stays in    *)
(* its worker's batch with its row, or leaves it and settles or backs off. *)
(***************************************************************************)
RunnerPcs == {"resuming", "opening", "starting", "halting", "waiting", "overdue"}

Moves(u) ==
  /\ UNCHANGED <<row, batch>>
  /\ work'[u] \in WorkStates /\ work'[u].pc \notin {"idle", "queued"}
  /\ work' = [work EXCEPT ![u] = work'[u]]

Leaves(u) == \E s \in {"completed", "failed", "backoff"} : Leave(u, s)

\* Bounds of the constants.
LEMMA Bounds ==
  /\ Chunks \in Nat /\ Chunks >= 1 /\ MaxTurns \in Nat /\ MaxAttempts \in Nat
  /\ 0 \in 0 .. Chunks /\ 1 \in 0 .. Chunks /\ 0 \notin Updates /\ Updates \subseteq Nat
  BY DirectModeAssumption

\* The fields of a run.
LEMMA WorkFields ==
  ASSUME TypeOK, NEW u \in Updates
  PROVE  /\ work[u] \in WorkStates /\ work[u].part \in 0 .. Chunks /\ work[u].turn \in Nat
         /\ work[u].thread \in Nat /\ work[u].reply \in Nat /\ work[u].broke \in BOOLEAN
  BY DEF TypeOK, WorkStates

\* The fields of the conversation's row.
LEMMA RecordFields ==
  ASSUME TypeOK
  PROVE  /\ conv \in Conversation /\ conv.thread \in Nat /\ conv.opened \in Nat
         /\ conv.active \in ActiveTurns /\ conv.source \in Updates \cup {0}
         /\ conv.torn \in SUBSET Updates /\ conv.lost \in BOOLEAN
  BY DEF TypeOK, Conversation

\* A failed update settles or backs off.
LEMMA FailLeaves ==
  ASSUME NEW u \in Updates, NEW accepted, FailUpdate(u, accepted)
  PROVE  Leaves(u)
  BY DEF FailUpdate, Leaves

\* So does the update of a run that throws.
LEMMA EndRunLeaves ==
  ASSUME NEW u \in Updates, NEW active, NEW accepted, EndRun(u, active, accepted)
  PROVE  Leaves(u)
  BY FailLeaves DEF EndRun

\* And a completed one.
LEMMA CompleteLeaves ==
  ASSUME NEW u \in Updates, CompleteUpdate(u)
  PROVE  Leaves(u)
  BY DEF CompleteUpdate, Leaves

\* A run that goes on, as w.
LEMMA MovesTo ==
  ASSUME TypeOK, NEW u \in Updates, NEW w \in WorkStates, w.pc \notin {"idle", "queued"},
         work' = [work EXCEPT ![u] = w], UNCHANGED <<row, batch>>
  PROVE  Moves(u) /\ work'[u] = w
<1>1. work'[u] = w BY DEF TypeOK
<1>2. QED BY <1>1 DEF Moves

\* A run that only goes on.
LEMMA GotoMoves ==
  ASSUME TypeOK, NEW u \in Updates,
         NEW pc \in {"saving", "waiting", "overdue", "sending", "acking"}, Goto(u, pc),
         UNCHANGED <<row, batch>>
  PROVE  Moves(u) /\ work'[u] = [work[u] EXCEPT !.pc = pc]
<1>1. [work[u] EXCEPT !.pc = pc] \in WorkStates /\ [work[u] EXCEPT !.pc = pc].pc = pc
  BY WorkFields DEF WorkStates
<1>2. QED BY <1>1, MovesTo DEF Goto

\* The next part of an answer.
LEMMA GoOnMoves ==
  ASSUME TypeOK, NEW u \in Updates, NEW status, GoOn(u, status)
  PROVE  Moves(u) \/ Leaves(u)
<1>1. ASSUME work[u].part < budget.chunks,
             work' = [work EXCEPT ![u].pc = "answering", ![u].part = @ + 1],
             UNCHANGED <<row, batch>>
      PROVE  Moves(u)
  <2> DEFINE part == work[u].part + 1
             w == [work[u] EXCEPT !.pc = "answering", !.part = part]
  <2>0. budget.chunks \in 1 .. Chunks BY DEF TypeOK, Situation
  <2>1. part \in 0 .. Chunks BY <1>1, <2>0, WorkFields, Bounds
  <2> HIDE DEF part
  <2>2. w \in WorkStates /\ w.pc = "answering" BY <2>1, WorkFields DEF WorkStates
  <2>3. work' = [work EXCEPT ![u] = w] BY <1>1, WorkFields DEF TypeOK, part
  <2> HIDE DEF w
  <2>4. QED BY <1>1, <2>2, <2>3, MovesTo
<1>2. QED BY <1>1, CompleteLeaves DEF GoOn

\* A reply.
LEMMA ReplyMoves ==
  ASSUME TypeOK, NEW u \in Updates, NEW text, Reply(u, text), UNCHANGED <<row, batch>>
  PROVE  /\ Moves(u) /\ work'[u].part = 1
         /\ work'[u].pc = IF out[u].part[1] \in Unsent THEN "sending" ELSE "answering"
<1> DEFINE pc == IF out[u].part[1] \in Unsent THEN "sending" ELSE "answering"
           w == [work[u] EXCEPT !.pc = pc, !.part = 1]
<1>1. w \in WorkStates /\ w.pc = pc /\ w.part = 1 /\ w.pc \notin {"idle", "queued"}
  BY WorkFields, Bounds DEF WorkStates
<1>2. work' = [work EXCEPT ![u] = w]
  BY WorkFields DEF TypeOK, Reply
<1>3. pc = IF out[u].part[1] \in Unsent THEN "sending" ELSE "answering"
  OBVIOUS
<1> HIDE DEF w, pc
<1>4. QED BY <1>1, <1>2, <1>3, MovesTo

\* What beginActiveTurn makes of a run and of the conversation's row.
BegunRun(u, thread) == [work[u] EXCEPT !.pc = "starting", !.thread = thread]
BegunRecord(u, c) == [c EXCEPT !.active = <<"starting", u>>, !.source = u]
CalmMemory == [mem EXCEPT !.starting = FALSE, !.pending = FALSE]
BegunMemory == [mem EXCEPT !.starting = FALSE]

\* beginActiveTurn either goes on to the request turn/start or gives up.
LEMMA BeginMoves ==
  ASSUME TypeOK, NEW u \in Updates, NEW c, NEW thread \in Nat, BeginActiveTurn(u, c, thread)
  PROVE  \/ /\ Leaves(u) /\ conv' = c /\ c.active \notin {<<>>, <<"starting", u>>}
            /\ mem' = CalmMemory
         \/ /\ Moves(u) /\ work'[u] = BegunRun(u, thread) /\ c.active \in {<<>>, <<"starting", u>>}
            /\ conv' = BegunRecord(u, c) /\ mem' = BegunMemory
<1>1. CASE c.active \notin {<<>>, <<"starting", u>>}
  <2>1. conv' = c /\ mem' = CalmMemory /\ FailUpdate(u, FALSE)
    BY <1>1 DEF BeginActiveTurn, NotStarted, CalmMemory
  <2>2. QED BY <1>1, <2>1, FailLeaves
<1>2. CASE c.active \in {<<>>, <<"starting", u>>}
  <2>1. /\ conv' = BegunRecord(u, c) /\ mem' = BegunMemory /\ UNCHANGED <<row, batch>>
        /\ work' = [work EXCEPT ![u].pc = "starting", ![u].thread = thread]
    BY <1>2 DEF BeginActiveTurn, BegunRecord, BegunMemory
  <2>2. work' = [work EXCEPT ![u] = BegunRun(u, thread)] BY <2>1, WorkFields DEF TypeOK, BegunRun
  <2>3. BegunRun(u, thread) \in WorkStates /\ BegunRun(u, thread).pc \notin {"idle", "queued"}
    BY WorkFields DEF WorkStates, BegunRun
  <2>4. Moves(u) /\ work'[u] = BegunRun(u, thread) BY <2>1, <2>2, <2>3, MovesTo
  <2>5. QED BY <1>2, <2>1, <2>4
<1>3. QED BY <1>1, <1>2

\* A step of one run.
LEMMA HandlerMoves ==
  ASSUME TypeOK, NEW u \in Updates, Handler(u) \/ AcceptTurn(u)
  PROVE  work[u].pc # "idle" /\ (Moves(u) \/ Leaves(u))
<1> DEFINE Goal == work[u].pc # "idle" /\ (Moves(u) \/ Leaves(u))
<1>1. ASSUME NEW w \in WorkStates, w.pc \notin {"idle", "queued"}, UNCHANGED <<row, batch>>,
             work' = [work EXCEPT ![u] = w], work[u].pc # "idle"
      PROVE  Goal
  BY <1>1, MovesTo
<1>2. ASSUME RunQueued(u) PROVE Goal
  BY <1>2, GotoMoves DEF RunQueued
<1>3. ASSUME SaveFails(u) \/ TapAcknowledged(u) \/ InvalidTarget(u) \/ ThreadFails(u) PROVE Goal
  BY <1>3, FailLeaves, CompleteLeaves DEF SaveFails, TapAcknowledged, InvalidTarget, ThreadFails, NotStarted
<1>4. ASSUME RunTurn(u) PROVE Goal
  <2> DEFINE pc == IF conv.thread # 0 THEN "resuming" ELSE "opening"
             w == [work[u] EXCEPT !.pc = pc, !.thread = conv.thread]
  <2>0. conv.thread \in Nat /\ pc \in {"resuming", "opening"} BY RecordFields
  <2>a. work' = [work EXCEPT ![u].pc = pc, ![u].thread = conv.thread] BY <1>4 DEF RunTurn
  <2> HIDE DEF pc
  <2>1. w \in WorkStates /\ w.pc \notin {"idle", "queued"} BY <2>0, WorkFields DEF WorkStates
  <2>2. work' = [work EXCEPT ![u] = w] BY <2>a, WorkFields DEF TypeOK
  <2> HIDE DEF w
  <2>3. QED BY <1>1, <1>4, <2>1, <2>2 DEF RunTurn
<1>5. ASSUME ThreadStale(u) PROVE Goal
  <2> DEFINE w == [work[u] EXCEPT !.pc = "opening", !.broke = TRUE]
  <2>1. w \in WorkStates /\ w.pc \notin {"idle", "queued"} BY WorkFields DEF WorkStates
  <2>2. work' = [work EXCEPT ![u] = w] BY <1>5, WorkFields DEF TypeOK, ThreadStale
  <2> HIDE DEF w
  <2>3. QED BY <1>1, <1>5, <2>1, <2>2 DEF ThreadStale
<1>6. ASSUME ThreadReady(u) PROVE Goal
  <2>1. conv.opened + 1 \in Nat BY RecordFields
  <2>2. QED BY <1>6, <2>1, WorkFields, BeginMoves DEF ThreadReady
<1>7. ASSUME RejectTurn(u) \/ StartTimesOut(u) \/ TurnUnrecorded(u) \/ TurnFails(u) \/ GiveUp(u)
      PROVE  Goal
  BY <1>7, EndRunLeaves DEF RejectTurn, StartTimesOut, TurnUnrecorded, TurnFails, GiveUp
<1>8. ASSUME TurnStarted(u) PROVE Goal
  <2> DEFINE w == [work[u] EXCEPT !.turn = work[u].reply, !.pc = IF mem.pending THEN "halting" ELSE "waiting"]
  <2>1. w \in WorkStates /\ w.pc \notin {"idle", "queued"} BY WorkFields DEF WorkStates
  <2>2. work' = [work EXCEPT ![u] = w] BY <1>8, WorkFields DEF TypeOK, TurnStarted
  <2> HIDE DEF w
  <2>3. QED BY <1>1, <1>8, <2>1, <2>2 DEF TurnStarted
<1>9. ASSUME Halted(u) PROVE Goal
  BY <1>9, GotoMoves, EndRunLeaves DEF Halted
<1>10. ASSUME WaitTimesOut(u) PROVE Goal
  BY <1>10, GotoMoves DEF WaitTimesOut
<1>11. ASSUME TurnAnswers(u) PROVE Goal
  <2> DEFINE w == [work[u] EXCEPT !.pc = "answering", !.part = IF work[u].broke THEN 0 ELSE 1]
  <2>1. w \in WorkStates /\ w.pc \notin {"idle", "queued"} BY WorkFields, Bounds DEF WorkStates
  <2>2. work' = [work EXCEPT ![u] = w] BY <1>11, WorkFields DEF TypeOK, TurnAnswers
  <2> HIDE DEF w
  <2>3. QED BY <1>1, <1>11, <2>1, <2>2 DEF TurnAnswers
<1>12. ASSUME SendPart(u) PROVE Goal
  BY <1>12, GotoMoves DEF SendPart
<1>13. ASSUME SkipPart(u) \/ PartSent(u) PROVE Goal
  BY <1>13, GoOnMoves DEF SkipPart, PartSent
<1>14. ASSUME NothingToSend(u) PROVE Goal
  BY <1>14, CompleteLeaves DEF NothingToSend
<1>15. ASSUME Stop(u) PROVE Goal
  <2> DEFINE w == [work[u] EXCEPT !.pc = "stopping", !.turn = mem.active]
  <2>0. mem.active \in Nat BY Bounds DEF TypeOK
  <2>1. w \in WorkStates /\ w.pc \notin {"idle", "queued"} BY <2>0, WorkFields DEF WorkStates
  <2>2. CASE mem.active # 0
    <3>1. work' = [work EXCEPT ![u] = w] BY <1>15, <2>2, WorkFields DEF TypeOK, Stop
    <3> HIDE DEF w
    <3>2. QED BY <1>1, <1>15, <2>1, <3>1 DEF Stop
  <2>3. CASE mem.active = 0
    BY <1>15, <2>3, ReplyMoves DEF Stop
  <2>4. QED BY <2>2, <2>3
<1>16. ASSUME StopReturns(u) PROVE Goal
  BY <1>16, ReplyMoves, FailLeaves DEF StopReturns
<1>17. ASSUME NewConversation(u) PROVE Goal
  BY <1>17, ReplyMoves DEF NewConversation
<1>18. ASSUME Tap(u) PROVE Goal
  <2>1. (Goto(u, "acking") /\ UNCHANGED <<row, batch>>) \/ FailUpdate(u, FALSE) BY <1>18 DEF Tap
  <2>2. work[u].pc # "idle" BY <1>18 DEF Tap
  <2>3. QED BY <2>1, <2>2, GotoMoves, FailLeaves
<1>19. ASSUME AcceptTurn(u) PROVE Goal
  <2> DEFINE w == [work[u] EXCEPT !.reply = Len(turns) + 1]
  <2>1. Len(turns) + 1 \in Nat BY DEF TypeOK
  <2>2. w \in WorkStates /\ w.pc \notin {"idle", "queued"}
    BY <1>19, <2>1, WorkFields DEF WorkStates, AcceptTurn
  <2>3. work' = [work EXCEPT ![u] = w] BY <1>19, WorkFields DEF TypeOK, AcceptTurn
  <2> HIDE DEF w
  <2>4. QED BY <1>1, <1>19, <2>2, <2>3 DEF AcceptTurn
<1> HIDE DEF Goal
<1>20. Goal
  BY <1>2, <1>3, <1>4, <1>5, <1>6, <1>7, <1>8, <1>9, <1>10, <1>11, <1>12, <1>13, <1>14, <1>15,
     <1>16, <1>17, <1>18, <1>19 DEF Handler, Runner, Sender
<1>21. QED BY <1>20 DEF Goal

-----------------------------------------------------------------------------
(***************************************************************************)
(* The kinds of steps and what they leave alone.                           *)
(***************************************************************************)
RunStep == \E u \in Updates : Handler(u) \/ AcceptTurn(u)
DrainStep == DrainUpdates \/ DrainControls \/ DrainWakes
TurnStep == \E t \in Turns : TurnRuns(t) \/ TurnFinishes(t) \/ HandleInterrupt(t) \/ SendInterrupt(t)
AskStep ==
  \E t \in Turns : HandleServerRequest(t) \/ PromptReturns(t) \/ ApprovalDue(t) \/ ReadResponse(t)
ReturnStep == \E t \in Turns : InterruptReturns(t)
RowStep == \E u \in Updates : BackoffEnds(u) \/ LeaseRunsOut(u) \/ Arrive(u) \/ PressButton(u)

\* Every step is of one of these kinds.
LEMMA StepKinds ==
  ASSUME [Next]_vars
  PROVE  \/ RunStep \/ DrainStep \/ ClaimOutbound \/ DrainOutbound \/ TurnStep \/ AskStep
         \/ ReturnStep \/ RowStep \/ Crash \/ Boot \/ RecoverInterruptedTurns \/ UNCHANGED vars
  BY DEF Next, Workers, Clock, World, Router, RunStep, DrainStep, TurnStep, AskStep, ReturnStep, RowStep

\* What the steps outside the runs leave alone.
LEMMA Frames ==
  /\ DrainStep => UNCHANGED <<conv, mem, turns, out, press, stage, budget>>
  /\ ClaimOutbound => UNCHANGED <<row, work, conv, mem, turns, ask, press, stage, budget>>
  /\ DrainOutbound => UNCHANGED <<row, work, conv, mem, turns, ask, press, stage>>
  /\ TurnStep => UNCHANGED <<row, work, batch, conv, mem, ask, out, press, stage>>
  /\ AskStep => UNCHANGED <<row, work, batch, conv, mem, turns, out, press, stage>>
  /\ ReturnStep => UNCHANGED <<row, work, batch, mem, ask, out, press, stage, budget>>
  /\ RowStep => UNCHANGED <<work, batch, conv, mem, turns, ask, out, stage, budget>>
  /\ Crash => UNCHANGED <<row, out, press>>
  /\ Boot => UNCHANGED <<row, work, batch, conv, mem, turns, press, budget>>
  /\ RecoverInterruptedTurns => UNCHANGED <<work, batch, mem, ask, out, press, budget>>
  /\ UNCHANGED vars => UNCHANGED <<row, work, batch, conv, mem, turns, ask, out, press, stage, budget>>
<1>1. DrainStep => UNCHANGED <<conv, mem, turns, out, press, stage, budget>>
  BY DEF DrainStep, DrainUpdates, DrainControls, DrainWakes
<1>2. ClaimOutbound => UNCHANGED <<row, work, conv, mem, turns, ask, press, stage, budget>>
  BY DEF ClaimOutbound
<1>3. DrainOutbound => UNCHANGED <<row, work, conv, mem, turns, ask, press, stage>>
  BY DEF DrainOutbound
<1>4. TurnStep => UNCHANGED <<row, work, batch, conv, mem, ask, out, press, stage>>
  BY DEF TurnStep, TurnRuns, TurnFinishes, HandleInterrupt, SendInterrupt
<1>5. AskStep => UNCHANGED <<row, work, batch, conv, mem, turns, out, press, stage>>
  BY DEF AskStep, HandleServerRequest, PromptReturns, ApprovalDue, ReadResponse
<1>6. ReturnStep => UNCHANGED <<row, work, batch, mem, ask, out, press, stage, budget>>
  BY DEF ReturnStep, InterruptReturns
<1>7. RowStep => UNCHANGED <<work, batch, conv, mem, turns, ask, out, stage, budget>>
  BY DEF RowStep, BackoffEnds, LeaseRunsOut, Arrive, PressButton
<1>8. Crash => UNCHANGED <<row, out, press>>
  BY DEF Crash
<1>9. Boot => UNCHANGED <<row, work, batch, conv, mem, turns, press, budget>>
  BY DEF Boot
<1>10. RecoverInterruptedTurns => UNCHANGED <<work, batch, mem, ask, out, press, budget>>
  BY DEF RecoverInterruptedTurns
<1>11. UNCHANGED vars => UNCHANGED <<row, work, batch, conv, mem, turns, ask, out, press, stage, budget>>
  BY DEF vars
<1>12. QED BY <1>1, <1>2, <1>3, <1>4, <1>5, <1>6, <1>7, <1>8, <1>9, <1>10, <1>11

\* A fault is taken from the situation, or nothing is.
Spends == budget' = budget \/ (budget.faults > 0 /\ budget' = [budget EXCEPT !.faults = @ - 1])

\* What the step of a run spends and leaves alone.
LEMMA HandlerFrames ==
  ASSUME NEW u \in Updates, Handler(u) \/ AcceptTurn(u)
  PROVE  Spends /\ UNCHANGED <<press, stage>>
<1> USE DEF Spends, Fault, NoFault
<1>1. ASSUME RunQueued(u) \/ SaveFails(u) \/ Tap(u) \/ TapAcknowledged(u) \/ NewConversation(u)
             \/ AcceptTurn(u)
      PROVE  Spends /\ UNCHANGED <<press, stage>>
  BY <1>1 DEF RunQueued, SaveFails, Tap, TapAcknowledged, NewConversation, AcceptTurn
<1>2. ASSUME Stop(u) \/ StopReturns(u)
      PROVE  Spends /\ UNCHANGED <<press, stage>>
  BY <1>2 DEF Stop, StopReturns
<1>3. ASSUME Sender(u)
      PROVE  Spends /\ UNCHANGED <<press, stage>>
  BY <1>3 DEF Sender, SendPart, SkipPart, PartSent, NothingToSend, InvalidTarget, Outcome
<1>4. ASSUME RunTurn(u) \/ ThreadFails(u) \/ ThreadStale(u) \/ ThreadReady(u) \/ RejectTurn(u)
             \/ StartTimesOut(u) \/ TurnStarted(u) \/ TurnUnrecorded(u)
      PROVE  Spends /\ UNCHANGED <<press, stage>>
  BY <1>4 DEF RunTurn, ThreadFails, ThreadStale, ThreadReady, RejectTurn, StartTimesOut, TurnStarted,
              TurnUnrecorded
<1>5. ASSUME Halted(u) \/ TurnFails(u) \/ WaitTimesOut(u) \/ GiveUp(u) \/ TurnAnswers(u)
      PROVE  Spends /\ UNCHANGED <<press, stage>>
  BY <1>5 DEF Halted, TurnFails, WaitTimesOut, GiveUp, TurnAnswers
<1>6. QED BY <1>1, <1>2, <1>3, <1>4, <1>5 DEF Handler, Runner

\* What is left of the bounds, and that no update changes its kind.
LEMMA BudgetStep ==
  ASSUME TypeOK, [Next]_vars
  PROVE  /\ budget' \in Situation /\ budget'.kind = budget.kind
         /\ budget'.faults <= budget.faults /\ budget'.boots <= budget.boots
         /\ Crash => budget.boots > 0
<1> DEFINE Less == /\ budget' \in Situation /\ budget'.kind = budget.kind
                   /\ budget'.faults <= budget.faults /\ budget'.boots <= budget.boots
<1>0. budget \in Situation BY DEF TypeOK
<1>1. ASSUME Spends PROVE Less BY <1>0, <1>1 DEF Spends, Situation
<1>2. ASSUME RunStep PROVE Less BY <1>1, <1>2, HandlerFrames DEF RunStep
<1>3. ASSUME DrainOutbound \/ TurnStep PROVE Less
  BY <1>1, <1>3 DEF DrainOutbound, TurnStep, TurnRuns, TurnFinishes, HandleInterrupt, SendInterrupt,
                    Outcome, Spends, Fault, NoFault
<1>4. ASSUME Crash PROVE Less
  <2>1. budget.boots > 0 /\ budget' = [budget EXCEPT !.boots = @ - 1] BY <1>4 DEF Crash
  <2>2. QED BY <1>0, <2>1 DEF Situation
<1>5. ASSUME NEW t \in Turns, HandleServerRequest(t) PROVE Less
  BY <1>0, <1>5 DEF HandleServerRequest, Situation
<1>6. ASSUME AskStep PROVE Less
  BY <1>1, <1>5, <1>6 DEF AskStep, PromptReturns, ApprovalDue, ReadResponse, Spends, Fault, NoFault
<1>7. ASSUME UNCHANGED budget PROVE Less BY <1>1, <1>7 DEF Spends
<1> HIDE DEF Less
<1>8. Less BY <1>2, <1>3, <1>4, <1>6, <1>7, StepKinds, Frames
<1>9. QED BY <1>8 DEF Less, Crash

-----------------------------------------------------------------------------
(***************************************************************************)
(* Where the updates are: a run is under way exactly for what its worker's  *)
(* batch holds, and the row of such an update is being processed.          *)
(***************************************************************************)
InBatch(u) == u \in batch.main \cup batch.control

Places ==
  /\ \A u \in Updates : work[u].pc # "idle" <=> InBatch(u)
  /\ \A u \in Updates : InBatch(u) => row[u].status = "processing"
  /\ \A u \in batch.control : Kind[u] \in {"stop", "tap"} /\ u \notin batch.main
  /\ ~Up => batch = [main |-> {}, control |-> {}, drain |-> {}]

\* Rows stay well formed.
LEMMA RowType ==
  ASSUME TypeOK, [Next]_vars
  PROVE  row' \in [Updates -> [status : RowStates, attempts : Nat]]
<1> DEFINE Rows == [Updates -> [status : RowStates, attempts : Nat]]
<1>0. row \in Rows /\ {"pending", "lapsed", "processing"} \cup Settled \subseteq RowStates
  BY DEF TypeOK, RowStates, Settled
<1>1. ASSUME NEW u \in Updates, NEW s \in RowStates, row' = [row EXCEPT ![u].status = s] PROVE row' \in Rows
  BY <1>0, <1>1
<1>2. ASSUME NEW u \in Updates, Moves(u) \/ Leaves(u) PROVE row' \in Rows
  <2>1. {"completed", "failed", "backoff"} \subseteq RowStates BY DEF RowStates, Settled
  <2>2. QED BY <1>0, <1>1, <1>2, <2>1 DEF Moves, Leaves, Leave
<1>3. ASSUME RunStep PROVE row' \in Rows BY <1>2, <1>3, HandlerMoves DEF RunStep
<1>4. ASSUME NEW S, NEW pc, Claim(S, pc) PROVE row' \in Rows
  BY <1>0, <1>4 DEF Claim
<1>5. ASSUME DrainUpdates \/ DrainControls PROVE row' \in Rows
  BY <1>4, <1>5 DEF DrainUpdates, DrainControls
<1>6. ASSUME DrainWakes PROVE row' \in Rows
  BY <1>0, <1>6 DEF DrainWakes, Settled
<1>7. ASSUME RowStep PROVE row' \in Rows
  BY <1>0, <1>1, <1>7 DEF RowStep, BackoffEnds, LeaseRunsOut, Arrive, PressButton
<1>8. ASSUME RecoverInterruptedTurns PROVE row' \in Rows
  <2>1. conv.source \in Updates \cup {0} BY RecordFields
  <2>2. "failed" \in RowStates BY DEF RowStates, Settled
  <2>3. FailUncertainSource(conv.source) \/ row' = row BY <1>8 DEF RecoverInterruptedTurns
  <2>4. QED BY <1>0, <1>1, <2>1, <2>2, <2>3 DEF FailUncertainSource
<1>9. ASSUME UNCHANGED row PROVE row' \in Rows BY <1>0, <1>9
<1> HIDE DEF Rows
<1>10. row' \in Rows
  BY <1>3, <1>5, <1>6, <1>7, <1>8, <1>9, StepKinds, Frames DEF DrainStep
<1>11. QED BY <1>10 DEF Rows

\* So do the runs.
LEMMA WorkType ==
  ASSUME TypeOK, [Next]_vars
  PROVE  work' \in [Updates -> WorkStates]
<1> DEFINE Runs == [Updates -> WorkStates]
<1>0. work \in Runs /\ Idle \in WorkStates BY Bounds DEF TypeOK, Idle, WorkStates
<1>1. ASSUME RunStep PROVE work' \in Runs
  <2>1. PICK u \in Updates : Moves(u) \/ Leaves(u) BY <1>1, HandlerMoves DEF RunStep
  <2>2. QED BY <1>0, <2>1 DEF Moves, Leaves, Leave
<1>2. \A pc \in {"saving", "queued"} : [Idle EXCEPT !.pc = pc] \in WorkStates
  BY Bounds DEF Idle, WorkStates
<1>3. ASSUME NEW S, NEW pc \in [S -> {"saving", "queued"}], Claim(S, pc) PROVE work' \in Runs
  BY <1>0, <1>2, <1>3 DEF Claim
<1>4. ASSUME DrainUpdates PROVE work' \in Runs
  <2> DEFINE claimed == {u \in Updates : ~IsWake(u) /\ row[u].status \in {"pending", "lapsed"}}
             pc == [u \in claimed |-> IF Preempts(u) THEN "saving" ELSE "queued"]
  <2>1. Claim(claimed, pc) BY <1>4 DEF DrainUpdates
  <2>2. pc \in [claimed -> {"saving", "queued"}] OBVIOUS
  <2>3. QED BY <1>3, <2>1, <2>2
<1>5. ASSUME DrainControls PROVE work' \in Runs
  <2> DEFINE claimed == {u \in Updates : Kind[u] \in {"stop", "tap"} /\ row[u].status = "pending"}
  <2>1. Claim(claimed, [u \in claimed |-> "saving"]) BY <1>5 DEF DrainControls
  <2>2. [u \in claimed |-> "saving"] \in [claimed -> {"saving", "queued"}] OBVIOUS
  <2>3. QED BY <1>3, <2>1, <2>2
<1>6. ASSUME DrainWakes PROVE work' \in Runs
  BY <1>0, <1>2, <1>6 DEF DrainWakes
<1>7. ASSUME Crash PROVE work' \in Runs
  <2>1. work' = [u \in Updates |-> Idle] BY <1>7 DEF Crash
  <2>2. QED BY <1>0, <2>1
<1>8. ASSUME UNCHANGED work PROVE work' \in Runs BY <1>0, <1>8
<1> HIDE DEF Runs
<1>9. work' \in Runs
  BY <1>1, <1>4, <1>5, <1>6, <1>7, <1>8, StepKinds, Frames DEF DrainStep
<1>10. QED BY <1>9 DEF Runs

\* Batches stay well formed.
LEMMA BatchType ==
  ASSUME TypeOK, [Next]_vars
  PROVE  batch' \in [main : SUBSET Updates, control : SUBSET Updates,
                     drain : SUBSET (Updates \X (0 .. Chunks))]
<1> DEFINE Held == [main : SUBSET Updates, control : SUBSET Updates,
                    drain : SUBSET (Updates \X (0 .. Chunks))]
<1>0. batch \in Held BY DEF TypeOK
<1>1. ASSUME RunStep PROVE batch' \in Held
  <2>1. PICK u \in Updates : Moves(u) \/ Leaves(u) BY <1>1, HandlerMoves DEF RunStep
  <2>2. QED BY <1>0, <2>1 DEF Moves, Leaves, Leave
<1>2. ASSUME DrainStep PROVE batch' \in Held
  BY <1>0, <1>2 DEF DrainStep, DrainUpdates, DrainControls, DrainWakes
<1>3. ASSUME ClaimOutbound PROVE batch' \in Held
  <2>1. \E due \in SUBSET (Updates \X (0 .. Chunks)) : batch' = [batch EXCEPT !.drain = due]
    BY <1>3 DEF ClaimOutbound
  <2>2. QED BY <1>0, <2>1
<1>4. ASSUME DrainOutbound PROVE batch' \in Held BY <1>0, <1>4 DEF DrainOutbound
<1>5. ASSUME Crash PROVE batch' \in Held
  <2>1. batch' = [main |-> {}, control |-> {}, drain |-> {}] BY <1>5 DEF Crash
  <2>2. QED BY <2>1
<1>6. ASSUME UNCHANGED batch PROVE batch' \in Held BY <1>0, <1>6
<1> HIDE DEF Held
<1>7. batch' \in Held
  BY <1>1, <1>2, <1>3, <1>4, <1>5, <1>6, StepKinds, Frames
<1>8. QED BY <1>7 DEF Held

\* What a run's step leaves behind.
LEMMA LeavesRun ==
  ASSUME TypeOK, NEW u \in Updates, Leaves(u)
  PROVE  /\ work'[u] = Idle /\ row'[u].status \in {"completed", "failed", "backoff"}
         /\ \A v \in Updates \ {u} : work'[v] = work[v] /\ row'[v] = row[v]
         /\ batch'.main = batch.main \ {u} /\ batch'.control = batch.control \ {u}
         /\ batch'.drain = batch.drain
  BY DEF TypeOK, Leaves, Leave

\* What it changes when it goes on.
LEMMA MovesRun ==
  ASSUME TypeOK, NEW u \in Updates, Moves(u)
  PROVE  /\ work'[u].pc \notin {"idle", "queued"} /\ row' = row /\ batch' = batch
         /\ \A v \in Updates \ {u} : work'[v] = work[v]
  BY DEF TypeOK, Moves

\* What the workers claim: rows that wait, or whose lease is over.
LEMMA DrainClaims ==
  ASSUME TypeOK, Places, DrainStep
  PROVE  \E S \in SUBSET Updates :
           /\ \A u \in S : /\ row[u].status \in {"pending", "lapsed"} /\ row'[u].status = "processing"
                           /\ \E pc \in {"saving", "queued"} : /\ work'[u] = [Idle EXCEPT !.pc = pc]
                                                               /\ pc = "saving" \/ ~Preempts(u)
                           /\ ~InBatch(u)
           /\ \A u \in Updates \ S : /\ work'[u] = work[u]
                                     /\ \/ row'[u] = row[u]
                                        \/ row'[u].status = "expired" /\ ~InBatch(u)
           /\ Up /\ batch'.drain = batch.drain
           /\ \/ /\ batch.main = {} /\ batch'.main = S /\ batch'.control = batch.control
                 /\ \A u \in S : Preempts(u) \/ work'[u] = [Idle EXCEPT !.pc = "queued"]
              \/ /\ batch.control = {} /\ batch'.control = S /\ batch'.main = batch.main
                 /\ \A u \in S : Kind[u] \in {"stop", "tap"} /\ work'[u] = [Idle EXCEPT !.pc = "saving"]
<1> USE DEF TypeOK
<1>1. \A u \in Updates : row[u].status \in {"pending", "lapsed"} => ~InBatch(u) BY DEF Places
<1>2. CASE DrainUpdates
  <2> DEFINE S == {u \in Updates : ~IsWake(u) /\ row[u].status \in {"pending", "lapsed"}}
             pc == [u \in S |-> IF Preempts(u) THEN "saving" ELSE "queued"]
  <2>1. Claim(S, pc) /\ Up /\ batch.main = {} /\ batch' = [batch EXCEPT !.main = S]
    BY <1>2 DEF DrainUpdates
  <2>2. \A u \in Updates : /\ u \in S => row'[u].status = "processing" /\ work'[u] = [Idle EXCEPT !.pc = pc[u]]
                           /\ u \notin S => row'[u] = row[u] /\ work'[u] = work[u]
    BY <2>1 DEF Claim
  <2>3. \A u \in S : pc[u] \in {"saving", "queued"} /\ (pc[u] = "saving" \/ ~Preempts(u))
                     /\ (Preempts(u) \/ pc[u] = "queued")
    OBVIOUS
  <2>4. \A u \in S : u \in Updates /\ row[u].status \in {"pending", "lapsed"} OBVIOUS
  <2> HIDE DEF S, pc
  <2>5. \A u \in S : \E p \in {"saving", "queued"} : work'[u] = [Idle EXCEPT !.pc = p]
                                                    /\ (p = "saving" \/ ~Preempts(u))
    BY <2>2, <2>3, <2>4
  <2>6. \A u \in S : Preempts(u) \/ work'[u] = [Idle EXCEPT !.pc = "queued"]
    BY <2>2, <2>3, <2>4
  <2>7. S \in SUBSET Updates BY <2>4
  <2>8. batch'.drain = batch.drain /\ batch'.main = S /\ batch'.control = batch.control BY <2>1
  <2>9. WITNESS S \in SUBSET Updates
  <2>10. QED BY <1>1, <2>1, <2>2, <2>4, <2>5, <2>6, <2>7, <2>8
<1>3. CASE DrainControls
  <2> DEFINE S == {u \in Updates : Kind[u] \in {"stop", "tap"} /\ row[u].status = "pending"}
  <2>1. Claim(S, [u \in S |-> "saving"]) /\ Up /\ batch.control = {} /\ batch' = [batch EXCEPT !.control = S]
    BY <1>3 DEF DrainControls
  <2>2. \A u \in Updates : /\ u \in S => row'[u].status = "processing" /\ work'[u] = [Idle EXCEPT !.pc = "saving"]
                           /\ u \notin S => row'[u] = row[u] /\ work'[u] = work[u]
    BY <2>1 DEF Claim
  <2>3. \A u \in S : u \in Updates /\ row[u].status = "pending" /\ Kind[u] \in {"stop", "tap"} OBVIOUS
  <2> HIDE DEF S
  <2>4. S \in SUBSET Updates BY <2>3
  <2>5. batch'.drain = batch.drain /\ batch'.control = S /\ batch'.main = batch.main BY <2>1
  <2>6. \A u \in S : Kind[u] \in {"stop", "tap"} /\ work'[u] = [Idle EXCEPT !.pc = "saving"] BY <2>2, <2>3
  <2>7. \A u \in S : /\ row[u].status \in {"pending", "lapsed"} /\ row'[u].status = "processing" /\ ~InBatch(u)
                     /\ \E pc \in {"saving", "queued"} : /\ work'[u] = [Idle EXCEPT !.pc = pc]
                                                         /\ pc = "saving" \/ ~Preempts(u)
    BY <1>1, <2>2, <2>3
  <2>8. \A u \in Updates \ S : work'[u] = work[u] /\ row'[u] = row[u] BY <2>2
  <2>9. WITNESS S \in SUBSET Updates
  <2>10. QED BY <2>1, <2>4, <2>5, <2>6, <2>7, <2>8
<1>4. CASE DrainWakes
  <2>1. PICK gone \in SUBSET {u \in Updates : IsWake(u) /\ row[u].status \notin Settled \cup {"unseen"}} :
          LET claimed == {u \in Updates : IsWake(u) /\ row[u].status \in {"pending", "lapsed"}} \ gone
          IN  /\ Up /\ batch.main = {}
              /\ row' = [u \in Updates |->
                           CASE u \in gone -> [row[u] EXCEPT !.status = "expired"]
                             [] u \in claimed -> [status |-> "processing",
                                                  attempts |-> row[u].attempts + 1]
                             [] OTHER -> row[u]]
              /\ work' = [u \in Updates |-> IF u \in claimed THEN [Idle EXCEPT !.pc = "queued"]
                                            ELSE work[u]]
              /\ batch' = [batch EXCEPT !.main = claimed]
    BY <1>4 DEF DrainWakes
  <2> DEFINE S == {u \in Updates : IsWake(u) /\ row[u].status \in {"pending", "lapsed"}} \ gone
  <2>2. \A u \in S : u \in Updates /\ row[u].status \in {"pending", "lapsed"} /\ ~Preempts(u)
    BY DEF IsWake, Preempts
  <2>3. \A u \in S : u \notin gone OBVIOUS
  <2>4. \A u \in gone : IsWake(u) /\ u \in Updates OBVIOUS
  <2>5. \A u \in gone : ~InBatch(u)
    BY <2>1, <2>4 DEF InBatch, Places, IsWake
  <2>6. \A u \in Updates : /\ u \in S => row'[u].status = "processing" /\ work'[u] = [Idle EXCEPT !.pc = "queued"]
                           /\ u \notin S => work'[u] = work[u]
                           /\ u \in gone => row'[u].status = "expired"
                           /\ u \notin gone /\ u \notin S => row'[u] = row[u]
    BY <2>1, <2>3
  <2>7. batch' = [batch EXCEPT !.main = S] BY <2>1
  <2> HIDE DEF S
  <2>8. S \in SUBSET Updates BY <2>2
  <2>9. batch'.drain = batch.drain /\ batch'.main = S /\ batch'.control = batch.control BY <2>7
  <2>10. \A u \in S : /\ row[u].status \in {"pending", "lapsed"} /\ row'[u].status = "processing" /\ ~InBatch(u)
                      /\ work'[u] = [Idle EXCEPT !.pc = "queued"] /\ ~Preempts(u)
    BY <1>1, <2>2, <2>6
  <2>a. \A u \in S : \E pc \in {"saving", "queued"} : /\ work'[u] = [Idle EXCEPT !.pc = pc]
                                                      /\ pc = "saving" \/ ~Preempts(u)
    BY <2>10
  <2>11. \A u \in Updates \ S : /\ work'[u] = work[u]
                                /\ row'[u] = row[u] \/ (row'[u].status = "expired" /\ ~InBatch(u))
    BY <2>5, <2>6
  <2>12. WITNESS S \in SUBSET Updates
  <2>13. \A u \in S : Preempts(u) \/ work'[u] = [Idle EXCEPT !.pc = "queued"] BY <2>10
  <2>14. Up /\ batch'.drain = batch.drain /\ batch.main = {} /\ batch'.main = S /\ batch'.control = batch.control
    BY <2>1, <2>9
  <2>15. QED BY <2>10, <2>a, <2>11, <2>13, <2>14
<1>5. QED BY <1>2, <1>3, <1>4 DEF DrainStep

\* The fields of a batch.
LEMMA BatchFields ==
  ASSUME TypeOK
  PROVE  batch.main \subseteq Updates /\ batch.control \subseteq Updates
         /\ batch.drain \subseteq Updates \X (0 .. Chunks)
  BY DEF TypeOK

\* Steps that touch neither runs nor batches, but rows that no worker holds.
RowsElsewhere ==
  /\ UNCHANGED <<work, batch>>
  /\ \A u \in Updates : row'[u] = row[u] \/ ~InBatch(u)

\* A restart keeps hands off what is being processed: nothing is, before it.
LEMMA RowsApart ==
  ASSUME TypeOK, Places, RowStep \/ RecoverInterruptedTurns
  PROVE  RowsElsewhere
<1>0. row \in [Updates -> [status : RowStates, attempts : Nat]] BY DEF TypeOK
<1>1. \A u \in Updates : row[u].status # "processing" \/ work[u].pc = "idle" => ~InBatch(u)
  BY DEF Places
<1>2. ASSUME NEW u \in Updates, BackoffEnds(u) \/ LeaseRunsOut(u) \/ Arrive(u) \/ PressButton(u)
      PROVE  RowsElsewhere
  <2>1. ~InBatch(u) BY <1>1, <1>2 DEF BackoffEnds, LeaseRunsOut, Arrive, PressButton
  <2>2. \A v \in Updates \ {u} : row'[v] = row[v]
    BY <1>0, <1>2 DEF BackoffEnds, LeaseRunsOut, Arrive, PressButton
  <2>3. RowStep BY <1>2 DEF RowStep
  <2>4. QED BY <2>1, <2>2, <2>3, Frames DEF RowsElsewhere
<1>3. ASSUME RecoverInterruptedTurns PROVE RowsElsewhere
  <2>1. batch.main = {} /\ batch.control = {} BY <1>3 DEF RecoverInterruptedTurns, Places, Up
  <2>2. \A u \in Updates : ~InBatch(u) BY <2>1 DEF InBatch
  <2>3. QED BY <1>3, <2>2, Frames DEF RowsElsewhere
<1>4. QED BY <1>2, <1>3 DEF RowStep

\* Runs, rows and batches stay together.
LEMMA PlacesStep ==
  ASSUME TypeOK, Places, [Next]_vars
  PROVE  Places'
<1>0. Kind' = Kind BY BudgetStep DEF Kind
<1>1. ASSUME NEW u \in Updates, Handler(u) \/ AcceptTurn(u), Moves(u) PROVE Places'
  <2>1. work[u].pc # "idle" /\ stage' = stage BY <1>1, HandlerMoves, HandlerFrames
  <2>2. batch' = batch /\ row' = row BY <1>1, MovesRun
  <2>3. \A v \in Updates : work'[v].pc # "idle" <=> work[v].pc # "idle"
    BY <1>1, <2>1, MovesRun
  <2>4. QED BY <1>0, <2>1, <2>2, <2>3 DEF Places, InBatch, Up
<1>2. ASSUME NEW u \in Updates, Handler(u) \/ AcceptTurn(u), Leaves(u) PROVE Places'
  <2>1. work[u].pc # "idle" /\ stage' = stage BY <1>2, HandlerMoves, HandlerFrames
  <2>2. InBatch(u) BY <2>1 DEF Places
  <2>3. Up /\ Up' BY <2>1, <2>2 DEF Places, InBatch, Up
  <2>4. work'[u].pc = "idle" BY <1>2, LeavesRun DEF Idle
  <2>5. ~InBatch(u)' /\ \A v \in Updates \ {u} : InBatch(v)' <=> InBatch(v)
    BY <1>2, LeavesRun DEF InBatch
  <2>6. batch'.control = batch.control \ {u} /\ batch'.main \subseteq batch.main
    BY <1>2, LeavesRun
  <2>7. \A v \in Updates \ {u} : work'[v] = work[v] /\ row'[v] = row[v] BY <1>2, LeavesRun
  <2>8. QED BY <1>0, <2>3, <2>4, <2>5, <2>6, <2>7 DEF Places
<1>3. ASSUME DrainStep PROVE Places'
  <2>1. PICK S \in SUBSET Updates :
           /\ \A u \in S : /\ row'[u].status = "processing"
                           /\ \E pc \in {"saving", "queued"} : work'[u] = [Idle EXCEPT !.pc = pc]
                           /\ ~InBatch(u)
           /\ \A u \in Updates \ S : /\ work'[u] = work[u]
                                     /\ \/ row'[u] = row[u]
                                        \/ row'[u].status = "expired" /\ ~InBatch(u)
           /\ Up
           /\ \/ batch.main = {} /\ batch'.main = S /\ batch'.control = batch.control
              \/ /\ batch.control = {} /\ batch'.control = S /\ batch'.main = batch.main
                 /\ \A u \in S : Kind[u] \in {"stop", "tap"}
    BY <1>3, DrainClaims
  <2>2. \A u \in S : work'[u].pc # "idle" BY <2>1 DEF Idle
  <2>3. \A u \in Updates : InBatch(u)' <=> InBatch(u) \/ u \in S BY <2>1 DEF InBatch
  <2>4. Up' BY <1>3, <2>1, Frames DEF Up
  <2>5. \A u \in Updates : work'[u].pc # "idle" <=> InBatch(u)' BY <2>1, <2>2, <2>3 DEF Places
  <2>6. \A u \in Updates : InBatch(u)' => row'[u].status = "processing" BY <2>1, <2>3 DEF Places
  <2>7. \A u \in batch'.control : Kind'[u] \in {"stop", "tap"} /\ u \notin batch'.main
    BY <1>0, <2>1 DEF Places, InBatch
  <2>8. QED BY <2>4, <2>5, <2>6, <2>7 DEF Places
<1>4. ASSUME ClaimOutbound \/ DrainOutbound PROVE Places'
  <2>1. UNCHANGED <<row, work, stage>> BY <1>4, Frames
  <2>2. batch'.main = batch.main /\ batch'.control = batch.control
    BY <1>4 DEF ClaimOutbound, DrainOutbound, TypeOK
  <2>3. Up \/ batch.drain # {} BY <1>4 DEF ClaimOutbound, DrainOutbound
  <2>4. Up BY <2>3 DEF Places
  <2>5. QED BY <1>0, <2>1, <2>2, <2>4 DEF Places, InBatch, Up
<1>6. ASSUME Crash PROVE Places'
  <2>1. /\ work' = [u \in Updates |-> Idle] /\ stage' = "down"
        /\ batch' = [main |-> {}, control |-> {}, drain |-> {}]
    BY <1>6 DEF Crash
  <2>2. \A u \in Updates : work'[u].pc = "idle" BY <2>1 DEF Idle
  <2>3. batch'.main = {} /\ batch'.control = {} BY <2>1
  <2>4. QED BY <2>1, <2>2, <2>3 DEF Places, InBatch, Up
<1>7. ASSUME TurnStep \/ AskStep \/ ReturnStep \/ UNCHANGED vars PROVE Places'
  <2>1. UNCHANGED <<row, work, batch, stage>> BY <1>7, Frames
  <2>2. QED BY <1>0, <2>1 DEF Places, InBatch, Up
<1>8. ASSUME Boot PROVE Places'
  BY <1>0, <1>8, Frames DEF Places, InBatch, Up, Boot
<1>9. ASSUME RowStep PROVE Places'
  <2>1. RowsElsewhere /\ stage' = stage BY <1>9, RowsApart, Frames
  <2>2. QED BY <1>0, <2>1 DEF Places, InBatch, RowsElsewhere, Up
<1>10. ASSUME RecoverInterruptedTurns PROVE Places'
  <2>1. RowsElsewhere /\ stage' = "up" BY <1>10, RowsApart DEF RecoverInterruptedTurns
  <2>2. QED BY <1>0, <2>1 DEF Places, InBatch, RowsElsewhere, Up
<1>11. ASSUME RunStep PROVE Places' BY <1>1, <1>2, <1>11, HandlerMoves DEF RunStep
<1>12. QED BY <1>3, <1>4, <1>6, <1>7, <1>8, <1>9, <1>10, <1>11, StepKinds

-----------------------------------------------------------------------------
(***************************************************************************)
(* Approval requests: what the row says is what the app-server hears.      *)
(***************************************************************************)
AskOK(a) ==
  /\ a.held => a.state = "pending"
  /\ a.state = "pending" => a.way = "none" /\ a.answer = "none"
  /\ a.way # "none" => a.answer = "none"
  /\ a.answer = "approve" \/ a.way = "approve" => a.state = "approved"
  /\ a.answer = "deny" \/ a.way = "deny" => a.state # "approved"
  /\ a.state = "approved" => a.answer = "approve" \/ a.way \in {"approve", "lost"}
  /\ a.state = "denied" => a.answer = "deny" \/ a.way \in {"deny", "lost"}

AsksOK == \A t \in 1 .. MaxTurns : AskOK(ask[t])

SoundAsk(a) == a \in AskStates /\ AskOK(a)

\* Turns the app-server accepted are among those it ever accepts.
LEMMA TurnBounds ==
  ASSUME TypeOK
  PROVE  /\ Len(turns) \in Nat /\ Turns \subseteq 1 .. MaxTurns /\ 0 \notin Turns
         /\ \A t \in Turns : turns[t] \in TurnStates
  BY Bounds DEF TypeOK, Turns

\* An open request is decided, by the owner, by its time, or with its prompt, and the
\* app-server is answered, unless its socket is closed.
LEMMA AskDecided ==
  ASSUME NEW a, SoundAsk(a), a.held, NEW state \in {"expired", "approved", "denied"},
         NEW r \in {IF state = "approved" THEN "approve" ELSE "deny", "lost"}
  PROVE  SoundAsk(Respond([a EXCEPT !.state = state, !.held = FALSE], r))
<1>1. a \in AskStates /\ a.way = "none" /\ a.answer = "none" BY DEF SoundAsk, AskOK
<1>2. Respond([a EXCEPT !.state = state, !.held = FALSE], r)
      = [a EXCEPT !.state = state, !.held = FALSE, !.way = r]
  BY <1>1 DEF Respond, AskStates
<1>3. r \in {"approve", "deny", "lost"} OBVIOUS
<1>4. [a EXCEPT !.state = state, !.held = FALSE, !.way = r] \in AskStates BY <1>1, <1>3 DEF AskStates
<1>5. AskOK([a EXCEPT !.state = state, !.held = FALSE, !.way = r])
  BY <1>1, <1>3 DEF AskOK, AskStates
<1>6. QED BY <1>2, <1>4, <1>5 DEF SoundAsk

\* The prompt failed.
LEMMA AskUnprompted ==
  ASSUME NEW a, SoundAsk(a),
         NEW state, state = (IF a.state # "pending" THEN a.state ELSE IF a.due THEN "expired" ELSE "denied")
  PROVE  SoundAsk(Respond([a EXCEPT !.prompt = "shown", !.held = FALSE, !.state = state], "deny"))
<1> DEFINE b == [a EXCEPT !.prompt = "shown", !.held = FALSE, !.state = state]
           d == [a EXCEPT !.prompt = "shown", !.held = FALSE, !.state = state, !.way = "deny"]
<1>1. a \in AskStates /\ AskOK(a) BY DEF SoundAsk
<1>2. b \in AskStates /\ d \in AskStates BY <1>1 DEF AskStates
<1>3. CASE a.way = "none" /\ a.answer = "none"
  <2>1. Respond(b, "deny") = d BY <1>1, <1>3 DEF Respond, AskStates
  <2>2. AskOK(d) BY <1>1, <1>3 DEF AskOK, AskStates
  <2>3. QED BY <1>2, <2>1, <2>2 DEF SoundAsk
<1>4. CASE a.way # "none" \/ a.answer # "none"
  <2>1. a.state # "pending" /\ state = a.state BY <1>1, <1>4 DEF AskOK
  <2>2. Respond(b, "deny") = b BY <1>1, <1>4 DEF Respond, AskStates
  <2>3. AskOK(b) BY <1>1, <2>1 DEF AskOK, AskStates
  <2>4. QED BY <1>2, <2>2, <2>3 DEF SoundAsk
<1>5. QED BY <1>3, <1>4

\* What a restart makes of it, and the passing of time.
LEMMA AskLost ==
  ASSUME NEW a, SoundAsk(a)
  PROVE  /\ SoundAsk([a EXCEPT !.held = FALSE, !.prompt = IF a.prompt = "none" THEN a.prompt ELSE "shown",
                               !.way = IF a.way = "none" THEN a.way ELSE "lost"])
         /\ a.state = "pending" /\ ~a.held => SoundAsk([a EXCEPT !.state = "expired"])
         /\ SoundAsk([a EXCEPT !.due = TRUE]) /\ SoundAsk([a EXCEPT !.prompt = "shown"])
<1>1. SoundAsk([a EXCEPT !.held = FALSE, !.prompt = IF a.prompt = "none" THEN a.prompt ELSE "shown",
                         !.way = IF a.way = "none" THEN a.way ELSE "lost"])
  BY DEF SoundAsk, AskOK, AskStates
<1>2. a.state = "pending" /\ ~a.held => SoundAsk([a EXCEPT !.state = "expired"])
  BY DEF SoundAsk, AskOK, AskStates
<1>3. SoundAsk([a EXCEPT !.due = TRUE]) /\ SoundAsk([a EXCEPT !.prompt = "shown"])
  BY DEF SoundAsk, AskOK, AskStates
<1>4. QED BY <1>1, <1>2, <1>3

\* The app-server reads the response.
LEMMA AskHeard ==
  ASSUME NEW a, SoundAsk(a), a.way \in {"approve", "deny"}
  PROVE  SoundAsk([a EXCEPT !.answer = a.way, !.way = "none"])
  BY DEF SoundAsk, AskOK, AskStates

\* A new request.
LEMMA AskPosed ==
  /\ SoundAsk(Unasked)
  /\ SoundAsk([Unasked EXCEPT !.state = "pending", !.held = TRUE, !.prompt = "sending"])
  /\ SoundAsk(Respond(Unasked, "deny"))
<1>1. Respond(Unasked, "deny") = [Unasked EXCEPT !.way = "deny"] BY DEF Respond, Unasked
<1>2. SoundAsk([Unasked EXCEPT !.way = "deny"]) BY DEF SoundAsk, AskOK, AskStates, Unasked
<1>3. SoundAsk([Unasked EXCEPT !.state = "pending", !.held = TRUE, !.prompt = "sending"])
  BY DEF SoundAsk, AskOK, AskStates, Unasked
<1>4. SoundAsk(Unasked) BY DEF SoundAsk, AskOK, AskStates, Unasked
<1>5. QED BY <1>1, <1>2, <1>3, <1>4

\* No request is open in a process that is down, so a restart expires only rows.
AsksDown == ~Up => \A t \in 1 .. MaxTurns : ~ask[t].held

AllSound(a) == a \in [1 .. MaxTurns -> AskStates] /\ \A t \in 1 .. MaxTurns : SoundAsk(a[t])

\* Requests stay well formed and answered as recorded.
LEMMA AsksStep ==
  ASSUME TypeOK, Places, AsksOK, AsksDown, [Next]_vars
  PROVE  AllSound(ask') /\ AsksDown'
<1>0. AllSound(ask) BY DEF TypeOK, AsksOK, SoundAsk, AllSound
<1> DEFINE N == 1 .. MaxTurns
<1>1. ASSUME NEW f, ask' = [t \in N |-> f[t]], \A t \in N : SoundAsk(f[t]) PROVE AllSound(ask')
  BY <1>1 DEF AllSound, SoundAsk
<1>2. ASSUME NEW t \in N, NEW a, SoundAsk(a), ask' = [ask EXCEPT ![t] = a] PROVE AllSound(ask')
  BY <1>0, <1>2 DEF AllSound, SoundAsk
<1>3. ASSUME ExpirePending PROVE AllSound(ask')
  <2> DEFINE d(t) == Respond([ask[t] EXCEPT !.state = "expired", !.held = FALSE], "deny")
             f == [t \in N |-> IF Overdue(t) THEN d(t) ELSE ask[t]]
  <2>1. ask' = f BY <1>0, <1>3 DEF ExpirePending, AllSound
  <2>2. ASSUME NEW t \in N PROVE SoundAsk(f[t])
    <3>1. SoundAsk(ask[t]) BY <1>0 DEF AllSound
    <3>2. Overdue(t) => ask[t].held BY DEF Overdue
    <3>3. f[t] = IF Overdue(t) THEN d(t) ELSE ask[t] OBVIOUS
    <3> HIDE DEF f
    <3>4. ASSUME Overdue(t) PROVE SoundAsk(d(t))
      <4>1. "deny" \in {IF "expired" = "approved" THEN "approve" ELSE "deny", "lost"} OBVIOUS
      <4>2. QED BY <3>1, <3>2, <3>4, <4>1, AskDecided
    <3>5. QED BY <3>1, <3>3, <3>4
  <2>3. f = [t \in N |-> f[t]] OBVIOUS
  <2> HIDE DEF f
  <2>4. QED BY <1>1, <2>1, <2>2, <2>3
<1>4. ASSUME NEW u \in Updates, Tap(u) PROVE AllSound(ask')
  <2> DEFINE t == press[u].turn
             c(state, r) == Respond([ask[t] EXCEPT !.state = state, !.held = FALSE], r)
  <2>1. \/ ask' = ask
        \/ \E state \in {"expired", "approved", "denied"} :
             \E r \in {IF state = "approved" THEN "approve" ELSE "deny", "lost"} :
               ask[t].held /\ ask' = [ask EXCEPT ![t] = c(state, r)]
    BY <1>4 DEF Tap
  <2>2. CASE ask' = ask \/ t \notin N BY <1>0, <2>1, <2>2 DEF AllSound
  <2>3. ASSUME t \in N, NEW state \in {"expired", "approved", "denied"},
               NEW r \in {IF state = "approved" THEN "approve" ELSE "deny", "lost"},
               ask[t].held, ask' = [ask EXCEPT ![t] = c(state, r)]
        PROVE  AllSound(ask')
    <3>1. SoundAsk(ask[t]) BY <1>0, <2>3 DEF AllSound
    <3>2. SoundAsk(c(state, r)) BY <2>3, <3>1, AskDecided
    <3> HIDE DEF c, t
    <3>3. QED BY <1>2, <2>3, <3>2
  <2> HIDE DEF c, t
  <2>4. QED BY <2>1, <2>2, <2>3
<1>5. ASSUME NEW t \in Turns, HandleServerRequest(t) \/ ApprovalDue(t) \/ ReadResponse(t)
      PROVE  AllSound(ask')
  <2>1. t \in N /\ SoundAsk(ask[t]) BY <1>0, TurnBounds DEF AllSound
  <2>2. CASE HandleServerRequest(t)
    <3>1. \/ ask' = [ask EXCEPT ![t] = [Unasked EXCEPT !.state = "pending", !.held = TRUE, !.prompt = "sending"]]
          \/ ask' = [ask EXCEPT ![t] = Respond(Unasked, "deny")]
      BY <1>0, <2>1, <2>2 DEF HandleServerRequest, AllSound
    <3>2. QED BY <1>2, <2>1, <3>1, AskPosed
  <2>3. CASE ApprovalDue(t)
    <3>1. ask' = [ask EXCEPT ![t] = [ask[t] EXCEPT !.due = TRUE]]
      BY <1>0, <2>1, <2>3 DEF ApprovalDue, AllSound
    <3>2. QED BY <1>2, <2>1, <3>1, AskLost
  <2>4. CASE ReadResponse(t)
    <3>1. /\ ask' = [ask EXCEPT ![t] = [ask[t] EXCEPT !.answer = ask[t].way, !.way = "none"]]
          /\ ask[t].way \in {"approve", "deny"}
      BY <1>0, <2>1, <2>4 DEF ReadResponse, AllSound
    <3>2. QED BY <1>2, <2>1, <3>1, AskHeard
  <2>5. QED BY <1>5, <2>2, <2>3, <2>4
<1>6. ASSUME NEW t \in Turns, PromptReturns(t) PROVE AllSound(ask')
  <2>1. t \in N /\ SoundAsk(ask[t]) BY <1>0, TurnBounds DEF AllSound
  <2> DEFINE state == IF ask[t].state # "pending" THEN ask[t].state ELSE IF ask[t].due THEN "expired" ELSE "denied"
             b == Respond([ask[t] EXCEPT !.prompt = "shown", !.held = FALSE, !.state = state], "deny")
  <2>2. \/ ask' = [ask EXCEPT ![t] = [ask[t] EXCEPT !.prompt = "shown"]]
        \/ ask' = [ask EXCEPT ![t] = b]
    BY <1>0, <1>6, <2>1 DEF PromptReturns, AllSound
  <2>3. SoundAsk(b) BY <2>1, AskUnprompted
  <2> HIDE DEF b
  <2>4. QED BY <1>2, <2>1, <2>2, <2>3, AskLost
<1>7. ASSUME Crash PROVE AllSound(ask') /\ AsksDown'
  <2> DEFINE f == [t \in N |-> [ask[t] EXCEPT !.held = FALSE,
                                  !.prompt = IF ask[t].prompt = "none" THEN ask[t].prompt ELSE "shown",
                                  !.way = IF ask[t].way = "none" THEN ask[t].way ELSE "lost"]]
  <2>1. ask' = f BY <1>0, <1>7 DEF Crash, AllSound
  <2>2. ASSUME NEW t \in N PROVE SoundAsk(f[t]) /\ ~f[t].held
    <3>1. SoundAsk(ask[t]) BY <1>0 DEF AllSound
    <3>2. f[t] = [ask[t] EXCEPT !.held = FALSE,
                                !.prompt = IF ask[t].prompt = "none" THEN ask[t].prompt ELSE "shown",
                                !.way = IF ask[t].way = "none" THEN ask[t].way ELSE "lost"]
      OBVIOUS
    <3>3. f[t].held = FALSE BY <3>1 DEF SoundAsk, AskStates
    <3>4. SoundAsk([ask[t] EXCEPT !.held = FALSE,
                                  !.prompt = IF ask[t].prompt = "none" THEN ask[t].prompt ELSE "shown",
                                  !.way = IF ask[t].way = "none" THEN ask[t].way ELSE "lost"])
      BY <3>1, AskLost
    <3> HIDE DEF f
    <3>5. QED BY <3>2, <3>3, <3>4
  <2>3. f = [t \in N |-> f[t]] OBVIOUS
  <2> HIDE DEF f
  <2>4. QED BY <1>1, <2>1, <2>2, <2>3 DEF AsksDown
<1>8. ASSUME Boot PROVE AllSound(ask') /\ AsksDown'
  <2> DEFINE f == [t \in N |-> IF ask[t].state = "pending" THEN [ask[t] EXCEPT !.state = "expired"] ELSE ask[t]]
  <2>1. ask' = f /\ ~Up BY <1>0, <1>8 DEF Boot, AllSound, Up
  <2>2. ASSUME NEW t \in N PROVE SoundAsk(f[t]) /\ ~f[t].held
    <3>1. SoundAsk(ask[t]) /\ ~ask[t].held BY <1>0, <2>1 DEF AllSound, AsksDown
    <3>2. f[t].held = ask[t].held BY <3>1 DEF SoundAsk, AskStates
    <3>3. f[t] = IF ask[t].state = "pending" THEN [ask[t] EXCEPT !.state = "expired"] ELSE ask[t] OBVIOUS
    <3> HIDE DEF f
    <3>4. QED BY <3>1, <3>2, <3>3, AskLost
  <2>3. f = [t \in N |-> f[t]] OBVIOUS
  <2> HIDE DEF f
  <2>4. QED BY <1>1, <2>1, <2>2, <2>3 DEF AsksDown
<1>9. ASSUME NEW u \in Updates, Handler(u) \/ AcceptTurn(u) PROVE AllSound(ask')
  <2>1. UNCHANGED ask \/ Tap(u)
    BY <1>9 DEF Handler, AcceptTurn, RunQueued, SaveFails, TapAcknowledged, NewConversation, Stop, StopReturns,
       Sender, SendPart, SkipPart, PartSent, NothingToSend, InvalidTarget, Runner, RunTurn, ThreadFails,
       ThreadStale, ThreadReady, RejectTurn, StartTimesOut, TurnStarted, TurnUnrecorded, Halted, TurnFails,
       WaitTimesOut, GiveUp, TurnAnswers
  <2>2. QED BY <1>0, <1>4, <2>1
<1>10. ASSUME DrainStep PROVE AllSound(ask')
  BY <1>0, <1>3, <1>10 DEF DrainStep, DrainUpdates, DrainControls, DrainWakes
<1>11. AllSound(ask')
  BY <1>0, <1>5, <1>6, <1>7, <1>8, <1>9, <1>10, StepKinds, Frames DEF RunStep, AskStep
<1>12. ASSUME ~Up', ~Crash, ~Boot PROVE \A t \in N : ~ask'[t].held
  <2>1. ~RunStep BY <1>12, HandlerMoves, HandlerFrames DEF RunStep, Places, InBatch, Up
  <2>2. ~DrainStep BY <1>12, Frames DEF DrainStep, DrainUpdates, DrainControls, DrainWakes, Up
  <2>3. stage' = stage \/ RecoverInterruptedTurns BY <1>12, <2>1, <2>2, StepKinds, Frames
  <2>4. ~Up BY <1>12, <2>3 DEF Up, RecoverInterruptedTurns
  <2>5. \A t \in N : ~ask[t].held BY <2>4 DEF AsksDown
  <2>6. ASSUME AskStep PROVE \A t \in N : ask'[t].held = ask[t].held
    <3>1. PICK t \in Turns : ApprovalDue(t) \/ ReadResponse(t)
      BY <2>4, <2>6 DEF AskStep, HandleServerRequest, PromptReturns
    <3>2. t \in N /\ SoundAsk(ask[t]) BY <1>0, TurnBounds DEF AllSound
    <3>3. \/ ask' = [ask EXCEPT ![t] = [ask[t] EXCEPT !.due = TRUE]]
          \/ ask' = [ask EXCEPT ![t] = [ask[t] EXCEPT !.answer = ask[t].way, !.way = "none"]]
      BY <1>0, <3>1, <3>2 DEF ApprovalDue, ReadResponse, AllSound
    <3>4. [ask[t] EXCEPT !.due = TRUE].held = ask[t].held
          /\ [ask[t] EXCEPT !.answer = ask[t].way, !.way = "none"].held = ask[t].held
      BY <3>2 DEF SoundAsk, AskStates
    <3>5. QED BY <1>0, <3>2, <3>3, <3>4 DEF AllSound
  <2>7. ~AskStep => UNCHANGED ask BY <1>12, <2>1, <2>2, StepKinds, Frames
  <2>8. QED BY <2>5, <2>6, <2>7
<1>13. AsksDown' BY <1>7, <1>8, <1>12 DEF AsksDown
<1>14. QED BY <1>11, <1>13

-----------------------------------------------------------------------------
(***************************************************************************)
(* Turns are only added, keep their update, and end once.                  *)
(***************************************************************************)
InterruptOK(a) == a.interrupt \in {"answered", "done"} => a.status \in Ended

Continues(a, b) ==
  /\ b \in TurnStates /\ b.source = a.source /\ b.thread = a.thread
  /\ a.status \in Ended => b.status = a.status
  /\ InterruptOK(a) => InterruptOK(b)

TurnsGrow ==
  /\ turns' \in Seq(TurnStates) /\ Len(turns') >= Len(turns) /\ Len(turns') <= MaxTurns
  /\ \A t \in Turns : Continues(turns[t], turns'[t])

SameTurns == TurnsGrow /\ Len(turns') = Len(turns)

\* A turn that only waits continues as it is.
LEMMA ContinuesSame ==
  ASSUME TypeOK, NEW t \in Turns
  PROVE  Continues(turns[t], turns[t])
  BY TurnBounds DEF Continues

\* One turn goes on, or none does.
LEMMA OneContinues ==
  ASSUME TypeOK, NEW t \in Turns, NEW x, Continues(turns[t], x), turns' = [turns EXCEPT ![t] = x]
  PROVE  SameTurns
<1>1. turns \in Seq(TurnStates) /\ t \in 1 .. Len(turns) /\ x \in TurnStates /\ Len(turns) <= MaxTurns
      /\ Len(turns) \in Nat
  BY DEF TypeOK, Turns, Continues
<1>2. turns' \in Seq(TurnStates) /\ Len(turns') = Len(turns)
      /\ \A j \in 1 .. Len(turns) : turns'[j] = IF j = t THEN x ELSE turns[j]
  BY <1>1, ExceptSeq
<1>3. \A j \in Turns : Continues(turns[j], turns'[j])
  BY <1>2, ContinuesSame DEF Turns
<1>4. QED BY <1>1, <1>2, <1>3 DEF SameTurns, TurnsGrow

\* No turn goes on.
LEMMA NoneContinues ==
  ASSUME TypeOK, UNCHANGED turns
  PROVE  SameTurns
  BY ContinuesSame, TurnBounds DEF TypeOK, SameTurns, TurnsGrow

\* All turns go on at once.
LEMMA AllContinue ==
  ASSUME TypeOK, NEW f, turns' = [t \in Turns |-> f[t]], \A t \in Turns : Continues(turns[t], f[t])
  PROVE  SameTurns
<1>1. Len(turns) \in Nat /\ Len(turns) <= MaxTurns /\ Turns = 1 .. Len(turns) BY DEF TypeOK, Turns
<1>2. \A t \in Turns : f[t] \in TurnStates BY DEF Continues
<1>3. turns' \in [1 .. Len(turns) -> TurnStates] BY <1>1, <1>2
<1>4. turns' \in Seq(TurnStates) BY <1>1, <1>3, SeqDef
<1>5. Len(turns') = Len(turns)
  <2>1. DOMAIN turns' = 1 .. Len(turns') /\ Len(turns') \in Nat BY <1>4, LenProperties
  <2>2. DOMAIN turns' = 1 .. Len(turns) BY <1>3
  <2>3. QED BY <1>1, <2>1, <2>2
<1>6. \A t \in Turns : Continues(turns[t], turns'[t]) OBVIOUS
<1>7. QED BY <1>1, <1>4, <1>5, <1>6 DEF SameTurns, TurnsGrow

\* Another status of the interrupt, one that is not an answer.
LEMMA InterruptContinues ==
  ASSUME TypeOK, NEW t \in Turns, NEW i \in {"none", "awaiting", "requested", "refused", "failed"}
  PROVE  Continues(turns[t], [turns[t] EXCEPT !.interrupt = i])
<1>1. turns[t] \in TurnStates BY TurnBounds
<1>2. QED BY <1>1 DEF Continues, TurnStates, InterruptOK

\* Another status of a turn that has not ended.
LEMMA StatusContinues ==
  ASSUME TypeOK, NEW t \in Turns, turns[t].status \notin Ended,
         NEW s \in {"accepted", "running"} \cup Ended
  PROVE  s \in Ended \/ turns[t].interrupt \notin {"answered", "done"}
         => Continues(turns[t], [turns[t] EXCEPT !.status = s])
<1>1. turns[t] \in TurnStates BY TurnBounds
<1>2. QED BY <1>1 DEF Continues, TurnStates, InterruptOK

\* Disposing of a turn.
LEMMA DisposeContinues ==
  ASSUME TypeOK, NEW t \in Turns, Dispose(t)
  PROVE  SameTurns
<1>1. CASE UNCHANGED turns BY <1>1, NoneContinues
<1>2. CASE turns' = [turns EXCEPT ![t] = [turns[t] EXCEPT !.interrupt = "failed"]]
  BY <1>2, InterruptContinues, OneContinues
<1>3. QED BY <1>1, <1>2 DEF Dispose

\* A new turn.
LEMMA AcceptGrows ==
  ASSUME TypeOK, NEW u \in Updates, AcceptTurn(u)
  PROVE  /\ TurnsGrow /\ Len(turns') = Len(turns) + 1 /\ Len(turns) + 1 \notin Turns
         /\ turns'[Len(turns) + 1].source = u /\ turns'[Len(turns) + 1].interrupt = "none"
<1> DEFINE x == [source |-> u, thread |-> work[u].thread, status |-> "accepted", interrupt |-> "none"]
<1>1. x \in TurnStates BY WorkFields DEF TurnStates
<1>2. turns' = Append(turns, x) /\ Len(turns) < MaxTurns BY DEF AcceptTurn
<1> HIDE DEF x
<1>3. turns \in Seq(TurnStates) /\ Len(turns) \in Nat BY DEF TypeOK
<1>4. /\ turns' \in Seq(TurnStates) /\ Len(turns') = Len(turns) + 1
      /\ \A i \in 1 .. Len(turns) : turns'[i] = turns[i]
      /\ turns'[Len(turns) + 1] = x
  BY <1>1, <1>2, <1>3, AppendProperties
<1>5. \A t \in Turns : Continues(turns[t], turns'[t]) BY <1>4, ContinuesSame DEF Turns
<1>6. Len(turns') <= MaxTurns /\ Len(turns') >= Len(turns) BY <1>2, <1>3, <1>4, Bounds
<1>7. x.source = u /\ x.interrupt = "none" BY DEF x
<1>8. QED BY <1>3, <1>4, <1>5, <1>6, <1>7 DEF TurnsGrow, Turns

\* The three values of an active_turn_id are told apart.
LEMMA ActiveKinds ==
  /\ \A u, v \in Updates : <<"starting", u>> = <<"starting", v>> => u = v
  /\ \A s, t \in Nat : <<"turn", s>> = <<"turn", t>> => s = t
  /\ \A u \in Updates, t \in Nat : <<"starting", u>> # <<"turn", t>>
  /\ \A x, y : <<x, y>> # <<>>
  /\ \A u \in Updates : <<"starting", u>> \in ActiveTurns
  /\ \A t \in 1 .. MaxTurns : <<"turn", t>> \in ActiveTurns
  /\ <<>> \in ActiveTurns
<1>1. \A u \in Updates, t \in Nat : <<"starting", u>> # <<"turn", t>> OBVIOUS
<1>2. \A x, y : <<x, y>> # <<>> OBVIOUS
<1>3. \A u, v \in Updates : <<"starting", u>> = <<"starting", v>> => u = v OBVIOUS
<1>4. \A s, t \in Nat : <<"turn", s>> = <<"turn", t>> => s = t OBVIOUS
<1>5. <<>> \in ActiveTurns BY DEF ActiveTurns
<1>6. \A u \in Updates : <<"starting", u>> \in ActiveTurns BY DEF ActiveTurns
<1>7. \A t \in 1 .. MaxTurns : <<"turn", t>> \in ActiveTurns BY DEF ActiveTurns
<1>8. QED BY <1>1, <1>2, <1>3, <1>4, <1>5, <1>6, <1>7

\* A run, its request turn/start and its turn belong to one update.
RunLinked(u, w, s) ==
  /\ w.reply \in 0 .. Len(s) /\ w.turn \in 0 .. Len(s)
  /\ w.pc \in {"idle", "queued", "saving", "resuming", "opening"} => w.turn = 0 /\ w.reply = 0
  /\ w.pc = "starting" => w.turn = 0 /\ (w.reply # 0 => s[w.reply].source = u)
  /\ w.pc \in {"halting", "waiting", "overdue"} => w.turn # 0 /\ s[w.turn].source = u
  /\ w.pc = "stopping" => w.turn # 0

\* So do the conversation's record and its update.
RecordLinked(c, s) ==
  /\ \A u \in Updates : c.active = <<"starting", u>> => c.source = u
  /\ \A t \in Nat : c.active = <<"turn", t>> => t \in 1 .. Len(s) /\ s[t].source = c.source

Links ==
  /\ \A u \in Updates : RunLinked(u, work[u], turns)
  /\ mem.active \in 0 .. Len(turns)
  /\ RecordLinked(conv, turns)
  /\ \A t \in Turns : InterruptOK(turns[t])

\* The turn of a run that has one.
LEMMA TurnOfRun ==
  ASSUME TypeOK, Links, NEW u \in Updates
  PROVE  /\ work[u].pc \in {"halting", "waiting", "overdue", "stopping"} =>
              work[u].turn \in Turns /\ work[u].turn \in Nat
         /\ work[u].reply # 0 => work[u].reply \in Turns
  BY TurnBounds DEF Links, RunLinked, Turns

\* Turns over one step.
LEMMA TurnsStep ==
  ASSUME TypeOK, Links, [Next]_vars
  PROVE  TurnsGrow /\ (SameTurns \/ \E u \in Updates : AcceptTurn(u))
<1>1. ASSUME NEW u \in Updates, TurnStarted(u) PROVE SameTurns
  <2>1. work[u].reply \in Turns BY <1>1, TurnOfRun DEF TurnStarted
  <2>2. CASE mem.pending
    <3>1. turns' = [turns EXCEPT ![work[u].reply] = [turns[work[u].reply] EXCEPT !.interrupt = "awaiting"]]
      BY <1>1, <2>2 DEF TurnStarted
    <3>2. QED BY <2>1, <3>1, InterruptContinues, OneContinues
  <2>3. CASE ~mem.pending BY <1>1, <2>3, NoneContinues DEF TurnStarted
  <2>4. QED BY <2>2, <2>3
<1>2. ASSUME NEW u \in Updates, TurnFails(u) \/ TurnAnswers(u) PROVE SameTurns
  <2>1. work[u].turn \in Turns BY <1>2, TurnOfRun DEF TurnFails, TurnAnswers
  <2>2. Dispose(work[u].turn) BY <1>2 DEF TurnFails, TurnAnswers
  <2>3. QED BY <2>1, <2>2, DisposeContinues
<1>3. ASSUME NEW u \in Updates, GiveUp(u) PROVE SameTurns
  <2> DEFINE t == work[u].turn
             a == turns[t]
             s == IF a.status \in Ended THEN a.status ELSE "interrupted"
             i == IF a.interrupt = "awaiting" THEN "failed" ELSE a.interrupt
  <2>1. t \in Turns /\ a \in TurnStates BY <1>3, TurnOfRun, TurnBounds DEF GiveUp
  <2>2. CASE Dispose(t) BY <2>1, <2>2, DisposeContinues
  <2>3. CASE turns' = [(IF a.status \in Ended THEN turns ELSE [turns EXCEPT ![t].status = "interrupted"])
                        EXCEPT ![t].interrupt = IF @ = "awaiting" THEN "failed" ELSE @]
    <3>1. turns' = [turns EXCEPT ![t] = [a EXCEPT !.status = s, !.interrupt = i]]
      <4>1. CASE a.status \in Ended
        <5>1. turns' = [turns EXCEPT ![t] = [a EXCEPT !.interrupt = i]] BY <2>3, <4>1
        <5>2. [a EXCEPT !.interrupt = i] = [a EXCEPT !.status = a.status, !.interrupt = i]
          BY <2>1 DEF TurnStates
        <5>3. QED BY <4>1, <5>1, <5>2
      <4>2. CASE a.status \notin Ended
        <5> DEFINE b == [a EXCEPT !.status = "interrupted"]
                   g == [turns EXCEPT ![t] = b]
        <5>1. turns' = [g EXCEPT ![t] = [g[t] EXCEPT !.interrupt = IF @ = "awaiting" THEN "failed" ELSE @]]
          BY <2>3, <4>2
        <5>0. t \in DOMAIN turns BY <2>1 DEF TypeOK, Turns
        <5>2. g[t] = b BY <5>0
        <5>3. b.interrupt = a.interrupt BY <2>1 DEF TurnStates
        <5>4. \A y : [g EXCEPT ![t] = y] = [turns EXCEPT ![t] = y] BY <5>0
        <5> HIDE DEF b, g
        <5>5. turns' = [turns EXCEPT ![t] = [b EXCEPT !.interrupt = i]] BY <5>1, <5>2, <5>3, <5>4
        <5>6. QED BY <4>2, <5>5 DEF b
      <4>3. QED BY <4>1, <4>2
    <3>2. Continues(a, [a EXCEPT !.status = s, !.interrupt = i])
      BY <2>1 DEF Continues, TurnStates, InterruptOK, Ended
    <3>3. QED BY <2>1, <3>1, <3>2, OneContinues
  <2>4. QED BY <1>3, <2>2, <2>3 DEF GiveUp
<1>4. ASSUME NEW u \in Updates, Stop(u) PROVE SameTurns
  <2>1. CASE mem.active # 0
    <3> DEFINE t == mem.active
    <3>1. t \in Turns BY <2>1 DEF Links, Turns
    <3>2. turns' = [turns EXCEPT ![t] = [turns[t] EXCEPT !.interrupt =
                       IF turns[t].interrupt = "none" THEN "awaiting" ELSE turns[t].interrupt]]
      BY <1>4, <2>1 DEF Stop
    <3>3. Continues(turns[t], [turns[t] EXCEPT !.interrupt =
                       IF turns[t].interrupt = "none" THEN "awaiting" ELSE turns[t].interrupt])
      BY <3>1, TurnBounds DEF Continues, TurnStates, InterruptOK
    <3>4. QED BY <3>1, <3>2, <3>3, OneContinues
  <2>2. CASE mem.active = 0 BY <1>4, <2>2, NoneContinues DEF Stop
  <2>3. QED BY <2>1, <2>2
<1>5. ASSUME RunStep PROVE SameTurns \/ \E u \in Updates : AcceptTurn(u)
  <2>1. PICK u \in Updates : Handler(u) \/ AcceptTurn(u) BY <1>5 DEF RunStep
  <2>2. \/ UNCHANGED turns \/ TurnStarted(u) \/ TurnFails(u) \/ TurnAnswers(u) \/ GiveUp(u) \/ Stop(u)
        \/ AcceptTurn(u)
    BY <2>1 DEF Handler, RunQueued, SaveFails, TapAcknowledged, NewConversation, StopReturns, Tap,
       Sender, SendPart, SkipPart, PartSent, NothingToSend, InvalidTarget, Runner, RunTurn, ThreadFails,
       ThreadStale, ThreadReady, RejectTurn, StartTimesOut, TurnUnrecorded, Halted, WaitTimesOut
  <2>3. QED BY <1>1, <1>2, <1>3, <1>4, <2>2, NoneContinues
<1>6. ASSUME TurnStep PROVE SameTurns
  <2>1. PICK t \in Turns : TurnRuns(t) \/ TurnFinishes(t) \/ HandleInterrupt(t) \/ SendInterrupt(t)
    BY <1>6 DEF TurnStep
  <2>2. turns[t] \in TurnStates /\ InterruptOK(turns[t]) BY TurnBounds DEF Links
  <2>3. CASE TurnRuns(t)
    <3>1. turns' = [turns EXCEPT ![t] = [turns[t] EXCEPT !.status = "running"]] /\ turns[t].status = "accepted"
      BY <2>3 DEF TurnRuns
    <3>2. Continues(turns[t], [turns[t] EXCEPT !.status = "running"])
      BY <2>2, <3>1 DEF Continues, TurnStates, InterruptOK, Ended
    <3>3. QED BY <3>1, <3>2, OneContinues
  <2>4. CASE TurnFinishes(t)
    <3>1. PICK s \in {"completed", "failed"} :
            turns' = [turns EXCEPT ![t] = [turns[t] EXCEPT !.status = s]] /\ turns[t].status = "running"
      BY <2>4 DEF TurnFinishes
    <3>2. Continues(turns[t], [turns[t] EXCEPT !.status = s])
      BY <2>2, <3>1 DEF Continues, TurnStates, InterruptOK, Ended
    <3>3. QED BY <3>1, <3>2, OneContinues
  <2>5. CASE HandleInterrupt(t)
    <3> DEFINE x == IF turns[t].status \in Ended THEN [turns[t] EXCEPT !.interrupt = "refused"]
                    ELSE [turns[t] EXCEPT !.status = "interrupted", !.interrupt = "answered"]
    <3>1. turns' = [turns EXCEPT ![t] = x] BY <2>5 DEF HandleInterrupt
    <3>2. Continues(turns[t], x) BY <2>2 DEF Continues, TurnStates, InterruptOK, Ended
    <3> HIDE DEF x
    <3>3. QED BY <3>1, <3>2, OneContinues
  <2>6. CASE SendInterrupt(t)
    <3>1. turns' = [turns EXCEPT ![t] = [turns[t] EXCEPT !.interrupt =
                      IF turns[t].status = "accepted" THEN "failed" ELSE "requested"]]
      BY <2>6 DEF SendInterrupt
    <3>2. QED BY <3>1, InterruptContinues, OneContinues
  <2>7. QED BY <2>1, <2>3, <2>4, <2>5, <2>6
<1>7. ASSUME ReturnStep PROVE SameTurns
  <2>1. PICK t \in Turns : InterruptReturns(t) BY <1>7 DEF ReturnStep
  <2>2. turns[t] \in TurnStates /\ InterruptOK(turns[t]) BY TurnBounds DEF Links
  <2>3. CASE turns[t].interrupt = "answered"
    <3>1. turns' = [turns EXCEPT ![t] = [turns[t] EXCEPT !.interrupt = "done"]]
      BY <2>1, <2>3 DEF InterruptReturns
    <3>2. Continues(turns[t], [turns[t] EXCEPT !.interrupt = "done"])
      BY <2>2, <2>3 DEF Continues, TurnStates, InterruptOK
    <3>3. QED BY <3>1, <3>2, OneContinues
  <2>4. CASE turns[t].interrupt # "answered"
    <3>1. turns' = [turns EXCEPT ![t] = [turns[t] EXCEPT !.interrupt = "failed"]]
      BY <2>1, <2>4 DEF InterruptReturns
    <3>2. QED BY <3>1, InterruptContinues, OneContinues
  <2>5. QED BY <2>3, <2>4
<1>8. ASSUME Crash PROVE SameTurns
  <2> DEFINE f == [t \in Turns |-> [turns[t] EXCEPT !.interrupt = "none"]]
  <2>1. turns' = [t \in Turns |-> f[t]] BY <1>8 DEF Crash
  <2>2. \A t \in Turns : Continues(turns[t], f[t]) BY InterruptContinues
  <2> HIDE DEF f
  <2>3. QED BY <2>1, <2>2, AllContinue
<1>9. ASSUME RecoverInterruptedTurns PROVE SameTurns
  <2> DEFINE f == [t \in Turns |-> IF /\ conv.active = <<"turn", t>> /\ conv.thread = turns[t].thread
                                      /\ turns[t].status \notin Ended
                                   THEN [turns[t] EXCEPT !.status = "interrupted"] ELSE turns[t]]
  <2>1. turns' = [t \in Turns |-> f[t]] \/ turns' = turns BY <1>9 DEF RecoverInterruptedTurns
  <2>2. ASSUME NEW t \in Turns PROVE Continues(turns[t], f[t])
    BY ContinuesSame, StatusContinues DEF Ended
  <2> HIDE DEF f
  <2>3. QED BY <2>1, <2>2, AllContinue, NoneContinues
<1>10. SameTurns \/ \E u \in Updates : AcceptTurn(u)
  BY <1>5, <1>6, <1>7, <1>8, <1>9, StepKinds, Frames, NoneContinues
<1>11. QED BY <1>10, AcceptGrows DEF SameTurns

-----------------------------------------------------------------------------
(***************************************************************************)
(* The conversation's record and the runner's memory.                      *)
(***************************************************************************)
Memories == [active : 0 .. MaxTurns, starting : BOOLEAN, pending : BOOLEAN]

SoundRecord(c, s) == c \in Conversation /\ RecordLinked(c, s)
SoundMemory(m, s) == m \in Memories /\ m.active \in 0 .. Len(s)

\* Clearing and detaching leave no wrong record.
LEMMA ClearedIsSound ==
  ASSUME NEW c, NEW s, SoundRecord(c, s), NEW active
  PROVE  SoundRecord(ClearActiveTurn(c, active), s)
<1>1. SoundRecord([c EXCEPT !.active = <<>>, !.source = 0], s)
  BY ActiveKinds DEF SoundRecord, Conversation, RecordLinked
<1>2. QED BY <1>1 DEF ClearActiveTurn

LEMMA DetachedIsSound ==
  ASSUME NEW s, SoundRecord(conv, s), NEW u, DetachThread(u)
  PROVE  SoundRecord(conv', s)
<1> DEFINE S == conv.torn \cup {v \in Updates \ {u} : work[v].pc \in OnThread}
<1>1. S \in SUBSET Updates BY DEF SoundRecord, Conversation
<1>2. conv' = [conv EXCEPT !.thread = 0, !.active = <<>>, !.torn = S] BY DEF DetachThread
<1> HIDE DEF S
<1>3. conv' \in Conversation BY <1>1, <1>2, ActiveKinds DEF SoundRecord, Conversation
<1>4. conv'.active = <<>> BY <1>2 DEF SoundRecord, Conversation
<1>5. RecordLinked(conv', s) BY <1>4, ActiveKinds DEF RecordLinked
<1>6. QED BY <1>3, <1>5 DEF SoundRecord

\* What a crash keeps of it.
LEMMA CrashRecord ==
  ASSUME TypeOK, Crash
  PROVE  \E b \in BOOLEAN : conv' = [conv EXCEPT !.lost = b] /\ (conv.lost => b)
<1> DEFINE b == conv.lost \/ \E u \in conv.torn : work[u].pc \in OnTurn /\ ~Listed(u)
<1>1. conv' = [conv EXCEPT !.lost = b] BY DEF Crash
<1>2. b \in BOOLEAN OBVIOUS
<1>3. conv.lost => b OBVIOUS
<1> HIDE DEF b
<1>4. QED BY <1>1, <1>2, <1>3

\* Nor does a turn that begins.
LEMMA BegunIsSound ==
  ASSUME NEW c \in Conversation, NEW s, NEW u \in Updates
  PROVE  SoundRecord(BegunRecord(u, c), s)
<1>1. BegunRecord(u, c) \in Conversation BY ActiveKinds DEF Conversation, BegunRecord
<1>2. RecordLinked(BegunRecord(u, c), s)
  BY ActiveKinds DEF Conversation, RecordLinked, BegunRecord
<1>3. QED BY <1>1, <1>2 DEF SoundRecord

\* A new thread.
LEMMA OpenedIsSound ==
  ASSUME NEW c, NEW s, SoundRecord(c, s), NEW t \in Nat
  PROVE  SoundRecord([c EXCEPT !.thread = t, !.opened = t], s)
<1>1. [c EXCEPT !.thread = t, !.opened = t] \in Conversation BY DEF SoundRecord, Conversation
<1>2. RecordLinked([c EXCEPT !.thread = t, !.opened = t], s) BY DEF SoundRecord, Conversation, RecordLinked
<1>3. QED BY <1>1, <1>2 DEF SoundRecord

\* A record stays right as turns go on.
LEMMA GrowthKeepsRecord ==
  ASSUME TypeOK, TurnsGrow, NEW c, SoundRecord(c, turns)
  PROVE  SoundRecord(c, turns')
<1>1. Len(turns) \in Nat /\ Len(turns') \in Nat /\ Len(turns) <= Len(turns')
  BY DEF TypeOK, TurnsGrow
<1>2. \A t \in 1 .. Len(turns) : t \in 1 .. Len(turns') /\ turns'[t].source = turns[t].source
  BY <1>1 DEF TurnsGrow, Continues, Turns
<1>3. QED BY <1>2 DEF SoundRecord, RecordLinked

\* The three steps that write more than a cleared record.
LEMMA RunnerRecord ==
  ASSUME TypeOK, Links, NEW u \in Updates,
         ThreadReady(u) \/ TurnStarted(u) \/ ThreadStale(u)
  PROVE  SoundRecord(conv', turns)
<1>0. SoundRecord(conv, turns) BY DEF TypeOK, Links, SoundRecord, Conversation
<1>1. ASSUME NEW c, NEW thread \in Nat, BeginActiveTurn(u, c, thread), SoundRecord(c, turns)
      PROVE  SoundRecord(conv', turns)
  <2>1. conv' = c \/ conv' = BegunRecord(u, c) BY <1>1, BeginMoves
  <2>2. c \in Conversation BY <1>1 DEF SoundRecord
  <2>3. SoundRecord(BegunRecord(u, c), turns) BY <2>2, BegunIsSound
  <2>4. QED BY <1>1, <2>1, <2>3
<1>2. CASE ThreadReady(u)
  <2>1. conv.opened + 1 \in Nat /\ work[u].thread \in Nat BY WorkFields, RecordFields
  <2>2. SoundRecord([conv EXCEPT !.thread = conv.opened + 1, !.opened = conv.opened + 1], turns)
    BY <1>0, <2>1, OpenedIsSound
  <2>3. ASSUME BeginActiveTurn(u, conv, work[u].thread) PROVE SoundRecord(conv', turns)
    BY <1>0, <1>1, <2>1, <2>3
  <2>4. ASSUME BeginActiveTurn(u, [conv EXCEPT !.thread = conv.opened + 1, !.opened = conv.opened + 1],
                               conv.opened + 1)
        PROVE  SoundRecord(conv', turns)
    BY <1>1, <2>1, <2>2, <2>4
  <2>5. QED BY <1>2, <2>3, <2>4 DEF ThreadReady
<1>3. CASE TurnStarted(u)
  <2> DEFINE t == work[u].reply
             c == [conv EXCEPT !.active = <<"turn", t>>]
  <2>1. t \in Turns /\ turns[t].source = u /\ conv.source = u
    BY <1>3, TurnOfRun DEF TurnStarted, Links, RunLinked, RecordLinked
  <2>2. t \in 1 .. MaxTurns /\ t \in Nat BY <2>1, TurnBounds, WorkFields
  <2>3. c \in Conversation BY <1>0, <2>2, ActiveKinds DEF SoundRecord, Conversation
  <2>4. c.active = <<"turn", t>> /\ c.source = u BY <1>0, <2>1 DEF SoundRecord, Conversation
  <2>5. conv' = c BY <1>3 DEF TurnStarted
  <2> HIDE DEF c, t
  <2>6. RecordLinked(c, turns)
    <3>1. \A v \in Updates : c.active # <<"starting", v>> BY <2>2, <2>4, ActiveKinds
    <3>2. ASSUME NEW k \in Nat, c.active = <<"turn", k>> PROVE k = t BY <2>2, <2>4, <3>2, ActiveKinds
    <3>3. QED BY <2>1, <2>4, <3>1, <3>2 DEF RecordLinked, Turns
  <2>7. QED BY <2>3, <2>5, <2>6 DEF SoundRecord
<1>4. CASE ThreadStale(u) BY <1>0, <1>4, DetachedIsSound DEF ThreadStale
<1>5. QED BY <1>2, <1>3, <1>4

\* The record over one step.
LEMMA RecordStep ==
  ASSUME TypeOK, Links, [Next]_vars
  PROVE  SoundRecord(conv', turns')
<1>0. SoundRecord(conv, turns) BY DEF TypeOK, Links, SoundRecord, Conversation
<1>1. ASSUME NEW u \in Updates, NEW active, NEW accepted, EndRun(u, active, accepted)
      PROVE  SoundRecord(conv', turns)
  BY <1>0, <1>1, ClearedIsSound DEF EndRun
<1>2. ASSUME NEW u \in Updates, RejectTurn(u) \/ StartTimesOut(u) \/ TurnUnrecorded(u) \/ Halted(u)
                                \/ TurnFails(u) \/ GiveUp(u)
      PROVE  SoundRecord(conv', turns)
  BY <1>0, <1>1, <1>2 DEF RejectTurn, StartTimesOut, TurnUnrecorded, Halted, TurnFails, GiveUp
<1>3. ASSUME NEW u \in Updates, TurnAnswers(u) \/ NewConversation(u)
      PROVE  SoundRecord(conv', turns)
  BY <1>0, <1>3, ClearedIsSound, DetachedIsSound DEF TurnAnswers, NewConversation
<1>4. ASSUME NEW u \in Updates, Handler(u) \/ AcceptTurn(u)
      PROVE  SoundRecord(conv', turns)
  <2>1. \/ UNCHANGED conv \/ ThreadReady(u) \/ TurnStarted(u) \/ ThreadStale(u) \/ RejectTurn(u)
        \/ StartTimesOut(u) \/ TurnUnrecorded(u) \/ Halted(u) \/ TurnFails(u) \/ GiveUp(u)
        \/ TurnAnswers(u) \/ NewConversation(u)
    BY <1>4 DEF Handler, AcceptTurn, RunQueued, SaveFails, TapAcknowledged, Stop, StopReturns, Tap,
       Sender, SendPart, SkipPart, PartSent, NothingToSend, InvalidTarget, Runner, RunTurn, ThreadFails,
       WaitTimesOut
  <2>2. QED BY <1>0, <1>2, <1>3, <2>1, RunnerRecord
<1>5. ASSUME ReturnStep \/ RecoverInterruptedTurns PROVE SoundRecord(conv', turns)
  <2>1. (\E active : conv' = ClearActiveTurn(conv, active)) \/ conv' = conv
    BY <1>5 DEF ReturnStep, InterruptReturns, RecoverInterruptedTurns
  <2>2. QED BY <1>0, <2>1, ClearedIsSound
<1>6. ASSUME Crash PROVE SoundRecord(conv', turns)
  <2>1. PICK b \in BOOLEAN : conv' = [conv EXCEPT !.lost = b] BY <1>6, CrashRecord
  <2>2. conv' \in Conversation /\ conv'.active = conv.active /\ conv'.source = conv.source
    BY <1>0, <2>1 DEF SoundRecord, Conversation
  <2>3. QED BY <1>0, <2>2 DEF SoundRecord, RecordLinked
<1>7. SoundRecord(conv', turns)
  BY <1>0, <1>4, <1>5, <1>6, StepKinds, Frames DEF RunStep
<1>8. QED BY <1>7, TurnsStep, GrowthKeepsRecord

\* The runner's memory over one step.
LEMMA MemoryStep ==
  ASSUME TypeOK, Links, [Next]_vars
  PROVE  SoundMemory(mem', turns')
<1>0. SoundMemory(mem, turns) BY DEF TypeOK, Links, SoundMemory, Memories
<1>1. ASSUME NEW m, m \in Memories, m.active \in 0 .. Len(turns), mem' = m PROVE SoundMemory(mem', turns')
  <2>1. Len(turns) \in Nat /\ Len(turns') \in Nat /\ Len(turns) <= Len(turns')
    BY TurnsStep DEF TypeOK, TurnsGrow
  <2>2. QED BY <1>1, <2>1 DEF SoundMemory
<1>2. mem \in Memories /\ mem.active \in 0 .. Len(turns) /\ Len(turns) \in Nat /\ 0 \in 0 .. Len(turns)
      /\ 0 \in 0 .. MaxTurns
  BY <1>0, Bounds, TurnBounds DEF SoundMemory
<1>3. ASSUME NEW a \in {0, mem.active}, NEW b \in BOOLEAN, NEW p \in BOOLEAN,
             mem' = [active |-> a, starting |-> b, pending |-> p]
      PROVE  SoundMemory(mem', turns')
  <2>1. a \in 0 .. MaxTurns /\ a \in 0 .. Len(turns) BY <1>2, <1>3 DEF Memories
  <2>2. QED BY <1>1, <1>3, <2>1 DEF Memories
<1>4. mem = [active |-> mem.active, starting |-> mem.starting, pending |-> mem.pending]
      /\ mem.starting \in BOOLEAN /\ mem.pending \in BOOLEAN
  BY <1>2 DEF Memories
<1>5. ASSUME NEW u \in Updates, NEW active, NEW accepted, EndRun(u, active, accepted) \/ NotStarted(u)
      PROVE  SoundMemory(mem', turns')
  <2>1. \E a \in {0, mem.active} : mem' = [active |-> a, starting |-> FALSE, pending |-> FALSE]
    BY <1>4, <1>5 DEF EndRun, NotStarted
  <2>2. QED BY <1>3, <2>1
<1>6. ASSUME NEW u \in Updates, NEW c, NEW thread \in Nat, BeginActiveTurn(u, c, thread)
      PROVE  SoundMemory(mem', turns')
  <2>1. \E p \in BOOLEAN : mem' = [active |-> mem.active, starting |-> FALSE, pending |-> p]
    <3>1. mem' = CalmMemory \/ mem' = BegunMemory BY <1>6, BeginMoves
    <3>2. QED BY <1>4, <3>1 DEF CalmMemory, BegunMemory
  <2>2. QED BY <1>3, <2>1
<1>7. ASSUME NEW u \in Updates, RunTurn(u) \/ TurnAnswers(u) \/ Stop(u) PROVE SoundMemory(mem', turns')
  <2>1. \E a \in {0, mem.active}, b, p \in BOOLEAN : mem' = [active |-> a, starting |-> b, pending |-> p]
    <3>1. CASE RunTurn(u) BY <1>4, <3>1 DEF RunTurn
    <3>2. CASE TurnAnswers(u) BY <1>4, <3>2 DEF TurnAnswers
    <3>3. CASE Stop(u) BY <1>4, <3>3 DEF Stop
    <3>4. QED BY <1>7, <3>1, <3>2, <3>3
  <2>2. QED BY <1>3, <2>1
<1>8. ASSUME NEW u \in Updates, TurnStarted(u) PROVE SoundMemory(mem', turns')
  <2> DEFINE m == [mem EXCEPT !.active = work[u].reply, !.pending = FALSE]
  <2>1. work[u].reply \in 1 .. MaxTurns /\ work[u].reply \in 1 .. Len(turns)
    BY <1>8, TurnOfRun, TurnBounds DEF TurnStarted, Turns
  <2>2. work[u].reply \in 0 .. MaxTurns /\ work[u].reply \in 0 .. Len(turns) BY <1>2, <2>1, Bounds
  <2>3. m \in Memories /\ m.active \in 0 .. Len(turns) BY <1>2, <2>2 DEF Memories
  <2>4. mem' = m BY <1>8 DEF TurnStarted
  <2> HIDE DEF m
  <2>5. QED BY <1>1, <2>3, <2>4
<1>9. ASSUME NEW u \in Updates, ThreadReady(u) \/ ThreadFails(u) PROVE SoundMemory(mem', turns')
  <2>0. conv.opened \in Nat BY RecordFields
  <2>1. conv.opened + 1 \in Nat /\ work[u].thread \in Nat BY <2>0, WorkFields
  <2>2. QED BY <1>5, <1>6, <1>9, <2>1 DEF ThreadReady, ThreadFails
<1>10. ASSUME UNCHANGED mem PROVE SoundMemory(mem', turns') BY <1>1, <1>2, <1>10
<1>11. ASSUME NEW u \in Updates, Handler(u) \/ AcceptTurn(u) PROVE SoundMemory(mem', turns')
  <2>1. \/ UNCHANGED mem \/ RunTurn(u) \/ TurnAnswers(u) \/ Stop(u) \/ TurnStarted(u) \/ ThreadReady(u)
        \/ ThreadFails(u) \/ \E active, accepted : EndRun(u, active, accepted)
    BY <1>11 DEF Handler, AcceptTurn, RunQueued, SaveFails, TapAcknowledged, StopReturns, Tap, NewConversation,
       Sender, SendPart, SkipPart, PartSent, NothingToSend, InvalidTarget, Runner, ThreadStale, RejectTurn,
       StartTimesOut, TurnUnrecorded, Halted, TurnFails, GiveUp, WaitTimesOut
  <2>2. QED BY <1>5, <1>7, <1>8, <1>9, <1>10, <2>1
<1>12. ASSUME Crash PROVE SoundMemory(mem', turns')
  <2>1. mem' = [active |-> 0, starting |-> FALSE, pending |-> FALSE] BY <1>12 DEF Crash
  <2>2. QED BY <1>3, <2>1
<1>13. QED BY <1>10, <1>11, <1>12, StepKinds, Frames DEF RunStep

-----------------------------------------------------------------------------
(***************************************************************************)
(* A run stays with its update's turn.                                     *)
(***************************************************************************)
\* A link stays right as turns go on.
LEMMA GrowthKeepsLinks ==
  ASSUME TypeOK, TurnsGrow, NEW u \in Updates, NEW w, RunLinked(u, w, turns)
  PROVE  RunLinked(u, w, turns')
<1>1. Len(turns) \in Nat /\ Len(turns') \in Nat /\ Len(turns) <= Len(turns')
  BY DEF TypeOK, TurnsGrow
<1>2. \A t \in 1 .. Len(turns) : turns'[t].source = turns[t].source
  BY <1>1 DEF TurnsGrow, Continues, Turns
<1>3. /\ w.reply \in 0 .. Len(turns') /\ w.turn \in 0 .. Len(turns')
      /\ w.reply # 0 => turns'[w.reply].source = turns[w.reply].source
      /\ w.turn # 0 => turns'[w.turn].source = turns[w.turn].source
  BY <1>1, <1>2 DEF RunLinked
<1>4. QED BY <1>3 DEF RunLinked

\* A run that goes on with the same turn.
SameLinks(u) ==
  /\ work'[u].turn = work[u].turn /\ work'[u].reply = work[u].reply
  /\ \/ work'[u].pc = work[u].pc
     \/ /\ work[u].pc \in {"queued", "saving", "resuming", "opening"}
        /\ work'[u].pc \in {"saving", "resuming", "opening", "starting"}
     \/ /\ work[u].pc \in {"halting", "waiting", "overdue"}
        /\ work'[u].pc \in {"halting", "waiting", "overdue"}
     \/ work'[u].pc \in {"answering", "sending", "acking"}

\* Its link is the one it had.
LEMMA SameLinksKept ==
  ASSUME NEW u \in Updates, SameLinks(u), RunLinked(u, work[u], turns)
  PROVE  RunLinked(u, work'[u], turns)
  BY DEF SameLinks, RunLinked

\* Which steps of a run keep its links: all that do not start, stop or answer.
LEMMA HandlerLinks ==
  ASSUME TypeOK, Links, NEW u \in Updates, Handler(u) \/ AcceptTurn(u), Moves(u)
  PROVE  \/ SameLinks(u)
         \/ TurnStarted(u) /\ work'[u].turn = work[u].reply /\ work'[u].reply = work[u].reply
            /\ work'[u].pc \in {"halting", "waiting"}
         \/ Stop(u) /\ mem.active # 0 /\ work'[u].turn = mem.active /\ work'[u].reply = work[u].reply
            /\ work'[u].pc = "stopping"
         \/ AcceptTurn(u) /\ work'[u] = [work[u] EXCEPT !.reply = Len(turns) + 1]
<1> DEFINE Goal == SameLinks(u) \/ TurnStarted(u) \/ Stop(u) \/ AcceptTurn(u)
<1>0. work \in [Updates -> WorkStates] /\ work[u] \in WorkStates /\ work' = [work EXCEPT ![u] = work'[u]]
  BY WorkFields DEF TypeOK, Moves
<1>1. ASSUME NEW pc, Goto(u, pc)
      PROVE  work'[u].pc = pc /\ work'[u].turn = work[u].turn /\ work'[u].reply = work[u].reply
  BY <1>0, <1>1 DEF Goto, WorkStates
<1>2. work'[u].pc # "idle" BY DEF Moves
<1>3. ~Leaves(u) BY <1>2, LeavesRun DEF Idle
<1>4. ASSUME RunQueued(u) \/ Tap(u) PROVE SameLinks(u)
  BY <1>1, <1>3, <1>4, FailLeaves DEF RunQueued, Tap, SameLinks
<1>5. ASSUME RunTurn(u) \/ ThreadStale(u) PROVE SameLinks(u)
  BY <1>0, <1>5 DEF RunTurn, ThreadStale, SameLinks, WorkStates
<1>6. ASSUME ThreadReady(u) PROVE SameLinks(u)
  <2>1. conv.opened + 1 \in Nat /\ work[u].thread \in Nat BY WorkFields, RecordFields
  <2>2. work[u].pc \in {"resuming", "opening"} /\ \E c : \E thread \in Nat : BeginActiveTurn(u, c, thread)
    <3>1. CASE work[u].pc = "resuming" /\ BeginActiveTurn(u, conv, work[u].thread) BY <2>1, <3>1
    <3>2. CASE /\ work[u].pc = "opening"
               /\ BeginActiveTurn(u, [conv EXCEPT !.thread = conv.opened + 1, !.opened = conv.opened + 1],
                                  conv.opened + 1)
      BY <2>1, <3>2
    <3>3. QED BY <1>6, <3>1, <3>2 DEF ThreadReady
  <2>3. PICK thread \in Nat : work'[u] = [work[u] EXCEPT !.pc = "starting", !.thread = thread]
    <3>1. PICK c : \E thread \in Nat : BeginActiveTurn(u, c, thread) BY <2>2
    <3>2. PICK thread \in Nat : BeginActiveTurn(u, c, thread) BY <3>1
    <3>3. work'[u] = BegunRun(u, thread) BY <1>3, <3>2, BeginMoves
    <3>4. QED BY <3>3 DEF BegunRun
  <2>4. QED BY <1>0, <2>2, <2>3 DEF SameLinks, WorkStates
<1>7. ASSUME RejectTurn(u) \/ StartTimesOut(u) \/ TurnUnrecorded(u) \/ TurnFails(u) \/ GiveUp(u)
             \/ ThreadFails(u) \/ SaveFails(u) \/ TapAcknowledged(u) \/ InvalidTarget(u) \/ NothingToSend(u)
      PROVE  FALSE
  BY <1>3, <1>7, EndRunLeaves, FailLeaves, CompleteLeaves
     DEF RejectTurn, StartTimesOut, TurnUnrecorded, TurnFails, GiveUp, ThreadFails, NotStarted, SaveFails,
         TapAcknowledged, InvalidTarget, NothingToSend
<1>8. ASSUME Halted(u) \/ WaitTimesOut(u) \/ SendPart(u) PROVE SameLinks(u)
  BY <1>1, <1>3, <1>8, EndRunLeaves DEF Halted, WaitTimesOut, SendPart, SameLinks
<1>9. ASSUME TurnAnswers(u) PROVE SameLinks(u)
  BY <1>0, <1>9 DEF TurnAnswers, SameLinks, WorkStates
<1>10. ASSUME NEW status, GoOn(u, status) PROVE SameLinks(u)
  BY <1>0, <1>3, <1>10, CompleteLeaves DEF GoOn, SameLinks, WorkStates
<1>11. ASSUME SkipPart(u) \/ PartSent(u) PROVE SameLinks(u)
  BY <1>10, <1>11 DEF SkipPart, PartSent
<1>12. ASSUME NEW text, Reply(u, text) PROVE SameLinks(u)
  BY <1>0, <1>12 DEF Reply, SameLinks, WorkStates
<1>13. ASSUME StopReturns(u) \/ NewConversation(u) PROVE SameLinks(u)
  BY <1>3, <1>12, <1>13, FailLeaves DEF StopReturns, NewConversation
<1>14. ASSUME Stop(u)
       PROVE  SameLinks(u) \/ (mem.active # 0 /\ work'[u].turn = mem.active /\ work'[u].reply = work[u].reply
                               /\ work'[u].pc = "stopping")
  <2>1. CASE mem.active # 0
    <3>1. work' = [work EXCEPT ![u].pc = "stopping", ![u].turn = mem.active] BY <1>14, <2>1 DEF Stop
    <3>2. QED BY <1>0, <2>1, <3>1 DEF WorkStates
  <2>2. CASE mem.active = 0 BY <1>12, <1>14, <2>2 DEF Stop
  <2>3. QED BY <2>1, <2>2
<1>15. ASSUME TurnStarted(u)
       PROVE  work'[u].turn = work[u].reply /\ work'[u].reply = work[u].reply
              /\ work'[u].pc \in {"halting", "waiting"}
  BY <1>0, <1>15 DEF TurnStarted, WorkStates
<1>16. ASSUME AcceptTurn(u) PROVE work'[u] = [work[u] EXCEPT !.reply = Len(turns) + 1]
  BY <1>0, <1>16 DEF AcceptTurn
<1>17. QED
  BY <1>4, <1>5, <1>6, <1>7, <1>8, <1>9, <1>11, <1>13, <1>14, <1>15, <1>16 DEF Handler, Runner, Sender

\* Runs and turns stay linked.
LEMMA LinksStep ==
  ASSUME TypeOK, Places, Links, [Next]_vars
  PROVE  Links'
<1>1. SoundRecord(conv', turns') /\ SoundMemory(mem', turns') /\ TurnsGrow
  BY RecordStep, MemoryStep, TurnsStep
<1>2. Len(turns) \in Nat /\ Len(turns') \in Nat /\ Len(turns) <= Len(turns') BY <1>1 DEF TypeOK, TurnsGrow
<1>3. \A t \in Turns' : InterruptOK(turns'[t])
  <2>1. \A t \in Turns : InterruptOK(turns'[t]) BY <1>1 DEF Links, TurnsGrow, Continues
  <2>2. CASE SameTurns BY <1>2, <2>1, <2>2 DEF SameTurns, Turns
  <2>3. ASSUME NEW u \in Updates, AcceptTurn(u) PROVE \A t \in Turns' : InterruptOK(turns'[t])
    <3>1. InterruptOK(turns'[Len(turns) + 1]) BY <2>3, AcceptGrows DEF InterruptOK
    <3>2. Len(turns') = Len(turns) + 1 BY <2>3, AcceptGrows
    <3>3. \A t \in Turns' : t \in Turns \/ t = Len(turns) + 1 BY <1>2, <3>2 DEF Turns
    <3>4. QED BY <2>1, <3>1, <3>3
  <2>4. QED BY <2>2, <2>3, TurnsStep
<1>5. \A u : RunLinked(u, Idle, turns') BY <1>2 DEF RunLinked, Idle
<1>6. \A u \in Updates : work'[u] = work[u] => RunLinked(u, work'[u], turns')
  BY <1>1, GrowthKeepsLinks DEF Links
<1>7. ASSUME NEW u \in Updates, Handler(u) \/ AcceptTurn(u), Moves(u)
      PROVE  RunLinked(u, work'[u], turns')
  <2>1. RunLinked(u, work[u], turns) BY DEF Links
  <2>2. CASE SameLinks(u) BY <1>1, <2>1, <2>2, SameLinksKept, GrowthKeepsLinks
  <2>3. CASE TurnStarted(u) /\ work'[u].turn = work[u].reply /\ work'[u].reply = work[u].reply
             /\ work'[u].pc \in {"halting", "waiting"}
    <3>1. work[u].reply # 0 /\ work[u].pc = "starting" BY <2>3 DEF TurnStarted
    <3>2. RunLinked(u, work'[u], turns) BY <2>1, <2>3, <3>1 DEF RunLinked
    <3>3. QED BY <1>1, <3>2, GrowthKeepsLinks
  <2>4. CASE Stop(u) /\ mem.active # 0 /\ work'[u].turn = mem.active /\ work'[u].reply = work[u].reply
             /\ work'[u].pc = "stopping"
    <3>1. mem.active \in 0 .. Len(turns) BY DEF Links
    <3>2. RunLinked(u, work'[u], turns) BY <2>1, <2>4, <3>1 DEF RunLinked
    <3>3. QED BY <1>1, <3>2, GrowthKeepsLinks
  <2>5. CASE AcceptTurn(u) /\ work'[u] = [work[u] EXCEPT !.reply = Len(turns) + 1]
    <3>1. /\ work'[u].reply = Len(turns) + 1 /\ work'[u].turn = work[u].turn /\ work'[u].pc = "starting"
      BY <2>5, WorkFields DEF WorkStates, AcceptTurn
    <3>2. work[u].pc = "starting" BY <2>5 DEF AcceptTurn
    <3>3. Len(turns') = Len(turns) + 1 /\ turns'[Len(turns) + 1].source = u BY <2>5, AcceptGrows
    <3>4. work[u].turn = 0 BY <2>1, <3>2 DEF RunLinked
    <3>5. QED BY <1>2, <3>1, <3>3, <3>4 DEF RunLinked
  <2>6. QED BY <1>7, <2>2, <2>3, <2>4, <2>5, HandlerLinks
<1>8. ASSUME RunStep PROVE \A u \in Updates : RunLinked(u, work'[u], turns')
  <2>1. PICK u \in Updates : Handler(u) \/ AcceptTurn(u) BY <1>8 DEF RunStep
  <2>2. CASE Moves(u) BY <1>6, <1>7, <2>1, <2>2, MovesRun
  <2>3. CASE Leaves(u) BY <1>5, <1>6, <2>3, LeavesRun
  <2>4. QED BY <2>1, <2>2, <2>3, HandlerMoves
<1>9. ASSUME DrainStep PROVE \A u \in Updates : RunLinked(u, work'[u], turns')
  <2>1. \A pc \in {"saving", "queued"}, u \in Updates : RunLinked(u, [Idle EXCEPT !.pc = pc], turns')
    BY <1>2 DEF RunLinked, Idle
  <2>2. \A u \in Updates : work'[u] = work[u] \/ \E pc \in {"saving", "queued"} : work'[u] = [Idle EXCEPT !.pc = pc]
    BY <1>9, DrainClaims
  <2>3. QED BY <1>6, <2>1, <2>2
<1>10. ASSUME Crash PROVE \A u \in Updates : RunLinked(u, work'[u], turns')
  <2>1. \A u \in Updates : work'[u] = Idle BY <1>10 DEF Crash
  <2>2. QED BY <1>5, <2>1
<1>11. \A u \in Updates : RunLinked(u, work'[u], turns')
  BY <1>6, <1>8, <1>9, <1>10, StepKinds, Frames
<1>12. QED BY <1>1, <1>3, <1>11 DEF Links, SoundRecord, SoundMemory

-----------------------------------------------------------------------------
(***************************************************************************)
(* The parts of an answer: one sender at a time, and in order.             *)
(***************************************************************************)
OutRows == [part : [0 .. Chunks -> PartStates], said : {"none", "stopped", "idle", "new"}]

\* A run that sends a part holds it alone, and has seen the one before arrive.
RunSends(u, w, part, drain) ==
  /\ w.pc = "sending" => part[w.part] = "sending" /\ <<u, w.part>> \notin drain
  /\ w.pc = "answering" /\ w.part >= 2 => part[w.part - 1] = "sent"

PartsOK ==
  /\ PartsInOrder
  /\ \A u \in Updates : RunSends(u, work[u], out[u].part, batch.drain)
  /\ \A u \in Updates, k \in 0 .. Chunks : <<u, k>> \in batch.drain => out[u].part[k] = "sending"

\* Part k of u becomes x and nothing else changes.
SetsPart(u, k, x) ==
  /\ out' \in [Updates -> OutRows]
  /\ out'[u].part[k] = x
  /\ \A v \in Updates, j \in 0 .. Chunks : v # u \/ j # k => out'[v].part[j] = out[v].part[j]

KeepsParts ==
  /\ out' \in [Updates -> OutRows]
  /\ \A v \in Updates, j \in 0 .. Chunks : out'[v].part[j] = out[v].part[j]

\* One part is written.
LEMMA WritesPart ==
  ASSUME TypeOK, NEW u \in Updates, NEW k \in 0 .. Chunks, NEW x \in PartStates,
         NEW said \in {"none", "stopped", "idle", "new"},
         out' = [out EXCEPT ![u] = [part |-> [out[u].part EXCEPT ![k] = x], said |-> said]]
  PROVE  SetsPart(u, k, x)
<1>1. out \in [Updates -> OutRows] BY DEF TypeOK, OutRows
<1>2. out[u].part \in [0 .. Chunks -> PartStates] BY <1>1 DEF OutRows
<1> DEFINE p == [out[u].part EXCEPT ![k] = x]
<1>3. p \in [0 .. Chunks -> PartStates] /\ p[k] = x /\ \A j \in (0 .. Chunks) \ {k} : p[j] = out[u].part[j]
  BY <1>2
<1>4. out' = [out EXCEPT ![u] = [part |-> p, said |-> said]] OBVIOUS
<1> HIDE DEF p
<1>5. [part |-> p, said |-> said] \in OutRows /\ [part |-> p, said |-> said].part = p
  BY <1>3 DEF OutRows
<1>6. out' \in [Updates -> OutRows] /\ out'[u].part = p /\ \A v \in Updates \ {u} : out'[v] = out[v]
  BY <1>1, <1>4, <1>5
<1>7. QED BY <1>3, <1>6 DEF SetsPart

\* The row of an update's actions.
LEMMA OutFields ==
  ASSUME TypeOK, NEW u \in Updates
  PROVE  /\ out \in [Updates -> OutRows] /\ out[u] = [part |-> out[u].part, said |-> out[u].said]
         /\ out[u].part \in [0 .. Chunks -> PartStates] /\ out[u].said \in {"none", "stopped", "idle", "new"}
         /\ \A k \in 0 .. Chunks : out[u].part[k] \in PartStates
<1>1. out \in [Updates -> OutRows] BY DEF TypeOK, OutRows
<1>2. out[u] \in OutRows BY <1>1
<1>3. out[u] = [part |-> out[u].part, said |-> out[u].said] BY <1>2 DEF OutRows
<1>4. out[u].part \in [0 .. Chunks -> PartStates] /\ out[u].said \in {"none", "stopped", "idle", "new"}
  BY <1>2 DEF OutRows
<1>5. QED BY <1>1, <1>3, <1>4

\* A single part is sent, or its fate recorded.
LEMMA StatusWritten ==
  ASSUME TypeOK, NEW u \in Updates, NEW k \in 0 .. Chunks, NEW x \in PartStates,
         out' = [out EXCEPT ![u].part[k] = x]
  PROVE  SetsPart(u, k, x)
<1> DEFINE p == [out[u].part EXCEPT ![k] = x]
<1>1. out' = [out EXCEPT ![u] = [out[u] EXCEPT !.part = p]] OBVIOUS
<1> HIDE DEF p
<1>r. out[u] \in OutRows BY OutFields
<1>2. [out[u] EXCEPT !.part = p] = [part |-> p, said |-> out[u].said] BY <1>r DEF OutRows
<1>3. out' = [out EXCEPT ![u] = [part |-> p, said |-> out[u].said]] BY <1>1, <1>2
<1>4. QED BY <1>3, OutFields, WritesPart DEF p

\* A reply is written and claimed, unless it exists already.
LEMMA ReplyWritten ==
  ASSUME TypeOK, NEW u \in Updates, NEW text \in {"stopped", "idle", "new"}, Reply(u, text)
  PROVE  \/ out[u].part[1] \in Unsent /\ SetsPart(u, 1, "sending")
         \/ out[u].part[1] \notin Unsent /\ KeepsParts
<1> DEFINE said == IF out[u].part[1] = "none" THEN text ELSE out[u].said
           x == IF out[u].part[1] \in Unsent THEN "sending" ELSE out[u].part[1]
<1>0. 1 \in 0 .. Chunks BY Bounds
<1>1. said \in {"none", "stopped", "idle", "new"} BY OutFields
<1>2. x \in PartStates BY <1>0, OutFields DEF PartStates
<1> DEFINE p == [out[u].part EXCEPT ![1] = x]
<1>a. out' = [out EXCEPT ![u] = [[out[u] EXCEPT !.said = said] EXCEPT !.part = p]]
  <2> DEFINE r == [out[u] EXCEPT !.said = said]
             g == [out EXCEPT ![u] = r]
  <2>1. out' = [g EXCEPT ![u] = [g[u] EXCEPT !.part = [g[u].part EXCEPT ![1] = x]]] BY DEF Reply
  <2> HIDE DEF said, x
  <2>2. out \in [Updates -> OutRows] /\ out[u] \in OutRows BY OutFields
  <2>3. r.part = out[u].part BY <2>2 DEF OutRows
  <2>4. g[u] = r BY <2>2
  <2>5. \A y : [g EXCEPT ![u] = y] = [out EXCEPT ![u] = y] BY <2>2
  <2> HIDE DEF r, g
  <2>6. out' = [out EXCEPT ![u] = [r EXCEPT !.part = p]] BY <2>1, <2>3, <2>4, <2>5
  <2>7. QED BY <2>6 DEF r
<1> HIDE DEF p, said, x
<1>r. out[u] \in OutRows BY OutFields
<1>b. [[out[u] EXCEPT !.said = said] EXCEPT !.part = p] = [part |-> p, said |-> said]
  <2> DEFINE r == [out[u] EXCEPT !.said = said]
  <2>1. r \in OutRows /\ r.said = said BY <1>r, <1>1 DEF OutRows
  <2> HIDE DEF r
  <2>2. [r EXCEPT !.part = p] = [part |-> p, said |-> said] BY <2>1 DEF OutRows
  <2>3. QED BY <2>2 DEF r
<1>3. out' = [out EXCEPT ![u] = [part |-> [out[u].part EXCEPT ![1] = x], said |-> said]]
  BY <1>a, <1>b DEF p
<1>4. SetsPart(u, 1, x) BY <1>0, <1>1, <1>2, <1>3, WritesPart
<1>5. QED BY <1>0, <1>4 DEF SetsPart, KeepsParts, x

\* Nothing is written.
LEMMA NothingWritten ==
  ASSUME TypeOK, UNCHANGED out
  PROVE  KeepsParts
  BY DEF TypeOK, KeepsParts, OutRows

\* What a run's step does with the parts of its answer.
LEMMA HandlerParts ==
  ASSUME TypeOK, NEW u \in Updates, Handler(u) \/ AcceptTurn(u)
  PROVE  \/ KeepsParts /\ (Leaves(u) \/ work'[u].pc \notin {"sending", "answering"})
         \/ KeepsParts /\ work'[u].pc = "answering" /\ work'[u].part \in {0, 1}
         \/ /\ work[u].pc = "answering" /\ KeepsParts
            /\ \/ Leaves(u)
               \/ /\ work'[u].pc = "answering" /\ work'[u].part = work[u].part + 1
                  /\ work[u].part = 0 \/ out[u].part[work[u].part] = "sent"
         \/ /\ work[u].pc = "sending"
            /\ \E status \in {"sent", "retry", "failed", "ambiguous"} :
                 /\ SetsPart(u, work[u].part, status)
                 /\ \/ Leaves(u)
                    \/ /\ work'[u].pc = "answering" /\ work'[u].part = work[u].part + 1
                       /\ work[u].part = 0 \/ status = "sent"
         \/ /\ work[u].pc = "answering" /\ out[u].part[work[u].part] \in Unsent
            /\ SetsPart(u, work[u].part, "sending")
            /\ work'[u].pc = "sending" /\ work'[u].part = work[u].part
         \/ /\ out[u].part[1] \in Unsent /\ SetsPart(u, 1, "sending")
            /\ work'[u].pc = "sending" /\ work'[u].part = 1
<1> DEFINE Quiet == KeepsParts /\ (Leaves(u) \/ work'[u].pc \notin {"sending", "answering"})
           First == KeepsParts /\ work'[u].pc = "answering" /\ work'[u].part \in {0, 1}
           Replies == /\ out[u].part[1] \in Unsent /\ SetsPart(u, 1, "sending")
                      /\ work'[u].pc = "sending" /\ work'[u].part = 1
<1>0. work \in [Updates -> WorkStates] /\ work[u] \in WorkStates BY WorkFields DEF TypeOK
<1>1. ASSUME NEW status, GoOn(u, status)
      PROVE  \/ Leaves(u)
             \/ /\ work'[u].pc = "answering" /\ work'[u].part = work[u].part + 1
                /\ work[u].part = 0 \/ status = "sent"
  BY <1>0, <1>1, CompleteLeaves DEF GoOn, WorkStates
<1>2. ASSUME NEW text \in {"stopped", "idle", "new"}, Reply(u, text) PROVE First \/ Replies
  <2>1. work'[u].part = 1 /\ work'[u].pc = IF out[u].part[1] \in Unsent THEN "sending" ELSE "answering"
    BY <1>0, <1>2 DEF Reply, WorkStates
  <2>2. QED BY <1>2, <2>1, ReplyWritten
<1>3. ASSUME NEW pc, Goto(u, pc) PROVE work'[u].pc = pc /\ work'[u].part = work[u].part
  BY <1>0, <1>3 DEF Goto, WorkStates
<1>4. ASSUME RunQueued(u) \/ Tap(u) \/ WaitTimesOut(u) PROVE Quiet
  <2>1. (\E pc \in {"saving", "acking", "overdue"} : Goto(u, pc)) \/ Leaves(u)
    BY <1>4, FailLeaves DEF RunQueued, Tap, WaitTimesOut
  <2>2. UNCHANGED out BY <1>4 DEF RunQueued, Tap, WaitTimesOut
  <2>3. ASSUME NEW pc \in {"saving", "acking", "overdue"}, Goto(u, pc)
        PROVE  work'[u].pc \notin {"sending", "answering"}
    BY <1>3, <2>3
  <2>4. QED BY <2>1, <2>2, <2>3, NothingWritten
<1>5. ASSUME RejectTurn(u) \/ StartTimesOut(u) \/ TurnUnrecorded(u) \/ TurnFails(u) \/ GiveUp(u)
             \/ ThreadFails(u) \/ SaveFails(u) \/ TapAcknowledged(u) \/ InvalidTarget(u) \/ NothingToSend(u)
      PROVE  Quiet
  <2>1. Leaves(u)
    BY <1>5, EndRunLeaves, FailLeaves, CompleteLeaves
     DEF RejectTurn, StartTimesOut, TurnUnrecorded, TurnFails, GiveUp, ThreadFails, NotStarted, SaveFails,
         TapAcknowledged, InvalidTarget, NothingToSend
  <2>2. UNCHANGED out
    BY <1>5 DEF RejectTurn, StartTimesOut, TurnUnrecorded, TurnFails, GiveUp, ThreadFails, SaveFails,
         TapAcknowledged, InvalidTarget, NothingToSend
  <2>3. QED BY <2>1, <2>2, NothingWritten
<1>6. ASSUME RunTurn(u) \/ ThreadStale(u) \/ TurnStarted(u) \/ AcceptTurn(u) PROVE Quiet
  <2>1. work'[u].pc \notin {"sending", "answering"}
    BY <1>0, <1>6 DEF RunTurn, ThreadStale, TurnStarted, AcceptTurn, WorkStates
  <2>2. UNCHANGED out BY <1>6 DEF RunTurn, ThreadStale, TurnStarted, AcceptTurn
  <2>3. QED BY <2>1, <2>2, NothingWritten
<1>7. ASSUME ThreadReady(u) PROVE Quiet
  <2>1. UNCHANGED out BY <1>7 DEF ThreadReady
  <2>2. conv.opened + 1 \in Nat /\ work[u].thread \in Nat BY WorkFields, RecordFields
  <2>3. \E c : \E thread \in Nat : BeginActiveTurn(u, c, thread)
    <3>1. CASE BeginActiveTurn(u, conv, work[u].thread) BY <2>2, <3>1
    <3>2. CASE BeginActiveTurn(u, [conv EXCEPT !.thread = conv.opened + 1, !.opened = conv.opened + 1],
                               conv.opened + 1)
      BY <2>2, <3>2
    <3>3. QED BY <1>7, <3>1, <3>2 DEF ThreadReady
  <2>4. PICK c : \E thread \in Nat : BeginActiveTurn(u, c, thread) BY <2>3
  <2>5. PICK thread \in Nat : BeginActiveTurn(u, c, thread) BY <2>4
  <2>6. Leaves(u) \/ work'[u] = BegunRun(u, thread) BY <2>5, BeginMoves
  <2>7. BegunRun(u, thread).pc = "starting" BY <1>0 DEF BegunRun, WorkStates
  <2>8. QED BY <2>1, <2>6, <2>7, NothingWritten
<1>8. ASSUME Halted(u) PROVE Quiet
  <2>1. UNCHANGED out BY <1>8 DEF Halted
  <2>2. Goto(u, "waiting") \/ Leaves(u) BY <1>8, EndRunLeaves DEF Halted
  <2>3. QED BY <1>3, <2>1, <2>2, NothingWritten
<1>9. ASSUME TurnAnswers(u) PROVE First
  <2>1. work'[u].pc = "answering" /\ work'[u].part \in {0, 1} BY <1>0, <1>9 DEF TurnAnswers, WorkStates
  <2>2. UNCHANGED out BY <1>9 DEF TurnAnswers
  <2>3. QED BY <2>1, <2>2, NothingWritten
<1>10. ASSUME Stop(u) PROVE Quiet \/ First \/ Replies
  <2>1. CASE mem.active # 0
    <3>1. work' = [work EXCEPT ![u].pc = "stopping", ![u].turn = mem.active] /\ UNCHANGED out
      BY <1>10, <2>1 DEF Stop
    <3>2. work'[u].pc = "stopping" BY <1>0, <3>1 DEF WorkStates
    <3>3. QED BY <3>1, <3>2, NothingWritten
  <2>2. CASE mem.active = 0
    <3>1. \E text \in {"stopped", "idle", "new"} : Reply(u, text) BY <1>10, <2>2 DEF Stop
    <3>2. QED BY <1>2, <3>1
  <2>3. QED BY <2>1, <2>2
<1>11. ASSUME StopReturns(u) PROVE Quiet \/ First \/ Replies
  <2>1. Reply(u, "stopped") \/ (Leaves(u) /\ UNCHANGED out) BY <1>11, FailLeaves DEF StopReturns
  <2>2. QED BY <1>2, <2>1, NothingWritten
<1>12. ASSUME NewConversation(u) PROVE First \/ Replies
  BY <1>2, <1>12 DEF NewConversation
<1>13. ASSUME SendPart(u)
       PROVE  /\ work[u].pc = "answering" /\ out[u].part[work[u].part] \in Unsent
              /\ SetsPart(u, work[u].part, "sending")
              /\ work'[u].pc = "sending" /\ work'[u].part = work[u].part
  <2>1. "sending" \in PartStates /\ work[u].part \in 0 .. Chunks BY WorkFields DEF PartStates
  <2>2. SetsPart(u, work[u].part, "sending") BY <1>13, <2>1, StatusWritten DEF SendPart
  <2>3. QED BY <1>3, <1>13, <2>2 DEF SendPart
<1>14. ASSUME SkipPart(u)
       PROVE  /\ work[u].pc = "answering" /\ KeepsParts
              /\ \/ Leaves(u)
                 \/ /\ work'[u].pc = "answering" /\ work'[u].part = work[u].part + 1
                    /\ work[u].part = 0 \/ out[u].part[work[u].part] = "sent"
  BY <1>1, <1>14, NothingWritten DEF SkipPart
<1>15. ASSUME PartSent(u)
       PROVE  /\ work[u].pc = "sending"
              /\ \E status \in {"sent", "retry", "failed", "ambiguous"} :
                   /\ SetsPart(u, work[u].part, status)
                   /\ \/ Leaves(u)
                      \/ /\ work'[u].pc = "answering" /\ work'[u].part = work[u].part + 1
                         /\ work[u].part = 0 \/ status = "sent"
  <2>1. PICK status \in {"sent", "retry", "failed", "ambiguous"} :
          /\ out' = [out EXCEPT ![u].part[work[u].part] = status] /\ GoOn(u, status)
    BY <1>15 DEF PartSent
  <2>2. status \in PartStates /\ work[u].part \in 0 .. Chunks BY WorkFields DEF PartStates
  <2>3. SetsPart(u, work[u].part, status) BY <2>1, <2>2, StatusWritten
  <2>4. QED BY <1>1, <1>15, <2>1, <2>3 DEF PartSent
<1>16. QED
  BY <1>4, <1>5, <1>6, <1>7, <1>8, <1>9, <1>10, <1>11, <1>12, <1>13, <1>14, <1>15
     DEF Handler, Runner, Sender
\* How a part may change.
PartMoves(u, k) ==
  \/ out'[u].part[k] = out[u].part[k]
  \/ /\ out[u].part[k] \in Unsent /\ out'[u].part[k] = "sending"
     /\ k >= 2 => out[u].part[k - 1] = "sent"
  \/ out[u].part[k] = "sending" /\ out'[u].part[k] \in {"sent", "retry", "failed", "ambiguous"}

AllMove == out' \in [Updates -> OutRows] /\ \A u \in Updates, k \in 0 .. Chunks : PartMoves(u, k)

\* The run's own part, and the drain's, in the step of a run.
LEMMA HandlerSends ==
  ASSUME TypeOK, Places, PartsOK, NEW u \in Updates, Handler(u) \/ AcceptTurn(u)
  PROVE  AllMove /\ RunSends(u, work'[u], out'[u].part, batch'.drain) /\ batch'.drain = batch.drain
         /\ (\A v \in Updates, k \in 0 .. Chunks : <<v, k>> \in batch.drain => out'[v].part[k] = "sending")
         /\ \A v \in Updates \ {u} : RunSends(v, work'[v], out'[v].part, batch'.drain)
<1> DEFINE k == work[u].part
<1>1. batch'.drain = batch.drain /\ \A v \in Updates \ {u} : work'[v] = work[v]
  BY HandlerMoves, LeavesRun, MovesRun
<1>2. Leaves(u) => work'[u] = Idle BY LeavesRun
<1>3. k \in 0 .. Chunks /\ 0 \in 0 .. Chunks /\ 1 \in 0 .. Chunks /\ Chunks \in Nat BY WorkFields, Bounds
<1>4. \A v \in Updates : work[v].part \in 0 .. Chunks BY WorkFields
<1> HIDE DEF k
<1>5. ASSUME KeepsParts
      PROVE  /\ AllMove
             /\ \A v \in Updates, j \in 0 .. Chunks : <<v, j>> \in batch.drain => out'[v].part[j] = "sending"
             /\ \A v \in Updates \ {u} : RunSends(v, work'[v], out'[v].part, batch'.drain)
  <2>1. AllMove BY <1>5 DEF KeepsParts, AllMove, PartMoves
  <2>2. \A v \in Updates, j \in 0 .. Chunks : <<v, j>> \in batch.drain => out'[v].part[j] = "sending"
    BY <1>5 DEF KeepsParts, PartsOK
  <2>3. ASSUME NEW v \in Updates \ {u} PROVE RunSends(v, work'[v], out'[v].part, batch'.drain)
    <3>1. RunSends(v, work[v], out[v].part, batch.drain) BY DEF PartsOK
    <3>2. work[v].part >= 2 => work[v].part - 1 \in 0 .. Chunks BY <1>3, <1>4
    <3>3. QED BY <1>1, <1>4, <1>5, <3>1, <3>2 DEF KeepsParts, RunSends
  <2>4. QED BY <2>1, <2>2, <2>3
<1>6. ASSUME NEW j \in 0 .. Chunks, NEW x, SetsPart(u, j, x), <<u, j>> \notin batch.drain
      PROVE  /\ \A v \in Updates, i \in 0 .. Chunks : <<v, i>> \in batch.drain => out'[v].part[i] = "sending"
             /\ \A v \in Updates \ {u} : RunSends(v, work'[v], out'[v].part, batch'.drain)
  <2>1. \A v \in Updates, i \in 0 .. Chunks : <<v, i>> \in batch.drain => out'[v].part[i] = "sending"
    <3>1. SUFFICES ASSUME NEW v \in Updates, NEW i \in 0 .. Chunks, <<v, i>> \in batch.drain
                   PROVE  out'[v].part[i] = "sending"
      OBVIOUS
    <3>2. v # u \/ i # j BY <1>6, <3>1
    <3>3. QED BY <1>6, <3>1, <3>2 DEF SetsPart, PartsOK
  <2>3. ASSUME NEW v \in Updates \ {u} PROVE RunSends(v, work'[v], out'[v].part, batch'.drain)
    <3>1. RunSends(v, work[v], out[v].part, batch.drain) BY DEF PartsOK
    <3>2. work[v].part >= 2 => work[v].part - 1 \in 0 .. Chunks BY <1>3, <1>4
    <3>3. \A i \in 0 .. Chunks : out'[v].part[i] = out[v].part[i] BY <1>6 DEF SetsPart
    <3>4. QED BY <1>1, <1>4, <3>1, <3>2, <3>3 DEF RunSends
  <2>4. QED BY <2>1, <2>3
<1>7. ASSUME NEW j \in 0 .. Chunks, NEW x, SetsPart(u, j, x),
             \/ out[u].part[j] \in Unsent /\ x = "sending" /\ (j >= 2 => out[u].part[j - 1] = "sent")
             \/ out[u].part[j] = "sending" /\ x \in {"sent", "retry", "failed", "ambiguous"}
      PROVE  AllMove
  <2>1. PartMoves(u, j) BY <1>7 DEF PartMoves, SetsPart
  <2>2. \A v \in Updates, i \in 0 .. Chunks : v # u \/ i # j => PartMoves(v, i)
    BY <1>7 DEF PartMoves, SetsPart
  <2>3. QED BY <1>7, <2>1, <2>2 DEF AllMove, SetsPart
<1>8. CASE KeepsParts /\ (Leaves(u) \/ work'[u].pc \notin {"sending", "answering"})
  <2>1. RunSends(u, work'[u], out'[u].part, batch'.drain) BY <1>2, <1>8 DEF RunSends, Idle
  <2>2. QED BY <1>1, <1>5, <1>8, <2>1
<1>9. CASE KeepsParts /\ work'[u].pc = "answering" /\ work'[u].part \in {0, 1}
  <2>1. RunSends(u, work'[u], out'[u].part, batch'.drain) BY <1>9 DEF RunSends
  <2>2. QED BY <1>1, <1>5, <1>9, <2>1
<1>10. CASE /\ work[u].pc = "answering" /\ KeepsParts
            /\ \/ Leaves(u)
               \/ /\ work'[u].pc = "answering" /\ work'[u].part = work[u].part + 1
                  /\ work[u].part = 0 \/ out[u].part[work[u].part] = "sent"
  <2>1. RunSends(u, work'[u], out'[u].part, batch'.drain)
    <3>1. CASE Leaves(u) BY <1>2, <3>1 DEF RunSends, Idle
    <3>2. CASE work'[u].pc = "answering" /\ work'[u].part = k + 1 /\ (k = 0 \/ out[u].part[k] = "sent")
      <4>1. k + 1 - 1 = k /\ (k + 1 >= 2 => k # 0) BY <1>3
      <4>2. out'[u].part[k] = out[u].part[k] BY <1>3, <1>10 DEF KeepsParts
      <4>0. work'[u].part = k + 1 BY <3>2
      <4>3. work'[u].part - 1 = k BY <1>3, <4>0
      <4>4. work'[u].part >= 2 => out'[u].part[k] = "sent" BY <3>2, <4>1, <4>2
      <4>5. work'[u].part >= 2 => out'[u].part[work'[u].part - 1] = "sent" BY <4>3, <4>4
      <4>6. work'[u].pc # "sending" BY <3>2
      <4>7. QED BY <4>5, <4>6 DEF RunSends
    <3>3. QED BY <1>10, <3>1, <3>2 DEF k
  <2>2. QED BY <1>1, <1>5, <1>10, <2>1
<1>11. CASE /\ work[u].pc = "sending"
            /\ \E status \in {"sent", "retry", "failed", "ambiguous"} :
                 /\ SetsPart(u, work[u].part, status)
                 /\ \/ Leaves(u)
                    \/ /\ work'[u].pc = "answering" /\ work'[u].part = work[u].part + 1
                       /\ work[u].part = 0 \/ status = "sent"
  <2>1. PICK status \in {"sent", "retry", "failed", "ambiguous"} :
          /\ SetsPart(u, k, status)
          /\ \/ Leaves(u)
             \/ work'[u].pc = "answering" /\ work'[u].part = k + 1 /\ (k = 0 \/ status = "sent")
    BY <1>11 DEF k
  <2>2. out[u].part[k] = "sending" /\ <<u, k>> \notin batch.drain BY <1>11 DEF PartsOK, RunSends, k
  <2>3. RunSends(u, work'[u], out'[u].part, batch'.drain)
    <3>1. CASE Leaves(u) BY <1>2, <3>1 DEF RunSends, Idle
    <3>2. CASE work'[u].pc = "answering" /\ work'[u].part = k + 1 /\ (k = 0 \/ status = "sent")
      <4>1. k + 1 - 1 = k /\ (k + 1 >= 2 => k # 0) BY <1>3
      <4>2. out'[u].part[k] = status BY <1>3, <2>1 DEF SetsPart
      <4>0. work'[u].part = k + 1 BY <3>2
      <4>3. work'[u].part - 1 = k BY <1>3, <4>0
      <4>4. work'[u].part >= 2 => out'[u].part[k] = "sent" BY <3>2, <4>1, <4>2
      <4>5. work'[u].part >= 2 => out'[u].part[work'[u].part - 1] = "sent" BY <4>3, <4>4
      <4>6. work'[u].pc # "sending" BY <3>2
      <4>7. QED BY <4>5, <4>6 DEF RunSends
    <3>3. QED BY <2>1, <3>1, <3>2
  <2>4. AllMove BY <1>3, <1>7, <2>1, <2>2
  <2>5. QED BY <1>1, <1>3, <1>6, <2>1, <2>2, <2>3, <2>4
<1>12. CASE /\ work[u].pc = "answering" /\ out[u].part[work[u].part] \in Unsent
            /\ SetsPart(u, work[u].part, "sending")
            /\ work'[u].pc = "sending" /\ work'[u].part = work[u].part
  <2>1. out[u].part[k] \in Unsent /\ SetsPart(u, k, "sending") /\ work'[u].pc = "sending" /\ work'[u].part = k
    BY <1>12 DEF k
  <2>2. <<u, k>> \notin batch.drain BY <1>3, <2>1 DEF PartsOK, Unsent
  <2>3. k >= 2 => out[u].part[k - 1] = "sent" BY <1>12 DEF PartsOK, RunSends, k
  <2>4. RunSends(u, work'[u], out'[u].part, batch'.drain)
    BY <1>1, <1>3, <2>1, <2>2 DEF RunSends, SetsPart
  <2>5. AllMove BY <1>3, <1>7, <2>1, <2>3
  <2>6. QED BY <1>1, <1>3, <1>6, <2>1, <2>2, <2>4, <2>5
<1>13. CASE /\ out[u].part[1] \in Unsent /\ SetsPart(u, 1, "sending")
            /\ work'[u].pc = "sending" /\ work'[u].part = 1
  <2>1. <<u, 1>> \notin batch.drain BY <1>3, <1>13 DEF PartsOK, Unsent
  <2>2. RunSends(u, work'[u], out'[u].part, batch'.drain)
    BY <1>1, <1>3, <1>13, <2>1 DEF RunSends, SetsPart
  <2>3. AllMove BY <1>3, <1>7, <1>13
  <2>4. QED BY <1>1, <1>3, <1>6, <1>13, <2>1, <2>2, <2>3
<1>14. QED BY <1>8, <1>9, <1>10, <1>11, <1>12, <1>13, HandlerParts

\* Parts change one step at a time, and never out of order.
LEMMA OrderKept ==
  ASSUME TypeOK, PartsInOrder, AllMove
  PROVE  \A u \in Updates, k \in 2 .. Chunks : out'[u].part[k] # "none" => out'[u].part[k - 1] = "sent"
<1>1. SUFFICES ASSUME NEW u \in Updates, NEW k \in 2 .. Chunks, out'[u].part[k] # "none"
               PROVE  out'[u].part[k - 1] = "sent"
  OBVIOUS
<1>2. k \in 0 .. Chunks /\ k - 1 \in 0 .. Chunks /\ k >= 2 BY Bounds
<1>3. PartMoves(u, k) /\ PartMoves(u, k - 1) BY <1>2 DEF AllMove
<1>4. out[u].part[k] # "none" => out[u].part[k - 1] = "sent" BY DEF PartsInOrder
<1>5. out[u].part[k - 1] = "sent" BY <1>1, <1>2, <1>3, <1>4 DEF PartMoves
<1>6. QED BY <1>3, <1>5 DEF PartMoves, Unsent
\* The parts of all answers, the runs that send them, and the drain.
LEMMA PartsStep ==
  ASSUME TypeOK, Places, PartsOK, [Next]_vars
  PROVE  PartsOK' /\ AllMove
<1> DEFINE Sends == \A u \in Updates : RunSends(u, work'[u], out'[u].part, batch'.drain)
           Drains == \A u \in Updates, k \in 0 .. Chunks :
                       <<u, k>> \in batch'.drain => out'[u].part[k] = "sending"
<1>1. /\ out \in [Updates -> OutRows] /\ PartStates = {"none", "retry"} \cup {"sending", "sent", "failed", "ambiguous"}
      /\ \A u \in Updates, k \in 0 .. Chunks : out[u].part[k] \in PartStates
  BY OutFields DEF TypeOK, OutRows, PartStates
<1>2. \A u \in Updates : work[u].part \in 0 .. Chunks /\ (work[u].part >= 2 => work[u].part - 1 \in 0 .. Chunks)
  BY WorkFields, Bounds
<1>3. \A u \in Updates : RunSends(u, work[u], out[u].part, batch.drain) BY DEF PartsOK
<1>4. \A u \in Updates, k \in 0 .. Chunks : <<u, k>> \in batch.drain => out[u].part[k] = "sending"
  BY DEF PartsOK
<1>5. ASSUME RunStep PROVE AllMove /\ Sends /\ Drains
  <2>1. PICK u \in Updates : Handler(u) \/ AcceptTurn(u) BY <1>5 DEF RunStep
  <2>2. QED BY <2>1, HandlerSends
<1>6. ASSUME UNCHANGED out PROVE AllMove
  BY <1>1, <1>6 DEF AllMove, PartMoves
<1>7. ASSUME UNCHANGED <<work, batch, out>> PROVE AllMove /\ Sends /\ Drains
  BY <1>3, <1>4, <1>6, <1>7
<1>8. ASSUME DrainStep PROVE AllMove /\ Sends /\ Drains
  <2>1. UNCHANGED out BY <1>8, Frames
  <2>2. /\ batch'.drain = batch.drain
        /\ \A u \in Updates : work'[u] = work[u] \/ \E pc \in {"saving", "queued"} : work'[u] = [Idle EXCEPT !.pc = pc]
    BY <1>8, DrainClaims
  <2>3. ASSUME NEW u \in Updates PROVE RunSends(u, work'[u], out'[u].part, batch'.drain)
    <3>1. CASE work'[u] = work[u] BY <1>3, <2>1, <2>2, <3>1
    <3>2. CASE work'[u].pc \notin {"sending", "answering"} BY <3>2 DEF RunSends
    <3>3. \A pc \in {"saving", "queued"} : [Idle EXCEPT !.pc = pc].pc \notin {"sending", "answering"}
      BY DEF Idle
    <3>4. QED BY <2>2, <3>1, <3>2, <3>3
  <2>4. QED BY <1>4, <1>6, <2>1, <2>2, <2>3
<1>9. ASSUME ClaimOutbound PROVE AllMove /\ Sends /\ Drains
  <2> DEFINE due == {a \in Updates \X (0 .. Chunks) :
                       /\ out[a[1]].part[a[2]] = "retry"
                       /\ \A j \in 1 .. a[2] - 1 : out[a[1]].part[j] = "sent"}
             p == [u \in Updates |-> [k \in 0 .. Chunks |-> IF <<u, k>> \in due THEN "sending" ELSE out[u].part[k]]]
  <2>1. /\ UNCHANGED work /\ batch' = [batch EXCEPT !.drain = due]
        /\ out' = [u \in Updates |-> [out[u] EXCEPT !.part = p[u]]]
    BY <1>9 DEF ClaimOutbound
  <2>2. \A u \in Updates, k \in 0 .. Chunks :
           <<u, k>> \in due => out[u].part[k] = "retry" /\ \A j \in 1 .. k - 1 : out[u].part[j] = "sent"
    OBVIOUS
  <2>3. due \subseteq Updates \X (0 .. Chunks) OBVIOUS
  <2> HIDE DEF due
  <2>4. \A u \in Updates : p[u] \in [0 .. Chunks -> PartStates] BY <1>1
  <2>5. \A u \in Updates, k \in 0 .. Chunks : p[u][k] = IF <<u, k>> \in due THEN "sending" ELSE out[u].part[k]
    OBVIOUS
  <2> HIDE DEF p
  <2>6. \A u \in Updates : [out[u] EXCEPT !.part = p[u]] \in OutRows /\ [out[u] EXCEPT !.part = p[u]].part = p[u]
    BY <1>1, <2>4 DEF OutRows
  <2>7. out' \in [Updates -> OutRows] /\ \A u \in Updates : out'[u].part = p[u] BY <2>1, <2>6
  <2>8. batch'.drain = due BY <2>1 DEF TypeOK
  <2>9. ASSUME NEW u \in Updates, NEW k \in 0 .. Chunks PROVE PartMoves(u, k)
    <3>1. CASE <<u, k>> \in due
      <4>1. out[u].part[k] \in Unsent /\ out'[u].part[k] = "sending" BY <2>2, <2>5, <2>7, <3>1 DEF Unsent
      <4>2. k >= 2 => k - 1 \in 1 .. k - 1 BY Bounds
      <4>3. k >= 2 => out[u].part[k - 1] = "sent" BY <2>2, <3>1, <4>2
      <4>4. QED BY <4>1, <4>3 DEF PartMoves
    <3>2. CASE <<u, k>> \notin due BY <2>5, <2>7, <3>2 DEF PartMoves
    <3>3. QED BY <3>1, <3>2
  <2>10. \A u \in Updates, k \in 0 .. Chunks :
           out[u].part[k] # "retry" => out'[u].part[k] = out[u].part[k] /\ <<u, k>> \notin batch'.drain
    BY <2>2, <2>5, <2>7, <2>8
  <2>11. ASSUME NEW u \in Updates PROVE RunSends(u, work'[u], out'[u].part, batch'.drain)
    <3>1. work'[u] = work[u] /\ RunSends(u, work[u], out[u].part, batch.drain) BY <1>3, <2>1
    <3>2. work[u].pc = "sending" =>
            out'[u].part[work[u].part] = "sending" /\ <<u, work[u].part>> \notin batch'.drain
      BY <1>2, <2>10, <3>1 DEF RunSends
    <3>3. work[u].pc = "answering" /\ work[u].part >= 2 => out'[u].part[work[u].part - 1] = "sent"
      BY <1>2, <2>10, <3>1 DEF RunSends
    <3>4. QED BY <3>1, <3>2, <3>3 DEF RunSends
  <2>12. Drains BY <2>5, <2>7, <2>8
  <2>13. QED BY <2>7, <2>9, <2>11, <2>12 DEF AllMove
<1>10. ASSUME DrainOutbound PROVE AllMove /\ Sends /\ Drains
  <2>1. PICK a \in batch.drain, status \in {"sent", "retry", "failed", "ambiguous"} :
          /\ out' = [out EXCEPT ![a[1]].part[a[2]] = status]
          /\ batch' = [batch EXCEPT !.drain = @ \ {a}] /\ UNCHANGED work
    BY <1>10 DEF DrainOutbound
  <2>2. a \in Updates \X (0 .. Chunks) BY BatchFields
  <2>3. PICK v \in Updates, j \in 0 .. Chunks : a = <<v, j>> BY <2>2
  <2>4. status \in PartStates BY <1>1
  <2>5. SetsPart(v, j, status)
    <3>1. out' = [out EXCEPT ![v].part[j] = status] BY <2>1, <2>3
    <3>2. QED BY <2>4, <3>1, StatusWritten
  <2>6. batch'.drain = batch.drain \ {<<v, j>>} BY <2>1, <2>3 DEF TypeOK
  <2>7. out[v].part[j] = "sending" BY <1>4, <2>1, <2>3
  <2>8. ASSUME NEW u \in Updates, NEW k \in 0 .. Chunks PROVE PartMoves(u, k)
    BY <2>5, <2>7 DEF PartMoves, SetsPart
  <2>9. ASSUME NEW u \in Updates, NEW k \in 0 .. Chunks,
               out[u].part[k] # "sending" \/ <<u, k>> \notin batch.drain
        PROVE  out'[u].part[k] = out[u].part[k]
    <3>1. u # v \/ k # j BY <2>1, <2>3, <2>7, <2>9
    <3>2. QED BY <2>5, <3>1 DEF SetsPart
  <2>10. ASSUME NEW u \in Updates PROVE RunSends(u, work'[u], out'[u].part, batch'.drain)
    <3>1. work'[u] = work[u] /\ RunSends(u, work[u], out[u].part, batch.drain) BY <1>3, <2>1
    <3>2. work[u].pc = "sending" =>
            out'[u].part[work[u].part] = "sending" /\ <<u, work[u].part>> \notin batch'.drain
      BY <1>2, <2>6, <2>9, <3>1 DEF RunSends
    <3>3. work[u].pc = "answering" /\ work[u].part >= 2 => out'[u].part[work[u].part - 1] = "sent"
      BY <1>2, <2>9, <3>1 DEF RunSends
    <3>4. QED BY <3>1, <3>2, <3>3 DEF RunSends
  <2>11. ASSUME NEW u \in Updates, NEW k \in 0 .. Chunks, <<u, k>> \in batch'.drain
         PROVE  out'[u].part[k] = "sending"
    <3>1. <<u, k>> \in batch.drain /\ (u # v \/ k # j) BY <2>6, <2>11
    <3>2. QED BY <1>4, <2>5, <3>1 DEF SetsPart
  <2>12. QED BY <2>5, <2>8, <2>10, <2>11 DEF AllMove, SetsPart
<1>11. ASSUME Crash PROVE AllMove /\ Sends /\ Drains
  <2>1. UNCHANGED out BY <1>11, Frames
  <2>2. \A u \in Updates : work'[u] = Idle BY <1>11 DEF Crash
  <2>3. batch'.drain = {} BY <1>11 DEF Crash
  <2>4. Sends BY <2>2 DEF RunSends, Idle
  <2>5. QED BY <1>6, <2>1, <2>3, <2>4
<1>12. ASSUME Boot PROVE AllMove /\ Sends /\ Drains
  <2> DEFINE p == [u \in Updates |-> [k \in 0 .. Chunks |->
                     IF out[u].part[k] = "sending" THEN "ambiguous" ELSE out[u].part[k]]]
  <2>1. out' = [u \in Updates |-> [out[u] EXCEPT !.part = p[u]]] /\ ~Up /\ UNCHANGED <<work, batch>>
    BY <1>12 DEF Boot, Up
  <2>2. \A u \in Updates : p[u] \in [0 .. Chunks -> PartStates] BY <1>1
  <2>3. \A u \in Updates, k \in 0 .. Chunks :
          p[u][k] = IF out[u].part[k] = "sending" THEN "ambiguous" ELSE out[u].part[k]
    OBVIOUS
  <2> HIDE DEF p
  <2>4. \A u \in Updates : [out[u] EXCEPT !.part = p[u]] \in OutRows /\ [out[u] EXCEPT !.part = p[u]].part = p[u]
    BY <1>1, <2>2 DEF OutRows
  <2>5. out' \in [Updates -> OutRows] /\ \A u \in Updates : out'[u].part = p[u] BY <2>1, <2>4
  <2>6. AllMove BY <2>3, <2>5 DEF AllMove, PartMoves
  <2>7. batch.main = {} /\ batch.control = {} /\ batch.drain = {} BY <2>1 DEF Places
  <2>8. \A u \in Updates : work[u].pc = "idle" BY <2>7 DEF Places, InBatch
  <2>9. Sends BY <2>1, <2>8 DEF RunSends
  <2>10. QED BY <2>1, <2>6, <2>7, <2>9
<1>13. AllMove /\ Sends /\ Drains
  BY <1>5, <1>7, <1>8, <1>9, <1>10, <1>11, <1>12, StepKinds, Frames
<1>14. \A u \in Updates, k \in 2 .. Chunks : out'[u].part[k] # "none" => out'[u].part[k - 1] = "sent"
  BY <1>13, OrderKept DEF PartsOK
<1>15. QED BY <1>13, <1>14 DEF PartsOK, PartsInOrder

-----------------------------------------------------------------------------
(***************************************************************************)
(* The invariant and what it gives.                                        *)
(***************************************************************************)
DirectInv == TypeOK /\ Places /\ Links /\ AsksOK /\ AsksDown /\ PartsOK
\* Everything keeps its type.
LEMMA TypeStep ==
  ASSUME DirectInv, [Next]_vars
  PROVE  TypeOK'
<1> USE DEF DirectInv
<1>1. row' \in [Updates -> [status : RowStates, attempts : Nat]] BY RowType
<1>2. work' \in [Updates -> WorkStates] BY WorkType
<1>3. batch' \in [main : SUBSET Updates, control : SUBSET Updates,
                  drain : SUBSET (Updates \X (0 .. Chunks))]
  BY BatchType
<1>4. conv' \in Conversation BY RecordStep DEF SoundRecord
<1>5. mem' \in [active : 0 .. MaxTurns, starting : BOOLEAN, pending : BOOLEAN]
  BY MemoryStep DEF SoundMemory, Memories
<1>6. turns' \in Seq(TurnStates) /\ Len(turns') <= MaxTurns BY TurnsStep DEF TurnsGrow
<1>7. ask' \in [1 .. MaxTurns -> AskStates] BY AsksStep DEF AllSound
<1>8. out' \in [Updates -> [part : [0 .. Chunks -> PartStates], said : {"none", "stopped", "idle", "new"}]]
  BY PartsStep DEF AllMove, OutRows
<1>9. press' \in [Updates -> [turn : 0 .. MaxTurns, decision : {"approve", "deny"}]]
  <2>1. ASSUME NEW u \in Updates, PressButton(u)
        PROVE  press' \in [Updates -> [turn : 0 .. MaxTurns, decision : {"approve", "deny"}]]
    <3>1. PICK t \in Turns, decision \in {"approve", "deny"} :
            press' = [press EXCEPT ![u] = [turn |-> t, decision |-> decision]]
      BY <2>1 DEF PressButton
    <3>2. t \in 0 .. MaxTurns BY TurnBounds
    <3>3. QED BY <3>1, <3>2 DEF TypeOK
  <2>2. ASSUME UNCHANGED press PROVE press' \in [Updates -> [turn : 0 .. MaxTurns, decision : {"approve", "deny"}]]
    BY <2>2 DEF TypeOK
  <2>3. ASSUME RowStep PROVE UNCHANGED press \/ \E u \in Updates : PressButton(u)
    BY <2>3 DEF RowStep, BackoffEnds, LeaseRunsOut, Arrive
  <2>4. ASSUME RunStep PROVE UNCHANGED press BY <2>4, HandlerFrames DEF RunStep
  <2>5. UNCHANGED press \/ \E u \in Updates : PressButton(u) BY <2>3, <2>4, StepKinds, Frames
  <2>6. QED BY <2>1, <2>2, <2>5
<1>10. stage' \in {"down", "recovering", "up"}
  <2>1. ASSUME RunStep PROVE UNCHANGED stage BY <2>1, HandlerFrames DEF RunStep
  <2>2. UNCHANGED stage \/ stage' \in {"down", "recovering", "up"}
    BY <2>1, StepKinds, Frames DEF Crash, Boot, RecoverInterruptedTurns
  <2>3. QED BY <2>2 DEF TypeOK
<1>11. budget' \in Situation BY BudgetStep
<1>12. QED BY <1>1, <1>2, <1>3, <1>4, <1>5, <1>6, <1>7, <1>8, <1>9, <1>10, <1>11 DEF TypeOK

\* The process starts with nothing taken in.
LEMMA DirectInit ==
  ASSUME Init
  PROVE  DirectInv
<1> USE DEF Init
<1>1. turns = <<>> /\ Len(turns) = 0 /\ Turns = {} BY DEF Turns
<1>2. TypeOK
  <2>1. row \in [Updates -> [status : RowStates, attempts : Nat]] BY DEF RowStates
  <2>2. Idle \in WorkStates BY Bounds DEF Idle, WorkStates
  <2>3. work \in [Updates -> WorkStates] BY <2>2
  <2>4. batch \in [main : SUBSET Updates, control : SUBSET Updates,
                   drain : SUBSET (Updates \X (0 .. Chunks))]
    OBVIOUS
  <2>5. conv \in Conversation BY DEF Conversation, ActiveTurns
  <2>6. mem \in [active : 0 .. MaxTurns, starting : BOOLEAN, pending : BOOLEAN] BY Bounds
  <2>7. turns \in Seq(TurnStates) /\ Len(turns) <= MaxTurns BY <1>1, Bounds
  <2>8. ask \in [1 .. MaxTurns -> AskStates] BY DEF Unasked, AskStates
  <2>9. out \in [Updates -> [part : [0 .. Chunks -> PartStates], said : {"none", "stopped", "idle", "new"}]]
    BY DEF PartStates
  <2>10. press \in [Updates -> [turn : 0 .. MaxTurns, decision : {"approve", "deny"}]] BY Bounds
  <2>11. stage \in {"down", "recovering", "up"} /\ budget \in Situation BY DirectModeAssumption
  <2>12. QED BY <2>1, <2>3, <2>4, <2>5, <2>6, <2>7, <2>8, <2>9, <2>10, <2>11 DEF TypeOK
<1>3. Places BY DEF Places, InBatch, Idle, Up
<1>4. Links
  <2>1. \A u \in Updates : RunLinked(u, work[u], turns) BY <1>1 DEF RunLinked, Idle
  <2>2. mem.active \in 0 .. Len(turns) BY <1>1
  <2>3. RecordLinked(conv, turns) BY ActiveKinds DEF RecordLinked
  <2>4. QED BY <1>1, <2>1, <2>2, <2>3 DEF Links
<1>5. AsksOK /\ AsksDown BY DEF AsksOK, AskOK, Unasked, AsksDown
<1>6. PartsOK
  <2>1. \A u \in Updates, k \in 0 .. Chunks : out[u].part[k] = "none" OBVIOUS
  <2>2. \A u \in Updates : RunSends(u, work[u], out[u].part, batch.drain) BY DEF RunSends, Idle
  <2>3. \A k \in 2 .. Chunks : k \in 0 .. Chunks BY Bounds
  <2>4. QED BY <2>1, <2>2, <2>3 DEF PartsOK, PartsInOrder
<1>7. QED BY <1>2, <1>3, <1>4, <1>5, <1>6 DEF DirectInv

\* Every step keeps it.
LEMMA DirectStep ==
  ASSUME DirectInv, [Next]_vars
  PROVE  DirectInv'
<1>1. TypeOK' BY TypeStep
<1>2. Places' BY PlacesStep DEF DirectInv
<1>3. Links' BY LinksStep DEF DirectInv
<1>4. AllSound(ask') /\ AsksDown' BY AsksStep DEF DirectInv
<1>5. AsksOK' BY <1>4 DEF AllSound, SoundAsk, AsksOK
<1>6. PartsOK' BY PartsStep DEF DirectInv
<1>7. QED BY <1>1, <1>2, <1>3, <1>4, <1>5, <1>6 DEF DirectInv

\* It holds in every state the bridge can be in.
LEMMA DirectHolds == Spec => []DirectInv
<1>1. Init => DirectInv BY DirectInit
<1>2. DirectInv /\ [Next]_vars => DirectInv' BY DirectStep
<1>3. QED BY <1>1, <1>2, PTL DEF Spec

\* Rows, runs, batches, the conversation's record, turns, requests and outbound
\* actions keep their types.
THEOREM DirectTypes == Spec => []TypeOK
<1>1. DirectInv => TypeOK BY DEF DirectInv
<1>2. QED BY <1>1, DirectHolds, PTL

\* The app-server hears "approve" only for a request whose row says so and never "deny"
\* for one whose row says "approved"; what the owner decided is heard, on its way, or was
\* lost with the bridge or its socket, whatever the owner taps, whatever times out, fails
\* or restarts in between (ApprovalRouter.handleCallback, handleServerRequest,
\* expirePending).
THEOREM AnswersMatchRows == Spec => []AnswerMatchesRow
<1>1. ASSUME DirectInv PROVE AnswerMatchesRow
  BY <1>1, TurnBounds DEF DirectInv, AsksOK, AskOK, AnswerMatchesRow
<1>2. QED BY <1>1, DirectHolds, PTL

\* A part of an answer is created only after the one before it arrived, whoever
\* sends it (#queueTargetedResponses, drainOutboundOnce).
THEOREM PartsAreInOrder == Spec => []PartsInOrder
<1>1. DirectInv => PartsInOrder BY DEF DirectInv, PartsOK
<1>2. QED BY <1>1, DirectHolds, PTL

\* No part that was sent, refused or lost is sent again, by its own run, a later
\* run of its update, the drain or a process started after a crash
\* (markOutboundSending, recovery of sends under way at boot).
THEOREM PartsAreSentOnce == Spec => SentOnce
<1>1. ASSUME DirectInv, [Next]_vars
      PROVE  \A u \in Updates, k \in 0 .. Chunks :
               out[u].part[k] \in {"sent", "failed", "ambiguous"} => out'[u].part[k] = out[u].part[k]
  BY <1>1, PartsStep DEF DirectInv, AllMove, PartMoves, Unsent
<1>2. DirectInv /\ [Next]_vars =>
        [\A u \in Updates, k \in 0 .. Chunks :
           out[u].part[k] \in {"sent", "failed", "ambiguous"} => out'[u].part[k] = out[u].part[k]]_vars
  BY <1>1
<1>3. QED BY <1>2, DirectHolds, PTL DEF Spec, SentOnce
=============================================================================
