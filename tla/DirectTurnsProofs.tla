------------------------- MODULE DirectTurnsProofs -------------------------
(***************************************************************************)
(* Proofs about the turns of the bridge that runs them itself: a recorded   *)
(* turn belongs to a live run, and no update has two live turns.           *)
(***************************************************************************)
EXTENDS DirectModeProofs

-----------------------------------------------------------------------------
(***************************************************************************)
(* What the step of a run does to the conversation's record.               *)
(***************************************************************************)
Holding == {"halting", "waiting", "overdue"}

SameHistory == conv'.torn = conv.torn /\ conv'.lost = conv.lost

\* The run is not about a turn, or gives up before it asks for one.
Aside(u) ==
  /\ work[u].pc \notin OnTurn /\ work'[u].pc \notin RunnerPcs
  /\ conv'.active = conv.active /\ (conv'.thread = conv.thread \/ conv'.thread # 0)
  /\ mem'.active = mem.active /\ SameHistory

Opens(u) ==
  /\ work[u].pc = "saving" /\ RunsTurn(u) /\ work'[u].pc \in {"resuming", "opening"}
  /\ work'[u].pc = "resuming" => conv.thread # 0
  /\ UNCHANGED conv /\ mem'.active = mem.active

Detaches(u) ==
  /\ \/ work[u].pc = "resuming" /\ work'[u].pc = "opening"
     \/ work[u].pc = "saving" /\ work'[u].pc \notin RunnerPcs
  /\ conv'.active = <<>> /\ conv'.thread = 0 /\ mem'.active = mem.active
  /\ conv'.torn = conv.torn \cup {v \in Updates \ {u} : work[v].pc \in OnThread}
  /\ conv'.lost = conv.lost

Begins(u) ==
  /\ work[u].pc \in {"resuming", "opening"} /\ work'[u].pc = "starting"
  /\ conv.active \in {<<>>, <<"starting", u>>} /\ conv'.active = <<"starting", u>>
  /\ \/ work[u].pc = "resuming" /\ conv'.thread = conv.thread
     \/ work[u].pc = "opening" /\ conv'.thread # 0
  /\ mem'.active = mem.active /\ SameHistory

Drops(u) ==
  /\ work[u].pc = "starting" /\ work'[u].pc \notin RunnerPcs
  /\ conv' = ClearActiveTurn(conv, <<"starting", u>>) /\ mem'.active = mem.active
  /\ work[u].reply = 0 \/ row'[u].status = "failed"

Starts(u) ==
  /\ work[u].pc = "starting" /\ work[u].reply # 0 /\ conv.active = <<"starting", u>>
  /\ work'[u].pc \in Holding /\ work'[u].turn = work[u].reply
  /\ conv'.active = <<"turn", work[u].reply>> /\ conv'.thread = conv.thread
  /\ mem'.active = work[u].reply /\ SameHistory

Keeps(u) ==
  /\ work[u].pc \in Holding /\ work'[u].pc \in Holding /\ work'[u].turn = work[u].turn
  /\ UNCHANGED conv /\ mem'.active = mem.active

EndsTurn(u) ==
  /\ work[u].pc \in Holding /\ work'[u].pc \notin RunnerPcs
  /\ conv' = ClearActiveTurn(conv, <<"turn", work[u].turn>>)
  /\ mem'.active = IF mem.active = work[u].turn THEN 0 ELSE mem.active
  /\ row'[u].status = "failed" \/ turns[work[u].turn].status \in Ended

\* What clearing does to a record.
LEMMA ClearFields ==
  ASSUME TypeOK, NEW active
  PROVE  /\ ClearActiveTurn(conv, active).thread = conv.thread
         /\ ClearActiveTurn(conv, active).active = IF conv.active = active THEN <<>> ELSE conv.active
         /\ ClearActiveTurn(conv, active).torn = conv.torn /\ ClearActiveTurn(conv, active).lost = conv.lost
<1>1. conv \in Conversation BY RecordFields
<1>2. QED BY <1>1 DEF Conversation, ClearActiveTurn

\* What the end of a run by an exception does.
LEMMA EndRunFields ==
  ASSUME TypeOK, NEW u \in Updates, NEW active, NEW accepted \in BOOLEAN, EndRun(u, active, accepted)
  PROVE  /\ Leaves(u) /\ work'[u] = Idle /\ conv' = ClearActiveTurn(conv, active)
         /\ mem'.active = IF mem.active = work[u].turn THEN 0 ELSE mem.active
         /\ accepted => row'[u].status = "failed"
<1>1. Leaves(u) /\ work'[u] = Idle BY EndRunLeaves, LeavesRun
<1>2. accepted => row' = [row EXCEPT ![u].status = "failed"] BY DEF EndRun, FailUpdate, Leave
<1>3. accepted => row'[u].status = "failed" BY <1>2 DEF TypeOK
<1>4. conv' = ClearActiveTurn(conv, active)
      /\ mem'.active = IF mem.active = work[u].turn THEN 0 ELSE mem.active
  BY DEF EndRun
<1>5. QED BY <1>1, <1>3, <1>4

\* A run's step is one of these.
LEMMA RunnerShape ==
  ASSUME TypeOK, Links, NEW u \in Updates, Handler(u) \/ AcceptTurn(u)
  PROVE  \/ Aside(u) \/ Opens(u) \/ Detaches(u) \/ Begins(u) \/ AcceptTurn(u) \/ Drops(u)
         \/ Starts(u) \/ Keeps(u) \/ EndsTurn(u)
<1> USE DEF Holding, OnTurn, RunnerPcs, SameHistory
<1>0. work \in [Updates -> WorkStates] /\ work[u] \in WorkStates /\ conv \in Conversation /\ mem \in Memories
  BY WorkFields, RecordFields DEF TypeOK, Memories
<1>1. ASSUME NEW pc, Goto(u, pc) PROVE work'[u].pc = pc /\ work'[u].turn = work[u].turn
  BY <1>0, <1>1 DEF Goto, WorkStates
<1>2. ASSUME NEW text, Reply(u, text) PROVE work'[u].pc \in {"sending", "answering"}
  BY <1>0, <1>2 DEF Reply, WorkStates
<1>3. Leaves(u) => work'[u] = Idle /\ work'[u].pc = "idle" BY LeavesRun DEF Idle
<1>4. ASSUME NEW status, GoOn(u, status) PROVE work'[u].pc \in {"answering", "idle"}
  BY <1>0, <1>3, <1>4, CompleteLeaves DEF GoOn, WorkStates
<1>5. ASSUME RunQueued(u) \/ SendPart(u) \/ Tap(u) PROVE Aside(u)
  <2>1. (\E pc \in {"saving", "sending", "acking"} : Goto(u, pc)) \/ Leaves(u)
    BY <1>5, FailLeaves DEF RunQueued, SendPart, Tap
  <2>2. work'[u].pc \in {"saving", "sending", "acking", "idle"} BY <1>1, <1>3, <2>1
  <2>3. work[u].pc \in {"queued", "answering", "saving"} /\ UNCHANGED <<conv, mem>>
    BY <1>5 DEF RunQueued, SendPart, Tap
  <2>4. QED BY <2>2, <2>3 DEF Aside
<1>6. ASSUME SaveFails(u) \/ TapAcknowledged(u) \/ InvalidTarget(u) \/ NothingToSend(u) PROVE Aside(u)
  <2>1. Leaves(u)
    BY <1>6, FailLeaves, CompleteLeaves DEF SaveFails, TapAcknowledged, InvalidTarget, NothingToSend
  <2>2. work[u].pc \in {"saving", "acking", "answering"} /\ UNCHANGED <<conv, mem>>
    BY <1>6 DEF SaveFails, TapAcknowledged, InvalidTarget, NothingToSend
  <2>3. QED BY <1>3, <2>1, <2>2 DEF Aside
<1>7. ASSUME SkipPart(u) \/ PartSent(u) PROVE Aside(u)
  <2>1. work'[u].pc \in {"answering", "idle"} BY <1>4, <1>7 DEF SkipPart, PartSent
  <2>2. work[u].pc \in {"answering", "sending"} /\ UNCHANGED <<conv, mem>> BY <1>7 DEF SkipPart, PartSent
  <2>3. QED BY <2>1, <2>2 DEF Aside
<1>8. ASSUME Stop(u) PROVE Aside(u)
  <2>1. work[u].pc = "saving" /\ UNCHANGED conv BY <1>8 DEF Stop
  <2>2. CASE mem.active # 0
    <3>1. work' = [work EXCEPT ![u].pc = "stopping", ![u].turn = mem.active] /\ UNCHANGED mem
      BY <1>8, <2>2 DEF Stop
    <3>2. work'[u].pc = "stopping" BY <1>0, <3>1 DEF WorkStates
    <3>3. QED BY <2>1, <3>1, <3>2 DEF Aside
  <2>3. CASE mem.active = 0
    <3> DEFINE starting == mem.starting \/ (conv.thread # 0 /\ conv.active # <<>>)
    <3>1. mem' = [mem EXCEPT !.pending = @ \/ starting] /\ Reply(u, IF starting THEN "stopped" ELSE "idle")
      BY <1>8, <2>3 DEF Stop
    <3> HIDE DEF starting
    <3>2. mem'.active = mem.active BY <1>0, <3>1 DEF Memories
    <3>3. work'[u].pc \in {"sending", "answering"} BY <1>2, <3>1
    <3>4. QED BY <2>1, <3>2, <3>3 DEF Aside
  <2>4. QED BY <2>2, <2>3
<1>9. ASSUME StopReturns(u) PROVE Aside(u)
  <2>1. Reply(u, "stopped") \/ Leaves(u) BY <1>9, FailLeaves DEF StopReturns
  <2>2. work[u].pc = "stopping" /\ UNCHANGED <<conv, mem>> BY <1>9 DEF StopReturns
  <2>3. QED BY <1>2, <1>3, <2>1, <2>2 DEF Aside
<1>d. ASSUME DetachThread(u)
      PROVE  /\ conv'.active = <<>> /\ conv'.thread = 0 /\ conv'.lost = conv.lost
             /\ conv'.torn = conv.torn \cup {v \in Updates \ {u} : work[v].pc \in OnThread}
  <2> DEFINE S == conv.torn \cup {v \in Updates \ {u} : work[v].pc \in OnThread}
  <2>1. conv' = [conv EXCEPT !.thread = 0, !.active = <<>>, !.torn = S] BY <1>d DEF DetachThread
  <2> HIDE DEF S
  <2>2. conv'.active = <<>> /\ conv'.thread = 0 /\ conv'.lost = conv.lost /\ conv'.torn = S
    BY <1>0, <2>1 DEF Conversation
  <2>3. QED BY <2>2 DEF S
<1>10. ASSUME NewConversation(u) PROVE Detaches(u)
  <2>1. work'[u].pc \in {"sending", "answering"} BY <1>2, <1>10 DEF NewConversation
  <2>2. work[u].pc = "saving" /\ DetachThread(u) /\ UNCHANGED mem BY <1>10 DEF NewConversation
  <2>3. QED BY <1>d, <2>1, <2>2 DEF Detaches
<1>11. ASSUME ThreadStale(u) PROVE Detaches(u)
  <2>1. /\ work[u].pc = "resuming" /\ DetachThread(u) /\ UNCHANGED mem
        /\ work' = [work EXCEPT ![u].pc = "opening", ![u].broke = TRUE]
    BY <1>11 DEF ThreadStale
  <2>2. work'[u].pc = "opening" BY <1>0, <2>1 DEF WorkStates
  <2>3. QED BY <1>d, <2>1, <2>2 DEF Detaches
<1>12. ASSUME RunTurn(u) PROVE Opens(u)
  <2> DEFINE pc == IF conv.thread # 0 THEN "resuming" ELSE "opening"
  <2>1. /\ work[u].pc = "saving" /\ RunsTurn(u) /\ mem' = [mem EXCEPT !.starting = TRUE] /\ UNCHANGED conv
        /\ work' = [work EXCEPT ![u].pc = pc, ![u].thread = conv.thread]
    BY <1>12 DEF RunTurn
  <2>2. pc \in {"resuming", "opening"} /\ (pc = "resuming" => conv.thread # 0) OBVIOUS
  <2> HIDE DEF pc
  <2>3. work'[u].pc = pc BY <1>0, <2>1 DEF WorkStates
  <2>4. mem'.active = mem.active BY <1>0, <2>1 DEF Memories
  <2>5. QED BY <2>1, <2>2, <2>3, <2>4 DEF Opens
<1>13. ASSUME ThreadFails(u) PROVE Aside(u)
  <2>1. Leaves(u) BY <1>13, FailLeaves DEF ThreadFails, NotStarted
  <2>2. /\ work[u].pc \in {"resuming", "opening"} /\ UNCHANGED conv
        /\ mem' = [mem EXCEPT !.starting = FALSE, !.pending = FALSE]
    BY <1>13 DEF ThreadFails, NotStarted
  <2>3. mem'.active = mem.active BY <1>0, <2>2 DEF Memories
  <2>4. QED BY <1>3, <2>1, <2>2, <2>3 DEF Aside
<1>14. ASSUME ThreadReady(u) PROVE Aside(u) \/ Begins(u)
  <2> DEFINE n == conv.opened + 1
             c == [conv EXCEPT !.thread = n, !.opened = n]
  <2>1. n \in Nat /\ n # 0 /\ work[u].thread \in Nat BY <1>0, WorkFields DEF Conversation
  <2>2. c.thread = n /\ c.active = conv.active /\ c \in Conversation /\ c.torn = conv.torn /\ c.lost = conv.lost
    BY <1>0, <2>1 DEF Conversation
  <2>3. \/ work[u].pc = "resuming" /\ BeginActiveTurn(u, conv, work[u].thread)
        \/ work[u].pc = "opening" /\ BeginActiveTurn(u, c, n)
    BY <1>14 DEF ThreadReady
  <2>4. CalmMemory.active = mem.active /\ BegunMemory.active = mem.active
    BY <1>0 DEF CalmMemory, BegunMemory, Memories
  <2>5. ASSUME NEW d \in Conversation
        PROVE  /\ BegunRecord(u, d).thread = d.thread /\ BegunRecord(u, d).active = <<"starting", u>>
               /\ BegunRecord(u, d).torn = d.torn /\ BegunRecord(u, d).lost = d.lost
    BY DEF BegunRecord, Conversation
  <2>6. \A thread \in Nat : BegunRun(u, thread).pc = "starting" BY <1>0 DEF BegunRun, WorkStates
  <2> HIDE DEF n, c
  <2>7. CASE work[u].pc = "resuming" /\ BeginActiveTurn(u, conv, work[u].thread)
    <3>1. CASE Leaves(u) /\ conv' = conv /\ mem' = CalmMemory BY <1>3, <2>4, <2>7, <3>1 DEF Aside
    <3>2. CASE /\ work'[u] = BegunRun(u, work[u].thread) /\ conv.active \in {<<>>, <<"starting", u>>}
               /\ conv' = BegunRecord(u, conv) /\ mem' = BegunMemory
      <4>1. work'[u].pc = "starting" BY <2>1, <2>6, <3>2
      <4>2. conv'.thread = conv.thread /\ conv'.active = <<"starting", u>> /\ SameHistory BY <1>0, <2>5, <3>2
      <4>3. QED BY <2>4, <2>7, <3>2, <4>1, <4>2 DEF Begins
    <3>3. QED BY <2>1, <2>7, <3>1, <3>2, BeginMoves
  <2>8. CASE work[u].pc = "opening" /\ BeginActiveTurn(u, c, n)
    <3>1. CASE Leaves(u) /\ conv' = c /\ mem' = CalmMemory BY <1>3, <2>1, <2>2, <2>4, <2>8, <3>1 DEF Aside
    <3>2. CASE /\ work'[u] = BegunRun(u, n) /\ c.active \in {<<>>, <<"starting", u>>}
               /\ conv' = BegunRecord(u, c) /\ mem' = BegunMemory
      <4>1. work'[u].pc = "starting" BY <2>1, <2>6, <3>2
      <4>2. conv'.thread = n /\ conv'.active = <<"starting", u>> /\ SameHistory BY <2>2, <2>5, <3>2
      <4>3. QED BY <2>1, <2>2, <2>4, <2>8, <3>2, <4>1, <4>2 DEF Begins
    <3>3. QED BY <2>1, <2>8, <3>1, <3>2, BeginMoves
  <2>9. QED BY <2>3, <2>7, <2>8
<1>15. ASSUME RejectTurn(u) \/ StartTimesOut(u) \/ TurnUnrecorded(u) PROVE Drops(u)
  <2>1. /\ work[u].pc = "starting"
        /\ \E accepted \in BOOLEAN : EndRun(u, <<"starting", u>>, accepted) /\ (accepted \/ work[u].reply = 0)
    BY <1>15 DEF RejectTurn, StartTimesOut, TurnUnrecorded
  <2>2. PICK accepted \in BOOLEAN : EndRun(u, <<"starting", u>>, accepted) /\ (accepted \/ work[u].reply = 0)
    BY <2>1
  <2>3. work[u].turn = 0 BY <2>1 DEF Links, RunLinked
  <2>4. mem'.active = mem.active BY <2>2, <2>3, EndRunFields
  <2>5. QED BY <1>3, <2>1, <2>2, <2>4, EndRunFields DEF Drops
<1>16. ASSUME TurnStarted(u) PROVE Starts(u)
  <2> DEFINE pc == IF mem.pending THEN "halting" ELSE "waiting"
             t == work[u].reply
  <2>1. /\ work[u].pc = "starting" /\ t # 0 /\ conv.active = <<"starting", u>>
        /\ conv' = [conv EXCEPT !.active = <<"turn", t>>]
        /\ mem' = [mem EXCEPT !.active = t, !.pending = FALSE]
        /\ work' = [work EXCEPT ![u].turn = t, ![u].pc = pc]
    BY <1>16 DEF TurnStarted
  <2>2. pc \in {"halting", "waiting"} OBVIOUS
  <2> HIDE DEF pc, t
  <2>3. work'[u].pc = pc /\ work'[u].turn = t BY <1>0, <2>1 DEF WorkStates
  <2>4. conv'.active = <<"turn", t>> /\ conv'.thread = conv.thread /\ SameHistory
    BY <1>0, <2>1 DEF Conversation
  <2>5. mem'.active = t BY <1>0, <2>1 DEF Memories
  <2>6. QED BY <2>1, <2>2, <2>3, <2>4, <2>5 DEF Starts, t
<1>17. ASSUME WaitTimesOut(u) PROVE Keeps(u)
  <2>1. work[u].pc = "waiting" /\ Goto(u, "overdue") /\ UNCHANGED <<conv, mem>> BY <1>17 DEF WaitTimesOut
  <2>2. work'[u].pc = "overdue" /\ work'[u].turn = work[u].turn BY <1>1, <2>1
  <2>3. QED BY <2>1, <2>2 DEF Keeps
<1>18. ASSUME work[u].pc \in Holding, EndRun(u, <<"turn", work[u].turn>>, TRUE) PROVE EndsTurn(u)
  BY <1>3, <1>18, EndRunFields DEF EndsTurn
<1>19. ASSUME Halted(u) PROVE Keeps(u) \/ EndsTurn(u)
  <2>1. CASE Goto(u, "waiting") /\ UNCHANGED <<conv, mem>>
    <3>1. work[u].pc = "halting" BY <1>19 DEF Halted
    <3>2. work'[u].pc = "waiting" /\ work'[u].turn = work[u].turn BY <1>1, <2>1
    <3>3. QED BY <2>1, <3>1, <3>2 DEF Keeps
  <2>2. QED BY <1>18, <1>19, <2>1 DEF Halted
<1>20. ASSUME TurnFails(u) \/ GiveUp(u) PROVE EndsTurn(u)
  BY <1>18, <1>20 DEF TurnFails, GiveUp
<1>21. ASSUME TurnAnswers(u) PROVE EndsTurn(u)
  <2> DEFINE t == work[u].turn
             part == IF work[u].broke THEN 0 ELSE 1
             active == IF mem.active = t THEN 0 ELSE mem.active
  <2>1. /\ work[u].pc = "waiting" /\ turns[t].status = "completed"
        /\ conv' = ClearActiveTurn(conv, <<"turn", t>>)
        /\ mem' = [mem EXCEPT !.active = active, !.starting = FALSE, !.pending = FALSE]
        /\ work' = [work EXCEPT ![u].pc = "answering", ![u].part = part]
    BY <1>21 DEF TurnAnswers
  <2> HIDE DEF part, active
  <2>2. work'[u].pc = "answering" BY <1>0, <2>1 DEF WorkStates
  <2>3. mem'.active = active BY <1>0, <2>1 DEF Memories
  <2>4. QED BY <2>1, <2>2, <2>3 DEF EndsTurn, Ended, active
<1>22. QED
  BY <1>5, <1>6, <1>7, <1>8, <1>9, <1>10, <1>11, <1>12, <1>13, <1>14, <1>15, <1>16, <1>17, <1>19, <1>20, <1>21
     DEF Handler, Runner, Sender

\* What a run is doing only its own steps and a crash change.
LEMMA RunStays ==
  ASSUME TypeOK, Places, [Next]_vars, ~RunStep, ~Crash, NEW u \in Updates, work[u].pc # "idle"
  PROVE  work'[u] = work[u]
<1>1. ASSUME DrainStep PROVE work'[u] = work[u]
  <2>1. \E S \in SUBSET Updates : /\ \A v \in S : ~InBatch(v)
                                 /\ \A v \in Updates \ S : work'[v] = work[v]
    BY <1>1, DrainClaims
  <2>2. PICK S \in SUBSET Updates : /\ \A v \in S : ~InBatch(v)
                                   /\ \A v \in Updates \ S : work'[v] = work[v]
    BY <2>1
  <2>3. InBatch(u) BY DEF Places
  <2>4. QED BY <2>2, <2>3
<1>2. DrainStep \/ UNCHANGED work BY StepKinds, Frames
<1>3. QED BY <1>1, <1>2

\* What a step does to the run of another update, or of any update outside the
\* steps of runs: it goes on as it was, is claimed, or died with the process.
LEMMA OtherRuns ==
  ASSUME TypeOK, Places, [Next]_vars
  PROVE  \/ \E u \in Updates :
              /\ Handler(u) \/ AcceptTurn(u)
              /\ work[u].pc # "idle" /\ Up
              /\ \A v \in Updates \ {u} : work'[v] = work[v]
              /\ batch'.main \subseteq batch.main /\ batch'.control \subseteq batch.control
              /\ u \in batch'.main => u \in batch.main /\ work'[u].pc # "queued"
         \/ /\ ~RunStep
            /\ \A u \in Updates : \/ work'[u] = work[u]
                                  \/ /\ work'[u].pc \in {"idle", "saving", "queued"}
                                     /\ work[u].pc # "idle" => work'[u] = Idle
<1>1. CASE RunStep
  <2>1. PICK u \in Updates : Handler(u) \/ AcceptTurn(u) BY <1>1 DEF RunStep
  <2>2. work[u].pc # "idle" BY <2>1, HandlerMoves
  <2>3. batch.main # {} \/ batch.control # {} BY <2>2 DEF Places, InBatch
  <2>4. Up BY <2>3 DEF Places
  <2>5. CASE Moves(u)
    <3>1. /\ work'[u].pc \notin {"idle", "queued"} /\ batch' = batch
          /\ \A v \in Updates \ {u} : work'[v] = work[v]
      BY <2>5, MovesRun
    <3>2. QED BY <2>1, <2>2, <2>4, <3>1
  <2>6. CASE Leaves(u)
    <3>1. /\ batch'.main = batch.main \ {u} /\ batch'.control = batch.control \ {u}
          /\ \A v \in Updates \ {u} : work'[v] = work[v]
      BY <2>6, LeavesRun
    <3>2. QED BY <2>1, <2>2, <2>4, <3>1
  <2>7. QED BY <2>1, <2>5, <2>6, HandlerMoves
<1>2. CASE ~RunStep
  <2> DEFINE Calm == \A u \in Updates : \/ work'[u] = work[u]
                                        \/ /\ work'[u].pc \in {"idle", "saving", "queued"}
                                           /\ work[u].pc # "idle" => work'[u] = Idle
  <2>1. ASSUME DrainStep PROVE Calm
    <3>1. PICK S \in SUBSET Updates :
            /\ \A u \in S : ~InBatch(u) /\ \E pc \in {"saving", "queued"} : work'[u] = [Idle EXCEPT !.pc = pc]
            /\ \A u \in Updates \ S : work'[u] = work[u]
      BY <2>1, DrainClaims
    <3>2. \A pc \in {"saving", "queued"} : [Idle EXCEPT !.pc = pc].pc = pc BY DEF Idle
    <3>3. \A u \in S : work[u].pc = "idle" BY <3>1 DEF Places
    <3>4. \A u \in S : work'[u].pc \in {"saving", "queued"} BY <3>1, <3>2
    <3>5. QED BY <3>1, <3>3, <3>4
  <2>2. ASSUME Crash PROVE Calm BY <2>2 DEF Crash, Idle
  <2>3. ASSUME UNCHANGED work PROVE Calm BY <2>3
  <2> HIDE DEF Calm
  <2>4. Calm BY <1>2, <2>1, <2>2, <2>3, StepKinds, Frames
  <2>5. QED BY <1>2, <2>4 DEF Calm
<1>3. QED BY <1>1, <1>2

-----------------------------------------------------------------------------
(***************************************************************************)
(* The record of a turn.  Only a run that detaches the thread takes it from *)
(* under another's feet, and `torn` remembers whose.                       *)
(***************************************************************************)
\* The conversation's record c knows what the run w of u is about.
RunKept(u, w, c, s) ==
  /\ w.pc \in OnThread => c.thread # 0
  /\ w.pc = "starting" => c.active = <<"starting", u>>
  /\ w.pc \in Holding /\ s[w.turn].status \notin Ended => c.active = <<"turn", w.turn>>

Kept == \A u \in Updates \ conv.torn : RunKept(u, work[u], conv, turns)

\* What a crash does to the record.
LEMMA CrashListed ==
  ASSUME TypeOK, Crash
  PROVE  /\ conv'.thread = conv.thread /\ conv'.active = conv.active /\ conv'.source = conv.source
         /\ conv'.torn = conv.torn
         /\ ~conv'.lost => /\ ~conv.lost
                           /\ \A u \in conv.torn : work[u].pc \in OnTurn => Listed(u)
<1> DEFINE b == conv.lost \/ \E u \in conv.torn : work[u].pc \in OnTurn /\ ~Listed(u)
<1>1. conv' = [conv EXCEPT !.lost = b] BY DEF Crash
<1>2. ~b => ~conv.lost /\ \A u \in conv.torn : work[u].pc \in OnTurn => Listed(u) OBVIOUS
<1> HIDE DEF b
<1>3. conv \in Conversation BY RecordFields
<1>4. /\ conv'.thread = conv.thread /\ conv'.active = conv.active /\ conv'.source = conv.source
      /\ conv'.torn = conv.torn /\ conv'.lost = b
  BY <1>1, <1>3 DEF Conversation
<1>5. QED BY <1>2, <1>4

\* History only grows, and nothing is lost but with the bridge.
LEMMA HistoryStep ==
  ASSUME TypeOK, Links, [Next]_vars
  PROVE  /\ conv.torn \subseteq conv'.torn /\ (~conv'.lost => ~conv.lost)
         /\ ~Crash => conv'.lost = conv.lost
<1>1. ASSUME SameHistory PROVE conv.torn \subseteq conv'.torn /\ conv'.lost = conv.lost
  BY <1>1 DEF SameHistory
<1>2. ASSUME NEW active, conv' = ClearActiveTurn(conv, active) PROVE SameHistory
  BY <1>2, ClearFields DEF SameHistory
<1>3. UNCHANGED conv => SameHistory BY DEF SameHistory
<1>4. ASSUME NEW u \in Updates, Handler(u) \/ AcceptTurn(u)
      PROVE  conv.torn \subseteq conv'.torn /\ conv'.lost = conv.lost
  <2>1. Detaches(u) => conv.torn \subseteq conv'.torn /\ conv'.lost = conv.lost BY DEF Detaches
  <2>2. AcceptTurn(u) => UNCHANGED conv BY DEF AcceptTurn
  <2>3. Drops(u) \/ EndsTurn(u) => SameHistory BY <1>2 DEF Drops, EndsTurn
  <2>4. Aside(u) \/ Begins(u) \/ Starts(u) => SameHistory BY DEF Aside, Begins, Starts
  <2>5. Opens(u) \/ Keeps(u) => UNCHANGED conv BY DEF Opens, Keeps
  <2>6. QED BY <1>1, <1>3, <1>4, <2>1, <2>2, <2>3, <2>4, <2>5, RunnerShape
<1>5. ASSUME ReturnStep \/ RecoverInterruptedTurns PROVE SameHistory
  <2>1. UNCHANGED conv \/ \E active : conv' = ClearActiveTurn(conv, active)
    BY <1>5 DEF ReturnStep, InterruptReturns, RecoverInterruptedTurns
  <2>2. QED BY <1>2, <1>3, <2>1
<1>6. ASSUME Crash PROVE conv.torn \subseteq conv'.torn /\ (~conv'.lost => ~conv.lost)
  BY <1>6, CrashListed
<1>7. ASSUME ~Crash PROVE conv.torn \subseteq conv'.torn /\ conv'.lost = conv.lost
  BY <1>1, <1>3, <1>4, <1>5, <1>7, StepKinds, Frames DEF RunStep
<1>8. QED BY <1>6, <1>7

\* A live turn was live before.
LEMMA LiveBefore ==
  ASSUME TypeOK, TurnsGrow, NEW t \in Turns, turns'[t].status \notin Ended
  PROVE  turns[t].status \notin Ended
  BY DEF TurnsGrow, Continues

\* Conversation stay kept.
LEMMA KeptStep ==
  ASSUME TypeOK, Places, Links, Kept, [Next]_vars
  PROVE  Kept'
<1> DEFINE Whole == Updates \ conv'.torn
<1>0. Whole \subseteq Updates /\ Whole \subseteq Updates \ conv.torn BY HistoryStep
<1>a. SUFFICES \A u \in Whole : RunKept(u, work'[u], conv', turns') BY DEF Kept
<1> HIDE DEF Whole
<1>1. TurnsGrow BY TurnsStep
<1>2. \A u \in Updates : work[u].pc \in Holding => work[u].turn \in Turns
  BY TurnOfRun DEF Holding
<1>3. \A u \in Whole : RunKept(u, work[u], conv, turns) BY <1>0 DEF Kept
<1>4. ASSUME NEW u \in Whole, conv'.active = conv.active, conv'.thread = conv.thread \/ conv'.thread # 0
      PROVE  RunKept(u, work[u], conv', turns')
  BY <1>0, <1>1, <1>2, <1>3, <1>4, LiveBefore DEF RunKept
<1>5. ASSUME NEW u \in Whole, work'[u].pc \in {"idle", "saving", "queued"}
      PROVE  RunKept(u, work'[u], conv', turns')
  BY <1>5 DEF RunKept, Holding, OnThread, OnTurn
<1>6. CASE RunStep
  <2>1. PICK u \in Updates : /\ Handler(u) \/ AcceptTurn(u)
                             /\ \A v \in Updates \ {u} : work'[v] = work[v]
    BY <1>6, OtherRuns
  <2>a. \A v \in Whole \ {u} : work'[v] = work[v] BY <1>0, <2>1
  <2>2. u \in Whole => RunKept(u, work[u], conv, turns) BY <1>3
  <2>3. ASSUME NEW v \in Whole \ {u} PROVE <<"starting", v>> # <<"starting", u>>
    BY <2>3
  <2>4. CASE Aside(u) \/ Opens(u)
    <3>1. conv'.active = conv.active /\ (conv'.thread = conv.thread \/ conv'.thread # 0)
      BY <2>4 DEF Aside, Opens
    <3>2. RunKept(u, work'[u], conv', turns')
      BY <2>4 DEF Aside, Opens, RunKept, RunnerPcs, Holding, OnThread, OnTurn
    <3>3. QED BY <1>4, <2>a, <3>1, <3>2
  <2>5. CASE Detaches(u)
    <3>1. \A v \in Whole \ {u} : work[v].pc \notin OnThread
      BY <2>5 DEF Detaches, Whole
    <3>2. \A v \in Whole \ {u} : RunKept(v, work'[v], conv', turns')
      BY <2>a, <3>1 DEF RunKept, OnThread, OnTurn, Holding
    <3>3. RunKept(u, work'[u], conv', turns')
      BY <2>5 DEF Detaches, RunKept, RunnerPcs, Holding, OnThread, OnTurn
    <3>4. QED BY <3>2, <3>3
  <2>6. CASE Begins(u)
    <3>0. conv'.thread = conv.thread \/ conv'.thread # 0 BY <2>6 DEF Begins
    <3>1. u \in Whole => conv'.thread # 0 BY <2>2, <2>6 DEF Begins, RunKept, OnThread
    <3>2. ASSUME NEW v \in Whole \ {u} PROVE RunKept(v, work'[v], conv', turns')
      <4>1. work'[v] = work[v] BY <2>a
      <4>2. conv.active \in {<<>>, <<"starting", u>>} BY <2>6 DEF Begins
      <4>3. work[v].pc # "starting" BY <1>3, <2>3, <4>2 DEF RunKept
      <4>4. \A t \in Turns : <<"turn", t>> # <<>> /\ <<"turn", t>> # <<"starting", u>> OBVIOUS
      <4>5. work[v].pc \in Holding => turns[work[v].turn].status \in Ended
        <5>1. SUFFICES ASSUME work[v].pc \in Holding, turns[work[v].turn].status \notin Ended PROVE FALSE
          OBVIOUS
        <5>2. conv.active = <<"turn", work[v].turn>> BY <1>3, <5>1 DEF RunKept
        <5>3. QED BY <1>0, <1>2, <4>2, <4>4, <5>1, <5>2
      <4>6. work[v].pc \in Holding => turns'[work[v].turn].status \in Ended
        BY <1>0, <1>1, <1>2, <4>5, LiveBefore
      <4>7. QED BY <1>3, <3>0, <4>1, <4>3, <4>6 DEF RunKept
    <3>3. u \in Whole => RunKept(u, work'[u], conv', turns') BY <2>6, <3>1 DEF Begins, RunKept, Holding
    <3>4. QED BY <3>2, <3>3
  <2>7. CASE AcceptTurn(u)
    <3>1. work[u].pc = "starting" /\ work' = [work EXCEPT ![u].reply = Len(turns) + 1] /\ conv' = conv
      BY <2>7 DEF AcceptTurn
    <3>2. work'[u].pc = "starting" BY <3>1, WorkFields DEF TypeOK, WorkStates
    <3>3. u \in Whole => RunKept(u, work'[u], conv', turns')
      BY <2>2, <3>1, <3>2 DEF RunKept, Holding, OnThread, OnTurn
    <3>4. QED BY <1>4, <2>a, <3>1, <3>3
  <2>8. CASE Drops(u)
    <3>1. /\ conv'.thread = conv.thread
          /\ conv'.active = IF conv.active = <<"starting", u>> THEN <<>> ELSE conv.active
      BY <2>8, ClearFields DEF Drops
    <3>2. ASSUME NEW v \in Whole \ {u} PROVE RunKept(v, work'[v], conv', turns')
      <4>1. work'[v] = work[v] BY <2>a
      <4>2. work[v].pc = "starting" => conv'.active = <<"starting", v>> BY <1>3, <2>3, <3>1 DEF RunKept
      <4>3. \A t \in Turns : <<"turn", t>> # <<"starting", u>> OBVIOUS
      <4>4. work[v].pc \in Holding /\ turns[work[v].turn].status \notin Ended =>
              conv'.active = <<"turn", work[v].turn>>
        BY <1>0, <1>2, <1>3, <3>1, <4>3 DEF RunKept
      <4>5. work[v].pc \in OnThread => conv'.thread # 0 BY <1>3, <3>1 DEF RunKept
      <4>6. work[v].pc \in Holding /\ turns'[work[v].turn].status \notin Ended =>
              turns[work[v].turn].status \notin Ended
        BY <1>0, <1>1, <1>2, LiveBefore
      <4>7. QED BY <4>1, <4>2, <4>4, <4>5, <4>6 DEF RunKept
    <3>3. RunKept(u, work'[u], conv', turns')
      BY <2>8 DEF Drops, RunKept, RunnerPcs, Holding, OnThread, OnTurn
    <3>4. QED BY <3>2, <3>3
  <2>9. CASE Starts(u)
    <3>1. /\ conv.active = <<"starting", u>> /\ conv'.active = <<"turn", work[u].reply>>
          /\ conv'.thread = conv.thread /\ work'[u].pc \in Holding /\ work'[u].turn = work[u].reply
      BY <2>9 DEF Starts
    <3>3. ASSUME NEW v \in Whole \ {u} PROVE RunKept(v, work'[v], conv', turns')
      <4>1. work'[v] = work[v] BY <2>a
      <4>2. work[v].pc # "starting" BY <1>3, <2>3, <3>1 DEF RunKept
      <4>3. \A t \in Turns : <<"turn", t>> # <<"starting", u>> OBVIOUS
      <4>4. work[v].pc \in Holding => turns[work[v].turn].status \in Ended
        <5>1. SUFFICES ASSUME work[v].pc \in Holding, turns[work[v].turn].status \notin Ended PROVE FALSE
          OBVIOUS
        <5>2. conv.active = <<"turn", work[v].turn>> BY <1>3, <5>1 DEF RunKept
        <5>3. QED BY <1>0, <1>2, <3>1, <4>3, <5>1, <5>2
      <4>5. work[v].pc \in Holding => turns'[work[v].turn].status \in Ended
        BY <1>0, <1>1, <1>2, <4>4, LiveBefore
      <4>6. QED BY <1>3, <3>1, <4>1, <4>2, <4>5 DEF RunKept
    <3>4. u \in Whole => RunKept(u, work'[u], conv', turns')
      <4>1. work[u].pc \in OnThread BY <2>9 DEF Starts, OnThread, OnTurn
      <4>2. QED BY <2>2, <3>1, <4>1 DEF RunKept, Holding
    <3>5. QED BY <3>3, <3>4
  <2>10. CASE Keeps(u)
    <3>1. /\ conv' = conv /\ work[u].pc \in Holding /\ work'[u].pc \in Holding
          /\ work'[u].turn = work[u].turn
      BY <2>10 DEF Keeps
    <3>2. u \in Whole => RunKept(u, work[u], conv', turns') BY <1>4, <3>1
    <3>3. u \in Whole => RunKept(u, work'[u], conv', turns')
      BY <3>1, <3>2 DEF RunKept, Holding, OnThread, OnTurn
    <3>4. QED BY <1>4, <2>a, <3>1, <3>3
  <2>11. CASE EndsTurn(u)
    <3> DEFINE s == work[u].turn
    <3>1. /\ conv'.thread = conv.thread
          /\ conv'.active = IF conv.active = <<"turn", s>> THEN <<>> ELSE conv.active
      BY <2>11, ClearFields DEF EndsTurn
    <3>2. work[u].pc \in Holding /\ s \in Turns /\ turns[s].source = u
      BY <1>2, <2>11 DEF EndsTurn, Links, RunLinked, Holding
    <3> HIDE DEF s
    <3>3. ASSUME NEW v \in Whole \ {u} PROVE RunKept(v, work'[v], conv', turns')
      <4>1. work'[v] = work[v] BY <2>a
      <4>2. <<"starting", v>> # <<"turn", s>> OBVIOUS
      <4>3. work[v].pc = "starting" => conv'.active = <<"starting", v>> BY <1>3, <3>1, <4>2 DEF RunKept
      <4>4. work[v].pc \in Holding => work[v].turn # s /\ <<"turn", work[v].turn>> # <<"turn", s>>
        BY <1>0, <3>2 DEF Links, RunLinked, Holding
      <4>5. work[v].pc \in Holding /\ turns[work[v].turn].status \notin Ended =>
              conv'.active = <<"turn", work[v].turn>>
        BY <1>0, <1>2, <1>3, <3>1, <4>4 DEF RunKept
      <4>6. work[v].pc \in OnThread => conv'.thread # 0 BY <1>3, <3>1 DEF RunKept
      <4>7. work[v].pc \in Holding /\ turns'[work[v].turn].status \notin Ended =>
              turns[work[v].turn].status \notin Ended
        BY <1>0, <1>1, <1>2, LiveBefore
      <4>8. QED BY <4>1, <4>3, <4>5, <4>6, <4>7 DEF RunKept
    <3>4. RunKept(u, work'[u], conv', turns')
      BY <2>11 DEF EndsTurn, RunKept, RunnerPcs, Holding, OnThread, OnTurn
    <3>5. QED BY <3>3, <3>4
  <2>12. QED BY <2>1, <2>4, <2>5, <2>6, <2>7, <2>8, <2>9, <2>10, <2>11, RunnerShape
<1>7. ASSUME ~RunStep, \A u \in Whole : RunKept(u, work[u], conv', turns')
      PROVE  \A u \in Whole : RunKept(u, work'[u], conv', turns')
  <2>1. \A u \in Whole : work'[u] = work[u] \/ work'[u].pc \in {"idle", "saving", "queued"}
    BY <1>0, <1>7, OtherRuns DEF RunStep
  <2>2. QED BY <1>5, <1>7, <2>1
<1>8. CASE ~RunStep /\ conv'.active = conv.active /\ conv'.thread = conv.thread BY <1>4, <1>7, <1>8
<1>9. CASE ~RunStep /\ ReturnStep
  <2>1. PICK t \in Turns : InterruptReturns(t) BY <1>9 DEF ReturnStep
  <2>2. CASE conv' = conv BY <1>4, <1>7, <1>9, <2>2
  <2>3. CASE conv' # conv
    <3>1. turns[t].interrupt = "answered" /\ conv' = ClearActiveTurn(conv, <<"turn", t>>)
      BY <2>1, <2>3 DEF InterruptReturns
    <3>2. /\ conv'.thread = conv.thread
          /\ conv'.active = IF conv.active = <<"turn", t>> THEN <<>> ELSE conv.active
      BY <3>1, ClearFields
    <3>3. turns[t].status \in Ended BY <3>1 DEF Links, InterruptOK
    <3>4. ASSUME NEW v \in Whole PROVE RunKept(v, work[v], conv', turns')
      <4>1. <<"starting", v>> # <<"turn", t>> OBVIOUS
      <4>2. work[v].pc = "starting" => conv'.active = <<"starting", v>> BY <1>3, <3>2, <4>1 DEF RunKept
      <4>3. ASSUME work[v].pc \in Holding, turns'[work[v].turn].status \notin Ended
            PROVE  conv'.active = <<"turn", work[v].turn>>
        <5>1. turns[work[v].turn].status \notin Ended BY <1>0, <1>1, <1>2, <4>3, LiveBefore
        <5>2. work[v].turn # t /\ <<"turn", work[v].turn>> # <<"turn", t>> BY <3>3, <5>1
        <5>3. conv.active = <<"turn", work[v].turn>> BY <1>3, <4>3, <5>1 DEF RunKept
        <5>4. QED BY <3>2, <5>2, <5>3
      <4>4. work[v].pc \in OnThread => conv'.thread # 0 BY <1>3, <3>2 DEF RunKept
      <4>5. QED BY <4>2, <4>3, <4>4 DEF RunKept
    <3>5. QED BY <1>7, <1>9, <3>4
  <2>4. QED BY <2>2, <2>3
<1>10. CASE ~RunStep /\ RecoverInterruptedTurns
  <2>1. ~Up BY <1>10 DEF RecoverInterruptedTurns, Up
  <2>2. batch.main = {} /\ batch.control = {} BY <2>1 DEF Places
  <2>3. \A u \in Updates : work[u].pc = "idle" BY <2>2 DEF Places, InBatch
  <2>4. \A u \in Whole : RunKept(u, work[u], conv', turns')
    BY <1>0, <2>3 DEF RunKept, Holding, OnThread, OnTurn
  <2>5. QED BY <1>7, <1>10, <2>4
<1>11. CASE Crash
  <2>1. ~RunStep
    <3>1. Crash => stage # "down" /\ stage' = "down" BY DEF Crash
    <3>2. QED BY <1>11, <3>1, HandlerFrames DEF RunStep
  <2>2. QED BY <1>8, <1>11, <2>1, CrashListed
<1>12. QED BY <1>6, <1>8, <1>9, <1>10, <1>11, StepKinds, Frames

-----------------------------------------------------------------------------
(***************************************************************************)
(* A recorded turn belongs to a live run.                                  *)
(***************************************************************************)
\* u's run holds the record c, with a in memory as the active turn.
HeldBy(u, w, c, a) ==
  \/ c = <<"starting", u>> /\ w.pc = "starting"
  \/ c = <<"turn", w.turn>> /\ w.pc \in Holding /\ a = w.turn

\* The same, without the turns.
LEMMA HeldForm ==
  ASSUME TypeOK, Links
  PROVE  RecordHeld <=> (Up /\ ~conv.lost /\ conv.active # <<>> =>
                           \E u \in Updates : HeldBy(u, work[u], conv.active, mem.active))
<1>1. ASSUME NEW u \in Updates, NEW t \in Turns, conv.active = <<"turn", t>>, Holds(u, t), mem.active = t
      PROVE  HeldBy(u, work[u], conv.active, mem.active)
  BY <1>1 DEF HeldBy, Holds, Holding
<1>2. ASSUME NEW u \in Updates, HeldBy(u, work[u], conv.active, mem.active)
      PROVE  \/ conv.active = <<"starting", u>> /\ work[u].pc = "starting"
             \/ \E t \in Turns : conv.active = <<"turn", t>> /\ Holds(u, t) /\ mem.active = t
  <2>1. work[u].pc \in Holding => work[u].turn \in Turns BY TurnOfRun DEF Holding
  <2>2. QED BY <1>2, <2>1 DEF HeldBy, Holds, Holding
<1>3. QED BY <1>1, <1>2 DEF RecordHeld, HeldBy

\* A bridge that is down will find its record.
DownListed == ~Up /\ ~conv.lost /\ conv.active # <<>> => conv.thread # 0

\* The record of a bridge that is up stays with a live run.
LEMMA HeldStep ==
  ASSUME TypeOK, Places, Links, DownListed, RecordHeld, [Next]_vars, Up', ~conv'.lost, conv'.active # <<>>
  PROVE  \E u \in Updates : HeldBy(u, work'[u], conv'.active, mem'.active)
<1>1. Up /\ conv.active # <<>> => \E u \in Updates : HeldBy(u, work[u], conv.active, mem.active)
  BY HeldForm, HistoryStep
<1>2. ASSUME NEW u \in Updates, work[u].pc \in Holding
      PROVE  work[u].turn \in Turns /\ turns[work[u].turn].source = u
  BY <1>2, TurnOfRun DEF Links, RunLinked, Holding
<1>3. CASE RunStep
  <2>1. PICK u \in Updates : /\ Handler(u) \/ AcceptTurn(u)
                             /\ Up /\ \A v \in Updates \ {u} : work'[v] = work[v]
    BY <1>3, OtherRuns
  <2>2. ASSUME conv'.active = conv.active, mem'.active = mem.active,
               \/ work[u].pc \notin OnTurn
               \/ work[u].pc = "starting" /\ work'[u].pc = "starting"
               \/ work[u].pc \in Holding /\ work'[u].pc \in Holding /\ work'[u].turn = work[u].turn
        PROVE  \E v \in Updates : HeldBy(v, work'[v], conv'.active, mem'.active)
    <3>1. PICK v \in Updates : HeldBy(v, work[v], conv.active, mem.active) BY <1>1, <2>1, <2>2
    <3>2. CASE v # u BY <2>1, <2>2, <3>1, <3>2
    <3>3. CASE v = u BY <2>2, <3>1, <3>3 DEF HeldBy, OnTurn, Holding
    <3>4. QED BY <3>2, <3>3
  <2>3. CASE Aside(u) BY <2>2, <2>3 DEF Aside
  <2>4. CASE Opens(u) BY <2>2, <2>4 DEF Opens, OnTurn, Holding
  <2>5. CASE Detaches(u) BY <2>5 DEF Detaches
  <2>6. CASE Begins(u) BY <2>6 DEF Begins, HeldBy
  <2>7. CASE AcceptTurn(u)
    <3>1. work[u].pc = "starting" /\ work' = [work EXCEPT ![u].reply = Len(turns) + 1] /\ UNCHANGED <<conv, mem>>
      BY <2>7 DEF AcceptTurn
    <3>2. work'[u].pc = "starting" BY <3>1, WorkFields DEF TypeOK, WorkStates
    <3>3. QED BY <2>2, <3>1, <3>2
  <2>8. CASE Drops(u)
    <3>1. /\ conv'.active = IF conv.active = <<"starting", u>> THEN <<>> ELSE conv.active
          /\ work[u].pc = "starting" /\ mem'.active = mem.active
      BY <2>8, ClearFields DEF Drops
    <3>2. conv.active # <<"starting", u>> /\ conv'.active = conv.active BY <3>1
    <3>3. PICK v \in Updates : HeldBy(v, work[v], conv.active, mem.active) BY <1>1, <2>1, <3>2
    <3>4. v # u BY <3>1, <3>2, <3>3 DEF HeldBy, Holding
    <3>5. QED BY <2>1, <3>1, <3>2, <3>3, <3>4
  <2>9. CASE Starts(u) BY <2>9 DEF Starts, HeldBy
  <2>10. CASE Keeps(u) BY <2>2, <2>10 DEF Keeps
  <2>11. CASE EndsTurn(u)
    <3> DEFINE s == work[u].turn
    <3>1. /\ conv'.active = IF conv.active = <<"turn", s>> THEN <<>> ELSE conv.active
          /\ work[u].pc \in Holding /\ mem'.active = IF mem.active = s THEN 0 ELSE mem.active
      BY <2>11, ClearFields DEF EndsTurn
    <3>2. conv.active # <<"turn", s>> /\ conv'.active = conv.active BY <3>1
    <3>3. PICK v \in Updates : HeldBy(v, work[v], conv.active, mem.active) BY <1>1, <2>1, <3>2
    <3>4. v # u BY <3>1, <3>2, <3>3 DEF HeldBy, Holding
    <3>5. work[v].pc \in Holding => work[v].turn # s BY <1>2, <3>1, <3>4
    <3> HIDE DEF s
    <3>6. HeldBy(v, work[v], conv'.active, mem'.active) BY <3>1, <3>2, <3>3, <3>5 DEF HeldBy
    <3>7. QED BY <2>1, <3>4, <3>6
  <2>12. QED BY <2>1, <2>3, <2>4, <2>5, <2>6, <2>7, <2>8, <2>9, <2>10, <2>11, RunnerShape
<1>4. ASSUME ~RunStep, Up, conv'.active = conv.active, mem'.active = mem.active, ~Crash
      PROVE  \E u \in Updates : HeldBy(u, work'[u], conv'.active, mem'.active)
  <2>1. PICK u \in Updates : HeldBy(u, work[u], conv.active, mem.active) BY <1>1, <1>4
  <2>2. work[u].pc # "idle" BY <2>1 DEF HeldBy, Holding
  <2>3. work'[u] = work[u] BY <1>4, <2>2, RunStays
  <2>4. QED BY <1>4, <2>1, <2>3
<1>5. CASE ReturnStep /\ ~RunStep /\ ~Crash
  <2>1. PICK t \in Turns : InterruptReturns(t) BY <1>5 DEF ReturnStep
  <2>2. Up /\ UNCHANGED mem /\ (conv' = conv \/ conv' = ClearActiveTurn(conv, <<"turn", t>>))
    BY <2>1 DEF InterruptReturns
  <2>3. conv'.active = conv.active BY <2>2, ClearFields
  <2>4. QED BY <1>4, <1>5, <2>2, <2>3
<1>6. CASE RecoverInterruptedTurns
  <2>1. ~Up BY <1>6 DEF RecoverInterruptedTurns, Up
  <2>2. ~conv.lost BY HistoryStep
  <2>3. CASE conv.active = <<>>
    <3>1. conv' = conv BY <1>6, <2>3 DEF RecoverInterruptedTurns
    <3>2. QED BY <2>3, <3>1
  <2>4. CASE conv.active # <<>>
    <3>1. conv.thread # 0 BY <2>1, <2>2, <2>4 DEF DownListed
    <3>2. conv' = ClearActiveTurn(conv, conv.active) BY <1>6, <2>4, <3>1 DEF RecoverInterruptedTurns
    <3>3. conv'.active = <<>> BY <3>2, ClearFields
    <3>4. QED BY <3>3
  <2>5. QED BY <2>3, <2>4
<1>7. ~Crash /\ ~Boot BY DEF Crash, Boot, Up
<1>8. CASE ~RunStep /\ UNCHANGED <<conv, mem, stage>>
  BY <1>4, <1>7, <1>8 DEF Up
<1>9. QED BY <1>3, <1>5, <1>6, <1>7, <1>8, StepKinds, Frames

\* And once more over a step.
LEMMA RecordHeldStep ==
  ASSUME TypeOK, Places, Links, DownListed, RecordHeld, [Next]_vars
  PROVE  RecordHeld'
<1>1. SUFFICES ASSUME Up', ~conv'.lost, conv'.active # <<>>
               PROVE  \E u \in Updates :
                        \/ conv'.active = <<"starting", u>> /\ work'[u].pc = "starting"
                        \/ \E t \in Turns' : conv'.active = <<"turn", t>> /\ Holds(u, t)' /\ mem'.active = t
  BY DEF RecordHeld
<1>2. PICK u \in Updates : HeldBy(u, work'[u], conv'.active, mem'.active) BY <1>1, HeldStep
<1>3. Links' BY LinksStep
<1>4. ASSUME work'[u].pc \in Holding PROVE work'[u].turn \in Turns'
  <2>1. work'[u].turn \in 0 .. Len(turns') /\ work'[u].turn # 0
    BY <1>3, <1>4 DEF Links, RunLinked, Holding
  <2>2. QED BY <2>1 DEF Turns
<1>5. CASE conv'.active = <<"starting", u>> /\ work'[u].pc = "starting" BY <1>5
<1>6. CASE conv'.active = <<"turn", work'[u].turn>> /\ work'[u].pc \in Holding /\ mem'.active = work'[u].turn
  <2>1. PICK t \in Turns' : t = work'[u].turn BY <1>4, <1>6
  <2>2. conv'.active = <<"turn", t>> /\ mem'.active = t BY <1>6, <2>1
  <2>3. Holds(u, t)' BY <1>6, <2>1 DEF Holds, Holding
  <2>4. QED BY <2>2, <2>3
<1>7. QED BY <1>2, <1>5, <1>6 DEF HeldBy

\* While the bridge is down its record does not change.
LEMMA DownStep ==
  ASSUME TypeOK, Places, [Next]_vars, ~Up', ~Crash
  PROVE  ~Up /\ UNCHANGED conv
<1>1. ~RunStep
  <2>1. ASSUME NEW u \in Updates, Handler(u) \/ AcceptTurn(u) PROVE FALSE
    <3>1. work[u].pc # "idle" /\ stage' = stage BY <2>1, HandlerMoves, HandlerFrames
    <3>2. batch.main # {} \/ batch.control # {} BY <3>1 DEF Places, InBatch
    <3>3. Up BY <3>2 DEF Places
    <3>4. QED BY <3>1, <3>3 DEF Up
  <2>2. QED BY <2>1 DEF RunStep
<1>2. ~RecoverInterruptedTurns BY DEF RecoverInterruptedTurns, Up
<1>3. ~ReturnStep BY DEF ReturnStep, InterruptReturns, Up
<1>4. Boot => ~Up /\ UNCHANGED conv BY DEF Boot, Up
<1>5. UNCHANGED <<conv, stage>> => ~Up /\ UNCHANGED conv BY DEF Up
<1>6. QED BY <1>1, <1>2, <1>3, <1>4, <1>5, StepKinds, Frames

\* What a crash leaves shows where the thread is.
LEMMA DownListedStep ==
  ASSUME TypeOK, Places, Links, Kept, RecordHeld, DownListed, [Next]_vars
  PROVE  DownListed'
<1>1. SUFFICES ASSUME ~Up', ~conv'.lost, conv'.active # <<>> PROVE conv'.thread # 0
  BY DEF DownListed
<1>2. CASE Crash /\ Up
  <2>1. /\ conv'.thread = conv.thread /\ conv.active # <<>> /\ ~conv.lost
        /\ \A u \in conv.torn : work[u].pc \in OnTurn => Listed(u)
    BY <1>1, <1>2, CrashListed
  <2>2. PICK u \in Updates : HeldBy(u, work[u], conv.active, mem.active)
    BY <1>2, <2>1, HeldForm
  <2>3. work[u].pc \in OnTurn /\ work[u].pc \in OnThread BY <2>2 DEF HeldBy, Holding, OnTurn, OnThread
  <2>4. CASE u \in conv.torn BY <2>1, <2>3, <2>4 DEF Listed
  <2>5. CASE u \notin conv.torn BY <2>1, <2>3, <2>5 DEF Kept, RunKept
  <2>6. QED BY <2>4, <2>5
<1>3. CASE Crash /\ ~Up BY <1>1, <1>3, CrashListed DEF DownListed
<1>4. CASE ~Crash BY <1>1, <1>4, DownStep DEF DownListed
<1>5. QED BY <1>2, <1>3, <1>4

-----------------------------------------------------------------------------
(***************************************************************************)
(* An update that may still be handled has at most one live turn, and the   *)
(* bridge knows it: its run, or after a crash the conversation's record.    *)
(***************************************************************************)
\* A settled row stays settled.
LEMMA RowsSettle ==
  ASSUME TypeOK, Places, [Next]_vars, NEW u \in Updates, row[u].status \in Settled
  PROVE  row'[u].status \in Settled
<1>0. row[u].status \notin {"unseen", "pending", "backoff", "processing", "lapsed"} BY DEF Settled
<1>1. ~InBatch(u) BY <1>0 DEF Places
<1>2. ASSUME row'[u] = row[u] PROVE row'[u].status \in Settled BY <1>2
<1>3. CASE RunStep
  <2>1. PICK v \in Updates : Handler(v) \/ AcceptTurn(v) BY <1>3 DEF RunStep
  <2>2. work[v].pc # "idle" BY <2>1, HandlerMoves
  <2>3. u # v BY <1>1, <2>2 DEF Places
  <2>4. Moves(v) \/ Leaves(v) BY <2>1, HandlerMoves
  <2>5. row'[u] = row[u] BY <2>3, <2>4, MovesRun, LeavesRun
  <2>6. QED BY <1>2, <2>5
<1>4. CASE DrainStep
  <2>1. \E S \in SUBSET Updates :
          /\ \A v \in S : row[v].status \in {"pending", "lapsed"}
          /\ \A v \in Updates \ S : row'[v] = row[v] \/ row'[v].status = "expired"
    BY <1>4, DrainClaims
  <2>2. row'[u] = row[u] \/ row'[u].status = "expired" BY <1>0, <2>1
  <2>3. QED BY <1>2, <2>2 DEF Settled
<1>5. CASE RowStep
  <2>1. PICK v \in Updates : BackoffEnds(v) \/ LeaseRunsOut(v) \/ Arrive(v) \/ PressButton(v)
    BY <1>5 DEF RowStep
  <2>2. row[v].status \in {"backoff", "processing", "unseen"}
    BY <2>1 DEF BackoffEnds, LeaseRunsOut, Arrive, PressButton
  <2>3. \E s : row' = [row EXCEPT ![v].status = s]
    BY <2>1 DEF BackoffEnds, LeaseRunsOut, Arrive, PressButton
  <2>4. u # v BY <1>0, <2>2
  <2>5. row'[u] = row[u] BY <2>3, <2>4 DEF TypeOK
  <2>6. QED BY <1>2, <2>5
<1>6. CASE RecoverInterruptedTurns
  <2>1. row' = row \/ row' = [row EXCEPT ![conv.source].status = "failed"]
    BY <1>6 DEF RecoverInterruptedTurns, FailUncertainSource
  <2>2. row'[u] = row[u] \/ row'[u].status = "failed" BY <2>1 DEF TypeOK
  <2>3. QED BY <1>2, <2>2 DEF Settled
<1>7. CASE UNCHANGED row BY <1>2, <1>7
<1>8. QED BY <1>3, <1>4, <1>5, <1>6, <1>7, StepKinds, Frames

\* The run w is about turn t.
Carries(w, t) == (w.pc = "starting" /\ w.reply = t) \/ (w.pc \in Holding /\ w.turn = t)

LiveHeld == ~conv.lost => \A t \in Turns, u \in Updates :
  turns[t].source = u /\ turns[t].status \notin Ended /\ row[u].status \notin Settled =>
    IF Up THEN Carries(work[u], t) ELSE conv.active # <<>> /\ conv.source = u

\* A run is about the live turn it was about, or settles its update.
LEMMA CarriedOn ==
  ASSUME TypeOK, Links, NEW u \in Updates, Handler(u) \/ AcceptTurn(u), NEW t \in Turns, t # 0,
         Carries(work[u], t), turns[t].status \notin Ended, row'[u].status \notin Settled
  PROVE  Carries(work'[u], t)
<1>1. CASE Aside(u) \/ Opens(u) \/ Detaches(u) \/ Begins(u)
  <2>1. work[u].pc \notin OnTurn
    BY <1>1 DEF Aside, Opens, Detaches, Begins, OnTurn, Holding
  <2>2. QED BY <2>1 DEF Carries, OnTurn, Holding
<1>2. CASE AcceptTurn(u)
  <2>1. work[u].pc = "starting" /\ work[u].reply = 0 BY <1>2 DEF AcceptTurn
  <2>2. QED BY <2>1 DEF Carries, Holding
<1>3. CASE Drops(u)
  <2>1. work[u].pc = "starting" /\ (work[u].reply = 0 \/ row'[u].status = "failed") BY <1>3 DEF Drops
  <2>2. QED BY <2>1 DEF Carries, Holding, Settled
<1>4. CASE Starts(u)
  <2>1. work[u].pc = "starting" /\ work'[u].pc \in Holding /\ work'[u].turn = work[u].reply
    BY <1>4 DEF Starts
  <2>2. QED BY <2>1 DEF Carries, Holding
<1>5. CASE Keeps(u) BY <1>5 DEF Keeps, Carries, Holding
<1>6. CASE EndsTurn(u)
  <2>1. work[u].pc \in Holding /\ (row'[u].status = "failed" \/ turns[work[u].turn].status \in Ended)
    BY <1>6 DEF EndsTurn
  <2>2. QED BY <2>1 DEF Carries, Holding, Settled
<1>7. QED BY <1>1, <1>2, <1>3, <1>4, <1>5, <1>6, RunnerShape

\* A crash leaves the record of the turn that a run was about.
LEMMA RecordedTurn ==
  ASSUME TypeOK, Links, Kept, NEW u \in Updates, NEW t \in Turns, Carries(work[u], t),
         turns[t].source = u, turns[t].status \notin Ended, u \in conv.torn => Listed(u)
  PROVE  conv.active # <<>> /\ conv.source = u
<1>1. t \in Nat BY TurnBounds, Bounds
<1>2. RunLinked(u, work[u], turns) BY DEF Links
<1>3. CASE conv.active = <<"starting", u>>
  BY <1>3 DEF Links, RecordLinked
<1>4. CASE conv.active = <<"turn", work[u].turn>>
  <2>1. work[u].turn \in Nat BY WorkFields
  <2>2. work[u].turn \in 1 .. Len(turns) /\ turns[work[u].turn].source = conv.source
    BY <1>4, <2>1 DEF Links, RecordLinked
  <2>3. work[u].turn # 0 BY <2>2
  <2>4. work[u].pc \in Holding BY <1>2, <2>3 DEF RunLinked, Carries
  <2>5. turns[work[u].turn].source = u BY <1>2, <2>4 DEF RunLinked, Holding
  <2>6. QED BY <1>4, <2>2, <2>5
<1>5. CASE u \in conv.torn BY <1>3, <1>4, <1>5 DEF Listed
<1>6. CASE u \notin conv.torn
  <2>1. RunKept(u, work[u], conv, turns) BY <1>6 DEF Kept
  <2>2. QED BY <1>3, <1>4, <2>1 DEF RunKept, Carries
<1>7. QED BY <1>5, <1>6

\* A turn that is live was, or was accepted just now.
LEMMA LiveTurns ==
  ASSUME TypeOK, Links, [Next]_vars, NEW t \in 1 .. Len(turns'), turns'[t].status \notin Ended
  PROVE  \/ t \in Turns /\ turns[t].status \notin Ended /\ turns[t].source = turns'[t].source
         \/ \E u \in Updates : AcceptTurn(u) /\ t = Len(turns) + 1 /\ turns'[t].source = u
<1>1. CASE t \in Turns
  <2>1. Continues(turns[t], turns'[t]) BY <1>1, TurnsStep DEF TurnsGrow
  <2>2. QED BY <1>1, <2>1 DEF Continues
<1>2. CASE t \notin Turns
  <2>1. Len(turns) \in Nat BY TurnBounds
  <2>2. ~(t <= Len(turns)) BY <1>2, <2>1 DEF Turns
  <2>3. ~SameTurns BY <2>2 DEF SameTurns
  <2>4. PICK u \in Updates : AcceptTurn(u) BY <2>3, TurnsStep
  <2>5. Len(turns') = Len(turns) + 1 /\ turns'[Len(turns) + 1].source = u BY <2>4, AcceptGrows
  <2>6. t <= Len(turns) + 1 BY <2>5
  <2>7. t = Len(turns) + 1 BY <2>1, <2>2, <2>6
  <2>8. QED BY <2>4, <2>5, <2>7
<1>3. QED BY <1>1, <1>2

\* Live turns stay known.
LEMMA LiveHeldStep ==
  ASSUME TypeOK, Places, Links, Kept, DownListed, LiveHeld, [Next]_vars
  PROVE  LiveHeld'
<1> SUFFICES ASSUME ~conv'.lost, NEW t \in Turns', NEW u \in Updates, turns'[t].source = u,
                    turns'[t].status \notin Ended, row'[u].status \notin Settled
             PROVE  IF Up' THEN Carries(work'[u], t) ELSE conv'.active # <<>> /\ conv'.source = u
  BY DEF LiveHeld
<1>0. ~conv.lost BY HistoryStep
<1>1. row[u].status \notin Settled BY RowsSettle
<1>2. t \in 1 .. Len(turns') BY DEF Turns
<1>3. CASE RunStep
  <2>1. PICK v \in Updates : /\ Handler(v) \/ AcceptTurn(v)
                             /\ Up /\ \A w \in Updates \ {v} : work'[w] = work[w]
    BY <1>3, OtherRuns
  <2>2. Up' BY <2>1, HandlerFrames DEF Up
  <2>3. CASE t \in Turns /\ turns[t].status \notin Ended /\ turns[t].source = u
    <3>1. Carries(work[u], t) BY <1>0, <1>1, <2>1, <2>3 DEF LiveHeld
    <3>2. CASE u = v
      <4>1. t # 0 BY <2>3, TurnBounds
      <4>2. Carries(work'[u], t) BY <2>1, <2>3, <3>1, <3>2, <4>1, CarriedOn
      <4>3. QED BY <2>2, <4>2
    <3>3. CASE u # v
      <4>1. work'[u] = work[u] BY <2>1, <3>3
      <4>2. QED BY <2>2, <3>1, <4>1
    <3>4. QED BY <3>2, <3>3
  <2>4. CASE AcceptTurn(u) /\ t = Len(turns) + 1
    <3>1. work[u].pc = "starting" /\ work' = [work EXCEPT ![u].reply = t] BY <2>4 DEF AcceptTurn
    <3>2. work'[u].pc = "starting" /\ work'[u].reply = t BY <3>1, WorkFields DEF TypeOK, WorkStates
    <3>3. QED BY <2>2, <3>2 DEF Carries
  <2>5. QED BY <1>2, <2>3, <2>4, LiveTurns
<1>4. CASE ~RunStep
  <2>1. t \in Turns /\ turns[t].status \notin Ended /\ turns[t].source = u
    BY <1>2, <1>4, LiveTurns DEF RunStep
  <2>2. IF Up THEN Carries(work[u], t) ELSE conv.active # <<>> /\ conv.source = u
    BY <1>0, <1>1, <2>1 DEF LiveHeld
  <2>3. CASE Crash
    <3>1. ~Up' /\ conv'.active = conv.active /\ conv'.source = conv.source
      BY <2>3, CrashListed DEF Crash, Up
    <3>2. ASSUME Up PROVE conv.active # <<>> /\ conv.source = u
      <4>1. Carries(work[u], t) BY <2>2, <3>2
      <4>2. work[u].pc \in OnTurn BY <4>1 DEF Carries, Holding, OnTurn
      <4>3. u \in conv.torn => Listed(u) BY <2>3, <4>2, CrashListed
      <4>4. QED BY <2>1, <4>1, <4>3, RecordedTurn
    <3>3. QED BY <2>2, <3>1, <3>2
  <2>4. CASE RecoverInterruptedTurns
    <3>1. ~Up BY <2>4 DEF RecoverInterruptedTurns, Up
    <3>2. conv.active # <<>> /\ conv.source = u BY <2>2, <3>1
    <3>3. conv.thread # 0 BY <1>0, <3>1, <3>2 DEF DownListed
    <3>4. FailUncertainSource(u) BY <2>4, <3>2, <3>3 DEF RecoverInterruptedTurns
    <3>5. u # 0 BY Bounds
    <3>6. row' = [row EXCEPT ![u].status = "failed"] BY <1>1, <3>4, <3>5 DEF FailUncertainSource
    <3>7. row'[u].status = "failed" BY <3>6 DEF TypeOK
    <3>8. QED BY <3>7 DEF Settled
  <2>5. CASE ~Crash /\ (Up <=> Up') /\ (Up \/ UNCHANGED conv)
    <3>1. CASE Up
      <4>1. work[u].pc # "idle" BY <2>2, <3>1 DEF Carries, Holding
      <4>2. work'[u] = work[u] BY <1>4, <2>5, <4>1, RunStays
      <4>3. QED BY <2>2, <2>5, <3>1, <4>2
    <3>2. CASE ~Up BY <2>2, <2>5, <3>2
    <3>3. QED BY <3>1, <3>2
  <2>6. ~Crash /\ ~RecoverInterruptedTurns => (Up <=> Up') /\ (Up \/ UNCHANGED conv)
    <3>1. Boot => (Up <=> Up') /\ UNCHANGED conv BY DEF Boot, Up
    <3>2. ReturnStep => Up /\ UNCHANGED stage BY DEF ReturnStep, InterruptReturns
    <3>3. ASSUME UNCHANGED <<conv, stage>> PROVE (Up <=> Up') /\ UNCHANGED conv BY <3>3 DEF Up
    <3>4. ASSUME ReturnStep PROVE (Up <=> Up') /\ Up BY <3>2, <3>4 DEF Up
    <3>5. QED BY <1>4, <3>1, <3>3, <3>4, StepKinds, Frames
  <2>7. QED BY <2>3, <2>4, <2>5, <2>6
<1>5. QED BY <1>3, <1>4

\* One live turn stays one.
LEMMA OneLiveStep ==
  ASSUME TypeOK, Places, Links, LiveHeld, OneLiveTurnUnlessLost, [Next]_vars
  PROVE  OneLiveTurnUnlessLost'
<1> SUFFICES ASSUME ~conv'.lost PROVE OneLiveTurn' BY DEF OneLiveTurnUnlessLost
<1>0. ~conv.lost BY HistoryStep
<1>1. ASSUME NEW u \in Updates, AcceptTurn(u), NEW s \in Turns, turns[s].source = u
      PROVE  turns[s].status \in Ended
  <2>1. work[u].pc = "starting" /\ work[u].reply = 0 BY <1>1 DEF AcceptTurn
  <2>2. InBatch(u) BY <2>1 DEF Places
  <2>3. row[u].status \notin Settled BY <2>2 DEF Places, Settled
  <2>4. Up BY <2>2 DEF Places, InBatch
  <2>5. s # 0 BY TurnBounds
  <2>6. ~Carries(work[u], s) BY <2>1, <2>5 DEF Carries, Holding
  <2>7. QED BY <1>0, <1>1, <2>3, <2>4, <2>6 DEF LiveHeld
<1> SUFFICES ASSUME NEW s \in Turns', NEW t \in Turns', s # t, turns'[s].source = turns'[t].source,
                    turns'[s].status \notin Ended, turns'[t].status \notin Ended
             PROVE  FALSE
  BY DEF OneLiveTurn
<1>2. s \in 1 .. Len(turns') /\ t \in 1 .. Len(turns') BY DEF Turns
<1>3. \/ s \in Turns /\ turns[s].status \notin Ended /\ turns[s].source = turns'[s].source
      \/ \E u \in Updates : AcceptTurn(u) /\ s = Len(turns) + 1 /\ turns'[s].source = u
  BY <1>2, LiveTurns
<1>4. \/ t \in Turns /\ turns[t].status \notin Ended /\ turns[t].source = turns'[t].source
      \/ \E u \in Updates : AcceptTurn(u) /\ t = Len(turns) + 1 /\ turns'[t].source = u
  BY <1>2, LiveTurns
<1>5. QED BY <1>0, <1>1, <1>3, <1>4 DEF OneLiveTurn, OneLiveTurnUnlessLost

-----------------------------------------------------------------------------
(***************************************************************************)
(* The invariant and what it gives.                                        *)
(***************************************************************************)
TurnsInv ==
  DirectInv /\ Kept /\ DownListed /\ RecordHeld /\ LiveHeld /\ OneLiveTurnUnlessLost

\* No update has been handled yet.
LEMMA TurnsInit ==
  ASSUME Init
  PROVE  TurnsInv
<1>1. DirectInv BY DirectInit
<1>2. /\ \A u \in Updates : work[u].pc = "idle" /\ work[u].turn = 0
      /\ conv.active = <<>> /\ Turns = {} /\ Up
  BY DEF Init, Idle, Turns, Up
<1>3. Kept BY <1>2 DEF Kept, RunKept, Holding, OnThread, OnTurn
<1>4. DownListed BY <1>2 DEF DownListed
<1>5. RecordHeld /\ LiveHeld /\ OneLiveTurnUnlessLost
  BY <1>2 DEF RecordHeld, LiveHeld, OneLiveTurn, OneLiveTurnUnlessLost
<1>6. QED BY <1>1, <1>3, <1>4, <1>5 DEF TurnsInv

\* Every step keeps it.
LEMMA TurnsStepInv ==
  ASSUME TurnsInv, [Next]_vars
  PROVE  TurnsInv'
<1>1. DirectInv' BY DirectStep DEF TurnsInv
<1>2. TypeOK /\ Places /\ Links BY DEF TurnsInv, DirectInv
<1>3. Kept' BY <1>2, KeptStep DEF TurnsInv
<1>4. DownListed' BY <1>2, DownListedStep DEF TurnsInv
<1>5. RecordHeld' BY <1>2, RecordHeldStep DEF TurnsInv
<1>6. LiveHeld' BY <1>2, LiveHeldStep DEF TurnsInv
<1>7. OneLiveTurnUnlessLost' BY <1>2, OneLiveStep DEF TurnsInv
<1>8. QED BY <1>1, <1>3, <1>4, <1>5, <1>6, <1>7 DEF TurnsInv

\* So it always holds.
LEMMA TurnsHold == Spec => []TurnsInv
<1>1. Init => TurnsInv BY TurnsInit
<1>2. TurnsInv /\ [Next]_vars => TurnsInv' BY TurnsStepInv
<1>3. QED BY <1>1, <1>2, PTL DEF Spec

\* A turn that the conversation records belongs to a live run while the bridge is
\* up, which clears it: no stale record makes beginActiveTurn refuse every later
\* turn.  The one exception is a bridge that died while a turn ran whose thread another
\* run had detached, and the record did not show it (conv.lost).
THEOREM TurnsAreRecorded == Spec => []RecordHeld
<1>1. TurnsInv => RecordHeld BY DEF TurnsInv
<1>2. QED BY <1>1, TurnsHold, PTL

\* No update has two live turns at the app-server: one that is tried again has had
\* its turn end, or be failed as uncertain by the restart that found the record.  The
\* one exception is the crash of the finding, after a detach under a running turn.
THEOREM OneTurnLives == Spec => []OneLiveTurnUnlessLost
<1>1. TurnsInv => OneLiveTurnUnlessLost BY DEF TurnsInv
<1>2. QED BY <1>1, TurnsHold, PTL
=============================================================================
