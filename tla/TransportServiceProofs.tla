----------------------- MODULE TransportServiceProofs -----------------------
(***************************************************************************)
(* The transport service for any updates, answers of any length, and any   *)
(* number of crashes and restarts: what the outbound table promises holds   *)
(* here too, no Bot API call is made twice, chunks arrive in order, and the *)
(* control row never claims more than Telegram has confirmed.               *)
(* The last needs the invariant to speak of three rows: the one in the      *)
(* store and the copies that the service and a relay are about to write.    *)
(***************************************************************************)
EXTENDS TransportServiceProps, TLAPS

-----------------------------------------------------------------------------
(***************************************************************************)
(* The outbound table.  Table has the lemmas of OutboundStoreProofs; its    *)
(* operators are those of Outbound.                                        *)
(***************************************************************************)
Table == INSTANCE OutboundStoreProofs WITH Group <- GroupOf, Index <- IndexOf

\* The rows of Outbound are those of Table.
LEMMA SameRows ==
  /\ Outbound!OutboundTypeOK <=> Table!OutboundTypeOK
  /\ Outbound!Init <=> Table!Init
  /\ \A s, d : Outbound!Row(s, d) = Table!Row(s, d)
  /\ \A s : Outbound!With(s) = Table!With(s)
  /\ \A a : Outbound!Before(a) = Table!Before(a)
  /\ \A S, row : Outbound!SetRows(S, row) <=> Table!SetRows(S, row)
<1>1. \A s, d : Outbound!Row(s, d) = Table!Row(s, d) BY DEF Outbound!Row, Table!Row
<1>2. \A s : Outbound!With(s) = Table!With(s) BY DEF Outbound!With, Table!With
<1>3. \A a : Outbound!Before(a) = Table!Before(a) BY DEF Outbound!Before, Table!Before
<1>4. \A S, row : Outbound!SetRows(S, row) <=> Table!SetRows(S, row)
  BY DEF Outbound!SetRows, Table!SetRows
<1>5. Outbound!OutboundTypeOK <=> Table!OutboundTypeOK
  BY DEF Outbound!OutboundTypeOK, Table!OutboundTypeOK, Outbound!OutboundRows, Table!OutboundRows
<1>6. Outbound!Init <=> Table!Init BY <1>1 DEF Outbound!Init, Table!Init
<1>7. QED BY <1>1, <1>2, <1>3, <1>4, <1>5, <1>6

\* So are the statements on it.
LEMMA SameSteps == Outbound!Next <=> Table!Next
<1>1. Outbound!Waiting = Table!Waiting BY SameRows DEF Outbound!Waiting, Table!Waiting
<1>2. Outbound!Claimable = Table!Claimable
  BY <1>1, SameRows DEF Outbound!Claimable, Table!Claimable, Outbound!Due, Table!Due
<1>3. \A S : Outbound!CreateOutboundActions(S) <=> Table!CreateOutboundActions(S)
  BY SameRows DEF Outbound!CreateOutboundActions, Table!CreateOutboundActions
<1>4. \A S : Outbound!ClaimDueOutboundActions(S) <=> Table!ClaimDueOutboundActions(S)
  <2>1. \A S : Outbound!Cardinality(S) = Table!Cardinality(S)
    BY DEF Outbound!Cardinality, Table!Cardinality
  <2>2. QED
    BY <1>2, <2>1 DEF Outbound!ClaimDueOutboundActions, Table!ClaimDueOutboundActions
<1>5. \A S : Outbound!SupersedeOutboundActions(S) <=> Table!SupersedeOutboundActions(S)
  BY <1>1, SameRows DEF Outbound!SupersedeOutboundActions, Table!SupersedeOutboundActions
<1>6. \A a : /\ Outbound!MarkOutboundSent(a) <=> Table!MarkOutboundSent(a)
             /\ Outbound!MarkOutboundAmbiguous(a) <=> Table!MarkOutboundAmbiguous(a)
  BY SameRows DEF Outbound!MarkOutboundSent, Table!MarkOutboundSent,
     Outbound!MarkOutboundAmbiguous, Table!MarkOutboundAmbiguous
<1>7. \A a, due : Outbound!MarkOutboundFailed(a, due) <=> Table!MarkOutboundFailed(a, due)
  BY SameRows DEF Outbound!MarkOutboundFailed, Table!MarkOutboundFailed
<1>8. \A a : Outbound!RetryComesDue(a) <=> Table!RetryComesDue(a)
  BY <1>1, SameRows DEF Outbound!RetryComesDue, Table!RetryComesDue
<1>9. Outbound!RecoverInterruptedOutboundActions <=> Table!RecoverInterruptedOutboundActions
  BY SameRows DEF Outbound!RecoverInterruptedOutboundActions, Table!RecoverInterruptedOutboundActions
<1>10. QED
  BY <1>3, <1>4, <1>5, <1>6, <1>7, <1>8, <1>9 DEF Outbound!Next, Table!Next

\* A timer runs out.
TimePasses == \E a \in Acks : TimerRunsOut(a)

-----------------------------------------------------------------------------
(***************************************************************************)
(* The invariant.                                                          *)
(***************************************************************************)
\* Where the worker loop is, or goes on once the control row is written.
Resumes == IF At("write") THEN svc.then ELSE svc.pc

\* Places the loop comes to only by the step before them.
Stops == {"write", "mark", "hook"}

\* A batch is held only while it is processed.
Loop ==
  /\ svc.then \notin Stops
  /\ svc.pc # "down" => boots >= 1
  /\ polling => boots >= 1
  /\ svc.batch # {} => Resumes \in {"process", "acknowledge", "complete", "release"}

\* Only a crash in the middle of a batch costs an update an attempt beyond
\* MaxAttempts, and each crash only one.
AttemptsCounted ==
  \A u \in Updates :
    LET n == update[u].attempts
        status == update[u].status
    IN  /\ u \in svc.batch => status = "processing"
        /\ n <= MaxAttempts + boots - 1
        /\ status = "absent" => n = 0
        /\ status = "processing" => n >= 1
        /\ status = "pending" => boots >= 1 /\ n <= MaxAttempts + boots - 2
        /\ status = "processing" /\ u \notin svc.batch /\ svc.pc # "down"
             => n <= MaxAttempts + boots - 2

\* What Telegram may have seen of an action, and what may still be sent.
CallsOnce ==
  /\ \A a \in Actions :
       LET status == action[a].status
       IN  /\ delivered[a] <= 1
           /\ status = "sent" => delivered[a] = 1
           /\ status \in {"absent", "pending"} \/ (status = "failed" /\ action[a].due # "never")
                => delivered[a] = 0
           /\ a \in svc.sends => status = "sending" /\ delivered[a] = 0
           /\ delivered[a] > 0 => Table!Before(a) \subseteq Table!With("sent")
  /\ At("mark") =>
       /\ svc.current \in Actions /\ svc.current \notin svc.sends
       /\ action[svc.current].status = "sending"
       /\ svc.outcome \in Outcomes
       /\ (svc.outcome = "ok" => delivered[svc.current] = 1)
       /\ (svc.outcome = "rate_limited" => delivered[svc.current] = 0)
  /\ At("hook") => svc.current \in Actions

\* A timer that runs, or ran, because the reply to its /away arrived.
Confirmed(timer) == timer \in Acks /\ Kind[timer[1]] = "away" /\ action[timer].status = "sent"

\* A control row that claims no more than Telegram has confirmed.
Truthful(row) ==
  /\ row.disengage.phase # "none" => row.disengage.ack \in Acks
  /\ row.disengage.phase = "active" => action[row.disengage.ack].status = "sent"
  /\ row.away.phase # "none" => row.away.ack \in Acks
  /\ row.away.phase = "pending" => Kind[row.away.ack[1]] = "away"
  /\ row.away.phase = "none" => row.away.until = None
  /\ row.away.phase = "active" => row.away.until # None
  /\ row.away.until # None => Confirmed(row.away.until)

CopiesTruthful == Truthful(control) /\ Truthful(svc.row) /\ Truthful(relay.row)

\* The row that the service is about to write is a step from the one in the
\* store, as long as no relay has written that.
StagedAway ==
  /\ relay.heard = {} => relay.pc = "idle"
  /\ At("write") /\ relay.heard = {}
       => svc.row.away = control.away \/ AwayStep(control.away, svc.row.away)

QuietExit == Resumes \in {"exit", "exited"} => Queued = {}

ServiceInv ==
  /\ TypeOK
  /\ Table!OutboundInv
  /\ Loop /\ AttemptsCounted /\ CallsOnce /\ CopiesTruthful /\ StagedAway /\ QuietExit

-----------------------------------------------------------------------------
(***************************************************************************)
(* Every step is one that the outbound table allows.                       *)
(***************************************************************************)
\* The acknowledgement of a command is a group of its own.
LEMMA AckIsGroup ==
  ASSUME NEW u \in Updates \ Messages
  PROVE  {<<u, 0>>} = {a \in Actions : GroupOf[a] = u} /\ <<u, 0>> \in Acks
<1>1. <<u, 0>> \in Acks BY DEF Acks
<1>2. ASSUME NEW a \in Actions, a[1] = u PROVE a = <<u, 0>>
  <2>1. a \notin Messages \X (1..Chunks) BY <1>2
  <2>2. a \in Acks BY <2>1 DEF Actions
  <2>3. QED BY <1>2, <2>2 DEF Acks
<1>3. <<u, 0>> \in Actions BY <1>1 DEF Actions
<1>4. QED BY <1>1, <1>2, <1>3 DEF GroupOf

\* Every group is named by one of its actions.
LEMMA GroupIsNamed ==
  ASSUME NEW u \in Updates
  PROVE  u \in {GroupOf[a] : a \in Actions}
<1>1. CASE u \in Messages
  <2>1. 1 \in 1..Chunks BY TransportServiceAssumption DEF TransportServiceAssumption
  <2>2. <<u, 1>> \in Actions BY <1>1, <2>1 DEF Actions
  <2>3. GroupOf[<<u, 1>>] = u BY <2>2 DEF GroupOf
  <2>4. QED BY <2>2, <2>3
<1>2. CASE u \notin Messages
  <2>1. <<u, 0>> \in Actions BY <1>2 DEF Actions, Acks
  <2>2. GroupOf[<<u, 0>>] = u BY <2>1 DEF GroupOf
  <2>3. QED BY <2>1, <2>2
<1>3. QED BY <1>1, <1>2

\* The actions of one update are created together.
LEMMA CreateRefines ==
  ASSUME NEW u \in Updates,
         Outbound!CreateOutboundActions({a \in Actions : GroupOf[a] = u})
  PROVE  Outbound!Next
BY GroupIsNamed DEF Outbound!Next

\* Every step of the system is one of them, or leaves the table alone.
LEMMA OutboundRefines ==
  ASSUME ServiceInv, [Next]_vars
  PROVE  [Outbound!Next]_action
<1>1. ASSUME UNCHANGED action PROVE [Outbound!Next]_action BY <1>1
<1>2. CASE UNCHANGED vars BY <1>2 DEF vars
<1>3. CASE Boot BY <1>3 DEF Boot, Outbound!Next
<1>4. ASSUME NEW u \in Updates, Acknowledge(u) PROVE [Outbound!Next]_action
  <2>1. CASE u \notin Messages
    <3>1. Outbound!CreateOutboundActions({<<u, 0>>}) BY <1>4 DEF Acknowledge
    <3>2. QED BY <2>1, <3>1, AckIsGroup, CreateRefines
  <2>2. CASE u \in Messages
    <3>1. <<u, 0>> \notin Actions BY <2>2 DEF Actions, Acks
    <3>2. {<<u, 0>>} \cap Outbound!With("absent") = {} BY <3>1 DEF Outbound!With
    <3>3. action' = [a \in Actions |-> action[a]]
      BY <1>4, <3>2 DEF Acknowledge, Outbound!CreateOutboundActions, Outbound!SetRows
    <3>4. action' = action BY <3>3 DEF ServiceInv, TypeOK, Outbound!OutboundTypeOK
    <3>5. QED BY <3>4
  <2>3. QED BY <2>1, <2>2
<1>5. CASE Drain BY <1>5 DEF Drain, Outbound!Next
<1>6. CASE Mark
  <2>1. svc.current \in Actions BY <1>6 DEF Mark, ServiceInv, CallsOnce
  <2>2. QED BY <1>6, <2>1 DEF Mark, Outbound!Next
<1>7. CASE RetryComesDue BY <1>7 DEF RetryComesDue, Outbound!Next
<1>8. CASE AnswerJob
  <2>1. PICK u \in Messages :
          UNCHANGED action \/ Outbound!CreateOutboundActions({a \in Actions : GroupOf[a] = u})
    BY <1>8 DEF AnswerJob
  <2>2. u \in Updates BY DEF Messages
  <2>3. QED BY <2>1, <2>2, CreateRefines
<1>9. ASSUME \/ Recover \/ Start \/ Crash \/ Engage \/ Top \/ CountActions \/ CountJobs \/ Exit \/ WriteControl
             \/ RecoverLeases \/ ClearExpiredAway \/ ClaimUpdates
             \/ (\E a \in Actions : Send(a)) \/ Hook \/ Drained
             \/ RunJob \/ DropJob \/ ReadInterrupts \/ WriteInterrupts \/ RelayEnds
             \/ (\E u \in Updates : SendInterrupt(u) \/ StoreUpdate(u)) \/ TimePasses
      PROVE  UNCHANGED action
  BY <1>9 DEF Recover, Start, Crash, Engage, Top, CountActions, CountJobs, Exit, WriteControl, RecoverLeases,
     ClearExpiredAway, ClaimUpdates, Send, Hook, Drained, RunJob, DropJob, ReadInterrupts,
     WriteInterrupts, RelayEnds, SendInterrupt, StoreUpdate, TimePasses, TimerRunsOut
<1>10. ASSUME NEW u \in Updates,
              \/ EnqueueJob(u) \/ FailUpdate(u) \/ ReleaseAway(u) \/ ReleaseUpdate(u)
              \/ HandleCommand(u) \/ CompleteUpdate(u)
       PROVE  UNCHANGED action
  BY <1>10 DEF EnqueueJob, FailUpdate, ReleaseAway, ReleaseUpdate, HandleCommand, CompleteUpdate
<1>11. CASE Next
  <2>1. ASSUME Service PROVE [Outbound!Next]_action
    BY <2>1, <1>4, <1>5, <1>6, <1>9, <1>10 DEF Service, Intake, Delivery
  <2>2. ASSUME Relay PROVE [Outbound!Next]_action
    BY <2>2, <1>8, <1>9 DEF Relay
  <2>3. QED BY <1>11, <2>1, <2>2, <1>3, <1>7, <1>9 DEF Next, TimePasses
<1>12. QED BY <1>2, <1>11

-----------------------------------------------------------------------------
(***************************************************************************)
(* The program counter of the worker loop.                                 *)
(***************************************************************************)
\* A step of the loop to one of the places P, by way of a write of the row or not.
Onward(P) ==
  /\ svc' \in SvcStates /\ svc'.then \notin Stops
  /\ svc'.pc \in P \cup {"write"} /\ svc'.pc \notin {"mark", "hook"} /\ Resumes' \in P
  /\ svc'.batch = svc.batch /\ svc'.sends = svc.sends
  /\ svc'.current = svc.current /\ svc'.outcome = svc.outcome

\* A plain jump goes onward.
LEMMA GoOnward ==
  ASSUME svc \in SvcStates, svc.then \notin Stops, NEW p \in SvcPcs \ Stops, Go(p)
  PROVE  Onward({p}) /\ svc'.row = svc.row
<1>1. svc' = [svc EXCEPT !.pc = p] BY DEF Go
<1>2. svc' \in SvcStates BY <1>1 DEF SvcStates
<1>3. /\ svc'.pc = p /\ svc'.then = svc.then /\ svc'.row = svc.row /\ svc'.batch = svc.batch
      /\ svc'.sends = svc.sends /\ svc'.current = svc.current /\ svc'.outcome = svc.outcome
  BY <1>1 DEF SvcStates
<1>4. Resumes' = p BY <1>3 DEF Resumes, At, Stops
<1>5. QED BY <1>2, <1>3, <1>4 DEF Onward, Stops

\* So does one that first writes the control row.
LEMMA WriteOnward ==
  ASSUME ServiceInv, NEW p \in SvcPcs \ Stops, NEW row \in ControlRows,
         svc' = [svc EXCEPT !.pc = "write", !.then = p, !.row = row]
  PROVE  Onward({p}) /\ svc'.row = row
<1>0. svc \in SvcStates BY DEF ServiceInv, TypeOK
<1>1. svc' \in SvcStates BY <1>0 DEF SvcStates, SvcPcs, Stops
<1>2. /\ svc'.pc = "write" /\ svc'.then = p /\ svc'.row = row /\ svc'.batch = svc.batch
      /\ svc'.sends = svc.sends /\ svc'.current = svc.current /\ svc'.outcome = svc.outcome
  BY <1>0 DEF SvcStates
<1>3. Resumes' = p BY <1>2 DEF Resumes, At, Stops
<1>4. QED BY <1>1, <1>2, <1>3 DEF Onward, Stops

\* So does a jump that may first write the control row.
LEMMA StageOnward ==
  ASSUME svc \in SvcStates, svc.then \notin Stops, NEW p \in SvcPcs \ Stops,
         NEW row \in ControlRows, Stage(row, p)
  PROVE  Onward({p}) /\ svc'.row \in {svc.row, row}
<1>1. CASE row = control
  <2>1. Go(p) BY <1>1 DEF Stage, Go
  <2>2. QED BY <2>1, GoOnward
<1>2. CASE row # control
  <2>1. svc' = [svc EXCEPT !.pc = "write", !.then = p, !.row = row] BY <1>2 DEF Stage
  <2>2. svc' \in SvcStates BY <2>1 DEF SvcStates, SvcPcs, Stops
  <2>3. /\ svc'.pc = "write" /\ svc'.then = p /\ svc'.row = row /\ svc'.batch = svc.batch
        /\ svc'.sends = svc.sends /\ svc'.current = svc.current /\ svc'.outcome = svc.outcome
    BY <2>1 DEF SvcStates
  <2>4. Resumes' = p BY <2>3 DEF Resumes, At, Stops
  <2>5. QED BY <2>2, <2>3, <2>4 DEF Onward, Stops
<1>3. QED BY <1>1, <1>2

AwayRows == [phase : {"none", "pending", "active"}, ack : Acks \cup {None}, until : Acks \cup {None}]
DisengageRows == [phase : {"none", "pending", "active"}, ack : Acks \cup {None}, ready : BOOLEAN]

\* The entries of a control row.
LEMMA RowTypes ==
  /\ NoControl \in ControlRows /\ NoAway \in AwayRows /\ NoDisengage \in DisengageRows
  /\ \A row \in ControlRows : row.away \in AwayRows /\ row.disengage \in DisengageRows
BY DEF NoControl, ControlRows, NoAway, NoDisengage, AwayRows, DisengageRows

\* One entry of the row is replaced.
LEMMA RowFields ==
  ASSUME NEW row \in ControlRows, NEW w \in AwayRows, NEW d \in DisengageRows,
         NEW S \in SUBSET Updates
  PROVE  /\ [row EXCEPT !.away = w] \in ControlRows
         /\ [row EXCEPT !.away = w].away = w /\ [row EXCEPT !.away = w].disengage = row.disengage
         /\ [row EXCEPT !.disengage = d] \in ControlRows
         /\ [row EXCEPT !.disengage = d].away = row.away
         /\ [row EXCEPT !.disengage = d].disengage = d
         /\ [row EXCEPT !.interrupts = S] \in ControlRows
         /\ [row EXCEPT !.interrupts = S].away = row.away
         /\ [row EXCEPT !.interrupts = S].disengage = row.disengage
BY DEF ControlRows, AwayRows, DisengageRows

\* The state of a process that has just started.
LEMMA IdleTypes ==
  /\ Idle \in SvcStates /\ Idle.then \notin Stops /\ Idle.pc = "down"
  /\ Idle.batch = {} /\ Idle.sends = {} /\ Idle.row = NoControl
BY RowTypes DEF Idle, SvcStates, SvcPcs, Stops

\* What becomes of the row when a reply has been sent.
LEMMA AckSentCases ==
  ASSUME NEW row, NEW a
  PROVE  \/ /\ row.away.phase = "pending" /\ row.away.ack = a
            /\ AckSent(row, a) = [row EXCEPT !.away = [phase |-> "active", ack |-> a, until |-> a]]
         \/ /\ row.disengage.phase = "pending" /\ row.disengage.ack = a
            /\ AckSent(row, a) = [row EXCEPT !.disengage.phase = "active"]
         \/ AckSent(row, a) = row
BY DEF AckSent

\* And when it was lost.
LEMMA AckTerminalCases ==
  ASSUME NEW row, NEW a
  PROVE  \/ /\ row.away.phase = "pending" /\ row.away.ack = a /\ row.away.until # None
            /\ AckTerminal(row, a) = [row EXCEPT !.away.phase = "active"]
         \/ /\ row.away.phase = "pending" /\ row.away.ack = a /\ row.away.until = None
            /\ AckTerminal(row, a) = [row EXCEPT !.away = NoAway]
         \/ AckTerminal(row, a) = [row EXCEPT !.disengage = NoDisengage]
         \/ AckTerminal(row, a) = row
<1>1. CASE /\ row.away.phase = "pending" /\ row.away.ack = a
           /\ row.disengage.phase = "pending" /\ row.disengage.ack = a
  BY <1>1 DEF AckTerminal
<1>2. CASE /\ row.away.phase = "pending" /\ row.away.ack = a
           /\ ~(row.disengage.phase = "pending" /\ row.disengage.ack = a)
  BY <1>2 DEF AckTerminal
<1>3. CASE ~(row.away.phase = "pending" /\ row.away.ack = a)
  BY <1>3 DEF AckTerminal
<1>4. QED BY <1>1, <1>2, <1>3

\* Both are control rows.
LEMMA AckTypes ==
  ASSUME NEW row \in ControlRows, NEW a
  PROVE  AckSent(row, a) \in ControlRows /\ AckTerminal(row, a) \in ControlRows
<1> DEFINE own == [phase |-> "active", ack |-> a, until |-> a]
           old == [row.away EXCEPT !.phase = "active"]
<1>1. row.away \in AwayRows /\ row.disengage \in DisengageRows BY RowTypes
<1>2. row.away.ack = a => own \in AwayRows BY <1>1 DEF AwayRows
<1>3. old \in AwayRows BY <1>1 DEF AwayRows
<1>4. [row.disengage EXCEPT !.phase = "active"] \in DisengageRows BY <1>1 DEF DisengageRows
<1>5. [row EXCEPT !.away.phase = "active"] = [row EXCEPT !.away = old] OBVIOUS
<1> HIDE DEF own, old
<1>6. row.away.ack = a => [row EXCEPT !.away = own] \in ControlRows BY <1>2, RowFields, RowTypes
<1>7. [row EXCEPT !.away = old] \in ControlRows BY <1>3, RowFields, RowTypes
<1>8. [row EXCEPT !.disengage.phase = "active"] \in ControlRows BY <1>4, RowFields, RowTypes
<1>9. [row EXCEPT !.away = NoAway] \in ControlRows /\ [row EXCEPT !.disengage = NoDisengage] \in ControlRows
  BY RowFields, RowTypes
<1>10. AckSent(row, a) \in ControlRows BY <1>6, <1>8, AckSentCases DEF own
<1>11. AckTerminal(row, a) \in ControlRows BY <1>5, <1>7, <1>9, AckTerminalCases
<1>12. QED BY <1>10, <1>11

\* The hook stages one of these.
LEMMA SettleCases ==
  ASSUME NEW a, NEW then, SettleAck(a, then)
  PROVE  \/ action[a].status = "sent" /\ Stage(AckSent(control, a), then)
         \/ action[a].status # "sent" /\ Stage(AckTerminal(control, a), then)
         \/ Stage(control, then)
<1>1. ~(action[a].status = "sent" /\ Lost(a)) BY DEF Lost, Outbound!GivenUp, Outbound!Row
<1>2. CASE action[a].status = "sent" /\ ~Lost(a) BY <1>2 DEF SettleAck
<1>3. CASE action[a].status # "sent" BY <1>3 DEF SettleAck
<1>4. QED BY <1>1, <1>2, <1>3

-----------------------------------------------------------------------------
(***************************************************************************)
(* Rows that claim no more than Telegram has confirmed.                    *)
(***************************************************************************)
LEMMA NoControlTruthful == Truthful(NoControl)
BY DEF Truthful, NoControl, NoAway, NoDisengage

\* One entry of a truthful row is replaced by a truthful one.
LEMMA TruthfulAway ==
  ASSUME NEW row \in ControlRows, Truthful(row), NEW w \in AwayRows,
         w.phase # "none" => w.ack \in Acks,
         w.phase = "pending" => Kind[w.ack[1]] = "away",
         w.phase = "none" => w.until = None,
         w.phase = "active" => w.until # None,
         w.until # None => Confirmed(w.until)
  PROVE  Truthful([row EXCEPT !.away = w])
<1>1. /\ [row EXCEPT !.away = w].away = w
      /\ [row EXCEPT !.away = w].disengage = row.disengage
  BY RowFields, RowTypes
<1>2. QED BY <1>1 DEF Truthful

\* The same for disengage.
LEMMA TruthfulDisengage ==
  ASSUME NEW row \in ControlRows, Truthful(row), NEW d \in DisengageRows,
         d.phase # "none" => d.ack \in Acks,
         d.phase = "active" => action[d.ack].status = "sent"
  PROVE  Truthful([row EXCEPT !.disengage = d])
<1>1. /\ [row EXCEPT !.disengage = d].away = row.away
      /\ [row EXCEPT !.disengage = d].disengage = d
  BY RowFields, RowTypes
<1>2. QED BY <1>1 DEF Truthful

\* Interrupt requests claim nothing.
LEMMA TruthfulInterrupts ==
  ASSUME NEW row \in ControlRows, Truthful(row), NEW S \in SUBSET Updates
  PROVE  Truthful([row EXCEPT !.interrupts = S])
<1>1. /\ [row EXCEPT !.interrupts = S].away = row.away
      /\ [row EXCEPT !.interrupts = S].disengage = row.disengage
  BY RowFields, RowTypes
<1>2. QED BY <1>1 DEF Truthful

\* A reply that arrived makes true what the row then says.
LEMMA AckSentTruthful ==
  ASSUME NEW row \in ControlRows, Truthful(row), NEW a, action[a].status = "sent"
  PROVE  Truthful(AckSent(row, a))
<1>0. row.away \in AwayRows /\ row.disengage \in DisengageRows BY RowTypes
<1> DEFINE own == [phase |-> "active", ack |-> a, until |-> a]
<1>1. CASE /\ row.away.phase = "pending" /\ row.away.ack = a
           /\ AckSent(row, a) = [row EXCEPT !.away = own]
  <2>1. a \in Acks /\ Kind[a[1]] = "away" BY <1>1 DEF Truthful
  <2>2. Confirmed(a) BY <2>1 DEF Confirmed
  <2>3. a # None BY <2>1, TransportServiceAssumption DEF TransportServiceAssumption
  <2>4. own \in AwayRows BY <2>1 DEF AwayRows
  <2>5. own.phase = "active" /\ own.ack = a /\ own.until = a OBVIOUS
  <2> HIDE DEF own
  <2>6. QED BY <1>1, <2>1, <2>2, <2>3, <2>4, <2>5, TruthfulAway
<1>2. CASE /\ row.disengage.phase = "pending" /\ row.disengage.ack = a
           /\ AckSent(row, a) = [row EXCEPT !.disengage.phase = "active"]
  <2> DEFINE d == [row.disengage EXCEPT !.phase = "active"]
  <2>1. d \in DisengageRows /\ d.phase = "active" /\ d.ack = a BY <1>0, <1>2 DEF DisengageRows
  <2>2. a \in Acks BY <1>2 DEF Truthful
  <2>3. AckSent(row, a) = [row EXCEPT !.disengage = d] BY <1>2
  <2> HIDE DEF d
  <2>4. QED BY <2>1, <2>2, <2>3, TruthfulDisengage
<1>3. CASE AckSent(row, a) = row BY <1>3
<1>4. QED BY <1>1, <1>2, <1>3, AckSentCases

\* A reply that was lost makes the row claim less.
LEMMA AckTerminalTruthful ==
  ASSUME NEW row \in ControlRows, Truthful(row), NEW a
  PROVE  Truthful(AckTerminal(row, a))
<1>1. CASE /\ row.away.phase = "pending" /\ row.away.ack = a /\ row.away.until # None
           /\ AckTerminal(row, a) = [row EXCEPT !.away.phase = "active"]
  <2> DEFINE old == [row.away EXCEPT !.phase = "active"]
  <2>1. a \in Acks /\ Confirmed(row.away.until) BY <1>1 DEF Truthful
  <2>2. row.away \in AwayRows BY RowTypes
  <2>3. old \in AwayRows /\ old.phase = "active" /\ old.ack = a /\ old.until = row.away.until
    BY <1>1, <2>2 DEF AwayRows
  <2>4. AckTerminal(row, a) = [row EXCEPT !.away = old] BY <1>1
  <2> HIDE DEF old
  <2>5. QED BY <1>1, <2>1, <2>3, <2>4, TruthfulAway
<1>2. Truthful([row EXCEPT !.away = NoAway])
  <2>1. NoAway \in AwayRows /\ NoAway.phase = "none" /\ NoAway.until = None
    BY RowTypes DEF NoAway
  <2>2. QED BY <2>1, TruthfulAway
<1>3. Truthful([row EXCEPT !.disengage = NoDisengage])
  <2>1. NoDisengage \in DisengageRows /\ NoDisengage.phase = "none" BY RowTypes DEF NoDisengage
  <2>2. QED BY <2>1, TruthfulDisengage
<1>4. QED BY <1>1, <1>2, <1>3, AckTerminalCases

\* The row that a command asks for.
LEMMA RequestedTruthful ==
  ASSUME control \in ControlRows, Truthful(control), NEW u \in Updates \ Messages
  PROVE  Requested(u) \in ControlRows /\ Truthful(Requested(u))
<1> DEFINE row == Requested(u)
<1> SUFFICES row \in ControlRows /\ Truthful(row) BY DEF row
<1> HIDE DEF row
<1>0. control.away \in AwayRows /\ control.disengage \in DisengageRows
      /\ control.interrupts \in SUBSET Updates
  BY RowTypes DEF ControlRows
<1>1. CASE row = [control EXCEPT !.interrupts = @ \cup {u}]
  <2>1. control.interrupts \cup {u} \in SUBSET Updates BY <1>0
  <2>2. QED BY <1>1, <2>1, RowFields, RowTypes, TruthfulInterrupts
<1>2. <<u, 0>> \in Acks BY AckIsGroup
<1>3. CASE row = [control EXCEPT !.disengage = [phase |-> "pending", ack |-> <<u, 0>>, ready |-> FALSE]]
  <2> DEFINE d == [phase |-> "pending", ack |-> <<u, 0>>, ready |-> FALSE]
  <2>1. d \in DisengageRows /\ d.phase = "pending" /\ d.ack = <<u, 0>> BY <1>2 DEF DisengageRows
  <2>2. row = [control EXCEPT !.disengage = d] BY <1>3
  <2> HIDE DEF d
  <2>3. QED BY <1>2, <2>1, <2>2, RowFields, RowTypes, TruthfulDisengage
<1>4. ASSUME Kind[u] \notin {"stop", "disengage"}, NEW p \in {control.away.until, None},
             row = Asked(u, p)
      PROVE  row \in ControlRows /\ Truthful(row)
  <2> DEFINE w == [phase |-> "pending", ack |-> <<u, 0>>, until |-> p]
  <2>1. Kind[u] = "away"
    BY <1>4, TransportServiceAssumption DEF Messages, TransportServiceAssumption, Kinds
  <2>2. p \in Acks \cup {None} BY <1>0 DEF AwayRows
  <2>3. p # None => Confirmed(p) BY DEF Truthful
  <2>4. w \in AwayRows /\ w.phase = "pending" /\ w.ack = <<u, 0>> /\ w.until = p
    BY <1>2, <2>2 DEF AwayRows
  <2>5. row = [control EXCEPT !.away = w] BY <1>4 DEF Asked
  <2>6. <<u, 0>>[1] = u OBVIOUS
  <2> HIDE DEF w
  <2>7. Truthful([control EXCEPT !.away = w]) BY <1>2, <2>1, <2>3, <2>4, <2>6, TruthfulAway
  <2>8. QED BY <2>4, <2>5, <2>7, RowFields, RowTypes
<1>5. \/ row = [control EXCEPT !.interrupts = @ \cup {u}]
      \/ row = [control EXCEPT !.disengage = [phase |-> "pending", ack |-> <<u, 0>>, ready |-> FALSE]]
      \/ /\ Kind[u] \notin {"stop", "disengage"}
         /\ \E p \in {control.away.until, None} : row = Asked(u, p)
  <2>1. CASE Kind[u] = "stop" BY <2>1 DEF Requested, row
  <2>2. CASE Kind[u] = "disengage" BY <2>2 DEF Requested, row
  <2>3. CASE Kind[u] \notin {"stop", "disengage"} BY <2>3 DEF Requested, row
  <2>4. QED BY <2>1, <2>2, <2>3
<1>6. QED BY <1>1, <1>3, <1>4, <1>5

-----------------------------------------------------------------------------
(***************************************************************************)
(* What each step of the worker loop makes of the loop's state.            *)
(***************************************************************************)
\* The copy of the control row that the loop holds is a truthful one.
Honest == \E row \in ControlRows : Truthful(row) /\ svc'.row = row

\* A truthful row may be staged.
LEMMA StageHonest ==
  ASSUME ServiceInv, NEW p \in SvcPcs \ Stops, NEW row \in ControlRows, Truthful(row),
         Stage(row, p)
  PROVE  Onward({p}) /\ Honest
<1>1. svc \in SvcStates /\ svc.then \notin Stops /\ Truthful(svc.row)
  BY DEF ServiceInv, TypeOK, Loop, Stops, CopiesTruthful
<1>2. svc.row \in ControlRows BY <1>1 DEF SvcStates
<1>3. QED BY <1>1, <1>2, StageOnward DEF Honest

\* A jump keeps the copy it has.
LEMMA GoHonest ==
  ASSUME ServiceInv, NEW p \in SvcPcs \ Stops, Go(p)
  PROVE  Onward({p}) /\ Honest
<1>1. svc \in SvcStates /\ svc.then \notin Stops /\ Truthful(svc.row)
  BY DEF ServiceInv, TypeOK, Loop, Stops, CopiesTruthful
<1>2. svc.row \in ControlRows BY <1>1 DEF SvcStates
<1>3. QED BY <1>1, <1>2, GoOnward DEF Honest

\* The hook stages what the fate of the reply justifies.
LEMMA SettleHonest ==
  ASSUME ServiceInv, NEW p \in SvcPcs \ Stops, NEW a, SettleAck(a, p)
  PROVE  Onward({p}) /\ Honest
<1>1. control \in ControlRows /\ Truthful(control) BY DEF ServiceInv, TypeOK, CopiesTruthful
<1>2. AckSent(control, a) \in ControlRows /\ AckTerminal(control, a) \in ControlRows
  BY <1>1, AckTypes
<1>3. Truthful(AckTerminal(control, a)) BY <1>1, AckTerminalTruthful
<1>4. action[a].status = "sent" => Truthful(AckSent(control, a)) BY <1>1, AckSentTruthful
<1>5. QED BY <1>1, <1>2, <1>3, <1>4, SettleCases, StageHonest

\* The end of away claims less.
LEMMA AwayEnds ==
  ASSUME ServiceInv
  PROVE  [control EXCEPT !.away = NoAway] \in ControlRows /\ Truthful([control EXCEPT !.away = NoAway])
<1>1. control \in ControlRows /\ Truthful(control) BY DEF ServiceInv, TypeOK, CopiesTruthful
<1>2. NoAway.phase = "none" /\ NoAway.until = None BY DEF NoAway
<1>3. QED BY <1>1, <1>2, RowTypes, RowFields, TruthfulAway

\* Between two batches: no batch is held before or after.
LEMMA RecoverOnward ==
  ASSUME ServiceInv, Recover
  PROVE  /\ svc.pc \in {"recover_away", "recover_disengage"}
         /\ Onward({"recover_disengage", "start"}) /\ Honest
<1> DEFINE P == {"recover_disengage", "start"}
<1>1. ASSUME NEW entry, NEW p \in P, RecoverEntry(entry, p) PROVE Onward({p}) /\ Honest
  <2>1. p \in SvcPcs \ Stops BY DEF SvcPcs, Stops
  <2>2. control \in ControlRows /\ Truthful(control) BY DEF ServiceInv, TypeOK, CopiesTruthful
  <2>3. AckTerminal(control, entry.ack) \in ControlRows /\ Truthful(AckTerminal(control, entry.ack))
    BY <2>2, AckTypes, AckTerminalTruthful
  <2>4. QED BY <1>1, <2>1, <2>3, StageHonest, GoHonest, SettleHonest DEF RecoverEntry
<1>2. CASE At("recover_away") /\ RecoverEntry(control.away, "recover_disengage")
  BY <1>1, <1>2 DEF Onward, Stops, At
<1>3. CASE At("recover_disengage") /\ RecoverEntry(control.disengage, "start")
  BY <1>1, <1>3 DEF Onward, Stops, At
<1>4. QED BY <1>2, <1>3 DEF Recover

\* The steps that only move the loop on, and where they are taken.
LEMMA GoSteps ==
  ASSUME ServiceInv
  PROVE  /\ Start => At("start") /\ Onward({"top"}) /\ Honest
         /\ RecoverLeases => At("recover_leases") /\ Onward({"clear_away"}) /\ Honest
         /\ ClearExpiredAway => At("clear_away") /\ Onward({"claim"}) /\ Honest
         /\ Hook => At("hook") /\ Onward({"send"}) /\ Honest
         /\ \A u \in Updates :
              /\ EnqueueJob(u) => At("process") /\ Onward({"complete"}) /\ Honest
              /\ Acknowledge(u) => At("acknowledge") /\ Onward({"complete"}) /\ Honest
              /\ ReleaseAway(u) => At("process") /\ Onward({"release"}) /\ Honest
              /\ HandleCommand(u) => At("process") /\ Onward({"acknowledge", "complete"}) /\ Honest
<1>1. {"top", "clear_away", "claim", "send", "complete", "release", "acknowledge"}
        \subseteq SvcPcs \ Stops
  BY DEF SvcPcs, Stops
<1>2. Start => At("start") /\ Onward({"top"}) /\ Honest BY <1>1, GoHonest DEF Start
<1>3. RecoverLeases => At("recover_leases") /\ Onward({"clear_away"}) /\ Honest
  BY <1>1, GoHonest DEF RecoverLeases
<1>4. ClearExpiredAway => At("clear_away") /\ Onward({"claim"}) /\ Honest
  BY <1>1, GoHonest, AwayEnds, StageHonest DEF ClearExpiredAway
<1>5. Hook => At("hook") /\ Onward({"send"}) /\ Honest BY <1>1, SettleHonest DEF Hook
<1>6. ASSUME NEW u \in Updates
      PROVE  /\ EnqueueJob(u) => At("process") /\ Onward({"complete"}) /\ Honest
             /\ Acknowledge(u) => At("acknowledge") /\ Onward({"complete"}) /\ Honest
             /\ ReleaseAway(u) => At("process") /\ Onward({"release"}) /\ Honest
             /\ HandleCommand(u) => At("process") /\ Onward({"acknowledge", "complete"}) /\ Honest
  <2>1. EnqueueJob(u) => At("process") /\ Onward({"complete"}) /\ Honest
    BY <1>1, GoHonest DEF EnqueueJob
  <2>2. Acknowledge(u) => At("acknowledge") /\ Onward({"complete"}) /\ Honest
    BY <1>1, GoHonest DEF Acknowledge
  <2>3. ReleaseAway(u) => At("process") /\ Onward({"release"}) /\ Honest
    BY <1>1, AwayEnds, StageHonest DEF ReleaseAway
  <2>4. ASSUME HandleCommand(u)
        PROVE  At("process") /\ Onward({"acknowledge", "complete"}) /\ Honest
    <3>1. u \in Updates \ Messages /\ At("process") BY <2>4 DEF HandleCommand
    <3>2. control \in ControlRows /\ Truthful(control) BY DEF ServiceInv, TypeOK, CopiesTruthful
    <3>3. Requested(u) \in ControlRows /\ Truthful(Requested(u)) BY <3>1, <3>2, RequestedTruthful
    <3>4. CASE Accepted(u)
      <4>1. svc' = [svc EXCEPT !.pc = "write", !.then = "acknowledge", !.row = Requested(u)]
        BY <2>4, <3>4 DEF HandleCommand
      <4>2. Onward({"acknowledge"}) /\ svc'.row = Requested(u) BY <1>1, <3>3, <4>1, WriteOnward
      <4>3. QED BY <3>1, <3>3, <4>2 DEF Onward, Honest, Stops
    <3>5. CASE ~Accepted(u)
      <4>1. Go("complete") BY <2>4, <3>5 DEF HandleCommand
      <4>2. Onward({"complete"}) /\ Honest BY <1>1, <4>1, GoHonest
      <4>3. QED BY <3>1, <4>2 DEF Onward, Stops
    <3>6. QED BY <3>4, <3>5
  <2>5. QED BY <2>1, <2>2, <2>3, <2>4
<1>7. QED BY <1>2, <1>3, <1>4, <1>5, <1>6

\* The loop turns to its exit only when no job is queued.
LEMMA CheckOnward ==
  ASSUME ServiceInv
  PROVE  /\ CountActions => At("busy") /\ Onward({"top", "busy_jobs"}) /\ Honest
         /\ CountJobs => /\ At("busy_jobs") /\ Honest
                         /\ Onward({"top"}) \/ (Onward({"exit"}) /\ Queued = {})
<1>1. svc \in SvcStates /\ svc.then \notin Stops /\ Truthful(svc.row)
  BY DEF ServiceInv, TypeOK, Loop, Stops, CopiesTruthful
<1>2. control \in ControlRows /\ Truthful(control) BY DEF ServiceInv, TypeOK, CopiesTruthful
<1>3. {"top", "busy_jobs", "exit"} \subseteq SvcPcs \ Stops BY DEF SvcPcs, Stops
<1>4. ASSUME CountActions PROVE At("busy") /\ Onward({"top", "busy_jobs"}) /\ Honest
  <2>1. At("busy") BY <1>4 DEF CountActions
  <2>2. CASE svc' = [svc EXCEPT !.pc = "top", !.sent = FALSE]
    <3>1. svc' \in SvcStates BY <1>1, <2>2 DEF SvcStates, SvcPcs, Stops
    <3>2. /\ svc'.pc = "top" /\ svc'.then = svc.then /\ svc'.row = svc.row /\ svc'.batch = svc.batch
          /\ svc'.sends = svc.sends /\ svc'.current = svc.current /\ svc'.outcome = svc.outcome
      BY <1>1, <2>2 DEF SvcStates
    <3>3. Resumes' = "top" BY <3>2 DEF Resumes, At, Stops
    <3>4. svc.row \in ControlRows BY <1>1 DEF SvcStates
    <3>5. QED BY <1>1, <2>1, <3>1, <3>2, <3>3, <3>4 DEF Onward, Stops, Honest
  <2>3. CASE svc' = [svc EXCEPT !.pc = "busy_jobs"]
    <3>1. Onward({"busy_jobs"}) /\ Honest BY <1>3, <2>3, GoHonest DEF Go
    <3>2. QED BY <2>1, <3>1 DEF Onward, Stops
  <2>4. QED BY <1>4, <2>2, <2>3 DEF CountActions
<1>5. ASSUME Queued = {}, Stage([control EXCEPT !.disengage.ready = @ \/ Disengaged], "exit")
      PROVE  Onward({"exit"}) /\ Honest
  <2> DEFINE d == [control.disengage EXCEPT !.ready = @ \/ Disengaged]
  <2>1. control.disengage \in DisengageRows BY <1>2, RowTypes
  <2>2. d \in DisengageRows /\ d.phase = control.disengage.phase /\ d.ack = control.disengage.ack
    BY <2>1 DEF DisengageRows, Disengaged
  <2>3. Stage([control EXCEPT !.disengage = d], "exit") BY <1>5
  <2> HIDE DEF d
  <2>4. [control EXCEPT !.disengage = d] \in ControlRows BY <1>2, <2>2, RowFields, RowTypes
  <2>5. Truthful([control EXCEPT !.disengage = d])
    BY <1>2, <2>2, TruthfulDisengage DEF Truthful
  <2>6. QED BY <1>3, <2>3, <2>4, <2>5, StageHonest
<1>6. ASSUME CountJobs
      PROVE  /\ At("busy_jobs") /\ Honest
             /\ Onward({"top"}) \/ (Onward({"exit"}) /\ Queued = {})
  <2>1. At("busy_jobs") BY <1>6 DEF CountJobs
  <2>2. CASE Go("top") BY <1>3, <2>1, <2>2, GoHonest
  <2>3. CASE Queued = {} /\ Stage([control EXCEPT !.disengage.ready = @ \/ Disengaged], "exit")
    BY <1>5, <2>1, <2>3
  <2>4. QED BY <1>6, <2>2, <2>3 DEF CountJobs
<1>7. QED BY <1>4, <1>6

\* The process starts, dies or exits: nothing of its memory is left.
Reset(p) ==
  /\ svc' \in SvcStates /\ svc'.pc = p /\ svc'.then = "down" /\ svc'.batch = {} /\ svc'.sends = {}
  /\ svc'.row = NoControl

\* These are the steps that do so.
LEMMA ResetSteps ==
  /\ Boot => Reset("recover_away") /\ boots' = boots + 1 /\ boots < MaxBoots /\ polling' = polling
  /\ Crash => Reset("down") /\ boots' = boots /\ polling' = FALSE
  /\ Exit => svc.pc = "exit" /\ Reset("exited") /\ boots' = boots /\ polling' = FALSE
<1>1. Idle \in SvcStates /\ Idle.then = "down" /\ Idle.pc = "down" /\ Idle.batch = {}
      /\ Idle.sends = {} /\ Idle.row = NoControl
  BY IdleTypes DEF Idle
<1>2. {"recover_away", "exited"} \subseteq SvcPcs BY DEF SvcPcs, Stops
<1>3. \A p \in SvcPcs : /\ [Idle EXCEPT !.pc = p] \in SvcStates
                        /\ [Idle EXCEPT !.pc = p].pc = p
                        /\ [Idle EXCEPT !.pc = p].then = "down"
                        /\ [Idle EXCEPT !.pc = p].batch = {}
                        /\ [Idle EXCEPT !.pc = p].sends = {}
                        /\ [Idle EXCEPT !.pc = p].row = NoControl
  BY <1>1 DEF SvcStates
<1> HIDE DEF Idle
<1>4. Boot => Reset("recover_away") /\ boots' = boots + 1 /\ boots < MaxBoots /\ polling' = polling
  BY <1>2, <1>3 DEF Boot, Reset
<1>5. Crash => Reset("down") /\ boots' = boots /\ polling' = FALSE
  BY <1>1 DEF Crash, Reset
<1>6. Exit => svc.pc = "exit" /\ Reset("exited") /\ boots' = boots /\ polling' = FALSE
  BY <1>2, <1>3 DEF Exit, Reset, At
<1>7. QED BY <1>4, <1>5, <1>6

\* One turn of the loop begins.
LEMMA TopOnward ==
  ASSUME ServiceInv, Top
  PROVE  At("top") /\ Onward({"drain", "recover_leases"}) /\ Honest
<1>1. svc \in SvcStates /\ svc.then \notin Stops /\ Truthful(svc.row)
  BY DEF ServiceInv, TypeOK, Loop, Stops, CopiesTruthful
<1>2. PICK p \in {"drain", "recover_leases"}, q \in BOOLEAN : svc' = [svc EXCEPT !.pc = p, !.quiesce = q]
  BY DEF Top, Disengaged
<1>3. svc' \in SvcStates BY <1>1, <1>2 DEF SvcStates, SvcPcs, Stops
<1>4. /\ svc'.pc = p /\ svc'.then = svc.then /\ svc'.row = svc.row /\ svc'.batch = svc.batch
      /\ svc'.sends = svc.sends /\ svc'.current = svc.current /\ svc'.outcome = svc.outcome
  BY <1>1, <1>2 DEF SvcStates
<1>5. Resumes' = p BY <1>4 DEF Resumes, At, Stops
<1>6. svc.row \in ControlRows BY <1>1 DEF SvcStates
<1>7. QED BY <1>1, <1>3, <1>4, <1>5, <1>6 DEF Onward, Stops, Honest, Top

\* A batch is claimed, or there is nothing to claim.
LEMMA ClaimMoves ==
  ASSUME ServiceInv, ClaimUpdates
  PROVE  /\ At("claim") /\ Honest
         /\ svc' \in SvcStates /\ svc'.then \notin Stops /\ svc'.sends = svc.sends
         /\ svc'.pc \in {"drain", "process"} /\ (svc'.pc = "drain" => svc'.batch = {})
         /\ svc'.batch \subseteq Updates
         /\ \A u \in Updates :
              IF u \in svc'.batch
              THEN /\ update[u].status = "pending"
                   /\ update'[u] = [status |-> "processing", attempts |-> update[u].attempts + 1]
              ELSE update'[u] = update[u]
         /\ update' = [u \in Updates |-> update'[u]]
<1>1. svc \in SvcStates /\ svc.then \notin Stops /\ Truthful(svc.row) /\ svc.row \in ControlRows
  BY DEF ServiceInv, TypeOK, Loop, Stops, CopiesTruthful, SvcStates
<1>2. At("claim") BY DEF ClaimUpdates
<1>3. svc.batch = {} BY <1>2 DEF ServiceInv, Loop, Stops, Resumes, At
<1>4. CASE Go("drain") /\ UNCHANGED update
  <2>1. "drain" \in SvcPcs \ Stops BY DEF SvcPcs, Stops
  <2>2. Onward({"drain"}) /\ Honest BY <1>4, <2>1, GoHonest
  <2>3. svc'.pc = "drain" BY <1>1, <1>4 DEF Go, SvcStates
  <2>4. update' = [u \in Updates |-> update'[u]] BY <1>4 DEF ServiceInv, TypeOK
  <2>5. QED BY <1>2, <1>3, <1>4, <2>2, <2>3, <2>4 DEF Onward, Stops
<1>5. ASSUME NEW S \in SUBSET Updates, NEW away \in BOOLEAN, ClaimFrom(S, away)
      PROVE  /\ Honest
             /\ svc' \in SvcStates /\ svc'.then \notin Stops /\ svc'.sends = svc.sends
             /\ svc'.pc \in {"drain", "process"} /\ (svc'.pc = "drain" => svc'.batch = {})
             /\ svc'.batch \subseteq Updates
             /\ \A u \in Updates :
                  IF u \in svc'.batch
                  THEN /\ update[u].status = "pending"
                       /\ update'[u] = [status |-> "processing", attempts |-> update[u].attempts + 1]
                  ELSE update'[u] = update[u]
             /\ update' = [u \in Updates |-> update'[u]]
  <2> DEFINE W == {u \in S : update[u].status = "pending"}
  <2>1. PICK C \in SUBSET W :
          /\ update' = [u \in Updates |->
                         IF u \in C THEN [status |-> "processing", attempts |-> update[u].attempts + 1]
                         ELSE update[u]]
          /\ svc' = [svc EXCEPT !.pc = IF C = {} THEN "drain" ELSE "process", !.batch = C, !.away = away]
    BY <1>5 DEF ClaimFrom
  <2>2. C \subseteq Updates /\ \A u \in C : update[u].status = "pending" OBVIOUS
  <2> HIDE DEF W
  <2>3. svc' \in SvcStates BY <1>1, <2>1, <2>2 DEF SvcStates, SvcPcs, Stops
  <2>4. /\ svc'.pc = IF C = {} THEN "drain" ELSE "process"
        /\ svc'.then = svc.then /\ svc'.row = svc.row /\ svc'.batch = C /\ svc'.sends = svc.sends
    BY <1>1, <2>1 DEF SvcStates
  <2>5. QED BY <1>1, <2>1, <2>2, <2>3, <2>4 DEF Honest
<1>6. CASE ClaimFrom({u \in Updates : Kind[u] # "message"}, TRUE) BY <1>2, <1>5, <1>6
<1>7. CASE ClaimFrom(Updates, FALSE) BY <1>2, <1>5, <1>7
<1>8. QED BY <1>4, <1>6, <1>7 DEF ClaimUpdates

\* One update of the batch is dealt with.
LEMMA LeaveMoves ==
  ASSUME ServiceInv, NEW u \in Updates, NEW row, Current(u), Leave(u, row)
  PROVE  /\ Honest
         /\ svc' \in SvcStates /\ svc'.then \notin Stops /\ svc'.sends = svc.sends
         /\ svc'.pc \in {"drain", "process"} /\ (svc'.pc = "drain" => svc'.batch = {})
         /\ svc'.batch = svc.batch \ {u} /\ u \in svc.batch
         /\ update' = [update EXCEPT ![u] = row]
<1>1. svc \in SvcStates /\ svc.then \notin Stops /\ Truthful(svc.row) /\ svc.row \in ControlRows
  BY DEF ServiceInv, TypeOK, Loop, Stops, CopiesTruthful, SvcStates
<1>2. svc' = [svc EXCEPT !.batch = @ \ {u}, !.pc = IF svc.batch = {u} THEN "drain" ELSE "process"]
  BY DEF Leave
<1>3. svc' \in SvcStates BY <1>1, <1>2 DEF SvcStates, SvcPcs, Stops
<1>4. /\ svc'.pc = IF svc.batch = {u} THEN "drain" ELSE "process"
      /\ svc'.then = svc.then /\ svc'.row = svc.row /\ svc'.batch = svc.batch \ {u}
      /\ svc'.sends = svc.sends
  BY <1>1, <1>2 DEF SvcStates
<1>5. QED BY <1>1, <1>3, <1>4 DEF Honest, Leave, Current

\* The drain.
LEMMA DeliveryMoves ==
  ASSUME ServiceInv, Drain \/ (\E a \in Actions : Send(a)) \/ Mark \/ Drained
  PROVE  /\ Honest
         /\ svc.pc \in {"drain", "send", "mark"}
         /\ svc' \in SvcStates /\ svc'.then \notin Stops /\ svc'.batch = svc.batch
         /\ svc'.pc \in {"send", "mark", "hook", "busy", "top"}
<1>1. svc \in SvcStates /\ svc.then \notin Stops /\ Truthful(svc.row) /\ svc.row \in ControlRows
  BY DEF ServiceInv, TypeOK, Loop, Stops, CopiesTruthful, SvcStates
<1>2. CASE Drain
  <2>1. PICK S \in SUBSET Actions, sent \in BOOLEAN :
          svc' = [svc EXCEPT !.pc = "send", !.sends = S, !.sent = sent]
    BY <1>2 DEF Drain
  <2>2. svc' \in SvcStates BY <1>1, <2>1 DEF SvcStates, SvcPcs, Stops
  <2>3. svc'.pc = "send" /\ svc'.then = svc.then /\ svc'.row = svc.row /\ svc'.batch = svc.batch
    BY <1>1, <2>1 DEF SvcStates
  <2>4. QED BY <1>1, <1>2, <2>2, <2>3 DEF Honest, Drain, At
<1>3. ASSUME NEW a \in Actions, Send(a)
      PROVE  /\ Honest
             /\ svc.pc \in {"drain", "send", "mark"}
             /\ svc' \in SvcStates /\ svc'.then \notin Stops /\ svc'.batch = svc.batch
             /\ svc'.pc \in {"send", "mark", "hook", "busy", "top"}
  <2>1. PICK outcome \in Outcomes :
          svc' = [svc EXCEPT !.pc = "mark", !.current = a, !.outcome = outcome, !.sends = @ \ {a}]
    BY <1>3 DEF Send
  <2>2. svc' \in SvcStates BY <1>1, <2>1 DEF SvcStates, SvcPcs, Stops
  <2>3. svc'.pc = "mark" /\ svc'.then = svc.then /\ svc'.row = svc.row /\ svc'.batch = svc.batch
    BY <1>1, <2>1 DEF SvcStates
  <2>4. QED BY <1>1, <1>3, <2>2, <2>3 DEF Honest, Send, At
<1>4. CASE Mark
  <2>1. svc' = [svc EXCEPT !.pc = "hook", !.outcome = "none"] BY <1>4 DEF Mark
  <2>2. svc' \in SvcStates BY <1>1, <2>1 DEF SvcStates, SvcPcs, Stops
  <2>3. svc'.pc = "hook" /\ svc'.then = svc.then /\ svc'.row = svc.row /\ svc'.batch = svc.batch
    BY <1>1, <2>1 DEF SvcStates
  <2>4. QED BY <1>1, <1>4, <2>2, <2>3 DEF Honest, Mark, At
<1>5. CASE Drained
  <2>1. PICK p \in {"busy", "top"}, s \in BOOLEAN :
          svc' = [svc EXCEPT !.pc = p, !.current = None, !.sent = s]
    <3>1. svc.sent \in BOOLEAN /\ svc.quiesce \in BOOLEAN BY <1>1 DEF SvcStates
    <3>2. QED BY <1>5, <3>1 DEF Drained
  <2>2. svc' \in SvcStates BY <1>1, <2>1 DEF SvcStates, SvcPcs, Stops
  <2>3. svc'.pc = p /\ svc'.then = svc.then /\ svc'.row = svc.row /\ svc'.batch = svc.batch
    BY <1>1, <2>1 DEF SvcStates
  <2>4. QED BY <1>1, <1>5, <2>1, <2>2, <2>3 DEF Honest, Drained, At
<1>6. QED BY <1>2, <1>3, <1>4, <1>5

\* The second half of a transition of the control row.
LEMMA WriteMoves ==
  ASSUME ServiceInv, WriteControl
  PROVE  /\ svc.pc = "write" /\ control' = svc.row /\ svc.row \in ControlRows
         /\ svc' \in SvcStates /\ svc'.pc = svc.then /\ svc'.then = "down" /\ svc'.row = NoControl
         /\ svc'.batch = svc.batch /\ svc'.sends = svc.sends
         /\ svc'.current = svc.current /\ svc'.outcome = svc.outcome
         /\ Resumes' = Resumes
<1>1. svc \in SvcStates /\ svc.then \notin Stops BY DEF ServiceInv, TypeOK, Loop, Stops
<1>2. svc' = [svc EXCEPT !.pc = svc.then, !.row = NoControl, !.then = "down"] BY DEF WriteControl
<1>3. svc' \in SvcStates BY <1>1, <1>2, RowTypes DEF SvcStates, SvcPcs, Stops
<1>4. /\ svc'.pc = svc.then /\ svc'.then = "down" /\ svc'.row = NoControl
      /\ svc'.batch = svc.batch /\ svc'.sends = svc.sends
      /\ svc'.current = svc.current /\ svc'.outcome = svc.outcome
  BY <1>1, <1>2 DEF SvcStates
<1>5. svc.pc = "write" /\ control' = svc.row /\ svc.row \in ControlRows
  BY <1>1 DEF WriteControl, At, SvcStates
<1>6. Resumes' = Resumes BY <1>1, <1>4, <1>5 DEF Resumes, At, Stops
<1>7. QED BY <1>3, <1>4, <1>5, <1>6

\* The steps of others leave the loop alone.
LEMMA OthersLeaveLoop ==
  ASSUME Engage \/ RetryComesDue \/ TimePasses \/ Relay \/ (\E u \in Updates : StoreUpdate(u)) \/ UNCHANGED vars
  PROVE  svc' = svc /\ polling' = polling /\ boots' = boots
BY DEF Engage, RetryComesDue, TimePasses, TimerRunsOut, Relay, StoreUpdate, RunJob, DropJob, AnswerJob, SendInterrupt,
   ReadInterrupts, WriteInterrupts, RelayEnds, vars

\* The loop goes on only in a process that was started.
LEMMA ServiceIsUp ==
  ASSUME ServiceInv, Service
  PROVE  svc.pc # "down" /\ boots' = boots /\ boots >= 1
<1>1. svc.pc # "down"
  BY DEF Service, Intake, Delivery, Recover, Start, Top, CountActions, CountJobs, Exit, WriteControl,
     RecoverLeases, ClearExpiredAway, ClaimUpdates, EnqueueJob, FailUpdate, ReleaseAway,
     ReleaseUpdate, HandleCommand, Acknowledge, CompleteUpdate, Drain, Send, Mark, Hook, Drained, At
<1>2. boots' = boots
  BY DEF Service, Intake, Delivery, Recover, Start, Top, CountActions, CountJobs, Exit, WriteControl,
     RecoverLeases, ClearExpiredAway, ClaimUpdates, EnqueueJob, FailUpdate, ReleaseAway,
     ReleaseUpdate, HandleCommand, Acknowledge, CompleteUpdate, Drain, Send, Mark, Hook, Drained
<1>3. QED BY <1>1, <1>2 DEF ServiceInv, Loop, Stops

BatchPcs == {"process", "acknowledge", "complete", "release"}

\* The loop between two batches holds none.
LEMMA NoBatch ==
  ASSUME ServiceInv, svc.pc \notin BatchPcs \cup {"write"}
  PROVE  svc.batch = {}
BY DEF ServiceInv, Loop, Stops, Resumes, At, BatchPcs

\* Every step keeps the loop in order and its copy truthful.
LEMMA LoopStep ==
  ASSUME ServiceInv, [Next]_vars
  PROVE  Loop' /\ svc' \in SvcStates /\ Honest
<1> DEFINE Goal == Loop' /\ svc' \in SvcStates /\ Honest
<1>1. Loop /\ svc \in SvcStates /\ Truthful(svc.row) BY DEF ServiceInv, TypeOK, CopiesTruthful
<1>2. boots \in Nat BY DEF ServiceInv, TypeOK
<1>3. ASSUME svc' = svc, polling' = polling, boots' = boots PROVE Goal
  <2>1. Resumes' = Resumes BY <1>3 DEF Resumes, At, Stops
  <2>2. svc.row \in ControlRows BY <1>1 DEF SvcStates
  <2>3. QED BY <1>1, <1>3, <2>1, <2>2 DEF Loop, Stops, Honest
<1>4. ASSUME NEW P, Onward(P), Honest, svc.batch = {} \/ P \subseteq BatchPcs, Service PROVE Goal
  <2>1. svc' \in SvcStates /\ svc'.then \notin Stops /\ svc'.batch = svc.batch /\ Resumes' \in P
    BY <1>4 DEF Onward, Stops
  <2>2. boots' >= 1 BY <1>4, ServiceIsUp
  <2>3. QED BY <1>4, <2>1, <2>2 DEF Loop, Stops, BatchPcs
<1>5. CASE Boot
  <2>1. Reset("recover_away") /\ boots' = boots + 1 BY <1>5, ResetSteps
  <2>2. NoControl \in ControlRows /\ Truthful(NoControl) BY RowTypes, NoControlTruthful
  <2>3. QED BY <1>2, <2>1, <2>2 DEF Reset, Loop, Stops, Honest
<1>6. CASE Crash
  <2>1. Reset("down") /\ polling' = FALSE BY <1>6, ResetSteps
  <2>2. NoControl \in ControlRows /\ Truthful(NoControl) BY RowTypes, NoControlTruthful
  <2>3. QED BY <2>1, <2>2 DEF Reset, Loop, Stops, Honest
<1>7. CASE Service
  <2>1. svc.pc # "down" /\ boots' = boots /\ boots >= 1 BY <1>7, ServiceIsUp
  <2>2. CASE Exit
    <3>1. Reset("exited") /\ polling' = FALSE BY <2>2, ResetSteps
    <3>2. NoControl \in ControlRows /\ Truthful(NoControl) BY RowTypes, NoControlTruthful
    <3>3. QED BY <2>1, <3>1, <3>2 DEF Reset, Loop, Stops, Honest
  <2>3. CASE Recover \/ Start \/ Top \/ RecoverLeases \/ ClearExpiredAway \/ Hook \/ CountActions \/ CountJobs
    <3>1. PICK P : Onward(P) /\ Honest BY <2>3, RecoverOnward, GoSteps, TopOnward, CheckOnward
    <3>2. svc.pc \notin BatchPcs \cup {"write"}
      BY <2>3 DEF Recover, Start, Top, RecoverLeases, ClearExpiredAway, Hook, CountActions, CountJobs, At, BatchPcs
    <3>3. QED BY <1>4, <1>7, <3>1, <3>2, NoBatch
  <2>4. ASSUME NEW u \in Updates,
               EnqueueJob(u) \/ Acknowledge(u) \/ ReleaseAway(u) \/ HandleCommand(u)
        PROVE  Goal
    <3>1. PICK P \in SUBSET BatchPcs : Onward(P) /\ Honest
      <4>1. /\ {"complete"} \in SUBSET BatchPcs /\ {"release"} \in SUBSET BatchPcs
            /\ {"acknowledge", "complete"} \in SUBSET BatchPcs
        BY DEF BatchPcs
      <4>2. QED BY <2>4, <4>1, GoSteps
    <3>2. QED BY <1>4, <1>7, <3>1
  <2>5. CASE ClaimUpdates
    <3>1. /\ Honest /\ svc' \in SvcStates /\ svc'.then \notin Stops
          /\ svc'.pc \in {"drain", "process"} /\ (svc'.pc = "drain" => svc'.batch = {})
      BY <2>5, ClaimMoves
    <3>2. QED BY <2>1, <3>1 DEF Loop, Stops, Resumes, At
  <2>6. ASSUME NEW u \in Updates, FailUpdate(u) \/ ReleaseUpdate(u) \/ CompleteUpdate(u) PROVE Goal
    <3>1. PICK row : Current(u) /\ Leave(u, row)
      BY <2>6 DEF FailUpdate, ReleaseUpdate, CompleteUpdate
    <3>2. /\ Honest /\ svc' \in SvcStates /\ svc'.then \notin Stops
          /\ svc'.pc \in {"drain", "process"} /\ (svc'.pc = "drain" => svc'.batch = {})
      BY <3>1, LeaveMoves
    <3>3. QED BY <2>1, <3>2 DEF Loop, Stops, Resumes, At
  <2>7. CASE Drain \/ (\E a \in Actions : Send(a)) \/ Mark \/ Drained
    <3>1. /\ Honest /\ svc.pc \in {"drain", "send", "mark"}
          /\ svc' \in SvcStates /\ svc'.then \notin Stops /\ svc'.batch = svc.batch
      BY <2>7, DeliveryMoves
    <3>2. svc.batch = {} BY <3>1, NoBatch DEF BatchPcs
    <3>3. QED BY <2>1, <3>1, <3>2 DEF Loop, Stops
  <2>8. CASE WriteControl
    <3>1. /\ svc' \in SvcStates /\ svc'.then = "down" /\ svc'.row = NoControl
          /\ svc'.batch = svc.batch /\ Resumes' = Resumes
      BY <2>8, WriteMoves
    <3>2. NoControl \in ControlRows /\ Truthful(NoControl) BY RowTypes, NoControlTruthful
    <3>3. QED BY <1>1, <2>1, <3>1, <3>2 DEF Loop, Stops, Honest
  <2>9. QED
    BY <1>7, <2>2, <2>3, <2>4, <2>5, <2>6, <2>7, <2>8 DEF Service, Intake, Delivery
<1>8. QED BY <1>3, <1>5, <1>6, <1>7, OthersLeaveLoop DEF Next, TimePasses

-----------------------------------------------------------------------------
(***************************************************************************)
(* Attempts.                                                               *)
(***************************************************************************)
CountedRows ==
  [status : {"absent", "pending", "processing", "completed", "failed"}, attempts : Nat]

\* One update after the step.
Counted(u) ==
  /\ update'[u] \in CountedRows
  /\ u \in svc'.batch => update'[u].status = "processing"
  /\ update'[u].attempts <= MaxAttempts + boots' - 1
  /\ update'[u].status = "absent" => update'[u].attempts = 0
  /\ update'[u].status = "processing" => update'[u].attempts >= 1
  /\ update'[u].status = "pending" => boots' >= 1 /\ update'[u].attempts <= MaxAttempts + boots' - 2
  /\ update'[u].status = "processing" /\ u \notin svc'.batch /\ svc'.pc # "down"
       => update'[u].attempts <= MaxAttempts + boots' - 2

\* One update before the step.
LEMMA UpdateNow ==
  ASSUME ServiceInv, NEW u \in Updates
  PROVE  /\ MaxAttempts \in Nat \ {0} /\ boots \in Nat
         /\ update[u] \in CountedRows
         /\ u \in svc.batch => update[u].status = "processing"
         /\ update[u].attempts <= MaxAttempts + boots - 1
         /\ update[u].status = "absent" => update[u].attempts = 0
         /\ update[u].status = "processing" => update[u].attempts >= 1
         /\ update[u].status = "pending" => boots >= 1 /\ update[u].attempts <= MaxAttempts + boots - 2
         /\ update[u].status = "processing" /\ u \notin svc.batch /\ svc.pc # "down"
              => update[u].attempts <= MaxAttempts + boots - 2
<1>1. MaxAttempts \in Nat \ {0} /\ MaxBoots \in Nat \ {0} /\ boots \in Nat
  BY TransportServiceAssumption DEF TransportServiceAssumption, ServiceInv, TypeOK
<1>2. update[u] \in UpdateRows BY DEF ServiceInv, TypeOK
<1>3. update[u] \in CountedRows BY <1>1, <1>2 DEF UpdateRows, CountedRows
<1>4. AttemptsCounted BY DEF ServiceInv
<1>5. QED BY <1>1, <1>3, <1>4 DEF AttemptsCounted

\* An update that a step leaves alone.
LEMMA CountedSame ==
  ASSUME ServiceInv, NEW u \in Updates, update'[u] = update[u], boots' = boots,
         u \in svc'.batch <=> u \in svc.batch, svc'.pc # "down" => svc.pc # "down"
  PROVE  Counted(u)
BY UpdateNow DEF Counted

\* The steps of the loop count the attempts.
LEMMA IntakeCounts ==
  ASSUME ServiceInv, NEW u \in Updates, Service, ~Exit
  PROVE  Counted(u)
<1>1. svc.pc # "down" /\ boots' = boots /\ boots >= 1 BY ServiceIsUp
<1>2. CASE RecoverLeases
  <2>1. svc.pc = "recover_leases" BY <1>2 DEF RecoverLeases, At
  <2>2. svc.batch = {} BY <2>1, NoBatch DEF BatchPcs
  <2>3. svc'.batch = {} BY <1>2, <2>2, GoSteps DEF Onward, Stops
  <2>4. \/ update'[u] = update[u]
        \/ update[u].status = "processing" /\ update'[u] = [update[u] EXCEPT !.status = "pending"]
    BY <1>2 DEF RecoverLeases
  <2>5. CASE update'[u] = update[u] BY <1>1, <2>2, <2>3, <2>5, CountedSame
  <2>6. CASE update[u].status = "processing" /\ update'[u] = [update[u] EXCEPT !.status = "pending"]
    <3>1. update[u] \in CountedRows BY UpdateNow
    <3>2. /\ update'[u] \in CountedRows /\ update'[u].status = "pending"
          /\ update'[u].attempts = update[u].attempts
      BY <2>6, <3>1 DEF CountedRows
    <3>3. update[u].attempts <= MaxAttempts + boots - 2 BY <1>1, <2>2, <2>6, UpdateNow
    <3>4. QED BY <1>1, <2>3, <3>2, <3>3, UpdateNow DEF Counted, CountedRows
  <2>7. QED BY <2>4, <2>5, <2>6
<1>3. CASE ClaimUpdates
  <2>1. svc.pc = "claim" BY <1>3 DEF ClaimUpdates, At
  <2>2. svc.batch = {} BY <2>1, NoBatch DEF BatchPcs
  <2>3. IF u \in svc'.batch
        THEN /\ update[u].status = "pending"
             /\ update'[u] = [status |-> "processing", attempts |-> update[u].attempts + 1]
        ELSE update'[u] = update[u]
    BY <1>3, ClaimMoves
  <2>4. CASE u \in svc'.batch
    <3>1. update[u].attempts \in Nat BY UpdateNow DEF CountedRows
    <3>2. /\ update'[u].status = "processing" /\ update'[u].attempts = update[u].attempts + 1
          /\ update'[u] \in CountedRows
      BY <2>3, <2>4, <3>1 DEF CountedRows
    <3>3. QED BY <1>1, <2>3, <2>4, <3>1, <3>2, UpdateNow DEF Counted
  <2>5. CASE u \notin svc'.batch BY <1>1, <2>2, <2>3, <2>5, CountedSame
  <2>6. QED BY <2>4, <2>5
<1>4. ASSUME NEW v \in Updates, FailUpdate(v) \/ ReleaseUpdate(v) \/ CompleteUpdate(v) PROVE Counted(u)
  <2>1. PICK row :
          /\ Current(v) /\ Leave(v, row)
          /\ \/ row = [update[v] EXCEPT
                        !.status = IF update[v].attempts >= MaxAttempts THEN "failed" ELSE "pending"]
             \/ row = [status |-> "pending", attempts |-> update[v].attempts - 1]
             \/ row = [update[v] EXCEPT !.status = "completed"]
    BY <1>4 DEF FailUpdate, ReleaseUpdate, CompleteUpdate
  <2>2. /\ svc'.batch = svc.batch \ {v} /\ v \in svc.batch
        /\ update' = [update EXCEPT ![v] = row]
    BY <2>1, LeaveMoves
  <2>3. update' [u] = IF u = v THEN row ELSE update[u] BY <2>2 DEF ServiceInv, TypeOK
  <2>4. CASE u # v BY <1>1, <2>2, <2>3, <2>4, CountedSame
  <2>5. CASE u = v
    <3>1. update[u] \in CountedRows /\ update[u].status = "processing" /\ update[u].attempts \in Nat
      BY <2>2, <2>5, UpdateNow DEF CountedRows
    <3>2. CASE row = [update[v] EXCEPT
                        !.status = IF update[v].attempts >= MaxAttempts THEN "failed" ELSE "pending"]
      <4>1. /\ row.status = IF update[u].attempts >= MaxAttempts THEN "failed" ELSE "pending"
            /\ row.attempts = update[u].attempts /\ row \in CountedRows
        BY <2>5, <3>1, <3>2 DEF CountedRows
      <4>2. QED BY <1>1, <2>2, <2>3, <2>5, <4>1, <3>1, UpdateNow DEF Counted
    <3>3. CASE row = [status |-> "pending", attempts |-> update[v].attempts - 1]
      <4>1. update[u].attempts >= 1 BY <3>1, UpdateNow
      <4>2. row.status = "pending" /\ row.attempts = update[u].attempts - 1 /\ row \in CountedRows
        BY <2>5, <3>1, <3>3, <4>1 DEF CountedRows
      <4>3. QED BY <1>1, <2>2, <2>3, <2>5, <4>2, <3>1, UpdateNow DEF Counted
    <3>4. CASE row = [update[v] EXCEPT !.status = "completed"]
      <4>1. row.status = "completed" /\ row.attempts = update[u].attempts /\ row \in CountedRows
        BY <2>5, <3>1, <3>4 DEF CountedRows
      <4>2. QED BY <1>1, <2>2, <2>3, <2>5, <4>1, <3>1, UpdateNow DEF Counted
    <3>5. QED BY <2>1, <3>2, <3>3, <3>4
  <2>6. QED BY <2>4, <2>5
<1>5. ASSUME update' = update, svc'.batch = svc.batch PROVE Counted(u)
  BY <1>1, <1>5, CountedSame
<1>6. CASE Recover \/ Start \/ Top \/ ClearExpiredAway \/ Hook \/ CountActions \/ CountJobs
  <2>1. PICK P : Onward(P) BY <1>6, RecoverOnward, GoSteps, TopOnward, CheckOnward
  <2>2. update' = update BY <1>6 DEF Recover, Start, Top, ClearExpiredAway, Hook, CountActions, CountJobs
  <2>3. QED BY <1>5, <2>1, <2>2 DEF Onward, Stops
<1>7. ASSUME NEW v \in Updates,
             EnqueueJob(v) \/ Acknowledge(v) \/ ReleaseAway(v) \/ HandleCommand(v)
      PROVE  Counted(u)
  <2>1. PICK P : Onward(P) BY <1>7, GoSteps
  <2>2. update' = update BY <1>7 DEF EnqueueJob, Acknowledge, ReleaseAway, HandleCommand
  <2>3. QED BY <1>5, <2>1, <2>2 DEF Onward, Stops
<1>8. CASE Delivery
  <2>1. CASE Hook BY <1>6, <2>1
  <2>2. CASE Drain \/ (\E a \in Actions : Send(a)) \/ Mark \/ Drained
    <3>1. update' = update BY <2>2 DEF Drain, Send, Mark, Drained
    <3>2. QED BY <1>5, <2>2, <3>1, DeliveryMoves
  <2>3. QED BY <1>8, <2>1, <2>2 DEF Delivery
<1>9. CASE WriteControl
  <2>1. update' = update BY <1>9 DEF WriteControl
  <2>2. QED BY <1>5, <1>9, <2>1, WriteMoves
<1>10. QED BY <1>2, <1>3, <1>4, <1>6, <1>7, <1>8, <1>9 DEF Service, Intake

\* The table of updates keeps its keys.
LEMMA UpdateRemains ==
  ASSUME ServiceInv, [Next]_vars
  PROVE  update' = [u \in Updates |-> update'[u]]
<1> DEFINE Goal == update' = [u \in Updates |-> update'[u]]
<1>1. update = [u \in Updates |-> update[u]] BY DEF ServiceInv, TypeOK
<1>2. ASSUME update' = update PROVE Goal BY <1>1, <1>2
<1>3. ASSUME NEW v, NEW row, update' = [update EXCEPT ![v] = row] PROVE Goal BY <1>1, <1>3
<1>4. ASSUME NEW v \in Updates, StoreUpdate(v) PROVE Goal
  BY <1>3, <1>4 DEF StoreUpdate
<1>5. CASE RecoverLeases BY <1>5 DEF RecoverLeases
<1>6. CASE ClaimUpdates BY <1>6, ClaimMoves
<1>7. ASSUME NEW v \in Updates, FailUpdate(v) \/ ReleaseUpdate(v) \/ CompleteUpdate(v) PROVE Goal
  BY <1>3, <1>7 DEF FailUpdate, ReleaseUpdate, CompleteUpdate, Leave
<1>8. ASSUME NEW v \in Updates,
             EnqueueJob(v) \/ Acknowledge(v) \/ ReleaseAway(v) \/ HandleCommand(v)
      PROVE  update' = update
  BY <1>8 DEF EnqueueJob, Acknowledge, ReleaseAway, HandleCommand
<1>9. ASSUME \/ Recover \/ Start \/ Top \/ ClearExpiredAway \/ Delivery \/ CountActions \/ CountJobs \/ Exit
             \/ WriteControl
      PROVE  update' = update
  BY <1>9 DEF Recover, Start, Top, ClearExpiredAway, Delivery, Drain, Send, Mark, Hook, Drained,
     CountActions, CountJobs, Exit, WriteControl
<1>10. ASSUME Boot \/ Crash \/ Engage \/ RetryComesDue \/ TimePasses \/ Relay \/ UNCHANGED vars
       PROVE  update' = update
  BY <1>10 DEF Boot, Crash, Engage, RetryComesDue, TimePasses, TimerRunsOut, Relay, RunJob, DropJob, AnswerJob, SendInterrupt,
     ReadInterrupts, WriteInterrupts, RelayEnds, vars
<1>11. CASE Service
  BY <1>11, <1>2, <1>5, <1>6, <1>7, <1>8, <1>9 DEF Service, Intake
<1>12. QED BY <1>2, <1>4, <1>10, <1>11 DEF Next, TimePasses

\* Every step counts them: what a crash leaves behind is paid for by the next start.
LEMMA AttemptsStep ==
  ASSUME ServiceInv, [Next]_vars
  PROVE  AttemptsCounted' /\ update' \in [Updates -> CountedRows]
<1>1. ASSUME NEW u \in Updates PROVE Counted(u)
  <2>1. ASSUME update' = update, svc' = svc, boots' = boots PROVE Counted(u)
    BY <2>1, CountedSame
  <2>2. CASE Boot
    <3>1. svc'.batch = {} /\ boots' = boots + 1 BY <2>2, ResetSteps DEF Reset
    <3>2. update' = update BY <2>2 DEF Boot
    <3>3. ~(u \in svc'.batch) BY <3>1
    <3>4. QED BY <3>1, <3>2, <3>3, UpdateNow DEF Counted, CountedRows
  <2>3. CASE Crash
    <3>1. svc'.batch = {} /\ svc'.pc = "down" /\ boots' = boots BY <2>3, ResetSteps DEF Reset
    <3>2. update' = update BY <2>3 DEF Crash
    <3>3. ~(u \in svc'.batch) BY <3>1
    <3>4. QED BY <3>1, <3>2, <3>3, UpdateNow DEF Counted
  <2>4. CASE Exit
    <3>1. svc'.batch = {} /\ svc.pc = "exit" /\ boots' = boots BY <2>4, ResetSteps DEF Reset
    <3>2. update' = update BY <2>4 DEF Exit
    <3>3. svc.batch = {} BY <3>1, NoBatch DEF BatchPcs
    <3>4. QED BY <3>1, <3>2, <3>3, CountedSame
  <2>5. ASSUME NEW v \in Updates, StoreUpdate(v) PROVE Counted(u)
    <3>1. svc' = svc /\ boots' = boots /\ boots >= 1 /\ boots \in Nat
      BY <2>5, OthersLeaveLoop DEF StoreUpdate, ServiceInv, Loop, Stops, TypeOK
    <3>2. update' = [update EXCEPT ![v].status = "pending"] /\ update[v].status = "absent"
      BY <2>5 DEF StoreUpdate
    <3>3. CASE u # v
      <4>1. update'[u] = update[u] BY <3>2, <3>3 DEF ServiceInv, TypeOK
      <4>2. QED BY <3>1, <4>1, CountedSame
    <3>4. CASE u = v
      <4>1. update[u] \in CountedRows /\ update[u].attempts = 0 /\ u \notin svc.batch
        BY <3>2, <3>4, UpdateNow
      <4>2. update'[u] = [update[u] EXCEPT !.status = "pending"] BY <3>2, <3>4 DEF ServiceInv, TypeOK
      <4>3. update'[u].status = "pending" /\ update'[u].attempts = 0 /\ update'[u] \in CountedRows
        BY <4>1, <4>2 DEF CountedRows
      <4>4. QED BY <3>1, <4>1, <4>3, UpdateNow DEF Counted
    <3>5. QED BY <3>3, <3>4
  <2>6. CASE Engage \/ RetryComesDue \/ TimePasses \/ Relay \/ UNCHANGED vars
    <3>1. update' = update
      BY <2>6 DEF Engage, RetryComesDue, TimePasses, TimerRunsOut, Relay, RunJob, DropJob, AnswerJob, SendInterrupt,
         ReadInterrupts, WriteInterrupts, RelayEnds, vars
    <3>2. QED BY <2>1, <2>6, <3>1, OthersLeaveLoop
  <2>7. CASE Service BY <2>4, <2>7, IntakeCounts
  <2>8. QED BY <2>2, <2>3, <2>5, <2>6, <2>7 DEF Next, TimePasses
<1>2. AttemptsCounted' BY <1>1 DEF Counted, AttemptsCounted
<1>3. update' = [u \in Updates |-> update'[u]] BY UpdateRemains
<1>4. QED BY <1>1, <1>2, <1>3 DEF Counted

-----------------------------------------------------------------------------
(***************************************************************************)
(* Bot API calls.                                                          *)
(***************************************************************************)
LEMMA OutboundKept ==
  ASSUME ServiceInv, [Next]_vars
  PROVE  Table!OutboundInv'
<1>1. [Table!Next]_action BY OutboundRefines, SameSteps
<1>2. Table!OutboundInv BY DEF ServiceInv
<1>3. QED BY <1>1, <1>2, Table!OutboundStep

\* The rows and the counters of calls.
LEMMA ActionRows ==
  ASSUME ServiceInv
  PROVE  /\ action \in [Actions -> Outbound!OutboundRows]
         /\ delivered \in [Actions -> 0..2]
BY DEF ServiceInv, TypeOK, Outbound!OutboundTypeOK

\* What has been sent stays sent.
SentStays == \A a \in Actions : action[a].status = "sent" => action'[a].status = "sent"

\* No step of the table unsends an action.
LEMMA SentRemains ==
  ASSUME ServiceInv, [Next]_vars
  PROVE  SentStays
<1>1. [Outbound!Next]_action BY OutboundRefines
<1>2. action \in [Actions -> Outbound!OutboundRows] BY ActionRows
<1>3. ASSUME NEW S, NEW row, Outbound!SetRows(S, row),
             \A a \in S : action[a].status # "sent" \/ row.status = "sent"
      PROVE  SentStays
  BY <1>3 DEF Outbound!SetRows, SentStays
<1>4. ASSUME NEW S, Outbound!CreateOutboundActions(S) PROVE SentStays
  <2>1. \A a \in S \cap Outbound!With("absent") : action[a].status # "sent" BY DEF Outbound!With
  <2>2. QED BY <1>3, <1>4, <2>1 DEF Outbound!CreateOutboundActions
<1>5. ASSUME NEW S, Outbound!ClaimDueOutboundActions(S) PROVE SentStays
  <2>1. \A a \in S : action[a].status # "sent"
    BY <1>5 DEF Outbound!ClaimDueOutboundActions, Outbound!Claimable, Outbound!Due,
       Outbound!Waiting, Outbound!With
  <2>2. QED BY <1>5, <2>1 DEF Outbound!ClaimDueOutboundActions, SentStays
<1>6. ASSUME NEW S, Outbound!SupersedeOutboundActions(S) PROVE SentStays
  <2>1. \A a \in S \cap Outbound!Waiting : action[a].status # "sent"
    BY DEF Outbound!Waiting, Outbound!With
  <2>2. QED BY <1>3, <1>6, <2>1 DEF Outbound!SupersedeOutboundActions
<1>7. ASSUME NEW a,
             \/ Outbound!MarkOutboundSent(a) \/ Outbound!MarkOutboundAmbiguous(a)
             \/ \E due \in {"never", "later"} : Outbound!MarkOutboundFailed(a, due)
      PROVE  SentStays
  <2>1. action[a].status = "sending"
    BY <1>7 DEF Outbound!MarkOutboundSent, Outbound!MarkOutboundAmbiguous,
       Outbound!MarkOutboundFailed, Outbound!With
  <2>2. PICK row : Outbound!SetRows({a}, row)
    BY <1>7 DEF Outbound!MarkOutboundSent, Outbound!MarkOutboundAmbiguous, Outbound!MarkOutboundFailed
  <2>3. QED BY <1>3, <2>1, <2>2
<1>8. ASSUME NEW a, Outbound!RetryComesDue(a) PROVE SentStays
  <2>1. action[a].status # "sent" BY <1>8 DEF Outbound!RetryComesDue, Outbound!Waiting, Outbound!With
  <2>2. QED BY <1>3, <1>8, <2>1 DEF Outbound!RetryComesDue
<1>9. ASSUME Outbound!RecoverInterruptedOutboundActions PROVE SentStays
  <2>1. \A a \in Outbound!With("sending") : action[a].status # "sent" BY DEF Outbound!With
  <2>2. QED BY <1>3, <1>9, <2>1 DEF Outbound!RecoverInterruptedOutboundActions
<1>10. CASE UNCHANGED action BY <1>10 DEF SentStays
<1>11. QED BY <1>1, <1>4, <1>5, <1>6, <1>7, <1>8, <1>9, <1>10 DEF Outbound!Next

\* An action whose call may still be made, or was not carried out.
Untold(row) == row.status \in {"absent", "pending"} \/ (row.status = "failed" /\ row.due # "never")

\* One action after the step.
Called(a) ==
  /\ delivered'[a] \in 0..1
  /\ action'[a].status = "sent" => delivered'[a] = 1
  /\ Untold(action'[a]) => delivered'[a] = 0
  /\ a \in svc'.sends => action'[a].status = "sending" /\ delivered'[a] = 0
  /\ delivered'[a] > delivered[a] => Table!Before(a) \subseteq Table!With("sent")

\* One action before the step.
LEMMA CallNow ==
  ASSUME ServiceInv, NEW a \in Actions
  PROVE  /\ delivered[a] \in 0..1
         /\ action[a] \in Outbound!OutboundRows
         /\ action[a].status = "sent" => delivered[a] = 1
         /\ Untold(action[a]) => delivered[a] = 0
         /\ a \in svc.sends => action[a].status = "sending" /\ delivered[a] = 0
<1>1. delivered[a] \in 0..2 /\ action[a] \in Outbound!OutboundRows BY ActionRows
<1>2. CallsOnce BY DEF ServiceInv
<1>3. QED BY <1>1, <1>2 DEF CallsOnce, Untold

\* An action that the step does not touch.
LEMMA CallSame ==
  ASSUME ServiceInv, NEW a \in Actions, action'[a] = action[a], delivered'[a] = delivered[a],
         a \in svc'.sends => a \in svc.sends
  PROVE  Called(a)
BY CallNow DEF Called

\* An action that is created, or whose retry comes due, has not been told to Telegram.
LEMMA CallWaits ==
  ASSUME ServiceInv, NEW a \in Actions, delivered' = delivered,
         svc'.sends = svc.sends,
         \/ \E S : Outbound!CreateOutboundActions(S)
         \/ \E c : Outbound!RetryComesDue(c)
  PROVE  Called(a)
<1>1. CASE \E S : Outbound!CreateOutboundActions(S)
  <2>1. action'[a] = action[a] \/ (action[a].status = "absent" /\ action'[a].status = "pending")
    BY <1>1 DEF Outbound!CreateOutboundActions, Outbound!SetRows, Outbound!With, Outbound!Row
  <2>2. QED BY <2>1, CallNow, CallSame DEF Called, Untold
<1>2. ASSUME NEW c, Outbound!RetryComesDue(c) PROVE Called(a)
  <2>1. \/ action'[a] = action[a]
        \/ /\ action[a].status \in {"pending", "failed"} /\ action[a].due = "later"
           /\ action'[a].status = action[a].status
    BY <1>2 DEF Outbound!RetryComesDue, Outbound!SetRows, Outbound!Waiting, Outbound!With, Outbound!Row
  <2>2. QED BY <2>1, CallNow, CallSame DEF Called, Untold
<1>3. QED BY <1>1, <1>2

\* The steps of the drain: claimed once, sent in order, and marked with its outcome.
LEMMA DrainCalls ==
  ASSUME ServiceInv, NEW a \in Actions, Drain \/ (\E b \in Actions : Send(b)) \/ Mark \/ Drained
  PROVE  Called(a)
<1>1. svc \in SvcStates BY DEF ServiceInv, TypeOK
<1>2. CASE Drain
  <2>1. PICK S \in SUBSET Actions :
          /\ Outbound!ClaimDueOutboundActions(S)
          /\ svc' = [svc EXCEPT !.pc = "send", !.sends = S, !.sent = S # {}]
    BY <1>2 DEF Drain
  <2>2. svc'.sends = S /\ delivered' = delivered BY <1>1, <1>2, <2>1 DEF SvcStates, Drain
  <2>3. action'[a] = IF a \in S THEN [action[a] EXCEPT !.status = "sending"] ELSE action[a]
    BY <2>1 DEF Outbound!ClaimDueOutboundActions
  <2>4. a \in S => action[a].status \in {"pending", "failed"} /\ action[a].due = "now"
    BY <2>1 DEF Outbound!ClaimDueOutboundActions, Outbound!Claimable, Outbound!Due,
       Outbound!Waiting, Outbound!With
  <2>5. CASE a \in S
    <3>1. action'[a].status = "sending" BY <2>3, <2>5, CallNow DEF Outbound!OutboundRows
    <3>2. delivered[a] = 0 BY <2>4, <2>5, CallNow DEF Untold
    <3>3. QED BY <2>2, <3>1, <3>2 DEF Called, Untold
  <2>6. CASE a \notin S BY <2>2, <2>3, <2>6, CallSame
  <2>7. QED BY <2>5, <2>6
<1>3. ASSUME NEW b \in Actions, Send(b) PROVE Called(a)
  <2>1. b \in svc.sends /\ action' = action BY <1>3 DEF Send
  <2>2. PICK outcome \in Outcomes, done \in BOOLEAN :
          /\ delivered' = [delivered EXCEPT ![b] = IF done THEN @ + 1 ELSE @]
          /\ svc' = [svc EXCEPT !.pc = "mark", !.current = b, !.outcome = outcome, !.sends = @ \ {b}]
    BY <1>3 DEF Send
  <2>3. svc'.sends = svc.sends \ {b} BY <1>1, <2>2 DEF SvcStates
  <2>4. CASE a = b
    <3>1. action[a].status = "sending" /\ delivered[a] = 0 BY <2>1, <2>4, CallNow
    <3>2. delivered'[a] \in 0..1 BY <2>2, <2>4, <3>1, ActionRows
    <3>3. Table!Before(a) \subseteq Table!With("sent")
      BY <3>1 DEF ServiceInv, Table!OutboundInv, Table!SentInOrder, Table!With
    <3>4. QED BY <2>1, <2>3, <2>4, <3>1, <3>2, <3>3 DEF Called, Untold
  <2>5. CASE a # b
    <3>1. delivered'[a] = delivered[a] BY <2>2, <2>5, ActionRows
    <3>2. QED BY <2>1, <2>3, <3>1, CallSame
  <2>6. QED BY <2>4, <2>5
<1>4. CASE Mark
  <2> DEFINE b == svc.current
  <2>1. /\ b \in Actions /\ b \notin svc.sends /\ action[b].status = "sending"
        /\ svc.outcome \in Outcomes
        /\ svc.outcome = "ok" => delivered[b] = 1
        /\ svc.outcome = "rate_limited" => delivered[b] = 0
    BY <1>4 DEF ServiceInv, CallsOnce, Mark
  <2>2. svc' = [svc EXCEPT !.pc = "hook", !.outcome = "none"] /\ delivered' = delivered BY <1>4 DEF Mark
  <2>3. svc'.sends = svc.sends BY <1>1, <2>2 DEF SvcStates
  <2>4. \/ svc.outcome = "ok" /\ Outbound!MarkOutboundSent(b)
        \/ svc.outcome = "rate_limited" /\ Outbound!MarkOutboundFailed(b, "later")
        \/ Outbound!MarkOutboundAmbiguous(b) \/ Outbound!MarkOutboundFailed(b, "never")
    BY <1>4, <2>1 DEF Mark, Outcomes
  <2>5. action'[a] = action[a] \/ a = b
    BY <2>4 DEF Outbound!MarkOutboundSent, Outbound!MarkOutboundFailed,
       Outbound!MarkOutboundAmbiguous, Outbound!SetRows
  <2>6. \/ svc.outcome = "ok" /\ action'[b] = Outbound!Row("sent", "never")
        \/ svc.outcome = "rate_limited" /\ action'[b] = Outbound!Row("failed", "later")
        \/ action'[b] = Outbound!Row("ambiguous", "never")
        \/ action'[b] = Outbound!Row("failed", "never")
    BY <2>1, <2>4 DEF Outbound!MarkOutboundSent, Outbound!MarkOutboundFailed,
       Outbound!MarkOutboundAmbiguous, Outbound!SetRows
  <2>7. CASE a = b
    <3>1. Untold(action'[b]) => svc.outcome = "rate_limited" BY <2>6 DEF Untold, Outbound!Row
    <3>2. action'[b].status = "sent" => svc.outcome = "ok" BY <2>6 DEF Outbound!Row
    <3>3. QED BY <2>1, <2>2, <2>3, <2>7, <3>1, <3>2, CallNow DEF Called
  <2>8. CASE a # b BY <2>2, <2>3, <2>5, <2>8, CallSame
  <2>9. QED BY <2>7, <2>8
<1>5. CASE Drained
  <2>1. svc.sends = {} /\ UNCHANGED <<action, delivered>> BY <1>5 DEF Drained
  <2>2. svc'.sends = svc.sends BY <1>1, <1>5 DEF Drained, SvcStates
  <2>3. QED BY <2>1, <2>2, CallSame
<1>6. QED BY <1>2, <1>3, <1>4, <1>5

\* The step makes no call, and touches the table at most to create or to retry.
CallsRest ==
  /\ delivered' = delivered
  /\ svc' = svc \/ svc'.pc \notin {"mark", "hook"}
  /\ \/ action' = action /\ svc'.sends \in {{}, svc.sends}
     \/ /\ svc'.sends = svc.sends
        /\ (\E S : Outbound!CreateOutboundActions(S)) \/ (\E c : Outbound!RetryComesDue(c))

\* All steps but those of the drain, and a start.
LEMMA OtherSteps ==
  ASSUME ServiceInv, [Next]_vars
  PROVE  CallsRest \/ Boot \/ Drain \/ (\E a \in Actions : Send(a)) \/ Mark \/ Drained
<1>1. ASSUME svc' = svc, UNCHANGED <<action, delivered>> PROVE CallsRest BY <1>1 DEF CallsRest
<1>2. CASE Crash \/ Exit
  <2>1. svc'.sends = {} /\ svc'.pc \in {"down", "exited"} BY <1>2, ResetSteps DEF Reset
  <2>2. UNCHANGED <<action, delivered>> BY <1>2 DEF Crash, Exit
  <2>3. QED BY <2>1, <2>2 DEF CallsRest
<1>3. ASSUME NEW P, Onward(P), UNCHANGED <<action, delivered>> PROVE CallsRest
  BY <1>3 DEF Onward, CallsRest
<1>4. CASE Recover \/ Start \/ Top \/ RecoverLeases \/ ClearExpiredAway \/ Hook \/ CountActions \/ CountJobs
  <2>1. PICK P : Onward(P) BY <1>4, RecoverOnward, GoSteps, TopOnward, CheckOnward
  <2>2. UNCHANGED <<action, delivered>>
    BY <1>4 DEF Recover, Start, Top, RecoverLeases, ClearExpiredAway, Hook, CountActions, CountJobs
  <2>3. QED BY <1>3, <2>1, <2>2
<1>5. ASSUME NEW u \in Updates, EnqueueJob(u) \/ ReleaseAway(u) \/ HandleCommand(u) PROVE CallsRest
  <2>1. PICK P : Onward(P) BY <1>5, GoSteps
  <2>2. UNCHANGED <<action, delivered>> BY <1>5 DEF EnqueueJob, ReleaseAway, HandleCommand
  <2>3. QED BY <1>3, <2>1, <2>2
<1>6. ASSUME NEW u \in Updates, Acknowledge(u) PROVE CallsRest
  <2>1. Onward({"complete"}) BY <1>6, GoSteps
  <2>2. delivered' = delivered /\ \E S : Outbound!CreateOutboundActions(S) BY <1>6 DEF Acknowledge
  <2>3. QED BY <2>1, <2>2 DEF CallsRest, Onward
<1>7. CASE ClaimUpdates
  <2>1. UNCHANGED <<action, delivered>> BY <1>7 DEF ClaimUpdates
  <2>2. QED BY <1>7, <2>1, ClaimMoves DEF CallsRest
<1>8. ASSUME NEW u \in Updates, FailUpdate(u) \/ ReleaseUpdate(u) \/ CompleteUpdate(u) PROVE CallsRest
  <2>1. PICK row : Current(u) /\ Leave(u, row)
    BY <1>8 DEF FailUpdate, ReleaseUpdate, CompleteUpdate
  <2>2. UNCHANGED <<action, delivered>> BY <1>8 DEF FailUpdate, ReleaseUpdate, CompleteUpdate
  <2>3. QED BY <2>1, <2>2, LeaveMoves DEF CallsRest
<1>9. CASE WriteControl
  <2>1. svc.then \notin Stops BY DEF ServiceInv, Loop
  <2>2. UNCHANGED <<action, delivered>> BY <1>9 DEF WriteControl
  <2>3. QED BY <1>9, <2>1, <2>2, WriteMoves DEF CallsRest, Stops
<1>10. CASE RetryComesDue BY <1>10 DEF RetryComesDue, CallsRest
<1>11. CASE AnswerJob
  <2>1. svc' = svc /\ delivered' = delivered BY <1>11 DEF AnswerJob
  <2>2. action' = action \/ (\E S : Outbound!CreateOutboundActions(S)) BY <1>11 DEF AnswerJob
  <2>3. QED BY <2>1, <2>2 DEF CallsRest
<1>12. ASSUME \/ Engage \/ TimePasses \/ RunJob \/ DropJob \/ ReadInterrupts \/ WriteInterrupts \/ RelayEnds
              \/ (\E u \in Updates : SendInterrupt(u) \/ StoreUpdate(u)) \/ UNCHANGED vars
       PROVE  CallsRest
  <2>1. svc' = svc /\ UNCHANGED <<action, delivered>>
    BY <1>12 DEF Engage, TimePasses, TimerRunsOut, RunJob, DropJob, ReadInterrupts, WriteInterrupts, RelayEnds, SendInterrupt,
       StoreUpdate, vars
  <2>2. QED BY <1>1, <2>1
<1>13. CASE Relay BY <1>11, <1>12, <1>13 DEF Relay
<1>14. CASE Service
  BY <1>2, <1>4, <1>5, <1>6, <1>7, <1>8, <1>9, <1>14 DEF Service, Intake, Delivery
<1>15. QED BY <1>2, <1>10, <1>12, <1>13, <1>14 DEF Next, TimePasses

\* Every action after any step.
LEMMA CalledStep ==
  ASSUME ServiceInv, [Next]_vars, NEW a \in Actions
  PROVE  Called(a)
<1>1. CASE CallsRest
  <2>1. CASE action' = action /\ svc'.sends \in {{}, svc.sends}
    BY <1>1, <2>1, CallSame DEF CallsRest
  <2>2. CASE /\ svc'.sends = svc.sends
             /\ (\E S : Outbound!CreateOutboundActions(S)) \/ (\E c : Outbound!RetryComesDue(c))
    BY <1>1, <2>2, CallWaits DEF CallsRest
  <2>3. QED BY <1>1, <2>1, <2>2 DEF CallsRest
<1>2. CASE Boot
  <2>1. svc'.sends = {} BY <1>2, ResetSteps DEF Reset
  <2>2. delivered' = delivered BY <1>2 DEF Boot
  <2>3. action'[a] = action[a] \/ action'[a] = [status |-> "ambiguous", due |-> "never"]
    BY <1>2 DEF Boot, Outbound!RecoverInterruptedOutboundActions, Outbound!SetRows, Outbound!Row
  <2>4. QED BY <2>1, <2>2, <2>3, CallNow, CallSame DEF Called, Untold
<1>3. QED BY <1>1, <1>2, OtherSteps, DrainCalls

\* The call that the loop is about to record.
LEMMA MarkStep ==
  ASSUME ServiceInv, [Next]_vars
  PROVE  /\ At("mark")' =>
              /\ svc'.current \in Actions /\ svc'.current \notin svc'.sends
              /\ action'[svc'.current].status = "sending"
              /\ svc'.outcome \in Outcomes
              /\ svc'.outcome = "ok" => delivered'[svc'.current] = 1
              /\ svc'.outcome = "rate_limited" => delivered'[svc'.current] = 0
         /\ At("hook")' => svc'.current \in Actions
<1> DEFINE Goal ==
      /\ At("mark")' =>
           /\ svc'.current \in Actions /\ svc'.current \notin svc'.sends
           /\ action'[svc'.current].status = "sending"
           /\ svc'.outcome \in Outcomes
           /\ svc'.outcome = "ok" => delivered'[svc'.current] = 1
           /\ svc'.outcome = "rate_limited" => delivered'[svc'.current] = 0
      /\ At("hook")' => svc'.current \in Actions
<1>1. svc \in SvcStates BY DEF ServiceInv, TypeOK
<1>2. ASSUME svc'.pc \notin {"mark", "hook"} PROVE Goal BY <1>2 DEF At
<1>3. CASE Boot BY <1>2, <1>3, ResetSteps DEF Reset
<1>4. CASE Drain
  <2>1. svc'.pc = "send" BY <1>1, <1>4 DEF Drain, SvcStates
  <2>2. QED BY <1>2, <2>1
<1>5. CASE Drained
  <2>1. svc'.pc \in {"busy", "top"} BY <1>1, <1>5 DEF Drained, SvcStates
  <2>2. QED BY <1>2, <2>1
<1>6. CASE Mark
  <2>1. svc'.pc = "hook" /\ svc'.current = svc.current BY <1>1, <1>6 DEF Mark, SvcStates
  <2>2. svc.current \in Actions BY <1>6 DEF Mark, ServiceInv, CallsOnce
  <2>3. QED BY <2>1, <2>2 DEF At
<1>7. ASSUME NEW a \in Actions, Send(a) PROVE Goal
  <2>1. PICK outcome \in Outcomes, done \in BOOLEAN :
          /\ outcome = "ok" => done
          /\ outcome = "rate_limited" => ~done
          /\ delivered' = [delivered EXCEPT ![a] = IF done THEN @ + 1 ELSE @]
          /\ svc' = [svc EXCEPT !.pc = "mark", !.current = a, !.outcome = outcome, !.sends = @ \ {a}]
    BY <1>7 DEF Send
  <2>2. svc'.pc = "mark" /\ svc'.current = a /\ svc'.outcome = outcome /\ svc'.sends = svc.sends \ {a}
    BY <1>1, <2>1 DEF SvcStates
  <2>3. action' = action /\ action[a].status = "sending" /\ delivered[a] = 0
    BY <1>7, CallNow DEF Send
  <2>4. delivered'[a] = IF done THEN 1 ELSE 0 BY <2>1, <2>3, ActionRows
  <2>5. QED BY <2>1, <2>2, <2>3, <2>4 DEF At
<1>8. CASE CallsRest
  <2>1. CASE svc' = svc
    <3>1. ASSUME At("mark") PROVE Goal
      <4>1. /\ svc.current \in Actions /\ svc.current \notin svc.sends
            /\ action[svc.current].status = "sending" /\ svc.outcome \in Outcomes
            /\ svc.outcome = "ok" => delivered[svc.current] = 1
            /\ svc.outcome = "rate_limited" => delivered[svc.current] = 0
        BY <3>1 DEF ServiceInv, CallsOnce
      <4>2. action'[svc.current] = action[svc.current]
        BY <1>8, <4>1 DEF CallsRest, Outbound!CreateOutboundActions, Outbound!RetryComesDue,
           Outbound!SetRows, Outbound!With, Outbound!Waiting
      <4>3. delivered' = delivered BY <1>8 DEF CallsRest
      <4>4. QED BY <2>1, <4>1, <4>2, <4>3 DEF At
    <3>2. ASSUME At("hook") PROVE Goal BY <2>1, <3>2 DEF At, ServiceInv, CallsOnce
    <3>3. QED BY <1>2, <2>1, <3>1, <3>2 DEF At
  <2>2. QED BY <1>2, <1>8, <2>1 DEF CallsRest
<1>9. QED BY <1>3, <1>4, <1>5, <1>6, <1>7, <1>8, OtherSteps

\* No step makes a call twice or out of order.
LEMMA CallsStep ==
  ASSUME ServiceInv, [Next]_vars
  PROVE  CallsOnce'
<1>1. ASSUME NEW a \in Actions
      PROVE  /\ delivered'[a] <= 1
             /\ action'[a].status = "sent" => delivered'[a] = 1
             /\ Untold(action'[a]) => delivered'[a] = 0
             /\ a \in svc'.sends => action'[a].status = "sending" /\ delivered'[a] = 0
             /\ delivered'[a] > 0 => Table!Before(a) \subseteq Table!With("sent")'
  <2>1. Called(a) BY CalledStep
  <2>2. ASSUME delivered'[a] > 0 PROVE Table!Before(a) \subseteq Table!With("sent")
    <3>1. CASE delivered[a] > 0 BY <3>1 DEF ServiceInv, CallsOnce
    <3>2. CASE delivered'[a] > delivered[a] BY <2>1, <3>2 DEF Called
    <3>3. delivered[a] \in 0..1 /\ delivered'[a] \in 0..1 BY <2>1, CallNow DEF Called
    <3>4. QED BY <2>2, <3>1, <3>2, <3>3
  <2>3. Table!With("sent") \subseteq Table!With("sent")'
    BY SentRemains DEF SentStays, Table!With
  <2>4. QED BY <2>1, <2>2, <2>3 DEF Called
<1>2. QED BY <1>1, MarkStep DEF CallsOnce, Untold

-----------------------------------------------------------------------------
(***************************************************************************)
(* The three copies of the control row.                                    *)
(***************************************************************************)
\* A timer whose reply has arrived after the step.
StillConfirmed(timer) == timer \in Acks /\ Kind[timer[1]] = "away" /\ action'[timer].status = "sent"

\* The row is truthful after the step.
Proven(row) ==
  /\ row.disengage.phase # "none" => row.disengage.ack \in Acks
  /\ row.disengage.phase = "active" => action'[row.disengage.ack].status = "sent"
  /\ row.away.phase # "none" => row.away.ack \in Acks
  /\ row.away.phase = "pending" => Kind[row.away.ack[1]] = "away"
  /\ row.away.phase = "none" => row.away.until = None
  /\ row.away.phase = "active" => row.away.until # None
  /\ row.away.until # None => StillConfirmed(row.away.until)

\* What a row claims stays confirmed.
LEMMA TruthRemains ==
  ASSUME ServiceInv, [Next]_vars, NEW row, Truthful(row)
  PROVE  Proven(row)
<1>1. SentStays BY SentRemains
<1>2. Acks \subseteq Actions BY DEF Actions
<1>3. \A timer : Confirmed(timer) => StillConfirmed(timer)
  BY <1>1, <1>2 DEF Confirmed, StillConfirmed, SentStays
<1>4. QED BY <1>1, <1>2, <1>3 DEF Truthful, Proven, SentStays

\* Only the service records that a reply arrived.
LEMMA OthersSendNothing ==
  ASSUME ServiceInv,
         Engage \/ RetryComesDue \/ TimePasses \/ Relay \/ (\E u \in Updates : StoreUpdate(u)) \/ UNCHANGED vars
  PROVE  \A a \in Acks : action'[a].status = "sent" => action[a].status = "sent"
<1> DEFINE Goal == \A a \in Acks : action'[a].status = "sent" => action[a].status = "sent"
<1>0. Acks \subseteq Actions BY DEF Actions
<1>1. ASSUME UNCHANGED action PROVE Goal BY <1>1
<1>2. ASSUME NEW S, NEW row, row.status # "sent", Outbound!SetRows(S, row) PROVE Goal
  BY <1>0, <1>2 DEF Outbound!SetRows
<1>3. ASSUME RetryComesDue PROVE Goal
  <2>1. PICK a \in Actions : Outbound!RetryComesDue(a) BY <1>3 DEF RetryComesDue
  <2>2. action[a].status # "sent" BY <2>1 DEF Outbound!RetryComesDue, Outbound!Waiting, Outbound!With
  <2> DEFINE row == Outbound!Row(action[a].status, "now")
  <2>3. Outbound!SetRows({a}, row) BY <2>1 DEF Outbound!RetryComesDue
  <2>4. row.status # "sent" BY <2>2 DEF Outbound!Row
  <2> HIDE DEF row
  <2>5. QED BY <1>2, <2>3, <2>4
<1>4. ASSUME AnswerJob PROVE Goal
  <2>1. PICK u \in Messages :
          UNCHANGED action \/ Outbound!CreateOutboundActions({a \in Actions : GroupOf[a] = u})
    BY <1>4 DEF AnswerJob
  <2>2. ASSUME NEW S, Outbound!CreateOutboundActions(S) PROVE Goal
    <3>1. PICK row : row.status # "sent" /\ Outbound!SetRows(S \cap Outbound!With("absent"), row)
      BY <2>2 DEF Outbound!CreateOutboundActions, Outbound!Row
    <3>2. QED BY <1>2, <3>1
  <2>3. QED BY <1>1, <2>1, <2>2
<1>5. ASSUME \/ Engage \/ TimePasses \/ (\E u \in Updates : StoreUpdate(u)) \/ UNCHANGED vars
             \/ RunJob \/ DropJob \/ ReadInterrupts \/ WriteInterrupts \/ RelayEnds
             \/ (\E u \in Updates : SendInterrupt(u))
      PROVE  UNCHANGED action
  BY <1>5 DEF Engage, TimePasses, TimerRunsOut, StoreUpdate, vars, RunJob, DropJob, ReadInterrupts,
     WriteInterrupts, RelayEnds, SendInterrupt
<1>6. QED BY <1>1, <1>3, <1>4, <1>5 DEF Relay

\* The relay's copy, and what it and the operator write.
LEMMA RelayCopies ==
  ASSUME ServiceInv, Relay \/ Engage
  PROVE  /\ relay' \in RelayStates
         /\ Truthful(relay'.row)
         /\ control' \in {control, relay.row, NoControl}
<1>1. control \in ControlRows /\ Truthful(control) /\ relay \in RelayStates /\ Truthful(relay.row)
  BY DEF ServiceInv, TypeOK, CopiesTruthful
<1>2. NoControl \in ControlRows /\ Truthful(NoControl) BY RowTypes, NoControlTruthful
<1>3. RelayIdle \in RelayStates /\ RelayIdle.row = NoControl BY <1>1, <1>2 DEF RelayIdle, RelayStates
<1>4. CASE RunJob \/ DropJob \/ AnswerJob \/ Engage BY <1>1, <1>4 DEF RunJob, DropJob, AnswerJob, Engage
<1>5. ASSUME NEW u \in Updates, SendInterrupt(u)
      PROVE  /\ relay' \in RelayStates
             /\ Truthful(relay'.row)
             /\ control' = control
  <2>1. relay' = [relay EXCEPT !.pc = "inflight", !.request = u, !.heard = @ \cup {u}] /\ control' = control
    BY <1>5 DEF SendInterrupt
  <2>2. relay' \in RelayStates /\ relay'.row = relay.row BY <1>1, <2>1 DEF RelayStates
  <2>3. QED BY <1>1, <2>1, <2>2
<1>6. CASE ReadInterrupts
  <2> DEFINE copy == [control EXCEPT !.interrupts = @ \ {relay.request}]
  <2>1. control.interrupts \ {relay.request} \in SUBSET Updates BY <1>1 DEF ControlRows
  <2>2. copy \in ControlRows /\ Truthful(copy) BY <1>1, <2>1, RowFields, RowTypes, TruthfulInterrupts
  <2>3. control' = control /\ (relay' = [relay EXCEPT !.pc = "writing", !.row = copy] \/ relay' = RelayIdle)
    BY <1>6 DEF ReadInterrupts
  <2> HIDE DEF copy
  <2>4. CASE relay' = [relay EXCEPT !.pc = "writing", !.row = copy]
    <3>1. relay' \in RelayStates /\ relay'.row = copy BY <1>1, <2>2, <2>4 DEF RelayStates
    <3>2. QED BY <2>2, <2>3, <3>1
  <2>5. CASE relay' = RelayIdle BY <1>2, <1>3, <2>3, <2>5
  <2>6. QED BY <2>3, <2>4, <2>5
<1>7. CASE WriteInterrupts BY <1>2, <1>3, <1>7 DEF WriteInterrupts
<1>8. CASE RelayEnds BY <1>2, <1>3, <1>8 DEF RelayEnds
<1>9. QED BY <1>4, <1>5, <1>6, <1>7, <1>8 DEF Relay

\* Nobody else touches the relay's copy, and only WriteControl the row.
LEMMA OthersKeepRow ==
  ASSUME [Next]_vars, ~Relay, ~Engage
  PROVE  /\ relay' = relay
         /\ control' = control \/ (WriteControl /\ control' = svc.row)
<1> DEFINE Goal == /\ relay' = relay
                   /\ control' = control \/ (WriteControl /\ control' = svc.row)
<1>1. CASE \/ Boot \/ Crash \/ RetryComesDue \/ TimePasses \/ (\E u \in Updates : StoreUpdate(u)) \/ UNCHANGED vars
  BY <1>1 DEF Boot, Crash, RetryComesDue, TimePasses, TimerRunsOut, StoreUpdate, vars
<1>2. CASE Recover \/ Start \/ Top \/ CountActions \/ CountJobs \/ Exit \/ WriteControl
  BY <1>2 DEF Recover, Start, Top, CountActions, CountJobs, Exit, WriteControl
<1>3. CASE Intake
  BY <1>3 DEF Intake, RecoverLeases, ClearExpiredAway, ClaimUpdates, EnqueueJob, FailUpdate,
     ReleaseAway, ReleaseUpdate, HandleCommand, Acknowledge, CompleteUpdate
<1>4. CASE Delivery BY <1>4 DEF Delivery, Drain, Send, Mark, Hook, Drained
<1>5. QED BY <1>1, <1>2, <1>3, <1>4 DEF Next, TimePasses, Service

\* So these two are what they were, or what the service staged.
LEMMA OtherCopies ==
  ASSUME ServiceInv, [Next]_vars, ~(Relay \/ Engage)
  PROVE  relay' = relay /\ control' \in {control, svc.row}
BY OthersKeepRow

\* No copy ever claims more than Telegram has confirmed.
LEMMA CopiesStep ==
  ASSUME ServiceInv, [Next]_vars
  PROVE  CopiesTruthful' /\ control' \in ControlRows /\ relay' \in RelayStates
<1>1. /\ control \in ControlRows /\ relay \in RelayStates /\ relay.row \in ControlRows
      /\ svc.row \in ControlRows /\ NoControl \in ControlRows
  BY RowTypes DEF ServiceInv, TypeOK, RelayStates, SvcStates
<1>2. Truthful(control) /\ Truthful(relay.row) /\ Truthful(svc.row) /\ Truthful(NoControl)
  BY NoControlTruthful DEF ServiceInv, CopiesTruthful
<1>3. \E row \in ControlRows : Truthful(row) /\ control' = row
  BY <1>1, <1>2, RelayCopies, OtherCopies
<1>4. relay' \in RelayStates /\ \E row \in ControlRows : Truthful(row) /\ relay'.row = row
  BY <1>1, <1>2, RelayCopies, OtherCopies DEF RelayStates
<1>5. \E row \in ControlRows : Truthful(row) /\ svc'.row = row BY LoopStep DEF Honest
<1>6. ASSUME NEW row, Truthful(row) PROVE Proven(row) BY <1>6, TruthRemains
<1>7. Truthful(control)' BY <1>3, <1>6 DEF Truthful, Proven, Confirmed, StillConfirmed
<1>8. Truthful(relay.row)' BY <1>4, <1>6 DEF Truthful, Proven, Confirmed, StillConfirmed
<1>9. Truthful(svc.row)' BY <1>5, <1>6 DEF Truthful, Proven, Confirmed, StillConfirmed
<1>10. QED BY <1>3, <1>4, <1>7, <1>8, <1>9 DEF CopiesTruthful

-----------------------------------------------------------------------------
(***************************************************************************)
(* What the service makes of the away entry of the row.                    *)
(***************************************************************************)
\* AwayStep, for the outbound table act and the timers gone.
Legal(was, next, act, gone, released) ==
  \/ next.phase = "pending" /\ (next.until = was.until \/ (was.phase = "active" /\ was.until \in gone))
  \/ /\ was.phase = "pending" /\ act[was.ack].status = "sent"
     /\ next.phase = "active" /\ next.until = was.ack
  \/ /\ was.phase = "pending" /\ act[was.ack].status # "sent" /\ was.until # None
     /\ next.phase = "active" /\ next.until = was.until
  \/ /\ was.phase = "pending" /\ act[was.ack].status # "sent" /\ was.until = None
     /\ next.phase = "none"
  \/ was.phase = "active" /\ was.until \in gone /\ next.phase = "none"
  \/ released /\ next.phase = "none"

\* A row that the service goes on to write is a step from the one it read.
LegalRow(row, p) ==
  row.away = control.away \/ Legal(control.away, row.away, action, elapsed, p = "release")

Lawful == svc'.pc = "write" => LegalRow(svc'.row, svc'.then)

\* A row that is staged.
LEMMA StageLawful ==
  ASSUME ServiceInv, NEW p \in SvcPcs \ Stops, NEW row, Stage(row, p), LegalRow(row, p)
  PROVE  Lawful
<1>1. svc \in SvcStates BY DEF ServiceInv, TypeOK
<1>2. CASE row = control
  <2>1. svc' = [svc EXCEPT !.pc = p] BY <1>2 DEF Stage
  <2>2. svc'.pc = p BY <1>1, <2>1 DEF SvcStates
  <2>3. QED BY <2>2 DEF Lawful, Stops
<1>3. CASE row # control
  <2>1. svc' = [svc EXCEPT !.pc = "write", !.then = p, !.row = row] BY <1>3 DEF Stage
  <2>2. svc'.row = row /\ svc'.then = p BY <1>1, <2>1 DEF SvcStates
  <2>3. QED BY <2>2 DEF Lawful
<1>4. QED BY <1>2, <1>3

\* A jump writes nothing.
LEMMA GoLawful ==
  ASSUME ServiceInv, NEW p \in SvcPcs \ Stops, Go(p)
  PROVE  Lawful
<1>1. svc \in SvcStates BY DEF ServiceInv, TypeOK
<1>2. svc'.pc = p BY <1>1 DEF Go, SvcStates
<1>3. QED BY <1>2 DEF Lawful, Stops

\* What becomes of the away entry when the fate of a reply is known.
LEMMA SettleLawful ==
  ASSUME ServiceInv, NEW p \in SvcPcs \ Stops, NEW a
  PROVE  /\ action[a].status = "sent" => LegalRow(AckSent(control, a), p)
         /\ action[a].status # "sent" => LegalRow(AckTerminal(control, a), p)
         /\ SettleAck(a, p) => Lawful
<1>1. control \in ControlRows BY DEF ServiceInv, TypeOK
<1>2. control.away \in AwayRows /\ control.disengage \in DisengageRows BY <1>1, RowTypes
<1>3. ASSUME NEW w PROVE [control EXCEPT !.away = w].away = w BY <1>1 DEF ControlRows
<1>4. ASSUME NEW d PROVE [control EXCEPT !.disengage = d].away = control.away
  BY <1>1 DEF ControlRows
<1>5. ASSUME action[a].status = "sent" PROVE LegalRow(AckSent(control, a), p)
  <2> DEFINE own == [phase |-> "active", ack |-> a, until |-> a]
             d == [control.disengage EXCEPT !.phase = "active"]
  <2>1. own.phase = "active" /\ own.until = a OBVIOUS
  <2>2. [control EXCEPT !.disengage.phase = "active"] = [control EXCEPT !.disengage = d] OBVIOUS
  <2> HIDE DEF own, d
  <2>3. CASE control.away.phase = "pending" /\ control.away.ack = a
             /\ AckSent(control, a) = [control EXCEPT !.away = own]
    <3>1. AckSent(control, a).away = own BY <1>3, <2>3
    <3>2. QED BY <1>5, <2>1, <2>3, <3>1 DEF LegalRow, Legal
  <2>4. CASE AckSent(control, a) = [control EXCEPT !.disengage = d] BY <1>4, <2>4 DEF LegalRow
  <2>5. CASE AckSent(control, a) = control BY <2>5 DEF LegalRow
  <2>6. QED BY <2>2, <2>3, <2>4, <2>5, AckSentCases DEF own
<1>6. ASSUME action[a].status # "sent" PROVE LegalRow(AckTerminal(control, a), p)
  <2> DEFINE old == [control.away EXCEPT !.phase = "active"]
  <2>1. old.phase = "active" /\ old.until = control.away.until BY <1>2 DEF AwayRows
  <2>2. [control EXCEPT !.away.phase = "active"] = [control EXCEPT !.away = old] OBVIOUS
  <2> HIDE DEF old
  <2>3. CASE control.away.phase = "pending" /\ control.away.ack = a /\ control.away.until # None
             /\ AckTerminal(control, a) = [control EXCEPT !.away = old]
    <3>1. AckTerminal(control, a).away = old BY <1>3, <2>3
    <3>2. QED BY <1>6, <2>1, <2>3, <3>1 DEF LegalRow, Legal
  <2>4. CASE control.away.phase = "pending" /\ control.away.ack = a /\ control.away.until = None
             /\ AckTerminal(control, a) = [control EXCEPT !.away = NoAway]
    <3>1. AckTerminal(control, a).away = NoAway BY <1>3, <2>4
    <3>2. NoAway.phase = "none" BY DEF NoAway
    <3>3. QED BY <1>6, <2>4, <3>1, <3>2 DEF LegalRow, Legal
  <2>5. CASE AckTerminal(control, a) = [control EXCEPT !.disengage = NoDisengage]
    BY <1>4, <2>5 DEF LegalRow
  <2>6. CASE AckTerminal(control, a) = control BY <2>6 DEF LegalRow
  <2>7. QED BY <2>2, <2>3, <2>4, <2>5, <2>6, AckTerminalCases
<1>7. ASSUME SettleAck(a, p) PROVE Lawful
  <2>1. LegalRow(control, p) BY DEF LegalRow
  <2>2. QED BY <1>5, <1>6, <1>7, <2>1, SettleCases, StageLawful
<1>8. QED BY <1>5, <1>6, <1>7

\* What a command makes of it.
LEMMA RequestedLawful ==
  ASSUME ServiceInv, NEW u \in Updates
  PROVE  LegalRow(Requested(u), "acknowledge")
<1>1. control \in ControlRows /\ Truthful(control) BY DEF ServiceInv, TypeOK, CopiesTruthful
<1>2. control.away \in AwayRows BY <1>1, RowTypes
<1>3. CASE Kind[u] = "stop"
  <2>1. Requested(u).away = control.away BY <1>1, <1>3 DEF Requested, ControlRows
  <2>2. QED BY <2>1 DEF LegalRow
<1>4. CASE Kind[u] = "disengage"
  <2>1. Requested(u).away = control.away BY <1>1, <1>4 DEF Requested, ControlRows
  <2>2. QED BY <2>1 DEF LegalRow
<1>5. CASE Kind[u] \notin {"stop", "disengage"}
  <2> DEFINE p == IF Away THEN control.away.until ELSE None
  <2>1. Requested(u) = Asked(u, p) BY <1>5 DEF Requested
  <2>2. p = control.away.until \/ (control.away.phase = "active" /\ control.away.until \in elapsed)
    BY <1>1, <1>2 DEF Away, AwayRunning, Truthful, AwayRows
  <2> HIDE DEF p
  <2>3. Requested(u).away = [phase |-> "pending", ack |-> <<u, 0>>, until |-> p]
    BY <1>1, <2>1 DEF Asked, ControlRows
  <2>4. Requested(u).away.phase = "pending" /\ Requested(u).away.until = p BY <2>3
  <2>5. QED BY <2>2, <2>4 DEF LegalRow, Legal
<1>6. QED BY <1>3, <1>4, <1>5

\* Every step of the loop stages a lawful row, if it stages one.
LEMMA ServiceLawful ==
  ASSUME ServiceInv, Service, svc.pc # "write"
  PROVE  Lawful
<1>0. svc \in SvcStates /\ control \in ControlRows BY DEF ServiceInv, TypeOK
<1>1. ASSUME svc'.pc # "write" PROVE Lawful BY <1>1 DEF Lawful
<1>2. {"recover_disengage", "start", "top", "clear_away", "claim", "send", "complete", "release", "exit"}
        \subseteq SvcPcs \ Stops
  BY DEF SvcPcs, Stops
<1>3. ASSUME NEW entry, NEW p \in {"recover_disengage", "start"}, RecoverEntry(entry, p) PROVE Lawful
  <2>1. CASE Go(p) BY <1>2, <2>1, GoLawful
  <2>2. CASE SettleAck(entry.ack, p) BY <1>2, <2>2, SettleLawful
  <2>3. CASE action[entry.ack].status = "absent" /\ Stage(AckTerminal(control, entry.ack), p)
    <3>1. LegalRow(AckTerminal(control, entry.ack), p) BY <1>2, <2>3, SettleLawful
    <3>2. QED BY <1>2, <2>3, <3>1, StageLawful
  <2>4. QED BY <1>3, <2>1, <2>2, <2>3 DEF RecoverEntry
<1>4. CASE Recover BY <1>3, <1>4 DEF Recover
<1>5. [control EXCEPT !.away = NoAway].away.phase = "none"
  BY <1>0 DEF ControlRows, NoAway
<1>6. CASE ClearExpiredAway
  <2>1. CASE Go("claim") BY <1>2, <2>1, GoLawful
  <2>2. CASE /\ control.away.phase = "active" /\ ~AwayRunning
             /\ Stage([control EXCEPT !.away = NoAway], "claim")
    <3>1. LegalRow([control EXCEPT !.away = NoAway], "claim")
      BY <1>5, <2>2 DEF LegalRow, Legal, AwayRunning
    <3>2. QED BY <1>2, <2>2, <3>1, StageLawful
  <2>3. QED BY <1>6, <2>1, <2>2 DEF ClearExpiredAway
<1>7. CASE Hook BY <1>2, <1>7, SettleLawful DEF Hook
<1>8. ASSUME NEW u \in Updates, ReleaseAway(u) PROVE Lawful
  <2>1. LegalRow([control EXCEPT !.away = NoAway], "release") BY <1>5 DEF LegalRow, Legal
  <2>2. QED BY <1>2, <1>8, <2>1, StageLawful DEF ReleaseAway
<1>9. ASSUME NEW u \in Updates, HandleCommand(u) PROVE Lawful
  <2>1. CASE Go("complete") BY <1>2, <2>1, GoLawful
  <2>2. CASE svc' = [svc EXCEPT !.pc = "write", !.then = "acknowledge", !.row = Requested(u)]
    <3>1. svc'.row = Requested(u) /\ svc'.then = "acknowledge" BY <1>0, <2>2 DEF SvcStates
    <3>2. QED BY <3>1, RequestedLawful DEF Lawful
  <2>3. QED BY <1>9, <2>1, <2>2 DEF HandleCommand
<1>10. CASE CountJobs
  <2> DEFINE row == [control EXCEPT !.disengage.ready = @ \/ Disengaged]
  <2>1. row.away = control.away BY <1>0 DEF ControlRows
  <2>2. CASE Go("top") BY <1>2, <2>2, GoLawful
  <2>3. CASE Stage(row, "exit")
    <3>1. LegalRow(row, "exit") BY <2>1 DEF LegalRow
    <3> HIDE DEF row
    <3>2. QED BY <1>2, <2>3, <3>1, StageLawful
  <2>4. QED BY <1>10, <2>2, <2>3 DEF CountJobs
<1>11. CASE Start \/ RecoverLeases BY <1>2, <1>11, GoLawful DEF Start, RecoverLeases
<1>12. ASSUME NEW u \in Updates, EnqueueJob(u) \/ Acknowledge(u) PROVE Lawful
  BY <1>2, <1>12, GoLawful DEF EnqueueJob, Acknowledge
<1>13. CASE Top \/ CountActions
  <2>1. svc'.pc \in {"drain", "recover_leases", "top", "busy_jobs"}
    BY <1>0, <1>13 DEF Top, CountActions, SvcStates
  <2>2. QED BY <1>1, <2>1
<1>14. CASE Exit BY <1>1, <1>14, ResetSteps DEF Reset
<1>15. CASE ClaimUpdates BY <1>1, <1>15, ClaimMoves
<1>16. ASSUME NEW u \in Updates, FailUpdate(u) \/ ReleaseUpdate(u) \/ CompleteUpdate(u) PROVE Lawful
  <2>1. PICK row : Current(u) /\ Leave(u, row)
    BY <1>16 DEF FailUpdate, ReleaseUpdate, CompleteUpdate
  <2>2. QED BY <1>1, <2>1, LeaveMoves
<1>17. CASE Drain \/ (\E a \in Actions : Send(a)) \/ Mark \/ Drained
  <2>1. svc'.pc # "write" BY <1>0, <1>17 DEF Drain, Send, Mark, Drained, SvcStates
  <2>2. QED BY <1>1, <2>1
<1>18. ~WriteControl BY DEF WriteControl, At
<1>19. QED
  BY <1>4, <1>6, <1>7, <1>8, <1>9, <1>10, <1>11, <1>12, <1>13, <1>14, <1>15, <1>16, <1>17, <1>18
  DEF Service, Intake, Delivery

\* Nobody but a relay with a stop in hand comes between.
LEMMA StagedStep ==
  ASSUME ServiceInv, [Next]_vars
  PROVE  StagedAway'
<1> DEFINE Quiet == relay'.heard = {} => relay'.pc = "idle"
<1>0. StagedAway /\ relay \in RelayStates BY DEF ServiceInv, TypeOK
<1>1. Quiet /\ (relay'.heard = {} => relay.heard = {} /\ relay.pc = "idle")
  <2>1. CASE relay' = relay BY <1>0, <2>1 DEF StagedAway
  <2>2. ASSUME NEW u \in Updates, SendInterrupt(u) PROVE relay'.heard # {}
    <3>1. relay'.heard = relay.heard \cup {u} BY <1>0, <2>2 DEF SendInterrupt, RelayStates
    <3>2. QED BY <3>1
  <2>3. CASE ReadInterrupts \/ WriteInterrupts \/ RelayEnds
    <3>1. relay'.heard = relay.heard /\ relay.pc # "idle"
      BY <1>0, <2>3 DEF ReadInterrupts, WriteInterrupts, RelayEnds, RelayIdle, RelayStates
    <3>2. QED BY <1>0, <3>1 DEF StagedAway
  <2>4. CASE RunJob \/ DropJob \/ AnswerJob \/ Engage
    BY <1>0, <2>4 DEF RunJob, DropJob, AnswerJob, Engage, StagedAway
  <2>5. QED BY <2>1, <2>2, <2>3, <2>4, OtherCopies DEF Relay
<1>2. SUFFICES ASSUME svc'.pc = "write", relay'.heard = {}
               PROVE  svc'.row.away = control'.away
                        \/ Legal(control'.away, svc'.row.away, action', elapsed', svc'.then = "release")
  BY <1>1 DEF StagedAway, At, AwayStep, Arrived, Legal
<1>3. relay.heard = {} /\ relay.pc = "idle" BY <1>1, <1>2
<1>4. CASE Service
  <2>1. svc.pc # "write"
    <3>1. ASSUME svc.pc = "write" PROVE WriteControl
      BY <1>4, <3>1 DEF Service, Intake, Delivery, Recover, Start, Top, CountActions, CountJobs, Exit,
         RecoverLeases, ClearExpiredAway, ClaimUpdates, EnqueueJob, FailUpdate, ReleaseAway,
         ReleaseUpdate, HandleCommand, Acknowledge, CompleteUpdate, Drain, Send, Mark, Hook, Drained, At
    <3>2. svc.then \notin Stops BY DEF ServiceInv, Loop
    <3>3. QED BY <1>2, <3>1, <3>2, WriteMoves DEF Stops
  <2>2. Lawful BY <1>4, <2>1, ServiceLawful
  <2>3. UNCHANGED <<control, elapsed>> /\ (UNCHANGED action \/ svc'.pc # "write")
    <3>1. CASE Recover \/ Start \/ Top \/ CountActions \/ CountJobs \/ Exit
      BY <3>1 DEF Recover, Start, Top, CountActions, CountJobs, Exit
    <3>2. CASE RecoverLeases \/ ClearExpiredAway \/ ClaimUpdates
      BY <3>2 DEF RecoverLeases, ClearExpiredAway, ClaimUpdates
    <3>3. ASSUME NEW u \in Updates,
                 \/ EnqueueJob(u) \/ FailUpdate(u) \/ ReleaseAway(u) \/ ReleaseUpdate(u)
                 \/ HandleCommand(u) \/ CompleteUpdate(u)
          PROVE  UNCHANGED <<control, elapsed, action>>
      BY <3>3 DEF EnqueueJob, FailUpdate, ReleaseAway, ReleaseUpdate, HandleCommand, CompleteUpdate
    <3>4. ASSUME NEW u \in Updates, Acknowledge(u)
          PROVE  UNCHANGED <<control, elapsed>> /\ svc'.pc # "write"
      <4>1. svc \in SvcStates BY DEF ServiceInv, TypeOK
      <4>2. QED BY <3>4, <4>1 DEF Acknowledge, Go, SvcStates
    <3>5. CASE Hook BY <3>5 DEF Hook
    <3>6. CASE Drain \/ (\E a \in Actions : Send(a)) \/ Mark \/ Drained
      <4>1. svc \in SvcStates BY DEF ServiceInv, TypeOK
      <4>2. QED BY <3>6, <4>1 DEF Drain, Send, Mark, Drained, SvcStates
    <3>7. CASE WriteControl BY <2>1, <3>7 DEF WriteControl, At
    <3>8. QED
      BY <1>4, <3>1, <3>2, <3>3, <3>4, <3>5, <3>6, <3>7 DEF Service, Intake, Delivery
  <2>4. QED BY <1>2, <2>2, <2>3 DEF Lawful, LegalRow
<1>5. CASE Boot \/ Crash BY <1>2, <1>5, ResetSteps DEF Reset
<1>6. CASE Engage \/ RetryComesDue \/ TimePasses \/ Relay \/ (\E u \in Updates : StoreUpdate(u)) \/ UNCHANGED vars
  <2>1. svc' = svc BY <1>6, OthersLeaveLoop
  <2>2. svc.row.away = control.away
          \/ Legal(control.away, svc.row.away, action, elapsed, svc.then = "release")
    BY <1>0, <1>2, <1>3, <2>1 DEF StagedAway, At, AwayStep, Arrived, Legal
  <2>3. control' = control
    <3>1. ~Engage BY <1>2, <2>1 DEF Engage, At
    <3>2. ~WriteInterrupts BY <1>3 DEF WriteInterrupts
    <3>3. QED
      BY <1>6, <3>1, <3>2 DEF RetryComesDue, TimePasses, TimerRunsOut, Relay, StoreUpdate, RunJob, DropJob,
         AnswerJob, SendInterrupt, ReadInterrupts, RelayEnds, vars
  <2>4. elapsed \subseteq elapsed'
    BY <1>6 DEF Engage, RetryComesDue, TimePasses, TimerRunsOut, Relay, StoreUpdate, RunJob, DropJob,
       AnswerJob, SendInterrupt, ReadInterrupts, WriteInterrupts, RelayEnds, vars
  <2>5. \A a \in Acks : (action'[a].status = "sent") <=> (action[a].status = "sent")
    <3>1. SentStays BY SentRemains
    <3>2. \A a \in Acks : action'[a].status = "sent" => action[a].status = "sent"
      BY <1>6, OthersSendNothing
    <3>3. Acks \subseteq Actions BY DEF Actions
    <3>4. QED BY <3>1, <3>2, <3>3 DEF SentStays
  <2>6. control.away.phase = "pending" => control.away.ack \in Acks
    BY DEF ServiceInv, CopiesTruthful, Truthful
  <2>7. QED BY <2>1, <2>2, <2>3, <2>4, <2>5, <2>6 DEF Legal
<1>7. QED BY <1>4, <1>5, <1>6 DEF Next, TimePasses

-----------------------------------------------------------------------------
(***************************************************************************)
(* Jobs.                                                                   *)
(***************************************************************************)
\* Only the intake fills the queue.
LEMMA JobsStep ==
  ASSUME ServiceInv, [Next]_vars
  PROVE  /\ phase' \in [Messages -> Lifecycle!Phases]
         /\ runner' \in [Messages -> Turns \cup {None}]
         /\ (\E u \in Updates : EnqueueJob(u)) \/ Queued' \subseteq Queued
<1> DEFINE Types == /\ phase' \in [Messages -> Lifecycle!Phases]
                    /\ runner' \in [Messages -> Turns \cup {None}]
           Shrinks == Queued' \subseteq Queued
<1>1. phase \in [Messages -> Lifecycle!Phases] /\ runner \in [Messages -> Turns \cup {None}]
  BY DEF ServiceInv, TypeOK
<1>2. CASE UNCHANGED jobs BY <1>1, <1>2 DEF jobs, Queued
<1>3. ASSUME NEW u \in Updates, EnqueueJob(u) PROVE Types
  BY <1>1, <1>2, <1>3 DEF EnqueueJob, Lifecycle!Submit, Lifecycle!To, Lifecycle!Phases
<1>4. CASE RunJob
  <2>1. PICK u \in Messages, t \in Turns : Lifecycle!Run({u}, t) BY <1>4 DEF RunJob
  <2>2. /\ phase' = [j \in Messages |-> IF j \in {u} THEN "running" ELSE phase[j]]
        /\ runner' = [j \in Messages |-> IF j \in {u} THEN t ELSE runner[j]]
    BY <2>1 DEF Lifecycle!Run, Lifecycle!To
  <2>3. Types BY <1>1, <2>2 DEF Lifecycle!Phases
  <2>4. Shrinks BY <2>2 DEF Queued
  <2>5. QED BY <2>3, <2>4
<1>5. CASE DropJob
  <2>1. PICK u \in Messages : Lifecycle!Expire({u}) \/ Lifecycle!Fail({u}) BY <1>5 DEF DropJob
  <2>2. PICK p \in {"expired", "failed"} :
          /\ phase' = [j \in Messages |-> IF j \in {u} THEN p ELSE phase[j]]
          /\ runner' = runner
    BY <2>1 DEF Lifecycle!Expire, Lifecycle!Fail, Lifecycle!To
  <2>3. Types BY <1>1, <2>2 DEF Lifecycle!Phases
  <2>4. Shrinks BY <2>2 DEF Queued
  <2>5. QED BY <2>3, <2>4
<1>6. CASE AnswerJob
  <2>1. PICK u \in Messages :
          /\ phase' = [j \in Messages |-> IF j \in {u} THEN "answered" ELSE phase[j]]
          /\ runner' = runner
    BY <1>6 DEF AnswerJob, Lifecycle!Answer, Lifecycle!To
  <2>2. Types BY <1>1, <2>1 DEF Lifecycle!Phases
  <2>3. Shrinks BY <2>1 DEF Queued
  <2>4. QED BY <2>2, <2>3
<1>7. ASSUME \/ Boot \/ Crash \/ Engage \/ RetryComesDue \/ TimePasses \/ (\E u \in Updates : StoreUpdate(u))
             \/ ReadInterrupts \/ WriteInterrupts \/ RelayEnds
             \/ (\E u \in Updates : SendInterrupt(u)) \/ UNCHANGED vars
      PROVE  UNCHANGED jobs
  BY <1>7 DEF Boot, Crash, Engage, RetryComesDue, TimePasses, TimerRunsOut, StoreUpdate, ReadInterrupts, WriteInterrupts,
     RelayEnds, SendInterrupt, vars, jobs
<1>8. ASSUME \/ Recover \/ Start \/ Top \/ CountActions \/ CountJobs \/ Exit \/ WriteControl \/ Delivery
             \/ RecoverLeases \/ ClearExpiredAway \/ ClaimUpdates
      PROVE  UNCHANGED jobs
  BY <1>8 DEF Recover, Start, Top, CountActions, CountJobs, Exit, WriteControl, Delivery, Drain, Send, Mark,
     Hook, Drained, RecoverLeases, ClearExpiredAway, ClaimUpdates
<1>9. ASSUME NEW u \in Updates,
             \/ FailUpdate(u) \/ ReleaseAway(u) \/ ReleaseUpdate(u) \/ HandleCommand(u)
             \/ Acknowledge(u) \/ CompleteUpdate(u)
      PROVE  UNCHANGED jobs
  BY <1>9 DEF FailUpdate, ReleaseAway, ReleaseUpdate, HandleCommand, Acknowledge, CompleteUpdate
<1>10. CASE Service BY <1>2, <1>3, <1>8, <1>9, <1>10 DEF Service, Intake
<1>11. CASE Relay BY <1>2, <1>4, <1>5, <1>6, <1>7, <1>11 DEF Relay
<1>12. QED BY <1>2, <1>7, <1>10, <1>11 DEF Next, TimePasses

\* The loop reaches its end only from a check that found the queue empty.
LEMMA EndReached ==
  ASSUME ServiceInv, [Next]_vars, Resumes' \in {"exit", "exited"}
  PROVE  Queued = {} /\ ~(\E u \in Updates : EnqueueJob(u))
<1> DEFINE Ends == {"exit", "exited"}
<1>1. Resumes \in Ends => Queued = {} BY DEF ServiceInv, QuietExit
<1>2. ASSUME NEW P, Onward(P), P \cap Ends = {} PROVE FALSE BY <1>2 DEF Onward
<1>3. ASSUME NEW u \in Updates,
             EnqueueJob(u) \/ Acknowledge(u) \/ ReleaseAway(u) \/ HandleCommand(u)
      PROVE  FALSE
  <2>1. PICK P \in {{"complete"}, {"release"}, {"acknowledge", "complete"}} : Onward(P)
    BY <1>3, GoSteps
  <2>2. P \cap Ends = {} OBVIOUS
  <2>3. QED BY <1>2, <2>1, <2>2
<1>4. CASE Recover \/ Start \/ Top \/ RecoverLeases \/ ClearExpiredAway \/ Hook \/ CountActions
  <2>1. PICK P \in {{"recover_disengage", "start"}, {"top"}, {"drain", "recover_leases"},
                    {"clear_away"}, {"claim"}, {"send"}, {"top", "busy_jobs"}} : Onward(P)
    BY <1>4, RecoverOnward, GoSteps, TopOnward, CheckOnward
  <2>2. P \cap Ends = {} OBVIOUS
  <2>3. QED BY <1>2, <2>1, <2>2
<1>5. ASSUME CountJobs PROVE Queued = {}
  <2>1. ~Onward({"top"}) BY <1>2
  <2>2. QED BY <1>5, <2>1, CheckOnward
<1>6. CASE Boot \/ Crash
  <2>1. svc'.pc \in {"recover_away", "down"} BY <1>6, ResetSteps DEF Reset
  <2>2. QED BY <2>1 DEF Resumes, At
<1>7. ASSUME Exit PROVE Queued = {}
  <2>1. Resumes = "exit" BY <1>7, ResetSteps DEF Resumes, At
  <2>2. QED BY <1>1, <2>1
<1>8. ASSUME WriteControl PROVE Queued = {} BY <1>1, <1>8, WriteMoves
<1>9. ASSUME svc'.pc \notin Ends \cup {"write"} PROVE FALSE BY <1>9 DEF Resumes, At
<1>10. CASE ClaimUpdates BY <1>9, <1>10, ClaimMoves
<1>11. ASSUME NEW u \in Updates, FailUpdate(u) \/ ReleaseUpdate(u) \/ CompleteUpdate(u) PROVE FALSE
  <2>1. PICK row : Current(u) /\ Leave(u, row)
    BY <1>11 DEF FailUpdate, ReleaseUpdate, CompleteUpdate
  <2>2. QED BY <1>9, <2>1, LeaveMoves
<1>12. CASE Drain \/ (\E a \in Actions : Send(a)) \/ Mark \/ Drained BY <1>9, <1>12, DeliveryMoves
<1>13. ASSUME \/ Engage \/ RetryComesDue \/ TimePasses \/ Relay \/ (\E u \in Updates : StoreUpdate(u))
              \/ UNCHANGED vars
       PROVE  Queued = {}
  <2>1. svc' = svc BY <1>13, OthersLeaveLoop
  <2>2. QED BY <1>1, <2>1 DEF Resumes, At
<1>14. ~(\E u \in Updates : EnqueueJob(u)) BY <1>3
<1>15. ASSUME Service PROVE Queued = {}
  BY <1>3, <1>4, <1>5, <1>7, <1>8, <1>10, <1>11, <1>12, <1>15 DEF Service, Intake, Delivery
<1>16. Queued = {} BY <1>6, <1>13, <1>15 DEF Next, TimePasses
<1>17. QED BY <1>14, <1>16

\* At its end the service leaves no job in the queue, and nobody puts one there.
LEMMA QuietStep ==
  ASSUME ServiceInv, [Next]_vars
  PROVE  QuietExit'
<1>1. ASSUME Resumes' \in {"exit", "exited"} PROVE Queued' = {} BY <1>1, EndReached, JobsStep
<1>2. QED BY <1>1 DEF QuietExit

-----------------------------------------------------------------------------
(***************************************************************************)
(* The invariant, from the start and through every step.                   *)
(***************************************************************************)
\* The poller and the starts of the process.
LEMMA PollingStep ==
  ASSUME ServiceInv, [Next]_vars
  PROVE  polling' \in BOOLEAN /\ boots' \in 0..MaxBoots
<1>1. polling \in BOOLEAN /\ boots \in 0..MaxBoots BY DEF ServiceInv, TypeOK
<1>2. MaxBoots \in Nat BY TransportServiceAssumption DEF TransportServiceAssumption
<1>3. ASSUME Boot PROVE polling' = polling /\ boots' \in 0..MaxBoots
  BY <1>1, <1>2, <1>3, ResetSteps
<1>4. ASSUME Crash PROVE polling' = FALSE /\ boots' = boots BY <1>4, ResetSteps
<1>5. ASSUME Service PROVE boots' = boots /\ polling' \in {polling, TRUE, FALSE}
  <2>1. CASE Recover \/ Start \/ Top \/ CountActions \/ CountJobs \/ Exit \/ WriteControl
    BY <1>1, <2>1 DEF Recover, Start, Top, CountActions, CountJobs, Exit, WriteControl
  <2>2. CASE Intake
    BY <2>2 DEF Intake, RecoverLeases, ClearExpiredAway, ClaimUpdates, EnqueueJob, FailUpdate,
       ReleaseAway, ReleaseUpdate, HandleCommand, Acknowledge, CompleteUpdate
  <2>3. CASE Delivery BY <2>3 DEF Delivery, Drain, Send, Mark, Hook, Drained
  <2>4. boots' = boots BY <1>5, ServiceIsUp
  <2>5. QED BY <1>5, <2>1, <2>2, <2>3, <2>4 DEF Service
<1>6. QED BY <1>1, <1>3, <1>4, <1>5, OthersLeaveLoop DEF Next, TimePasses

\* The counters of calls.
LEMMA DeliveredStep ==
  ASSUME ServiceInv, [Next]_vars
  PROVE  delivered' \in [Actions -> 0..2]
<1>1. delivered \in [Actions -> 0..2] BY ActionRows
<1>2. delivered' = [a \in Actions |-> delivered'[a]]
  <2>1. CASE delivered' = delivered BY <1>1, <2>1
  <2>2. ASSUME NEW a \in Actions, Send(a) PROVE delivered' = [b \in Actions |-> delivered'[b]]
    BY <1>1, <2>2 DEF Send
  <2>3. ASSUME Boot \/ Drain \/ Mark \/ Drained PROVE delivered' = delivered
    BY <2>3 DEF Boot, Drain, Mark, Drained
  <2>4. QED BY <2>1, <2>2, <2>3, OtherSteps DEF CallsRest
<1>3. \A a \in Actions : delivered'[a] \in 0..2 BY CalledStep DEF Called
<1>4. QED BY <1>2, <1>3

\* The timers that have run out.
LEMMA ElapsedStep ==
  ASSUME ServiceInv, [Next]_vars
  PROVE  elapsed' \in SUBSET Acks
<1>1. elapsed \in SUBSET Acks BY DEF ServiceInv, TypeOK
<1>2. ASSUME NEW a \in Acks, TimerRunsOut(a) PROVE elapsed' = elapsed \cup {a}
  BY <1>2 DEF TimerRunsOut
<1>3. ASSUME Service PROVE elapsed' = elapsed
  BY <1>3 DEF Service, Intake, Delivery, Recover, Start, Top, CountActions, CountJobs, Exit, WriteControl,
     RecoverLeases, ClearExpiredAway, ClaimUpdates, EnqueueJob, FailUpdate, ReleaseAway,
     ReleaseUpdate, HandleCommand, Acknowledge, CompleteUpdate, Drain, Send, Mark, Hook, Drained
<1>4. ASSUME \/ Boot \/ Crash \/ Engage \/ RetryComesDue \/ Relay \/ (\E u \in Updates : StoreUpdate(u))
             \/ UNCHANGED vars
      PROVE  elapsed' = elapsed
  BY <1>4 DEF Boot, Crash, Engage, RetryComesDue, Relay, StoreUpdate, RunJob, DropJob, AnswerJob,
     SendInterrupt, ReadInterrupts, WriteInterrupts, RelayEnds, vars
<1>5. QED BY <1>1, <1>2, <1>3, <1>4 DEF Next

\* The types.
LEMMA TypesStep ==
  ASSUME ServiceInv, [Next]_vars
  PROVE  TypeOK'
<1>1. Outbound!OutboundTypeOK'
  BY OutboundKept DEF Table!OutboundInv, Table!OutboundTypeOK, Table!OutboundRows,
     Outbound!OutboundTypeOK, Outbound!OutboundRows
<1>2. update' \in [Updates -> UpdateRows]
  <2>1. update' \in [Updates -> CountedRows] /\ AttemptsCounted' BY AttemptsStep
  <2>2. boots' \in 0..MaxBoots BY PollingStep
  <2>3. MaxAttempts \in Nat /\ MaxBoots \in Nat
    BY TransportServiceAssumption DEF TransportServiceAssumption
  <2>4. ASSUME NEW u \in Updates PROVE update'[u] \in UpdateRows
    <3>1. update'[u] \in CountedRows BY <2>1
    <3>2. update'[u].attempts <= MaxAttempts + boots' - 1 BY <2>1 DEF AttemptsCounted
    <3>3. update'[u].attempts \in 0..(MaxAttempts + MaxBoots - 1)
      BY <2>2, <2>3, <3>1, <3>2 DEF CountedRows
    <3>4. QED BY <3>1, <3>3 DEF CountedRows, UpdateRows
  <2>5. QED BY <2>1, <2>4
<1>3. QED
  BY <1>1, <1>2, LoopStep, CopiesStep, JobsStep, PollingStep, DeliveredStep, ElapsedStep DEF TypeOK

\* The invariant at the start.
LEMMA ServiceInit == Init => ServiceInv
<1> SUFFICES ASSUME Init PROVE ServiceInv OBVIOUS
<1> USE DEF Init
<1>1. Table!OutboundInv BY SameRows, Table!OutboundInit
<1>2. action = [a \in Actions |-> [status |-> "absent", due |-> "never"]]
  BY DEF Outbound!Init, Outbound!Row
<1>3. /\ svc = Idle /\ svc \in SvcStates /\ svc.then = "down" /\ svc.pc = "down" /\ svc.batch = {}
      /\ svc.sends = {} /\ svc.row = NoControl
  BY IdleTypes DEF Idle
<1>4. NoControl \in ControlRows /\ Truthful(NoControl) BY RowTypes, NoControlTruthful
<1>5. MaxAttempts \in Nat \ {0} /\ MaxBoots \in Nat \ {0}
  BY TransportServiceAssumption DEF TransportServiceAssumption
<1>6. relay \in RelayStates BY <1>4 DEF RelayStates
<1>7. update \in [Updates -> UpdateRows] BY <1>5 DEF UpdateRows
<1>8. /\ phase \in [Messages -> Lifecycle!Phases] /\ runner \in [Messages -> Turns \cup {None}]
      /\ Queued = {}
  BY DEF Lifecycle!Init, Lifecycle!Phases, Queued
<1>9. Outbound!OutboundTypeOK BY <1>1, SameRows DEF Table!OutboundInv
<1>10. TypeOK
  <2>1. polling \in BOOLEAN OBVIOUS
  <2>2. delivered \in [Actions -> 0..2] /\ boots \in 0..MaxBoots /\ elapsed \in SUBSET Acks BY <1>5
  <2>3. QED BY <1>3, <1>4, <1>6, <1>7, <1>8, <1>9, <2>1, <2>2 DEF TypeOK
<1>11. Loop BY <1>3 DEF Loop, Stops
<1>12. AttemptsCounted BY <1>3, <1>5 DEF AttemptsCounted
<1>13. CallsOnce BY <1>2, <1>3 DEF CallsOnce, At
<1>14. CopiesTruthful BY <1>3, <1>4 DEF CopiesTruthful
<1>15. QuietExit BY <1>8 DEF QuietExit
<1>16. StagedAway BY <1>3 DEF StagedAway, At
<1>17. QED BY <1>1, <1>10, <1>11, <1>12, <1>13, <1>14, <1>15, <1>16 DEF ServiceInv

\* Every step keeps it.
LEMMA ServiceStep == ServiceInv /\ [Next]_vars => ServiceInv'
BY TypesStep, OutboundKept, LoopStep, AttemptsStep, CallsStep, CopiesStep, StagedStep, QuietStep DEF ServiceInv

\* The invariant holds throughout.
LEMMA ServiceHolds == Spec => []ServiceInv
BY ServiceInit, ServiceStep, PTL DEF Spec

-----------------------------------------------------------------------------
(***************************************************************************)
(* The theorems.                                                           *)
(***************************************************************************)
\* Every variable keeps its type.  In particular an update is never tried more
\* often than MaxAttempts and one attempt for each crash (failUpdate).
THEOREM ServiceTypes == Spec => []TypeOK
<1>1. ServiceInv => TypeOK BY DEF ServiceInv
<1>2. QED BY <1>1, ServiceHolds, PTL

\* The service and the relays use the outbound table as its own specification
\* allows (finalizeRelayJobBatch, OutboundDrain, the control replies).
THEOREM ServiceImplementsOutbound == Spec => ImplementsOutbound
<1>1. Init => Outbound!Init BY DEF Init
<1>2. ServiceInv /\ [Next]_vars => [Outbound!Next]_action BY OutboundRefines
<1>3. QED BY <1>1, <1>2, ServiceHolds, PTL DEF Spec, ImplementsOutbound, Outbound!Spec

\* However often the process dies, no Bot API call is carried out twice, and
\* one recorded as sent was carried out (OutboundDrain.send).
THEOREM CallsAreMadeOnce == Spec => []DeliveredOnce
<1>1. ServiceInv => DeliveredOnce BY DEF ServiceInv, CallsOnce, DeliveredOnce
<1>2. QED BY <1>1, ServiceHolds, PTL

\* The chat shows the chunks of an answer in order, however many they are
\* (claimDueOutboundActions).
THEOREM ChunksArriveInOrder == Spec => []ChunksInOrder
<1>1. ASSUME ServiceInv PROVE ChunksInOrder
  <2>1. SUFFICES ASSUME NEW a \in Actions, NEW b \in Actions,
                        a[1] = b[1], a[2] < b[2], delivered[b] > 0
                 PROVE  delivered[a] > 0
    BY DEF ChunksInOrder
  <2>2. a \in Table!Before(b) BY <2>1 DEF Table!Before, GroupOf, IndexOf
  <2>3. action[a].status = "sent"
    BY <1>1, <2>1, <2>2 DEF ServiceInv, CallsOnce, Table!With
  <2>4. QED BY <1>1, <2>3, CallNow
<1>2. QED BY <1>1, ServiceHolds, PTL

\* Disengage is active only once its farewell has arrived, whoever wrote the
\* control row last (TransportControl.handleAckSent, recover, completeInterrupt).
THEOREM FarewellIsFirst == Spec => []FarewellFirst
<1>1. ServiceInv => FarewellFirst
  BY DEF ServiceInv, CopiesTruthful, Truthful, FarewellFirst, Disengaged
<1>2. QED BY <1>1, ServiceHolds, PTL

\* An away timer is active, or remembered by a pending away, only if Telegram
\* confirmed the reply to the /away that set it, whoever wrote the row last
\* (requestAway's snapshot, handleAckSent, handleAckTerminal).
THEOREM AwayIsConfirmed ==
  Spec => [](/\ control.away.phase = "active" => control.away.until # None
             /\ control.away.until # None
                  => /\ Kind[control.away.until[1]] = "away"
                     /\ action[control.away.until].status = "sent")
<1>1. ServiceInv =>
        /\ control.away.phase = "active" => control.away.until # None
        /\ control.away.until # None
             => /\ Kind[control.away.until[1]] = "away"
                /\ action[control.away.until].status = "sent"
  BY DEF ServiceInv, CopiesTruthful, Truthful, Confirmed
<1>2. QED BY <1>1, ServiceHolds, PTL

\* Every change of the away entry is one that the replies, the clock, a command
\* or the owner's mention justifies, also when the process dies between reading
\* the row and writing it; a relay that rewrites the row and the engage script
\* apart (TransportControl, recover).
THEOREM TimersAreKept == Spec => AwayTimerKept
<1>1. ASSUME ServiceInv, [Next]_vars, control'.away # control.away, relay.heard = {}, ~At("exited")
      PROVE  AwayStep(control.away, control'.away)
  <2>1. relay.pc = "idle" BY <1>1 DEF ServiceInv, StagedAway
  <2>2. ~Engage BY <1>1 DEF Engage
  <2>3. ~WriteInterrupts BY <2>1 DEF WriteInterrupts
  <2>4. control' # control BY <1>1
  <2>5. ~Relay
    BY <2>3, <2>4 DEF Relay, RunJob, DropJob, AnswerJob, SendInterrupt, ReadInterrupts, RelayEnds
  <2>6. control' = svc.row /\ svc.pc = "write"
    <3>1. CASE WriteControl BY <3>1, <1>1, WriteMoves
    <3>2. ASSUME ~WriteControl PROVE control' = control
      BY <1>1, <2>2, <2>5, <3>2, OthersKeepRow
    <3>3. QED BY <2>4, <3>1, <3>2
  <2>7. QED BY <1>1, <2>6 DEF ServiceInv, StagedAway, At
<1>2. QED BY <1>1, ServiceHolds, PTL DEF Spec, AwayTimerKept

\* The service does not exit for good while a job is queued
\* (countActiveRelayJobs in the worker loop).
THEOREM NoQueueLeft == Spec => [](At("exited") => Queued = {})
<1>1. ServiceInv => (At("exited") => Queued = {})
  BY DEF ServiceInv, QuietExit, Resumes, At
<1>2. QED BY <1>1, ServiceHolds, PTL
=============================================================================
