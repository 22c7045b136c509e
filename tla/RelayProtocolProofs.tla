------------------------ MODULE RelayProtocolProofs ------------------------
(***************************************************************************)
(* The relay as a whole, for any number of jobs, connectors and turns:      *)
(* every call of a process is one operation of the store, a batch and its   *)
(* turn stay one thing, and no turn starts with a job another was recorded  *)
(* for.  The argument follows the batch: the relay's memory, the two pipes  *)
(* and the connector's memory name the same batch until it is over (Link),  *)
(* and a batch that is still with an old relay has been taken from it in    *)
(* the table before another connector can hold one of its jobs (NotStolen). *)
(***************************************************************************)
EXTENDS RelayProtocolProps, TLAPS, SequenceTheorems

-----------------------------------------------------------------------------
(***************************************************************************)
(* The store.  Table has the lemmas of RelayStoreProofs; its operators are  *)
(* those of Store, one by one.                                             *)
(***************************************************************************)
Table == INSTANCE RelayStoreProofs

\* The rows of Store are those of Table.
LEMMA SameTypes ==
  /\ Store!Batches = Table!Batches /\ Store!JobRows = Table!JobRows
  /\ Store!TypeOK <=> Table!TypeOK
<1>1. Store!Batches = Table!Batches BY DEF Store!Batches, Table!Batches
<1>2. Store!JobRows = Table!JobRows
  BY DEF Store!JobRows, Table!JobRows, Store!Statuses, Table!Statuses
<1>3. Store!AnswerRows = Table!AnswerRows
  BY <1>1 DEF Store!AnswerRows, Table!AnswerRows
<1>4. Store!SessionRows = Table!SessionRows BY DEF Store!SessionRows, Table!SessionRows
<1>5. QED BY <1>1, <1>2, <1>3, <1>4 DEF Store!TypeOK, Table!TypeOK

\* Both start with the same tables.
LEMMA SameInit == Store!Init <=> Table!Init
BY DEF Store!Init, Table!Init, Store!AbsentRow, Table!AbsentRow,
       Store!OfflineRow, Table!OfflineRow

\* Row updates.
LEMMA SameRows ==
  /\ \A row, s : Store!Settle(row, s) = Table!Settle(row, s)
  /\ \A row : Store!Unlease(row) = Table!Unlease(row)
  /\ \A row, c : Store!ClaimedRow(row, c) = Table!ClaimedRow(row, c)
  /\ \A row, t : Store!AcceptedRow(row, t) = Table!AcceptedRow(row, t)
  /\ \A row, r : Store!CompletedRow(row, r) = Table!CompletedRow(row, r)
  /\ \A row : Store!Aged(row) = Table!Aged(row)
  /\ \A rows : Store!Update(rows) = Table!Update(rows)
<1>1. \A row, s : Store!Settle(row, s) = Table!Settle(row, s)
  BY DEF Store!Settle, Table!Settle
<1>2. \A row : Store!Unlease(row) = Table!Unlease(row)
  BY <1>1 DEF Store!Unlease, Table!Unlease
<1>3. \A row, c : Store!ClaimedRow(row, c) = Table!ClaimedRow(row, c)
  BY DEF Store!ClaimedRow, Table!ClaimedRow
<1>4. \A row, t : Store!AcceptedRow(row, t) = Table!AcceptedRow(row, t)
  BY <1>1 DEF Store!AcceptedRow, Table!AcceptedRow
<1>5. \A row, r : Store!CompletedRow(row, r) = Table!CompletedRow(row, r)
  BY DEF Store!CompletedRow, Table!CompletedRow
<1>6. \A row : Store!Aged(row) = Table!Aged(row)
  <2>1. \A n : Store!Less(n) = Table!Less(n) /\ Store!Older(n) = Table!Older(n)
    BY DEF Store!Less, Table!Less, Store!Older, Table!Older
  <2>2. QED BY <2>1 DEF Store!Aged, Table!Aged
<1>7. \A rows : Store!Update(rows) = Table!Update(rows)
  BY DEF Store!Update, Table!Update
<1>8. QED BY <1>1, <1>2, <1>3, <1>4, <1>5, <1>6, <1>7

\* Sets of rows.
LEMMA SameSets ==
  /\ Store!Overdue = Table!Overdue /\ Store!Lapsed = Table!Lapsed
  /\ Store!Ready = Table!Ready
  /\ \A c : Store!LeasedTo(c) = Table!LeasedTo(c)
  /\ \A t : Store!OwnedBy(t) = Table!OwnedBy(t)
  /\ \A S : Store!Ends(S) = Table!Ends(S)
<1>1. Store!Overdue = Table!Overdue BY DEF Store!Overdue, Table!Overdue
<1>2. Store!Lapsed = Table!Lapsed BY DEF Store!Lapsed, Table!Lapsed
<1>3. Store!Ready = Table!Ready BY <1>2 DEF Store!Ready, Table!Ready
<1>4. \A c : Store!LeasedTo(c) = Table!LeasedTo(c) BY DEF Store!LeasedTo, Table!LeasedTo
<1>5. \A t : Store!OwnedBy(t) = Table!OwnedBy(t) BY DEF Store!OwnedBy, Table!OwnedBy
<1>6. \A S : Store!Ends(S) = Table!Ends(S) BY DEF Store!Ends, Table!Ends
<1>7. QED BY <1>1, <1>2, <1>3, <1>4, <1>5, <1>6

\* What a claim selects.
LEMMA SameSelection ==
  \A c : Store!FittingPrefix(Store!Candidates(c)) = Table!FittingPrefix(Table!Candidates(c))
         /\ Store!Candidates(c) = Table!Candidates(c)
<1>1. \A C : Store!FittingPrefix(C) = Table!FittingPrefix(C)
  <2>1. \A u : Store!Cardinality(u) = Table!Cardinality(u)
    BY DEF Store!Cardinality, Table!Cardinality
  <2>2. QED BY <2>1 DEF Store!FittingPrefix, Table!FittingPrefix
<1>2. \A R : Store!FirstControl(R) = Table!FirstControl(R)
  BY DEF Store!FirstControl, Table!FirstControl
<1>3. \A R : Store!Coalescing(R) = Table!Coalescing(R)
  BY DEF Store!Coalescing, Table!Coalescing
<1>4. \A c : Store!Claimable(c) = Table!Claimable(c)
  BY SameSets DEF Store!Claimable, Table!Claimable
<1>5. \A c : Store!Candidates(c) = Table!Candidates(c)
  BY <1>2, <1>3, <1>4 DEF Store!Candidates, Table!Candidates
<1>6. QED BY <1>1, <1>5

\* The operations on jobs.
LEMMA SameSteps ==
  /\ \A j, ttl : Store!EnqueueRelayJob(j, ttl) <=> Table!EnqueueRelayJob(j, ttl)
  /\ Store!ExpireRelayJobs <=> Table!ExpireRelayJobs
  /\ \A c, S : Store!ClaimRelayJobBatch(c, S) <=> Table!ClaimRelayJobBatch(c, S)
  /\ \A c, S : Store!ReleaseRelayJobBatch(c, S) <=> Table!ReleaseRelayJobBatch(c, S)
  /\ \A c, S, t : Store!AcceptRelayJobBatch(c, S, t) <=> Table!AcceptRelayJobBatch(c, S, t)
  /\ \A c, S, t : Store!FailRelayJobBatch(c, S, t) <=> Table!FailRelayJobBatch(c, S, t)
  /\ \A b, S, t, r : Store!FinalizeRelayJobBatch(b, S, t, r) <=> Table!FinalizeRelayJobBatch(b, S, t, r)
  /\ Store!Tick <=> Table!Tick
<1>1. \A j, ttl : Store!EnqueueRelayJob(j, ttl) <=> Table!EnqueueRelayJob(j, ttl)
  BY DEF Store!EnqueueRelayJob, Table!EnqueueRelayJob, Store!PendingRow, Table!PendingRow
<1>2. Store!ExpireRelayJobs <=> Table!ExpireRelayJobs
  BY SameRows, SameSets DEF Store!ExpireRelayJobs, Table!ExpireRelayJobs
<1>3. \A c, S : Store!ClaimRelayJobBatch(c, S) <=> Table!ClaimRelayJobBatch(c, S)
  BY SameRows, SameSets, SameSelection DEF Store!ClaimRelayJobBatch, Table!ClaimRelayJobBatch
<1>4. \A c, S : Store!ReleaseRelayJobBatch(c, S) <=> Table!ReleaseRelayJobBatch(c, S)
  BY SameRows, SameSets DEF Store!ReleaseRelayJobBatch, Table!ReleaseRelayJobBatch
<1>5. \A c, S, t : Store!AcceptRelayJobBatch(c, S, t) <=> Table!AcceptRelayJobBatch(c, S, t)
  BY SameRows, SameSets DEF Store!AcceptRelayJobBatch, Table!AcceptRelayJobBatch
<1>6. \A c, S, t : Store!FailRelayJobBatch(c, S, t) <=> Table!FailRelayJobBatch(c, S, t)
  BY SameRows, SameSets DEF Store!FailRelayJobBatch, Table!FailRelayJobBatch
<1>7. \A b, S, t, r : Store!FinalizeRelayJobBatch(b, S, t, r) <=> Table!FinalizeRelayJobBatch(b, S, t, r)
  BY SameRows, SameSets DEF Store!FinalizeRelayJobBatch, Table!FinalizeRelayJobBatch
<1>8. Store!Tick <=> Table!Tick
  <2>1. \A n : Store!Less(n) = Table!Less(n) BY DEF Store!Less, Table!Less
  <2>2. QED BY <2>1, SameRows DEF Store!Tick, Table!Tick
<1>9. QED BY <1>1, <1>2, <1>3, <1>4, <1>5, <1>6, <1>7, <1>8

\* The operations on the session.
LEMMA SameSessionSteps ==
  /\ Store!GetRelaySession <=> Table!GetRelaySession
  /\ \A c : Store!OwnsRelaySession(c) <=> Table!OwnsRelaySession(c)
  /\ \A c : Store!RegisterRelaySession(c) <=> Table!RegisterRelaySession(c)
  /\ \A c : Store!HeartbeatRelaySession(c) <=> Table!HeartbeatRelaySession(c)
  /\ \A c : Store!DisconnectRelaySession(c) <=> Table!DisconnectRelaySession(c)
<1>1. Store!OfflineRow = Table!OfflineRow BY DEF Store!OfflineRow, Table!OfflineRow
<1>2. Store!SessionLapsed <=> Table!SessionLapsed
  BY DEF Store!SessionLapsed, Table!SessionLapsed
<1>3. Store!Holder = Table!Holder BY <1>2 DEF Store!Holder, Table!Holder
<1>4. \A c : Store!CanRegister(c) <=> Table!CanRegister(c)
  BY <1>3 DEF Store!CanRegister, Table!CanRegister
<1>5. \A c : Store!OwnsRelaySession(c) <=> Table!OwnsRelaySession(c)
  BY DEF Store!OwnsRelaySession, Table!OwnsRelaySession
<1>6. Store!GetRelaySession <=> Table!GetRelaySession
  BY <1>1, <1>2 DEF Store!GetRelaySession, Table!GetRelaySession
<1>7. \A c : Store!RegisterRelaySession(c) <=> Table!RegisterRelaySession(c)
  BY <1>3, <1>4, SameRows, SameSets DEF Store!RegisterRelaySession, Table!RegisterRelaySession
<1>8. \A c : Store!HeartbeatRelaySession(c) <=> Table!HeartbeatRelaySession(c)
  BY <1>5 DEF Store!HeartbeatRelaySession, Table!HeartbeatRelaySession
<1>9. \A c : Store!DisconnectRelaySession(c) <=> Table!DisconnectRelaySession(c)
  BY <1>1, <1>5 DEF Store!DisconnectRelaySession, Table!DisconnectRelaySession
<1>10. QED BY <1>5, <1>6, <1>7, <1>8, <1>9

\* One step of the one is one step of the other.
LEMMA SameNext == Store!Next <=> Table!Next
BY SameSteps, SameSessionSteps, SameSets, SameTypes DEF Store!Next, Table!Next

\* So are the steps that may change nothing.
LEMMA SameVars == [Store!Next]_(Store!vars) <=> [Table!Next]_(Table!vars)
BY SameNext DEF Store!vars, Table!vars

-----------------------------------------------------------------------------
(***************************************************************************)
(* Every call is one operation of the store.                               *)
(***************************************************************************)
\* What the first line of each pipe is about.
LEMMA UpHead ==
  ASSUME TypeOK, NEW c \in Connectors, toRelay[c] # <<>>
  PROVE  /\ Head(toRelay[c]) \in FromConnector
         /\ Tail(toRelay[c]) \in Seq(FromConnector)
<1>1. toRelay[c] \in Seq(FromConnector) BY DEF TypeOK
<1>2. QED BY <1>1, HeadTailProperties

\* The first line to a connector, and the rest.
LEMMA DownHead ==
  ASSUME TypeOK, NEW c \in Connectors, toConn[c] # <<>>
  PROVE  /\ Head(toConn[c]) \in FromRelay
         /\ Tail(toConn[c]) \in Seq(FromRelay)
<1>1. toConn[c] \in Seq(FromRelay) BY DEF TypeOK
<1>2. QED BY <1>1, HeadTailProperties

\* The fields of a line, by its type.
LEMMA FrameFields ==
  ASSUME NEW f \in FromConnector
  PROVE  /\ f.type \in {"hello", "heartbeat"} => f.accepting \in BOOLEAN
         /\ f.type \in {"job_accepted", "job_deferred", "job_failed", "job_result"} =>
              f.batch \in Store!Batches
         /\ f.type \in {"job_accepted", "job_result"} => f.turn \in Turns
         /\ f.type = "job_failed" => f.turn \in Turns \cup {None}
         /\ f.type = "job_result" => f.result \in ResultKinds
BY DEF FromConnector

\* Calls about an empty batch change nothing.
LEMMA EmptyUpdate ==
  ASSUME Store!TypeOK, NEW rows, DOMAIN rows = {}
  PROVE  Store!Update(rows) = job
BY DEF Store!TypeOK, Store!Update

\* claimOnce: the claim, a quarantine and the release of a rest are store operations.
LEMMA ClaimStoreStep ==
  ASSUME TypeOK, NEW c \in Connectors, FinishClaim(c)
  PROVE  [Store!Next]_(Store!vars)
<1>1. relay[c].batch \in SUBSET Jobs BY DEF TypeOK, RelayStates
<1>2. CASE Claim(c) BY <1>2 DEF Claim, Store!Next
<1>3. CASE ClaimPoisoned(c) \/ SendBatch(c)
  BY <1>3 DEF ClaimPoisoned, SendBatch, Store!vars
<1>4. CASE Quarantine(c)
  <2>1. PICK S \in Store!Batches : QuarantineJobs(c, S) BY <1>4 DEF Quarantine
  <2>2. CASE Store!FailRelayJobBatch(c, S, None) BY <2>2 DEF Store!Next
  <2>3. CASE UNCHANGED storeVars BY <2>3 DEF storeVars, Store!vars
  <2>4. QED BY <2>1, <2>2, <2>3 DEF QuarantineJobs
<1>5. CASE ReleaseRest(c)
  <2>1. CASE Store!ReleaseRelayJobBatch(c, relay[c].batch)
    <3>1. CASE relay[c].batch = {}
      <4>1. job' = job BY <2>1, <3>1, EmptyUpdate DEF TypeOK, Store!ReleaseRelayJobBatch
      <4>2. QED BY <2>1, <4>1 DEF Store!ReleaseRelayJobBatch, Store!vars
    <3>2. CASE relay[c].batch # {}
      <4>1. relay[c].batch \in Store!Batches BY <1>1, <3>2 DEF Store!Batches
      <4>2. QED BY <2>1, <4>1 DEF Store!Next
    <3>3. QED BY <3>1, <3>2
  <2>2. CASE UNCHANGED storeVars BY <2>2 DEF storeVars, Store!vars
  <2>3. QED BY <1>5, <2>1, <2>2 DEF ReleaseRest
<1>6. QED BY <1>2, <1>3, <1>4, <1>5 DEF FinishClaim, FinishClaim

\* Every handler of a line makes one store call or none.
LEMMA HandleStoreStep ==
  ASSUME TypeOK, NEW c \in Connectors, HandleLine(c)
  PROVE  [Store!Next]_(Store!vars)
<1> DEFINE f == Head(toRelay[c])
<1>1. relay[c].batch \in SUBSET Jobs BY DEF TypeOK, RelayStates
<1>2. ASSUME NEW type, Line(c, type) PROVE f \in FromConnector /\ f.type = type
  BY <1>2, UpHead DEF Line
<1>3. relay[c].batch # {} => relay[c].batch \in Store!Batches
  BY <1>1 DEF Store!Batches
<1>4. HandlerThrows(c) => UNCHANGED Store!vars BY DEF HandlerThrows, Store!vars
<1>5. CASE HandleHello(c) BY <1>5 DEF HandleHello, Store!Next
<1>6. CASE HandleHeartbeat(c) BY <1>4, <1>6 DEF HandleHeartbeat, Store!Next
<1>7. CASE HandleAccepted(c)
  <2>1. f.turn \in Turns BY <1>2, <1>7, FrameFields DEF HandleAccepted
  <2> HIDE DEF f
  <2>2. CASE Store!AcceptRelayJobBatch(c, relay[c].batch, f.turn)
    <3>1. CASE relay[c].batch = {}
      <4>1. job' = job BY <2>2, <3>1, EmptyUpdate DEF TypeOK, Store!AcceptRelayJobBatch
      <4>2. QED BY <2>2, <4>1 DEF Store!AcceptRelayJobBatch, Store!vars
    <3>2. CASE relay[c].batch # {} BY <1>3, <2>1, <2>2, <3>2 DEF Store!Next
    <3>3. QED BY <3>1, <3>2
  <2>3. Store!AcceptRelayJobBatch(c, relay[c].batch, f.turn) \/ HandlerThrows(c)
    BY <1>7 DEF HandleAccepted, f
  <2>4. QED BY <1>4, <2>2, <2>3
<1>8. CASE HandleDeferred(c)
  <2>1. CASE Store!ReleaseRelayJobBatch(c, relay[c].batch)
    <3>1. CASE relay[c].batch = {}
      <4>1. job' = job BY <2>1, <3>1, EmptyUpdate DEF TypeOK, Store!ReleaseRelayJobBatch
      <4>2. QED BY <2>1, <4>1 DEF Store!ReleaseRelayJobBatch, Store!vars
    <3>2. CASE relay[c].batch # {} BY <1>3, <2>1, <3>2 DEF Store!Next
    <3>3. QED BY <3>1, <3>2
  <2>2. QED BY <1>4, <1>8, <2>1 DEF HandleDeferred
<1>9. CASE HandleResult(c)
  <2>1. f.turn \in Turns /\ f.result \in ResultKinds
    BY <1>2, <1>9, FrameFields DEF HandleResult
  <2> HIDE DEF f
  <2>2. CASE Store!FailRelayJobBatch(c, relay[c].batch, f.turn)
    <3>1. CASE relay[c].batch = {}
      <4>1. job' = job BY <2>2, <3>1, EmptyUpdate DEF TypeOK, Store!FailRelayJobBatch
      <4>2. QED BY <2>2, <4>1 DEF Store!FailRelayJobBatch, Store!vars
    <3>2. CASE relay[c].batch # {} BY <1>3, <2>1, <2>2, <3>2 DEF Store!Next
    <3>3. QED BY <3>1, <3>2
  <2>3. ASSUME f.result # "invalid", NEW batch \in Store!Ends(relay[c].batch),
               Store!FinalizeRelayJobBatch(batch, relay[c].batch, f.turn, f.result)
        PROVE  Store!Next
    <3>1. relay[c].batch # {} BY <2>3 DEF Store!Ends
    <3>2. f.result \in {"skip", "reply"} BY <2>1, <2>3 DEF ResultKinds
    <3>3. QED BY <1>3, <2>1, <2>3, <3>1, <3>2 DEF Store!Next
  <2>4. \/ Store!FailRelayJobBatch(c, relay[c].batch, f.turn)
        \/ f.result # "invalid" /\ \E batch \in Store!Ends(relay[c].batch) :
             Store!FinalizeRelayJobBatch(batch, relay[c].batch, f.turn, f.result)
        \/ HandlerThrows(c)
    BY <1>9 DEF HandleResult, f
  <2>5. QED BY <1>4, <2>2, <2>3, <2>4
<1>10. CASE HandleFailed(c)
  <2>1. f.turn \in Turns \cup {None} BY <1>2, <1>10, FrameFields DEF HandleFailed
  <2> HIDE DEF f
  <2>2. CASE Store!FailRelayJobBatch(c, relay[c].batch, f.turn)
    <3>1. CASE relay[c].batch = {}
      <4>1. job' = job BY <2>2, <3>1, EmptyUpdate DEF TypeOK, Store!FailRelayJobBatch
      <4>2. QED BY <2>2, <4>1 DEF Store!FailRelayJobBatch, Store!vars
    <3>2. CASE relay[c].batch # {} BY <1>3, <2>1, <2>2, <3>2 DEF Store!Next
    <3>3. QED BY <3>1, <3>2
  <2>3. Store!FailRelayJobBatch(c, relay[c].batch, f.turn) \/ HandlerThrows(c)
    BY <1>10 DEF HandleFailed, f
  <2>4. QED BY <1>4, <2>2, <2>3
<1>11. QED BY <1>5, <1>6, <1>7, <1>8, <1>9, <1>10 DEF HandleLine

\* Every step of a relay is one store operation or none.
LEMMA RelayStoreStep ==
  ASSUME TypeOK, NEW c \in Connectors, RelayStep(c)
  PROVE  [Store!Next]_(Store!vars)
<1>1. relay[c].batch \in SUBSET Jobs BY DEF TypeOK, RelayStates
<1>2. CASE ClaimFails(c) \/ CheckOwnership(c)
  BY <1>2 DEF ClaimFails, CheckOwnership, Store!vars
<1>3. CASE FinishClaim(c) BY <1>3, ClaimStoreStep
<1>4. CASE HandleLine(c) BY <1>4, HandleStoreStep
<1>5. CASE CloseSettles(c)
  <2>1. relay[c].batch # {} => relay[c].batch \in Store!Batches
    BY <1>1 DEF Store!Batches
  <2>2. ASSUME NEW t \in Turns, relay[c].batch # {},
               Store!FailRelayJobBatch(c, relay[c].batch, t)
        PROVE  Store!Next
    BY <2>1, <2>2 DEF Store!Next
  <2>3. ASSUME relay[c].batch # {}, Store!ReleaseRelayJobBatch(c, relay[c].batch)
        PROVE  Store!Next
    BY <2>1, <2>3 DEF Store!Next
  <2>4. QED BY <1>5, <2>2, <2>3 DEF CloseSettles, storeVars, Store!vars
<1>6. CASE CloseDisconnects(c)
  BY <1>6 DEF CloseDisconnects, Store!Next, storeVars, Store!vars
<1>7. QED BY <1>2, <1>3, <1>4, <1>5, <1>6 DEF RelayStep

\* Connectors and the app-server never touch the store.
LEMMA ConnStoreStep ==
  ASSUME NEW c \in Connectors, ConnStep(c) \/ Connect(c) \/ Stop(c) \/ Kill(c)
  PROVE  UNCHANGED storeVars
<1>1. CASE ReceiveLine(c)
  BY <1>1 DEF ReceiveLine, ReceiveBatch, DeferBatch, ReceiveRecorded, storeVars
<1>2. CASE AnswerTurnStart(c)
  BY <1>2 DEF AnswerTurnStart, TurnStarted, TurnRefused, TurnStartFails, storeVars
<1>3. CASE TimerHeartbeat(c) \/ Reconcile(c) \/ NoticeTurnStarted(c)
           \/ NoticeTurnCompleted(c) \/ ReportTurn(c)
  BY <1>3 DEF TimerHeartbeat, Reconcile, NoticeTurnStarted, NoticeTurnCompleted, ReportTurn,
              storeVars
<1>4. CASE Connect(c) \/ Stop(c) \/ Kill(c) BY <1>4 DEF Connect, Stop, Kill, storeVars
<1>5. QED BY <1>1, <1>2, <1>3, <1>4 DEF ConnStep

\* The service and the clock are the store's own operations.
LEMMA ServiceStoreStep ==
  ASSUME Enqueue \/ ExpireJobs \/ ReadSession \/ Tick
  PROVE  Store!Next
<1>1. Enqueue => Store!Next BY DEF Enqueue, Store!Next
<1>2. ExpireJobs => Store!Next BY DEF ExpireJobs, Store!Next
<1>3. ReadSession => Store!Next BY DEF ReadSession, Store!Next
<1>4. Tick => Store!Next BY DEF Tick, Store!Next
<1>5. QED BY <1>1, <1>2, <1>3, <1>4

\* Hence every step of the system is a step of the store.
LEMMA StoreStep == TypeOK /\ [Next]_vars => [Store!Next]_(Store!vars)
<1> SUFFICES ASSUME TypeOK, [Next]_vars PROVE [Store!Next]_(Store!vars)
  OBVIOUS
<1>1. UNCHANGED storeVars => UNCHANGED Store!vars BY DEF storeVars, Store!vars
<1>2. CASE Enqueue \/ ExpireJobs \/ ReadSession \/ Tick BY <1>2, ServiceStoreStep
<1>3. ASSUME NEW c \in Connectors, RelayStep(c) PROVE [Store!Next]_(Store!vars)
  BY <1>3, RelayStoreStep
<1>4. ASSUME NEW c \in Connectors, ConnStep(c) \/ Connect(c) \/ Stop(c) \/ Kill(c)
      PROVE  UNCHANGED storeVars
  BY <1>4, ConnStoreStep
<1>5. LocalTurn \/ (\E t \in Turns : FinishTurn(t)) => UNCHANGED storeVars
  BY DEF LocalTurn, FinishTurn, storeVars
<1>6. UNCHANGED vars => UNCHANGED storeVars BY DEF vars, storeVars
<1>7. QED BY <1>1, <1>2, <1>3, <1>4, <1>5, <1>6 DEF Next

-----------------------------------------------------------------------------
(***************************************************************************)
(* Types.                                                                  *)
(***************************************************************************)
\* The tables keep their types, by the lemmas of Table.
LEMMA StoreTypes ==
  ASSUME TypeOK, [Next]_vars
  PROVE  Store!TypeOK'
<1>1. Table!TypeOK /\ [Table!Next]_(Table!vars)
  BY StoreStep, SameTypes, SameVars DEF TypeOK
<1>2. job' \in [Jobs -> Table!JobRows] /\ session' \in Table!SessionRows
      /\ answers' \subseteq Table!AnswerRows
  BY <1>1, Table!JobsType, Table!SessionType, Table!AnswersType, StoreAssumption
<1>3. Store!AnswerRows = Table!AnswerRows
  BY SameTypes DEF Store!AnswerRows, Table!AnswerRows
<1>4. Store!SessionRows = Table!SessionRows BY DEF Store!SessionRows, Table!SessionRows
<1>5. QED BY <1>2, <1>3, <1>4, SameTypes DEF Store!TypeOK

\* The fields of a relay and of a connector.
LEMMA RelayFields ==
  ASSUME NEW r \in RelayStates, NEW p \in RelayPcs, NEW S \in SUBSET Jobs, NEW b \in BOOLEAN
  PROVE  /\ [r EXCEPT !.pc = p] \in RelayStates
         /\ [r EXCEPT !.fatal = TRUE] \in RelayStates
         /\ [r EXCEPT !.batch = S] \in RelayStates
         /\ [r EXCEPT !.accepting = b] \in RelayStates
         /\ [r EXCEPT !.pc = p, !.fatal = TRUE] \in RelayStates
         /\ [r EXCEPT !.pc = p, !.batch = S] \in RelayStates
         /\ [r EXCEPT !.pc = p, !.accepting = b] \in RelayStates
         /\ [r EXCEPT !.hello = TRUE, !.accepting = b] \in RelayStates
         /\ [r EXCEPT !.pc = p, !.fatal = TRUE, !.batch = S] \in RelayStates
         /\ [NewRelay EXCEPT !.pc = p] \in RelayStates
BY DEF RelayStates, NewRelay, RelayPcs

\* A connector with some fields rewritten is a connector.
LEMMA ConnFields ==
  ASSUME NEW k \in ConnStates, NEW p \in ConnPcs, NEW S \in SUBSET Jobs,
         NEW t \in Turns \cup {None}, NEW A \in SUBSET Turns
  PROVE  /\ [k EXCEPT !.pc = p] \in ConnStates
         /\ [k EXCEPT !.active = A] \in ConnStates
         /\ [k EXCEPT !.pc = p, !.active = A] \in ConnStates
         /\ [k EXCEPT !.pc = p, !.batch = S] \in ConnStates
         /\ [k EXCEPT !.pc = p, !.batch = S, !.turn = t] \in ConnStates
         /\ [k EXCEPT !.pc = p, !.turn = t, !.active = A] \in ConnStates
         /\ [NewConn EXCEPT !.pc = p] \in ConnStates
         /\ [NewConn EXCEPT !.pc = p, !.active = A] \in ConnStates
BY DEF ConnStates, NewConn, ConnPcs

\* The relay after a step of claimOnce.
LEMMA ClaimRelayTypes ==
  ASSUME TypeOK, NEW c \in Connectors, ClaimFails(c) \/ CheckOwnership(c) \/ FinishClaim(c)
  PROVE  relay' \in [Connectors -> RelayStates]
<1>1. relay \in [Connectors -> RelayStates] /\ relay[c] \in RelayStates /\ relay[c].batch \in SUBSET Jobs
  BY DEF TypeOK, RelayStates
<1>2. ASSUME NEW r \in RelayStates, relay' = [relay EXCEPT ![c] = r]
      PROVE  relay' \in [Connectors -> RelayStates]
  BY <1>1, <1>2
<1>3. {"open", "claiming", "preparing", "releasing"} \subseteq RelayPcs BY DEF RelayPcs
<1>4. CASE ClaimFails(c)
  <2>1. relay' = [relay EXCEPT ![c] = [relay[c] EXCEPT !.fatal = TRUE]]
    BY <1>1, <1>4 DEF ClaimFails
  <2>2. QED BY <1>1, <1>2, <2>1, RelayFields, <1>3
<1>5. CASE CheckOwnership(c)
  <2>1. relay' = [relay EXCEPT ![c] = [relay[c] EXCEPT !.pc = "claiming"]]
    BY <1>1, <1>5 DEF CheckOwnership
  <2>2. QED BY <1>1, <1>2, <1>3, <2>1, RelayFields
<1>6. CASE Claim(c)
  <2>1. PICK S \in SUBSET Jobs :
          relay' = [relay EXCEPT ![c] = [relay[c] EXCEPT
                      !.pc = IF S = {} THEN "open" ELSE "preparing", !.batch = S]]
    BY <1>1, <1>6 DEF Claim
  <2>2. (IF S = {} THEN "open" ELSE "preparing") \in RelayPcs BY <1>3
  <2>3. QED BY <1>1, <1>2, <2>1, <2>2, RelayFields
<1>7. CASE ClaimPoisoned(c)
  <2>1. relay' = [relay EXCEPT ![c] = [relay[c] EXCEPT !.pc = "open", !.fatal = TRUE]]
    BY <1>1, <1>7 DEF ClaimPoisoned
  <2>2. QED BY <1>1, <1>2, <1>3, <2>1, RelayFields
<1>8. CASE SendBatch(c)
  <2>1. relay' = [relay EXCEPT ![c] = [relay[c] EXCEPT !.pc = "open", !.accepting = FALSE]]
    BY <1>1, <1>8 DEF SendBatch
  <2>2. QED BY <1>1, <1>2, <1>3, <2>1, RelayFields
<1>9. CASE Quarantine(c)
  <2>1. PICK S \in Store!Batches : QuarantineJobs(c, S) BY <1>9 DEF Quarantine
  <2>2. \/ relay' = [relay EXCEPT ![c] = [relay[c] EXCEPT
                       !.pc = IF S = relay[c].batch THEN "open" ELSE "releasing",
                       !.batch = relay[c].batch \ S]]
        \/ relay' = [relay EXCEPT ![c] = [relay[c] EXCEPT
                       !.pc = "open", !.fatal = TRUE, !.batch = {}]]
    BY <1>1, <2>1 DEF QuarantineJobs
  <2>3. (IF S = relay[c].batch THEN "open" ELSE "releasing") \in RelayPcs BY <1>3
  <2>4. relay[c].batch \ S \in SUBSET Jobs /\ {} \in SUBSET Jobs BY <1>1
  <2>5. QED BY <1>1, <1>2, <1>3, <2>2, <2>3, <2>4, RelayFields
<1>10. CASE ReleaseRest(c)
  <2>1. \/ relay' = [relay EXCEPT ![c] = [relay[c] EXCEPT !.pc = "open", !.batch = {}]]
        \/ relay' = [relay EXCEPT ![c] = [relay[c] EXCEPT
                       !.pc = "open", !.fatal = TRUE, !.batch = {}]]
    BY <1>1, <1>10 DEF ReleaseRest
  <2>2. {} \in SUBSET Jobs OBVIOUS
  <2>3. QED BY <1>1, <1>2, <1>3, <2>1, <2>2, RelayFields
<1>11. QED BY <1>4, <1>5, <1>6, <1>7, <1>8, <1>9, <1>10 DEF FinishClaim

\* The relay after a line.
LEMMA HandleRelayTypes ==
  ASSUME TypeOK, NEW c \in Connectors, HandleLine(c)
  PROVE  relay' \in [Connectors -> RelayStates]
<1> DEFINE f == Head(toRelay[c])
<1>1. relay \in [Connectors -> RelayStates] /\ relay[c] \in RelayStates BY DEF TypeOK
<1>2. ASSUME NEW r \in RelayStates, relay' = [relay EXCEPT ![c] = r]
      PROVE  relay' \in [Connectors -> RelayStates]
  BY <1>1, <1>2
<1>3. "closing" \in RelayPcs /\ {} \in SUBSET Jobs BY DEF RelayPcs
<1>4. CASE HandlerThrows(c)
  <2>1. relay' = [relay EXCEPT ![c] = [relay[c] EXCEPT !.pc = "closing"]]
    BY <1>1, <1>4 DEF HandlerThrows
  <2>2. QED BY <1>1, <1>2, <1>3, <2>1, RelayFields
<1>5. CASE FinishBatch(c)
  <2>1. relay' = [relay EXCEPT ![c] = [relay[c] EXCEPT !.batch = {}]]
    BY <1>1, <1>5 DEF FinishBatch
  <2>2. QED BY <1>1, <1>2, <1>3, <2>1, RelayFields
<1>6. CASE HandleHello(c)
  <2>1. f.accepting \in BOOLEAN BY <1>6, UpHead, FrameFields DEF HandleHello, Line
  <2>2. relay' = [relay EXCEPT ![c] = [relay[c] EXCEPT !.hello = TRUE, !.accepting = f.accepting]]
    BY <1>1, <1>6 DEF HandleHello
  <2>3. QED BY <1>1, <1>2, <1>3, <2>1, <2>2, RelayFields
<1>7. CASE HandleHeartbeat(c)
  <2>1. f.accepting \in BOOLEAN BY <1>7, UpHead, FrameFields DEF HandleHeartbeat, Line
  <2>2. CASE relay' = [relay EXCEPT ![c].accepting = f.accepting]
    <3>1. relay' = [relay EXCEPT ![c] = [relay[c] EXCEPT !.accepting = f.accepting]]
      BY <1>1, <2>2
    <3>2. QED BY <1>1, <1>2, <1>3, <2>1, <3>1, RelayFields
  <2>3. QED BY <1>4, <1>7, <2>2 DEF HandleHeartbeat
<1>8. CASE HandleAccepted(c) BY <1>1, <1>4, <1>8 DEF HandleAccepted
<1>9. CASE HandleDeferred(c) BY <1>4, <1>5, <1>9 DEF HandleDeferred
<1>10. CASE HandleResult(c) BY <1>4, <1>5, <1>10 DEF HandleResult
<1>11. CASE HandleFailed(c) BY <1>4, <1>5, <1>11 DEF HandleFailed
<1>12. QED BY <1>6, <1>7, <1>8, <1>9, <1>10, <1>11 DEF HandleLine

\* The relays after any step.
LEMMA RelayTypes == TypeOK /\ [Next]_vars => relay' \in [Connectors -> RelayStates]
<1> SUFFICES ASSUME TypeOK, [Next]_vars PROVE relay' \in [Connectors -> RelayStates]
  OBVIOUS
<1>1. relay \in [Connectors -> RelayStates] BY DEF TypeOK
<1>2. ASSUME NEW c \in Connectors, NEW r \in RelayStates, relay' = [relay EXCEPT ![c] = r]
      PROVE  relay' \in [Connectors -> RelayStates]
  BY <1>1, <1>2
<1>3. {"open", "leaving", "gone"} \subseteq RelayPcs /\ {} \in SUBSET Jobs BY DEF RelayPcs
<1>4. ASSUME NEW c \in Connectors, RelayStep(c) PROVE relay' \in [Connectors -> RelayStates]
  <2>1. CASE CloseSettles(c)
    <3>1. relay' = [relay EXCEPT ![c] = [relay[c] EXCEPT !.pc = "leaving", !.batch = {}]]
      BY <1>1, <2>1 DEF CloseSettles
    <3>2. QED BY <1>1, <1>2, <1>3, <3>1, RelayFields
  <2>2. CASE CloseDisconnects(c)
    <3>1. NewRelay \in RelayStates BY DEF NewRelay, RelayStates, RelayPcs
    <3>2. [NewRelay EXCEPT !.pc = "gone"] \in RelayStates BY <1>3, <3>1, RelayFields
    <3>3. QED BY <1>2, <2>2, <3>2 DEF CloseDisconnects, Gone
  <2>3. QED BY <1>4, <2>1, <2>2, ClaimRelayTypes, HandleRelayTypes DEF RelayStep
<1>5. ASSUME NEW c \in Connectors, Connect(c) PROVE relay' \in [Connectors -> RelayStates]
  <2>1. relay' = [relay EXCEPT ![c] = [relay[c] EXCEPT !.pc = "open"]]
    BY <1>1, <1>5 DEF Connect
  <2>2. QED BY <1>1, <1>2, <1>3, <2>1, RelayFields
<1>6. ASSUME NEW c \in Connectors, Kill(c) PROVE relay' \in [Connectors -> RelayStates]
  <2>1. NewRelay \in RelayStates BY DEF NewRelay, RelayStates, RelayPcs
  <2>2. [NewRelay EXCEPT !.pc = "gone"] \in RelayStates BY <1>3, <2>1, RelayFields
  <2>3. QED BY <1>2, <1>6, <2>2 DEF Kill, Gone
<1>7. ASSUME NEW c \in Connectors, ConnStep(c) \/ Stop(c) PROVE UNCHANGED relay
  BY <1>7 DEF ConnStep, Stop, TimerHeartbeat, Reconcile, NoticeTurnStarted, NoticeTurnCompleted,
     ReportTurn, ReceiveLine, ReceiveBatch, DeferBatch, ReceiveRecorded, AnswerTurnStart,
     TurnStarted, TurnRefused, TurnStartFails
<1>8. Enqueue \/ ExpireJobs \/ ReadSession \/ Tick \/ LocalTurn \/ (\E t \in Turns : FinishTurn(t))
        => UNCHANGED relay
  BY DEF Enqueue, ExpireJobs, ReadSession, Tick, LocalTurn, FinishTurn
<1>9. QED BY <1>1, <1>4, <1>5, <1>6, <1>7, <1>8 DEF Next, vars

\* The connector.  Only these actions write to conn or turns.
LEMMA ConnTypes ==
  ASSUME TypeOK, NEW c \in Connectors, ConnStep(c) \/ Connect(c) \/ Stop(c)
  PROVE  conn' \in [Connectors -> ConnStates]
<1>1. /\ conn \in [Connectors -> ConnStates] /\ conn[c] \in ConnStates
      /\ conn[c].active \in SUBSET Turns /\ conn[c].turn \in Turns \cup {None}
      /\ conn[c].batch \in SUBSET Jobs
  BY DEF TypeOK, ConnStates
<1>2. ASSUME NEW k \in ConnStates, conn' = [conn EXCEPT ![c] = k]
      PROVE  conn' \in [Connectors -> ConnStates]
  BY <1>1, <1>2
<1>3. /\ {"idle", "starting", "running", "recording", "down"} \subseteq ConnPcs
      /\ {} \in SUBSET Jobs /\ None \in Turns \cup {None}
      /\ RunningTurns \in SUBSET Turns
  BY DEF ConnPcs, RunningTurns
<1>4. CASE TimerHeartbeat(c) \/ DeferBatch(c)
  BY <1>1, <1>4 DEF TimerHeartbeat, DeferBatch
<1>5. CASE Reconcile(c)
  <2>1. conn' = [conn EXCEPT ![c] = [conn[c] EXCEPT !.active = RunningTurns]]
    BY <1>1, <1>5 DEF Reconcile
  <2>2. QED BY <1>1, <1>2, <1>3, <2>1, ConnFields
<1>6. CASE NoticeTurnStarted(c)
  <2>1. PICK t \in RunningTurns \ conn[c].active :
          conn' = [conn EXCEPT ![c].active = @ \cup {t}]
    BY <1>6 DEF NoticeTurnStarted
  <2>2. conn' = [conn EXCEPT ![c] = [conn[c] EXCEPT !.active = conn[c].active \cup {t}]]
    BY <1>1, <2>1
  <2>3. conn[c].active \cup {t} \in SUBSET Turns BY <1>1, <1>3
  <2>4. QED BY <1>1, <1>2, <1>3, <2>2, <2>3, ConnFields
<1>7. CASE NoticeTurnCompleted(c)
  <2>1. PICK t \in conn[c].active : conn' = [conn EXCEPT ![c].active = @ \ {t}]
    BY <1>7 DEF NoticeTurnCompleted
  <2>2. conn' = [conn EXCEPT ![c] = [conn[c] EXCEPT !.active = conn[c].active \ {t}]]
    BY <1>1, <2>1
  <2>3. conn[c].active \ {t} \in SUBSET Turns BY <1>1
  <2>4. QED BY <1>1, <1>2, <1>3, <2>2, <2>3, ConnFields
<1>8. CASE ReportTurn(c)
  <2>1. conn' = [conn EXCEPT ![c] = [conn[c] EXCEPT !.pc = "recording",
                                       !.active = conn[c].active \ {conn[c].turn}]]
    BY <1>1, <1>8 DEF ReportTurn
  <2>2. conn[c].active \ {conn[c].turn} \in SUBSET Turns BY <1>1
  <2>3. [conn[c] EXCEPT !.pc = "recording", !.active = conn[c].active \ {conn[c].turn}]
          \in ConnStates
    BY <1>1, <1>3, <2>2 DEF ConnStates, ConnPcs
  <2>4. QED BY <1>2, <2>1, <2>3
<1>9. CASE ReceiveBatch(c)
  <2>1. Head(toConn[c]) \in FromRelay BY <1>9, DownHead DEF ReceiveBatch, Received
  <2>2. Head(toConn[c]).batch \in SUBSET Jobs BY <2>1 DEF FromRelay, Store!Batches
  <2>3. conn' = [conn EXCEPT ![c] = [conn[c] EXCEPT !.pc = "starting", !.batch = Head(toConn[c]).batch]]
    BY <1>1, <1>9 DEF ReceiveBatch
  <2>4. QED BY <1>1, <1>2, <1>3, <2>2, <2>3, ConnFields
<1>10. CASE ReceiveRecorded(c)
  <2>1. CASE conn' = [conn EXCEPT ![c].pc = "idle", ![c].batch = {}, ![c].turn = None]
    <3>1. conn' = [conn EXCEPT ![c] = [conn[c] EXCEPT !.pc = "idle", !.batch = {}, !.turn = None]]
      BY <1>1, <2>1
    <3>2. QED BY <1>1, <1>2, <1>3, <3>1, ConnFields
  <2>2. QED BY <1>1, <1>10, <2>1 DEF ReceiveRecorded
<1>11. CASE TurnStarted(c)
  <2>1. PICK t \in Turns : conn' = [conn EXCEPT ![c].pc = "running", ![c].turn = t,
                                                ![c].active = @ \cup {t}]
    BY <1>11 DEF TurnStarted
  <2>2. conn' = [conn EXCEPT ![c] = [conn[c] EXCEPT !.pc = "running", !.turn = t,
                                       !.active = conn[c].active \cup {t}]]
    BY <1>1, <2>1
  <2>3. conn[c].active \cup {t} \in SUBSET Turns /\ t \in Turns \cup {None} BY <1>1
  <2>4. QED BY <1>1, <1>2, <1>3, <2>2, <2>3, ConnFields
<1>12. CASE TurnRefused(c) \/ TurnStartFails(c)
  <2>1. conn' = [conn EXCEPT ![c] = [conn[c] EXCEPT !.pc = "recording"]]
    BY <1>1, <1>12 DEF TurnRefused, TurnStartFails
  <2>2. QED BY <1>1, <1>2, <1>3, <2>1, ConnFields
<1>13. CASE Connect(c)
  <2>1. conn' = [conn EXCEPT ![c] = [NewConn EXCEPT !.pc = "idle", !.active = RunningTurns]]
    BY <1>13 DEF Connect
  <2>2. QED BY <1>1, <1>2, <1>3, <2>1, ConnFields
<1>14. CASE Stop(c)
  <2>1. conn' = [conn EXCEPT ![c] = [NewConn EXCEPT !.pc = "down"]] BY <1>14 DEF Stop
  <2>2. QED BY <1>1, <1>2, <1>3, <2>1, ConnFields
<1>15. QED BY <1>4, <1>5, <1>6, <1>7, <1>8, <1>9, <1>10, <1>11, <1>12, <1>13, <1>14
           DEF ConnStep, ReceiveLine, AnswerTurnStart

\* The turns after one started.
LEMMA StartTypes ==
  ASSUME TypeOK, NEW t \in Turns, NEW S \in SUBSET Jobs, NEW c \in Connectors \cup {None},
         StartTurn(t, S, c)
  PROVE  turns' \in [Turns -> TurnStates]
<1>1. [status |-> "running", jobs |-> S, by |-> c] \in TurnStates BY DEF TurnStates
<1>2. QED BY <1>1 DEF StartTurn, TypeOK

\* Only a connector or the user starts a turn.
LEMMA OnlyConnectorsStart ==
  ASSUME [Next]_vars
  PROVE  \/ UNCHANGED turns
         \/ \E c \in Connectors : ConnStep(c)
         \/ LocalTurn \/ \E t \in Turns : FinishTurn(t)
<1>1. ASSUME NEW c \in Connectors, RelayStep(c) \/ Connect(c) \/ Stop(c) \/ Kill(c)
      PROVE  UNCHANGED turns
  <2>1. CASE HandleLine(c)
    BY <2>1 DEF HandleLine, HandleHello, HandleHeartbeat, HandleAccepted, HandleDeferred,
       HandleResult, HandleFailed
  <2>2. CASE FinishClaim(c)
    BY <2>2 DEF FinishClaim, Claim, ClaimPoisoned, SendBatch, Quarantine, QuarantineJobs, ReleaseRest
  <2>3. QED BY <1>1, <2>1, <2>2 DEF RelayStep, ClaimFails, CheckOwnership, CloseSettles,
       CloseDisconnects, Connect, Stop, Kill
<1>2. Enqueue \/ ExpireJobs \/ ReadSession \/ Tick => UNCHANGED turns
  BY DEF Enqueue, ExpireJobs, ReadSession, Tick
<1>3. QED BY <1>1, <1>2 DEF Next, vars

\* The turns after any step.
LEMMA TurnTypes ==
  ASSUME TypeOK, [Next]_vars
  PROVE  turns' \in [Turns -> TurnStates]
<1>1. turns \in [Turns -> TurnStates] BY DEF TypeOK
<1>2. ASSUME NEW c \in Connectors, TurnStarted(c) \/ TurnStartFails(c)
      PROVE  turns' \in [Turns -> TurnStates]
  <2>1. conn[c].batch \in SUBSET Jobs /\ c \in Connectors \cup {None}
    BY DEF TypeOK, ConnStates
  <2>2. UNCHANGED turns \/ \E t \in Turns : StartTurn(t, conn[c].batch, c)
    BY <1>2 DEF TurnStarted, TurnStartFails
  <2>3. QED BY <1>1, <2>1, <2>2, StartTypes
<1>3. CASE LocalTurn
  <2>1. {} \in SUBSET Jobs /\ None \in Connectors \cup {None} OBVIOUS
  <2>2. QED BY <1>3, <2>1, StartTypes DEF LocalTurn
<1>4. ASSUME NEW t \in Turns, FinishTurn(t) PROVE turns' \in [Turns -> TurnStates]
  <2>1. [turns[t] EXCEPT !.status = "done"] \in TurnStates BY <1>1 DEF TurnStates
  <2>2. turns' = [turns EXCEPT ![t] = [turns[t] EXCEPT !.status = "done"]]
    BY <1>1, <1>4 DEF FinishTurn
  <2>3. QED BY <1>1, <2>1, <2>2
<1>5. ASSUME NEW c \in Connectors, ConnStep(c), ~TurnStarted(c), ~TurnStartFails(c)
      PROVE  UNCHANGED turns
  BY <1>5 DEF ConnStep, TimerHeartbeat, Reconcile, NoticeTurnStarted, NoticeTurnCompleted,
     ReportTurn, ReceiveLine, ReceiveBatch, DeferBatch, ReceiveRecorded, AnswerTurnStart, TurnRefused
<1>6. QED BY <1>1, <1>2, <1>3, <1>4, <1>5, OnlyConnectorsStart

\* The pipes.
LEMMA Frames ==
  ASSUME NEW S \in Store!Batches, NEW t \in Turns \cup {None}, NEW u \in Turns,
         NEW r \in ResultKinds, NEW b \in BOOLEAN
  PROVE  /\ [type |-> "hello", accepting |-> b] \in FromConnector
         /\ Heartbeat(b) \in FromConnector
         /\ [type |-> "job_accepted", batch |-> S, turn |-> u] \in FromConnector
         /\ [type |-> "job_deferred", batch |-> S] \in FromConnector
         /\ [type |-> "job_failed", batch |-> S, turn |-> t] \in FromConnector
         /\ [type |-> "job_result", batch |-> S, turn |-> u, result |-> r] \in FromConnector
         /\ [type |-> "job_batch", batch |-> S] \in FromRelay
         /\ [type |-> "job_recorded", batch |-> S] \in FromRelay
BY DEF Heartbeat, FromConnector, FromRelay

\* The lines to the relays after one was written.
LEMMA ToRelayTypes ==
  ASSUME TypeOK, NEW c \in Connectors, NEW f \in FromConnector, ToRelay(c, f)
  PROVE  toRelay' \in [Connectors -> Seq(FromConnector)]
<1>1. Append(toRelay[c], f) \in Seq(FromConnector) BY DEF TypeOK
<1>2. QED BY <1>1 DEF TypeOK, ToRelay

-----------------------------------------------------------------------------
(***************************************************************************)
(* Where a batch is.  The predicates are about one relay r, its connector   *)
(* k, the lines up (to the relay) and the lines down (to the connector).    *)
(***************************************************************************)
About(f) == f.type \in {"job_accepted", "job_deferred", "job_failed", "job_result"}

Silent(up) == \A i \in 1..Len(up) : ~About(up[i])
Carries(up, S) == \A i \in 1..Len(up) : About(up[i]) => up[i].batch = S
OnlyAccepted(up) == \A i \in 1..Len(up) : About(up[i]) => up[i].type = "job_accepted"

\* A batch is accepted once at most, and what it came to is the last line about it.
InTurn(up) ==
  \A i, n \in 1..Len(up) : i < n /\ About(up[i]) /\ About(up[n]) =>
    up[i].type = "job_accepted" /\ up[n].type # "job_accepted"

Working(r) == r.pc \in {"open", "claiming", "preparing", "releasing"}
Up(k) == k.pc \notin {"new", "down"}

\* The relay has a batch in flight that its connector was sent.
Sent(r) == r.pc = "open" /\ r.batch # {}

BatchLine(S) == [type |-> "job_batch", batch |-> S]
RecordedLine(S) == [type |-> "job_recorded", batch |-> S]

\* The connector has no job, or the line that ends it is on its way.
Waits(k, down) ==
  \/ k.pc = "idle" /\ down = <<>>
  \/ k.pc = "idle" /\ \E S \in Store!Batches : down = <<RecordedLine(S)>>
  \/ k.pc = "recording" /\ down = <<RecordedLine(k.batch)>>

Free(r, k, up, down) == ~Sent(r) /\ Silent(up) /\ Waits(k, down)

\* The batch is the last line to a connector that will have no job when it reads it.
Offered(r, k, up, down) ==
  /\ Sent(r) /\ Silent(up)
  /\ \/ k.pc = "idle" /\ down = <<BatchLine(r.batch)>>
     \/ k.pc = "idle" /\ \E S \in Store!Batches : down = <<RecordedLine(S), BatchLine(r.batch)>>
     \/ k.pc = "recording" /\ down = <<RecordedLine(k.batch), BatchLine(r.batch)>>

\* The connector has the batch, or its report of it has not been read yet.
Held(r, k, up, down) ==
  /\ Sent(r) /\ down = <<>> /\ Carries(up, r.batch)
  /\ \/ k.pc = "idle"
     \/ k.pc = "starting" /\ k.batch = r.batch /\ Silent(up)
     \/ k.pc = "running" /\ k.batch = r.batch /\ OnlyAccepted(up)
     \/ k.pc = "recording" /\ k.batch = r.batch

Link(r, k, up, down) == Working(r) =>
  /\ InTurn(up)
  /\ IF Up(k) THEN Free(r, k, up, down) \/ Offered(r, k, up, down) \/ Held(r, k, up, down)
     ELSE Silent(up) \/ (Sent(r) /\ Carries(up, r.batch))

\* Lines: one more, one less, a prefix.
LEMMA SilentFacts ==
  ASSUME NEW up, Silent(up)
  PROVE  (\A S : Carries(up, S)) /\ OnlyAccepted(up) /\ InTurn(up)
BY DEF Silent, Carries, OnlyAccepted, InTurn

\* One line more.
LEMMA UpAppend ==
  ASSUME NEW up \in Seq(FromConnector), NEW f \in FromConnector
  PROVE  /\ Silent(up) /\ ~About(f) => Silent(Append(up, f))
         /\ \A S : Carries(up, S) /\ (About(f) => f.batch = S) => Carries(Append(up, f), S)
         /\ OnlyAccepted(up) /\ (About(f) => f.type = "job_accepted") => OnlyAccepted(Append(up, f))
         /\ InTurn(up) /\ ~About(f) => InTurn(Append(up, f))
         /\ InTurn(up) /\ OnlyAccepted(up) /\ f.type # "job_accepted" => InTurn(Append(up, f))
         /\ Silent(up) => InTurn(Append(up, f))
<1> DEFINE new == Append(up, f)
<1>1. /\ Len(up) \in Nat /\ Len(new) = Len(up) + 1
      /\ \A i \in 1..Len(up) : new[i] = up[i]
      /\ new[Len(up) + 1] = f
  BY AppendProperties
<1>2. \A i \in 1..Len(new) : i \in 1..Len(up) \/ i = Len(up) + 1 BY <1>1
<1> HIDE DEF new
<1>3. Silent(up) /\ ~About(f) => Silent(new) BY <1>1, <1>2 DEF Silent
<1>4. \A S : Carries(up, S) /\ (About(f) => f.batch = S) => Carries(new, S)
  BY <1>1, <1>2 DEF Carries
<1>5. OnlyAccepted(up) /\ (About(f) => f.type = "job_accepted") => OnlyAccepted(new)
  BY <1>1, <1>2 DEF OnlyAccepted
<1>6. InTurn(up) /\ ~About(f) => InTurn(new) BY <1>1, <1>2 DEF InTurn
<1>7. InTurn(up) /\ OnlyAccepted(up) /\ f.type # "job_accepted" => InTurn(new)
  BY <1>1, <1>2 DEF InTurn, OnlyAccepted
<1>8. Silent(up) => InTurn(new) BY <1>1, <1>2 DEF InTurn, Silent
<1>9. QED BY <1>3, <1>4, <1>5, <1>6, <1>7, <1>8 DEF new

\* One line less.
LEMMA UpTail ==
  ASSUME NEW up \in Seq(FromConnector), up # <<>>
  PROVE  /\ Silent(up) => Silent(Tail(up))
         /\ \A S : Carries(up, S) => Carries(Tail(up), S)
         /\ OnlyAccepted(up) => OnlyAccepted(Tail(up))
         /\ InTurn(up) => InTurn(Tail(up))
         /\ InTurn(up) /\ About(Head(up)) /\ Head(up).type # "job_accepted" => Silent(Tail(up))
         /\ InTurn(up) /\ Head(up).type = "job_accepted" =>
              \A i \in 1..Len(Tail(up)) : Tail(up)[i].type # "job_accepted"
<1> DEFINE new == Tail(up)
<1>1. /\ Len(up) \in Nat /\ Len(new) = Len(up) - 1 /\ 1 \in 1..Len(up) /\ up[1] = Head(up)
      /\ \A i \in 1..Len(new) : new[i] = up[i + 1] /\ i + 1 \in 1..Len(up) /\ 1 < i + 1
  BY HeadTailProperties
<1> HIDE DEF new
<1>2. Silent(up) => Silent(new) BY <1>1 DEF Silent
<1>3. \A S : Carries(up, S) => Carries(new, S) BY <1>1 DEF Carries
<1>4. OnlyAccepted(up) => OnlyAccepted(new) BY <1>1 DEF OnlyAccepted
<1>5. InTurn(up) => InTurn(new)
  <2> SUFFICES ASSUME InTurn(up), NEW i \in 1..Len(new), NEW n \in 1..Len(new),
                      i < n, About(new[i]), About(new[n])
               PROVE  new[i].type = "job_accepted" /\ new[n].type # "job_accepted"
    BY DEF InTurn
  <2>1. /\ new[i] = up[i + 1] /\ new[n] = up[n + 1] /\ i + 1 < n + 1
        /\ i + 1 \in 1..Len(up) /\ n + 1 \in 1..Len(up)
    BY <1>1
  <2>2. QED BY <2>1 DEF InTurn
<1>6. InTurn(up) /\ About(Head(up)) /\ Head(up).type # "job_accepted" => Silent(new)
  BY <1>1 DEF InTurn, Silent
<1>7. InTurn(up) /\ Head(up).type = "job_accepted" =>
        \A i \in 1..Len(new) : new[i].type # "job_accepted"
  <2> SUFFICES ASSUME InTurn(up), Head(up).type = "job_accepted", NEW i \in 1..Len(new)
               PROVE  new[i].type # "job_accepted"
    OBVIOUS
  <2>1. About(up[1]) /\ i + 1 \in 1..Len(up) /\ 1 < i + 1 /\ new[i] = up[i + 1]
    BY <1>1 DEF About
  <2>2. About(up[i + 1]) => up[i + 1].type # "job_accepted" BY <1>1, <2>1 DEF InTurn
  <2>3. QED BY <2>1, <2>2 DEF About
<1>8. QED BY <1>2, <1>3, <1>4, <1>5, <1>6, <1>7 DEF new

\* A prefix: the rest was lost with its writer.
LEMMA UpPrefix ==
  ASSUME NEW up \in Seq(FromConnector), NEW n \in 0..Len(up)
  PROVE  /\ SubSeq(up, 1, n) \in Seq(FromConnector)
         /\ Silent(up) => Silent(SubSeq(up, 1, n))
         /\ \A S : Carries(up, S) => Carries(SubSeq(up, 1, n), S)
         /\ InTurn(up) => InTurn(SubSeq(up, 1, n))
         /\ \A i \in 1..Len(SubSeq(up, 1, n)) : i \in 1..Len(up) /\ SubSeq(up, 1, n)[i] = up[i]
<1> DEFINE new == SubSeq(up, 1, n)
<1>1. Len(up) \in Nat /\ n \in Int /\ \A i \in 1..n : up[i] \in FromConnector /\ i \in 1..Len(up)
  BY LenProperties, ElementOfSeq
<1>2. new \in Seq(FromConnector) /\ Len(new) = n /\ \A i \in 1..n : new[i] = up[i]
  BY <1>1, SubSeqProperties
<1> HIDE DEF new
<1>3. Silent(up) => Silent(new) BY <1>1, <1>2 DEF Silent
<1>4. \A S : Carries(up, S) => Carries(new, S) BY <1>1, <1>2 DEF Carries
<1>5. InTurn(up) => InTurn(new) BY <1>1, <1>2 DEF InTurn
<1>6. \A i \in 1..Len(new) : i \in 1..Len(up) /\ new[i] = up[i] BY <1>1, <1>2
<1>7. QED BY <1>2, <1>3, <1>4, <1>5, <1>6 DEF new

\* The first line is about a batch.
LEMMA HeadAbout ==
  ASSUME NEW up \in Seq(FromConnector), up # <<>>, About(Head(up))
  PROVE  /\ ~Silent(up)
         /\ \A S : Carries(up, S) => Head(up).batch = S
         /\ OnlyAccepted(up) => Head(up).type = "job_accepted"
<1>1. 1 \in 1..Len(up) /\ up[1] = Head(up) BY HeadTailProperties
<1>2. QED BY <1>1 DEF Silent, Carries, OnlyAccepted

\* The lines to the connector are at most two.
LEMMA DownShapes ==
  ASSUME NEW x, NEW b
  PROVE  /\ Append(<<>>, b) = <<b>> /\ Append(<<x>>, b) = <<x, b>>
         /\ Head(<<b>>) = b /\ Tail(<<b>>) = <<>> /\ <<b>> # <<>>
         /\ Head(<<x, b>>) = x /\ Tail(<<x, b>>) = <<b>> /\ <<x, b>> # <<>>
<1>1. Append(<<>>, b) = <<b>> OBVIOUS
<1>2. Append(<<x>>, b) = <<x, b>>
  <2> DEFINE T == {x, b}  s == Append(<<x>>, b)  u == <<x, b>>
  <2>1. <<x>> \in Seq(T) /\ b \in T /\ Len(<<x>>) = 1 /\ <<x>>[1] = x OBVIOUS
  <2>2. s \in Seq(T) /\ Len(s) = 2 /\ s[1] = x /\ s[2] = b BY <2>1, AppendProperties
  <2>3. u \in Seq(T) /\ Len(u) = 2 /\ u[1] = x /\ u[2] = b OBVIOUS
  <2> HIDE DEF s, u
  <2>4. \A i \in 1..2 : s[i] = u[i] BY <2>2, <2>3
  <2>5. s = u BY <2>2, <2>3, <2>4, SeqEqual
  <2>6. QED BY <2>5 DEF s, u
<1>3. Head(<<b>>) = b /\ Head(<<x, b>>) = x OBVIOUS
<1>4. <<b>> # <<>> /\ <<x, b>> # <<>> OBVIOUS
<1>5. Tail(<<b>>) = <<>> OBVIOUS
<1>6. Tail(<<x, b>>) = <<b>> OBVIOUS
<1>7. QED BY <1>1, <1>2, <1>3, <1>4, <1>5, <1>6

\* What each side remembers and reads in each of its states.
Phase(r, k, up, down) ==
  /\ k.pc = "new" => r.pc = "none" /\ r.batch = {} /\ up = <<>>
  /\ ~Up(k) => down = <<>> /\ k.batch = {}
  /\ k.pc = "idle" => k.batch = {}
  /\ k.pc \in {"starting", "running", "recording"} => k.batch # {}
  /\ r.pc = "claiming" => r.batch = {}
  /\ r.pc = "preparing" => r.batch # {}

Pair(r, k, up, down) == Phase(r, k, up, down) /\ Link(r, k, up, down)

\* Only pc and batch count, and a relay with nothing sent may do as it likes.
LEMMA PairSame ==
  ASSUME NEW r, NEW k, NEW up, NEW down, NEW r2, NEW k2, Pair(r, k, up, down),
         r2.pc = r.pc, r2.batch = r.batch, k2.pc = k.pc, k2.batch = k.batch
  PROVE  Pair(r2, k2, up, down)
BY DEF Pair, Phase, Link, Working, Up, Free, Offered, Held, Sent, Waits

\* A relay that has sent nothing may claim, quarantine or release.
LEMMA PairUnsent ==
  ASSUME NEW r, NEW k, NEW up, NEW down, NEW r2, Pair(r, k, up, down),
         Working(r), Working(r2), ~Sent(r), ~Sent(r2),
         r2.pc = "claiming" => r2.batch = {}, r2.pc = "preparing" => r2.batch # {}
  PROVE  Pair(r2, k, up, down)
<1>1. k.pc # "new" BY DEF Pair, Phase, Working
<1>2. Phase(r2, k, up, down) BY <1>1 DEF Pair, Phase
<1>3. Link(r2, k, up, down) BY DEF Pair, Link, Free, Offered, Held
<1>4. QED BY <1>2, <1>3 DEF Pair

\* Nothing is asked of a relay that has stopped working.
LEMMA PairOver ==
  ASSUME NEW r, NEW k, NEW up, NEW down, NEW r2, NEW up2, Pair(r, k, up, down),
         r.pc # "none", ~Working(r2)
  PROVE  Pair(r2, k, up2, down)
BY DEF Pair, Phase, Link, Working, Up

\* The batch is sent.
LEMMA PairSent ==
  ASSUME NEW r, NEW k, NEW up, NEW down, NEW r2, Pair(r, k, up, down),
         r.pc = "preparing", r2.pc = "open", r2.batch = r.batch
  PROVE  Pair(r2, k, up, IF Up(k) THEN Append(down, BatchLine(r.batch)) ELSE down)
<1>1. Sent(r2) /\ Working(r) /\ ~Sent(r) /\ k.pc # "new" BY DEF Pair, Phase, Sent, Working
<1>2. InTurn(up) /\ Silent(up) BY <1>1 DEF Pair, Link, Free, Offered, Held
<1>3. CASE ~Up(k) BY <1>1, <1>2, <1>3 DEF Pair, Phase, Link, Up
<1>4. CASE Up(k)
  <2>1. Waits(k, down) BY <1>1, <1>4 DEF Pair, Link, Free, Offered, Held
  <2>2. Offered(r2, k, up, Append(down, BatchLine(r2.batch)))
    <3>1. CASE k.pc = "idle" /\ down = <<>>
      BY <1>1, <1>2, <3>1, DownShapes DEF Offered
    <3>2. ASSUME NEW S \in Store!Batches, k.pc = "idle", down = <<RecordedLine(S)>>
          PROVE  Offered(r2, k, up, Append(down, BatchLine(r2.batch)))
      <4>1. Append(down, BatchLine(r2.batch)) = <<RecordedLine(S), BatchLine(r2.batch)>>
        BY <3>2, DownShapes
      <4>2. QED BY <1>1, <1>2, <3>2, <4>1 DEF Offered
    <3>3. CASE k.pc = "recording" /\ down = <<RecordedLine(k.batch)>>
      <4>1. Append(down, BatchLine(r2.batch)) = <<RecordedLine(k.batch), BatchLine(r2.batch)>>
        BY <3>3, DownShapes
      <4>2. QED BY <1>1, <1>2, <3>3, <4>1 DEF Offered
    <3>4. QED BY <2>1, <3>1, <3>2, <3>3 DEF Waits
  <2>3. QED BY <1>1, <1>2, <1>4, <2>2 DEF Pair, Phase, Link, Up
<1>5. QED BY <1>3, <1>4

\* A line is handled that leaves the batch in flight.
LEMMA PairTail ==
  ASSUME NEW r, NEW k, NEW up \in Seq(FromConnector), NEW down, NEW r2,
         Pair(r, k, up, down), up # <<>>, r2.pc = r.pc, r2.batch = r.batch
  PROVE  Pair(r2, k, Tail(up), down)
<1> DEFINE up2 == Tail(up)
<1>1. /\ Silent(up) => Silent(up2)
      /\ \A S : Carries(up, S) => Carries(up2, S)
      /\ OnlyAccepted(up) => OnlyAccepted(up2)
      /\ InTurn(up) => InTurn(up2)
  BY UpTail
<1> HIDE DEF up2
<1>2. Phase(r2, k, up2, down) BY DEF Pair, Phase
<1>3. Link(r2, k, up2, down) BY <1>1 DEF Pair, Link, Working, Free, Offered, Held, Sent
<1>4. QED BY <1>2, <1>3 DEF Pair, up2

\* The first line decides where the batch is.
LEMMA PairHead ==
  ASSUME NEW r, NEW k, NEW up \in Seq(FromConnector), NEW down,
         Pair(r, k, up, down), up # <<>>, About(Head(up)), Working(r)
  PROVE  /\ Sent(r) /\ Head(up).batch = r.batch /\ InTurn(up)
         /\ Up(k) => Held(r, k, up, down)
BY HeadAbout DEF Pair, Link, Free, Offered, Held

\* The line that ends the batch is handled and answered.
LEMMA PairFinished ==
  ASSUME NEW r, NEW k, NEW up \in Seq(FromConnector), NEW down, NEW r2,
         Pair(r, k, up, down), up # <<>>, About(Head(up)), Head(up).type # "job_accepted",
         r.pc = "open", r.batch \in SUBSET Jobs, r2.pc = "open", r2.batch = {}
  PROVE  Pair(r2, k, Tail(up), IF Up(k) THEN Append(down, RecordedLine(r.batch)) ELSE down)
<1>1. /\ Working(r) /\ Sent(r) /\ InTurn(up)
      /\ Up(k) => Held(r, k, up, down)
  BY PairHead DEF Working
<1>2. Silent(Tail(up)) /\ ~Sent(r2) /\ k.pc # "new"
  BY <1>1, UpTail DEF Sent, Pair, Phase
<1>3. InTurn(Tail(up)) BY <1>2, SilentFacts
<1>4. CASE ~Up(k) BY <1>2, <1>3, <1>4 DEF Pair, Phase, Link, Up
<1>5. CASE Up(k)
  <2>1. r.batch \in Store!Batches BY <1>1 DEF Sent, Store!Batches
  <2>2. down = <<>> /\ (k.pc = "idle" \/ (k.pc = "recording" /\ k.batch = r.batch))
    BY <1>1, <1>5, HeadAbout DEF Held
  <2>3. Waits(k, Append(down, RecordedLine(r.batch)))
    BY <2>1, <2>2, DownShapes DEF Waits
  <2>4. QED BY <1>2, <1>3, <1>5, <2>3 DEF Pair, Phase, Link, Up, Free
<1>6. QED BY <1>4, <1>5

\* A connector starts.
LEMMA PairBegins ==
  ASSUME NEW r, NEW k, NEW r2, NEW k2, NEW b, NEW up, NEW down, Pair(r, k, up, down),
         k.pc = "new", k2.pc = "idle", k2.batch = {}, r2.pc = "open", r2.batch = r.batch
  PROVE  Pair(r2, k2, <<[type |-> "hello", accepting |-> b]>>, down)
<1> DEFINE up2 == <<[type |-> "hello", accepting |-> b]>>
<1>1. r2.batch = {} /\ down = <<>> BY DEF Pair, Phase, Up
<1>2. Len(up2) = 1 /\ up2[1].type = "hello" OBVIOUS
<1> HIDE DEF up2
<1>3. Silent(up2) BY <1>2 DEF Silent, About
<1>4. InTurn(up2) BY <1>3, SilentFacts
<1>5. QED BY <1>1, <1>3, <1>4 DEF Pair, Phase, Link, Free, Sent, Waits, Up, up2

\* A connector stops, and some of its lines are lost.
LEMMA PairStopped ==
  ASSUME NEW r, NEW k, NEW up \in Seq(FromConnector), NEW down, NEW k2,
         NEW n \in 0..Len(up), Pair(r, k, up, down), Up(k), k2.pc = "down", k2.batch = {}
  PROVE  Pair(r, k2, SubSeq(up, 1, n), <<>>)
<1> DEFINE up2 == SubSeq(up, 1, n)
<1>1. /\ Silent(up) => Silent(up2)
      /\ \A S : Carries(up, S) => Carries(up2, S)
      /\ InTurn(up) => InTurn(up2)
  BY UpPrefix
<1> HIDE DEF up2
<1>2. Phase(r, k2, up2, <<>>) BY DEF Pair, Phase, Up
<1>3. Link(r, k2, up2, <<>>) BY <1>1 DEF Pair, Link, Up, Free, Offered, Held
<1>4. QED BY <1>2, <1>3 DEF Pair, up2

\* A heartbeat.
LEMMA PairHeartbeat ==
  ASSUME NEW r, NEW k, NEW up \in Seq(FromConnector), NEW down, NEW k2,
         NEW f \in FromConnector, f.type = "heartbeat", Pair(r, k, up, down), k.pc # "new",
         k2.pc = k.pc, k2.batch = k.batch
  PROVE  Pair(r, k2, Append(up, f), down)
<1> DEFINE up2 == Append(up, f)
<1>1. ~About(f) BY DEF About
<1>2. /\ Silent(up) => Silent(up2)
      /\ \A S : Carries(up, S) => Carries(up2, S)
      /\ OnlyAccepted(up) => OnlyAccepted(up2)
      /\ InTurn(up) => InTurn(up2)
  BY <1>1, UpAppend
<1> HIDE DEF up2
<1>3. Phase(r, k2, up2, down) BY DEF Pair, Phase, Up
<1>4. Link(r, k2, up2, down) BY <1>2 DEF Pair, Link, Free, Offered, Held, Waits, Up
<1>5. QED BY <1>3, <1>4 DEF Pair, up2

\* The first line to the connector.
LEMMA PairDown ==
  ASSUME NEW r, NEW k, NEW up, NEW down, Pair(r, k, up, down), Up(k), Working(r), down # <<>>
  PROVE  /\ InTurn(up) /\ Silent(up)
         /\ Head(down).type = "job_batch" =>
              /\ Sent(r) /\ k.pc = "idle" /\ Head(down).batch = r.batch /\ Tail(down) = <<>>
         /\ Head(down).type = "job_recorded" =>
              /\ \/ Tail(down) = <<>> /\ ~Sent(r)
                 \/ Tail(down) = <<BatchLine(r.batch)>> /\ Sent(r)
              /\ k.pc = "idle" \/ (k.pc = "recording" /\ Head(down).batch = k.batch)
<1>1. InTurn(up) /\ (Free(r, k, up, down) \/ Offered(r, k, up, down))
  BY DEF Pair, Link, Held
<1>2. \A S : BatchLine(S).type = "job_batch" /\ BatchLine(S).batch = S BY DEF BatchLine
<1>3. \A S : RecordedLine(S).type = "job_recorded" /\ RecordedLine(S).batch = S
  BY DEF RecordedLine
<1>4. CASE Free(r, k, up, down)
  <2>1. PICK S : down = <<RecordedLine(S)>> /\ (k.pc = "idle" \/ (k.pc = "recording" /\ S = k.batch))
    BY <1>4 DEF Free, Waits
  <2>2. Head(down) = RecordedLine(S) /\ Tail(down) = <<>> BY <2>1, DownShapes
  <2>3. QED BY <1>1, <1>3, <1>4, <2>1, <2>2 DEF Free
<1>5. CASE Offered(r, k, up, down)
  <2>1. CASE k.pc = "idle" /\ down = <<BatchLine(r.batch)>>
    <3>1. Head(down) = BatchLine(r.batch) /\ Tail(down) = <<>> BY <2>1, DownShapes
    <3>2. QED BY <1>1, <1>2, <1>5, <2>1, <3>1 DEF Offered
  <2>2. ASSUME NEW S, down = <<RecordedLine(S), BatchLine(r.batch)>>,
               k.pc = "idle" \/ (k.pc = "recording" /\ S = k.batch)
        PROVE  /\ Head(down).type = "job_recorded" /\ Tail(down) = <<BatchLine(r.batch)>>
               /\ k.pc = "idle" \/ (k.pc = "recording" /\ Head(down).batch = k.batch)
    <3>1. Head(down) = RecordedLine(S) /\ Tail(down) = <<BatchLine(r.batch)>>
      BY <2>2, DownShapes
    <3>2. QED BY <1>3, <2>2, <3>1
  <2>3. QED BY <1>1, <1>5, <2>1, <2>2 DEF Offered
<1>6. QED BY <1>1, <1>4, <1>5

\* The connector takes the batch.
LEMMA PairReceives ==
  ASSUME NEW r, NEW k, NEW up \in Seq(FromConnector), NEW down, NEW k2,
         NEW f \in FromConnector, f.type = "heartbeat",
         Pair(r, k, up, down), Up(k), down # <<>>, Head(down).type = "job_batch",
         Head(down).batch # {}, k2.pc = "starting", k2.batch = Head(down).batch
  PROVE  Pair(r, k2, Append(up, f), Tail(down))
<1> DEFINE up2 == Append(up, f)
<1>1. Silent(up) => Silent(up2) BY UpAppend DEF About
<1> HIDE DEF up2
<1>2. Phase(r, k2, up2, Tail(down)) BY DEF Pair, Phase, Up
<1>3. CASE Working(r)
  <2>1. Silent(up2) /\ Sent(r) /\ k2.batch = r.batch /\ Tail(down) = <<>>
    BY <1>1, <1>3, PairDown
  <2>2. InTurn(up2) /\ Carries(up2, r.batch) BY <2>1, SilentFacts
  <2>3. QED BY <1>2, <2>1, <2>2 DEF Pair, Link, Held, Up, up2
<1>4. QED BY <1>2, <1>3 DEF Pair, Link, up2

\* The connector gives the batch back unread.
LEMMA PairDefers ==
  ASSUME NEW r, NEW k, NEW up \in Seq(FromConnector), NEW down,
         NEW f \in FromConnector, f.type = "job_deferred",
         Pair(r, k, up, down), Up(k), down # <<>>, Head(down).type = "job_batch",
         f.batch = Head(down).batch
  PROVE  Pair(r, k, Append(up, f), Tail(down))
<1> DEFINE up2 == Append(up, f)
<1>1. /\ \A S : Carries(up, S) /\ f.batch = S => Carries(up2, S)
      /\ Silent(up) => InTurn(up2)
  BY UpAppend
<1> HIDE DEF up2
<1>2. Phase(r, k, up2, Tail(down)) BY DEF Pair, Phase, Up
<1>3. CASE Working(r)
  <2>1. Silent(up) /\ Sent(r) /\ f.batch = r.batch /\ Tail(down) = <<>> /\ k.pc = "idle"
    BY <1>3, PairDown
  <2>2. InTurn(up2) /\ Carries(up2, r.batch) BY <1>1, <2>1, SilentFacts
  <2>3. QED BY <1>2, <2>1, <2>2 DEF Pair, Link, Held, Up, up2
<1>4. QED BY <1>2, <1>3 DEF Pair, Link, up2

\* The connector reads that its batch is over.
LEMMA PairRecorded ==
  ASSUME NEW r, NEW k, NEW up, NEW up2, NEW down, NEW k2,
         Pair(r, k, up, down), Up(k), down # <<>>, Head(down).type = "job_recorded",
         Silent(up) => Silent(up2),
         \/ k2.pc = "idle" /\ k2.batch = {}
         \/ k2 = k /\ Head(down).batch # k.batch
  PROVE  Pair(r, k2, up2, Tail(down))
<1>1. CASE Working(r)
  <2>1. Silent(up2) /\ InTurn(up2) BY <1>1, PairDown, SilentFacts
  <2>2. k2.pc = "idle" /\ k2.batch = {} BY <1>1, PairDown DEF Pair, Phase
  <2>3. \/ Tail(down) = <<>> /\ ~Sent(r)
        \/ Tail(down) = <<BatchLine(r.batch)>> /\ Sent(r)
    BY <1>1, PairDown
  <2>4. Phase(r, k2, up2, Tail(down)) BY <2>2 DEF Pair, Phase, Up
  <2>5. QED BY <2>1, <2>2, <2>3, <2>4 DEF Pair, Link, Free, Offered, Waits, Up
<1>2. CASE ~Working(r)
  <2>1. Phase(r, k2, up2, Tail(down)) BY DEF Pair, Phase, Up
  <2>2. QED BY <1>2, <2>1 DEF Pair, Link
<1>3. QED BY <1>1, <1>2

\* The connector speaks about its batch.
LEMMA PairHolds ==
  ASSUME NEW r, NEW k, NEW up, NEW down, Pair(r, k, up, down), Working(r)
  PROVE  /\ k.pc = "starting" => Held(r, k, up, down) /\ Silent(up) /\ k.batch = r.batch
         /\ k.pc = "running" => Held(r, k, up, down) /\ OnlyAccepted(up) /\ k.batch = r.batch
         /\ InTurn(up)
BY DEF Pair, Link, Up, Free, Offered, Held, Waits

\* The connector reports on its turn/start or on its turn.
LEMMA PairReports ==
  ASSUME NEW r, NEW k, NEW up \in Seq(FromConnector), NEW down, NEW k2,
         NEW f \in FromConnector, About(f), f.batch = k.batch,
         Pair(r, k, up, down), k2.batch = k.batch,
         \/ k.pc = "starting" /\ k2.pc = "running" /\ f.type = "job_accepted"
         \/ k.pc = "starting" /\ k2.pc = "recording" /\ f.type # "job_accepted"
         \/ k.pc = "running" /\ k2.pc = "recording" /\ f.type # "job_accepted"
  PROVE  Pair(r, k2, Append(up, f), down)
<1> DEFINE up2 == Append(up, f)
<1>1. /\ \A S : Carries(up, S) /\ f.batch = S => Carries(up2, S)
      /\ OnlyAccepted(up) /\ f.type = "job_accepted" => OnlyAccepted(up2)
      /\ InTurn(up) /\ OnlyAccepted(up) /\ f.type # "job_accepted" => InTurn(up2)
      /\ Silent(up) => InTurn(up2)
  BY UpAppend
<1> HIDE DEF up2
<1>2. Phase(r, k2, up2, down) BY DEF Pair, Phase, Up
<1>3. CASE Working(r)
  <2>1. Sent(r) /\ down = <<>> /\ Carries(up, r.batch) /\ k.batch = r.batch
    BY <1>3, PairHolds DEF Held
  <2>2. Carries(up2, r.batch) BY <1>1, <2>1
  <2>3. InTurn(up2) /\ (k2.pc = "running" => OnlyAccepted(up2))
    BY <1>1, <1>3, PairHolds, SilentFacts
  <2>4. QED BY <1>2, <2>1, <2>2, <2>3 DEF Pair, Link, Held, Up, up2
<1>4. QED BY <1>2, <1>3 DEF Pair, Link, up2

\* Lines to a relay that is gone are lost.
LEMMA PairGone ==
  ASSUME NEW r, NEW k, NEW k2, NEW up, NEW up2, NEW down, NEW down2, Pair(r, k, up, down),
         r.pc = "gone", k2.pc # "new", Up(k2), k2.pc = "idle" => k2.batch = {},
         k2.pc \in {"starting", "running", "recording"} => k2.batch # {}
  PROVE  Pair(r, k2, up2, down2)
BY DEF Pair, Phase, Link, Working

-----------------------------------------------------------------------------
(***************************************************************************)
(* Every relay and its connector keep their link.                          *)
(***************************************************************************)
PairAt(c) == Pair(relay[c], conn[c], toRelay[c], toConn[c])

Pairs == \A c \in Connectors : PairAt(c)

PipeTypes ==
  /\ toRelay \in [Connectors -> Seq(FromConnector)]
  /\ toConn \in [Connectors -> Seq(FromRelay)]

\* A step about c leaves the others alone.
Untouched(d) ==
  relay'[d] = relay[d] /\ conn'[d] = conn[d] /\ toRelay'[d] = toRelay[d] /\ toConn'[d] = toConn[d]

\* What is not touched stays linked.
LEMMA PairStays ==
  ASSUME NEW c \in Connectors, PairAt(c), Untouched(c)
  PROVE  PairAt(c)'
BY DEF PairAt, Untouched

Others(c) == \A d \in Connectors \ {c} : Untouched(d)

\* What a step about c proves of the pipes.
Linked(c) == PairAt(c)' /\ PipeTypes' /\ Others(c)

\* The claim timer and claimOnce keep the link.
LEMMA ClaimPairs ==
  ASSUME TypeOK, NEW c \in Connectors, PairAt(c),
         ClaimFails(c) \/ CheckOwnership(c) \/ FinishClaim(c)
  PROVE  Linked(c)
<1> DEFINE r == relay[c]  k == conn[c]  up == toRelay[c]  down == toConn[c]
<1>1. /\ relay \in [Connectors -> RelayStates] /\ conn \in [Connectors -> ConnStates]
      /\ PipeTypes /\ r.batch \in SUBSET Jobs
  BY DEF TypeOK, PipeTypes, RelayStates
<1>2. Pair(r, k, up, down) BY DEF PairAt
<1>3. ASSUME UNCHANGED <<conn, toRelay, toConn>>, NEW s, relay' = [relay EXCEPT ![c] = s],
             Pair(s, k, up, down)
      PROVE  Linked(c)
  <2>1. relay'[c] = s /\ \A d \in Connectors \ {c} : relay'[d] = relay[d] BY <1>1, <1>3
  <2>2. PairAt(c)' BY <1>3, <2>1 DEF PairAt
  <2>3. QED BY <1>1, <1>3, <2>1, <2>2 DEF Linked, Others, Untouched, PipeTypes
<1>4. ASSUME NEW s, s.pc \in {"open", "claiming", "preparing", "releasing"},
             s.pc \in {"open", "claiming"} => s.batch = {},
             s.pc = "preparing" => s.batch # {}, Working(r), ~Sent(r)
      PROVE  Pair(s, k, up, down)
  BY <1>2, <1>4, PairUnsent DEF Working, Sent
<1>5. CASE ClaimFails(c)
  <2> DEFINE s == [r EXCEPT !.fatal = TRUE]
  <2>1. relay' = [relay EXCEPT ![c] = s] BY <1>1, <1>5 DEF ClaimFails
  <2>2. s.pc = r.pc /\ s.batch = r.batch BY <1>1 DEF RelayStates
  <2> HIDE DEF s
  <2>3. Pair(s, k, up, down) BY <1>2, <2>2, PairSame
  <2>4. QED BY <1>3, <1>5, <2>1, <2>3 DEF ClaimFails
<1>6. CASE CheckOwnership(c)
  <2> DEFINE s == [r EXCEPT !.pc = "claiming"]
  <2>1. relay' = [relay EXCEPT ![c] = s] BY <1>1, <1>6 DEF CheckOwnership
  <2>2. r.pc = "open" /\ r.batch = {} BY <1>6 DEF CheckOwnership
  <2>3. s.pc = "claiming" /\ s.batch = {} BY <1>1, <2>2 DEF RelayStates
  <2> HIDE DEF s
  <2>4. Pair(s, k, up, down) BY <1>4, <2>2, <2>3 DEF Working, Sent
  <2>5. QED BY <1>3, <1>6, <2>1, <2>4 DEF CheckOwnership
<1>7. CASE Claim(c)
  <2>1. PICK S \in SUBSET Jobs :
          relay' = [relay EXCEPT ![c].pc = IF S = {} THEN "open" ELSE "preparing", ![c].batch = S]
    BY <1>7 DEF Claim
  <2> DEFINE s == [r EXCEPT !.pc = IF S = {} THEN "open" ELSE "preparing", !.batch = S]
  <2>2. relay' = [relay EXCEPT ![c] = s] BY <1>1, <2>1
  <2>3. s.pc = (IF S = {} THEN "open" ELSE "preparing") /\ s.batch = S
    BY <1>1 DEF RelayStates
  <2>4. r.pc = "claiming" BY <1>7 DEF Claim
  <2> HIDE DEF s
  <2>5. Pair(s, k, up, down) BY <1>4, <2>3, <2>4 DEF Working, Sent
  <2>6. QED BY <1>3, <1>7, <2>2, <2>5 DEF Claim
<1>8. CASE ClaimPoisoned(c)
  <2> DEFINE s == [r EXCEPT !.pc = "open", !.fatal = TRUE]
  <2>1. relay' = [relay EXCEPT ![c] = s] BY <1>1, <1>8 DEF ClaimPoisoned
  <2>2. r.pc = "claiming" /\ r.batch = {} BY <1>2, <1>8 DEF ClaimPoisoned, Pair, Phase
  <2>3. s.pc = "open" /\ s.batch = {} BY <1>1, <2>2 DEF RelayStates
  <2> HIDE DEF s
  <2>4. Pair(s, k, up, down) BY <1>4, <2>2, <2>3 DEF Working, Sent
  <2>5. QED BY <1>3, <1>8, <2>1, <2>4 DEF ClaimPoisoned
<1>9. CASE SendBatch(c)
  <2> DEFINE s == [r EXCEPT !.pc = "open", !.accepting = FALSE]
             down2 == IF Up(k) THEN Append(down, BatchLine(r.batch)) ELSE down
  <2>1. relay' = [relay EXCEPT ![c] = s] BY <1>1, <1>9 DEF SendBatch
  <2>2. r.pc = "preparing" /\ r.batch # {} BY <1>2, <1>9 DEF SendBatch, Pair, Phase
  <2>3. s.pc = "open" /\ s.batch = r.batch BY <1>1 DEF RelayStates
  <2>4. toConn' = [toConn EXCEPT ![c] = down2]
    BY <1>1, <1>9 DEF SendBatch, ToConn, Alive, Up, BatchLine, PipeTypes
  <2>5. BatchLine(r.batch) \in FromRelay
    BY <1>1, <2>2 DEF BatchLine, FromRelay, Store!Batches
  <2>6. down2 \in Seq(FromRelay) BY <1>1, <2>5 DEF PipeTypes
  <2> HIDE DEF s
  <2>7. Pair(s, k, up, down2) BY <1>2, <2>2, <2>3, PairSent
  <2> HIDE DEF down2
  <2>8. UNCHANGED <<conn, toRelay>> BY <1>9 DEF SendBatch
  <2>9. relay'[c] = s /\ toConn'[c] = down2 BY <1>1, <2>1, <2>4 DEF PipeTypes
  <2>10. PairAt(c)' BY <2>7, <2>8, <2>9 DEF PairAt
  <2>11. Others(c) BY <1>1, <2>1, <2>4, <2>8 DEF Others, Untouched, PipeTypes
  <2>12. PipeTypes' BY <1>1, <2>4, <2>6, <2>8 DEF PipeTypes
  <2>13. QED BY <2>10, <2>11, <2>12 DEF Linked
<1>10. CASE Quarantine(c)
  <2>1. PICK S \in Store!Batches : QuarantineJobs(c, S) BY <1>10 DEF Quarantine
  <2> DEFINE s == [r EXCEPT !.pc = IF S = r.batch THEN "open" ELSE "releasing",
                           !.batch = r.batch \ S]
             u == [r EXCEPT !.pc = "open", !.fatal = TRUE, !.batch = {}]
  <2>2. relay' = [relay EXCEPT ![c] = s] \/ relay' = [relay EXCEPT ![c] = u]
    BY <1>1, <2>1 DEF QuarantineJobs
  <2>3. s.pc = (IF S = r.batch THEN "open" ELSE "releasing") /\ s.batch = r.batch \ S
        /\ u.pc = "open" /\ u.batch = {}
    BY <1>1 DEF RelayStates
  <2>4. r.pc = "preparing" BY <2>1 DEF QuarantineJobs
  <2> HIDE DEF s, u
  <2>5. Pair(s, k, up, down) /\ Pair(u, k, up, down) BY <1>4, <2>3, <2>4 DEF Working, Sent
  <2>6. QED BY <1>3, <2>1, <2>2, <2>5 DEF QuarantineJobs
<1>11. CASE ReleaseRest(c)
  <2> DEFINE s == [r EXCEPT !.pc = "open", !.batch = {}]
             u == [r EXCEPT !.pc = "open", !.fatal = TRUE, !.batch = {}]
  <2>1. relay' = [relay EXCEPT ![c] = s] \/ relay' = [relay EXCEPT ![c] = u]
    BY <1>1, <1>11 DEF ReleaseRest
  <2>2. s.pc = "open" /\ s.batch = {} /\ u.pc = "open" /\ u.batch = {}
    BY <1>1 DEF RelayStates
  <2>3. r.pc = "releasing" BY <1>11 DEF ReleaseRest
  <2> HIDE DEF s, u
  <2>4. Pair(s, k, up, down) /\ Pair(u, k, up, down) BY <1>4, <2>2, <2>3 DEF Working, Sent
  <2>5. QED BY <1>3, <1>11, <2>1, <2>4 DEF ReleaseRest
<1>12. QED BY <1>5, <1>6, <1>7, <1>8, <1>9, <1>10, <1>11 DEF FinishClaim

\* Every handler of a line keeps the link.
LEMMA HandlePairs ==
  ASSUME TypeOK, NEW c \in Connectors, PairAt(c), HandleLine(c)
  PROVE  Linked(c)
<1> DEFINE r == relay[c]  k == conn[c]  up == toRelay[c]  down == toConn[c]
<1>1. /\ relay \in [Connectors -> RelayStates] /\ conn \in [Connectors -> ConnStates]
      /\ PipeTypes /\ r.batch \in SUBSET Jobs
  BY DEF TypeOK, PipeTypes, RelayStates
<1>2. Pair(r, k, up, down) BY DEF PairAt
<1>3. ASSUME NEW type, Line(c, type)
      PROVE  up \in Seq(FromConnector) /\ up # <<>> /\ Head(up).type = type /\ r.pc = "open"
             /\ Tail(up) \in Seq(FromConnector)
  BY <1>1, <1>3, UpHead DEF Line, PipeTypes
<1>4. Consume(c) /\ Tail(up) \in Seq(FromConnector) =>
        /\ toRelay'[c] = Tail(up) /\ \A d \in Connectors \ {c} : toRelay'[d] = toRelay[d]
        /\ toRelay' \in [Connectors -> Seq(FromConnector)]
  BY <1>1 DEF Consume, PipeTypes
<1>5. ASSUME UNCHANGED <<conn, toConn>>, Consume(c), Tail(up) \in Seq(FromConnector),
             NEW s, relay' = [relay EXCEPT ![c] = s], Pair(s, k, Tail(up), down)
      PROVE  Linked(c)
  <2>1. relay'[c] = s /\ \A d \in Connectors \ {c} : relay'[d] = relay[d] BY <1>1, <1>5
  <2>2. PairAt(c)' BY <1>4, <1>5, <2>1 DEF PairAt
  <2>3. QED BY <1>1, <1>4, <1>5, <2>1, <2>2 DEF Linked, Others, Untouched, PipeTypes
<1>6. ASSUME NEW type, Line(c, type), UNCHANGED conn, Consume(c), HandlerThrows(c)
      PROVE  Linked(c)
  <2> DEFINE s == [r EXCEPT !.pc = "closing"]
  <2>1. relay' = [relay EXCEPT ![c] = s] BY <1>1, <1>6 DEF HandlerThrows
  <2>2. s.pc = "closing" BY <1>1 DEF RelayStates
  <2>3. r.pc = "open" BY <1>3, <1>6
  <2> HIDE DEF s
  <2>4. Pair(s, k, Tail(up), down) BY <1>2, <2>2, <2>3, PairOver DEF Working
  <2>5. QED BY <1>3, <1>5, <1>6, <2>1, <2>4 DEF HandlerThrows
<1>7. ASSUME NEW s, s.pc = r.pc, s.batch = r.batch, NEW type, Line(c, type)
      PROVE  Pair(s, k, Tail(up), down)
  BY <1>2, <1>3, <1>7, PairTail
<1>8. CASE HandleHello(c)
  <2> DEFINE s == [r EXCEPT !.hello = TRUE, !.accepting = Head(up).accepting]
  <2>1. relay' = [relay EXCEPT ![c] = s] BY <1>1, <1>8 DEF HandleHello
  <2>2. s.pc = r.pc /\ s.batch = r.batch BY <1>1 DEF RelayStates
  <2> HIDE DEF s
  <2>3. Pair(s, k, Tail(up), down) BY <1>7, <1>8, <2>2 DEF HandleHello
  <2>4. QED BY <1>3, <1>5, <1>8, <2>1, <2>3 DEF HandleHello
<1>9. CASE HandleHeartbeat(c)
  <2> DEFINE s == [r EXCEPT !.accepting = Head(up).accepting]
  <2>1. CASE relay' = [relay EXCEPT ![c].accepting = Head(up).accepting] /\ UNCHANGED toConn
    <3>1. relay' = [relay EXCEPT ![c] = s] BY <1>1, <2>1
    <3>2. s.pc = r.pc /\ s.batch = r.batch BY <1>1 DEF RelayStates
    <3> HIDE DEF s
    <3>3. Pair(s, k, Tail(up), down) BY <1>7, <1>9, <3>2 DEF HandleHeartbeat
    <3>4. QED BY <1>3, <1>5, <1>9, <2>1, <3>1, <3>3 DEF HandleHeartbeat
  <2>2. CASE HandlerThrows(c) BY <1>6, <1>9, <2>2 DEF HandleHeartbeat
  <2>3. QED BY <1>9, <2>1, <2>2 DEF HandleHeartbeat
<1>10. CASE HandleAccepted(c)
  <2>1. CASE UNCHANGED <<relay, toConn>>
    <3>1. relay' = [relay EXCEPT ![c] = r] BY <1>1, <2>1
    <3>2. Pair(r, k, Tail(up), down) BY <1>7, <1>10 DEF HandleAccepted
    <3>3. QED BY <1>3, <1>5, <1>10, <2>1, <3>1, <3>2 DEF HandleAccepted
  <2>2. CASE HandlerThrows(c) BY <1>6, <1>10, <2>2 DEF HandleAccepted
  <2>3. QED BY <1>10, <2>1, <2>2 DEF HandleAccepted
<1>11. ASSUME NEW type \in {"job_deferred", "job_failed", "job_result"}, Line(c, type),
              FinishBatch(c), Consume(c), UNCHANGED conn
       PROVE  Linked(c)
  <2> DEFINE s == [r EXCEPT !.batch = {}]
             down2 == IF Up(k) THEN Append(down, RecordedLine(r.batch)) ELSE down
  <2>1. relay' = [relay EXCEPT ![c] = s] BY <1>1, <1>11 DEF FinishBatch
  <2>2. s.pc = r.pc /\ s.batch = {} BY <1>1 DEF RelayStates
  <2>3. toConn' = [toConn EXCEPT ![c] = down2]
    BY <1>1, <1>11 DEF FinishBatch, Recorded, ToConn, Alive, Up, RecordedLine, PipeTypes
  <2>4. r.pc = "open" /\ About(Head(up)) /\ Head(up).type # "job_accepted"
    BY <1>3, <1>11 DEF About
  <2>5. r.batch \in Store!Batches BY <1>1, <1>2, <1>3, <1>11, <2>4, PairHead DEF Sent, Working, Store!Batches
  <2>6. RecordedLine(r.batch) \in FromRelay BY <2>5 DEF RecordedLine, FromRelay
  <2>7. down2 \in Seq(FromRelay) BY <1>1, <2>6 DEF PipeTypes
  <2> HIDE DEF s
  <2>8. Pair(s, k, Tail(up), down2) BY <1>1, <1>2, <1>3, <1>11, <2>2, <2>4, PairFinished
  <2> HIDE DEF down2
  <2>9. relay'[c] = s /\ toConn'[c] = down2 BY <1>1, <2>1, <2>3 DEF PipeTypes
  <2>10. PairAt(c)' BY <1>3, <1>4, <1>11, <2>8, <2>9 DEF PairAt
  <2>11. Others(c) BY <1>1, <1>3, <1>4, <1>11, <2>1, <2>3 DEF Others, Untouched, PipeTypes
  <2>12. PipeTypes' BY <1>1, <1>3, <1>4, <1>11, <2>3, <2>7 DEF PipeTypes
  <2>13. QED BY <2>10, <2>11, <2>12 DEF Linked
<1>12. CASE HandleDeferred(c) BY <1>6, <1>11, <1>12 DEF HandleDeferred
<1>13. CASE HandleResult(c) BY <1>6, <1>11, <1>13 DEF HandleResult
<1>14. CASE HandleFailed(c) BY <1>6, <1>11, <1>14 DEF HandleFailed
<1>15. QED BY <1>8, <1>9, <1>10, <1>12, <1>13, <1>14 DEF HandleLine

\* The end of a relay or of a connector, and the start of both.
LEMMA EndPairs ==
  ASSUME TypeOK, NEW c \in Connectors, PairAt(c),
         CloseSettles(c) \/ CloseDisconnects(c) \/ Kill(c) \/ Connect(c) \/ Stop(c)
  PROVE  Linked(c)
<1> DEFINE r == relay[c]  k == conn[c]  up == toRelay[c]  down == toConn[c]
<1>1. /\ relay \in [Connectors -> RelayStates] /\ conn \in [Connectors -> ConnStates]
      /\ PipeTypes
  BY DEF TypeOK, PipeTypes
<1>2. Pair(r, k, up, down) BY DEF PairAt
<1>3. CASE CloseSettles(c)
  <2> DEFINE s == [r EXCEPT !.pc = "leaving", !.batch = {}]
  <2>1. relay' = [relay EXCEPT ![c] = s] BY <1>1, <1>3 DEF CloseSettles
  <2>2. s.pc = "leaving" BY <1>1 DEF RelayStates
  <2>3. r.pc # "none" BY <1>3 DEF CloseSettles, Ending
  <2> HIDE DEF s
  <2>4. Pair(s, k, up, down) BY <1>2, <2>2, <2>3, PairOver DEF Working
  <2>5. UNCHANGED <<conn, toRelay, toConn>> BY <1>3 DEF CloseSettles
  <2>6. relay'[c] = s /\ \A d \in Connectors \ {c} : relay'[d] = relay[d] BY <1>1, <2>1
  <2>7. PairAt(c)' BY <2>4, <2>5, <2>6 DEF PairAt
  <2>8. QED BY <1>1, <2>5, <2>6, <2>7 DEF Linked, Others, Untouched, PipeTypes
<1>4. CASE CloseDisconnects(c) \/ Kill(c)
  <2> DEFINE s == [NewRelay EXCEPT !.pc = "gone"]
  <2>1. relay' = [relay EXCEPT ![c] = s] /\ toRelay' = [toRelay EXCEPT ![c] = <<>>]
        /\ UNCHANGED <<conn, toConn>>
    BY <1>4 DEF CloseDisconnects, Kill, Gone
  <2>2. s.pc = "gone" BY DEF NewRelay
  <2>3. r.pc # "none" BY <1>4 DEF CloseDisconnects, Kill
  <2> HIDE DEF s
  <2>4. Pair(s, k, <<>>, down) BY <1>2, <2>2, <2>3, PairOver DEF Working
  <2>5. relay'[c] = s /\ toRelay'[c] = <<>> BY <1>1, <2>1 DEF PipeTypes
  <2>6. PairAt(c)' BY <2>1, <2>4, <2>5 DEF PairAt
  <2>7. QED BY <1>1, <2>1, <2>6 DEF Linked, Others, Untouched, PipeTypes
<1>5. CASE Connect(c)
  <2> DEFINE s == [r EXCEPT !.pc = "open"]
             m == [NewConn EXCEPT !.pc = "idle", !.active = RunningTurns]
             hello == [type |-> "hello", accepting |-> RunningTurns = {}]
  <2>1. /\ relay' = [relay EXCEPT ![c] = s] /\ conn' = [conn EXCEPT ![c] = m]
        /\ toRelay' = [toRelay EXCEPT ![c] = <<hello>>] /\ UNCHANGED toConn
    BY <1>1, <1>5 DEF Connect
  <2>2. s.pc = "open" /\ s.batch = r.batch BY <1>1 DEF RelayStates
  <2>3. m.pc = "idle" /\ m.batch = {} BY DEF NewConn
  <2>4. hello \in FromConnector BY DEF FromConnector
  <2>5. k.pc = "new" BY <1>5 DEF Connect
  <2> HIDE DEF s, m
  <2>6. Pair(s, m, <<hello>>, down) BY <1>2, <2>2, <2>3, <2>5, PairBegins
  <2>7. <<hello>> \in Seq(FromConnector) BY <2>4
  <2> HIDE DEF hello
  <2>8. relay'[c] = s /\ conn'[c] = m /\ toRelay'[c] = <<hello>>
    BY <1>1, <2>1 DEF PipeTypes
  <2>9. PairAt(c)' BY <2>1, <2>6, <2>8 DEF PairAt
  <2>10. Others(c) BY <1>1, <2>1 DEF Others, Untouched, PipeTypes
  <2>11. PipeTypes' BY <1>1, <2>1, <2>7 DEF PipeTypes
  <2>12. QED BY <2>9, <2>10, <2>11 DEF Linked
<1>6. CASE Stop(c)
  <2> DEFINE m == [NewConn EXCEPT !.pc = "down"]
  <2>1. up \in Seq(FromConnector) BY <1>1 DEF PipeTypes
  <2>2. PICK n \in 0..Len(up) : toRelay' = [toRelay EXCEPT ![c] = SubSeq(up, 1, n)]
    BY <1>1, <1>6 DEF Stop, PipeTypes
  <2>3. conn' = [conn EXCEPT ![c] = m] /\ toConn' = [toConn EXCEPT ![c] = <<>>]
        /\ UNCHANGED relay /\ Up(k)
    BY <1>6 DEF Stop, Alive, Up
  <2>4. m.pc = "down" /\ m.batch = {} BY DEF NewConn
  <2> HIDE DEF m
  <2>5. Pair(r, m, SubSeq(up, 1, n), <<>>) BY <1>2, <2>1, <2>3, <2>4, PairStopped
  <2>6. SubSeq(up, 1, n) \in Seq(FromConnector) BY <2>1, UpPrefix
  <2>7. conn'[c] = m /\ toConn'[c] = <<>> /\ toRelay'[c] = SubSeq(up, 1, n)
    BY <1>1, <2>2, <2>3 DEF PipeTypes
  <2>8. PairAt(c)' BY <2>3, <2>5, <2>7 DEF PairAt
  <2>9. Others(c) BY <1>1, <2>2, <2>3 DEF Others, Untouched, PipeTypes
  <2>10. PipeTypes' BY <1>1, <2>2, <2>3, <2>6 DEF PipeTypes
  <2>11. QED BY <2>8, <2>9, <2>10 DEF Linked
<1>7. QED BY <1>3, <1>4, <1>5, <1>6

\* A step in which the connector writes a line: if the relay is gone, so is the line.
LEMMA SpeakPairs ==
  ASSUME TypeOK, NEW c \in Connectors, PairAt(c), UNCHANGED relay,
         NEW f \in FromConnector, ToRelay(c, f),
         NEW m, conn' = [conn EXCEPT ![c] = m], Up(m),
         NEW down \in Seq(FromRelay), toConn' = [toConn EXCEPT ![c] = down],
         Pair(relay[c], m, Append(toRelay[c], f), down)
  PROVE  Linked(c)
<1>1. /\ conn \in [Connectors -> ConnStates] /\ PipeTypes
  BY DEF TypeOK, PipeTypes
<1>2. conn'[c] = m /\ toConn'[c] = down BY <1>1 DEF PipeTypes
<1>3. toRelay' \in [Connectors -> Seq(FromConnector)] BY ToRelayTypes
<1>4. Others(c) BY <1>1 DEF ToRelay, Others, Untouched, PipeTypes
<1>5. PipeTypes' BY <1>1, <1>3 DEF PipeTypes
<1>6. CASE Reaches(c)
  <2>1. toRelay'[c] = Append(toRelay[c], f) BY <1>1, <1>6 DEF ToRelay, PipeTypes
  <2>2. PairAt(c)' BY <1>2, <2>1 DEF PairAt
  <2>3. QED BY <1>4, <1>5, <2>2 DEF Linked
<1>7. CASE ~Reaches(c)
  <2>1. toRelay'[c] = toRelay[c] /\ relay[c].pc = "gone" BY <1>7 DEF ToRelay, Reaches
  <2>2. Pair(relay[c], conn[c], toRelay[c], toConn[c]) BY DEF PairAt
  <2>3. /\ m.pc # "new" /\ (m.pc = "idle" => m.batch = {})
        /\ m.pc \in {"starting", "running", "recording"} => m.batch # {}
    BY DEF Pair, Phase, Up
  <2>4. Pair(relay[c], m, toRelay[c], down) BY <2>1, <2>2, <2>3, PairGone
  <2>5. PairAt(c)' BY <1>2, <2>1, <2>4 DEF PairAt
  <2>6. QED BY <1>4, <1>5, <2>5 DEF Linked
<1>8. QED BY <1>6, <1>7

\* Heartbeats and notices about other turns keep the link.
LEMMA NoticePairs ==
  ASSUME TypeOK, NEW c \in Connectors, PairAt(c),
         TimerHeartbeat(c) \/ Reconcile(c) \/ NoticeTurnStarted(c) \/ NoticeTurnCompleted(c)
  PROVE  Linked(c)
<1> DEFINE r == relay[c]  k == conn[c]  up == toRelay[c]  down == toConn[c]
<1>1. /\ conn \in [Connectors -> ConnStates] /\ k \in ConnStates /\ PipeTypes
      /\ up \in Seq(FromConnector) /\ down \in Seq(FromRelay)
  BY DEF TypeOK, PipeTypes
<1>2. Pair(r, k, up, down) BY DEF PairAt
<1>3. ASSUME NEW A, conn' = [conn EXCEPT ![c] = [k EXCEPT !.active = A]], Up(k),
             NEW b \in BOOLEAN, ToRelay(c, Heartbeat(b)), UNCHANGED <<relay, toConn>>
      PROVE  Linked(c)
  <2> DEFINE m == [k EXCEPT !.active = A]
  <2>1. m.pc = k.pc /\ m.batch = k.batch BY <1>1 DEF ConnStates
  <2>2. conn' = [conn EXCEPT ![c] = m] BY <1>3
  <2> HIDE DEF m
  <2>3. Heartbeat(b) \in FromConnector /\ Heartbeat(b).type = "heartbeat"
    BY DEF Heartbeat, FromConnector
  <2>4. k.pc # "new" /\ Up(m) BY <1>3, <2>1 DEF Up
  <2>5. Pair(r, m, Append(up, Heartbeat(b)), down)
    BY <1>1, <1>2, <2>1, <2>3, <2>4, PairHeartbeat
  <2>6. toConn' = [toConn EXCEPT ![c] = down] BY <1>1, <1>3 DEF PipeTypes
  <2>7. QED BY <1>1, <1>3, <2>2, <2>3, <2>4, <2>5, <2>6, SpeakPairs
<1>4. CASE TimerHeartbeat(c)
  <2>1. conn' = [conn EXCEPT ![c] = [k EXCEPT !.active = k.active]]
    BY <1>1, <1>4 DEF TimerHeartbeat, ConnStates
  <2>2. Available(c, k.active) \in BOOLEAN BY DEF Available
  <2>3. QED BY <1>3, <1>4, <2>1, <2>2 DEF TimerHeartbeat, Alive, Up
<1>5. CASE Reconcile(c)
  <2>1. conn' = [conn EXCEPT ![c] = [k EXCEPT !.active = RunningTurns]]
    BY <1>1, <1>5 DEF Reconcile
  <2>2. Up(k) BY <1>5 DEF Reconcile, Up
  <2>3. QED BY <1>3, <1>5, <2>1, <2>2 DEF Reconcile
<1>6. CASE NoticeTurnStarted(c)
  <2>1. PICK t \in RunningTurns \ conn[c].active :
          conn' = [conn EXCEPT ![c].active = @ \cup {t}]
    BY <1>6 DEF NoticeTurnStarted
  <2>2. conn' = [conn EXCEPT ![c] = [k EXCEPT !.active = k.active \cup {t}]]
    BY <1>1, <2>1
  <2>3. QED BY <1>3, <1>6, <2>2 DEF NoticeTurnStarted, Alive, Up
<1>7. CASE NoticeTurnCompleted(c)
  <2>1. PICK t \in conn[c].active :
          /\ conn' = [conn EXCEPT ![c].active = @ \ {t}]
          /\ ToRelay(c, Heartbeat(Available(c, conn[c].active \ {t})))
    BY <1>7 DEF NoticeTurnCompleted
  <2>2. conn' = [conn EXCEPT ![c] = [k EXCEPT !.active = k.active \ {t}]]
    BY <1>1, <2>1
  <2>3. Available(c, conn[c].active \ {t}) \in BOOLEAN BY DEF Available
  <2>4. Up(k) /\ UNCHANGED <<relay, toConn>> BY <1>7 DEF NoticeTurnCompleted, Alive, Up
  <2>5. QED BY <1>3, <2>1, <2>2, <2>3, <2>4
<1>8. QED BY <1>4, <1>5, <1>6, <1>7

\* The lines to a connector keep the link.
LEMMA ReceivePairs ==
  ASSUME TypeOK, NEW c \in Connectors, PairAt(c), ReceiveLine(c)
  PROVE  Linked(c)
<1> DEFINE r == relay[c]  k == conn[c]  up == toRelay[c]  down == toConn[c]
<1>1. /\ conn \in [Connectors -> ConnStates] /\ k \in ConnStates /\ PipeTypes
      /\ up \in Seq(FromConnector)
  BY DEF TypeOK, PipeTypes
<1>2. Pair(r, k, up, down) BY DEF PairAt
<1>3. ASSUME NEW type, Received(c, type)
      PROVE  /\ Up(k) /\ k.pc # "starting" /\ down # <<>> /\ Head(down).type = type
             /\ toConn' = [toConn EXCEPT ![c] = Tail(down)] /\ Tail(down) \in Seq(FromRelay)
             /\ Head(down).batch \in Store!Batches
  <2>1. Head(down) \in FromRelay /\ Tail(down) \in Seq(FromRelay) BY <1>3, DownHead DEF Received
  <2>2. Head(down).batch \in Store!Batches BY <2>1 DEF FromRelay
  <2>3. QED BY <1>1, <1>3, <2>1, <2>2 DEF Received, Alive, Up, PipeTypes
<1>4. CASE ReceiveBatch(c)
  <2> DEFINE m == [k EXCEPT !.pc = "starting", !.batch = Head(down).batch]
             f == Heartbeat(FALSE)
  <2>1. conn' = [conn EXCEPT ![c] = m] /\ UNCHANGED relay /\ ToRelay(c, f)
    BY <1>1, <1>4 DEF ReceiveBatch
  <2>2. m.pc = "starting" /\ m.batch = Head(down).batch BY <1>1 DEF ConnStates
  <2>3. f \in FromConnector /\ f.type = "heartbeat" BY DEF Heartbeat, FromConnector
  <2>4. Received(c, "job_batch") BY <1>4 DEF ReceiveBatch
  <2>5. Head(down).batch # {} BY <1>3, <2>4 DEF Store!Batches
  <2> HIDE DEF m, f
  <2>6. Pair(r, m, Append(up, f), Tail(down))
    BY <1>1, <1>2, <1>3, <2>2, <2>3, <2>4, <2>5, PairReceives
  <2>7. Up(m) BY <2>2 DEF Up
  <2>8. QED BY <1>3, <2>1, <2>3, <2>4, <2>6, <2>7, SpeakPairs
<1>5. CASE DeferBatch(c)
  <2> DEFINE f == [type |-> "job_deferred", batch |-> Head(down).batch]
  <2>1. conn' = [conn EXCEPT ![c] = k] /\ UNCHANGED relay /\ ToRelay(c, f)
    BY <1>1, <1>5 DEF DeferBatch
  <2>2. Received(c, "job_batch") BY <1>5 DEF DeferBatch
  <2>3. f \in FromConnector BY <1>3, <2>2 DEF FromConnector
  <2>4. f.type = "job_deferred" /\ f.batch = Head(down).batch OBVIOUS
  <2> HIDE DEF f
  <2>5. Pair(r, k, Append(up, f), Tail(down))
    BY <1>1, <1>2, <1>3, <2>2, <2>3, <2>4, PairDefers
  <2>6. QED BY <1>3, <2>1, <2>2, <2>3, <2>5, SpeakPairs
<1>6. CASE ReceiveRecorded(c)
  <2>1. Received(c, "job_recorded") /\ UNCHANGED relay BY <1>6 DEF ReceiveRecorded
  <2>2. CASE /\ conn' = [conn EXCEPT ![c].pc = "idle", ![c].batch = {}, ![c].turn = None]
             /\ ToRelay(c, Heartbeat(k.active = {}))
    <3> DEFINE m == [k EXCEPT !.pc = "idle", !.batch = {}, !.turn = None]
               f == Heartbeat(k.active = {})
    <3>1. conn' = [conn EXCEPT ![c] = m] BY <1>1, <2>2
    <3>2. m.pc = "idle" /\ m.batch = {} BY <1>1 DEF ConnStates
    <3>3. f \in FromConnector /\ ~About(f) BY DEF Heartbeat, FromConnector, About
    <3>4. ToRelay(c, f) BY <2>2
    <3> HIDE DEF m, f
    <3>5. Silent(up) => Silent(Append(up, f)) BY <1>1, <3>3, UpAppend
    <3>6. Pair(r, m, Append(up, f), Tail(down))
      BY <1>2, <1>3, <2>1, <3>2, <3>5, PairRecorded
    <3>7. Up(m) BY <3>2 DEF Up
    <3>8. QED BY <1>3, <2>1, <3>1, <3>3, <3>4, <3>6, <3>7, SpeakPairs
  <2>3. CASE ~SameBatch(Head(down).batch, k.batch) /\ UNCHANGED <<conn, toRelay>>
    <3>1. Head(down).batch # k.batch BY <2>3 DEF SameBatch
    <3>2. Pair(r, k, up, Tail(down)) BY <1>2, <1>3, <2>1, <3>1, PairRecorded
    <3>3. toConn'[c] = Tail(down) BY <1>1, <1>3, <2>1 DEF PipeTypes
    <3>4. PairAt(c)' BY <2>1, <2>3, <3>2, <3>3 DEF PairAt
    <3>5. QED BY <1>1, <1>3, <2>1, <2>3, <3>4 DEF Linked, Others, Untouched, PipeTypes
  <2>4. QED BY <1>6, <2>2, <2>3 DEF ReceiveRecorded
<1>7. QED BY <1>4, <1>5, <1>6 DEF ReceiveLine

\* Reports keep the link.
LEMMA ReportPairs ==
  ASSUME TypeOK, NEW c \in Connectors, PairAt(c), ReportTurn(c) \/ AnswerTurnStart(c),
         conn[c].pc = "running" => conn[c].turn \in Turns
  PROVE  Linked(c)
<1> DEFINE r == relay[c]  k == conn[c]  up == toRelay[c]  down == toConn[c]
<1>1. /\ conn \in [Connectors -> ConnStates] /\ k \in ConnStates /\ PipeTypes
      /\ up \in Seq(FromConnector) /\ down \in Seq(FromRelay) /\ k.batch \in SUBSET Jobs
  BY DEF TypeOK, PipeTypes, ConnStates
<1>2. Pair(r, k, up, down) BY DEF PairAt
<1>3. k.pc \in {"starting", "running"}
  BY DEF ReportTurn, AnswerTurnStart, TurnStarted, TurnRefused, TurnStartFails
<1>4. k.batch \in Store!Batches BY <1>1, <1>2, <1>3 DEF Pair, Phase, Store!Batches
<1>5. ASSUME NEW m, conn' = [conn EXCEPT ![c] = m], m.batch = k.batch, UNCHANGED <<relay, toConn>>,
             NEW f \in FromConnector, ToRelay(c, f), About(f), f.batch = k.batch,
             \/ k.pc = "starting" /\ m.pc = "running" /\ f.type = "job_accepted"
             \/ k.pc = "starting" /\ m.pc = "recording" /\ f.type # "job_accepted"
             \/ k.pc = "running" /\ m.pc = "recording" /\ f.type # "job_accepted"
      PROVE  Linked(c)
  <2>1. Pair(r, m, Append(up, f), down) BY <1>1, <1>2, <1>5, PairReports
  <2>2. toConn' = [toConn EXCEPT ![c] = down] /\ Up(m) BY <1>1, <1>5 DEF PipeTypes, Up
  <2>3. QED BY <1>1, <1>5, <2>1, <2>2, SpeakPairs
<1>6. CASE ReportTurn(c)
  <2> DEFINE m == [k EXCEPT !.pc = "recording", !.active = k.active \ {k.turn}]
  <2>1. conn' = [conn EXCEPT ![c] = m] BY <1>1, <1>6 DEF ReportTurn
  <2>2. m.pc = "recording" /\ m.batch = k.batch BY <1>1 DEF ConnStates
  <2> HIDE DEF m
  <2>3. k.pc = "running" /\ k.turn \in Turns /\ UNCHANGED <<relay, toConn>>
    BY <1>6 DEF ReportTurn
  <2>4. PICK f : /\ ToRelay(c, f)
                 /\ \/ f = [type |-> "job_failed", batch |-> k.batch, turn |-> k.turn]
                    \/ \E res \in ResultKinds :
                         f = [type |-> "job_result", batch |-> k.batch, turn |-> k.turn, result |-> res]
    BY <1>6 DEF ReportTurn
  <2>5. f \in FromConnector /\ f.type \in {"job_failed", "job_result"} /\ f.batch = k.batch
    BY <1>4, <2>3, <2>4 DEF FromConnector
  <2>6. About(f) /\ f.type # "job_accepted" BY <2>5 DEF About
  <2>7. QED BY <1>5, <2>1, <2>2, <2>3, <2>4, <2>5, <2>6
<1>7. CASE TurnStarted(c)
  <2>1. PICK t \in Turns :
          /\ conn' = [conn EXCEPT ![c].pc = "running", ![c].turn = t, ![c].active = @ \cup {t}]
          /\ ToRelay(c, [type |-> "job_accepted", batch |-> conn[c].batch, turn |-> t])
    BY <1>7 DEF TurnStarted
  <2> DEFINE m == [k EXCEPT !.pc = "running", !.turn = t, !.active = k.active \cup {t}]
             f == [type |-> "job_accepted", batch |-> k.batch, turn |-> t]
  <2>2. conn' = [conn EXCEPT ![c] = m] /\ ToRelay(c, f) BY <1>1, <2>1
  <2>3. m.pc = "running" /\ m.batch = k.batch BY <1>1 DEF ConnStates
  <2>4. f \in FromConnector /\ f.type = "job_accepted" /\ f.batch = k.batch
    BY <1>4 DEF FromConnector
  <2> HIDE DEF m, f
  <2>5. About(f) BY <2>4 DEF About
  <2>6. k.pc = "starting" /\ UNCHANGED <<relay, toConn>> BY <1>7 DEF TurnStarted
  <2>7. QED BY <1>5, <2>2, <2>3, <2>4, <2>5, <2>6
<1>8. CASE TurnRefused(c) \/ TurnStartFails(c)
  <2> DEFINE m == [k EXCEPT !.pc = "recording"]
  <2>1. conn' = [conn EXCEPT ![c] = m] /\ k.pc = "starting" /\ UNCHANGED <<relay, toConn>>
    BY <1>1, <1>8 DEF TurnRefused, TurnStartFails
  <2>2. m.pc = "recording" /\ m.batch = k.batch BY <1>1 DEF ConnStates
  <2> HIDE DEF m
  <2>3. PICK f : /\ ToRelay(c, f)
                 /\ \/ f = [type |-> "job_deferred", batch |-> k.batch]
                    \/ f = [type |-> "job_failed", batch |-> k.batch, turn |-> None]
    BY <1>8 DEF TurnRefused, TurnStartFails
  <2>4. f \in FromConnector /\ f.type \in {"job_failed", "job_deferred"} /\ f.batch = k.batch
    BY <1>4, <2>3 DEF FromConnector
  <2>5. About(f) /\ f.type # "job_accepted" BY <2>4 DEF About
  <2>6. QED BY <1>5, <2>1, <2>2, <2>3, <2>4, <2>5
<1>9. QED BY <1>6, <1>7, <1>8 DEF AnswerTurnStart

RunningKnown == \A c \in Connectors : conn[c].pc = "running" => conn[c].turn \in Turns

\* The steps of the relay or the connector c.
StepOf(c) == RelayStep(c) \/ ConnStep(c) \/ Connect(c) \/ Stop(c) \/ Kill(c)

Processes == <<relay, conn, toRelay, toConn>>

\* The steps of the transport service, the clock, the user and the app-server.
LEMMA OutsideStep ==
  ASSUME [Next]_vars
  PROVE  (\E c \in Connectors : StepOf(c)) \/ UNCHANGED Processes
<1>1. Enqueue \/ ExpireJobs \/ ReadSession \/ Tick => UNCHANGED Processes
  BY DEF Enqueue, ExpireJobs, ReadSession, Tick, Processes
<1>2. LocalTurn \/ (\E t \in Turns : FinishTurn(t)) => UNCHANGED Processes
  BY DEF LocalTurn, FinishTurn, Processes
<1>3. UNCHANGED vars => UNCHANGED Processes BY DEF vars, Processes
<1>4. QED BY <1>1, <1>2, <1>3 DEF Next, StepOf

\* Every step about a connector keeps its link and touches no other.
LEMMA StepPairs ==
  ASSUME TypeOK, NEW c \in Connectors, PairAt(c), RunningKnown, StepOf(c)
  PROVE  Linked(c)
<1>1. CASE RelayStep(c) BY <1>1, ClaimPairs, HandlePairs, EndPairs DEF RelayStep
<1>2. CASE ConnStep(c)
  BY <1>2, NoticePairs, ReceivePairs, ReportPairs DEF ConnStep, RunningKnown
<1>3. QED BY <1>1, <1>2, EndPairs DEF StepOf

\* Every step keeps every link.
LEMMA PairsStep ==
  ASSUME TypeOK, Pairs, RunningKnown, [Next]_vars
  PROVE  Pairs' /\ PipeTypes'
<1>1. ASSUME NEW c \in Connectors, StepOf(c) PROVE Pairs' /\ PipeTypes'
  <2>1. Linked(c) BY <1>1, StepPairs DEF Pairs
  <2>2. ASSUME NEW d \in Connectors PROVE PairAt(d)'
    <3>1. CASE d = c BY <2>1, <3>1 DEF Linked
    <3>2. CASE d # c BY <2>1, <3>2, PairStays DEF Linked, Others, Pairs
    <3>3. QED BY <3>1, <3>2
  <2>3. QED BY <2>1, <2>2 DEF Pairs, Linked
<1>2. CASE UNCHANGED Processes
  <2>1. \A c \in Connectors : Untouched(c) BY <1>2 DEF Processes, Untouched
  <2>2. ASSUME NEW c \in Connectors PROVE PairAt(c)' BY <2>1, PairStays DEF Pairs
  <2>3. QED BY <1>2, <2>2 DEF Pairs, PipeTypes, TypeOK, Processes
<1>3. QED BY <1>1, <1>2, OutsideStep

\* Every step keeps the types.
LEMMA TypesStep ==
  ASSUME TypeOK, Pairs, RunningKnown, [Next]_vars
  PROVE  TypeOK'
<1>1. conn \in [Connectors -> ConnStates] BY DEF TypeOK
<1>2. ASSUME NEW c \in Connectors, RelayStep(c) \/ Kill(c) PROVE UNCHANGED conn
  <2>1. CASE HandleLine(c)
    BY <2>1 DEF HandleLine, HandleHello, HandleHeartbeat, HandleAccepted, HandleDeferred,
       HandleResult, HandleFailed
  <2>2. CASE FinishClaim(c)
    BY <2>2 DEF FinishClaim, Claim, ClaimPoisoned, SendBatch, Quarantine, QuarantineJobs, ReleaseRest
  <2>3. QED BY <1>2, <2>1, <2>2 DEF RelayStep, ClaimFails, CheckOwnership, CloseSettles,
       CloseDisconnects, Kill
<1>3. conn' \in [Connectors -> ConnStates]
  BY <1>1, <1>2, ConnTypes, OutsideStep DEF StepOf, Processes
<1>4. QED BY <1>3, StoreTypes, RelayTypes, TurnTypes, PairsStep DEF TypeOK, PipeTypes

-----------------------------------------------------------------------------
(***************************************************************************)
(* What a step does to the rows, the lines and the turns.                  *)
(***************************************************************************)
Calm == \A j \in Jobs : Table!CalmRow(job[j], job'[j])

Claims(c) ==
  /\ Claim(c)
  /\ \A j \in relay'[c].batch : /\ job[j].turn = None /\ job'[j].turn = None
                                /\ job[j].status # "completed"
                                /\ job'[j].status = "leased" /\ job'[j].owner = c
  /\ \A j \in Jobs \ relay'[c].batch : Table!CalmRow(job[j], job'[j])

Accepts(c) ==
  /\ HandleAccepted(c) /\ UNCHANGED relay
  /\ \A j \in relay[c].batch :
       /\ job[j].status = "leased" /\ job[j].owner = c /\ job[j].turn = None
       /\ job'[j].status = "accepted" /\ job'[j].turn = Head(toRelay[c]).turn
  /\ \A j \in Jobs \ relay[c].batch : job'[j] = job[j]

Completes(c) ==
  /\ HandleResult(c)
  /\ \A j \in relay[c].batch :
       /\ job[j].turn = Head(toRelay[c]).turn /\ job[j].status = "accepted"
       /\ job'[j].turn = job[j].turn /\ job'[j].status = "completed"
  /\ \A j \in Jobs \ relay[c].batch : job'[j] = job[j]

\* The calls, as operations of Table.
LEMMA CallRows ==
  ASSUME TypeOK, Table!RowsOK
  PROVE  /\ UNCHANGED job => Calm
         /\ \A c \in Connectors, S \in SUBSET Jobs : Store!ReleaseRelayJobBatch(c, S) => Calm
         /\ \A c \in Connectors, S \in SUBSET Jobs, t \in Turns \cup {None} :
              Store!FailRelayJobBatch(c, S, t) => Calm
         /\ \A c \in Connectors : Store!RegisterRelaySession(c) => Calm
         /\ (\E j \in Jobs, ttl \in 1..JobTtl : Store!EnqueueRelayJob(j, ttl)) => Calm
         /\ Store!ExpireRelayJobs => Calm
         /\ Store!Tick => Calm
<1>1. Table!TypeOK BY SameTypes DEF TypeOK
<1>2. Table!CalmStep => Calm BY <1>1, Table!CalmSteps, StoreAssumption DEF Calm
<1>3. QED BY <1>2, SameSteps, SameSessionSteps DEF Table!CalmStep

\* A claim hands out rows that no turn was recorded for.
LEMMA ClaimEffect ==
  ASSUME TypeOK, Table!RowsOK, NEW c \in Connectors, Claim(c)
  PROVE  Claims(c)
<1>1. Table!TypeOK BY SameTypes DEF TypeOK
<1>2. PICK S \in SUBSET Jobs :
        /\ Store!ClaimRelayJobBatch(c, S)
        /\ relay' = [relay EXCEPT ![c].pc = IF S = {} THEN "open" ELSE "preparing", ![c].batch = S]
  BY DEF Claim
<1>3. relay'[c].batch = S BY <1>2 DEF TypeOK, RelayStates
<1>4. Table!ClaimRelayJobBatch(c, S) BY <1>2, SameSteps
<1>5. /\ \A j \in S : /\ job[j].turn = None /\ job'[j].turn = None
                      /\ job[j].status # "completed"
                      /\ job'[j].status = "leased" /\ job'[j].owner = c
      /\ \A j \in Jobs \ S : Table!CalmRow(job[j], job'[j])
  BY <1>1, <1>4, Table!ClaimRows, StoreAssumption
<1>6. QED BY <1>3, <1>5 DEF Claims

\* What the handlers of lines do to the rows.
LEMMA HandleRows ==
  ASSUME TypeOK, Table!RowsOK, NEW c \in Connectors, HandleLine(c)
  PROVE  Calm \/ Accepts(c) \/ Completes(c)
<1> DEFINE f == Head(toRelay[c])  S == relay[c].batch
<1>1. Table!TypeOK /\ S \in SUBSET Jobs BY SameTypes DEF TypeOK, RelayStates
<1>2. ASSUME NEW type, Line(c, type) PROVE f \in FromConnector /\ f.type = type
  BY <1>2, UpHead DEF Line
<1>3. HandlerThrows(c) => Calm BY CallRows DEF HandlerThrows
<1>4. CASE HandleHello(c) BY <1>4, CallRows DEF HandleHello
<1>5. CASE HandleHeartbeat(c)
  BY <1>3, <1>5, CallRows DEF HandleHeartbeat, Store!HeartbeatRelaySession
<1>6. CASE HandleAccepted(c)
  <2>1. f.turn \in Turns BY <1>2, <1>6, FrameFields DEF HandleAccepted
  <2>2. ASSUME Store!AcceptRelayJobBatch(c, S, f.turn), UNCHANGED relay PROVE Accepts(c)
    <3>1. Table!AcceptRelayJobBatch(c, S, f.turn) BY <2>2, SameSteps
    <3> HIDE DEF f, S
    <3>2. /\ \A j \in S : /\ job[j].status = "leased" /\ job[j].owner = c /\ job[j].turn = None
                          /\ job'[j].status = "accepted" /\ job'[j].turn = f.turn
          /\ \A j \in Jobs \ S : job'[j] = job[j]
      BY <1>1, <2>1, <3>1, Table!AcceptRows, StoreAssumption
    <3>3. QED BY <1>6, <2>2, <3>2 DEF Accepts, f, S
  <2>3. QED BY <1>3, <1>6, <2>2 DEF HandleAccepted
<1>7. CASE HandleDeferred(c) BY <1>1, <1>3, <1>7, CallRows DEF HandleDeferred
<1>8. CASE HandleResult(c)
  <2>1. f.turn \in Turns BY <1>2, <1>8, FrameFields DEF HandleResult
  <2>2. ASSUME NEW batch, Store!FinalizeRelayJobBatch(batch, S, f.turn, f.result)
        PROVE  Completes(c)
    <3>1. Table!FinalizeRelayJobBatch(batch, S, f.turn, f.result) BY <2>2, SameSteps
    <3> HIDE DEF f, S
    <3>2. /\ \A j \in S : /\ job[j].turn = f.turn /\ job[j].status = "accepted"
                          /\ job'[j].turn = f.turn /\ job'[j].status = "completed"
          /\ \A j \in Jobs \ S : job'[j] = job[j]
      BY <1>1, <2>1, <3>1, Table!FinalizeRows, StoreAssumption
    <3>3. QED BY <1>8, <3>2 DEF Completes, f, S
  <2>3. Store!FailRelayJobBatch(c, S, f.turn) => Calm BY <1>1, <2>1, CallRows
  <2>4. QED BY <1>3, <1>8, <2>2, <2>3 DEF HandleResult
<1>9. CASE HandleFailed(c)
  <2>1. f.turn \in Turns \cup {None} BY <1>2, <1>9, FrameFields DEF HandleFailed
  <2>2. Store!FailRelayJobBatch(c, S, f.turn) => Calm BY <1>1, <2>1, CallRows
  <2>3. QED BY <1>3, <1>9, <2>2 DEF HandleFailed
<1>10. QED BY <1>4, <1>5, <1>6, <1>7, <1>8, <1>9 DEF HandleLine

\* What any step does to the rows.
LEMMA StepRows ==
  ASSUME TypeOK, Table!RowsOK, [Next]_vars
  PROVE  \/ Calm
         \/ \E c \in Connectors : Claims(c) \/ Accepts(c) \/ Completes(c)
<1>1. ASSUME NEW c \in Connectors, RelayStep(c)
      PROVE  Calm \/ Claims(c) \/ Accepts(c) \/ Completes(c)
  <2>1. relay[c].batch \in SUBSET Jobs BY DEF TypeOK, RelayStates
  <2>2. CASE Quarantine(c)
    <3>1. PICK S \in Store!Batches : QuarantineJobs(c, S) BY <2>2 DEF Quarantine
    <3>2. S \in SUBSET Jobs BY DEF Store!Batches
    <3>3. QED BY <3>1, <3>2, CallRows DEF QuarantineJobs, storeVars
  <2>3. CASE ReleaseRest(c) BY <2>1, <2>3, CallRows DEF ReleaseRest, storeVars
  <2>4. CASE CloseSettles(c) BY <2>1, <2>4, CallRows DEF CloseSettles, storeVars
  <2>5. CASE CloseDisconnects(c)
    BY <2>5, CallRows DEF CloseDisconnects, storeVars, Store!DisconnectRelaySession
  <2>6. CASE ClaimFails(c) \/ CheckOwnership(c) \/ ClaimPoisoned(c) \/ SendBatch(c)
    BY <2>6, CallRows DEF ClaimFails, CheckOwnership, ClaimPoisoned, SendBatch
  <2>7. QED BY <1>1, <2>2, <2>3, <2>4, <2>5, <2>6, ClaimEffect, HandleRows
            DEF RelayStep, FinishClaim
<1>2. ASSUME NEW c \in Connectors, ConnStep(c) \/ Connect(c) \/ Stop(c) \/ Kill(c)
      PROVE  Calm
  BY <1>2, ConnStoreStep, CallRows DEF storeVars
<1>3. CASE Enqueue \/ ExpireJobs \/ ReadSession \/ Tick
  BY <1>3, CallRows DEF Enqueue, ExpireJobs, ReadSession, Tick, Store!GetRelaySession
<1>4. CASE LocalTurn \/ (\E t \in Turns : FinishTurn(t)) \/ UNCHANGED vars
  BY <1>4, CallRows DEF LocalTurn, FinishTurn, vars
<1>5. QED BY <1>1, <1>2, <1>3, <1>4 DEF Next

\* The lines of a pipe, as a set.
Lines(s) == {s[i] : i \in 1..Len(s)}

\* The lines of a sequence, one more, one less.
LEMMA LinesFacts ==
  ASSUME NEW T, NEW s \in Seq(T), NEW f \in T
  PROVE  /\ Lines(<<>>) = {} /\ Lines(Append(s, f)) = Lines(s) \cup {f}
         /\ Lines(<<f>>) = {f}
         /\ s # <<>> => Lines(Tail(s)) \subseteq Lines(s) /\ Head(s) \in Lines(s)
         /\ Lines(s) \subseteq T
<1>1. Lines(<<>>) = {} /\ Lines(s) \subseteq T BY ElementOfSeq, EmptySeq DEF Lines
<1>2. Lines(<<f>>) = {f}
  <2>1. Len(<<f>>) = 1 /\ <<f>>[1] = f OBVIOUS
  <2>2. QED BY <2>1 DEF Lines
<1>3. Lines(Append(s, f)) = Lines(s) \cup {f}
  <2> DEFINE u == Append(s, f)
  <2>1. /\ Len(s) \in Nat /\ Len(u) = Len(s) + 1 /\ u[Len(s) + 1] = f
        /\ \A i \in 1..Len(s) : u[i] = s[i]
    BY AppendProperties
  <2> HIDE DEF u
  <2>2. 1..Len(u) = (1..Len(s)) \cup {Len(s) + 1} BY <2>1
  <2>3. Lines(u) = Lines(s) \cup {f} BY <2>1, <2>2 DEF Lines
  <2>4. QED BY <2>3 DEF u
<1>4. ASSUME s # <<>> PROVE Lines(Tail(s)) \subseteq Lines(s) /\ Head(s) \in Lines(s)
  <2> DEFINE u == Tail(s)
  <2>1. /\ Len(s) \in Nat /\ 1 \in 1..Len(s) /\ s[1] = Head(s)
        /\ \A i \in 1..Len(u) : u[i] = s[i + 1] /\ i + 1 \in 1..Len(s)
    BY <1>4, HeadTailProperties
  <2> HIDE DEF u
  <2>2. Lines(u) \subseteq Lines(s) /\ Head(s) \in Lines(s) BY <2>1 DEF Lines
  <2>3. QED BY <2>2 DEF u
<1>5. QED BY <1>1, <1>2, <1>3, <1>4

\* The first line, and the others.
LEMMA LinesHead ==
  ASSUME NEW T, NEW s \in Seq(T), s # <<>>
  PROVE  Head(s) \in Lines(s) /\ Lines(Tail(s)) \subseteq Lines(s)
<1>1. Head(s) \in T BY HeadTailProperties
<1>2. QED BY <1>1, LinesFacts

\* A prefix has no other lines.
LEMMA LinesPrefix ==
  ASSUME NEW T, NEW s \in Seq(T), NEW n \in 0..Len(s)
  PROVE  Lines(SubSeq(s, 1, n)) \subseteq Lines(s)
<1> DEFINE u == SubSeq(s, 1, n)
<1>1. Len(s) \in Nat /\ n \in Int /\ \A i \in 1..n : s[i] \in T /\ i \in 1..Len(s)
  BY LenProperties, ElementOfSeq
<1>2. Len(u) = n /\ \A i \in 1..n : u[i] = s[i] BY <1>1, SubSeqProperties
<1> HIDE DEF u
<1>3. Lines(u) \subseteq Lines(s) BY <1>1, <1>2 DEF Lines
<1>4. QED BY <1>3 DEF u

\* What Link says of the set of lines.
LEMMA LinesOf ==
  ASSUME NEW up \in Seq(FromConnector)
  PROVE  /\ Silent(up) => \A f \in Lines(up) : ~About(f)
         /\ \A S : Carries(up, S) => \A f \in Lines(up) : About(f) => f.batch = S
         /\ InTurn(up) /\ up # <<>> /\ Head(up).type = "job_accepted" =>
              \A f \in Lines(Tail(up)) : f.type # "job_accepted"
BY UpTail DEF Lines, Silent, Carries

\* A turn keeps its jobs and whoever asked for it.
LEMMA TurnsKept ==
  ASSUME TypeOK, [Next]_vars, NEW t \in Turns, turns[t].status # "unused"
  PROVE  /\ turns'[t].jobs = turns[t].jobs /\ turns'[t].by = turns[t].by
         /\ turns'[t].status # "unused"
<1> DEFINE Kept == /\ turns'[t].jobs = turns[t].jobs /\ turns'[t].by = turns[t].by
                   /\ turns'[t].status # "unused"
<1>1. turns \in [Turns -> TurnStates] BY DEF TypeOK
<1>2. UNCHANGED turns => Kept OBVIOUS
<1>3. ASSUME NEW u \in Turns, NEW S, NEW c, CanStart(u), StartTurn(u, S, c) PROVE Kept
  BY <1>1, <1>3 DEF CanStart, StartTurn
<1>4. ASSUME NEW u \in Turns, FinishTurn(u) PROVE Kept
  BY <1>1, <1>4 DEF FinishTurn, TurnStates
<1>5. ASSUME NEW c \in Connectors, ConnStep(c) PROVE Kept
  <2>1. UNCHANGED turns \/ \E u \in Turns : CanStart(u) /\ StartTurn(u, conn[c].batch, c)
    BY <1>5 DEF ConnStep, TimerHeartbeat, Reconcile, NoticeTurnStarted, NoticeTurnCompleted,
       ReportTurn, ReceiveLine, ReceiveBatch, DeferBatch, ReceiveRecorded, AnswerTurnStart,
       TurnStarted, TurnRefused, TurnStartFails
  <2>2. QED BY <1>2, <1>3, <2>1
<1>6. CASE LocalTurn BY <1>3, <1>6 DEF LocalTurn
<1>7. QED BY <1>2, <1>4, <1>5, <1>6, OnlyConnectorsStart

\* One line more, whatever it is.
LEMMA LinesAppend ==
  ASSUME NEW T, NEW s \in Seq(T), NEW f
  PROVE  Lines(Append(s, f)) = Lines(s) \cup {f} /\ Lines(<<f>>) = {f}
<1>1. s \in Seq(T \cup {f}) /\ f \in T \cup {f} BY SeqMonotonic
<1>2. QED BY <1>1, LinesFacts

\* The lines to the relay that name a turn, and where they come from.
NamesTurn(f) == f.type \in {"job_accepted", "job_result"}

NewLine(c, f) ==
  \/ /\ TurnStarted(c) /\ f.type = "job_accepted"
     /\ f.batch = conn[c].batch /\ f.turn = conn'[c].turn
  \/ /\ ReportTurn(c) /\ f.type = "job_result"
     /\ f.batch = conn[c].batch /\ f.turn = conn[c].turn

\* A relay only takes lines away, and so does the end of either process.
LEMMA RelayLines ==
  ASSUME TypeOK, NEW c \in Connectors, RelayStep(c) \/ Kill(c) \/ Stop(c)
  PROVE  Lines(toRelay'[c]) \subseteq Lines(toRelay[c])
<1>1. toRelay \in [Connectors -> Seq(FromConnector)] /\ toRelay[c] \in Seq(FromConnector)
  BY DEF TypeOK
<1>2. ASSUME NEW type, Line(c, type), Consume(c)
      PROVE  Lines(toRelay'[c]) \subseteq Lines(toRelay[c])
  <2>1. toRelay'[c] = Tail(toRelay[c]) BY <1>1, <1>2 DEF Consume
  <2>2. QED BY <1>1, <1>2, <2>1, LinesHead DEF Line
<1>3. CASE HandleLine(c)
  BY <1>2, <1>3 DEF HandleLine, HandleHello, HandleHeartbeat, HandleAccepted, HandleDeferred,
     HandleResult, HandleFailed
<1>4. CASE CloseDisconnects(c) \/ Kill(c)
  <2>1. toRelay'[c] = <<>> BY <1>1, <1>4 DEF CloseDisconnects, Kill
  <2>2. QED BY <2>1 DEF Lines
<1>5. CASE Stop(c)
  <2>1. PICK n \in 0..Len(toRelay[c]) : toRelay'[c] = SubSeq(toRelay[c], 1, n)
    BY <1>1, <1>5 DEF Stop
  <2>2. Lines(SubSeq(toRelay[c], 1, n)) \subseteq Lines(toRelay[c]) BY <1>1, LinesPrefix
  <2>3. QED BY <2>1, <2>2
<1>6. CASE FinishClaim(c) \/ ClaimFails(c) \/ CheckOwnership(c) \/ CloseSettles(c)
  <2>1. UNCHANGED toRelay
    BY <1>6 DEF FinishClaim, Claim, ClaimPoisoned, SendBatch, Quarantine, QuarantineJobs,
       ReleaseRest, ClaimFails, CheckOwnership, CloseSettles
  <2>2. QED BY <2>1
<1>7. QED BY <1>3, <1>4, <1>5, <1>6 DEF RelayStep

\* A connector names a turn when it starts and when its result is reported.
LEMMA ConnLines ==
  ASSUME TypeOK, NEW c \in Connectors, ConnStep(c) \/ Connect(c),
         NEW f \in Lines(toRelay'[c]), NamesTurn(f)
  PROVE  f \in Lines(toRelay[c]) \/ NewLine(c, f)
<1>1. /\ toRelay \in [Connectors -> Seq(FromConnector)] /\ toRelay[c] \in Seq(FromConnector)
      /\ conn \in [Connectors -> ConnStates] /\ conn[c] \in ConnStates
  BY DEF TypeOK
<1>2. ASSUME NEW g, ToRelay(c, g) PROVE f \in Lines(toRelay[c]) \cup {g}
  <2>1. toRelay'[c] \in {toRelay[c], Append(toRelay[c], g)} BY <1>1, <1>2 DEF ToRelay
  <2>2. QED BY <1>1, <2>1, LinesAppend
<1>3. CASE Connect(c)
  <2>1. toRelay'[c] = <<[type |-> "hello", accepting |-> RunningTurns = {}]>>
    BY <1>1, <1>3 DEF Connect
  <2>2. f = [type |-> "hello", accepting |-> RunningTurns = {}] BY <1>1, <2>1, LinesAppend
  <2>3. QED BY <2>2 DEF NamesTurn
<1>4. \A b : ~NamesTurn(Heartbeat(b)) BY DEF NamesTurn, Heartbeat
<1>5. CASE TimerHeartbeat(c) \/ Reconcile(c) \/ NoticeTurnStarted(c) \/ NoticeTurnCompleted(c)
           \/ ReceiveBatch(c)
  <2>1. PICK b : ToRelay(c, Heartbeat(b))
    BY <1>5 DEF TimerHeartbeat, Reconcile, NoticeTurnStarted, NoticeTurnCompleted, ReceiveBatch
  <2>2. QED BY <1>2, <1>4, <2>1
<1>6. CASE ReceiveRecorded(c)
  <2>1. UNCHANGED toRelay \/ \E b : ToRelay(c, Heartbeat(b)) BY <1>6 DEF ReceiveRecorded
  <2>2. QED BY <1>2, <1>4, <2>1
<1>7. CASE DeferBatch(c) \/ TurnRefused(c) \/ TurnStartFails(c)
  <2>1. PICK g : ToRelay(c, g) /\ g.type \in {"job_deferred", "job_failed"}
    BY <1>7 DEF DeferBatch, TurnRefused, TurnStartFails
  <2>2. QED BY <1>2, <2>1 DEF NamesTurn
<1>8. CASE TurnStarted(c)
  <2>1. PICK t \in Turns :
          /\ conn' = [conn EXCEPT ![c].pc = "running", ![c].turn = t, ![c].active = @ \cup {t}]
          /\ ToRelay(c, [type |-> "job_accepted", batch |-> conn[c].batch, turn |-> t])
    BY <1>8 DEF TurnStarted
  <2>2. conn'[c].turn = t BY <1>1, <2>1 DEF ConnStates
  <2>3. f \in Lines(toRelay[c])
        \/ f = [type |-> "job_accepted", batch |-> conn[c].batch, turn |-> t]
    BY <1>2, <2>1
  <2>4. QED BY <1>8, <2>2, <2>3 DEF NewLine
<1>9. CASE ReportTurn(c)
  <2> DEFINE failed == [type |-> "job_failed", batch |-> conn[c].batch, turn |-> conn[c].turn]
             done(r) == [type |-> "job_result", batch |-> conn[c].batch, turn |-> conn[c].turn,
                         result |-> r]
  <2>1. ToRelay(c, failed) \/ \E r \in ResultKinds : ToRelay(c, done(r))
    BY <1>9 DEF ReportTurn
  <2>2. ~NamesTurn(failed) BY DEF NamesTurn
  <2>3. \A r : NewLine(c, done(r)) BY <1>9 DEF NewLine
  <2> HIDE DEF failed, done
  <2>4. QED BY <1>2, <2>1, <2>2, <2>3
<1>10. QED BY <1>3, <1>5, <1>6, <1>7, <1>8, <1>9 DEF ConnStep, ReceiveLine, AnswerTurnStart

\* Where a line that names a turn comes from.
LEMMA LinesStep ==
  ASSUME TypeOK, Pairs, RunningKnown, [Next]_vars, NEW c \in Connectors,
         NEW f \in Lines(toRelay'[c]), NamesTurn(f)
  PROVE  f \in Lines(toRelay[c]) \/ NewLine(c, f)
<1>1. ASSUME NEW d \in Connectors, StepOf(d) PROVE f \in Lines(toRelay[c]) \/ NewLine(c, f)
  <2>1. CASE d = c BY <1>1, <2>1, RelayLines, ConnLines DEF StepOf
  <2>2. CASE d # c
    <3>1. Linked(d) BY <1>1, StepPairs DEF Pairs
    <3>2. toRelay'[c] = toRelay[c] BY <2>2, <3>1 DEF Linked, Others, Untouched
    <3>3. QED BY <3>2
  <2>3. QED BY <2>1, <2>2
<1>2. UNCHANGED Processes => toRelay'[c] = toRelay[c] BY DEF Processes
<1>3. QED BY <1>1, <1>2, OutsideStep

-----------------------------------------------------------------------------
(***************************************************************************)
(* Where a job is.  Has: somewhere between the claim of the relay of c and  *)
(* the end of its batch.  Unread: no turn has seen it yet.                  *)
(***************************************************************************)
OnItsWay(c, j) == \E f \in Lines(toConn[c]) : f.type = "job_batch" /\ j \in f.batch

Has(c, j) == j \in conn[c].batch \/ j \in relay[c].batch \/ OnItsWay(c, j)

Unread(c, j) ==
  \/ conn[c].pc = "starting" /\ j \in conn[c].batch
  \/ relay[c].pc = "preparing" /\ j \in relay[c].batch
  \/ OnItsWay(c, j)

\* How a step of a relay moves its batch.
LEMMA RelayMoves ==
  ASSUME TypeOK, NEW c \in Connectors, PairAt(c), RelayStep(c) \/ Kill(c)
  PROVE  /\ UNCHANGED conn
         /\ Claim(c) \/ relay'[c].batch \subseteq relay[c].batch
         /\ relay'[c].pc = "preparing" => Claim(c)
         /\ relay'[c].pc = "open" => \/ relay'[c].batch = {}
                                     \/ relay[c].pc \in {"open", "preparing"}
         /\ \A f \in Lines(toConn'[c]) : f.type = "job_batch" =>
              \/ f \in Lines(toConn[c])
              \/ relay[c].pc = "preparing" /\ f.batch = relay[c].batch
<1>1. /\ relay \in [Connectors -> RelayStates] /\ relay[c] \in RelayStates
      /\ toConn \in [Connectors -> Seq(FromRelay)] /\ toConn[c] \in Seq(FromRelay)
  BY DEF TypeOK
<1>2. UNCHANGED conn
  <2>1. CASE HandleLine(c)
    BY <2>1 DEF HandleLine, HandleHello, HandleHeartbeat, HandleAccepted, HandleDeferred,
       HandleResult, HandleFailed
  <2>2. CASE FinishClaim(c)
    BY <2>2 DEF FinishClaim, Claim, ClaimPoisoned, SendBatch, Quarantine, QuarantineJobs, ReleaseRest
  <2>3. QED BY <2>1, <2>2 DEF RelayStep, ClaimFails, CheckOwnership, CloseSettles,
       CloseDisconnects, Kill
<1> DEFINE Down == \A f \in Lines(toConn'[c]) : f.type = "job_batch" =>
                     \/ f \in Lines(toConn[c])
                     \/ relay[c].pc = "preparing" /\ f.batch = relay[c].batch
<1>3. UNCHANGED toConn => Down OBVIOUS
<1>4. ASSUME NEW g, ToConn(c, g),
             g.type # "job_batch" \/ (relay[c].pc = "preparing" /\ g.batch = relay[c].batch)
      PROVE  Down
  <2>1. toConn'[c] \in {toConn[c], Append(toConn[c], g)} BY <1>1, <1>4 DEF ToConn
  <2>2. Lines(Append(toConn[c], g)) = Lines(toConn[c]) \cup {g} BY <1>1, LinesAppend
  <2>3. Lines(toConn'[c]) \subseteq Lines(toConn[c]) \cup {g} BY <2>1, <2>2
  <2>4. QED BY <1>4, <2>3
<1>5. CASE ClaimFails(c)
  <2>1. relay'[c].pc = "open" /\ relay[c].pc = "open" /\ relay'[c].batch = relay[c].batch
    BY <1>1, <1>5 DEF ClaimFails, RelayStates
  <2>2. QED BY <1>2, <1>3, <1>5, <2>1 DEF ClaimFails
<1>6. CASE CheckOwnership(c)
  <2>1. relay'[c].pc = "claiming" /\ relay'[c].batch = relay[c].batch
    BY <1>1, <1>6 DEF CheckOwnership, RelayStates
  <2>2. QED BY <1>2, <1>3, <1>6, <2>1 DEF CheckOwnership
<1>7. CASE Claim(c)
  <2>1. relay'[c].pc = "open" => relay'[c].batch = {} BY <1>1, <1>7 DEF Claim, RelayStates
  <2>2. QED BY <1>2, <1>3, <1>7, <2>1 DEF Claim
<1>8. CASE ClaimPoisoned(c)
  <2>1. relay[c].batch = {} BY <1>8 DEF ClaimPoisoned, PairAt, Pair, Phase
  <2>2. relay'[c].pc = "open" /\ relay'[c].batch = relay[c].batch
    BY <1>1, <1>8 DEF ClaimPoisoned, RelayStates
  <2>3. QED BY <1>2, <1>3, <1>8, <2>1, <2>2 DEF ClaimPoisoned
<1>9. CASE SendBatch(c)
  <2>1. relay[c].pc = "preparing" /\ relay'[c].pc = "open" /\ relay'[c].batch = relay[c].batch
    BY <1>1, <1>9 DEF SendBatch, RelayStates
  <2>2. Down BY <1>4, <1>9, <2>1 DEF SendBatch
  <2>3. QED BY <1>2, <2>1, <2>2
<1>10. CASE Quarantine(c)
  <2>1. PICK S \in Store!Batches : QuarantineJobs(c, S) BY <1>10 DEF Quarantine
  <2>2. /\ relay'[c].batch \subseteq relay[c].batch /\ relay'[c].pc # "preparing"
        /\ relay'[c].pc = "open" => relay'[c].batch = {}
    BY <1>1, <2>1 DEF QuarantineJobs, RelayStates
  <2>3. QED BY <1>2, <1>3, <2>1, <2>2 DEF QuarantineJobs
<1>11. CASE ReleaseRest(c)
  <2>1. relay'[c].batch = {} /\ relay'[c].pc = "open" BY <1>1, <1>11 DEF ReleaseRest, RelayStates
  <2>2. QED BY <1>2, <1>3, <1>11, <2>1 DEF ReleaseRest
<1>12. CASE HandleLine(c)
  <2>1. relay[c].pc = "open" /\ \E type : Line(c, type)
    BY <1>12 DEF HandleLine, HandleHello, HandleHeartbeat, HandleAccepted, HandleDeferred,
       HandleResult, HandleFailed, Line
  <2>2. ASSUME FinishBatch(c)
        PROVE  Down /\ relay'[c].batch \subseteq relay[c].batch /\ relay'[c].pc # "preparing"
    <3>1. relay'[c].batch = {} /\ relay'[c].pc = "open"
      BY <1>1, <2>1, <2>2 DEF FinishBatch, RelayStates
    <3>2. Down BY <1>4, <2>2 DEF FinishBatch, Recorded
    <3>3. QED BY <3>1, <3>2
  <2>3. ASSUME HandlerThrows(c)
        PROVE  Down /\ relay'[c].batch \subseteq relay[c].batch /\ relay'[c].pc # "preparing"
    <3>1. relay'[c].batch = relay[c].batch /\ relay'[c].pc = "closing"
      BY <1>1, <2>3 DEF HandlerThrows, RelayStates
    <3>2. QED BY <1>3, <2>3, <3>1 DEF HandlerThrows
  <2>4. ASSUME UNCHANGED toConn,
               \/ \E b : relay' = [relay EXCEPT ![c].accepting = b]
               \/ \E b : relay' = [relay EXCEPT ![c].hello = TRUE, ![c].accepting = b]
               \/ UNCHANGED relay
        PROVE  Down /\ relay'[c].batch \subseteq relay[c].batch /\ relay'[c].pc # "preparing"
    <3>1. relay'[c].batch = relay[c].batch /\ relay'[c].pc = relay[c].pc
      BY <1>1, <2>4 DEF RelayStates
    <3>2. QED BY <1>3, <2>1, <2>4, <3>1
  <2>5. HandleHello(c) \/ HandleHeartbeat(c) \/ HandleAccepted(c) =>
          \/ HandlerThrows(c)
          \/ /\ UNCHANGED toConn
             /\ \/ \E b : relay' = [relay EXCEPT ![c].accepting = b]
                \/ \E b : relay' = [relay EXCEPT ![c].hello = TRUE, ![c].accepting = b]
                \/ UNCHANGED relay
    BY DEF HandleHello, HandleHeartbeat, HandleAccepted
  <2>6. HandleDeferred(c) \/ HandleResult(c) \/ HandleFailed(c) => HandlerThrows(c) \/ FinishBatch(c)
    BY DEF HandleDeferred, HandleResult, HandleFailed
  <2>7. QED BY <1>2, <1>12, <2>1, <2>2, <2>3, <2>4, <2>5, <2>6 DEF HandleLine
<1>13. CASE CloseSettles(c)
  <2>1. relay'[c].batch = {} /\ relay'[c].pc = "leaving" BY <1>1, <1>13 DEF CloseSettles, RelayStates
  <2>2. QED BY <1>2, <1>3, <1>13, <2>1 DEF CloseSettles
<1>14. CASE CloseDisconnects(c) \/ Kill(c)
  <2>1. relay'[c] = [NewRelay EXCEPT !.pc = "gone"] /\ UNCHANGED toConn
    BY <1>1, <1>14 DEF CloseDisconnects, Kill, Gone
  <2>2. relay'[c].batch = {} /\ relay'[c].pc = "gone" BY <2>1 DEF NewRelay
  <2>3. QED BY <1>2, <1>3, <2>1, <2>2
<1>15. QED BY <1>5, <1>6, <1>7, <1>8, <1>9, <1>10, <1>11, <1>12, <1>13, <1>14
           DEF RelayStep, FinishClaim

\* How a step of a connector moves its batch.
LEMMA ConnMoves ==
  ASSUME TypeOK, NEW c \in Connectors, PairAt(c), ConnStep(c)
  PROVE  /\ UNCHANGED relay /\ Alive(c)
         /\ Lines(toConn'[c]) \subseteq Lines(toConn[c])
         /\ \/ conn'[c].batch \subseteq conn[c].batch
               /\ (conn'[c].pc = "starting" => conn[c].pc = "starting")
            \/ \E f \in Lines(toConn[c]) : f.type = "job_batch" /\ conn'[c].batch = f.batch
<1>1. /\ conn \in [Connectors -> ConnStates] /\ conn[c] \in ConnStates
      /\ toConn \in [Connectors -> Seq(FromRelay)] /\ toConn[c] \in Seq(FromRelay)
  BY DEF TypeOK
<1> DEFINE Result == /\ UNCHANGED relay /\ Alive(c)
                     /\ Lines(toConn'[c]) \subseteq Lines(toConn[c])
                     /\ \/ conn'[c].batch \subseteq conn[c].batch
                           /\ (conn'[c].pc = "starting" => conn[c].pc = "starting")
                        \/ \E f \in Lines(toConn[c]) :
                             f.type = "job_batch" /\ conn'[c].batch = f.batch
<1>2. ASSUME NEW type, Received(c, type)
      PROVE  /\ Alive(c) /\ Lines(toConn'[c]) \subseteq Lines(toConn[c])
             /\ Head(toConn[c]) \in Lines(toConn[c]) /\ Head(toConn[c]).type = type
  <2>1. toConn[c] # <<>> /\ toConn'[c] = Tail(toConn[c]) BY <1>1, <1>2 DEF Received
  <2>2. QED BY <1>1, <1>2, <2>1, LinesHead DEF Received
<1>3. CASE TimerHeartbeat(c) BY <1>3 DEF TimerHeartbeat
<1>4. CASE Reconcile(c) \/ NoticeTurnStarted(c) \/ NoticeTurnCompleted(c)
  <2>1. \E A : conn' = [conn EXCEPT ![c].active = A]
    BY <1>4 DEF Reconcile, NoticeTurnStarted, NoticeTurnCompleted
  <2>2. conn'[c].batch = conn[c].batch /\ conn'[c].pc = conn[c].pc
    BY <1>1, <2>1 DEF ConnStates
  <2>3. Alive(c) /\ UNCHANGED <<relay, toConn>>
    BY <1>4 DEF Reconcile, NoticeTurnStarted, NoticeTurnCompleted, Alive
  <2>4. QED BY <2>2, <2>3
<1>5. CASE ReportTurn(c) \/ TurnRefused(c) \/ TurnStartFails(c)
  <2>1. conn'[c].batch = conn[c].batch /\ conn'[c].pc = "recording"
    BY <1>1, <1>5 DEF ReportTurn, TurnRefused, TurnStartFails, ConnStates
  <2>2. Alive(c) /\ UNCHANGED <<relay, toConn>>
    BY <1>5 DEF ReportTurn, TurnRefused, TurnStartFails, Alive
  <2>3. QED BY <2>1, <2>2
<1>6. CASE TurnStarted(c)
  <2>1. \E t : conn' = [conn EXCEPT ![c].pc = "running", ![c].turn = t, ![c].active = @ \cup {t}]
    BY <1>6 DEF TurnStarted
  <2>2. conn'[c].batch = conn[c].batch /\ conn'[c].pc = "running"
    BY <1>1, <2>1 DEF ConnStates
  <2>3. Alive(c) /\ UNCHANGED <<relay, toConn>> BY <1>6 DEF TurnStarted, Alive
  <2>4. QED BY <2>2, <2>3
<1>7. CASE ReceiveBatch(c)
  <2>1. conn'[c].batch = Head(toConn[c]).batch BY <1>1, <1>7 DEF ReceiveBatch, ConnStates
  <2>2. QED BY <1>2, <1>7, <2>1 DEF ReceiveBatch
<1>8. CASE DeferBatch(c) BY <1>2, <1>8 DEF DeferBatch
<1>9. CASE ReceiveRecorded(c)
  <2>1. \/ conn'[c].batch = {} /\ conn'[c].pc = "idle"
        \/ UNCHANGED conn
    BY <1>1, <1>9 DEF ReceiveRecorded, ConnStates
  <2>2. QED BY <1>2, <1>9, <2>1 DEF ReceiveRecorded
<1>10. QED BY <1>3, <1>4, <1>5, <1>6, <1>7, <1>8, <1>9
           DEF ConnStep, ReceiveLine, AnswerTurnStart

\* A connector that starts has nothing.
LEMMA ConnectMoves ==
  ASSUME TypeOK, NEW c \in Connectors, PairAt(c), Connect(c)
  PROVE  /\ conn'[c].pc = "idle" /\ conn'[c].batch = {}
         /\ relay'[c].pc = "open" /\ relay'[c].batch = {} /\ Lines(toConn'[c]) = {}
<1>1. relay[c].batch = {} /\ toConn[c] = <<>>
  BY DEF PairAt, Pair, Phase, Connect, Up
<1>2. Lines(<<>>) = {} BY DEF Lines
<1>3. QED BY <1>1, <1>2 DEF Connect, TypeOK, RelayStates, NewConn

\* A connector has a job it had before, or its relay has just claimed it.
LEMMA JobsMove ==
  ASSUME TypeOK, Pairs, RunningKnown, [Next]_vars, NEW c \in Connectors, NEW j, Alive(c)', Has(c, j)'
  PROVE  /\ Alive(c)
         /\ Has(c, j) \/ (Claim(c) /\ j \in relay'[c].batch)
         /\ Unread(c, j)' => Unread(c, j) \/ (Claim(c) /\ j \in relay'[c].batch)
<1>1. ASSUME Untouched(c)
      PROVE  Alive(c) /\ Has(c, j) /\ (Unread(c, j)' => Unread(c, j))
  BY <1>1 DEF Untouched, Has, OnItsWay, Unread, Alive
<1>2. CASE RelayStep(c) \/ Kill(c)
  <2>1. /\ UNCHANGED conn
        /\ Claim(c) \/ relay'[c].batch \subseteq relay[c].batch
        /\ relay'[c].pc = "preparing" => Claim(c)
        /\ \A f \in Lines(toConn'[c]) : f.type = "job_batch" =>
              \/ f \in Lines(toConn[c])
              \/ relay[c].pc = "preparing" /\ f.batch = relay[c].batch
    BY <1>2, RelayMoves DEF Pairs
  <2>2. OnItsWay(c, j)' => OnItsWay(c, j) \/ (relay[c].pc = "preparing" /\ j \in relay[c].batch)
    BY <2>1 DEF OnItsWay
  <2>3. QED BY <2>1, <2>2 DEF Has, Unread, Alive
<1>3. CASE ConnStep(c)
  <2>1. /\ UNCHANGED relay /\ Alive(c)
        /\ Lines(toConn'[c]) \subseteq Lines(toConn[c])
        /\ \/ conn'[c].batch \subseteq conn[c].batch
              /\ (conn'[c].pc = "starting" => conn[c].pc = "starting")
           \/ \E f \in Lines(toConn[c]) : f.type = "job_batch" /\ conn'[c].batch = f.batch
    BY <1>3, ConnMoves DEF Pairs
  <2>2. OnItsWay(c, j)' => OnItsWay(c, j) BY <2>1 DEF OnItsWay
  <2>3. QED BY <2>1, <2>2 DEF Has, Unread, OnItsWay
<1>4. CASE Connect(c)
  <2>1. ~Has(c, j)' BY <1>4, ConnectMoves DEF Pairs, Has, OnItsWay
  <2>2. QED BY <2>1
<1>5. CASE Stop(c)
  <2>1. ~Alive(c)' BY <1>5 DEF Stop, Alive, TypeOK, ConnStates, NewConn
  <2>2. QED BY <2>1
<1>6. ASSUME NEW d \in Connectors \ {c}, StepOf(d) PROVE Untouched(c)
  BY <1>6, StepPairs DEF Pairs, Linked, Others
<1>7. UNCHANGED Processes => Untouched(c) BY DEF Processes, Untouched
<1>8. QED BY <1>1, <1>2, <1>3, <1>4, <1>5, <1>6, <1>7, OutsideStep DEF StepOf

-----------------------------------------------------------------------------
(***************************************************************************)
(* The invariant.                                                          *)
(***************************************************************************)
\* The supervisor starts a connector once the previous one has exited.
OneAlive == \A c, d \in Connectors : Alive(c) /\ Alive(d) => c = d

\* A turn that connector c asked for, with the jobs S.
Asked(t, c, S) == turns[t].status # "unused" /\ turns[t].by = c /\ turns[t].jobs = S

\* The turn a connector runs, and the turns its lines name, are its own.
RunsItsBatch ==
  \A c \in Connectors : conn[c].pc = "running" =>
    conn[c].turn \in Turns /\ Asked(conn[c].turn, c, conn[c].batch)

NamesItsTurns ==
  \A c \in Connectors : \A f \in Lines(toRelay[c]) : NamesTurn(f) => Asked(f.turn, c, f.batch)

\* No row names the turn of an acceptance that has not been handled.
NotRecordedYet ==
  \A c \in Connectors : \A f \in Lines(toRelay[c]) :
    f.type = "job_accepted" => \A j \in Jobs : job[j].turn # f.turn

UnusedEmpty == \A t \in Turns : turns[t].status = "unused" => turns[t].jobs = {}

\* A relay that may still record a turn for its batch.
MayAccept(d) == relay[d].pc = "open" /\ \E f \in Lines(toRelay[d]) : f.type = "job_accepted"

\* As long as a job is leased to such a relay, no other living connector has it.
NotStolen ==
  \A c, d \in Connectors : c # d /\ Alive(c) /\ MayAccept(d) =>
    \A j \in relay[d].batch : job[j].status = "leased" /\ job[j].owner = d => ~Has(c, j)

\* No turn is recorded for a job a turn may be started with.
Unrecorded ==
  \A c \in Connectors : Alive(c) => \A j \in Jobs : Unread(c, j) => job[j].turn = None

ProtocolInv ==
  /\ TypeOK /\ Table!RowsOK /\ Pairs /\ OneAlive
  /\ RunsItsBatch /\ NamesItsTurns /\ NotRecordedYet /\ UnusedEmpty
  /\ NotStolen /\ Unrecorded
  /\ TurnOwnsItsBatch /\ AnsweredWhole

\* A running connector knows its turn.
LEMMA InvRunning == RunsItsBatch => RunningKnown
BY DEF RunsItsBatch, RunningKnown

-----------------------------------------------------------------------------
(***************************************************************************)
(* Each part of the invariant is kept.                                     *)
(***************************************************************************)
\* Only steps about c change connector c.
LEMMA ConnOf ==
  ASSUME [Next]_vars, TypeOK, Pairs, RunningKnown, NEW c \in Connectors, conn'[c] # conn[c]
  PROVE  ConnStep(c) \/ Connect(c) \/ Stop(c)
<1>1. ASSUME NEW d \in Connectors \ {c}, StepOf(d) PROVE FALSE
  BY <1>1, StepPairs DEF Pairs, Linked, Others, Untouched
<1>2. RelayStep(c) \/ Kill(c) => FALSE BY RelayMoves DEF Pairs
<1>3. UNCHANGED Processes => FALSE BY DEF Processes
<1>4. QED BY <1>1, <1>2, <1>3, OutsideStep DEF StepOf

\* A connector starts only when no other is alive.
LEMMA OneAliveStep == ASSUME ProtocolInv, [Next]_vars PROVE OneAlive'
<1>0. TypeOK /\ Pairs /\ RunningKnown /\ OneAlive BY InvRunning DEF ProtocolInv
<1>1. ASSUME NEW c \in Connectors, Alive(c)', ~Alive(c)
      PROVE  Connect(c)
  <2>1. conn'[c] # conn[c] BY <1>1 DEF Alive
  <2>2. ConnStep(c) => FALSE BY <1>0, <1>1, ConnMoves DEF Pairs
  <2>3. Stop(c) => FALSE BY <1>1 DEF Stop
  <2>4. QED BY <1>0, <2>1, <2>2, <2>3, ConnOf
<1>2. ASSUME NEW c \in Connectors, Connect(c)
      PROVE  \A d \in Connectors \ {c} : ~Alive(d)'
  BY <1>0, <1>2 DEF Connect, Alive, TypeOK
<1>3. QED BY <1>0, <1>1, <1>2 DEF OneAlive

\* A turn that starts.
LEMMA StartFacts ==
  ASSUME TypeOK, NEW c \in Connectors, TurnStarted(c)
  PROVE  \E t \in Turns :
           /\ conn'[c].turn = t /\ conn'[c].batch = conn[c].batch
           /\ turns[t].status = "unused"
           /\ turns'[t] = [status |-> "running", jobs |-> conn[c].batch, by |-> c]
<1>1. conn \in [Connectors -> ConnStates] /\ turns \in [Turns -> TurnStates] BY DEF TypeOK
<1>2. PICK t \in Turns :
        /\ CanStart(t) /\ StartTurn(t, conn[c].batch, c)
        /\ conn' = [conn EXCEPT ![c].pc = "running", ![c].turn = t, ![c].active = @ \cup {t}]
  BY DEF TurnStarted
<1>3. conn'[c].turn = t /\ conn'[c].batch = conn[c].batch BY <1>1, <1>2 DEF ConnStates
<1>4. turns'[t] = [status |-> "running", jobs |-> conn[c].batch, by |-> c]
  BY <1>1, <1>2 DEF StartTurn
<1>5. turns[t].status = "unused" BY <1>2 DEF CanStart
<1>6. QED BY <1>3, <1>4, <1>5

\* The same, field by field.
LEMMA StartedTurn ==
  ASSUME TypeOK, NEW c \in Connectors, TurnStarted(c)
  PROVE  /\ conn'[c].turn \in Turns /\ conn'[c].batch = conn[c].batch
         /\ turns'[conn'[c].turn].status # "unused"
         /\ turns'[conn'[c].turn].by = c
         /\ turns'[conn'[c].turn].jobs = conn[c].batch
         /\ turns[conn'[c].turn].status = "unused"
<1>1. PICK t \in Turns :
        /\ conn'[c].turn = t /\ conn'[c].batch = conn[c].batch
        /\ turns[t].status = "unused"
        /\ turns'[t] = [status |-> "running", jobs |-> conn[c].batch, by |-> c]
  BY StartFacts
<1>2. turns'[t].status = "running" /\ turns'[t].by = c /\ turns'[t].jobs = conn[c].batch
  BY <1>1
<1>3. QED BY <1>1, <1>2

\* A connector that runs a turn has just started it, or has it still.
LEMMA RunningMoves ==
  ASSUME TypeOK, Pairs, RunningKnown, [Next]_vars, NEW c \in Connectors,
         conn'[c].pc = "running"
  PROVE  \/ TurnStarted(c)
         \/ /\ conn[c].pc = "running"
            /\ conn'[c].turn = conn[c].turn /\ conn'[c].batch = conn[c].batch
<1>1. conn \in [Connectors -> ConnStates] BY DEF TypeOK
<1>2. CASE conn'[c] = conn[c] BY <1>2
<1>3. CASE ConnStep(c)
  <2>1. CASE TimerHeartbeat(c) \/ DeferBatch(c)
    BY <2>1 DEF TimerHeartbeat, DeferBatch
  <2>2. CASE Reconcile(c) \/ NoticeTurnStarted(c) \/ NoticeTurnCompleted(c)
    <3>1. \E A : conn' = [conn EXCEPT ![c].active = A]
      BY <2>2 DEF Reconcile, NoticeTurnStarted, NoticeTurnCompleted
    <3>2. QED BY <1>1, <3>1 DEF ConnStates
  <2>3. CASE ReportTurn(c) \/ TurnRefused(c) \/ TurnStartFails(c)
    <3>1. conn'[c].pc = "recording"
      BY <1>1, <2>3 DEF ReportTurn, TurnRefused, TurnStartFails, ConnStates
    <3>2. QED BY <3>1
  <2>4. CASE ReceiveBatch(c)
    <3>1. conn'[c].pc = "starting" BY <1>1, <2>4 DEF ReceiveBatch, ConnStates
    <3>2. QED BY <3>1
  <2>5. CASE ReceiveRecorded(c)
    <3>1. conn'[c].pc = "idle" \/ UNCHANGED conn
      BY <1>1, <2>5 DEF ReceiveRecorded, ConnStates
    <3>2. QED BY <3>1
  <2>6. QED BY <1>3, <2>1, <2>2, <2>3, <2>4, <2>5 DEF ConnStep, ReceiveLine, AnswerTurnStart
<1>4. CASE Connect(c) BY <1>1, <1>4 DEF Connect, NewConn
<1>5. CASE Stop(c) BY <1>1, <1>5 DEF Stop, NewConn
<1>6. QED BY <1>2, <1>3, <1>4, <1>5, ConnOf

\* A running turn stays the one its connector started with its batch.
LEMMA RunsItsBatchStep == ASSUME ProtocolInv, [Next]_vars PROVE RunsItsBatch'
<1>0. TypeOK /\ Pairs /\ RunningKnown /\ RunsItsBatch BY InvRunning DEF ProtocolInv
<1> SUFFICES ASSUME NEW c \in Connectors, conn'[c].pc = "running"
             PROVE  /\ conn'[c].turn \in Turns
                    /\ turns'[conn'[c].turn].status # "unused"
                    /\ turns'[conn'[c].turn].by = c
                    /\ turns'[conn'[c].turn].jobs = conn'[c].batch
  BY DEF RunsItsBatch, Asked
<1>1. CASE TurnStarted(c) BY <1>0, <1>1, StartedTurn
<1>2. CASE /\ conn[c].pc = "running"
           /\ conn'[c].turn = conn[c].turn /\ conn'[c].batch = conn[c].batch
  BY <1>0, <1>2, TurnsKept DEF RunsItsBatch, Asked
<1>3. QED BY <1>0, <1>1, <1>2, RunningMoves

\* A line that names a turn, old or new, names one its connector asked for.
LEMMA LineTurn ==
  ASSUME ProtocolInv, [Next]_vars, NEW c \in Connectors, NEW f, NewLine(c, f)
  PROVE  /\ f.turn \in Turns /\ turns'[f.turn].status # "unused"
         /\ turns'[f.turn].by = c /\ turns'[f.turn].jobs = f.batch
<1>0. TypeOK /\ RunsItsBatch BY DEF ProtocolInv
<1>1. CASE TurnStarted(c) /\ f.batch = conn[c].batch /\ f.turn = conn'[c].turn
  BY <1>0, <1>1, StartedTurn
<1>2. CASE ReportTurn(c) /\ f.batch = conn[c].batch /\ f.turn = conn[c].turn
  BY <1>0, <1>2, TurnsKept DEF RunsItsBatch, Asked, ReportTurn
<1>3. QED BY <1>1, <1>2 DEF NewLine

\* A line names a turn.
LEMMA LineTurnKnown ==
  ASSUME TypeOK, NEW c \in Connectors, NEW f \in Lines(toRelay[c]), NamesTurn(f)
  PROVE  f.turn \in Turns
<1>1. toRelay[c] \in Seq(FromConnector) BY DEF TypeOK
<1>2. f \in FromConnector BY <1>1 DEF Lines
<1>3. QED BY <1>2, FrameFields DEF NamesTurn

\* Lines keep naming turns of their connector and their jobs.
LEMMA NamesItsTurnsStep == ASSUME ProtocolInv, [Next]_vars PROVE NamesItsTurns'
<1>0. TypeOK /\ Pairs /\ RunningKnown /\ NamesItsTurns BY InvRunning DEF ProtocolInv
<1> SUFFICES ASSUME NEW c \in Connectors, NEW f \in Lines(toRelay'[c]), NamesTurn(f)
             PROVE  /\ turns'[f.turn].status # "unused"
                    /\ turns'[f.turn].by = c /\ turns'[f.turn].jobs = f.batch
  BY DEF NamesItsTurns, Asked, Lines, NamesTurn
<1>1. CASE f \in Lines(toRelay[c])
  <2>1. f.turn \in Turns BY <1>0, <1>1, LineTurnKnown
  <2>2. QED BY <1>0, <1>1, <2>1, TurnsKept DEF NamesItsTurns, Asked
<1>2. CASE NewLine(c, f) BY <1>2, LineTurn
<1>3. QED BY <1>0, <1>1, <1>2, LinesStep

\* A turn that is not used has not changed.
LEMMA UnusedStays ==
  ASSUME TypeOK, [Next]_vars, NEW t \in Turns, turns'[t].status = "unused"
  PROVE  turns'[t] = turns[t]
<1>1. turns \in [Turns -> TurnStates] BY DEF TypeOK
<1>2. ASSUME NEW u \in Turns, NEW S, NEW c, StartTurn(u, S, c) PROVE turns'[t] = turns[t]
  <2>1. turns'[u].status = "running" BY <1>1, <1>2 DEF StartTurn
  <2>2. t # u BY <2>1
  <2>3. QED BY <1>1, <1>2, <2>2 DEF StartTurn
<1>3. ASSUME NEW u \in Turns, FinishTurn(u) PROVE turns'[t] = turns[t]
  BY <1>1, <1>3 DEF FinishTurn, TurnStates
<1>4. ASSUME NEW c \in Connectors, ConnStep(c) PROVE turns'[t] = turns[t]
  <2>1. UNCHANGED turns \/ \E u \in Turns : StartTurn(u, conn[c].batch, c)
    BY <1>4 DEF ConnStep, TimerHeartbeat, Reconcile, NoticeTurnStarted, NoticeTurnCompleted,
       ReportTurn, ReceiveLine, ReceiveBatch, DeferBatch, ReceiveRecorded, AnswerTurnStart,
       TurnStarted, TurnRefused, TurnStartFails
  <2>2. QED BY <1>2, <2>1
<1>5. CASE LocalTurn BY <1>2, <1>5 DEF LocalTurn
<1>6. QED BY <1>3, <1>4, <1>5, OnlyConnectorsStart

\* A turn has no jobs before it starts.
LEMMA UnusedEmptyStep == ASSUME ProtocolInv, [Next]_vars PROVE UnusedEmpty'
BY UnusedStays DEF ProtocolInv, UnusedEmpty

\* No row names a turn before it starts.
LEMMA UnusedUnnamed ==
  ASSUME ProtocolInv, NEW t \in Turns, turns[t].status = "unused"
  PROVE  \A j \in Jobs : job[j].turn # t
BY DEF ProtocolInv, UnusedEmpty, TurnOwnsItsBatch

\* The line an acceptance or a result is handled from.
LEMMA HandledLine ==
  ASSUME ProtocolInv, NEW c \in Connectors, HandleAccepted(c) \/ HandleResult(c)
  PROVE  /\ relay[c].pc = "open" /\ toRelay[c] # <<>>
         /\ Head(toRelay[c]) \in Lines(toRelay[c]) /\ NamesTurn(Head(toRelay[c]))
         /\ HandleAccepted(c) => Head(toRelay[c]).type = "job_accepted"
         /\ Head(toRelay[c]).turn \in Turns
         /\ Asked(Head(toRelay[c]).turn, c, relay[c].batch)
         /\ InTurn(toRelay[c])
         /\ Up(conn[c]) => Held(relay[c], conn[c], toRelay[c], toConn[c])
<1>1. TypeOK /\ PairAt(c) /\ NamesItsTurns /\ toRelay[c] \in Seq(FromConnector)
  BY DEF ProtocolInv, Pairs, TypeOK
<1>2. /\ relay[c].pc = "open" /\ toRelay[c] # <<>>
      /\ Head(toRelay[c]).type \in {"job_accepted", "job_result"}
      /\ HandleAccepted(c) => Head(toRelay[c]).type = "job_accepted"
  BY DEF HandleAccepted, HandleResult, Line
<1>4. Head(toRelay[c]) \in Lines(toRelay[c]) BY <1>1, <1>2, LinesHead
<1>5. NamesTurn(Head(toRelay[c])) /\ About(Head(toRelay[c])) BY <1>2 DEF NamesTurn, About
<1>6. /\ Head(toRelay[c]).batch = relay[c].batch /\ InTurn(toRelay[c])
      /\ Up(conn[c]) => Held(relay[c], conn[c], toRelay[c], toConn[c])
  BY <1>1, <1>2, <1>5, PairHead DEF PairAt, Working
<1>7. Asked(Head(toRelay[c]).turn, c, Head(toRelay[c]).batch) BY <1>1, <1>4, <1>5 DEF NamesItsTurns
<1>8. Head(toRelay[c]).turn \in Turns BY <1>1, <1>4, <1>5, LineTurnKnown
<1>9. QED BY <1>2, <1>4, <1>5, <1>6, <1>7, <1>8

\* Only an acceptance writes a turn to a row.
LEMMA TurnsOfRows ==
  ASSUME ProtocolInv, [Next]_vars
  PROVE  (\A j \in Jobs : job'[j].turn = job[j].turn) \/ \E c \in Connectors : Accepts(c)
<1>1. TypeOK /\ Table!RowsOK BY DEF ProtocolInv
<1>2. Calm => \A j \in Jobs : job'[j].turn = job[j].turn
  BY StoreAssumption DEF Calm, Table!CalmRow
<1>3. ASSUME NEW c \in Connectors, Claims(c) PROVE \A j \in Jobs : job'[j].turn = job[j].turn
  BY <1>3, StoreAssumption DEF Claims, Table!CalmRow
<1>4. ASSUME NEW c \in Connectors, Completes(c) PROVE \A j \in Jobs : job'[j].turn = job[j].turn
  BY <1>4 DEF Completes
<1>5. QED BY <1>1, <1>2, <1>3, <1>4, StepRows

\* An acceptance is handled once: the row it writes is the first to name its turn.
LEMMA NotRecordedYetStep == ASSUME ProtocolInv, [Next]_vars PROVE NotRecordedYet'
<1>0. /\ TypeOK /\ Pairs /\ RunningKnown /\ NamesItsTurns /\ NotRecordedYet
      /\ toRelay \in [Connectors -> Seq(FromConnector)]
  BY InvRunning DEF ProtocolInv, TypeOK
<1> SUFFICES ASSUME NEW c \in Connectors, NEW f \in Lines(toRelay'[c]), f.type = "job_accepted",
                    NEW j \in Jobs, job'[j].turn = f.turn
             PROVE  FALSE
  BY DEF NotRecordedYet, Lines
<1>1. NamesTurn(f) BY DEF NamesTurn
<1>2. CASE f \in Lines(toRelay[c])
  <2>1. job[j].turn # f.turn /\ Asked(f.turn, c, f.batch)
    BY <1>0, <1>1, <1>2 DEF NotRecordedYet, NamesItsTurns
  <2>2. PICK d \in Connectors : Accepts(d) BY <2>1, TurnsOfRows
  <2>3. HandleAccepted(d) /\ f.turn = Head(toRelay[d]).turn BY <2>1, <2>2 DEF Accepts
  <2>4. c = d BY <2>1, <2>3, HandledLine DEF Asked
  <2>5. toRelay'[c] = Tail(toRelay[c]) BY <1>0, <2>3, <2>4 DEF HandleAccepted, Consume
  <2>6. QED BY <1>0, <2>3, <2>4, <2>5, HandledLine, LinesOf
<1>3. CASE NewLine(c, f)
  <2>1. TurnStarted(c) /\ f.turn = conn'[c].turn BY <1>3 DEF NewLine
  <2>2. f.turn \in Turns /\ turns[f.turn].status = "unused"
    BY <1>0, <2>1, StartedTurn
  <2>3. job[j].turn # f.turn BY <2>2, UnusedUnnamed
  <2>4. PICK d \in Connectors : Accepts(d) BY <2>3, TurnsOfRows
  <2>5. HandleAccepted(d) /\ f.turn = Head(toRelay[d]).turn BY <2>3, <2>4 DEF Accepts
  <2>6. QED BY <2>2, <2>5, HandledLine DEF Asked
<1>4. QED BY <1>0, <1>1, <1>2, <1>3, LinesStep

\* A relay that may accept after a step could before, or its connector lives.
LEMMA MayAcceptMoves ==
  ASSUME TypeOK, Pairs, RunningKnown, [Next]_vars, NEW d \in Connectors, MayAccept(d)'
  PROVE  \/ relay'[d].batch = {} \/ Alive(d)'
         \/ MayAccept(d) /\ relay'[d].batch \subseteq relay[d].batch
<1>0. PairAt(d) /\ conn \in [Connectors -> ConnStates] /\ toRelay[d] \in Seq(FromConnector)
  BY DEF Pairs, TypeOK
<1>1. relay'[d].pc = "open" BY DEF MayAccept
<1>2. PICK f \in Lines(toRelay'[d]) : f.type = "job_accepted" BY DEF MayAccept, Lines
<1>3. CASE TurnStarted(d)
  <2>1. conn'[d].pc = "running" BY <1>0, <1>3 DEF TurnStarted, ConnStates
  <2>2. QED BY <2>1 DEF Alive
<1>4. CASE f \in Lines(toRelay[d])
  <2>1. relay[d].pc = "open" => MayAccept(d) BY <1>2, <1>4 DEF MayAccept
  <2>2. CASE RelayStep(d) \/ Kill(d)
    <3>1. /\ Claim(d) \/ relay'[d].batch \subseteq relay[d].batch
          /\ relay'[d].batch = {} \/ relay[d].pc \in {"open", "preparing"}
      BY <1>0, <1>1, <2>2, RelayMoves
    <3>2. Claim(d) => relay[d].pc = "claiming" BY DEF Claim
    <3>3. ASSUME relay[d].pc = "preparing" PROVE FALSE
      <4>1. Working(relay[d]) /\ ~Sent(relay[d]) BY <3>3 DEF Working, Sent
      <4>2. Silent(toRelay[d]) BY <1>0, <4>1 DEF PairAt, Pair, Link, Free, Offered, Held
      <4>3. QED BY <1>0, <1>2, <1>4, <4>2, LinesOf DEF About
    <3>4. QED BY <2>1, <3>1, <3>2, <3>3
  <2>3. CASE ConnStep(d) BY <1>0, <1>1, <2>1, <2>3, ConnMoves
  <2>4. CASE Connect(d) BY <1>0, <2>4, ConnectMoves
  <2>5. CASE Stop(d) BY <1>1, <2>1, <2>5 DEF Stop
  <2>6. CASE Untouched(d) BY <1>1, <2>1, <2>6 DEF Untouched
  <2>7. ASSUME NEW e \in Connectors \ {d}, StepOf(e) PROVE Untouched(d)
    BY <2>7, StepPairs DEF Pairs, Linked, Others
  <2>8. UNCHANGED Processes => Untouched(d) BY DEF Processes, Untouched
  <2>9. QED BY <2>2, <2>3, <2>4, <2>5, <2>6, <2>7, <2>8, OutsideStep DEF StepOf
<1>5. QED BY <1>2, <1>3, <1>4, LinesStep DEF NewLine, NamesTurn

\* A lease is handed out by a claim only.
LEMMA LeasesOfRows ==
  ASSUME ProtocolInv, [Next]_vars, NEW j \in Jobs, NEW d \in Connectors,
         job'[j].status = "leased", job'[j].owner = d
  PROVE  \/ job[j].status = "leased" /\ job[j].owner = d
         \/ Claim(d) /\ j \in relay'[d].batch
<1>1. TypeOK /\ Table!RowsOK BY DEF ProtocolInv
<1>2. CASE Calm BY <1>2, StoreAssumption DEF Calm, Table!CalmRow
<1>3. ASSUME NEW c \in Connectors, Claims(c)
      PROVE  \/ job[j].status = "leased" /\ job[j].owner = d
             \/ Claim(d) /\ j \in relay'[d].batch
  BY <1>3, StoreAssumption DEF Claims, Table!CalmRow
<1>4. ASSUME NEW c \in Connectors, Accepts(c) \/ Completes(c)
      PROVE  job[j].status = "leased" /\ job[j].owner = d
  BY <1>4 DEF Accepts, Completes
<1>5. QED BY <1>1, <1>2, <1>3, <1>4, StepRows

\* A job leased to a relay that may accept it is with no other connector.
LEMMA NotStolenStep == ASSUME ProtocolInv, [Next]_vars PROVE NotStolen'
<1>0. /\ TypeOK /\ Pairs /\ RunningKnown /\ NotStolen /\ Table!RowsOK
      /\ \A d \in Connectors : relay[d].batch \subseteq Jobs
  BY InvRunning DEF ProtocolInv, TypeOK, RelayStates
<1> SUFFICES ASSUME NEW c \in Connectors, NEW d \in Connectors, c # d, Alive(c)', MayAccept(d)',
                    NEW j \in relay'[d].batch, job'[j].status = "leased", job'[j].owner = d,
                    Has(c, j)'
             PROVE  FALSE
  BY DEF NotStolen
<1>1. ~Alive(d)' BY OneAliveStep DEF OneAlive
<1>2. MayAccept(d) /\ relay'[d].batch \subseteq relay[d].batch BY <1>0, <1>1, MayAcceptMoves
<1>3. ~Claim(d) /\ j \in Jobs /\ j \in relay[d].batch BY <1>0, <1>2 DEF MayAccept, Claim
<1>4. job[j].status = "leased" /\ job[j].owner = d BY <1>3, LeasesOfRows
<1>5. Alive(c) /\ (Has(c, j) \/ (Claim(c) /\ j \in relay'[c].batch)) BY <1>0, JobsMove
<1>6. ~Has(c, j) BY <1>0, <1>2, <1>3, <1>4, <1>5 DEF NotStolen
<1>7. Claim(c) /\ j \in relay'[c].batch => job'[j].owner = c BY <1>0, ClaimEffect DEF Claims
<1>8. QED BY <1>5, <1>6, <1>7

\* A job a turn may be started with has no recorded turn.
LEMMA UnrecordedStep == ASSUME ProtocolInv, [Next]_vars PROVE Unrecorded'
<1>0. TypeOK /\ Pairs /\ RunningKnown /\ NotStolen /\ Unrecorded /\ Table!RowsOK
  BY InvRunning DEF ProtocolInv
<1> SUFFICES ASSUME NEW c \in Connectors, NEW j \in Jobs, Alive(c)', Unread(c, j)'
             PROVE  job'[j].turn = None
  BY DEF Unrecorded
<1>1. Has(c, j)' BY DEF Has, Unread
<1>2. Alive(c) /\ (Unread(c, j) \/ (Claim(c) /\ j \in relay'[c].batch)) BY <1>0, <1>1, JobsMove
<1>3. CASE Claim(c) /\ j \in relay'[c].batch BY <1>0, <1>3, ClaimEffect DEF Claims
<1>4. CASE Unread(c, j)
  <2>1. job[j].turn = None /\ Has(c, j) BY <1>0, <1>2, <1>4 DEF Unrecorded, Unread, Has
  <2>2. ASSUME NEW d \in Connectors, Accepts(d), j \in relay[d].batch PROVE FALSE
    <3>1. /\ HandleAccepted(d) /\ job[j].status = "leased" /\ job[j].owner = d
      BY <2>2 DEF Accepts
    <3>2. MayAccept(d) BY <3>1, HandledLine DEF MayAccept
    <3>3. d = c BY <1>0, <1>2, <2>1, <2>2, <3>1, <3>2 DEF NotStolen
    <3>4. Held(relay[c], conn[c], toRelay[c], toConn[c]) /\ relay[c].pc = "open"
      BY <1>2, <3>1, <3>3, HandledLine DEF Alive, Up
    <3>5. toConn[c] = <<>> /\ (conn[c].pc = "starting" => Silent(toRelay[c])) BY <3>4 DEF Held
    <3>6. ~Silent(toRelay[c])
      <4>1. toRelay[c] # <<>> /\ NamesTurn(Head(toRelay[c])) BY <3>1, <3>3, HandledLine
      <4>2. toRelay[c] \in Seq(FromConnector) BY <1>0 DEF TypeOK
      <4>3. QED BY <4>1, <4>2, HeadAbout DEF NamesTurn, About
    <3>7. ~OnItsWay(c, j) BY <3>5 DEF OnItsWay, Lines
    <3>8. QED BY <1>4, <3>4, <3>5, <3>6, <3>7 DEF Unread
  <2>3. QED BY <2>1, <2>2, TurnsOfRows DEF Accepts
<1>5. QED BY <1>2, <1>3, <1>4

\* An acceptance names all jobs of its turn at once, and nothing renames them.
LEMMA TurnOwnsItsBatchStep == ASSUME ProtocolInv, [Next]_vars PROVE TurnOwnsItsBatch'
<1>0. TypeOK /\ TurnOwnsItsBatch /\ NotRecordedYet BY DEF ProtocolInv
<1> SUFFICES ASSUME NEW t \in Turns, NEW k \in Jobs, job'[k].turn = t
             PROVE  {j \in Jobs : job'[j].turn = t} = turns'[t].jobs
  BY DEF TurnOwnsItsBatch
<1>1. ASSUME NEW j \in Jobs, job[j].turn = t
      PROVE  {i \in Jobs : job[i].turn = t} = turns'[t].jobs
  <2>1. {i \in Jobs : job[i].turn = t} = turns[t].jobs BY <1>0, <1>1 DEF TurnOwnsItsBatch
  <2>2. turns[t].status # "unused" BY <1>1, UnusedUnnamed
  <2>3. QED BY <1>0, <2>1, <2>2, TurnsKept
<1>2. CASE \A j \in Jobs : job'[j].turn = job[j].turn BY <1>1, <1>2
<1>3. ASSUME NEW c \in Connectors, Accepts(c)
      PROVE  {j \in Jobs : job'[j].turn = t} = turns'[t].jobs
  <2> DEFINE f == Head(toRelay[c])
  <2>1. /\ HandleAccepted(c) /\ \A j \in relay[c].batch : job[j].turn = None /\ job'[j].turn = f.turn
        /\ \A j \in Jobs \ relay[c].batch : job'[j] = job[j]
    BY <1>3 DEF Accepts
  <2>2. /\ f \in Lines(toRelay[c]) /\ f.type = "job_accepted" /\ f.turn \in Turns
        /\ Asked(f.turn, c, relay[c].batch)
    BY <2>1, HandledLine
  <2>3. \A j \in Jobs : job[j].turn # f.turn BY <1>0, <2>2 DEF NotRecordedYet
  <2>4. relay[c].batch \subseteq Jobs BY <1>0 DEF TypeOK, RelayStates
  <2> HIDE DEF f
  <2>5. CASE t = f.turn
    <3>1. turns'[t].jobs = relay[c].batch BY <1>0, <2>2, <2>5, TurnsKept DEF Asked
    <3>2. \A j \in Jobs : job'[j].turn = t <=> j \in relay[c].batch BY <2>1, <2>3, <2>5
    <3>3. QED BY <2>4, <3>1, <3>2
  <2>6. CASE t # f.turn
    <3>1. t # None BY StoreAssumption
    <3>2. \A j \in Jobs : job'[j].turn = t <=> job[j].turn = t BY <2>1, <2>6, <3>1
    <3>3. {j \in Jobs : job'[j].turn = t} = {j \in Jobs : job[j].turn = t} BY <3>2
    <3>4. QED BY <1>1, <3>2, <3>3
  <2>7. QED BY <2>5, <2>6
<1>4. QED BY <1>2, <1>3, TurnsOfRows

\* A result completes all jobs of its turn at once.
LEMMA AnsweredWholeStep == ASSUME ProtocolInv, [Next]_vars PROVE AnsweredWhole'
<1>0. /\ TypeOK /\ Table!RowsOK /\ AnsweredWhole /\ NotRecordedYet /\ TurnOwnsItsBatch
      /\ \A c \in Connectors : relay[c].batch \subseteq Jobs
  BY DEF ProtocolInv, TypeOK, RelayStates
<1> SUFFICES ASSUME NEW j \in Jobs, NEW k \in Jobs, job'[j].turn # None,
                    job'[j].turn = job'[k].turn, job'[j].status = "completed"
             PROVE  job'[k].status = "completed"
  BY DEF AnsweredWhole
<1>1. CASE Calm BY <1>0, <1>1, StoreAssumption DEF Calm, Table!CalmRow, AnsweredWhole
<1>2. ASSUME NEW c \in Connectors, Claims(c) PROVE job'[k].status = "completed"
  <2>1. j \notin relay'[c].batch /\ k \notin relay'[c].batch BY <1>2 DEF Claims
  <2>2. Table!CalmRow(job[j], job'[j]) /\ Table!CalmRow(job[k], job'[k]) BY <1>2, <2>1 DEF Claims
  <2>3. QED BY <1>0, <2>2, StoreAssumption DEF Table!CalmRow, AnsweredWhole
<1>3. ASSUME NEW c \in Connectors, Accepts(c) PROVE job'[k].status = "completed"
  <2> DEFINE f == Head(toRelay[c])
  <2>1. f \in Lines(toRelay[c]) /\ f.type = "job_accepted" BY <1>3, HandledLine DEF Accepts
  <2>2. \A i \in Jobs : job[i].turn # f.turn BY <1>0, <2>1 DEF NotRecordedYet
  <2>3. job'[j] = job[j] BY <1>3 DEF Accepts
  <2>4. job'[k] = job[k] BY <1>3, <2>2, <2>3 DEF Accepts
  <2>5. QED BY <1>0, <2>3, <2>4 DEF AnsweredWhole
<1>4. ASSUME NEW c \in Connectors, Completes(c) PROVE job'[k].status = "completed"
  <2> DEFINE f == Head(toRelay[c])
  <2>1. f.turn \in Turns /\ Asked(f.turn, c, relay[c].batch) BY <1>4, HandledLine DEF Completes
  <2>2. job'[j].turn = job[j].turn /\ job'[k].turn = job[k].turn BY <1>4 DEF Completes
  <2>3. CASE j \in relay[c].batch
    <3>1. job[j].turn = f.turn /\ job[k].turn = f.turn BY <1>4, <2>2, <2>3 DEF Completes
    <3>2. {i \in Jobs : job[i].turn = f.turn} = relay[c].batch
      BY <1>0, <2>1, <3>1 DEF TurnOwnsItsBatch, Asked
    <3>3. k \in relay[c].batch BY <3>1, <3>2
    <3>4. QED BY <1>4, <3>3 DEF Completes
  <2>4. CASE j \notin relay[c].batch
    <3>1. job'[j] = job[j] BY <1>4, <2>4 DEF Completes
    <3>2. job[k].status = "completed" BY <1>0, <2>2, <3>1 DEF AnsweredWhole
    <3>3. QED BY <1>4, <3>2 DEF Completes
  <2>5. QED BY <2>3, <2>4
<1>5. QED BY <1>0, <1>1, <1>2, <1>3, <1>4, StepRows

\* The columns of the rows agree, by the lemmas of Table.
LEMMA RowsOKStep == ASSUME ProtocolInv, [Next]_vars PROVE Table!RowsOK'
<1>0. TypeOK /\ Table!RowsOK BY DEF ProtocolInv
<1>1. Table!TypeOK /\ [Table!Next]_(Table!vars)
  BY <1>0, StoreStep, SameTypes, SameVars DEF TypeOK
<1>2. \A j \in Jobs : Table!RowStep(job[j], job'[j])
  BY <1>1, Table!StepsMoveRows, StoreAssumption
<1>3. \A j \in Jobs : job[j] \in Table!JobRows /\ Table!RowOK(job[j])
  BY <1>0, <1>1, StoreAssumption DEF Table!TypeOK, Table!RowsOK
<1>4. \A j \in Jobs : Table!RowOK(job'[j])
  BY <1>2, <1>3, Table!RowStepKeepsOK, StoreAssumption
<1>5. QED BY <1>4, StoreAssumption DEF Table!RowsOK

-----------------------------------------------------------------------------
(***************************************************************************)
(* The invariant holds.                                                    *)
(***************************************************************************)
\* The types hold at the start.
LEMMA InitTypes == Init => TypeOK
<1> SUFFICES ASSUME Init PROVE TypeOK
  OBVIOUS
<1>1. Store!TypeOK
  <2>1. Table!TypeOK BY SameInit, Table!InitType, StoreAssumption DEF Init
  <2>2. QED BY <2>1, SameTypes
<1>2. NewRelay \in RelayStates BY DEF NewRelay, RelayStates, RelayPcs
<1>3. NewConn \in ConnStates BY DEF NewConn, ConnStates, ConnPcs
<1>4. [status |-> "unused", jobs |-> {}, by |-> None] \in TurnStates BY DEF TurnStates
<1>5. <<>> \in Seq(FromConnector) /\ <<>> \in Seq(FromRelay) OBVIOUS
<1>6. QED BY <1>1, <1>2, <1>3, <1>4, <1>5 DEF Init, TypeOK

\* The invariant holds at the start.
LEMMA InitInv == Init => ProtocolInv
<1> SUFFICES ASSUME Init PROVE ProtocolInv
  OBVIOUS
<1>1. TypeOK BY InitTypes
<1>2. \A j \in Jobs : job[j].status = "absent" /\ job[j].turn = None
  BY DEF Init, Store!Init, Store!AbsentRow
<1>3. Table!RowsOK
  <2>1. Table!Init BY SameInit DEF Init
  <2>2. Table!StoreInv BY <2>1, Table!InitStoreInv, StoreAssumption
  <2>3. QED BY <2>2, StoreAssumption DEF Table!StoreInv
<1>4. \A c \in Connectors : /\ relay[c] = NewRelay /\ conn[c] = NewConn
                            /\ toRelay[c] = <<>> /\ toConn[c] = <<>>
  BY DEF Init
<1>5. \A c \in Connectors : ~Alive(c) /\ Lines(toRelay[c]) = {} /\ conn[c].pc = "new"
  BY <1>4 DEF Alive, NewConn, Lines
<1>6. Pairs
  BY <1>4 DEF Pairs, PairAt, Pair, Phase, Link, Working, NewRelay, NewConn, Up
<1>7. OneAlive /\ RunsItsBatch /\ NamesItsTurns /\ NotRecordedYet /\ NotStolen /\ Unrecorded
  BY <1>5 DEF OneAlive, RunsItsBatch, NamesItsTurns, NotRecordedYet, NotStolen, Unrecorded
<1>8. UnusedEmpty BY DEF Init, UnusedEmpty
<1>9. TurnOwnsItsBatch /\ AnsweredWhole
  BY <1>2, StoreAssumption DEF TurnOwnsItsBatch, AnsweredWhole
<1>10. QED BY <1>1, <1>3, <1>6, <1>7, <1>8, <1>9 DEF ProtocolInv

\* Every step keeps the invariant.
LEMMA InvStep == ProtocolInv /\ [Next]_vars => ProtocolInv'
<1> SUFFICES ASSUME ProtocolInv, [Next]_vars PROVE ProtocolInv'
  OBVIOUS
<1>1. TypeOK /\ Pairs /\ RunningKnown BY InvRunning DEF ProtocolInv
<1>2. TypeOK' /\ Pairs' BY <1>1, TypesStep, PairsStep
<1>3. QED BY <1>2, RowsOKStep, OneAliveStep, RunsItsBatchStep, NamesItsTurnsStep,
            NotRecordedYetStep, UnusedEmptyStep, NotStolenStep, UnrecordedStep,
            TurnOwnsItsBatchStep, AnsweredWholeStep DEF ProtocolInv

\* Everything the theorems below follow from, in every reachable state.
THEOREM ProtocolInvariant == Spec => []ProtocolInv
BY InitInv, InvStep, PTL DEF Spec

-----------------------------------------------------------------------------
(***************************************************************************)
(* What the invariant gives.                                               *)
(***************************************************************************)
\* Every variable keeps its type: processes, pipes, turns and rows.
THEOREM ProtocolTypes == Spec => []TypeOK
<1>1. ProtocolInv => TypeOK BY DEF ProtocolInv
<1>2. QED BY <1>1, ProtocolInvariant, PTL

\* The relays and connectors only ever do to the tables what the store's
\* operations do, so whatever RelayStoreProofs proves of the store holds here.
THEOREM ProtocolImplementsStore == Spec => ImplementsStore
<1>1. Init => Store!Init BY DEF Init
<1>2. TypeOK /\ [Next]_vars => [Store!Next]_(Store!vars) BY StoreStep
<1>3. QED BY <1>1, <1>2, ProtocolTypes, PTL DEF Spec, ImplementsStore, Store!Spec

\* The rows that name a turn are the jobs the turn was started with: a batch is
\* accepted as a whole, by the turn that read it (acceptRelayJobBatch).
THEOREM BatchIsOneTurn == Spec => []TurnOwnsItsBatch
<1>1. ProtocolInv => TurnOwnsItsBatch BY DEF ProtocolInv
<1>2. QED BY <1>1, ProtocolInvariant, PTL

\* An answer completes every job its turn read (finalizeRelayJobBatch).
THEOREM AnswersAreWhole == Spec => []AnsweredWhole
<1>1. ProtocolInv => AnsweredWhole BY DEF ProtocolInv
<1>2. QED BY <1>1, ProtocolInvariant, PTL

\* #requireInflight never throws: a line about a batch that reaches an open
\* relay is about the batch in flight.
THEOREM LinesMatch == Spec => []LinesMatchInflight
<1>1. ASSUME ProtocolInv PROVE LinesMatchInflight
  <2> SUFFICES ASSUME NEW c \in Connectors, relay[c].pc = "open", toRelay[c] # <<>>,
                      "batch" \in DOMAIN Head(toRelay[c])
               PROVE  Matches(c)
    BY DEF LinesMatchInflight
  <2>1. TypeOK /\ PairAt(c) /\ toRelay[c] \in Seq(FromConnector)
    BY <1>1 DEF ProtocolInv, Pairs, TypeOK
  <2>2. Head(toRelay[c]) \in FromConnector BY <2>1, UpHead
  <2>3. About(Head(toRelay[c])) BY <2>2 DEF FromConnector, About
  <2>4. Head(toRelay[c]).batch = relay[c].batch
    BY <2>1, <2>3, PairHead DEF PairAt, Working
  <2>5. QED BY <2>4 DEF Matches, SameBatch
<1>2. QED BY <1>1, ProtocolInvariant, PTL

\* Once a turn is recorded for a job, no further turn is started with that job,
\* whatever died, lapsed or was claimed in between.
THEOREM NoTurnAfterAcceptance == Spec => NoStartAfterAccept
<1>1. ASSUME ProtocolInv, [Next]_vars, NEW t \in Turns, turns[t].status = "unused",
             NEW j \in turns'[t].jobs
      PROVE  job[j].turn = None
  <2>0. TypeOK /\ Unrecorded /\ UnusedEmpty /\ turns[t].jobs = {}
        /\ conn \in [Connectors -> ConnStates] /\ turns \in [Turns -> TurnStates]
    BY <1>1 DEF ProtocolInv, UnusedEmpty, TypeOK
  <2>1. ASSUME NEW u \in Turns, NEW S, NEW c, StartTurn(u, S, c) PROVE j \in S
    BY <1>1, <2>0, <2>1 DEF StartTurn
  <2>2. ASSUME NEW c \in Connectors, TurnStarted(c) \/ TurnStartFails(c)
        PROVE  job[j].turn = None
    <3>1. j \in conn[c].batch
      BY <1>1, <2>0, <2>1, <2>2 DEF TurnStarted, TurnStartFails
    <3>2. conn[c].pc = "starting" BY <2>2 DEF TurnStarted, TurnStartFails
    <3>3. j \in Jobs BY <2>0, <3>1 DEF ConnStates
    <3>4. QED BY <2>0, <3>1, <3>2, <3>3 DEF Unrecorded, Alive, Unread
  <2>3. UNCHANGED turns => FALSE BY <1>1, <2>0
  <2>4. LocalTurn => FALSE BY <2>1 DEF LocalTurn
  <2>5. ASSUME NEW u \in Turns, FinishTurn(u) PROVE FALSE
    BY <1>1, <2>0, <2>5 DEF FinishTurn, TurnStates
  <2>6. ASSUME NEW c \in Connectors, ConnStep(c)
        PROVE  TurnStarted(c) \/ TurnStartFails(c) \/ UNCHANGED turns
    BY <2>6 DEF ConnStep, TimerHeartbeat, Reconcile, NoticeTurnStarted, NoticeTurnCompleted,
       ReportTurn, ReceiveLine, ReceiveBatch, DeferBatch, ReceiveRecorded, AnswerTurnStart,
       TurnRefused
  <2>7. QED BY <1>1, <2>2, <2>3, <2>4, <2>5, <2>6, OnlyConnectorsStart
<1>2. ProtocolInv /\ [Next]_vars =>
        [\A t \in Turns : turns[t].status = "unused" =>
           \A j \in turns'[t].jobs : job[j].turn = None]_vars
  BY <1>1
<1>3. QED BY <1>2, ProtocolInvariant, PTL DEF Spec, NoStartAfterAccept
=============================================================================
