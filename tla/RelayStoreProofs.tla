-------------------------- MODULE RelayStoreProofs --------------------------
(***************************************************************************)
(* Proofs about the tables of RelayStore, for every set of jobs, connectors *)
(* and turns and all lease lengths.                                        *)
(***************************************************************************)
EXTENDS RelayStoreProps, TLAPS

-----------------------------------------------------------------------------
(***************************************************************************)
(* What the row operators do to a well-typed row.                          *)
(***************************************************************************)
LEMMA Bounds ==
  /\ 0 \in 0..JobLease /\ 0 \in 0..SessionLease /\ 0 \in 0..JobTtl /\ 0 \in 0..MaxWaitMs
  /\ JobLease \in 0..JobLease /\ SessionLease \in 0..SessionLease
  BY RelayStoreAssumption

\* A settled row.
LEMMA SettleType ==
  ASSUME NEW row \in JobRows, NEW s \in Statuses
  PROVE  /\ Settle(row, s) \in JobRows
         /\ Settle(row, s).status = s
         /\ Settle(row, s).owner = None
         /\ Settle(row, s).turn = row.turn
         /\ Settle(row, s).result = row.result
  BY Bounds DEF Settle, JobRows

\* A released row.
LEMMA UnleaseType ==
  ASSUME NEW row \in JobRows
  PROVE  /\ Unlease(row) \in JobRows
         /\ Unlease(row).status \in {"pending", "expired"}
         /\ Unlease(row).owner = None
         /\ Unlease(row).turn = row.turn
         /\ Unlease(row).result = row.result
<1>1. CASE row.ttl = 0
  <2>1. "expired" \in Statuses
    BY DEF Statuses
  <2>2. Unlease(row) = Settle(row, "expired")
    BY <1>1 DEF Unlease
  <2>3. QED BY <2>1, <2>2, SettleType
<1>2. CASE row.ttl # 0
  <2>1. "pending" \in Statuses
    BY DEF Statuses
  <2>2. Unlease(row) = [row EXCEPT !.status = "pending", !.owner = None, !.lease = 0]
    BY <1>2 DEF Unlease
  <2>3. QED BY <2>1, <2>2, Bounds DEF JobRows
<1>3. QED BY <1>1, <1>2

\* A claimed row.
LEMMA ClaimedType ==
  ASSUME NEW row \in JobRows, NEW c \in Connectors
  PROVE  /\ ClaimedRow(row, c) \in JobRows
         /\ ClaimedRow(row, c).status = "leased"
         /\ ClaimedRow(row, c).owner = c
         /\ ClaimedRow(row, c).turn = row.turn
         /\ ClaimedRow(row, c).result = row.result
  BY Bounds DEF ClaimedRow, JobRows, Statuses

\* A row as time passes.
LEMMA AgedType ==
  ASSUME NEW row \in JobRows
  PROVE  /\ Aged(row) \in JobRows
         /\ Aged(row).status = row.status
         /\ Aged(row).owner = row.owner
         /\ Aged(row).turn = row.turn
         /\ Aged(row).result = row.result
<1>1. \A n \in Nat : \A k \in 0..n : Less(k) \in 0..n
  BY DEF Less
<1>2. \A k \in 0..MaxWaitMs : Older(k) \in 0..MaxWaitMs
  BY RelayStoreAssumption DEF Older
<1>3. /\ Less(row.lease) \in 0..JobLease
      /\ Less(row.ttl) \in 0..JobTtl
      /\ Older(row.age) \in 0..MaxWaitMs
  BY <1>1, <1>2, RelayStoreAssumption DEF JobRows
<1>4. QED BY <1>3 DEF Aged, JobRows

\* An accepted row.
LEMMA AcceptedType ==
  ASSUME NEW row \in JobRows, NEW t \in Turns
  PROVE  /\ AcceptedRow(row, t) \in JobRows
         /\ AcceptedRow(row, t).status = "accepted"
         /\ AcceptedRow(row, t).owner = None
         /\ AcceptedRow(row, t).turn = t
         /\ AcceptedRow(row, t).result = row.result
<1>1. "accepted" \in Statuses
  BY DEF Statuses
<1>2. Settle(row, "accepted") \in JobRows
  BY <1>1, SettleType
<1>3. QED BY <1>1, <1>2, SettleType DEF AcceptedRow, JobRows

\* A completed row.
LEMMA CompletedType ==
  ASSUME NEW row \in JobRows, NEW result \in {"skip", "reply"}
  PROVE  /\ CompletedRow(row, result) \in JobRows
         /\ CompletedRow(row, result).status = "completed"
         /\ CompletedRow(row, result).owner = row.owner
         /\ CompletedRow(row, result).turn = row.turn
         /\ CompletedRow(row, result).result = result
  BY DEF CompletedRow, JobRows, Statuses

\* An UPDATE with well-typed rows leaves the table well-typed.
LEMMA UpdateType ==
  ASSUME job \in [Jobs -> JobRows],
         NEW rows, \A j \in DOMAIN rows : rows[j] \in JobRows
  PROVE  Update(rows) \in [Jobs -> JobRows]
  BY DEF Update

-----------------------------------------------------------------------------
(***************************************************************************)
(* Type correctness.                                                       *)
(***************************************************************************)
LEMMA InitType == Init => TypeOK
<1> SUFFICES ASSUME Init PROVE TypeOK
  OBVIOUS
<1>1. AbsentRow \in JobRows
  BY Bounds DEF AbsentRow, JobRows, Statuses
<1>2. OfflineRow \in SessionRows
  BY Bounds DEF OfflineRow, SessionRows
<1>3. QED BY <1>1, <1>2 DEF Init, TypeOK

\* Every operation on relay_jobs writes well-typed rows.
LEMMA JobsType == TypeOK /\ [Next]_vars => job' \in [Jobs -> JobRows]
<1> SUFFICES ASSUME TypeOK, [Next]_vars PROVE job' \in [Jobs -> JobRows]
  OBVIOUS
<1> USE DEF TypeOK
<1>1. ASSUME NEW j \in Jobs, NEW ttl \in 1..JobTtl, EnqueueRelayJob(j, ttl)
      PROVE  job' \in [Jobs -> JobRows]
  <2>1. ttl \in 0..JobTtl
    BY RelayStoreAssumption
  <2>2. PendingRow(ttl) \in JobRows
    BY <2>1, Bounds DEF PendingRow, JobRows, Statuses
  <2>3. QED BY <1>1, <2>2 DEF EnqueueRelayJob
<1>2. CASE ExpireRelayJobs
  <2>1. \A j \in Overdue : Settle(job[j], "expired") \in JobRows
    BY SettleType DEF Overdue, Statuses
  <2>2. QED BY <1>2, <2>1, UpdateType DEF ExpireRelayJobs
<1>3. ASSUME NEW c \in Connectors, NEW S \in SUBSET Jobs, ClaimRelayJobBatch(c, S)
      PROVE  job' \in [Jobs -> JobRows]
  <2>1. \A j \in S \cup Overdue \cup Lapsed :
          (IF j \in S THEN ClaimedRow(job[j], c) ELSE Unlease(job[j])) \in JobRows
    BY ClaimedType, UnleaseType DEF Overdue, Lapsed
  <2>2. QED BY <1>3, <2>1, UpdateType DEF ClaimRelayJobBatch
<1>4. ASSUME NEW c \in Connectors, RegisterRelaySession(c)
      PROVE  job' \in [Jobs -> JobRows]
  <2>1. \A j \in LeasedTo(Holder) : Unlease(job[j]) \in JobRows
    BY UnleaseType DEF LeasedTo
  <2>2. QED BY <1>4, <2>1, UpdateType DEF RegisterRelaySession
<1>5. ASSUME NEW c \in Connectors, NEW S \in Batches, ReleaseRelayJobBatch(c, S)
      PROVE  job' \in [Jobs -> JobRows]
  <2>1. \A j \in S : Unlease(job[j]) \in JobRows
    BY UnleaseType DEF Batches
  <2>2. QED BY <1>5, <2>1, UpdateType DEF ReleaseRelayJobBatch
<1>6. ASSUME NEW c \in Connectors, NEW S \in Batches, NEW t \in Turns,
             AcceptRelayJobBatch(c, S, t)
      PROVE  job' \in [Jobs -> JobRows]
  <2>1. \A j \in S : AcceptedRow(job[j], t) \in JobRows
    BY AcceptedType DEF Batches
  <2>2. QED BY <1>6, <2>1, UpdateType DEF AcceptRelayJobBatch
<1>7. ASSUME NEW c \in Connectors, NEW S \in Batches, NEW t,
             FailRelayJobBatch(c, S, t)
      PROVE  job' \in [Jobs -> JobRows]
  <2>1. \A j \in S : Settle(job[j], "failed") \in JobRows
    BY SettleType DEF Batches, Statuses
  <2>2. QED BY <1>7, <2>1, UpdateType DEF FailRelayJobBatch
<1>8. ASSUME NEW S \in Batches, NEW t \in Turns, NEW result \in {"skip", "reply"},
             NEW batch \in Ends(S), FinalizeRelayJobBatch(batch, S, t, result)
      PROVE  job' \in [Jobs -> JobRows]
  <2>1. \A j \in S : CompletedRow(job[j], result) \in JobRows
    BY CompletedType DEF Batches
  <2>2. QED BY <1>8, <2>1, UpdateType DEF FinalizeRelayJobBatch
<1>9. CASE Tick
  BY <1>9, AgedType DEF Tick
<1>10. CASE UNCHANGED job
  BY <1>10
<1>11. ASSUME NEW c \in Connectors,
              HeartbeatRelaySession(c) \/ DisconnectRelaySession(c) \/ GetRelaySession
       PROVE  UNCHANGED job
  BY <1>11 DEF HeartbeatRelaySession, DisconnectRelaySession, GetRelaySession
<1>12. QED
  BY <1>1, <1>2, <1>3, <1>4, <1>5, <1>6, <1>7, <1>8, <1>9, <1>10, <1>11
     DEF Next, vars, GetRelaySession

\* The session row keeps its type.
LEMMA SessionType == TypeOK /\ [Next]_vars => session' \in SessionRows
<1> SUFFICES ASSUME TypeOK, [Next]_vars PROVE session' \in SessionRows
  OBVIOUS
<1>1. OfflineRow \in SessionRows
  BY Bounds DEF OfflineRow, SessionRows
<1>2. ASSUME NEW c \in Connectors, RegisterRelaySession(c) \/ HeartbeatRelaySession(c)
      PROVE  session' \in SessionRows
  BY <1>2, Bounds DEF RegisterRelaySession, HeartbeatRelaySession, SessionRows, TypeOK
<1>3. ASSUME NEW c \in Connectors, DisconnectRelaySession(c)
      PROVE  session' \in SessionRows
  BY <1>1, <1>3 DEF DisconnectRelaySession
<1>4. CASE GetRelaySession
  BY <1>1, <1>4 DEF GetRelaySession
<1>5. CASE Tick
  <2>1. Less(session.lease) \in 0..SessionLease
    BY RelayStoreAssumption DEF Less, TypeOK, SessionRows
  <2>2. QED BY <1>5, <2>1 DEF Tick, TypeOK, SessionRows
<1>6. UNCHANGED session => session' \in SessionRows
  BY DEF TypeOK
<1>7. ASSUME NEW c \in Connectors, NEW S, NEW t,
             ClaimRelayJobBatch(c, S) \/ ReleaseRelayJobBatch(c, S)
             \/ AcceptRelayJobBatch(c, S, t) \/ FailRelayJobBatch(c, S, t)
      PROVE  UNCHANGED session
  BY <1>7 DEF ClaimRelayJobBatch, ReleaseRelayJobBatch, AcceptRelayJobBatch,
              FailRelayJobBatch
<1>8. ASSUME NEW j, NEW ttl, EnqueueRelayJob(j, ttl) \/ ExpireRelayJobs
      PROVE  UNCHANGED session
  BY <1>8 DEF EnqueueRelayJob, ExpireRelayJobs
<1>9. ASSUME NEW S, NEW t, NEW result, NEW batch,
             FinalizeRelayJobBatch(batch, S, t, result)
      PROVE  UNCHANGED session
  BY <1>9 DEF FinalizeRelayJobBatch
<1>10. CASE Next
  BY <1>10, <1>2, <1>3, <1>4, <1>5, <1>6, <1>7, <1>8, <1>9 DEF Next
<1>11. QED BY <1>10, <1>6 DEF vars

\* Only finalizeRelayJobBatch touches the answers, and it adds at most its own.
LEMMA AnswersStep ==
  ASSUME TypeOK, [Next]_vars
  PROVE  \/ UNCHANGED answers
         \/ \E S \in Batches, t \in Turns, result \in {"skip", "reply"} :
              \E batch \in Ends(S) : FinalizeRelayJobBatch(batch, S, t, result)
<1>1. ASSUME NEW c \in Connectors, NEW S, NEW t,
             ClaimRelayJobBatch(c, S) \/ ReleaseRelayJobBatch(c, S)
             \/ AcceptRelayJobBatch(c, S, t) \/ FailRelayJobBatch(c, S, t)
      PROVE  UNCHANGED answers
  BY <1>1 DEF ClaimRelayJobBatch, ReleaseRelayJobBatch, AcceptRelayJobBatch,
              FailRelayJobBatch
<1>2. ASSUME NEW j, NEW ttl, EnqueueRelayJob(j, ttl) \/ ExpireRelayJobs \/ Tick
      PROVE  UNCHANGED answers
  BY <1>2 DEF EnqueueRelayJob, ExpireRelayJobs, Tick
<1>3. ASSUME NEW c \in Connectors, RegisterRelaySession(c) \/ HeartbeatRelaySession(c)
                                   \/ DisconnectRelaySession(c) \/ GetRelaySession
      PROVE  UNCHANGED answers
  BY <1>3 DEF RegisterRelaySession, HeartbeatRelaySession, DisconnectRelaySession,
              GetRelaySession
<1>4. CASE GetRelaySession
  BY <1>4 DEF GetRelaySession
<1>5. CASE Next
  BY <1>5, <1>1, <1>2, <1>3, <1>4 DEF Next
<1>6. QED BY <1>5 DEF vars

\* So do the recorded answers.
LEMMA AnswersType == TypeOK /\ [Next]_vars => answers' \subseteq AnswerRows
<1> SUFFICES ASSUME TypeOK, [Next]_vars PROVE answers' \subseteq AnswerRows
  OBVIOUS
<1>1. CASE UNCHANGED answers
  BY <1>1 DEF TypeOK
<1>2. ASSUME NEW S \in Batches, NEW t \in Turns, NEW result \in {"skip", "reply"},
             NEW batch \in Ends(S), FinalizeRelayJobBatch(batch, S, t, result)
      PROVE  answers' \subseteq AnswerRows
  <2>1. batch \in Jobs \X Jobs
    BY DEF Ends, Batches
  <2>2. [batch |-> batch, jobs |-> S, turn |-> t] \in AnswerRows
    BY <2>1 DEF AnswerRows
  <2>3. QED BY <1>2, <2>2 DEF TypeOK, FinalizeRelayJobBatch
<1>3. QED BY <1>1, <1>2, AnswersStep

\* Every reachable state of the tables is well-typed, for all values of the
\* constants (every relay_jobs and relay_sessions statement).
THEOREM TypeCorrect == Spec => []TypeOK
<1>1. TypeOK /\ [Next]_vars => TypeOK'
  BY JobsType, SessionType, AnswersType DEF TypeOK
<1>2. QED BY <1>1, InitType, PTL DEF Spec

-----------------------------------------------------------------------------
(***************************************************************************)
(* Row consistency.  Every operation moves each row along one of the edges  *)
(* of RowStep, whatever it does to the others.                             *)
(***************************************************************************)
RowStep(row, new) ==
  \/ new = row
  \/ row.status = "absent" /\ \E ttl \in 1..JobTtl : new = PendingRow(ttl)
  \/ row.status \in {"pending", "leased"} /\ new = Settle(row, "expired")
  \/ row.status \in {"pending", "leased"} /\ new = Unlease(row)
  \/ row.status \in {"pending", "leased"} /\ \E c \in Connectors : new = ClaimedRow(row, c)
  \/ row.status = "leased" /\ \E t \in Turns : new = AcceptedRow(row, t)
  \/ row.status = "accepted" /\ \E r \in {"skip", "reply"} : new = CompletedRow(row, r)
  \/ row.status \in {"leased", "accepted"} /\ new = Settle(row, "failed")
  \/ new = Aged(row)

RowOK(row) ==
  /\ row.status = "leased" <=> row.owner # None
  /\ row.status \in {"accepted", "completed"} => row.turn # None
  /\ row.status \in {"absent", "pending", "leased", "expired"} => row.turn = None
  /\ row.status = "completed" <=> row.result # "none"

\* A row that moves like this keeps its columns in agreement.
LEMMA RowStepKeepsOK ==
  ASSUME NEW row \in JobRows, NEW new, RowStep(row, new), RowOK(row)
  PROVE  RowOK(new)
<1>1. CASE new = row
  BY <1>1
<1>2. ASSUME NEW ttl \in 1..JobTtl, new = PendingRow(ttl) PROVE RowOK(new)
  BY <1>2 DEF PendingRow, RowOK
<1>3. CASE row.status \in {"pending", "leased"} /\ new = Settle(row, "expired")
  BY <1>3, SettleType DEF RowOK, Statuses
<1>4. CASE row.status \in {"pending", "leased"} /\ new = Unlease(row)
  BY <1>4, UnleaseType DEF RowOK
<1>5. ASSUME row.status \in {"pending", "leased"}, NEW c \in Connectors,
             new = ClaimedRow(row, c)
      PROVE  RowOK(new)
  BY <1>5, ClaimedType, RelayStoreAssumption DEF RowOK
<1>6. ASSUME row.status = "leased", NEW t \in Turns, new = AcceptedRow(row, t)
      PROVE  RowOK(new)
  BY <1>6, AcceptedType, RelayStoreAssumption DEF RowOK
<1>7. ASSUME row.status = "accepted", NEW r \in {"skip", "reply"}, new = CompletedRow(row, r)
      PROVE  RowOK(new)
  BY <1>7, CompletedType DEF RowOK
<1>8. CASE row.status \in {"leased", "accepted"} /\ new = Settle(row, "failed")
  BY <1>8, SettleType DEF RowOK, Statuses
<1>9. CASE new = Aged(row)
  BY <1>9, AgedType DEF RowOK
<1>10. QED BY <1>1, <1>2, <1>3, <1>4, <1>5, <1>6, <1>7, <1>8, <1>9 DEF RowStep

\* A settled row is never touched again.
LEMMA SettledStays ==
  ASSUME NEW row, NEW new, RowStep(row, new), row.status \in Settled
  PROVE  new = row
  BY DEF RowStep, Settled, Aged

\* A claim selects from the rows that are ready.
LEMMA ClaimSelectsReady == \A c \in Connectors : FittingPrefix(Candidates(c)) \subseteq Ready
<1> TAKE c \in Connectors
<1>1. Claimable(c) \subseteq Ready
  BY DEF Claimable
<1>2. FirstControl(Claimable(c)) \subseteq Claimable(c)
  BY DEF FirstControl
<1>3. Candidates(c) \subseteq Claimable(c)
  BY <1>2 DEF Candidates
<1>4. FittingPrefix(Candidates(c)) \subseteq Candidates(c)
  BY DEF FittingPrefix
<1>5. QED BY <1>1, <1>3, <1>4

\* Every operation moves rows only like that.
LEMMA StepsMoveRows ==
  ASSUME TypeOK, [Next]_vars
  PROVE  \A j \in Jobs : RowStep(job[j], job'[j])
<1> USE DEF TypeOK
<1>1. ASSUME NEW k \in Jobs, NEW ttl \in 1..JobTtl, EnqueueRelayJob(k, ttl)
      PROVE  \A j \in Jobs : RowStep(job[j], job'[j])
  BY <1>1 DEF EnqueueRelayJob, RowStep
<1>2. CASE ExpireRelayJobs
  BY <1>2 DEF ExpireRelayJobs, Update, Overdue, RowStep
<1>3. ASSUME NEW c \in Connectors, NEW S \in SUBSET Jobs, ClaimRelayJobBatch(c, S)
      PROVE  \A j \in Jobs : RowStep(job[j], job'[j])
  <2> TAKE j \in Jobs
  <2>1. S \subseteq Ready
    BY <1>3, ClaimSelectsReady DEF ClaimRelayJobBatch
  <2>2. CASE j \in S
    <3>1. job'[j] = ClaimedRow(job[j], c)
      BY <1>3, <2>2 DEF ClaimRelayJobBatch, Update
    <3>2. job[j].status \in {"pending", "leased"}
      BY <2>1, <2>2 DEF Ready, Lapsed
    <3>3. QED BY <3>1, <3>2 DEF RowStep
  <2>3. CASE j \in (Overdue \cup Lapsed) \ S
    <3>1. job'[j] = Unlease(job[j])
      BY <1>3, <2>3 DEF ClaimRelayJobBatch, Update
    <3>2. job[j].status \in {"pending", "leased"}
      BY <2>3 DEF Overdue, Lapsed
    <3>3. QED BY <3>1, <3>2 DEF RowStep
  <2>4. CASE j \notin S \cup Overdue \cup Lapsed
    <3>1. job'[j] = job[j]
      BY <1>3, <2>4 DEF ClaimRelayJobBatch, Update
    <3>2. QED BY <3>1 DEF RowStep
  <2>5. QED BY <2>2, <2>3, <2>4
<1>4. ASSUME NEW c \in Connectors, RegisterRelaySession(c)
      PROVE  \A j \in Jobs : RowStep(job[j], job'[j])
  BY <1>4 DEF RegisterRelaySession, Update, LeasedTo, RowStep
<1>5. ASSUME NEW c \in Connectors, NEW S \in Batches, ReleaseRelayJobBatch(c, S)
      PROVE  \A j \in Jobs : RowStep(job[j], job'[j])
  BY <1>5 DEF ReleaseRelayJobBatch, Update, LeasedTo, RowStep
<1>6. ASSUME NEW c \in Connectors, NEW S \in Batches, NEW t \in Turns,
             AcceptRelayJobBatch(c, S, t)
      PROVE  \A j \in Jobs : RowStep(job[j], job'[j])
  BY <1>6 DEF AcceptRelayJobBatch, Update, LeasedTo, RowStep
<1>7. ASSUME NEW c \in Connectors, NEW S \in Batches, NEW t,
             FailRelayJobBatch(c, S, t)
      PROVE  \A j \in Jobs : RowStep(job[j], job'[j])
  BY <1>7 DEF FailRelayJobBatch, Update, LeasedTo, OwnedBy, RowStep
<1>8. ASSUME NEW S \in Batches, NEW t \in Turns, NEW result \in {"skip", "reply"},
             NEW batch \in Ends(S), FinalizeRelayJobBatch(batch, S, t, result)
      PROVE  \A j \in Jobs : RowStep(job[j], job'[j])
  BY <1>8 DEF FinalizeRelayJobBatch, Update, OwnedBy, RowStep
<1>9. CASE Tick
  BY <1>9 DEF Tick, RowStep
<1>10. CASE UNCHANGED job
  BY <1>10 DEF RowStep
<1>11. ASSUME NEW c \in Connectors, HeartbeatRelaySession(c) \/ DisconnectRelaySession(c)
       PROVE  UNCHANGED job
  BY <1>11 DEF HeartbeatRelaySession, DisconnectRelaySession
<1>12. GetRelaySession => UNCHANGED job
  BY DEF GetRelaySession
<1>13. CASE Next
  BY <1>13, <1>1, <1>2, <1>3, <1>4, <1>5, <1>6, <1>7, <1>8, <1>9, <1>10, <1>11, <1>12
     DEF Next
<1>14. QED BY <1>10, <1>13 DEF vars

RowsOK == \A j \in Jobs : RowOK(job[j])

\* The batch id of an answer is derived from its own jobs.
AnswersNamed == \A a \in answers : a.batch \in Ends(a.jobs)

StoreInv == TypeOK /\ RowsOK /\ AnswersEarned /\ AnswersNamed /\ RepliesKeptOnce

\* The invariant holds at the start.
LEMMA InitStoreInv == Init => StoreInv
<1> SUFFICES ASSUME Init PROVE StoreInv
  OBVIOUS
<1>1. RowsOK
  BY DEF Init, RowsOK, RowOK, AbsentRow
<1>2. AnswersEarned /\ AnswersNamed /\ RepliesKeptOnce
  BY DEF Init, AnswersEarned, AnswersNamed, RepliesKeptOnce, AbsentRow
<1>3. QED BY <1>1, <1>2, InitType DEF StoreInv

\* What finalizeRelayJobBatch finds and leaves.
LEMMA FinalizeFacts ==
  ASSUME StoreInv, NEW S \in Batches, NEW t \in Turns, NEW result \in {"skip", "reply"},
         NEW batch \in Ends(S), FinalizeRelayJobBatch(batch, S, t, result)
  PROVE  /\ \A j \in S : /\ job[j].status = "accepted" /\ job[j].turn = t
                         /\ job[j].result = "none"
                         /\ job'[j].status = "completed" /\ job'[j].turn = t
                         /\ job'[j].result = result
         /\ \A j \in Jobs \ S : job'[j] = job[j]
         /\ answers' = IF result = "skip" THEN answers
                       ELSE answers \cup {[batch |-> batch, jobs |-> S, turn |-> t]}
         /\ \A a \in answers : a.jobs \cap S = {}
<1>1. S \subseteq Jobs /\ S \subseteq OwnedBy(t)
  BY DEF Batches, FinalizeRelayJobBatch
<1>2. \A j \in S : job[j].status = "accepted" /\ job[j].turn = t /\ job[j].result = "none"
  BY <1>1 DEF OwnedBy, StoreInv, RowsOK, RowOK
<1>3. \A j \in S : job'[j] = CompletedRow(job[j], result)
  BY <1>1 DEF FinalizeRelayJobBatch, Update
<1>4. \A j \in Jobs \ S : job'[j] = job[j]
  BY DEF FinalizeRelayJobBatch, Update
<1>5. \A j \in S : /\ job'[j].status = "completed" /\ job'[j].turn = t
                   /\ job'[j].result = result
  BY <1>1, <1>2, <1>3, CompletedType DEF StoreInv, TypeOK
<1>6. \A a \in answers : a.jobs \cap S = {}
  BY <1>2 DEF StoreInv, AnswersEarned
<1>7. ~ \E a \in answers : a.batch = batch
  <2>1. batch[1] \in S
    BY DEF Ends
  <2>2. \A a \in answers : a.batch[1] \in a.jobs
    BY DEF StoreInv, AnswersNamed, Ends
  <2>3. QED BY <2>1, <2>2, <1>6
<1>8. answers' = IF result = "skip" THEN answers
                 ELSE answers \cup {[batch |-> batch, jobs |-> S, turn |-> t]}
  BY <1>7 DEF FinalizeRelayJobBatch
<1>9. QED BY <1>2, <1>4, <1>5, <1>6, <1>8

\* Rows only ever move along RowStep, so completed jobs and their answers stay.
LEMMA QuietStep ==
  ASSUME StoreInv, UNCHANGED answers, \A j \in Jobs : RowStep(job[j], job'[j]),
         \A j \in Jobs : job'[j].status = "completed" => job[j].status = "completed"
  PROVE  AnswersEarned' /\ AnswersNamed' /\ (RowsOK' => RepliesKeptOnce')
<1> USE DEF StoreInv
<1>1. \A j \in Jobs : job[j].status = "completed" => job'[j] = job[j]
  BY SettledStays DEF Settled
<1>2. \A a \in answers : a.jobs \subseteq Jobs
  BY DEF TypeOK, AnswerRows, Batches
<1>3. AnswersEarned'
  BY <1>1, <1>2 DEF AnswersEarned
<1>4. AnswersNamed'
  BY DEF AnswersNamed, Ends
<1>5. ASSUME RowsOK' PROVE RepliesKeptOnce'
  <2>1. \A j \in Jobs : job'[j].result = "reply" => job[j].result = "reply"
    BY <1>1, <1>5 DEF RowsOK, RowOK
  <2>2. QED BY <2>1 DEF RepliesKeptOnce
<1>6. QED BY <1>3, <1>4, <1>5

\* A result keeps it.
LEMMA FinalizeStep ==
  ASSUME StoreInv, NEW S \in Batches, NEW t \in Turns, NEW result \in {"skip", "reply"},
         NEW batch \in Ends(S), FinalizeRelayJobBatch(batch, S, t, result)
  PROVE  AnswersEarned' /\ AnswersNamed' /\ RepliesKeptOnce'
<1> DEFINE new == [batch |-> batch, jobs |-> S, turn |-> t]
<1> USE DEF StoreInv
<1>1. \A a \in answers : a.jobs \subseteq Jobs \ S
  BY FinalizeFacts DEF TypeOK, AnswerRows, Batches
<1>2. answers' \subseteq answers \cup {new} /\ answers \subseteq answers'
      /\ (result = "reply" => new \in answers')
      /\ (new \in answers' => result = "reply" \/ new \in answers)
  BY FinalizeFacts
<1>3. new \notin answers
  <2>1. S # {}
    BY DEF Batches
  <2>2. QED BY <2>1, <1>1
<1>4. AnswersEarned'
  <2>1. \A a \in answers : \A j \in a.jobs :
          job'[j].status = "completed" /\ job'[j].turn = a.turn /\ job'[j].result = "reply"
    BY <1>1, FinalizeFacts DEF AnswersEarned
  <2>2. new \in answers' => \A j \in S :
          job'[j].status = "completed" /\ job'[j].turn = t /\ job'[j].result = "reply"
    BY <1>2, <1>3, FinalizeFacts
  <2>3. QED BY <1>2, <2>1, <2>2 DEF AnswersEarned
<1>5. AnswersNamed'
  BY <1>2 DEF AnswersNamed, Ends
<1>6. RepliesKeptOnce'
  <2> SUFFICES ASSUME NEW j \in Jobs, job'[j].result = "reply"
               PROVE  /\ \E a \in answers' : j \in a.jobs
                      /\ \A a, b \in answers' : j \in a.jobs \cap b.jobs => a = b
    BY DEF RepliesKeptOnce
  <2>1. CASE j \in S
    <3>1. result = "reply"
      BY <2>1, FinalizeFacts
    <3>2. new \in answers' /\ j \in new.jobs
      BY <2>1, <3>1, <1>2
    <3>3. \A a \in answers' : j \in a.jobs => a = new
      BY <2>1, <1>1, <1>2
    <3>4. QED BY <3>2, <3>3
  <2>2. CASE j \notin S
    <3>1. job[j].result = "reply"
      BY <2>2, FinalizeFacts
    <3>2. /\ \E a \in answers : j \in a.jobs
          /\ \A a, b \in answers : j \in a.jobs \cap b.jobs => a = b
      BY <3>1 DEF RepliesKeptOnce
    <3>3. \A a \in answers' : j \in a.jobs => a \in answers
      BY <2>2, <1>2
    <3>4. QED BY <3>2, <3>3, <1>2
  <2>3. QED BY <2>1, <2>2
<1>7. QED BY <1>4, <1>5, <1>6

\* Only finalizeRelayJobBatch completes a job.
LEMMA OnlyFinalizeCompletes ==
  ASSUME TypeOK, [Next]_vars,
         ~ \E S \in Batches, t \in Turns, result \in {"skip", "reply"} :
             \E batch \in Ends(S) : FinalizeRelayJobBatch(batch, S, t, result)
  PROVE  \A j \in Jobs : job'[j].status = "completed" => job[j].status = "completed"
<1> SUFFICES ASSUME NEW j \in Jobs PROVE job'[j].status = "completed" => job[j].status = "completed"
  OBVIOUS
<1> DEFINE Quiet == job'[j].status = "completed" => job[j].status = "completed"
<1>0. job[j] \in JobRows
  BY DEF TypeOK
<1>1. ASSUME NEW k \in Jobs, NEW ttl \in 1..JobTtl, EnqueueRelayJob(k, ttl) PROVE Quiet
  BY <1>1 DEF TypeOK, EnqueueRelayJob, PendingRow
<1>2. CASE ExpireRelayJobs
  BY <1>0, <1>2, SettleType DEF ExpireRelayJobs, Update, Statuses
<1>3. ASSUME NEW c \in Connectors, NEW S \in SUBSET Jobs, ClaimRelayJobBatch(c, S) PROVE Quiet
  BY <1>0, <1>3, ClaimedType, UnleaseType DEF ClaimRelayJobBatch, Update
<1>4. ASSUME NEW c \in Connectors, RegisterRelaySession(c) PROVE Quiet
  BY <1>0, <1>4, UnleaseType DEF RegisterRelaySession, Update
<1>5. ASSUME NEW c \in Connectors, NEW S \in Batches, ReleaseRelayJobBatch(c, S) PROVE Quiet
  BY <1>0, <1>5, UnleaseType DEF ReleaseRelayJobBatch, Update
<1>6. ASSUME NEW c \in Connectors, NEW S \in Batches, NEW t \in Turns,
             AcceptRelayJobBatch(c, S, t)
      PROVE  Quiet
  BY <1>0, <1>6, AcceptedType DEF AcceptRelayJobBatch, Update
<1>7. ASSUME NEW c \in Connectors, NEW S \in Batches, NEW t,
             FailRelayJobBatch(c, S, t)
      PROVE  Quiet
  BY <1>0, <1>7, SettleType DEF FailRelayJobBatch, Update, Statuses
<1>8. CASE Tick
  BY <1>0, <1>8, AgedType DEF Tick
<1>9. ASSUME NEW c \in Connectors, HeartbeatRelaySession(c) \/ DisconnectRelaySession(c)
      PROVE  Quiet
  BY <1>9 DEF HeartbeatRelaySession, DisconnectRelaySession
<1>10. CASE GetRelaySession
  BY <1>10 DEF GetRelaySession
<1>11. ASSUME NEW S \in Batches, NEW t \in Turns, NEW result \in {"skip", "reply"},
              NEW batch \in Ends(S), FinalizeRelayJobBatch(batch, S, t, result)
       PROVE  Quiet
  BY <1>11
<1>12. CASE UNCHANGED job
  BY <1>12
<1>13. CASE Next
  BY <1>13, <1>1, <1>2, <1>3, <1>4, <1>5, <1>6, <1>7, <1>8, <1>9, <1>10, <1>11 DEF Next
<1>14. QED BY <1>12, <1>13 DEF vars

\* Every operation keeps it.
LEMMA StoreInvStep == StoreInv /\ [Next]_vars => StoreInv'
<1> SUFFICES ASSUME StoreInv, [Next]_vars PROVE StoreInv'
  OBVIOUS
<1>1. TypeOK
  BY DEF StoreInv
<1>2. TypeOK'
  BY <1>1, JobsType, SessionType, AnswersType DEF TypeOK
<1>3. \A j \in Jobs : RowStep(job[j], job'[j])
  BY <1>1, StepsMoveRows
<1>4. RowsOK'
  BY <1>1, <1>3, RowStepKeepsOK DEF StoreInv, RowsOK, TypeOK
<1>5. ASSUME NEW S \in Batches, NEW t \in Turns, NEW result \in {"skip", "reply"},
             NEW batch \in Ends(S), FinalizeRelayJobBatch(batch, S, t, result)
      PROVE  AnswersEarned' /\ AnswersNamed' /\ RepliesKeptOnce'
  BY <1>5, FinalizeStep
<1>6. CASE ~ \E S \in Batches, t \in Turns, result \in {"skip", "reply"} :
               \E batch \in Ends(S) : FinalizeRelayJobBatch(batch, S, t, result)
  <2>1. \A j \in Jobs : job'[j].status = "completed" => job[j].status = "completed"
    BY <1>1, <1>6, OnlyFinalizeCompletes
  <2>2. UNCHANGED answers
    BY <1>1, <1>6, AnswersStep
  <2>3. QED BY <1>2, <1>3, <1>4, <2>1, <2>2, QuietStep DEF StoreInv
<1>7. QED BY <1>2, <1>4, <1>5, <1>6 DEF StoreInv

\* The strengthened invariant that carries the three results: every row is
\* well formed, and answers are kept apart by the jobs at the ends of a batch.
THEOREM StoreInvariant == Spec => []StoreInv
  BY InitStoreInv, StoreInvStep, PTL DEF Spec

\* The columns of every row stay consistent with its status and every recorded
\* answer belongs to jobs its turn completed (all relay_jobs statements).
THEOREM RowsConsistent == Spec => []RowInv
<1>1. StoreInv => RowInv
  BY DEF StoreInv, RowsOK, RowOK, RowInv, LeasesConsistent, TurnsConsistent, ResultsConsistent
<1>2. QED BY <1>1, StoreInvariant, PTL

\* Deriving outbound action ids from the ends of a batch, with INSERT OR IGNORE,
\* neither loses nor doubles a reply (finalizeRelayJobBatch).
THEOREM RepliesOnce == Spec => []RepliesKeptOnce
<1>1. StoreInv => RepliesKeptOnce
  BY DEF StoreInv
<1>2. QED BY <1>1, StoreInvariant, PTL

-----------------------------------------------------------------------------
(***************************************************************************)
(* What one call does to the rows, for the modules that call the store.     *)
(* Only accept writes a turn, only finalize completes a row, only claim     *)
(* hands out a lease.                                                      *)
(***************************************************************************)
CalmRow(row, new) ==
  /\ new.turn = row.turn
  /\ new.status = "completed" <=> row.status = "completed"
  /\ new.status = "leased" => row.status = "leased" /\ new.owner = row.owner

\* Row updates that are calm.
LEMMA CalmRows ==
  ASSUME NEW row \in JobRows, RowOK(row)
  PROVE  /\ CalmRow(row, row) /\ CalmRow(row, Aged(row))
         /\ row.status = "absent" => \A ttl : CalmRow(row, PendingRow(ttl))
         /\ row.status # "completed" => CalmRow(row, Unlease(row))
         /\ row.status # "completed" => \A s \in {"expired", "failed"} : CalmRow(row, Settle(row, s))
<1>1. CalmRow(row, row) BY DEF CalmRow
<1>2. CalmRow(row, Aged(row)) BY AgedType DEF CalmRow
<1>3. row.status = "absent" => \A ttl : CalmRow(row, PendingRow(ttl))
  BY DEF CalmRow, PendingRow, RowOK
<1>4. row.status # "completed" => CalmRow(row, Unlease(row))
  BY UnleaseType DEF CalmRow
<1>5. row.status # "completed" => \A s \in {"expired", "failed"} : CalmRow(row, Settle(row, s))
  BY SettleType DEF CalmRow, Statuses
<1>6. QED BY <1>1, <1>2, <1>3, <1>4, <1>5

CalmStep ==
  \/ \E j \in Jobs, ttl \in 1..JobTtl : EnqueueRelayJob(j, ttl)
  \/ \E c \in Connectors, S \in SUBSET Jobs : ReleaseRelayJobBatch(c, S)
  \/ \E c \in Connectors, S \in SUBSET Jobs, t \in Turns \cup {None} : FailRelayJobBatch(c, S, t)
  \/ \E c \in Connectors : RegisterRelaySession(c)
  \/ ExpireRelayJobs \/ Tick \/ UNCHANGED job

\* Calls that are neither claim, accept nor finalize are calm for every row.
LEMMA CalmSteps ==
  ASSUME TypeOK, RowsOK, CalmStep
  PROVE  \A j \in Jobs : CalmRow(job[j], job'[j])
<1>0. /\ job \in [Jobs -> JobRows] /\ \A j \in Jobs : job[j] \in JobRows /\ RowOK(job[j])
      /\ \A j \in Jobs : CalmRow(job[j], job[j])
  BY CalmRows DEF TypeOK, RowsOK
<1>1. ASSUME NEW k \in Jobs, NEW ttl \in 1..JobTtl, EnqueueRelayJob(k, ttl)
      PROVE  \A j \in Jobs : CalmRow(job[j], job'[j])
  BY <1>0, <1>1, CalmRows DEF EnqueueRelayJob
<1>2. ASSUME NEW c \in Connectors, NEW S \in SUBSET Jobs, ReleaseRelayJobBatch(c, S)
      PROVE  \A j \in Jobs : CalmRow(job[j], job'[j])
  BY <1>0, <1>2, CalmRows DEF ReleaseRelayJobBatch, Update, LeasedTo
<1>3. ASSUME NEW c \in Connectors, NEW S \in SUBSET Jobs, NEW t \in Turns \cup {None},
             FailRelayJobBatch(c, S, t)
      PROVE  \A j \in Jobs : CalmRow(job[j], job'[j])
  BY <1>0, <1>3, CalmRows DEF FailRelayJobBatch, Update, LeasedTo, OwnedBy
<1>4. ASSUME NEW c \in Connectors, RegisterRelaySession(c)
      PROVE  \A j \in Jobs : CalmRow(job[j], job'[j])
  BY <1>0, <1>4, CalmRows DEF RegisterRelaySession, Update, LeasedTo
<1>5. CASE ExpireRelayJobs
  BY <1>0, <1>5, CalmRows DEF ExpireRelayJobs, Update, Overdue
<1>6. CASE Tick BY <1>0, <1>6, CalmRows DEF Tick
<1>7. CASE UNCHANGED job BY <1>0, <1>7
<1>8. QED BY <1>1, <1>2, <1>3, <1>4, <1>5, <1>6, <1>7 DEF CalmStep

\* A claim leases rows that no turn was recorded for.
LEMMA ClaimRows ==
  ASSUME TypeOK, RowsOK, NEW c \in Connectors, NEW S \in SUBSET Jobs, ClaimRelayJobBatch(c, S)
  PROVE  /\ \A j \in S : /\ job[j].turn = None /\ job'[j].turn = None
                         /\ job[j].status # "completed"
                         /\ job'[j].status = "leased" /\ job'[j].owner = c
         /\ \A j \in Jobs \ S : CalmRow(job[j], job'[j])
<1>0. /\ job \in [Jobs -> JobRows] /\ \A j \in Jobs : job[j] \in JobRows /\ RowOK(job[j])
      /\ \A j \in Jobs : CalmRow(job[j], job[j])
  BY CalmRows DEF TypeOK, RowsOK
<1>1. S \subseteq Ready BY ClaimSelectsReady DEF ClaimRelayJobBatch
<1>2. \A j \in S : job[j].status \in {"pending", "leased"} BY <1>1 DEF Ready, Lapsed
<1>3. ASSUME NEW j \in S
      PROVE  job'[j] = ClaimedRow(job[j], c)
  BY <1>3 DEF ClaimRelayJobBatch, Update
<1>4. ASSUME NEW j \in Jobs \ S
      PROVE  CalmRow(job[j], job'[j])
  <2>1. job'[j] = IF j \in Overdue \cup Lapsed THEN Unlease(job[j]) ELSE job[j]
    BY <1>4 DEF ClaimRelayJobBatch, Update
  <2>2. j \in Overdue \cup Lapsed => job[j].status # "completed" BY DEF Overdue, Lapsed
  <2>3. QED BY <1>0, <2>1, <2>2, CalmRows
<1>5. QED BY <1>0, <1>2, <1>3, <1>4, ClaimedType DEF RowOK

\* An acceptance writes its turn to leased rows that had none.
LEMMA AcceptRows ==
  ASSUME TypeOK, RowsOK, NEW c \in Connectors, NEW S \in SUBSET Jobs, NEW t \in Turns,
         AcceptRelayJobBatch(c, S, t)
  PROVE  /\ \A j \in S : /\ job[j].status = "leased" /\ job[j].owner = c /\ job[j].turn = None
                         /\ job'[j].status = "accepted" /\ job'[j].turn = t
         /\ \A j \in Jobs \ S : job'[j] = job[j]
<1>0. job \in [Jobs -> JobRows] /\ \A j \in Jobs : job[j] \in JobRows /\ RowOK(job[j])
  BY DEF TypeOK, RowsOK
<1>1. \A j \in S : job[j].status = "leased" /\ job[j].owner = c
  BY DEF AcceptRelayJobBatch, LeasedTo
<1>2. \A j \in S : job'[j] = AcceptedRow(job[j], t) BY DEF AcceptRelayJobBatch, Update
<1>3. \A j \in Jobs \ S : job'[j] = job[j] BY DEF AcceptRelayJobBatch, Update
<1>4. QED BY <1>0, <1>1, <1>2, <1>3, AcceptedType DEF RowOK

\* An answer completes accepted rows of its turn.
LEMMA FinalizeRows ==
  ASSUME TypeOK, NEW batch, NEW S \in SUBSET Jobs, NEW t \in Turns, NEW result,
         FinalizeRelayJobBatch(batch, S, t, result)
  PROVE  /\ \A j \in S : /\ job[j].turn = t /\ job[j].status = "accepted"
                         /\ job'[j].turn = t /\ job'[j].status = "completed"
         /\ \A j \in Jobs \ S : job'[j] = job[j]
<1>1. \A j \in S : job[j] \in JobRows /\ job[j].turn = t /\ job[j].status = "accepted"
  BY DEF FinalizeRelayJobBatch, OwnedBy, TypeOK
<1>2. \A j \in S : job'[j] = CompletedRow(job[j], result) BY DEF FinalizeRelayJobBatch, Update
<1>3. \A j \in Jobs \ S : job'[j] = job[j] BY DEF FinalizeRelayJobBatch, Update
<1>4. ASSUME NEW j \in S PROVE job'[j].turn = t /\ job'[j].status = "completed"
  <2>1. job'[j] = [job[j] EXCEPT !.status = "completed", !.result = result]
    BY <1>2, <1>4 DEF CompletedRow
  <2>2. QED BY <1>1, <1>4, <2>1 DEF JobRows
<1>5. QED BY <1>1, <1>3, <1>4
=============================================================================
