-------------------------- MODULE LifecycleProofs --------------------------
(***************************************************************************)
(* The tables of RelayStore implement JobLifecycle: every operation of the *)
(* store is a step of the life of some set of jobs, or invisible there.    *)
(* And its claims take a conversation from its front.                      *)
(***************************************************************************)
EXTENDS RelayStoreProofs, FiniteSetTheorems

\* What a table update shows of itself: the jobs of S move to phase p and turn
\* R(j), the others keep theirs.
Moves(S, p) == \A j \in Jobs :
  PhaseOf(job'[j].status) = IF j \in S THEN p ELSE PhaseOf(job[j].status)

SameTurns == \A j \in Jobs : job'[j].turn = job[j].turn

\* What it is for some jobs to move to another phase.
LEMMA MovesTo ==
  ASSUME NEW S, NEW p, Moves(S, p)
  PROVE  Lifecycle!To(S, p)
  BY DEF Moves, Lifecycle!To, Phase

\* The runner of a job is read off its recorded turn.
LEMMA SameRunner == SameTurns => UNCHANGED Runner
  BY DEF SameTurns, Runner

\* The phases.
LEMMA PhaseNames ==
  /\ PhaseOf("absent") = "absent"    /\ PhaseOf("pending") = "queued"
  /\ PhaseOf("leased") = "queued"    /\ PhaseOf("accepted") = "running"
  /\ PhaseOf("completed") = "answered" /\ PhaseOf("failed") = "failed"
  /\ PhaseOf("expired") = "expired"
  BY DEF PhaseOf

\* The phase of one job.
LEMMA PhaseAt == \A j \in Jobs : Phase[j] = PhaseOf(job[j].status)
  BY DEF Phase

\* unlease: expired when its time ran out, queued otherwise.
LEMMA UnleasePhase ==
  ASSUME NEW row \in JobRows
  PROVE  PhaseOf(Unlease(row).status) = IF row.ttl = 0 THEN "expired" ELSE "queued"
<1>1. CASE row.ttl = 0
  <2>1. Unlease(row).status = "expired"
    BY <1>1, SettleType DEF Unlease, Statuses
  <2>2. QED BY <1>1, <2>1, PhaseNames
<1>2. CASE row.ttl # 0
  <2>1. Unlease(row).status = "pending"
    BY <1>2 DEF Unlease, JobRows
  <2>2. QED BY <1>2, <2>1, PhaseNames
<1>3. QED BY <1>1, <1>2

\* Rows whose lease is taken away: those that ran out expire, no more happens.
LEMMA UnleasingExpires ==
  ASSUME TypeOK, NEW S \in SUBSET Jobs,
         \A j \in S : job[j].status \in {"pending", "leased"},
         job' = Update([j \in S |-> Unlease(job[j])])
  PROVE  \E E \in SUBSET Jobs : Lifecycle!Expire(E)
<1> DEFINE E == {j \in S : job[j].ttl = 0}
<1>1. \A j \in Jobs : job[j] \in JobRows
  BY DEF TypeOK
<1>2. \A j \in S : job'[j] = Unlease(job[j])
  BY DEF Update
<1>3. \A j \in Jobs \ S : job'[j] = job[j]
  BY DEF Update
<1>4. \A j \in S : PhaseOf(job[j].status) = "queued"
  BY PhaseNames
<1>5. Moves(E, "expired")
  BY <1>1, <1>2, <1>3, <1>4, UnleasePhase DEF Moves
<1>6. SameTurns
  BY <1>1, <1>2, <1>3, UnleaseType DEF SameTurns
<1>7. \A j \in E : Phase[j] = "queued"
  BY <1>4, PhaseAt
<1>8. QED BY <1>5, <1>6, <1>7, MovesTo, SameRunner DEF Lifecycle!Expire

\* An enqueue submits the job.
LEMMA EnqueueSubmits ==
  ASSUME StoreInv, NEW k \in Jobs, NEW ttl \in 1..JobTtl, EnqueueRelayJob(k, ttl)
  PROVE  Lifecycle!Submit(k)
<1>1. /\ job[k].status = "absent" /\ job'[k] = PendingRow(ttl)
      /\ \A j \in Jobs \ {k} : job'[j] = job[j]
  BY DEF EnqueueRelayJob, StoreInv, TypeOK
<1>2. job'[k].status = "pending" /\ job'[k].turn = None
  BY <1>1 DEF PendingRow
<1>3. Moves({k}, "queued")
  BY <1>1, <1>2, PhaseNames DEF Moves
<1>4. SameTurns
  BY <1>1, <1>2 DEF SameTurns, StoreInv, RowsOK, RowOK
<1>5. Phase[k] = "absent"
  BY <1>1, PhaseAt, PhaseNames
<1>6. QED BY <1>3, <1>4, <1>5, MovesTo, SameRunner DEF Lifecycle!Submit

\* Overdue rows expire.
LEMMA ExpireExpires ==
  ASSUME StoreInv, ExpireRelayJobs
  PROVE  \E E \in SUBSET Jobs : Lifecycle!Expire(E)
<1>1. \A j \in Jobs : job[j] \in JobRows
  BY DEF StoreInv, TypeOK
<1>2. \A j \in Overdue : job'[j] = Settle(job[j], "expired")
  BY DEF ExpireRelayJobs, Update, Overdue
<1>3. \A j \in Jobs \ Overdue : job'[j] = job[j]
  BY DEF ExpireRelayJobs, Update
<1>4. \A j \in Overdue : PhaseOf(job[j].status) = "queued"
  BY PhaseNames DEF Overdue
<1>5. \A j \in Overdue : job'[j].status = "expired" /\ job'[j].turn = job[j].turn
  BY <1>1, <1>2, SettleType DEF Overdue, Statuses
<1>6. Moves(Overdue, "expired")
  BY <1>3, <1>5, PhaseNames DEF Moves
<1>7. SameTurns
  BY <1>3, <1>5 DEF SameTurns
<1>8. Overdue \in SUBSET Jobs /\ \A j \in Overdue : Phase[j] = "queued"
  BY <1>4, PhaseAt DEF Overdue
<1>9. QED BY <1>6, <1>7, <1>8, MovesTo, SameRunner DEF Lifecycle!Expire

\* A claim expires what is overdue; leasing is invisible.
LEMMA ClaimExpires ==
  ASSUME StoreInv, NEW c \in Connectors, NEW S \in SUBSET Jobs, ClaimRelayJobBatch(c, S)
  PROVE  \E E \in SUBSET Jobs : Lifecycle!Expire(E)
<1>1. \A j \in Jobs : job[j] \in JobRows
  BY DEF StoreInv, TypeOK
<1>2. S \subseteq Ready
  BY ClaimSelectsReady DEF ClaimRelayJobBatch
<1>3. \A j \in S : /\ job[j].status \in {"pending", "leased"} /\ j \notin Overdue
                   /\ job'[j] = ClaimedRow(job[j], c)
  BY <1>1, <1>2, RelayStoreAssumption
     DEF Ready, Lapsed, Overdue, ClaimRelayJobBatch, Update, JobRows
<1>4. \A j \in (Overdue \cup Lapsed) \ S :
        job[j].status \in {"pending", "leased"} /\ job'[j] = Unlease(job[j])
  BY DEF Lapsed, Overdue, ClaimRelayJobBatch, Update
<1>5. \A j \in Jobs \ (S \cup Overdue \cup Lapsed) : job'[j] = job[j]
  BY DEF ClaimRelayJobBatch, Update
<1>6. \A j \in S : PhaseOf(job'[j].status) = PhaseOf(job[j].status)
                   /\ job'[j].turn = job[j].turn
  BY <1>1, <1>3, ClaimedType, PhaseNames
<1>7. \A j \in Overdue : /\ PhaseOf(job'[j].status) = "expired"
                         /\ PhaseOf(job[j].status) = "queued"
                         /\ job'[j].turn = job[j].turn
  BY <1>1, <1>3, <1>4, UnleasePhase, UnleaseType, PhaseNames DEF Overdue
<1>8. \A j \in Lapsed \ S : /\ PhaseOf(job'[j].status) = PhaseOf(job[j].status)
                            /\ job'[j].turn = job[j].turn
                            /\ j \notin Overdue
  <2> TAKE j \in Lapsed \ S
  <2>1. job[j] \in JobRows /\ job[j].ttl # 0 /\ job'[j] = Unlease(job[j])
    BY <1>1, <1>4, RelayStoreAssumption DEF Lapsed
  <2>2. QED BY <2>1, <1>4, UnleasePhase, UnleaseType, PhaseNames DEF Lapsed, Overdue
<1>9. Moves(Overdue, "expired")
  BY <1>3, <1>5, <1>6, <1>7, <1>8 DEF Moves
<1>10. SameTurns
  BY <1>5, <1>6, <1>7, <1>8 DEF SameTurns
<1>11. Overdue \in SUBSET Jobs /\ \A j \in Overdue : Phase[j] = "queued"
  BY <1>7, PhaseAt DEF Overdue
<1>12. QED BY <1>9, <1>10, <1>11, MovesTo, SameRunner DEF Lifecycle!Expire

\* An acceptance runs the batch.
LEMMA AcceptRuns ==
  ASSUME StoreInv, NEW c \in Connectors, NEW S \in Batches, NEW t \in Turns,
         AcceptRelayJobBatch(c, S, t)
  PROVE  Lifecycle!Run(S, t)
<1>1. \A j \in S : j \in Jobs /\ job[j] \in JobRows /\ job[j].status = "leased"
  BY DEF StoreInv, TypeOK, AcceptRelayJobBatch, LeasedTo
<1>2. \A j \in S : job'[j].status = "accepted" /\ job'[j].turn = t
  BY <1>1, AcceptedType DEF AcceptRelayJobBatch, Update
<1>3. \A j \in Jobs \ S : job'[j] = job[j]
  BY DEF AcceptRelayJobBatch, Update
<1>4. Moves(S, "running")
  BY <1>2, <1>3, PhaseNames DEF Moves
<1>5. Runner' = [j \in Jobs |-> IF j \in S THEN t ELSE Runner[j]]
  BY <1>2, <1>3 DEF Runner
<1>6. \A j \in S : Phase[j] = "queued"
  BY <1>1, PhaseAt, PhaseNames
<1>7. QED BY <1>4, <1>5, <1>6, MovesTo DEF Lifecycle!Run

\* A failure fails its rows.
LEMMA FailFails ==
  ASSUME StoreInv, NEW c \in Connectors, NEW S \in Batches, NEW t, FailRelayJobBatch(c, S, t)
  PROVE  Lifecycle!Fail(S)
<1>1. \A j \in S : j \in Jobs /\ job[j] \in JobRows /\ job[j].status \in {"leased", "accepted"}
  BY DEF StoreInv, TypeOK, FailRelayJobBatch, LeasedTo, OwnedBy
<1>2. \A j \in S : job'[j].status = "failed" /\ job'[j].turn = job[j].turn
  BY <1>1, SettleType DEF FailRelayJobBatch, Update, Statuses
<1>3. \A j \in Jobs \ S : job'[j] = job[j]
  BY DEF FailRelayJobBatch, Update
<1>4. Moves(S, "failed")
  BY <1>2, <1>3, PhaseNames DEF Moves
<1>5. SameTurns
  BY <1>2, <1>3 DEF SameTurns
<1>6. \A j \in S : Phase[j] \in {"queued", "running"}
  BY <1>1, PhaseAt, PhaseNames
<1>7. QED BY <1>4, <1>5, <1>6, MovesTo, SameRunner DEF Lifecycle!Fail

\* A result answers the batch.
LEMMA FinalizeAnswers ==
  ASSUME StoreInv, NEW S \in Batches, NEW t \in Turns, NEW result \in {"skip", "reply"},
         NEW batch \in Ends(S), FinalizeRelayJobBatch(batch, S, t, result)
  PROVE  Lifecycle!Answer(S, t)
<1>1. S \subseteq Jobs
  BY DEF Batches
<1>2. \A j \in S : /\ job[j].status = "accepted" /\ job[j].turn = t
                   /\ job'[j].status = "completed" /\ job'[j].turn = t
  BY FinalizeFacts
<1>3. \A j \in Jobs \ S : job'[j] = job[j]
  BY FinalizeFacts
<1>4. Moves(S, "answered")
  BY <1>2, <1>3, PhaseNames DEF Moves
<1>5. SameTurns
  BY <1>2, <1>3 DEF SameTurns
<1>6. \A j \in S : Phase[j] = "running" /\ Runner[j] = t
  BY <1>1, <1>2, PhaseAt, PhaseNames DEF Runner
<1>7. QED BY <1>4, <1>5, <1>6, MovesTo, SameRunner DEF Lifecycle!Answer

\* Every operation is one abstract step, or none.
LEMMA StoreStepImplements ==
  ASSUME StoreInv, [Next]_vars
  PROVE  [Lifecycle!Next]_(Lifecycle!vars)
<1> DEFINE Goal == [Lifecycle!Next]_(Lifecycle!vars)
<1>1. ASSUME NEW E \in SUBSET Jobs, Lifecycle!Expire(E) PROVE Goal
  BY <1>1 DEF Lifecycle!Next
<1>2. UNCHANGED job => Goal
  <2>1. UNCHANGED job => UNCHANGED Phase /\ UNCHANGED Runner
    BY DEF Phase, Runner
  <2>2. QED BY <2>1 DEF Lifecycle!vars
<1>3. ASSUME NEW k \in Jobs, NEW ttl \in 1..JobTtl, EnqueueRelayJob(k, ttl) PROVE Goal
  BY <1>3, EnqueueSubmits DEF Lifecycle!Next
<1>4. ASSUME ExpireRelayJobs PROVE Goal
  BY <1>1, <1>4, ExpireExpires
<1>5. ASSUME NEW c \in Connectors, NEW S \in SUBSET Jobs, ClaimRelayJobBatch(c, S) PROVE Goal
  BY <1>1, <1>5, ClaimExpires
<1>6. ASSUME NEW c \in Connectors, RegisterRelaySession(c) PROVE Goal
  <2>1. CASE Holder \in {None, c}
    BY <1>2, <1>6, <2>1 DEF RegisterRelaySession
  <2>2. CASE Holder \notin {None, c}
    <3>1. LeasedTo(Holder) \in SUBSET Jobs
          /\ \A j \in LeasedTo(Holder) : job[j].status \in {"pending", "leased"}
      BY DEF LeasedTo
    <3>2. QED BY <1>1, <1>6, <2>2, <3>1, UnleasingExpires DEF RegisterRelaySession, StoreInv
  <2>3. QED BY <2>1, <2>2
<1>7. ASSUME NEW c \in Connectors, NEW S \in Batches, ReleaseRelayJobBatch(c, S) PROVE Goal
  <2>1. S \in SUBSET Jobs /\ \A j \in S : job[j].status \in {"pending", "leased"}
    BY <1>7 DEF Batches, ReleaseRelayJobBatch, LeasedTo
  <2>2. QED BY <1>1, <1>7, <2>1, UnleasingExpires DEF ReleaseRelayJobBatch, StoreInv
<1>8. ASSUME NEW c \in Connectors, NEW S \in Batches, NEW t \in Turns,
             AcceptRelayJobBatch(c, S, t)
      PROVE  Goal
  BY <1>8, AcceptRuns DEF Lifecycle!Next, Batches
<1>9. ASSUME NEW c \in Connectors, NEW S \in Batches, NEW t,
             FailRelayJobBatch(c, S, t)
      PROVE  Goal
  BY <1>9, FailFails DEF Lifecycle!Next, Batches
<1>10. ASSUME NEW S \in Batches, NEW t \in Turns, NEW result \in {"skip", "reply"},
              NEW batch \in Ends(S), FinalizeRelayJobBatch(batch, S, t, result)
       PROVE  Goal
  BY <1>10, FinalizeAnswers DEF Lifecycle!Next, Batches
<1>11. ASSUME Tick PROVE Goal
  <2>1. \A j \in Jobs : job'[j].status = job[j].status /\ job'[j].turn = job[j].turn
    BY <1>11, AgedType DEF Tick, StoreInv, TypeOK
  <2>2. UNCHANGED Phase /\ UNCHANGED Runner
    BY <2>1 DEF Phase, Runner
  <2>3. QED BY <2>2 DEF Lifecycle!vars
<1>12. ASSUME NEW c \in Connectors, HeartbeatRelaySession(c) \/ DisconnectRelaySession(c)
       PROVE  Goal
  BY <1>2, <1>12 DEF HeartbeatRelaySession, DisconnectRelaySession
<1>13. ASSUME GetRelaySession PROVE Goal
  BY <1>2, <1>13 DEF GetRelaySession
<1> HIDE DEF Goal
<1>14. ASSUME Next PROVE Goal
  BY <1>14, <1>3, <1>4, <1>5, <1>6, <1>7, <1>8, <1>9, <1>10, <1>11, <1>12, <1>13 DEF Next
<1>15. Goal
  BY <1>2, <1>14 DEF vars
<1>16. QED BY <1>15 DEF Goal

\* A queued job is handed to at most one recorded turn, only that turn answers
\* it, and nothing that happened to it is rewritten, for any number of jobs,
\* connectors and turns, and any lease lengths (all relay_jobs statements).
THEOREM RefinesLifecycle == Spec => ImplementsLifecycle
<1>1. Init => Lifecycle!Init
  <2> SUFFICES ASSUME Init PROVE Lifecycle!Init
    OBVIOUS
  <2>1. \A j \in Jobs : job[j].status = "absent" /\ job[j].turn = None
    BY DEF Init, AbsentRow
  <2>2. QED BY <2>1, PhaseNames DEF Lifecycle!Init, Phase, Runner
<1>2. StoreInv /\ [Next]_vars => [Lifecycle!Next]_(Lifecycle!vars)
  BY StoreStepImplements
<1>3. QED BY <1>1, <1>2, StoreInvariant, PTL DEF Spec, ImplementsLifecycle, Lifecycle!Spec

-----------------------------------------------------------------------------
(***************************************************************************)
(* A conversation is claimed from its front.                               *)
(***************************************************************************)
\* An earlier candidate of the same selection fits whenever a later one does.
LEMMA FitsEarlier ==
  ASSUME NEW C \in SUBSET Jobs, NEW j \in FittingPrefix(C), NEW k \in C, k <= j
  PROVE  k \in FittingPrefix(C)
<1> DEFINE upto(i) == {m \in C : m <= i}
<1>1. C \subseteq Nat /\ j \in Nat /\ k \in Nat
  BY RelayStoreAssumption DEF FittingPrefix
<1>2. Cardinality(upto(j)) <= BatchLimit /\ upto(j) \cap Oversized = {}
  BY DEF FittingPrefix
<1>3. upto(k) \subseteq upto(j)
  <2>1. \A m \in C : m <= k => m <= j
    BY <1>1
  <2>2. QED BY <2>1
<1>4. IsFiniteSet(upto(j))
  <2>1. upto(j) \in SUBSET Nat /\ \A m \in upto(j) : m <= j
    BY <1>1
  <2> HIDE DEF upto
  <2>2. QED BY <1>1, <2>1, FS_BoundedSetOfNaturals
<1>5. /\ Cardinality(upto(k)) \in Nat /\ Cardinality(upto(j)) \in Nat
      /\ Cardinality(upto(k)) <= Cardinality(upto(j))
  <2> HIDE DEF upto
  <2>1. upto(k) \in SUBSET upto(j) BY <1>3
  <2>2. QED BY <1>4, <2>1, FS_Subset, FS_CardinalityType
<1>6. Cardinality(upto(k)) <= BatchLimit
  <2> HIDE DEF upto
  <2>1. QED BY <1>2, <1>5, RelayStoreAssumption
<1>7. upto(k) \cap Oversized = {}
  BY <1>2, <1>3
<1>8. QED BY <1>6, <1>7 DEF FittingPrefix

\* Outside controls, a claim that selects a message has every earlier ready
\* message of its conversation among the candidates.
LEMMA ConversationIsCandidate ==
  ASSUME NEW c \in Connectors, NEW j \in Candidates(c), j \notin Control,
         NEW k \in Ready, ConvOf[k] = ConvOf[j]
  PROVE  k \in Candidates(c) /\ Candidates(c) \subseteq Ready
<1>1. Claimable(c) \cap Control = {}
  BY DEF Candidates, FirstControl
<1>2. Candidates(c) = Claimable(c)
  BY <1>1 DEF Candidates
<1>3. k \in Claimable(c)
  BY <1>2 DEF Claimable
<1>4. QED BY <1>2, <1>3 DEF Claimable

\* A claim leases a message only with the earlier ready ones of its conversation.
LEMMA ClaimInOrder ==
  ASSUME NEW c \in Connectors, NEW S \in SUBSET Jobs, ClaimRelayJobBatch(c, S),
         NEW j \in S, j \notin Control, NEW k \in Ready, ConvOf[k] = ConvOf[j], k < j
  PROVE  k \in S
<1>1. S = FittingPrefix(Candidates(c))
  BY DEF ClaimRelayJobBatch
<1>2. j \in Candidates(c)
  BY <1>1 DEF FittingPrefix
<1>3. k \in Candidates(c) /\ Candidates(c) \subseteq Ready
  BY <1>2, ConversationIsCandidate
<1>4. Candidates(c) \in SUBSET Jobs /\ k \in Nat /\ j \in Nat
  BY <1>3, RelayStoreAssumption DEF Ready, Lapsed
<1>5. QED BY <1>1, <1>3, <1>4, FitsEarlier

\* Only a claim starts a lease.
LEMMA OnlyClaimLeases ==
  ASSUME StoreInv, [Next]_vars, NEW j \in Jobs, Newly(j)
  PROVE  \E c \in Connectors, S \in SUBSET Jobs : ClaimRelayJobBatch(c, S) /\ j \in S
<1>0. job \in [Jobs -> JobRows] /\ job[j] \in JobRows /\ JobLease \in Nat \ {0}
  BY RelayStoreAssumption DEF StoreInv, TypeOK
<1>1. job'[j] # job[j] /\ job'[j].status = "leased"
  BY <1>0 DEF Newly
<1>2. ASSUME NEW k \in Jobs, NEW ttl \in 1..JobTtl, EnqueueRelayJob(k, ttl)
      PROVE  FALSE
  <2>1. job'[j] = job[j] \/ job'[j] = PendingRow(ttl)
    BY <1>0, <1>2 DEF EnqueueRelayJob
  <2>2. QED BY <1>1, <2>1 DEF PendingRow
<1>3. ASSUME ExpireRelayJobs PROVE FALSE
  BY <1>0, <1>1, <1>3, SettleType DEF ExpireRelayJobs, Update, Overdue, Statuses
<1>4. ASSUME NEW c \in Connectors, NEW S \in SUBSET Jobs, ClaimRelayJobBatch(c, S), j \notin S
      PROVE  FALSE
  BY <1>0, <1>1, <1>4, UnleaseType DEF ClaimRelayJobBatch, Update
<1>5. ASSUME NEW c \in Connectors, RegisterRelaySession(c) PROVE FALSE
  BY <1>0, <1>1, <1>5, UnleaseType DEF RegisterRelaySession, Update
<1>6. ASSUME NEW c \in Connectors, NEW S \in Batches, ReleaseRelayJobBatch(c, S) PROVE FALSE
  BY <1>0, <1>1, <1>6, UnleaseType DEF ReleaseRelayJobBatch, Update
<1>7. ASSUME NEW c \in Connectors, NEW S \in Batches, NEW t \in Turns, AcceptRelayJobBatch(c, S, t)
      PROVE  FALSE
  BY <1>0, <1>1, <1>7, AcceptedType DEF AcceptRelayJobBatch, Update
<1>8. ASSUME NEW c \in Connectors, NEW S \in Batches, NEW t, FailRelayJobBatch(c, S, t) PROVE FALSE
  BY <1>0, <1>1, <1>8, SettleType DEF FailRelayJobBatch, Update, Statuses
<1>9. ASSUME NEW S \in Batches, NEW t \in Turns, NEW result \in {"skip", "reply"}, NEW batch,
             FinalizeRelayJobBatch(batch, S, t, result)
      PROVE  FALSE
  BY <1>0, <1>1, <1>9, CompletedType DEF FinalizeRelayJobBatch, Update
<1>10. ASSUME Tick PROVE FALSE
  <2>1. job'[j] = Aged(job[j]) /\ job[j].status = "leased"
    BY <1>0, <1>1, <1>10, AgedType DEF Tick
  <2>2. job[j].lease = 0 BY <2>1 DEF Newly
  <2>3. job'[j].lease = Less(job[j].lease) BY <1>0, <2>1 DEF Aged, JobRows
  <2>4. QED BY <1>0, <2>2, <2>3 DEF Newly, Less
<1>11. ASSUME UNCHANGED job PROVE FALSE
  BY <1>1, <1>11
<1>12. ASSUME NEW c \in Connectors, HeartbeatRelaySession(c) \/ DisconnectRelaySession(c)
       PROVE  FALSE
  BY <1>11, <1>12 DEF HeartbeatRelaySession, DisconnectRelaySession
<1>13. ~GetRelaySession BY <1>11 DEF GetRelaySession
<1>14. Next BY <1>11 DEF vars
<1>15. QED
  BY <1>2, <1>3, <1>4, <1>5, <1>6, <1>7, <1>8, <1>9, <1>10, <1>12, <1>13, <1>14 DEF Next

\* A claim never leases a message and leaves an earlier waiting message of the
\* same chat behind, whatever the frame holds, whoever can take attachments
\* (StateStore.claimRelayJobBatch).
THEOREM ConversationsInOrder == Spec => ConversationOrder
<1>1. ASSUME StoreInv, [Next]_vars, NEW j \in Jobs \ Control, NEW k \in Ready,
             Newly(j), ConvOf[k] = ConvOf[j], k < j
      PROVE  Newly(k)
  <2>1. PICK c \in Connectors, S \in SUBSET Jobs : ClaimRelayJobBatch(c, S) /\ j \in S
    BY <1>1, OnlyClaimLeases
  <2>2. k \in S BY <1>1, <2>1, ClaimInOrder
  <2>3. job[k] \in JobRows BY <1>1, <2>2 DEF StoreInv, TypeOK
  <2>4. job'[k] = ClaimedRow(job[k], c) BY <2>1, <2>2 DEF ClaimRelayJobBatch, Update
  <2>5. job'[k].status = "leased" /\ job'[k].lease = JobLease
    BY <2>3, <2>4 DEF ClaimedRow, JobRows
  <2>6. job[k].status # "leased" \/ job[k].lease = 0 BY <1>1 DEF Ready, Lapsed
  <2>7. QED BY <2>5, <2>6 DEF Newly
<1>2. StoreInv /\ [Next]_vars =>
        [\A j \in Jobs \ Control, k \in Ready :
           Newly(j) /\ ConvOf[k] = ConvOf[j] /\ k < j => Newly(k)]_vars
  BY <1>1
<1>3. QED BY <1>2, StoreInvariant, PTL DEF Spec, ConversationOrder
=============================================================================
