----------------------------- MODULE RelayStore -----------------------------
(***************************************************************************)
(* The relay_jobs and relay_sessions tables of the shared SQLite store, and *)
(* one action per StateStore operation on them.  Every operation is one     *)
(* SQLite transaction (or one statement), so every action is atomic; the    *)
(* callers live in different processes, so Next lets any of them come next. *)
(*                                                                         *)
(* Time.  The code compares absolute times with the clock it is handed      *)
(* (lease_expires_at_ms <= now, expires_at_ms <= now).  The model keeps the *)
(* time LEFT of each deadline, counted down by Tick: "<= now" is "= 0".     *)
(* Job identities are numbers in the order the code sorts by, which is      *)
(* (created_at_ms, job_id): job i is created no later than job j iff i < j. *)
(* Only rows a clock still matters to (pending, leased) keep running ages;  *)
(* the columns of settled rows are normalised to 0.                         *)
(***************************************************************************)
EXTENDS Integers, FiniteSets

CONSTANTS
  Jobs,            \* a set of naturals: relay_jobs.job_id, by creation order
  Connectors,      \* connector identities, fresh for every connector process
  Turns,           \* Codex turn identities
  ThreadOf,        \* ThreadOf[c]: the Codex session connector c speaks for
  ConvOf,          \* ConvOf[j]: relay_jobs.conversation_key
  Control,         \* jobs whose payload has dispatch.bypassCoalesce
  WithAttachments, \* jobs whose payload carries attachments
  Oversized,       \* jobs that exceed the frame byte limit on their own
  AttachCapable,   \* connectors that negotiated attachment transfer
  BatchLimit,      \* how many ordinary jobs fit into one frame
  JobLease, SessionLease, JobTtl,      \* lease and time-to-live lengths
  QuietMs, MaxWaitMs,                  \* coalescing windows (0: disabled)
  None             \* SQL NULL

ASSUME RelayStoreAssumption ==
  /\ Jobs \subseteq Nat
  /\ ThreadOf \in [Connectors -> {ThreadOf[c] : c \in Connectors}]
  /\ ConvOf \in [Jobs -> {ConvOf[j] : j \in Jobs}]
  /\ {JobLease, SessionLease, JobTtl} \subseteq Nat \ {0}
  /\ BatchLimit \in Nat \ {0}
  /\ QuietMs \in Nat /\ MaxWaitMs \in Nat /\ QuietMs <= MaxWaitMs
  /\ None \notin Connectors /\ None \notin Turns

VARIABLES
  job,      \* job[j]: the relay_jobs row, status "absent" before its INSERT
  session,  \* the relay_sessions row of the label both sides are configured with
  answers   \* the final outbound actions, one record per recorded batch

vars == <<job, session, answers>>

Statuses == {"absent", "pending", "leased", "accepted", "completed", "failed", "expired"}
Settled == {"completed", "failed", "expired"}

Batches == (SUBSET Jobs) \ {{}}

JobRows ==
  [status : Statuses, owner : Connectors \cup {None}, lease : 0..JobLease,
   ttl : 0..JobTtl, age : 0..MaxWaitMs, turn : Turns \cup {None},
   result : {"none", "skip", "reply"}]

SessionRows ==
  [status : {"offline", "online"}, connector : Connectors \cup {None},
   lease : 0..SessionLease]

\* Final outbound actions carry ids derived from the batch id, and the batch
\* id names only the first and the last job of the batch.
AnswerRows == [batch : Jobs \X Jobs, jobs : Batches, turn : Turns]

TypeOK ==
  /\ job \in [Jobs -> JobRows]
  /\ session \in SessionRows
  /\ answers \subseteq AnswerRows

AbsentRow ==
  [status |-> "absent", owner |-> None, lease |-> 0, ttl |-> 0, age |-> 0,
   turn |-> None, result |-> "none"]

PendingRow(ttl) ==
  [status |-> "pending", owner |-> None, lease |-> 0, ttl |-> ttl, age |-> 0,
   turn |-> None, result |-> "none"]

OfflineRow == [status |-> "offline", connector |-> None, lease |-> 0]

Init ==
  /\ job = [j \in Jobs |-> AbsentRow]
  /\ session = OfflineRow
  /\ answers = {}

-----------------------------------------------------------------------------
(***************************************************************************)
(* Row updates shared by the statements.                                   *)
(***************************************************************************)
\* SET status = s, lease_owner = NULL, lease_expires_at_ms = NULL, on a row no
\* clock matters to any more.
Settle(row, s) == [row EXCEPT !.status = s, !.owner = None, !.lease = 0,
                              !.ttl = 0, !.age = 0]

\* Mutant: the lease ends but its owner is not cleared.
UnleaseKeepingOwner(row) ==
  IF row.ttl = 0 THEN Settle(row, "expired")
  ELSE [row EXCEPT !.status = "pending", !.lease = 0]

\* CASE WHEN expires_at_ms <= now THEN 'expired' ELSE 'pending' END
Unlease(row) ==
  IF row.ttl = 0 THEN Settle(row, "expired")
  ELSE [row EXCEPT !.status = "pending", !.owner = None, !.lease = 0]

ClaimedRow(row, c) == [row EXCEPT !.status = "leased", !.owner = c, !.lease = JobLease]

AcceptedRow(row, t) == [Settle(row, "accepted") EXCEPT !.turn = t]

CompletedRow(row, result) == [row EXCEPT !.status = "completed", !.result = result]

\* The table after an UPDATE that gives some of the jobs new rows.
Update(rows) == [j \in Jobs |-> IF j \in DOMAIN rows THEN rows[j] ELSE job[j]]

LeasedTo(c) == {j \in Jobs : job[j].status = "leased" /\ job[j].owner = c}

\* Mutant: only waiting jobs expire.
OverduePending == {j \in Jobs : job[j].ttl = 0 /\ job[j].status = "pending"}

\* The rows expireRelayJobs updates.
Overdue ==
  {j \in Jobs : /\ job[j].ttl = 0
                /\ \/ job[j].status = "pending"
                   \/ job[j].status = "leased" /\ job[j].lease = 0}

\* The rows the second UPDATE of a claim returns to the queue.
Lapsed == {j \in Jobs : job[j].status = "leased" /\ job[j].lease = 0 /\ job[j].ttl > 0}

-----------------------------------------------------------------------------
(***************************************************************************)
(* relay_jobs                                                              *)
(***************************************************************************)
\* INSERT OR IGNORE: a job id that exists already leaves the table alone.
EnqueueRelayJob(j, ttl) ==
  /\ job[j].status = "absent"
  /\ \A k \in Jobs : k < j => job[k].status # "absent"
  /\ job' = [job EXCEPT ![j] = PendingRow(ttl)]
  /\ UNCHANGED <<session, answers>>

ExpireRelayJobs ==
  /\ Overdue # {}
  /\ job' = Update([j \in Overdue |-> Settle(job[j], "expired")])
  /\ UNCHANGED <<session, answers>>

\* Pending, unexpired rows once a claim has run its two leading UPDATEs.
Ready == {j \in Jobs : job[j].status = "pending" /\ job[j].ttl > 0} \cup Lapsed

\* Mutant: only the job with the attachment waits.
ClaimableJobByJob(c) == {j \in Ready : c \in AttachCapable \/ j \notin WithAttachments}

\* A conversation with an attachment waits for a connector that can take it.
Claimable(c) ==
  {j \in Ready : c \in AttachCapable
                 \/ \A k \in Ready : ConvOf[k] = ConvOf[j] => k \notin WithAttachments}

\* Coalescing: hold the batch until the newest job has been quiet long enough
\* or the oldest has waited too long.
Coalescing(R) ==
  /\ QuietMs > 0
  /\ \E j \in R : job[j].age < QuietMs
  /\ \A j \in R : job[j].age < MaxWaitMs

\* The oldest conversation that has a control job contributes that control and
\* nothing else.  Conversations are ordered by their oldest ready job.
FirstControl(R) ==
  LET Oldest(k) == CHOOSE i \in {i \in R : ConvOf[i] = ConvOf[k]} :
                     \A m \in R : ConvOf[m] = ConvOf[k] => i <= m
  IN  {j \in R \cap Control :
         \A k \in R \cap Control : \/ Oldest(j) < Oldest(k)
                                   \/ ConvOf[j] = ConvOf[k] /\ j <= k}

Candidates(c) ==
  LET R == Claimable(c)
  IN  IF R \cap Control # {} THEN FirstControl(R)
      ELSE IF Coalescing(R) THEN {} ELSE R

\* The longest prefix of the candidates that fits into a frame.
FittingPrefix(C) ==
  {j \in C : LET upto == {k \in C : k <= j}
             IN  Cardinality(upto) <= BatchLimit /\ upto \cap Oversized = {}}

\* The whole transaction: expire, reclaim lapsed leases, select and lease.  An
\* empty selection still commits the first two UPDATEs.
ClaimRelayJobBatch(c, S) ==
  /\ S = FittingPrefix(Candidates(c))
  /\ S = {} => Candidates(c) = {}
  /\ job' = Update([j \in S \cup Overdue \cup Lapsed |->
                      IF j \in S THEN ClaimedRow(job[j], c) ELSE Unlease(job[j])])
  /\ UNCHANGED <<session, answers>>

\* 'oldest relay job exceeds the frame byte limit': nothing commits.
ClaimThrows(c) == Candidates(c) # {} /\ FittingPrefix(Candidates(c)) = {}

\* Mutants: accept whatever is leased, to anyone; accept one row of the batch.
AcceptLeasedToAnyone(c, S, t) ==
  /\ \A j \in S : job[j].status = "leased"
  /\ job' = Update([j \in S |-> AcceptedRow(job[j], t)])
  /\ UNCHANGED <<session, answers>>

AcceptOne(c, S, t) ==
  /\ S \subseteq LeasedTo(c)
  /\ \E j \in S : job' = [job EXCEPT ![j] = AcceptedRow(@, t)]
  /\ UNCHANGED <<session, answers>>

AcceptRelayJobBatch(c, S, t) ==
  /\ S \subseteq LeasedTo(c)
  /\ job' = Update([j \in S |-> AcceptedRow(job[j], t)])
  /\ UNCHANGED <<session, answers>>

ReleaseRelayJobBatch(c, S) ==
  /\ S \subseteq LeasedTo(c)
  /\ job' = Update([j \in S |-> Unlease(job[j])])
  /\ UNCHANGED <<session, answers>>

OwnedBy(t) == {j \in Jobs : job[j].status = "accepted" /\ job[j].turn = t}

\* Mutant: only the first job of the batch is completed.
FinalizeFirst(batch, S, t, result) ==
  /\ S \subseteq OwnedBy(t)
  /\ job' = [job EXCEPT ![batch[1]] = CompletedRow(job[batch[1]], result)]
  /\ UNCHANGED <<session, answers>>

\* Mutant: the turn is compared, the status is not.
FinalizeByTurnOnly(batch, S, t, result) ==
  /\ \A j \in S : job[j].turn = t
  /\ job' = Update([j \in S |-> CompletedRow(job[j], result)])
  /\ answers' = IF result = "skip" \/ \E a \in answers : a.batch = batch
                THEN answers
                ELSE answers \cup {[batch |-> batch, jobs |-> S, turn |-> t]}
  /\ UNCHANGED session

\* Completing the jobs and creating the outbound actions is one transaction;
\* createOutboundAction is INSERT OR IGNORE on the action id.
FinalizeRelayJobBatch(batch, S, t, result) ==
  /\ S \subseteq OwnedBy(t)
  /\ job' = Update([j \in S |-> CompletedRow(job[j], result)])
  /\ answers' = IF result = "skip" \/ \E a \in answers : a.batch = batch
                THEN answers
                ELSE answers \cup {[batch |-> batch, jobs |-> S, turn |-> t]}
  /\ UNCHANGED session

\* Mutant: a failure in the name of a turn forgets to check the status.
FailByTurnOnly(c, S, t) ==
  /\ \A j \in S : j \in LeasedTo(c) \/ job[j].turn = t
  /\ job' = Update([j \in S |-> Settle(job[j], "failed")])
  /\ UNCHANGED <<session, answers>>

\* A failure names the connector (before acceptance) or the turn (after it).
FailRelayJobBatch(c, S, t) ==
  /\ S \subseteq LeasedTo(c) \cup OwnedBy(t)
  /\ job' = Update([j \in S |-> Settle(job[j], "failed")])
  /\ UNCHANGED <<session, answers>>

-----------------------------------------------------------------------------
(***************************************************************************)
(* relay_sessions                                                          *)
(***************************************************************************)
SessionLapsed == session.status = "online" /\ session.lease = 0

\* The UPDATE at the head of getRelaySession, which any reader runs.
GetRelaySession ==
  /\ SessionLapsed
  /\ session' = OfflineRow
  /\ UNCHANGED <<job, answers>>

Holder == IF SessionLapsed THEN None ELSE session.connector

\* registerRelaySession refuses a second thread and fences the connector it
\* replaces by returning that connector's leased jobs to the queue.
CanRegister(c) == Holder # None => ThreadOf[Holder] = ThreadOf[c]

RegisterRelaySession(c) ==
  /\ CanRegister(c)
  /\ job' = IF Holder \in {None, c} THEN job ELSE Update([j \in LeasedTo(Holder) |-> Unlease(job[j])])
  /\ session' = [status |-> "online", connector |-> c, lease |-> SessionLease]
  /\ UNCHANGED answers

OwnsRelaySession(c) == session.status = "online" /\ session.connector = c

HeartbeatRelaySession(c) ==
  /\ OwnsRelaySession(c)
  /\ session' = [session EXCEPT !.lease = SessionLease]
  /\ UNCHANGED <<job, answers>>

DisconnectRelaySession(c) ==
  /\ OwnsRelaySession(c)
  /\ session' = OfflineRow
  /\ UNCHANGED <<job, answers>>

-----------------------------------------------------------------------------
\* Mutant: a deadline runs past zero.
LessUnfloored(n) == n - 1

Less(n) == IF n > 0 THEN n - 1 ELSE 0
Older(n) == IF n < MaxWaitMs THEN n + 1 ELSE n

\* One unit of time passes for every deadline and every waiting job.
Aged(row) ==
  IF row.status \in {"pending", "leased"}
  THEN [row EXCEPT !.lease = Less(row.lease), !.ttl = Less(row.ttl),
                   !.age = Older(row.age)]
  ELSE row

Tick ==
  /\ job' = [j \in Jobs |-> Aged(job[j])]
  /\ session' = [session EXCEPT !.lease = Less(session.lease)]
  /\ UNCHANGED answers

\* The batch id of S that a caller derives: its first and its last job.
Ends(S) == {e \in S \X S : \A k \in S : e[1] <= k /\ k <= e[2]}

Next ==
  \/ \E j \in Jobs, ttl \in 1..JobTtl : EnqueueRelayJob(j, ttl)
  \/ ExpireRelayJobs
  \/ \E c \in Connectors :
       \/ \E S \in SUBSET Jobs : ClaimRelayJobBatch(c, S)
       \/ RegisterRelaySession(c)
       \/ HeartbeatRelaySession(c)
       \/ DisconnectRelaySession(c)
       \/ \E S \in Batches : ReleaseRelayJobBatch(c, S)
       \/ \E S \in Batches, t \in Turns : AcceptRelayJobBatch(c, S, t)
       \/ \E S \in Batches, t \in Turns \cup {None} : FailRelayJobBatch(c, S, t)
  \/ \E S \in Batches, t \in Turns, result \in {"skip", "reply"} :
       \E batch \in Ends(S) : FinalizeRelayJobBatch(batch, S, t, result)
  \/ GetRelaySession
  \/ Tick

Spec == Init /\ [][Next]_vars
=============================================================================
