-------------------------- MODULE RelayStoreProps --------------------------
(* Properties of the tables of RelayStore under any order of calls.         *)
EXTENDS RelayStore

(***************************************************************************)
(* What the columns of a row say about one another: a lease column is set  *)
(* exactly while a row is leased, a turn exactly once a turn accepted it,   *)
(* a result exactly when it completed.                                      *)
(***************************************************************************)
LeasesConsistent == \A j \in Jobs : job[j].status = "leased" <=> job[j].owner # None

TurnsConsistent ==
  \A j \in Jobs : /\ job[j].status \in {"accepted", "completed"} => job[j].turn # None
                  /\ job[j].status \in {"absent", "pending", "leased", "expired"} => job[j].turn = None

ResultsConsistent == \A j \in Jobs : job[j].status = "completed" <=> job[j].result # "none"

\* The outbound actions of a batch exist only for jobs their turn completed,
\* with a reply (StateStore.finalizeRelayJobBatch).
AnswersEarned ==
  \A a \in answers : \A j \in a.jobs :
    job[j].status = "completed" /\ job[j].turn = a.turn /\ job[j].result = "reply"

\* No reply is lost or doubled although outbound action ids are derived from
\* the ends of the batch only and inserted with OR IGNORE: every job completed
\* with a reply is in exactly one recorded answer (finalizeRelayJobBatch).
RepliesKeptOnce ==
  \A j \in Jobs : job[j].result = "reply" =>
    /\ \E a \in answers : j \in a.jobs
    /\ \A a, b \in answers : j \in a.jobs \cap b.jobs => a = b

\* The columns of a row agree with one another, and with the recorded answers,
\* after every statement of the store (acceptRelayJobBatch to failRelayJob).
RowInv == LeasesConsistent /\ TurnsConsistent /\ ResultsConsistent /\ AnswersEarned

\* A conversation is read in order: a claim never leases a message while it
\* leaves an earlier waiting message of the same chat behind, whichever
\* connector claims, whatever fits the frame, whoever can take attachments
\* (StateStore.claimRelayJobBatch).
Newly(j) ==
  /\ job'[j].status = "leased" /\ job'[j].lease = JobLease
  /\ job[j].status # "leased" \/ job[j].lease = 0

ConversationOrder ==
  [][\A j \in Jobs \ Control, k \in Ready :
       Newly(j) /\ ConvOf[k] = ConvOf[j] /\ k < j => Newly(k)]_vars

-----------------------------------------------------------------------------
PhaseOf(status) ==
  CASE status \in {"pending", "leased"} -> "queued"
    [] status = "accepted" -> "running"
    [] status = "completed" -> "answered"
    [] OTHER -> status

Phase == [j \in Jobs |-> PhaseOf(job[j].status)]

Runner == [j \in Jobs |-> job[j].turn]

Lifecycle == INSTANCE JobLifecycle WITH phase <- Phase, runner <- Runner

\* Whatever order the processes call the store in, a job is handed to at most
\* one recorded turn, only that turn answers it, and a settled job stays as it
\* is (all relay_jobs statements of StateStore).
ImplementsLifecycle == Lifecycle!Spec
=============================================================================
