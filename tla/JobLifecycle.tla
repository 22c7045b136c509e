---------------------------- MODULE JobLifecycle ----------------------------
(***************************************************************************)
(* What the relay promises about a Telegram message, without leases,       *)
(* connectors, frames or clocks: a job is queued once, is either handed to *)
(* exactly one Codex turn or dropped, and what happened to it is never     *)
(* rewritten.  RelayStore (the relay_jobs table) implements this module,   *)
(* and so does RelayProtocol, which adds the processes that use the table. *)
(***************************************************************************)
CONSTANTS
  Jobs,    \* job identities ("telegram:<update id>")
  Turns,   \* Codex turn identities
  None     \* no turn

VARIABLES
  phase,   \* phase[j]: how far job j has come
  runner   \* runner[j]: the one turn that ever owned job j, or None

vars == <<phase, runner>>

Phases == {"absent", "queued", "running", "answered", "failed", "expired"}

Init ==
  /\ phase = [j \in Jobs |-> "absent"]
  /\ runner = [j \in Jobs |-> None]

To(S, p) == phase' = [j \in Jobs |-> IF j \in S THEN p ELSE phase[j]]

Submit(j) ==
  /\ phase[j] = "absent"
  /\ To({j}, "queued")
  /\ UNCHANGED runner

\* A job whose time to live ran out before any turn owned it.
Expire(S) ==
  /\ \A j \in S : phase[j] = "queued"
  /\ To(S, "expired")
  /\ UNCHANGED runner

\* A turn becomes the owner of a whole batch.
Run(S, t) ==
  /\ \A j \in S : phase[j] = "queued"
  /\ To(S, "running")
  /\ runner' = [j \in Jobs |-> IF j \in S THEN t ELSE runner[j]]

\* Only the owner can answer.
Answer(S, t) ==
  /\ \A j \in S : phase[j] = "running" /\ runner[j] = t
  /\ To(S, "answered")
  /\ UNCHANGED runner

Fail(S) ==
  /\ \A j \in S : phase[j] \in {"queued", "running"}
  /\ To(S, "failed")
  /\ UNCHANGED runner

Next ==
  \/ \E j \in Jobs : Submit(j)
  \/ \E S \in SUBSET Jobs : Expire(S) \/ Fail(S)
  \/ \E S \in SUBSET Jobs, t \in Turns : Run(S, t) \/ Answer(S, t)

Spec == Init /\ [][Next]_vars
=============================================================================
