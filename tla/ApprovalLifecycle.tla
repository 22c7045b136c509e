------------------------- MODULE ApprovalLifecycle -------------------------
(***************************************************************************)
(* What the bridge promises about a permission request of the app-server,  *)
(* without pipes, connectors or clocks: the owner is asked once, at most    *)
(* one decision is recorded, and the app-server gets one answer, which is   *)
(* "approve" only if that decision was.  RelayApprovals implements this.    *)
(***************************************************************************)
CONSTANTS
  Requests,  \* requests of the app-server
  Refusable, \* requests a connector may refuse without asking the owner
  None       \* no decision, no answer

VARIABLES
  status,    \* status[a]: the state of the recorded approval
  verdict,   \* verdict[a]: what was decided, kept when it is cancelled later
  answer     \* answer[a]: what the app-server was told

vars == <<status, verdict, answer>>

Verdicts == {"approved", "denied", "expired"}
Statuses == {"none", "pending", "cancelled"} \cup Verdicts

Init ==
  /\ status = [a \in Requests |-> "none"]
  /\ verdict = [a \in Requests |-> None]
  /\ answer = [a \in Requests |-> None]

Record(a) ==
  /\ status[a] = "none"
  /\ status' = [status EXCEPT ![a] = "pending"]
  /\ UNCHANGED <<verdict, answer>>

\* Deadlines are noticed for all requests at once.
Decide(S, v) ==
  /\ \A a \in S : status[a] = "pending"
  /\ status' = [a \in Requests |-> IF a \in S THEN v ELSE status[a]]
  /\ verdict' = [a \in Requests |-> IF a \in S THEN v ELSE verdict[a]]
  /\ UNCHANGED answer

Cancel(a) ==
  /\ status[a] # "none"
  /\ status' = [status EXCEPT ![a] = "cancelled"]
  /\ UNCHANGED <<verdict, answer>>

\* Everything but an approval is a denial.
Answer(a) ==
  /\ answer[a] = None
  /\ verdict[a] \in Verdicts
  /\ answer' = [answer EXCEPT ![a] = IF verdict[a] = "approved" THEN "approve" ELSE "deny"]
  /\ UNCHANGED <<status, verdict>>

Refuse(a) ==
  /\ a \in Refusable
  /\ answer[a] = None
  /\ answer' = [answer EXCEPT ![a] = "deny"]
  /\ UNCHANGED <<status, verdict>>

Next ==
  \/ \E a \in Requests : Record(a) \/ Cancel(a) \/ Answer(a) \/ Refuse(a)
  \/ \E S \in SUBSET Requests : \E v \in Verdicts : Decide(S, v)

Spec == Init /\ [][Next]_vars
=============================================================================
