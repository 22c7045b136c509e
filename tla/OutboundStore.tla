---------------------------- MODULE OutboundStore ----------------------------
(***************************************************************************)
(* The outbound_actions table: what Telegram is still to be told, one row  *)
(* per Bot API call, with the statements the transport service and the     *)
(* relays run on it.  Long answers are split into chunks that share a       *)
(* sequence group and must arrive in order.                                *)
(*                                                                         *)
(* next_attempt_at_ms is kept as what the queries ask of it: NULL, in the  *)
(* past, or in the future.                                                 *)
(***************************************************************************)
EXTENDS Naturals, FiniteSets

CONSTANTS
  Actions,     \* outbound_actions.action_id
  Group,       \* Group[a]: sequence_group
  Index,       \* Index[a]: sequence_index
  ClaimLimit   \* LIMIT of one claim (16)

VARIABLE action   \* action[a]: the row, status "absent" before its INSERT

OutboundRows ==
  [status : {"absent", "pending", "sending", "sent", "ambiguous", "failed"},
   due : {"never", "now", "later"}]

OutboundTypeOK == action \in [Actions -> OutboundRows]

Row(status, due) == [status |-> status, due |-> due]

Init == action = [a \in Actions |-> Row("absent", "never")]

SetRows(S, row) == action' = [a \in Actions |-> IF a \in S THEN row ELSE action[a]]

With(status) == {a \in Actions : action[a].status = status}

Waiting == With("pending") \cup With("failed")

\* INSERT OR IGNORE, for all actions of one transaction.
CreateOutboundActions(S) == SetRows(S \cap With("absent"), Row("pending", "now"))

Before(a) == {b \in Actions : Group[b] = Group[a] /\ Index[b] < Index[a]}

Due == {a \in Waiting : action[a].due = "now"}

\* A chunk waits until every chunk before it has been sent.
Claimable == {a \in Due : Before(a) \subseteq With("sent") \cup With("absent")}

\* Mutant: chunks are claimed as soon as they are due.
ClaimAnyDue(S) ==
  /\ S \subseteq Due
  /\ S = Due \/ Cardinality(S) = ClaimLimit
  /\ action' = [a \in Actions |-> IF a \in S THEN [action[a] EXCEPT !.status = "sending"]
                                  ELSE action[a]]

ClaimDueOutboundActions(S) ==
  /\ S \subseteq Claimable
  /\ S = Claimable \/ Cardinality(S) = ClaimLimit
  /\ action' = [a \in Actions |-> IF a \in S THEN [action[a] EXCEPT !.status = "sending"]
                                  ELSE action[a]]

MarkOutboundSent(a) == a \in With("sending") /\ SetRows({a}, Row("sent", "never"))

MarkOutboundAmbiguous(a) == a \in With("sending") /\ SetRows({a}, Row("ambiguous", "never"))

MarkOutboundFailed(a, due) == a \in With("sending") /\ SetRows({a}, Row("failed", due))

SupersedeOutboundActions(S) == SetRows(S \cap Waiting, Row("failed", "never"))

\* Mutant: an interrupted call is simply tried again.
RetryInterrupted == SetRows(With("sending"), Row("failed", "now"))

\* After a restart nobody knows what became of a call that was under way.
RecoverInterruptedOutboundActions == SetRows(With("sending"), Row("ambiguous", "never"))

\* The time of a retry comes.
RetryComesDue(a) ==
  /\ a \in Waiting /\ action[a].due = "later"
  /\ SetRows({a}, Row(action[a].status, "now"))

\* countUndeliveredOutboundActions counts these.
Undelivered == With("pending") \cup With("sending") \cup {a \in With("failed") : action[a].due # "never"}

\* A failure nobody retries.
GivenUp(a) == action[a] = Row("failed", "never")

\* A chunk that was ever handed to Telegram and not refused: all before it arrived.
\* This is what claimDueOutboundActions promises the readers of a long answer.
SentInOrder ==
  \A b \in With("sending") \cup With("sent") \cup With("ambiguous") : Before(b) \subseteq With("sent")

\* Every caller creates the chunks of a group in one transaction.
Next ==
  \/ \E g \in {Group[a] : a \in Actions} : CreateOutboundActions({a \in Actions : Group[a] = g})
  \/ \E S \in SUBSET Actions : ClaimDueOutboundActions(S) \/ SupersedeOutboundActions(S)
  \/ \E a \in Actions :
       \/ MarkOutboundSent(a) \/ MarkOutboundAmbiguous(a)
       \/ \E due \in {"never", "later"} : MarkOutboundFailed(a, due)
       \/ RetryComesDue(a)
  \/ RecoverInterruptedOutboundActions

Spec == Init /\ [][Next]_action
=============================================================================
