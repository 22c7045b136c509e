------------------------ MODULE RelayApprovalsProps ------------------------
(* Properties of approvals and receipts between the owner and the app-server. *)
EXTENDS RelayApprovals

\* At most one tap decides a request, and the app-server hears "approve" only if
\* the owner's deciding tap said so, through redelivery to other connectors,
\* cancels and expiry (resolveRelayApproval, rebindRelayApproval, claimOnce).
OneDecision ==
  \A a \in Requests :
    LET winners == {u \in Taps : tap[u].won /\ tap[u].request = a}
    IN  /\ Cardinality(winners) <= 1
        /\ ask[a].answer = "approve" => \E u \in winners : tap[u].decision = "approve"

\* A failed delivery that was acknowledged is known to a connector: it remembers
\* it, has put it into a turn, or took it along when it died; or MaxFailures newer
\* failures have pushed it out since (#rememberDeliveryFailure and delivery_receipt
\* in #handleRelayFrame, #handleDeliveryRecorded).
FailuresKnown ==
  \A r \in Receipts :
    receipt[r].status = "failed" /\ receipt[r].delivered =>
      \E c \in Connectors :
        \/ r \in conn[c].failures \cup conn[c].injected
        \/ conn[c].newer[r] >= MaxFailures

\* Every step is one the approval lifecycle allows: one prompt, one decision that
\* is never rewritten, one answer that agrees with it.
Lifecycle == INSTANCE ApprovalLifecycle WITH
  Refusable <- GuestTurns,
  status <- [a \in Requests |-> approval[a].state],
  verdict <- [a \in Requests |-> approval[a].verdict],
  answer <- [a \in Requests |-> ask[a].answer]

ImplementsApprovals == Lifecycle!Spec

\* c and its relay are connected and no earlier relay is left.
Undisturbed(c) ==
  /\ Up(c) /\ relay[c].pc = "open" /\ relay[c].hello /\ ~relay[c].fatal /\ session = c
  /\ \A d \in Connectors \ {c} : relay[d].pc \in {"none", "gone"}

\* README.md: approvals "expire after ten minutes, and return to the same
\* app-server request": a request its connector put to the owner is answered,
\* by a tap or by its deadline, unless it is cancelled or the connection breaks.
\* Left out: a decision an earlier relay recorded as delivered (see hazards).
RequestsReturn ==
  \A a \in Requests :
    /\ Open(a) /\ approval[a].state \in {"pending"} \cup Verdicts /\ ~approval[a].delivered
    /\ \E c \in Connectors : a \in conn[c].pending /\ Undisturbed(c)
    ~> \/ ~Open(a) \/ approval[a].state = "cancelled"
       \/ \A c \in Connectors : ~Undisturbed(c)

\* README.md: delivery failures return a receipt to the local connector.
\* A settled receipt arrives, while approvals compete for the same relay, unless
\* Window older ones still wait for their own outcome (nextRelayDeliveryReceipt).
ReceiptsArrive ==
  \A r \in Receipts :
    /\ receipt[r].status \in {"sent", "failed"}
    /\ Cardinality(Older(Settling, r)) < Window
    /\ \E c \in Connectors : Undisturbed(c)
    ~> receipt[r].delivered \/ \A c \in Connectors : ~Undisturbed(c)

=============================================================================
