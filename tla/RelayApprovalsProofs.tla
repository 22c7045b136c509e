------------------------ MODULE RelayApprovalsProofs ------------------------
(***************************************************************************)
(* Approvals for any number of requests, taps, connectors and receipts: no  *)
(* more than one tap decides a request, the app-server hears "approve" only *)
(* if that tap said so, and every step is one of the approval lifecycle.    *)
(* None of this is inductive without what is on its way: a decision in a    *)
(* pipe may be read long after its row was rebound or cancelled, so the     *)
(* invariant says of every frame and every response that it agrees with the *)
(* verdict of its request, and that a verdict is never changed.             *)
(* Delivery receipts are proved about in the same way: a frame on its way    *)
(* says of a message what became of it, and a receipt is acknowledged only  *)
(* by somebody who has read that.  What it read it remembers until it has   *)
(* put it into a turn or MaxFailures others have come after it; no two      *)
(* failures have the same number after them, so the one that makes room is  *)
(* one of those (OldestIsOld).                                              *)
(***************************************************************************)
EXTENDS RelayApprovalsProps, TLAPS, SequenceTheorems, FiniteSetTheorems

\* The shape of the frames about receipts.
LEMMA ReceiptFrameTypes ==
  ASSUME NEW r \in Receipts, NEW s \in {"sent", "failed"}
  PROVE  /\ [type |-> "delivery_recorded", receipt |-> r] \in FromConnector
         /\ [type |-> "delivery_receipt", receipt |-> r, status |-> s] \in FromRelay
BY DEF FromConnector, FromRelay

\* What the first line of each pipe is about.
LEMMA LineTypes ==
  ASSUME TypeOK, NEW c \in Connectors, toRelay[c] # <<>>
  PROVE  /\ Tail(toRelay[c]) \in Seq(FromConnector)
         /\ Head(toRelay[c]).type \in {"approval_request", "approval_recorded", "approval_cancel"}
              => Head(toRelay[c]).approval \in Requests
         /\ Head(toRelay[c]).type = "delivery_recorded" => Head(toRelay[c]).receipt \in Receipts
<1>1. toRelay[c] \in Seq(FromConnector) BY DEF TypeOK
<1>2. Head(toRelay[c]) \in FromConnector /\ Tail(toRelay[c]) \in Seq(FromConnector)
  BY <1>1, HeadTailProperties
<1>3. QED BY <1>2 DEF FromConnector

\* From the relay to the connector.
LEMMA FrameHeads ==
  ASSUME TypeOK, NEW c \in Connectors, toConn[c] # <<>>
  PROVE  /\ Tail(toConn[c]) \in Seq(FromRelay)
         /\ Head(toConn[c]).type = "approval_response" =>
              Head(toConn[c]).approval \in Requests /\ Head(toConn[c]).decision \in Decisions
         /\ Head(toConn[c]).type = "delivery_receipt" => Head(toConn[c]).receipt \in Receipts
<1>1. toConn[c] \in Seq(FromRelay) BY DEF TypeOK
<1>2. Head(toConn[c]) \in FromRelay /\ Tail(toConn[c]) \in Seq(FromRelay)
  BY <1>1, HeadTailProperties
<1>3. QED BY <1>2 DEF FromRelay

\* From the connector to the app-server.
LEMMA ResponseHeads ==
  ASSUME TypeOK, NEW c \in Connectors, toApp[c] # <<>>
  PROVE  /\ Tail(toApp[c]) \in Seq(Responses)
         /\ Head(toApp[c]).approval \in Requests
         /\ Head(toApp[c]).decision \in Decisions
<1>1. toApp[c] \in Seq(Responses) BY DEF TypeOK
<1>2. Head(toApp[c]) \in Responses /\ Tail(toApp[c]) \in Seq(Responses)
  BY <1>1, HeadTailProperties
<1>3. QED BY <1>2 DEF Responses

\* A prefix of a typed stream is typed.
LEMMA LoseTypes ==
  ASSUME NEW S, NEW pipe \in [Connectors -> Seq(S)], NEW q, NEW c \in Connectors,
         \E n \in 0..Len(pipe[c]) : q = [pipe EXCEPT ![c] = SubSeq(@, 1, n)]
  PROVE  q \in [Connectors -> Seq(S)]
<1>1. PICK n \in 0..Len(pipe[c]) : q = [pipe EXCEPT ![c] = SubSeq(@, 1, n)] OBVIOUS
<1>2. Len(pipe[c]) \in Nat /\ \A i \in 1..Len(pipe[c]) : pipe[c][i] \in S
  BY LenProperties, ElementOfSeq
<1>3. SubSeq(pipe[c], 1, n) \in Seq(S)
  <2>1. n \in Int /\ \A i \in 1..n : pipe[c][i] \in S BY <1>2
  <2>2. QED BY <2>1, SubSeqProperties
<1>4. QED BY <1>1, <1>3

\* One line more.
LEMMA ToRelayTypes ==
  ASSUME TypeOK, NEW c \in Connectors, NEW f \in FromConnector, ToRelay(c, f)
  PROVE  toRelay' \in [Connectors -> Seq(FromConnector)]
<1>1. Append(toRelay[c], f) \in Seq(FromConnector) BY DEF TypeOK
<1>2. QED BY <1>1 DEF TypeOK, ToRelay

\* One line more to a connector.
LEMMA ToConnTypes ==
  ASSUME TypeOK, NEW c \in Connectors, NEW f \in FromRelay, ToConn(c, f)
  PROVE  toConn' \in [Connectors -> Seq(FromRelay)]
<1>1. Append(toConn[c], f) \in Seq(FromRelay) BY DEF TypeOK
<1>2. QED BY <1>1 DEF TypeOK, ToConn

\* One more response on its way to the app-server.
LEMMA RespondTypes ==
  ASSUME TypeOK, NEW c \in Connectors, NEW a \in Requests, NEW d \in Decisions, Respond(c, a, d)
  PROVE  toApp' \in [Connectors -> Seq(Responses)]
<1>1. [approval |-> a, decision |-> d] \in Responses BY DEF Responses
<1>2. Append(toApp[c], [approval |-> a, decision |-> d]) \in Seq(Responses)
  BY <1>1 DEF TypeOK
<1>3. QED BY <1>2 DEF TypeOK, Respond

-----------------------------------------------------------------------------
(***************************************************************************)
(* Types.                                                                  *)
(***************************************************************************)
\* Fields of one relay.
LEMMA RelayFields ==
  ASSUME TypeOK, NEW c \in Connectors
  PROVE  /\ \A p \in {"open", "closing", "gone"} :
              [relay EXCEPT ![c].pc = p] \in [Connectors -> RelayStates]
         /\ [relay EXCEPT ![c].fatal = TRUE] \in [Connectors -> RelayStates]
         /\ [relay EXCEPT ![c].hello = TRUE] \in [Connectors -> RelayStates]
         /\ \A r \in Receipts : [relay EXCEPT ![c].receipt = r] \in [Connectors -> RelayStates]
         /\ \A a \in Requests : [relay EXCEPT ![c].approval = a] \in [Connectors -> RelayStates]
<1>1. relay \in [Connectors -> RelayStates] /\ relay[c] \in RelayStates BY DEF TypeOK
<1>2. \A row \in RelayStates, p \in {"open", "closing", "gone"} :
        [row EXCEPT !.pc = p] \in RelayStates
  BY DEF RelayStates
<1>3. \A row \in RelayStates : /\ [row EXCEPT !.fatal = TRUE] \in RelayStates
                               /\ [row EXCEPT !.hello = TRUE] \in RelayStates
  BY DEF RelayStates
<1>4. \A row \in RelayStates, r \in Receipts : [row EXCEPT !.receipt = r] \in RelayStates
  BY DEF RelayStates
<1>5. \A row \in RelayStates, a \in Requests : [row EXCEPT !.approval = a] \in RelayStates
  BY DEF RelayStates
<1>6. \A row \in RelayStates :
        [relay EXCEPT ![c] = row] \in [Connectors -> RelayStates]
  BY <1>1
<1>7. QED BY <1>1, <1>2, <1>3, <1>4, <1>5, <1>6

\* Rows that are settled or come due.
LEMMA ApprovalFields ==
  ASSUME TypeOK
  PROVE  /\ \A S \in SUBSET Requests, v \in Verdicts :
              Settled(S, v) \in [Requests -> ApprovalRows]
         /\ \A a \in Requests : [approval EXCEPT ![a].due = TRUE] \in [Requests -> ApprovalRows]
<1>1. approval \in [Requests -> ApprovalRows] BY DEF TypeOK
<1>2. \A row \in ApprovalRows, v \in Verdicts :
        [row EXCEPT !.state = v, !.verdict = v] \in ApprovalRows
  BY DEF ApprovalRows
<1>3. \A row \in ApprovalRows : [row EXCEPT !.due = TRUE] \in ApprovalRows BY DEF ApprovalRows
<1>4. ASSUME NEW S \in SUBSET Requests, NEW v \in Verdicts
      PROVE  Settled(S, v) \in [Requests -> ApprovalRows]
  BY <1>1, <1>2 DEF Settled
<1>5. ASSUME NEW a \in Requests
      PROVE  [approval EXCEPT ![a].due = TRUE] \in [Requests -> ApprovalRows]
  <2>1. [approval[a] EXCEPT !.due = TRUE] \in ApprovalRows BY <1>1, <1>3
  <2>2. QED BY <1>1, <2>1
<1>6. QED BY <1>4, <1>5

\* The owner, the service and the clock.
LEMMA TapTypes ==
  ASSUME TypeOK, NEW u \in Taps, Callback(u)
  PROVE  TypeOK'
<1>1. CASE Press(u)
  <2>1. PICK a \in Requests, d \in Decisions :
          tap' = [tap EXCEPT ![u].pc = "claimed", ![u].request = a, ![u].decision = d]
    BY <1>1 DEF Press
  <2>2. tap[u] \in TapStates BY DEF TypeOK
  <2>3. [tap[u] EXCEPT !.pc = "claimed", !.request = a, !.decision = d] \in TapStates
    BY <2>2 DEF TapStates
  <2>4. tap' = [tap EXCEPT ![u] = [tap[u] EXCEPT !.pc = "claimed", !.request = a, !.decision = d]]
    BY <2>1 DEF TypeOK
  <2>5. tap' \in [Taps -> TapStates] BY <2>3, <2>4 DEF TypeOK
  <2>6. QED BY <1>1, <2>5 DEF TypeOK, Press, rows, pipes
<1>2. CASE Resolve(u)
  <2>1. tap' \in [Taps -> TapStates]
    <3>1. tap \in [Taps -> TapStates] /\ tap[u] \in TapStates BY DEF TypeOK
    <3>2. PICK w \in BOOLEAN :
            tap' = [tap EXCEPT ![u] = [tap[u] EXCEPT !.pc = "handled", !.won = w]]
      <4>1. tap[u].won \in BOOLEAN BY <3>1 DEF TapStates
      <4>2. QED BY <1>2, <3>1, <4>1 DEF Resolve
    <3>3. [tap[u] EXCEPT !.pc = "handled", !.won = w] \in TapStates BY <3>1 DEF TapStates
    <3>4. QED BY <3>1, <3>2, <3>3
  <2>2. \A S \in SUBSET Requests, v \in Verdicts : Settled(S, v) \in [Requests -> ApprovalRows]
    BY ApprovalFields
  <2>3. VerdictOf(tap[u].decision) \in Verdicts BY DEF VerdictOf, Verdicts
  <2>4. approval' \in [Requests -> ApprovalRows]
    <3>1. CASE tap[u].request \in Pending \ Overdue
      <4>1. {tap[u].request} \in SUBSET Requests BY <3>1 DEF Pending
      <4>2. QED BY <1>2, <2>2, <2>3, <3>1, <4>1 DEF Resolve
    <3>2. CASE tap[u].request \notin Pending \ Overdue
      <4>1. {tap[u].request} \cap Overdue \in SUBSET Requests BY DEF Overdue, Pending
      <4>2. "expired" \in Verdicts BY DEF Verdicts
      <4>3. QED BY <1>2, <2>2, <3>2, <4>1, <4>2 DEF Resolve
    <3>3. QED BY <3>1, <3>2
  <2>5. QED BY <1>2, <2>1, <2>4 DEF TypeOK, Resolve, pipes
<1>3. CASE ClaimAgain(u)
  <2>1. tap \in [Taps -> TapStates] /\ tap[u] \in TapStates BY DEF TypeOK
  <2>2. [tap[u] EXCEPT !.pc = "claimed"] \in TapStates BY <2>1 DEF TapStates
  <2>3. tap' = [tap EXCEPT ![u] = [tap[u] EXCEPT !.pc = "claimed"]]
    BY <1>3, <2>1 DEF ClaimAgain
  <2>4. tap' \in [Taps -> TapStates] BY <2>1, <2>2, <2>3
  <2>5. QED BY <1>3, <2>4 DEF TypeOK, ClaimAgain, rows, pipes
<1>4. QED BY <1>1, <1>2, <1>3 DEF Callback

\* A deadline passes, the app-server asks, a turn ends.
LEMMA RequestTypes ==
  ASSUME TypeOK, NEW a \in Requests, Deadline(a) \/ Ask(a) \/ EndTurn(a)
  PROVE  TypeOK'
<1>1. CASE Deadline(a)
  <2>1. approval' \in [Requests -> ApprovalRows] BY <1>1, ApprovalFields DEF Deadline
  <2>2. QED BY <1>1, <2>1 DEF TypeOK, Deadline, pipes
<1>2. CASE Ask(a)
  <2>1. ask' \in [Requests -> AskStates]
    <3>1. PICK c \in {None} \cup Connectors :
            ask' = [ask EXCEPT ![a].asked = TRUE, ![a].guest = c]
      BY <1>2 DEF Ask
    <3>2. ask \in [Requests -> AskStates] /\ ask[a] \in AskStates BY DEF TypeOK
    <3>3. [ask[a] EXCEPT !.asked = TRUE, !.guest = c] \in AskStates BY <3>2 DEF AskStates
    <3>4. ask' = [ask EXCEPT ![a] = [ask[a] EXCEPT !.asked = TRUE, !.guest = c]]
      BY <3>1, <3>2
    <3>5. QED BY <3>2, <3>3, <3>4
  <2>2. conn' \in [Connectors -> ConnStates]
    <3>1. \A c \in Connectors : conn'[c] \in ConnStates
      <4> TAKE c \in Connectors
      <4>1. conn[c] \in ConnStates /\ conn[c].asked \cup {a} \in SUBSET Requests
        BY DEF TypeOK, ConnStates
      <4>2. conn'[c] = IF Up(c) THEN [conn[c] EXCEPT !.asked = @ \cup {a}] ELSE conn[c]
        BY <1>2 DEF Ask
      <4>3. QED BY <4>1, <4>2 DEF ConnStates
    <3>2. QED BY <1>2, <3>1 DEF Ask
  <2>3. QED BY <1>2, <2>1, <2>2 DEF TypeOK, Ask, rows, pipes
<1>3. CASE EndTurn(a)
  <2>1. ask \in [Requests -> AskStates] /\ ask[a] \in AskStates BY DEF TypeOK
  <2>2. [ask[a] EXCEPT !.over = TRUE] \in AskStates BY <2>1 DEF AskStates
  <2>3. ask' = [ask EXCEPT ![a] = [ask[a] EXCEPT !.over = TRUE]] BY <1>3, <2>1 DEF EndTurn
  <2>4. ask' \in [Requests -> AskStates] BY <2>1, <2>2, <2>3
  <2>5. QED BY <1>3, <2>4 DEF TypeOK, EndTurn, rows, pipes
<1>4. QED BY <1>1, <1>2, <1>3

\* What became of a message is known.
LEMMA ReceiptTypes ==
  ASSUME TypeOK, NEW r \in Receipts, SettleReceipt(r)
  PROVE  TypeOK'
BY DEF TypeOK, SettleReceipt, ReceiptRows, pipes

\* The claim timer of a relay.
LEMMA ClaimTypes ==
  ASSUME TypeOK, NEW c \in Connectors, ClaimOnce(c)
  PROVE  TypeOK'
<1>1. CASE ClaimFails(c)
  <2>1. relay' \in [Connectors -> RelayStates] BY <1>1, RelayFields DEF ClaimFails
  <2>2. QED BY <1>1, <2>1 DEF TypeOK, ClaimFails, rows, pipes
<1>2. CASE SendReceipt(c)
  <2>1. PICK r \in NextReceipts :
          /\ relay' = [relay EXCEPT ![c].receipt = r]
          /\ ToConn(c, [type |-> "delivery_receipt", receipt |-> r, status |-> receipt[r].status])
    BY <1>2 DEF SendReceipt
  <2>2. r \in Receipts /\ receipt[r].status \in {"sent", "failed"} BY DEF NextReceipts, DueReceipts, Undelivered, Settling, ReceiptRows, TypeOK
  <2>3. toConn' \in [Connectors -> Seq(FromRelay)]
    BY <2>1, <2>2, ReceiptFrameTypes, ToConnTypes
  <2>4. relay' \in [Connectors -> RelayStates] BY <2>1, <2>2, RelayFields
  <2>5. QED BY <1>2, <2>3, <2>4 DEF TypeOK, SendReceipt, rows
<1>3. CASE ExpireRelayApprovals(c)
  <2>1. "expired" \in Verdicts BY DEF Verdicts
  <2>2. approval' \in [Requests -> ApprovalRows]
    <3>1. Overdue \in SUBSET Requests BY DEF Overdue, Pending
    <3>2. QED BY <1>3, <2>1, <3>1, ApprovalFields DEF ExpireRelayApprovals
  <2>3. QED BY <1>3, <2>2 DEF TypeOK, ExpireRelayApprovals, pipes
<1>4. CASE SendDecision(c)
  <2>1. PICK a \in Requests :
          /\ relay' = [relay EXCEPT ![c].approval = a]
          /\ ToConn(c, [type |-> "approval_response", approval |-> a,
                        decision |-> DecisionFor(approval[a].state)])
    BY <1>4 DEF SendDecision
  <2>2. DecisionFor(approval[a].state) \in Decisions BY DEF DecisionFor, Decisions
  <2>3. [type |-> "approval_response", approval |-> a,
         decision |-> DecisionFor(approval[a].state)] \in FromRelay
    BY <2>2 DEF FromRelay
  <2>4. toConn' \in [Connectors -> Seq(FromRelay)] BY <2>1, <2>3, ToConnTypes
  <2>5. relay' \in [Connectors -> RelayStates] BY <2>1, RelayFields
  <2>6. QED BY <1>4, <2>4, <2>5 DEF TypeOK, SendDecision, rows
<1>5. QED BY <1>1, <1>2, <1>3, <1>4 DEF ClaimOnce

\* A line that was handled is gone.
LEMMA LineGone ==
  ASSUME TypeOK, NEW c \in Connectors, NEW t, Line(c, t)
  PROVE  /\ toRelay[c] # <<>> /\ Head(toRelay[c]).type = t
         /\ toRelay' \in [Connectors -> Seq(FromConnector)]
<1>1. toRelay[c] # <<>> /\ toRelay' = [toRelay EXCEPT ![c] = Tail(@)] /\ Head(toRelay[c]).type = t
  BY DEF Line
<1>2. Tail(toRelay[c]) \in Seq(FromConnector) BY <1>1, LineTypes
<1>3. QED BY <1>1, <1>2 DEF TypeOK

\* The lines a relay reads.
LEMMA HandleTypes ==
  ASSUME TypeOK, NEW c \in Connectors, HandleLine(c)
  PROVE  TypeOK'
<1>1. relay[c] \in RelayStates BY DEF TypeOK
<1>2. CASE HandleHello(c)
  <2>1. toRelay' \in [Connectors -> Seq(FromConnector)] BY <1>2, LineGone DEF HandleHello
  <2>2. relay' \in [Connectors -> RelayStates] BY <1>2, RelayFields DEF HandleHello
  <2>3. QED BY <1>2, <2>1, <2>2 DEF TypeOK, HandleHello
<1>3. CASE HandleApprovalRequest(c)
  <2>1. Line(c, "approval_request") BY <1>3 DEF HandleApprovalRequest
  <2>2. toRelay' \in [Connectors -> Seq(FromConnector)] /\ Head(toRelay[c]).approval \in Requests
    BY <2>1, LineGone, LineTypes
  <2>3. approval' \in [Requests -> ApprovalRows]
    <3> DEFINE a == Head(toRelay[c]).approval
    <3>1. a \in Requests BY <2>2
    <3> HIDE DEF a
    <3>2. CreateRelayApproval(a, c) \/ RebindRelayApproval(a, c) \/ UNCHANGED approval
      BY <1>3 DEF HandleApprovalRequest, a
    <3>3. approval[a] \in ApprovalRows BY <3>1 DEF TypeOK
    <3>4. CASE CreateRelayApproval(a, c)
      BY <3>1, <3>3, <3>4 DEF TypeOK, CreateRelayApproval, ApprovalRows
    <3>5. CASE RebindRelayApproval(a, c)
      <4>1. [approval[a] EXCEPT !.by = c, !.delivered = @ /\ ~Decided(a)] \in ApprovalRows
        BY <3>3 DEF ApprovalRows
      <4>2. CASE approval[a].by # c /\ approval[a].state # "cancelled"
        <5>1. approval' = [approval EXCEPT ![a] =
                 [approval[a] EXCEPT !.by = c, !.delivered = @ /\ ~Decided(a)]]
          BY <3>1, <3>5, <4>2 DEF TypeOK, RebindRelayApproval
        <5>2. QED BY <4>1, <5>1 DEF TypeOK
      <4>3. CASE ~(approval[a].by # c /\ approval[a].state # "cancelled")
        BY <3>5, <4>3 DEF TypeOK, RebindRelayApproval
      <4>4. QED BY <4>2, <4>3
    <3>6. QED BY <3>2, <3>4, <3>5 DEF TypeOK
  <2>4. relay' \in [Connectors -> RelayStates]
    <3>1. CASE UNCHANGED relay BY <3>1 DEF TypeOK
    <3>2. CASE Throw(c)
      <4>0. relay[c] \in RelayStates BY DEF TypeOK
      <4>1. [relay[c] EXCEPT !.pc = "closing"] \in RelayStates BY ONLY <4>0 DEF RelayStates
      <4>2. relay' = [relay EXCEPT ![c] = [relay[c] EXCEPT !.pc = "closing"]]
        BY <3>2 DEF Throw, TypeOK, RelayStates
      <4>3. QED BY <4>1, <4>2 DEF TypeOK
    <3>3. QED BY <1>3, <3>1, <3>2 DEF HandleApprovalRequest
  <2>5. QED BY <1>3, <2>2, <2>3, <2>4 DEF TypeOK, HandleApprovalRequest
<1>4. CASE HandleApprovalRecorded(c)
  <2>1. Line(c, "approval_recorded") BY <1>4 DEF HandleApprovalRecorded
  <2>2. toRelay' \in [Connectors -> Seq(FromConnector)] /\ Head(toRelay[c]).approval \in Requests
    BY <2>1, LineGone, LineTypes
  <2> DEFINE a == Head(toRelay[c]).approval
  <2>3. \/ MarkRelayApprovalDelivered(a) /\ relay' = [relay EXCEPT ![c].approval = None]
        \/ Throw(c) /\ UNCHANGED approval
    BY <1>4 DEF HandleApprovalRecorded
  <2>4. approval' \in [Requests -> ApprovalRows] /\ relay' \in [Connectors -> RelayStates]
    <3>1. a \in Requests BY <2>2
    <3> HIDE DEF a
    <3>2. CASE MarkRelayApprovalDelivered(a) /\ relay' = [relay EXCEPT ![c].approval = None]
      <4>1. approval[a] \in ApprovalRows BY <3>1 DEF TypeOK
      <4>2. approval' \in [Requests -> ApprovalRows]
        BY <3>1, <3>2, <4>1 DEF TypeOK, MarkRelayApprovalDelivered, ApprovalRows
      <4>3. relay' \in [Connectors -> RelayStates] BY <1>1, <3>2 DEF TypeOK, RelayStates
      <4>4. QED BY <4>2, <4>3
    <3>3. CASE Throw(c) /\ UNCHANGED approval
      BY <1>1, <3>3 DEF TypeOK, Throw, RelayStates
    <3>4. QED BY <2>3, <3>2, <3>3
  <2>5. QED BY <1>4, <2>2, <2>4 DEF TypeOK, HandleApprovalRecorded
<1>5. CASE HandleApprovalCancel(c)
  <2>1. Line(c, "approval_cancel") BY <1>5 DEF HandleApprovalCancel
  <2>2. toRelay' \in [Connectors -> Seq(FromConnector)] /\ Head(toRelay[c]).approval \in Requests
    BY <2>1, LineGone, LineTypes
  <2> DEFINE a == Head(toRelay[c]).approval
  <2>3. approval' \in [Requests -> ApprovalRows]
    <3>1. a \in Requests /\ CancelRelayApproval(a) BY <1>5, <2>2 DEF HandleApprovalCancel
    <3> HIDE DEF a
    <3>2. approval \in [Requests -> ApprovalRows] /\ approval[a] \in ApprovalRows
      BY <3>1 DEF TypeOK
    <3>3. [approval[a] EXCEPT !.state = "cancelled"] \in ApprovalRows
      BY <3>2 DEF ApprovalRows
    <3>4. \/ approval' = approval
          \/ approval' = [approval EXCEPT ![a] = [approval[a] EXCEPT !.state = "cancelled"]]
      BY <3>1, <3>2 DEF CancelRelayApproval
    <3>5. QED BY <3>1, <3>2, <3>3, <3>4
  <2>4. relay' \in [Connectors -> RelayStates]
    BY <1>1, <1>5 DEF TypeOK, HandleApprovalCancel, RelayStates
  <2>5. QED BY <1>5, <2>2, <2>3, <2>4 DEF TypeOK, HandleApprovalCancel
<1>6. CASE HandleDeliveryRecorded(c)
  <2>1. Line(c, "delivery_recorded") BY <1>6 DEF HandleDeliveryRecorded
  <2>2. toRelay' \in [Connectors -> Seq(FromConnector)] /\ Head(toRelay[c]).receipt \in Receipts
    BY <2>1, LineGone, LineTypes
  <2> DEFINE r == Head(toRelay[c]).receipt
  <2>3. \/ /\ receipt' = [receipt EXCEPT ![r].delivered = TRUE]
           /\ relay' = [relay EXCEPT ![c].receipt = None]
        \/ Throw(c) /\ UNCHANGED receipt
    BY <1>6 DEF HandleDeliveryRecorded
  <2>4. receipt' \in [Receipts -> ReceiptRows] /\ relay' \in [Connectors -> RelayStates]
    <3>1. r \in Receipts BY <2>2
    <3> HIDE DEF r
    <3>2. CASE /\ receipt' = [receipt EXCEPT ![r].delivered = TRUE]
               /\ relay' = [relay EXCEPT ![c].receipt = None]
      <4>1. receipt[r] \in ReceiptRows BY <3>1 DEF TypeOK
      <4>2. receipt' \in [Receipts -> ReceiptRows] BY <3>2, <4>1 DEF TypeOK, ReceiptRows
      <4>3. relay' \in [Connectors -> RelayStates] BY <1>1, <3>2 DEF TypeOK, RelayStates
      <4>4. QED BY <4>2, <4>3
    <3>3. CASE Throw(c) /\ UNCHANGED receipt
      BY <1>1, <3>3 DEF TypeOK, Throw, RelayStates
    <3>4. QED BY <2>3, <3>2, <3>3
  <2>5. QED BY <1>6, <2>2, <2>4 DEF TypeOK, HandleDeliveryRecorded
<1>7. QED BY <1>2, <1>3, <1>4, <1>5, <1>6 DEF HandleLine

\* A relay that ends, and a connector that starts.
LEMMA RelayLifeTypes ==
  ASSUME TypeOK, NEW c \in Connectors, Close(c) \/ Kill(c) \/ Connect(c)
  PROVE  TypeOK'
<1>1. ASSUME Leave(c), session' \in Connectors \cup {None} PROVE TypeOK'
  <2>1. relay' \in [Connectors -> RelayStates] BY <1>1 DEF TypeOK, Leave, NewRelay, RelayStates
  <2>2. toRelay' \in [Connectors -> Seq(FromConnector)] BY <1>1 DEF TypeOK, Leave
  <2>3. QED BY <1>1, <2>1, <2>2 DEF TypeOK, Leave
<1>2. CASE Close(c) BY <1>1, <1>2 DEF TypeOK, Close
<1>3. CASE Kill(c) BY <1>1, <1>3 DEF TypeOK, Kill
<1>4. CASE Connect(c)
  <2>1. conn' \in [Connectors -> ConnStates]
    <3> DEFINE new == [conn[c] EXCEPT !.pc = "up", !.asked = {a \in Requests : Open(a)}]
    <3>1. conn[c] \in ConnStates BY DEF TypeOK
    <3>2. new \in ConnStates BY <3>1 DEF ConnStates
    <3>3. conn' = [conn EXCEPT ![c] = new] BY <1>4 DEF TypeOK, Connect
    <3> HIDE DEF new
    <3>4. QED BY <3>2, <3>3 DEF TypeOK
  <2>2. relay' \in [Connectors -> RelayStates]
    <3>1. relay[c] \in RelayStates BY DEF TypeOK
    <3>2. [relay[c] EXCEPT !.pc = "open"] \in RelayStates BY <3>1 DEF RelayStates
    <3>3. QED BY <1>4, <3>2 DEF TypeOK, Connect
  <2>3. [type |-> "hello"] \in FromConnector BY DEF FromConnector
  <2>4. <<[type |-> "hello"]>> \in Seq(FromConnector) BY <2>3
  <2>5. toRelay' \in [Connectors -> Seq(FromConnector)] BY <1>4, <2>4 DEF TypeOK, Connect
  <2>6. QED BY <1>4, <2>1, <2>2, <2>5 DEF TypeOK, Connect, rows
<1>5. QED BY <1>2, <1>3, <1>4

\* What a connector leaves behind.
LEMMA ForgetTypes ==
  ASSUME TypeOK, NEW c \in Connectors, Forget(c), Lose(toApp, c, 0),
         toConn' = [toConn EXCEPT ![c] = <<>>],
         UNCHANGED <<rows, tap, ask, relay>>,
         toRelay' \in [Connectors -> Seq(FromConnector)]
  PROVE  TypeOK'
<1>1. conn' \in [Connectors -> ConnStates]
  <2> DEFINE new == [conn[c] EXCEPT !.pc = "down", !.asked = {}, !.pending = {}]
  <2>1. conn[c] \in ConnStates BY DEF TypeOK
  <2>2. new \in ConnStates BY <2>1 DEF ConnStates
  <2>3. conn' = [conn EXCEPT ![c] = new] BY DEF TypeOK, Forget
  <2> HIDE DEF new
  <2>4. QED BY <2>2, <2>3 DEF TypeOK
<1>2. toApp' \in [Connectors -> Seq(Responses)] BY LoseTypes DEF TypeOK, Lose
<1>3. toConn' \in [Connectors -> Seq(FromRelay)] BY DEF TypeOK
<1>4. QED BY <1>1, <1>2, <1>3 DEF TypeOK, rows

\* A connector dies or closes.
LEMMA EndTypes ==
  ASSUME TypeOK, NEW c \in Connectors, Crash(c) \/ CloseConnector(c)
  PROVE  TypeOK'
<1>1. CASE Crash(c)
  <2>1. toRelay' \in [Connectors -> Seq(FromConnector)] BY <1>1, LoseTypes DEF TypeOK, Crash, Lose
  <2>2. QED BY <1>1, <2>1, ForgetTypes DEF Crash
<1>2. CASE CloseConnector(c)
  <2> DEFINE n == Cardinality(conn[c].pending)
             cancels(order) == [i \in DOMAIN order |->
                                  [type |-> "approval_cancel", approval |-> order[i]]]
  <2>1. PICK order \in [1..n -> conn[c].pending] :
          toRelay' = IF relay[c].pc = "gone" THEN toRelay
                     ELSE [toRelay EXCEPT ![c] = @ \o cancels(order)]
    BY <1>2 DEF CloseConnector
  <2>2. n \in Nat
    BY RelayApprovalsAssumption, FS_Subset, FS_CardinalityType DEF TypeOK, ConnStates, RelayApprovalsAssumption
  <2>3. cancels(order) \in Seq(FromConnector)
    <3>1. \A i \in 1..n : order[i] \in Requests BY DEF TypeOK, ConnStates
    <3>2. \A i \in 1..n : [type |-> "approval_cancel", approval |-> order[i]] \in FromConnector
      BY <3>1 DEF FromConnector
    <3>3. cancels(order) \in [1..n -> FromConnector] BY <3>2
    <3>4. QED BY <2>2, <3>3
  <2>4. toRelay[c] \o cancels(order) \in Seq(FromConnector) BY <2>3 DEF TypeOK
  <2>5. toRelay' \in [Connectors -> Seq(FromConnector)] BY <2>1, <2>4 DEF TypeOK
  <2>6. QED BY <1>2, <2>5, ForgetTypes DEF CloseConnector
<1>3. QED BY <1>1, <1>2

\* What a connector remembers.
LEMMA RememberingTypes ==
  ASSUME TypeOK, NEW c \in Connectors, NEW f \in Failures
  PROVE  Remembering(c, f) \in ConnStates
<1>1. conn[c] \in ConnStates BY DEF TypeOK
<1>2. Aged(c, f) \in [Failures -> Nat] BY <1>1 DEF Aged, ConnStates
<1>3. \A S \in SUBSET Failures :
        [conn[c] EXCEPT !.failures = S, !.newer = Aged(c, f)] \in ConnStates
  BY <1>1, <1>2 DEF ConnStates
<1>4. Pushed(c, f) \in ConnStates
  <2>1. conn[c].failures \cup {f} \in SUBSET Failures
        /\ (conn[c].failures \ Oldest(c)) \cup {f} \in SUBSET Failures
    BY <1>1 DEF ConnStates
  <2>2. QED BY <1>3, <2>1 DEF Pushed
<1>5. QED BY <1>1, <1>4 DEF Remembering

\* The app-server's lines to the connector, and the relay's.
LEMMA ConnectorTypes ==
  ASSUME TypeOK, NEW c \in Connectors, Notice(c) \/ Receive(c) \/ Memory(c)
  PROVE  TypeOK'
<1>1. conn[c] \in ConnStates BY DEF TypeOK
<1>2. CASE NoticeRequest(c)
  <2>1. PICK a \in conn[c].asked :
          IF ask[a].guest = c
          THEN /\ Respond(c, a, "deny")
               /\ conn' = [conn EXCEPT ![c].asked = @ \ {a}]
               /\ UNCHANGED toRelay
          ELSE /\ ToRelay(c, [type |-> "approval_request", approval |-> a])
               /\ conn' = [conn EXCEPT ![c].asked = @ \ {a}, ![c].pending = @ \cup {a}]
               /\ UNCHANGED toApp
    BY <1>2 DEF NoticeRequest
  <2>2. a \in Requests BY <1>1 DEF ConnStates
  <2>3. CASE ask[a].guest = c
    <3>1. "deny" \in Decisions BY DEF Decisions
    <3>2. toApp' \in [Connectors -> Seq(Responses)] BY <2>1, <2>2, <2>3, <3>1, RespondTypes
    <3>3. conn' \in [Connectors -> ConnStates]
      <4>1. [conn[c] EXCEPT !.asked = @ \ {a}] \in ConnStates BY <1>1 DEF ConnStates
      <4>2. conn' = [conn EXCEPT ![c] = [conn[c] EXCEPT !.asked = @ \ {a}]]
        BY <2>1, <2>3 DEF TypeOK
      <4>3. QED BY <4>1, <4>2 DEF TypeOK
    <3>4. QED BY <1>2, <2>1, <2>3, <3>2, <3>3 DEF TypeOK, NoticeRequest, rows
  <2>4. CASE ask[a].guest # c
    <3>1. [type |-> "approval_request", approval |-> a] \in FromConnector BY <2>2 DEF FromConnector
    <3>2. toRelay' \in [Connectors -> Seq(FromConnector)] BY <2>1, <2>4, <3>1, ToRelayTypes
    <3>3. [conn[c] EXCEPT !.asked = @ \ {a}, !.pending = @ \cup {a}] \in ConnStates
      BY <1>1, <2>2 DEF ConnStates
    <3>4. conn' = [conn EXCEPT ![c] = [conn[c] EXCEPT !.asked = @ \ {a}, !.pending = @ \cup {a}]]
      BY <2>1, <2>4 DEF TypeOK
    <3>5. conn' \in [Connectors -> ConnStates] BY <3>3, <3>4 DEF TypeOK
    <3>6. QED BY <1>2, <2>1, <2>4, <3>2, <3>5 DEF TypeOK, NoticeRequest, rows
  <2>5. QED BY <2>3, <2>4
<1>3. CASE NoticeTurnCompleted(c)
  <2>1. PICK a \in conn[c].pending :
          /\ ToRelay(c, [type |-> "approval_cancel", approval |-> a])
          /\ conn' = [conn EXCEPT ![c].pending = @ \ {a}]
    BY <1>3 DEF NoticeTurnCompleted
  <2>2. [type |-> "approval_cancel", approval |-> a] \in FromConnector
    BY <1>1 DEF ConnStates, FromConnector
  <2>3. toRelay' \in [Connectors -> Seq(FromConnector)] BY <2>1, <2>2, ToRelayTypes
  <2>4. conn' \in [Connectors -> ConnStates] BY <1>1, <2>1 DEF TypeOK, ConnStates
  <2>5. QED BY <1>3, <2>3, <2>4 DEF TypeOK, NoticeTurnCompleted, rows
<1>4. ASSUME NEW t, Received(c, t)
      PROVE  /\ toConn[c] # <<>> /\ Head(toConn[c]).type = t
             /\ toConn' \in [Connectors -> Seq(FromRelay)]
  <2>1. toConn[c] # <<>> /\ toConn' = [toConn EXCEPT ![c] = Tail(@)] /\ Head(toConn[c]).type = t
    BY <1>4 DEF Received
  <2>2. Tail(toConn[c]) \in Seq(FromRelay) BY <2>1, FrameHeads
  <2>3. QED BY <2>1, <2>2 DEF TypeOK
<1>5. CASE ReceiveDecision(c)
  <2> DEFINE f == Head(toConn[c])
  <2>1. /\ Received(c, "approval_response")
        /\ Respond(c, f.approval, f.decision) \/ UNCHANGED toApp
        /\ conn' = [conn EXCEPT ![c].pending = @ \ {f.approval}]
        /\ ToRelay(c, [type |-> "approval_recorded", approval |-> f.approval])
    BY <1>5 DEF ReceiveDecision
  <2>2. f.approval \in Requests /\ f.decision \in Decisions BY <1>4, <2>1, FrameHeads
  <2>3. [type |-> "approval_recorded", approval |-> f.approval] \in FromConnector
    BY <2>2 DEF FromConnector
  <2>4. toRelay' \in [Connectors -> Seq(FromConnector)] BY <2>1, <2>3, ToRelayTypes
  <2>5. toApp' \in [Connectors -> Seq(Responses)] BY <2>1, <2>2, RespondTypes DEF TypeOK
  <2>6. conn' \in [Connectors -> ConnStates] BY <1>1, <2>1 DEF TypeOK, ConnStates
  <2>7. toConn' \in [Connectors -> Seq(FromRelay)] BY <1>4, <2>1
  <2>8. QED BY <1>5, <2>4, <2>5, <2>6, <2>7 DEF TypeOK, ReceiveDecision, rows
<1>6. CASE ReceiveReceipt(c)
  <2> DEFINE f == Head(toConn[c])
  <2>1. /\ Received(c, "delivery_receipt")
        /\ UNCHANGED conn \/ RememberDeliveryFailure(c, f.receipt)
        /\ ToRelay(c, [type |-> "delivery_recorded", receipt |-> f.receipt])
    BY <1>6 DEF ReceiveReceipt
  <2>2. f.receipt \in Receipts BY <1>4, <2>1, FrameHeads
  <2>3. [type |-> "delivery_recorded", receipt |-> f.receipt] \in FromConnector
    BY <2>2 DEF FromConnector
  <2>4. toRelay' \in [Connectors -> Seq(FromConnector)] BY <2>1, <2>3, ToRelayTypes
  <2>5. conn' \in [Connectors -> ConnStates]
    <3>1. Remembering(c, f.receipt) \in ConnStates BY <2>2, RememberingTypes DEF Failures
    <3>2. QED BY <2>1, <3>1 DEF TypeOK, RememberDeliveryFailure
  <2>6. toConn' \in [Connectors -> Seq(FromRelay)] BY <1>4, <2>1
  <2>7. QED BY <1>6, <2>4, <2>5, <2>6 DEF TypeOK, ReceiveReceipt, rows
<1>7. CASE Memory(c)
  <2>1. CASE InjectFailures(c)
    <3>1. [conn[c] EXCEPT !.failures = {}, !.injected = @ \cup conn[c].failures] \in ConnStates
      BY <1>1 DEF ConnStates
    <3>2. conn' = [conn EXCEPT ![c] =
             [conn[c] EXCEPT !.failures = {}, !.injected = @ \cup conn[c].failures]]
      BY <2>1 DEF TypeOK, InjectFailures
    <3>3. QED BY <2>1, <3>1, <3>2 DEF TypeOK, InjectFailures, rows, pipes
  <2>2. CASE ReceiveRefusal(c)
    <3>1. PICK b \in conn[c].refusals :
            conn' = [conn EXCEPT ![c] = [Remembering(c, b) EXCEPT !.refusals = @ \ {b}]]
      BY <2>2 DEF ReceiveRefusal
    <3>2. b \in Failures BY <1>1 DEF ConnStates, Failures
    <3>3. Remembering(c, b) \in ConnStates BY <3>2, RememberingTypes
    <3>4. [Remembering(c, b) EXCEPT !.refusals = @ \ {b}] \in ConnStates
      BY <3>3 DEF ConnStates
    <3>5. QED BY <2>2, <3>1, <3>4 DEF TypeOK, ReceiveRefusal, rows, pipes
  <2>3. QED BY <1>7, <2>1, <2>2 DEF Memory
<1>8. QED BY <1>2, <1>3, <1>5, <1>6, <1>7 DEF Notice, Receive

\* The app-server reads a response.
LEMMA ReadTypes ==
  ASSUME TypeOK, NEW c \in Connectors, ReadResponse(c)
  PROVE  TypeOK'
<1> DEFINE f == Head(toApp[c])
<1>1. /\ toApp[c] # <<>>
      /\ toApp' = [toApp EXCEPT ![c] = Tail(@)]
      /\ ask' = ask \/ ask' = [ask EXCEPT ![f.approval].answer = f.decision]
  BY DEF ReadResponse
<1>2. Tail(toApp[c]) \in Seq(Responses) /\ f.approval \in Requests /\ f.decision \in Decisions
  BY <1>1, ResponseHeads
<1>3. toApp' \in [Connectors -> Seq(Responses)] BY <1>1, <1>2 DEF TypeOK
<1>4. ask' \in [Requests -> AskStates]
  <2>1. ask \in [Requests -> AskStates] /\ ask[f.approval] \in AskStates
    BY <1>2 DEF TypeOK
  <2>2. \A row \in AskStates, d \in Decisions : [row EXCEPT !.answer = d] \in AskStates
    BY DEF AskStates
  <2>3. [ask[f.approval] EXCEPT !.answer = f.decision] \in AskStates
    BY <1>2, <2>1, <2>2
  <2>4. \/ ask' = ask
        \/ ask' = [ask EXCEPT ![f.approval] = [ask[f.approval] EXCEPT !.answer = f.decision]]
    BY <1>1, <1>2, <2>1
  <2>5. QED BY <1>2, <2>1, <2>3, <2>4
<1>5. QED BY <1>3, <1>4 DEF TypeOK, ReadResponse, rows

\* Every step keeps the types.
LEMMA TypeStep == TypeOK /\ [Next]_vars => TypeOK'
<1> SUFFICES ASSUME TypeOK, [Next]_vars PROVE TypeOK' OBVIOUS
<1>1. CASE UNCHANGED vars BY <1>1 DEF TypeOK, vars, rows, pipes
<1>2. CASE Next
  <2>1. ASSUME NEW c \in Connectors,
               \/ HandleLine(c) \/ ClaimOnce(c) \/ Close(c) \/ Kill(c)
               \/ Connect(c) \/ Crash(c) \/ CloseConnector(c)
               \/ Notice(c) \/ Receive(c) \/ Memory(c) \/ ReadResponse(c)
        PROVE  TypeOK'
    BY <2>1, HandleTypes, ClaimTypes, RelayLifeTypes, EndTypes, ConnectorTypes, ReadTypes
  <2>2. QED BY <1>2, <2>1, TapTypes, ReceiptTypes, RequestTypes DEF Next
<1>3. QED BY <1>1, <1>2

\* Nothing has happened at the start.
LEMMA Beginning ==
  ASSUME Init
  PROVE  /\ receipt \in [Receipts -> ReceiptRows] /\ \A r \in Receipts : ~receipt[r].delivered
         /\ tap \in [Taps -> TapStates]
         /\ \A u \in Taps : tap[u].pc \in {"none", "new"} /\ ~tap[u].won
         /\ ask \in [Requests -> AskStates]
         /\ \A a \in Requests : ask[a].guest = None /\ ask[a].answer = None
         /\ conn \in [Connectors -> ConnStates] /\ \A c \in Connectors : conn[c].failures = {}
<1>1. PICK scene \in Scenes :
        /\ receipt = [r \in Receipts |-> [status |-> IF r \in scene THEN "unsettled" ELSE "none",
                                          delivered |-> FALSE]]
        /\ tap = [u \in Taps |-> [pc |-> IF u \in scene THEN "new" ELSE "none",
                                  request |-> None, decision |-> None, won |-> FALSE]]
        /\ ask = [a \in Requests |-> [asked |-> FALSE, guest |-> None, answer |-> None,
                                      over |-> a \notin scene]]
        /\ conn = [c \in Connectors |->
                     [NewConn EXCEPT !.pc = IF c \in scene THEN "new" ELSE "down",
                                     !.refusals = Results \cap scene]]
  BY DEF Init
<1>2. receipt \in [Receipts -> ReceiptRows] /\ tap \in [Taps -> TapStates]
  BY <1>1 DEF ReceiptRows, TapStates
<1>3. \A a \in Requests : [asked |-> FALSE, guest |-> None, answer |-> None,
                           over |-> a \notin scene] \in AskStates
  BY DEF AskStates
<1>4. NewConn \in ConnStates /\ NewConn.failures = {} BY DEF NewConn, ConnStates
<1>5. \A p \in {"new", "down"} :
        LET row == [NewConn EXCEPT !.pc = p, !.refusals = Results \cap scene]
        IN  row \in ConnStates /\ row.failures = {}
  BY <1>4 DEF ConnStates
<1>6. QED BY <1>1, <1>2, <1>3, <1>5

\* They hold at the start.
LEMMA TypeInit == Init => TypeOK
<1> SUFFICES ASSUME Init PROVE TypeOK OBVIOUS
<1>1. approval \in [Requests -> ApprovalRows]
  <2>1. [state |-> "none", verdict |-> None, by |-> None, delivered |-> FALSE, due |-> FALSE]
          \in ApprovalRows
    BY DEF ApprovalRows
  <2>2. QED BY <2>1 DEF Init
<1>2. session \in Connectors \cup {None} BY DEF Init
<1>3. relay \in [Connectors -> RelayStates]
  <2>1. NewRelay \in RelayStates BY DEF RelayStates, NewRelay
  <2>2. QED BY <2>1 DEF Init
<1>4. ASSUME NEW S, NEW pipe, pipe = [c \in Connectors |-> <<>>]
      PROVE  pipe \in [Connectors -> Seq(S)]
  BY <1>4
<1>5. /\ toRelay = [c \in Connectors |-> <<>>] /\ toConn = [c \in Connectors |-> <<>>]
      /\ toApp = [c \in Connectors |-> <<>>]
  BY DEF Init
<1>6. /\ toRelay \in [Connectors -> Seq(FromConnector)] /\ toConn \in [Connectors -> Seq(FromRelay)]
      /\ toApp \in [Connectors -> Seq(Responses)]
  BY ONLY <1>4, <1>5
<1>7. QED BY <1>1, <1>2, <1>3, <1>4, <1>5, <1>6, Beginning DEF TypeOK

\* The shape of every row, process and line (TypeOK) is kept by every step.
THEOREM ApprovalTypes == Spec => []TypeOK
BY TypeInit, TypeStep, PTL DEF Spec

-----------------------------------------------------------------------------
(***************************************************************************)
(* The invariant.                                                          *)
(***************************************************************************)
\* d is the answer to a that the verdict of a's row calls for.
Agrees(a, d) == approval[a].verdict \in Verdicts /\ d = DecisionFor(approval[a].verdict)

\* A connector may also have refused a on its own.
Sound(a, d) == Agrees(a, d) \/ (a \in GuestTurns /\ d = "deny")

RowsAgree ==
  \A a \in Requests :
    /\ approval[a].state \in {"none", "pending"} => approval[a].verdict = None
    /\ approval[a].state \in Verdicts => approval[a].verdict = approval[a].state

TapsAgree ==
  /\ \A u \in Taps :
       /\ tap[u].pc \in {"none", "new"} => ~tap[u].won
       /\ tap[u].pc \notin {"none", "new"} => tap[u].request \in Requests /\ tap[u].decision \in Decisions
       /\ tap[u].won => approval[tap[u].request].verdict = VerdictOf(tap[u].decision)
  /\ \A u, v \in Taps :
       tap[u].won /\ tap[v].won /\ tap[u].request = tap[v].request => u = v
  /\ \A a \in Requests : approval[a].verdict = "approved" =>
       \E u \in Taps : tap[u].won /\ tap[u].request = a /\ tap[u].decision = "approve"

GoodFrames == {f \in FromRelay : f.type = "approval_response" => Agrees(f.approval, f.decision)}
GoodResponses == {f \in Responses : Sound(f.approval, f.decision)}

WiresAgree ==
  \A c \in Connectors : toConn[c] \in Seq(GoodFrames) /\ toApp[c] \in Seq(GoodResponses)

AnswersAgree ==
  \A a \in Requests :
    /\ ask[a].guest # None => a \in GuestTurns
    /\ ask[a].answer # None => Sound(a, ask[a].answer)

ApprovalInv == TypeOK /\ RowsAgree /\ TapsAgree /\ WiresAgree /\ AnswersAgree

\* The invariant holds at the start.
LEMMA InvInit == Init => ApprovalInv
<1> SUFFICES ASSUME Init PROVE ApprovalInv OBVIOUS
<1>1. TypeOK BY TypeInit
<1>2. RowsAgree BY DEF Init, RowsAgree, Verdicts
<1>3. TapsAgree
  <2>1. \A a \in Requests : approval[a].verdict = None BY DEF Init
  <2>2. QED BY <2>1, Beginning, RelayApprovalsAssumption DEF TapsAgree, RelayApprovalsAssumption
<1>4. WiresAgree
  <2>1. \A c \in Connectors : toConn[c] = <<>> /\ toApp[c] = <<>> BY DEF Init
  <2>2. <<>> \in Seq(GoodFrames) /\ <<>> \in Seq(GoodResponses) OBVIOUS
  <2>3. QED BY <2>1, <2>2 DEF WiresAgree
<1>5. AnswersAgree BY Beginning DEF AnswersAgree
<1>6. QED BY <1>1, <1>2, <1>3, <1>4, <1>5 DEF ApprovalInv

-----------------------------------------------------------------------------
(***************************************************************************)
(* Every step is one of the lifecycle.                                     *)
(***************************************************************************)
LEMMA LifecycleInit == Init => Lifecycle!Init
<1> SUFFICES ASSUME Init PROVE Lifecycle!Init OBVIOUS
<1>1. [a \in Requests |-> ask[a].answer] = [a \in Requests |-> None] BY Beginning
<1>2. QED BY <1>1 DEF Init, Lifecycle!Init

\* A step of one request.
LEMMA OneRequest ==
  ASSUME NEW x \in Requests,
         Lifecycle!Record(x) \/ Lifecycle!Cancel(x) \/ Lifecycle!Answer(x) \/ Lifecycle!Refuse(x)
  PROVE  Lifecycle!Next
BY DEF Lifecycle!Next

\* The rows and the answers are all the lifecycle sees.
LEMMA UnseenStep ==
  ASSUME TypeOK,
         \A a \in Requests : /\ approval'[a].state = approval[a].state
                             /\ approval'[a].verdict = approval[a].verdict
                             /\ ask'[a].answer = ask[a].answer
  PROVE  UNCHANGED Lifecycle!vars
BY DEF Lifecycle!vars

\* Rows settled together.
LEMMA SettledStep ==
  ASSUME TypeOK, NEW S \in SUBSET Pending, NEW v \in Verdicts, approval' = Settled(S, v),
         UNCHANGED ask
  PROVE  Lifecycle!Next
<1>1. S \in SUBSET Requests /\ \A a \in S : approval[a].state = "pending" BY DEF Pending
<1>2. \A a \in Requests : approval'[a].state = IF a \in S THEN v ELSE approval[a].state
  BY <1>1 DEF Settled, TypeOK, ApprovalRows
<1>3. \A a \in Requests : approval'[a].verdict = IF a \in S THEN v ELSE approval[a].verdict
  BY <1>1 DEF Settled, TypeOK, ApprovalRows
<1>4. Lifecycle!Decide(S, v) BY <1>1, <1>2, <1>3 DEF Lifecycle!Decide
<1>5. v \in Lifecycle!Verdicts BY DEF Verdicts, Lifecycle!Verdicts
<1>6. QED BY <1>1, <1>4, <1>5 DEF Lifecycle!Next

\* A tap decides at most one pending request.
LEMMA CallbackRefines ==
  ASSUME ApprovalInv, NEW u \in Taps, Callback(u)
  PROVE  [Lifecycle!Next]_(Lifecycle!vars)
<1>1. CASE Press(u) BY <1>1, UnseenStep DEF ApprovalInv, Press, rows
<1>2. CASE Resolve(u)
  <2>1. CASE tap[u].request \in Pending \ Overdue
    <3>1. {tap[u].request} \in SUBSET Pending BY <2>1
    <3>2. VerdictOf(tap[u].decision) \in Verdicts BY DEF VerdictOf, Verdicts
    <3>3. approval' = Settled({tap[u].request}, VerdictOf(tap[u].decision))
      BY <1>2, <2>1 DEF Resolve
    <3>4. QED BY <1>2, <3>1, <3>2, <3>3, SettledStep DEF ApprovalInv, Resolve
  <2>2. CASE tap[u].request \notin Pending \ Overdue
    <3>1. {tap[u].request} \cap Overdue \in SUBSET Pending BY DEF Overdue
    <3>2. "expired" \in Verdicts BY DEF Verdicts
    <3>3. approval' = Settled({tap[u].request} \cap Overdue, "expired")
      BY <1>2, <2>2 DEF Resolve
    <3>4. QED BY <1>2, <3>1, <3>2, <3>3, SettledStep DEF ApprovalInv, Resolve
  <2>3. QED BY <2>1, <2>2
<1>3. CASE ClaimAgain(u) BY <1>3, UnseenStep DEF ApprovalInv, ClaimAgain, rows
<1>4. QED BY <1>1, <1>2, <1>3 DEF Callback

\* A request at the app-server: only its answer is visible.
LEMMA RequestRefines ==
  ASSUME ApprovalInv, NEW a \in Requests, Deadline(a) \/ Ask(a) \/ EndTurn(a)
  PROVE  [Lifecycle!Next]_(Lifecycle!vars)
<1> USE DEF ApprovalInv
<1>1. CASE Deadline(a)
  <2>1. \A b \in Requests : /\ approval'[b].state = approval[b].state
                            /\ approval'[b].verdict = approval[b].verdict
    BY <1>1 DEF Deadline, TypeOK, ApprovalRows
  <2>2. QED BY <1>1, <2>1, UnseenStep DEF Deadline
<1>2. CASE Ask(a)
  <2>1. \A b \in Requests : ask'[b].answer = ask[b].answer
    <3>1. PICK c : ask' = [ask EXCEPT ![a].asked = TRUE, ![a].guest = c] BY <1>2 DEF Ask
    <3>2. QED BY <3>1 DEF TypeOK, AskStates
  <2>2. QED BY <1>2, <2>1, UnseenStep DEF Ask, rows
<1>3. CASE EndTurn(a)
  <2>1. \A b \in Requests : ask'[b].answer = ask[b].answer
    BY <1>3 DEF EndTurn, TypeOK, AskStates
  <2>2. QED BY <1>3, <2>1, UnseenStep DEF EndTurn, rows
<1>4. QED BY <1>1, <1>2, <1>3

\* A line that changes one row, or none.
LEMMA LineRefines ==
  ASSUME ApprovalInv, NEW c \in Connectors, HandleLine(c)
  PROVE  [Lifecycle!Next]_(Lifecycle!vars)
<1> USE DEF ApprovalInv
<1>1. UNCHANGED ask
  BY DEF HandleLine, HandleHello, HandleApprovalRequest, HandleApprovalRecorded,
         HandleApprovalCancel, HandleDeliveryRecorded
<1>2. CASE HandleHello(c) \/ HandleDeliveryRecorded(c)
  BY <1>2, UnseenStep DEF HandleHello, HandleDeliveryRecorded
<1>3. CASE HandleApprovalRequest(c)
  <2>1. PICK a \in Requests : a = Head(toRelay[c]).approval
    BY <1>3, LineTypes DEF HandleApprovalRequest, Line
  <2>2. \/ approval[a].state = "none" /\ CreateRelayApproval(a, c)
        \/ RebindRelayApproval(a, c)
        \/ UNCHANGED approval
    BY <1>3, <2>1 DEF HandleApprovalRequest
  <2>3. CASE approval[a].state = "none" /\ CreateRelayApproval(a, c)
    <3>1. \A b \in Requests :
            /\ approval'[b].state = IF b = a THEN "pending" ELSE approval[b].state
            /\ approval'[b].verdict = approval[b].verdict
      BY <2>1, <2>3 DEF CreateRelayApproval, TypeOK, ApprovalRows
    <3>2. Lifecycle!Record(a) BY <1>1, <2>1, <2>3, <3>1 DEF Lifecycle!Record
    <3>3. QED BY <2>1, <3>2, OneRequest
  <2>4. CASE RebindRelayApproval(a, c)
    <3>1. approval \in [Requests -> ApprovalRows] /\ approval[a] \in ApprovalRows
      BY <2>1 DEF TypeOK
    <3>2. \A b \in Requests : b # a => approval'[b] = approval[b]
      BY <2>1, <2>4, <3>1 DEF RebindRelayApproval
    <3>3. approval'[a].state = approval[a].state /\ approval'[a].verdict = approval[a].verdict
      BY <2>1, <2>4, <3>1 DEF RebindRelayApproval, ApprovalRows
    <3>4. \A b \in Requests : /\ approval'[b].state = approval[b].state
                              /\ approval'[b].verdict = approval[b].verdict
      BY <3>2, <3>3
    <3>5. QED BY <1>1, <3>4, UnseenStep
  <2>5. CASE UNCHANGED approval BY <1>1, <2>5, UnseenStep
  <2>6. QED BY <2>2, <2>3, <2>4, <2>5
<1>4. CASE HandleApprovalRecorded(c)
  <2>1. PICK a \in Requests : a = Head(toRelay[c]).approval
    BY <1>4, LineTypes DEF HandleApprovalRecorded, Line
  <2>2. MarkRelayApprovalDelivered(a) \/ UNCHANGED approval
    BY <1>4, <2>1 DEF HandleApprovalRecorded
  <2>3. CASE UNCHANGED approval BY <1>1, <2>3, UnseenStep
  <2>4. CASE MarkRelayApprovalDelivered(a)
    <3>1. \A b \in Requests : /\ approval'[b].state = approval[b].state
                              /\ approval'[b].verdict = approval[b].verdict
      BY <2>4 DEF MarkRelayApprovalDelivered, TypeOK, ApprovalRows
    <3>2. QED BY <1>1, <3>1, UnseenStep
  <2>5. QED BY <2>2, <2>3, <2>4
<1>5. CASE HandleApprovalCancel(c)
  <2>1. PICK a \in Requests : a = Head(toRelay[c]).approval
    BY <1>5, LineTypes DEF HandleApprovalCancel, Line
  <2>2. CancelRelayApproval(a) BY <1>5, <2>1 DEF HandleApprovalCancel
  <2>3. CASE approval[a].state # "none" /\ ~approval[a].delivered
    <3>1. \A b \in Requests :
            /\ approval'[b].state = IF b = a THEN "cancelled" ELSE approval[b].state
            /\ approval'[b].verdict = approval[b].verdict
      BY <2>2, <2>3 DEF CancelRelayApproval, TypeOK, ApprovalRows
    <3>2. Lifecycle!Cancel(a) BY <1>1, <2>3, <3>1 DEF Lifecycle!Cancel
    <3>3. QED BY <3>2, OneRequest
  <2>4. CASE ~(approval[a].state # "none" /\ ~approval[a].delivered)
    BY <1>1, <2>2, <2>4, UnseenStep DEF CancelRelayApproval
  <2>5. QED BY <2>3, <2>4
<1>6. QED BY <1>2, <1>3, <1>4, <1>5 DEF HandleLine

\* The other steps of relays and connectors touch neither answers nor, but for
\* the deadline, rows.
LEMMA ProcessRefines ==
  ASSUME ApprovalInv, NEW c \in Connectors,
         \/ ClaimOnce(c) \/ Close(c) \/ Kill(c) \/ Connect(c) \/ Crash(c) \/ CloseConnector(c)
         \/ Notice(c) \/ Receive(c) \/ Memory(c)
  PROVE  [Lifecycle!Next]_(Lifecycle!vars)
<1>1. CASE ExpireRelayApprovals(c)
  <2>1. Overdue \in SUBSET Pending BY DEF Overdue
  <2>2. "expired" \in Verdicts BY DEF Verdicts
  <2>3. QED BY <1>1, <2>1, <2>2, SettledStep DEF ApprovalInv, ExpireRelayApprovals
<1>2. CASE ~ExpireRelayApprovals(c)
  <2>1. UNCHANGED <<approval, ask>>
    BY <1>2 DEF ClaimOnce, ClaimFails, SendReceipt, SendDecision, Close, Kill, Leave, Connect,
            Crash, CloseConnector, Notice, NoticeRequest, NoticeTurnCompleted, Receive,
            ReceiveDecision, ReceiveReceipt, Memory, InjectFailures, ReceiveRefusal, rows
  <2>2. QED BY <2>1, UnseenStep DEF ApprovalInv
<1>3. QED BY <1>1, <1>2

\* The app-server takes an answer that agrees with the verdict, or a refusal.
LEMMA ReadRefines ==
  ASSUME ApprovalInv, NEW c \in Connectors, ReadResponse(c)
  PROVE  [Lifecycle!Next]_(Lifecycle!vars)
<1>1. toApp[c] # <<>> /\ toApp[c] \in Seq(GoodResponses)
  BY DEF ApprovalInv, WiresAgree, ReadResponse
<1>2. PICK f \in GoodResponses : f = Head(toApp[c]) BY <1>1, HeadTailProperties
<1>3. f.approval \in Requests /\ Sound(f.approval, f.decision)
  BY DEF GoodResponses, Responses
<1>4. UNCHANGED approval BY DEF ReadResponse, rows
<1>5. CASE ~Open(f.approval)
  <2>1. UNCHANGED ask BY <1>2, <1>5 DEF ReadResponse
  <2>2. QED BY <1>4, <2>1, UnseenStep DEF ApprovalInv
<1>6. CASE Open(f.approval)
  <2>1. ask' = [ask EXCEPT ![f.approval].answer = f.decision] BY <1>2, <1>6 DEF ReadResponse
  <2>2. \A b \in Requests :
          ask'[b].answer = IF b = f.approval THEN f.decision ELSE ask[b].answer
    BY <1>3, <2>1 DEF ApprovalInv, TypeOK, AskStates
  <2>3. ask[f.approval].answer = None BY <1>6 DEF Open
  <2>4. CASE Agrees(f.approval, f.decision)
    <3>1. Lifecycle!Answer(f.approval)
      BY <1>3, <1>4, <2>2, <2>3, <2>4
      DEF Lifecycle!Answer, Lifecycle!Verdicts, Agrees, DecisionFor, Verdicts
    <3>2. QED BY <1>3, <3>1, OneRequest
  <2>5. CASE f.approval \in GuestTurns /\ f.decision = "deny"
    <3>1. Lifecycle!Refuse(f.approval)
      BY <1>3, <1>4, <2>2, <2>3, <2>5 DEF Lifecycle!Refuse
    <3>2. QED BY <1>3, <3>1, OneRequest
  <2>6. QED BY <1>3, <2>4, <2>5 DEF Sound
<1>7. QED BY <1>5, <1>6

\* Every step is one of the lifecycle, or invisible to it.
LEMMA LifecycleStep == ApprovalInv /\ [Next]_vars => [Lifecycle!Next]_(Lifecycle!vars)
<1> SUFFICES ASSUME ApprovalInv, [Next]_vars PROVE [Lifecycle!Next]_(Lifecycle!vars) OBVIOUS
<1>1. CASE UNCHANGED vars BY <1>1, UnseenStep DEF ApprovalInv, vars, rows
<1>2. CASE Next
  <2>1. ASSUME NEW r \in Receipts, SettleReceipt(r) PROVE [Lifecycle!Next]_(Lifecycle!vars)
    BY <2>1, UnseenStep DEF ApprovalInv, SettleReceipt
  <2>2. ASSUME NEW c \in Connectors,
               \/ HandleLine(c) \/ ClaimOnce(c) \/ Close(c) \/ Kill(c)
               \/ Connect(c) \/ Crash(c) \/ CloseConnector(c)
               \/ Notice(c) \/ Receive(c) \/ Memory(c) \/ ReadResponse(c)
        PROVE  [Lifecycle!Next]_(Lifecycle!vars)
    BY <2>2, LineRefines, ProcessRefines, ReadRefines
  <2>3. QED BY <1>2, <2>1, <2>2, CallbackRefines, RequestRefines DEF Next
<1>3. QED BY <1>1, <1>2

-----------------------------------------------------------------------------
(***************************************************************************)
(* What the lifecycle alone keeps: rows agree with verdicts, and a verdict, *)
(* once there, stays.                                                      *)
(***************************************************************************)
VerdictsKept ==
  \A a \in Requests : approval[a].verdict \in Verdicts => approval'[a].verdict = approval[a].verdict

\* Rows keep their verdicts.
LEMMA RowsKept ==
  ASSUME ApprovalInv, [Next]_vars
  PROVE  RowsAgree' /\ VerdictsKept
<1> DEFINE Kept(b) ==
      /\ approval'[b].state \in {"none", "pending"} => approval'[b].verdict = None
      /\ approval'[b].state \in Verdicts => approval'[b].verdict = approval'[b].state
      /\ approval[b].verdict \in Verdicts => approval'[b].verdict = approval[b].verdict
<1>1. [Lifecycle!Next]_(Lifecycle!vars) BY LifecycleStep
<1>2. None \notin Verdicts BY RelayApprovalsAssumption DEF RelayApprovalsAssumption, Verdicts
<1>3. RowsAgree BY DEF ApprovalInv
<1>4. SUFFICES ASSUME NEW b \in Requests PROVE Kept(b) BY DEF RowsAgree, VerdictsKept
<1>5. CASE UNCHANGED Lifecycle!vars
  <2>1. approval'[b].state = approval[b].state /\ approval'[b].verdict = approval[b].verdict
    BY <1>5 DEF Lifecycle!vars
  <2>2. QED BY <1>3, <2>1 DEF RowsAgree
<1>6. ASSUME NEW a \in Requests, Lifecycle!Record(a) PROVE Kept(b)
  <2>1. /\ approval'[b].state = IF b = a THEN "pending" ELSE approval[b].state
        /\ approval'[b].verdict = approval[b].verdict
        /\ approval[a].state = "none"
    BY <1>6 DEF Lifecycle!Record
  <2>2. QED BY <1>3, <2>1 DEF RowsAgree, Verdicts
<1>7. ASSUME NEW a \in Requests, Lifecycle!Cancel(a) PROVE Kept(b)
  <2>1. /\ approval'[b].state = IF b = a THEN "cancelled" ELSE approval[b].state
        /\ approval'[b].verdict = approval[b].verdict
    BY <1>7 DEF Lifecycle!Cancel
  <2>2. QED BY <1>3, <2>1 DEF RowsAgree, Verdicts
<1>8. ASSUME NEW a \in Requests, Lifecycle!Answer(a) \/ Lifecycle!Refuse(a) PROVE Kept(b)
  <2>1. approval'[b].state = approval[b].state /\ approval'[b].verdict = approval[b].verdict
    BY <1>8 DEF Lifecycle!Answer, Lifecycle!Refuse
  <2>2. QED BY <1>3, <2>1 DEF RowsAgree
<1>9. ASSUME NEW S \in SUBSET Requests, NEW v \in Verdicts, Lifecycle!Decide(S, v) PROVE Kept(b)
  <2>1. /\ approval'[b].state = IF b \in S THEN v ELSE approval[b].state
        /\ approval'[b].verdict = IF b \in S THEN v ELSE approval[b].verdict
        /\ b \in S => approval[b].state = "pending"
    BY <1>9 DEF Lifecycle!Decide
  <2>2. QED BY <1>2, <1>3, <2>1 DEF RowsAgree, Verdicts
<1>10. CASE Lifecycle!Next
  BY <1>10, <1>6, <1>7, <1>8, <1>9 DEF Lifecycle!Next, Lifecycle!Verdicts, Verdicts
<1>11. QED BY <1>1, <1>5, <1>10

\* So what was right to say of a verdict stays right.
LEMMA GoodGrows ==
  ASSUME VerdictsKept
  PROVE  GoodFrames \subseteq GoodFrames' /\ GoodResponses \subseteq GoodResponses'
<1>1. ASSUME NEW f \in GoodFrames PROVE f \in GoodFrames'
  <2>1. f \in FromRelay BY DEF GoodFrames
  <2>2. CASE f.type = "approval_response"
    <3>1. f.approval \in Requests BY <2>1, <2>2 DEF FromRelay
    <3>2. Agrees(f.approval, f.decision) BY <2>2 DEF GoodFrames
    <3>3. Agrees(f.approval, f.decision)' BY <3>1, <3>2 DEF VerdictsKept, Agrees
    <3>4. QED BY <2>1, <3>3 DEF GoodFrames
  <2>3. CASE f.type # "approval_response" BY <2>1, <2>3 DEF GoodFrames
  <2>4. QED BY <2>2, <2>3
<1>2. ASSUME NEW f \in GoodResponses PROVE f \in GoodResponses'
  <2>1. f \in Responses /\ f.approval \in Requests /\ Sound(f.approval, f.decision)
    BY DEF GoodResponses, Responses
  <2>2. Sound(f.approval, f.decision)' BY <2>1 DEF VerdictsKept, Sound, Agrees
  <2>3. QED BY <2>1, <2>2 DEF GoodResponses
<1>3. QED BY <1>1, <1>2

-----------------------------------------------------------------------------
(***************************************************************************)
(* Pipes.                                                                  *)
(***************************************************************************)
\* What one step may do to a pipe: nothing, read it, cut it, or write e to it.
Moves(s, t, E) ==
  \/ t = s \/ t = <<>>
  \/ s # <<>> /\ t = Tail(s)
  \/ \E n \in 0..Len(s) : t = SubSeq(s, 1, n)
  \/ \E e \in E : t = Append(s, e)

\* A pipe moved by one line holds nothing it may not hold.
LEMMA PipeStep ==
  ASSUME NEW S, NEW E, S \subseteq E, NEW s \in Seq(S), NEW t, Moves(s, t, E)
  PROVE  t \in Seq(E)
<1>1. s \in Seq(E) BY SeqMonotonic
<1>2. CASE t = s BY <1>1, <1>2
<1>3. CASE t = <<>> BY <1>3
<1>4. CASE s # <<>> /\ t = Tail(s) BY <1>1, <1>4, HeadTailProperties
<1>5. CASE \E n \in 0..Len(s) : t = SubSeq(s, 1, n)
  <2>1. PICK n \in 0..Len(s) : t = SubSeq(s, 1, n) BY <1>5
  <2>2. Len(s) \in Nat /\ \A i \in 1..Len(s) : s[i] \in E BY <1>1, LenProperties, ElementOfSeq
  <2>3. n \in Int /\ \A i \in 1..n : s[i] \in E BY <2>2
  <2>4. QED BY <2>1, <2>3, SubSeqProperties
<1>6. CASE \E e \in E : t = Append(s, e) BY <1>1, <1>6
<1>7. QED BY <1>2, <1>3, <1>4, <1>5, <1>6 DEF Moves

\* A frame or response that is written agrees with its row.
LEMMA WireSteps ==
  ASSUME ApprovalInv, [Next]_vars, NEW d \in Connectors
  PROVE  /\ Moves(toConn[d], toConn'[d], GoodFrames')
         /\ Moves(toApp[d], toApp'[d], GoodResponses')
<1> DEFINE Goal == /\ Moves(toConn[d], toConn'[d], GoodFrames')
                   /\ Moves(toApp[d], toApp'[d], GoodResponses')
<1> USE DEF ApprovalInv
<1>1. VerdictsKept BY RowsKept
<1>2. ASSUME UNCHANGED <<toConn, toApp>> PROVE Goal BY <1>2 DEF Moves
<1>3. CASE UNCHANGED vars BY <1>2, <1>3 DEF vars, pipes
<1>4. ASSUME NEW c \in Connectors, SendReceipt(c) PROVE Goal
  <2>1. PICK r \in NextReceipts :
          ToConn(c, [type |-> "delivery_receipt", receipt |-> r, status |-> receipt[r].status])
    BY <1>4 DEF SendReceipt
  <2> DEFINE f == [type |-> "delivery_receipt", receipt |-> r, status |-> receipt[r].status]
  <2>2. f \in GoodFrames' BY DEF f, GoodFrames, FromRelay, NextReceipts, DueReceipts, Undelivered, Settling, ReceiptRows, TypeOK
  <2>3. toConn'[d] = toConn[d] \/ toConn'[d] = Append(toConn[d], f)
    BY <2>1 DEF ToConn, TypeOK
  <2>4. toApp' = toApp BY <1>4 DEF SendReceipt
  <2> HIDE DEF f
  <2>5. QED BY <2>2, <2>3, <2>4 DEF Moves
<1>5. ASSUME NEW c \in Connectors, SendDecision(c) PROVE Goal
  <2>1. PICK a \in Requests :
          /\ Decided(a)
          /\ ToConn(c, [type |-> "approval_response", approval |-> a,
                        decision |-> DecisionFor(approval[a].state)])
    BY <1>5 DEF SendDecision
  <2> DEFINE f == [type |-> "approval_response", approval |-> a,
                   decision |-> DecisionFor(approval[a].state)]
  <2>2. approval' = approval /\ toApp' = toApp BY <1>5 DEF SendDecision, rows
  <2>3. Agrees(a, DecisionFor(approval[a].state))'
    BY <2>1, <2>2 DEF Decided, RowsAgree, Agrees
  <2>4. f \in FromRelay BY DEF FromRelay, DecisionFor, Decisions
  <2>5. f \in GoodFrames' BY <2>2, <2>3, <2>4 DEF GoodFrames
  <2>6. toConn'[d] = toConn[d] \/ toConn'[d] = Append(toConn[d], f)
    BY <2>1 DEF ToConn, TypeOK
  <2> HIDE DEF f
  <2>7. QED BY <2>2, <2>5, <2>6 DEF Moves
<1>6. ASSUME NEW c \in Connectors, Crash(c) \/ CloseConnector(c) PROVE Goal
  <2>1. toConn' = [toConn EXCEPT ![c] = <<>>] BY <1>6 DEF Crash, CloseConnector
  <2>2. Lose(toApp, c, 0) BY <1>6 DEF Crash, CloseConnector
  <2>3. toConn'[d] = toConn[d] \/ toConn'[d] = <<>> BY <2>1 DEF TypeOK
  <2>4. toApp'[d] = toApp[d] \/ \E n \in 0..Len(toApp[d]) : toApp'[d] = SubSeq(toApp[d], 1, n)
    BY <2>2 DEF Lose, TypeOK
  <2>5. QED BY <2>3, <2>4 DEF Moves
<1>7. ASSUME NEW c \in Connectors, NoticeRequest(c) PROVE Goal
  <2>1. toConn' = toConn BY <1>7 DEF NoticeRequest
  <2>2. CASE toApp' = toApp BY <1>2, <2>1, <2>2
  <2>3. CASE \E a \in conn[c].asked : ask[a].guest = c /\ Respond(c, a, "deny")
    <3>1. PICK a \in conn[c].asked : ask[a].guest = c /\ Respond(c, a, "deny") BY <2>3
    <3>2. a \in Requests BY DEF TypeOK, ConnStates
    <3>3. a \in GuestTurns
      BY <3>1, <3>2, RelayApprovalsAssumption DEF AnswersAgree, RelayApprovalsAssumption
    <3>4. [approval |-> a, decision |-> "deny"] \in GoodResponses'
      BY <3>2, <3>3 DEF GoodResponses, Responses, Sound, Decisions
    <3>5. toApp'[d] = toApp[d] \/ toApp'[d] = Append(toApp[d], [approval |-> a, decision |-> "deny"])
      BY <3>1 DEF Respond, TypeOK
    <3>6. QED BY <2>1, <3>4, <3>5 DEF Moves
  <2>4. QED BY <1>7, <2>2, <2>3 DEF NoticeRequest
<1>8. ASSUME NEW c \in Connectors, ReceiveDecision(c) PROVE Goal
  <2>1. toConn[c] # <<>> /\ toConn[c] \in Seq(GoodFrames) BY <1>8 DEF ReceiveDecision, Received, WiresAgree
  <2>2. PICK f \in GoodFrames : f = Head(toConn[c]) BY <2>1, HeadTailProperties
  <2>3. /\ f.type = "approval_response"
        /\ toConn' = [toConn EXCEPT ![c] = Tail(@)]
        /\ Respond(c, f.approval, f.decision) \/ toApp' = toApp
    BY <1>8, <2>2 DEF ReceiveDecision, Received
  <2>4. f.approval \in Requests /\ f.decision \in Decisions /\ Agrees(f.approval, f.decision)
    BY <2>3 DEF GoodFrames, FromRelay
  <2>5. Sound(f.approval, f.decision)' BY <1>1, <2>4 DEF VerdictsKept, Sound, Agrees
  <2>6. [approval |-> f.approval, decision |-> f.decision] \in GoodResponses'
    BY <2>4, <2>5 DEF GoodResponses, Responses
  <2>7. \/ toApp'[d] = toApp[d]
        \/ toApp'[d] = Append(toApp[d], [approval |-> f.approval, decision |-> f.decision])
    BY <2>3 DEF Respond, TypeOK
  <2>8. toConn'[d] = toConn[d] \/ (toConn[d] # <<>> /\ toConn'[d] = Tail(toConn[d]))
    BY <2>1, <2>3 DEF TypeOK
  <2>9. QED BY <2>6, <2>7, <2>8 DEF Moves
<1>9. ASSUME NEW c \in Connectors, ReceiveReceipt(c) PROVE Goal
  <2>1. toConn[c] # <<>> /\ toConn' = [toConn EXCEPT ![c] = Tail(@)] /\ toApp' = toApp
    BY <1>9 DEF ReceiveReceipt, Received
  <2>2. toConn'[d] = toConn[d] \/ (toConn[d] # <<>> /\ toConn'[d] = Tail(toConn[d]))
    BY <2>1 DEF TypeOK
  <2>3. QED BY <2>1, <2>2 DEF Moves
<1>10. ASSUME NEW c \in Connectors, ReadResponse(c) PROVE Goal
  <2>1. toApp[c] # <<>> /\ toApp' = [toApp EXCEPT ![c] = Tail(@)] /\ toConn' = toConn
    BY <1>10 DEF ReadResponse
  <2>2. toApp'[d] = toApp[d] \/ (toApp[d] # <<>> /\ toApp'[d] = Tail(toApp[d]))
    BY <2>1 DEF TypeOK
  <2>3. QED BY <2>1, <2>2 DEF Moves
<1>11. ASSUME NEW c \in Connectors,
              \/ HandleLine(c) \/ ClaimFails(c) \/ ExpireRelayApprovals(c) \/ Close(c) \/ Kill(c)
              \/ Connect(c) \/ NoticeTurnCompleted(c) \/ Memory(c)
       PROVE  Goal
  <2>1. UNCHANGED <<toConn, toApp>>
    BY <1>11 DEF HandleLine, HandleHello, HandleApprovalRequest, HandleApprovalRecorded,
            HandleApprovalCancel, HandleDeliveryRecorded, ClaimFails, ExpireRelayApprovals, Close,
            Kill, Leave, Connect, NoticeTurnCompleted, Memory, InjectFailures, ReceiveRefusal, pipes
  <2>2. QED BY <1>2, <2>1
<1>12. CASE Next
  <2>1. ASSUME NEW c \in Connectors,
               \/ HandleLine(c) \/ ClaimOnce(c) \/ Close(c) \/ Kill(c)
               \/ Connect(c) \/ Crash(c) \/ CloseConnector(c)
               \/ Notice(c) \/ Receive(c) \/ Memory(c) \/ ReadResponse(c)
        PROVE  Goal
    BY <2>1, <1>4, <1>5, <1>6, <1>7, <1>8, <1>9, <1>10, <1>11 DEF ClaimOnce, Notice, Receive
  <2>2. ASSUME NEW u \in Taps, Callback(u) PROVE Goal
    BY <2>2, <1>2 DEF Callback, Press, Resolve, ClaimAgain, pipes
  <2>3. ASSUME NEW r \in Receipts, SettleReceipt(r) PROVE Goal
    BY <2>3, <1>2 DEF SettleReceipt, pipes
  <2>4. ASSUME NEW a \in Requests, Deadline(a) \/ Ask(a) \/ EndTurn(a) PROVE Goal
    BY <2>4, <1>2 DEF Deadline, Ask, EndTurn, pipes
  <2>5. QED BY <1>12, <2>1, <2>2, <2>3, <2>4 DEF Next
<1>13. QED BY <1>3, <1>12

\* Hence what is on its way keeps agreeing with the verdicts.
LEMMA WiresStay == ASSUME ApprovalInv, [Next]_vars PROVE WiresAgree'
<1>1. GoodFrames \subseteq GoodFrames' /\ GoodResponses \subseteq GoodResponses'
  BY RowsKept, GoodGrows
<1>2. ASSUME NEW d \in Connectors
      PROVE  toConn'[d] \in Seq(GoodFrames') /\ toApp'[d] \in Seq(GoodResponses')
  <2>1. toConn[d] \in Seq(GoodFrames) /\ toApp[d] \in Seq(GoodResponses)
    BY DEF ApprovalInv, WiresAgree
  <2>2. Moves(toConn[d], toConn'[d], GoodFrames') /\ Moves(toApp[d], toApp'[d], GoodResponses')
    BY WireSteps
  <2>3. toConn'[d] \in Seq(GoodFrames') BY <1>1, <2>1, <2>2, PipeStep
  <2>4. toApp'[d] \in Seq(GoodResponses') BY <1>1, <2>1, <2>2, PipeStep
  <2>5. QED BY <2>3, <2>4
<1>3. QED BY <1>2 DEF WiresAgree

-----------------------------------------------------------------------------
(***************************************************************************)
(* Answers and taps.                                                       *)
(***************************************************************************)
LEMMA AnswersStay == ASSUME ApprovalInv, [Next]_vars PROVE AnswersAgree'
<1> USE DEF ApprovalInv
<1>1. VerdictsKept BY RowsKept
<1> DEFINE Goal(b) == (/\ ask[b].guest # None => b \in GuestTurns
                       /\ ask[b].answer # None => Sound(b, ask[b].answer))'
<1>2. SUFFICES ASSUME NEW b \in Requests PROVE Goal(b) BY DEF AnswersAgree
<1>3. ASSUME ask'[b].guest = ask[b].guest, ask'[b].answer = ask[b].answer PROVE Goal(b)
  BY <1>1, <1>3 DEF AnswersAgree, VerdictsKept, Sound, Agrees
<1>4. ASSUME NEW a \in Requests, Ask(a) PROVE Goal(b)
  <2>1. PICK c \in {None} \cup (IF a \in GuestTurns THEN {d \in Connectors : Up(d)} ELSE {}) :
          ask' = [ask EXCEPT ![a].asked = TRUE, ![a].guest = c]
    BY <1>4 DEF Ask
  <2>2. ask'[b].answer = ask[b].answer BY <2>1 DEF TypeOK, AskStates
  <2>3. ask'[b].guest = IF b = a THEN c ELSE ask[b].guest BY <2>1 DEF TypeOK, AskStates
  <2>4. c # None => a \in GuestTurns BY <2>1
  <2>5. QED BY <1>1, <2>2, <2>3, <2>4 DEF AnswersAgree, VerdictsKept, Sound, Agrees
<1>5. ASSUME NEW a \in Requests, EndTurn(a) PROVE Goal(b)
  BY <1>3, <1>5 DEF EndTurn, TypeOK, AskStates
<1>6. ASSUME NEW c \in Connectors, ReadResponse(c) PROVE Goal(b)
  <2>1. toApp[c] # <<>> /\ toApp[c] \in Seq(GoodResponses) BY <1>6 DEF WiresAgree, ReadResponse
  <2>2. PICK f \in GoodResponses : f = Head(toApp[c]) BY <2>1, HeadTailProperties
  <2>3. f.approval \in Requests /\ Sound(f.approval, f.decision) BY DEF GoodResponses, Responses
  <2>4. ask' = ask \/ ask' = [ask EXCEPT ![f.approval].answer = f.decision]
    BY <1>6, <2>2 DEF ReadResponse
  <2>5. CASE ask' = ask BY <1>3, <2>5
  <2>6. CASE ask' = [ask EXCEPT ![f.approval].answer = f.decision]
    <3>1. /\ ask'[b].guest = ask[b].guest
          /\ ask'[b].answer = IF b = f.approval THEN f.decision ELSE ask[b].answer
      BY <2>3, <2>6 DEF TypeOK, AskStates
    <3>2. CASE b = f.approval
      BY <1>1, <2>3, <3>1, <3>2 DEF AnswersAgree, VerdictsKept, Sound, Agrees
    <3>3. CASE b # f.approval BY <1>3, <3>1, <3>3
    <3>4. QED BY <3>2, <3>3
  <2>7. QED BY <2>4, <2>5, <2>6
<1>7. ASSUME UNCHANGED ask PROVE Goal(b) BY <1>3, <1>7
<1>8. CASE UNCHANGED vars BY <1>7, <1>8 DEF vars
<1>9. CASE Next
  <2>1. ASSUME NEW c \in Connectors,
               \/ HandleLine(c) \/ ClaimOnce(c) \/ Close(c) \/ Kill(c)
               \/ Connect(c) \/ Crash(c) \/ CloseConnector(c)
               \/ Notice(c) \/ Receive(c) \/ Memory(c)
        PROVE  UNCHANGED ask
    BY <2>1 DEF HandleLine, HandleHello, HandleApprovalRequest, HandleApprovalRecorded,
            HandleApprovalCancel, HandleDeliveryRecorded, ClaimOnce, ClaimFails, SendReceipt,
            ExpireRelayApprovals, SendDecision, Close, Kill, Leave, Connect, Crash, CloseConnector,
            Notice, NoticeRequest, NoticeTurnCompleted, Receive, ReceiveDecision, ReceiveReceipt,
            Memory, InjectFailures, ReceiveRefusal
  <2>2. ASSUME NEW u \in Taps, Callback(u) PROVE UNCHANGED ask
    BY <2>2 DEF Callback, Press, Resolve, ClaimAgain
  <2>3. ASSUME NEW r \in Receipts, SettleReceipt(r) PROVE UNCHANGED ask BY <2>3 DEF SettleReceipt
  <2>4. ASSUME NEW a \in Requests, Deadline(a) PROVE UNCHANGED ask BY <2>4 DEF Deadline
  <2>5. QED BY <1>9, <1>4, <1>5, <1>6, <1>7, <2>1, <2>2, <2>3, <2>4 DEF Next
<1>10. QED BY <1>8, <1>9

\* Only a tap approves: every other step leaves "approved" verdicts as they are.
LEMMA NoOtherApproval ==
  ASSUME ApprovalInv, [Next]_vars, \A u \in Taps : ~Resolve(u), NEW b \in Requests,
         approval'[b].verdict = "approved"
  PROVE  approval[b].verdict = "approved"
<1> USE DEF ApprovalInv
<1>1. ASSUME UNCHANGED approval PROVE approval[b].verdict = "approved" BY <1>1
<1>2. ASSUME NEW a \in Requests, Deadline(a) PROVE approval[b].verdict = "approved"
  BY <1>2 DEF Deadline, TypeOK, ApprovalRows
<1>3. ASSUME NEW c \in Connectors, ExpireRelayApprovals(c) PROVE approval[b].verdict = "approved"
  BY <1>3 DEF ExpireRelayApprovals, Settled, TypeOK, ApprovalRows
<1>4. ASSUME NEW c \in Connectors, HandleApprovalRequest(c) PROVE approval[b].verdict = "approved"
  <2>1. PICK a \in Requests : a = Head(toRelay[c]).approval
    BY <1>4, LineTypes DEF HandleApprovalRequest, Line
  <2>2. CreateRelayApproval(a, c) \/ RebindRelayApproval(a, c) \/ UNCHANGED approval
    BY <1>4, <2>1 DEF HandleApprovalRequest
  <2>3. CASE CreateRelayApproval(a, c) BY <2>3 DEF CreateRelayApproval, TypeOK, ApprovalRows
  <2>4. CASE RebindRelayApproval(a, c) BY <2>4 DEF RebindRelayApproval, TypeOK, ApprovalRows
  <2>5. QED BY <1>1, <2>2, <2>3, <2>4
<1>5. ASSUME NEW c \in Connectors, HandleApprovalRecorded(c) PROVE approval[b].verdict = "approved"
  <2>1. PICK a \in Requests : a = Head(toRelay[c]).approval
    BY <1>5, LineTypes DEF HandleApprovalRecorded, Line
  <2>2. MarkRelayApprovalDelivered(a) \/ UNCHANGED approval
    BY <1>5, <2>1 DEF HandleApprovalRecorded
  <2>3. CASE MarkRelayApprovalDelivered(a)
    <3>1. approval'[b].verdict = approval[b].verdict
      BY <2>3 DEF MarkRelayApprovalDelivered, TypeOK, ApprovalRows
    <3>2. QED BY <3>1
  <2>4. QED BY <1>1, <2>2, <2>3
<1>6. ASSUME NEW c \in Connectors, HandleApprovalCancel(c) PROVE approval[b].verdict = "approved"
  <2>1. PICK a \in Requests : a = Head(toRelay[c]).approval
    BY <1>6, LineTypes DEF HandleApprovalCancel, Line
  <2>2. CancelRelayApproval(a) BY <1>6, <2>1 DEF HandleApprovalCancel
  <2>3. approval'[b].verdict = approval[b].verdict
    BY <2>2 DEF CancelRelayApproval, TypeOK, ApprovalRows
  <2>4. QED BY <2>3
<1>7. CASE UNCHANGED vars BY <1>1, <1>7 DEF vars, rows
<1>8. CASE Next
  <2>1. ASSUME NEW c \in Connectors,
               \/ HandleHello(c) \/ HandleDeliveryRecorded(c)
               \/ ClaimFails(c) \/ SendReceipt(c) \/ SendDecision(c) \/ Close(c) \/ Kill(c)
               \/ Connect(c) \/ Crash(c) \/ CloseConnector(c)
               \/ Notice(c) \/ Receive(c) \/ Memory(c) \/ ReadResponse(c)
        PROVE  UNCHANGED approval
    BY <2>1 DEF HandleHello, HandleDeliveryRecorded, ClaimFails, SendReceipt, SendDecision, Close,
            Kill, Leave, Connect, Crash, CloseConnector, Notice, NoticeRequest, NoticeTurnCompleted,
            Receive, ReceiveDecision, ReceiveReceipt, Memory, InjectFailures, ReceiveRefusal, ReadResponse, rows
  <2>2. ASSUME NEW u \in Taps, Press(u) \/ ClaimAgain(u) PROVE UNCHANGED approval
    BY <2>2 DEF Press, ClaimAgain, rows
  <2>3. ASSUME NEW r \in Receipts, SettleReceipt(r) PROVE UNCHANGED approval
    BY <2>3 DEF SettleReceipt
  <2>4. ASSUME NEW a \in Requests, Ask(a) \/ EndTurn(a) PROVE UNCHANGED approval
    BY <2>4 DEF Ask, EndTurn, rows
  <2>5. ASSUME NEW c \in Connectors,
               \/ HandleLine(c) \/ ClaimOnce(c) \/ Close(c) \/ Kill(c)
               \/ Connect(c) \/ Crash(c) \/ CloseConnector(c)
               \/ Notice(c) \/ Receive(c) \/ Memory(c) \/ ReadResponse(c)
        PROVE  approval[b].verdict = "approved"
    BY <2>5, <2>1, <1>1, <1>3, <1>4, <1>5, <1>6 DEF HandleLine, ClaimOnce
  <2>6. QED BY <1>8, <1>1, <1>2, <2>2, <2>3, <2>4, <2>5 DEF Next, Callback
<1>9. QED BY <1>7, <1>8

\* A tap decides only a request that was still open, so no other tap had.
LEMMA TapsStay == ASSUME ApprovalInv, [Next]_vars PROVE TapsAgree'
<1> USE DEF ApprovalInv
<1>1. VerdictsKept BY RowsKept
<1>2. \A d \in Decisions : VerdictOf(d) \in Verdicts BY DEF VerdictOf, Verdicts
<1>3. ASSUME NEW u \in Taps, Resolve(u) PROVE TapsAgree'
  <2>1. PICK a \in Requests, d \in Decisions : a = tap[u].request /\ d = tap[u].decision
    BY <1>3 DEF Resolve, TapsAgree
  <2>2. CASE a \in Pending \ Overdue
    <3>1. \A v \in Taps :
            /\ tap'[v].pc = IF v = u THEN "handled" ELSE tap[v].pc
            /\ tap'[v].won = IF v = u THEN TRUE ELSE tap[v].won
            /\ tap'[v].request = tap[v].request
            /\ tap'[v].decision = tap[v].decision
      BY <1>3, <2>1, <2>2 DEF Resolve, TypeOK, TapStates
    <3>2. \A b \in Requests :
            approval'[b].verdict = IF b = a THEN VerdictOf(d) ELSE approval[b].verdict
      BY <1>3, <2>1, <2>2 DEF Resolve, Settled, TypeOK, ApprovalRows
    <3>3. approval[a].verdict \notin Verdicts
      BY <2>2, RelayApprovalsAssumption DEF Pending, RowsAgree, RelayApprovalsAssumption, Verdicts
    <3>4. \A v \in Taps : tap[v].won => tap[v].request # a
      <4>1. SUFFICES ASSUME NEW v \in Taps, tap[v].won PROVE tap[v].request # a OBVIOUS
      <4>2. approval[tap[v].request].verdict \in Verdicts
        BY <1>2, <4>1 DEF TapsAgree
      <4>3. QED BY <3>3, <4>2
    <3>5. \A v \in Taps : tap'[v].won => approval'[tap'[v].request].verdict = VerdictOf(tap'[v].decision)
      <4>1. SUFFICES ASSUME NEW v \in Taps, tap'[v].won
                     PROVE  approval'[tap'[v].request].verdict = VerdictOf(tap'[v].decision)
        OBVIOUS
      <4>2. CASE v = u
        <5>1. tap'[v].request = a /\ tap'[v].decision = d BY <2>1, <3>1, <4>2
        <5>2. approval'[a].verdict = VerdictOf(d) BY <3>2
        <5>3. VerdictOf(tap'[v].decision) = VerdictOf(d) BY <5>1 DEF VerdictOf
        <5>4. approval'[tap'[v].request] = approval'[a] BY <5>1
        <5>5. QED BY <5>2, <5>3, <5>4
      <4>3. CASE v # u
        <5>1. tap[v].won /\ tap[v].pc \notin {"none", "new"} BY <3>1, <4>1, <4>3 DEF TapsAgree
        <5>2. tap[v].request \in Requests /\ tap[v].request # a
          BY <3>4, <5>1 DEF TapsAgree
        <5>3. tap'[v].request = tap[v].request /\ tap'[v].decision = tap[v].decision
          BY <3>1
        <5>4. approval[tap[v].request].verdict = VerdictOf(tap[v].decision)
          BY <5>1 DEF TapsAgree
        <5>5. approval'[tap[v].request].verdict = approval[tap[v].request].verdict
          BY <3>2, <5>2
        <5>6. approval'[tap'[v].request] = approval'[tap[v].request] BY <5>3
        <5>7. VerdictOf(tap'[v].decision) = VerdictOf(tap[v].decision)
          BY <5>3 DEF VerdictOf
        <5>8. QED BY <5>4, <5>5, <5>6, <5>7
      <4>4. QED BY <4>2, <4>3
    <3>6. \A v, w \in Taps : tap'[v].won /\ tap'[w].won /\ tap'[v].request = tap'[w].request => v = w
      <4>1. SUFFICES ASSUME NEW v \in Taps, NEW w \in Taps, tap'[v].won, tap'[w].won,
                            tap'[v].request = tap'[w].request
                     PROVE  v = w
        OBVIOUS
      <4>2. CASE v = u /\ w # u BY <2>1, <3>1, <3>4, <4>1, <4>2
      <4>3. CASE v # u /\ w = u BY <2>1, <3>1, <3>4, <4>1, <4>3
      <4>4. CASE v # u /\ w # u
        <5>1. tap[v].won /\ tap[w].won /\ tap[v].request = tap[w].request
          BY <3>1, <4>1, <4>4
        <5>2. QED BY <5>1 DEF TapsAgree
      <4>5. QED BY <4>2, <4>3, <4>4
    <3>7. \A b \in Requests : approval'[b].verdict = "approved" =>
            \E v \in Taps : tap'[v].won /\ tap'[v].request = b /\ tap'[v].decision = "approve"
      <4>1. SUFFICES ASSUME NEW b \in Requests, approval'[b].verdict = "approved"
                     PROVE  \E v \in Taps :
                              tap'[v].won /\ tap'[v].request = b /\ tap'[v].decision = "approve"
        OBVIOUS
      <4>2. CASE b = a
        <5>1. d = "approve" BY <3>2, <4>1, <4>2 DEF VerdictOf
        <5>2. QED BY <2>1, <3>1, <4>2, <5>1
      <4>3. CASE b # a
        <5>1. approval[b].verdict = "approved" BY <3>2, <4>1, <4>3
        <5>2. PICK v \in Taps : tap[v].won /\ tap[v].request = b /\ tap[v].decision = "approve"
          BY <5>1 DEF TapsAgree
        <5>3. QED BY <3>1, <5>2
      <4>4. QED BY <4>2, <4>3
    <3>8. \A v \in Taps :
            /\ tap'[v].pc \in {"none", "new"} => ~tap'[v].won
            /\ tap'[v].pc \notin {"none", "new"} => tap'[v].request \in Requests /\ tap'[v].decision \in Decisions
      <4>1. SUFFICES ASSUME NEW v \in Taps
                     PROVE  /\ tap'[v].pc \in {"none", "new"} => ~tap'[v].won
                            /\ tap'[v].pc \notin {"none", "new"} => /\ tap'[v].request \in Requests
                                                    /\ tap'[v].decision \in Decisions
        OBVIOUS
      <4>2. CASE v = u
        <5>1. tap'[v].pc = "handled" BY <3>1, <4>2
        <5>2. tap'[v].request = a /\ tap'[v].decision = d BY <2>1, <3>1, <4>2
        <5>3. QED BY <5>1, <5>2
      <4>3. CASE v # u BY <3>1, <4>3 DEF TapsAgree
      <4>4. QED BY <4>2, <4>3
    <3>9. QED BY <3>5, <3>6, <3>7, <3>8 DEF TapsAgree
  <2>3. CASE a \notin Pending \ Overdue
    <3>1. \A v \in Taps :
            /\ tap'[v].pc = IF v = u THEN "handled" ELSE tap[v].pc
            /\ tap'[v].won = tap[v].won
            /\ tap'[v].request = tap[v].request
            /\ tap'[v].decision = tap[v].decision
      <4>1. tap \in [Taps -> TapStates] /\ tap[u] \in TapStates BY DEF TypeOK
      <4>2. tap[u].won \in BOOLEAN BY <4>1 DEF TapStates
      <4>3. tap' = [tap EXCEPT ![u] = [tap[u] EXCEPT !.pc = "handled", !.won = tap[u].won]]
        BY <1>3, <2>1, <2>3, <4>1, <4>2 DEF Resolve
      <4>4. \A v \in Taps \ {u} : tap'[v] = tap[v] BY <4>1, <4>3
      <4>5. tap'[u] = [tap[u] EXCEPT !.pc = "handled", !.won = tap[u].won] BY <4>1, <4>3
      <4>6. /\ tap'[u].pc = "handled" /\ tap'[u].won = tap[u].won
            /\ tap'[u].request = tap[u].request /\ tap'[u].decision = tap[u].decision
        BY <4>1, <4>5 DEF TapStates
      <4>7. QED BY <4>4, <4>6
    <3>2. \A b \in Requests : approval'[b].verdict = "approved" => approval[b].verdict = "approved"
      <4>1. approval' = Settled({a} \cap Overdue, "expired") BY <1>3, <2>1, <2>3 DEF Resolve
      <4>2. SUFFICES ASSUME NEW b \in Requests, approval'[b].verdict = "approved"
                     PROVE  approval[b].verdict = "approved"
        OBVIOUS
      <4>3. approval[b] \in ApprovalRows BY DEF TypeOK
      <4>4. \/ approval'[b] = approval[b]
            \/ approval'[b] = [approval[b] EXCEPT !.state = "expired", !.verdict = "expired"]
        BY <4>1 DEF Settled
      <4>5. [approval[b] EXCEPT !.state = "expired", !.verdict = "expired"].verdict = "expired"
        BY <4>3 DEF ApprovalRows
      <4>6. QED BY <4>2, <4>4, <4>5
    <3>3. tap[u].pc = "claimed" BY <1>3 DEF Resolve
    <3>4. \A v \in Taps : tap'[v].won => approval'[tap'[v].request].verdict = VerdictOf(tap'[v].decision)
      BY <1>1, <1>2, <3>1 DEF TapsAgree, VerdictsKept
    <3>5. \A b \in Requests : approval'[b].verdict = "approved" =>
            \E v \in Taps : tap'[v].won /\ tap'[v].request = b /\ tap'[v].decision = "approve"
      BY <3>1, <3>2 DEF TapsAgree
    <3>6. QED BY <3>1, <3>3, <3>4, <3>5 DEF TapsAgree
  <2>4. QED BY <2>2, <2>3
<1>4. ASSUME \A v \in Taps : ~Resolve(v),
             \A v \in Taps :
               /\ tap'[v].won = tap[v].won
               /\ tap'[v].pc \in {"none", "new"} => tap[v].pc \in {"none", "new"}
               /\ tap'[v].pc \notin {"none", "new"} => tap'[v].request \in Requests /\ tap'[v].decision \in Decisions
               /\ tap[v].won => /\ tap'[v].request = tap[v].request
                               /\ tap'[v].decision = tap[v].decision
      PROVE  TapsAgree'
  <2>1. \A b \in Requests : approval'[b].verdict = "approved" => approval[b].verdict = "approved"
    BY <1>4, NoOtherApproval
  <2>2. \A v \in Taps : tap'[v].won => approval'[tap'[v].request].verdict = VerdictOf(tap'[v].decision)
    <3>1. SUFFICES ASSUME NEW v \in Taps, tap'[v].won
                   PROVE  approval'[tap'[v].request].verdict = VerdictOf(tap'[v].decision)
      OBVIOUS
    <3>2. tap[v].won /\ tap[v].request \in Requests /\ tap[v].decision \in Decisions
      BY <1>4, <3>1 DEF TapsAgree
    <3>3. approval[tap[v].request].verdict = VerdictOf(tap[v].decision) BY <3>2 DEF TapsAgree
    <3>4. QED BY <1>1, <1>2, <1>4, <3>2, <3>3 DEF VerdictsKept
  <2>3. \A b \in Requests : approval'[b].verdict = "approved" =>
          \E v \in Taps : tap'[v].won /\ tap'[v].request = b /\ tap'[v].decision = "approve"
    BY <1>4, <2>1 DEF TapsAgree
  <2>4. QED BY <1>4, <2>2, <2>3 DEF TapsAgree
<1>5. ASSUME NEW u \in Taps, Press(u), \A v \in Taps : ~Resolve(v) PROVE TapsAgree'
  <2>1. PICK a \in Requests, d \in Decisions :
          tap' = [tap EXCEPT ![u].pc = "claimed", ![u].request = a, ![u].decision = d]
    BY <1>5 DEF Press
  <2>2. tap' = [tap EXCEPT ![u] = [tap[u] EXCEPT !.pc = "claimed", !.request = a, !.decision = d]]
    BY <2>1 DEF TypeOK
  <2>3. \A v \in Taps : v # u => tap'[v] = tap[v] BY <2>2 DEF TypeOK
  <2>4. /\ tap'[u].pc = "claimed" /\ tap'[u].won = tap[u].won
        /\ tap'[u].request = a /\ tap'[u].decision = d
    BY <2>2 DEF TypeOK, TapStates
  <2>5. ~tap[u].won BY <1>5 DEF Press, TapsAgree
  <2>6. QED BY <1>4, <1>5, <2>3, <2>4, <2>5 DEF TapsAgree
<1>6. ASSUME NEW u \in Taps, ClaimAgain(u), \A v \in Taps : ~Resolve(v) PROVE TapsAgree'
  <2>1. \A v \in Taps :
          /\ tap'[v].pc = IF v = u THEN "claimed" ELSE tap[v].pc
          /\ tap'[v].won = tap[v].won
          /\ tap'[v].request = tap[v].request
          /\ tap'[v].decision = tap[v].decision
    BY <1>6 DEF ClaimAgain, TypeOK, TapStates
  <2>2. tap[u].pc = "handled" BY <1>6 DEF ClaimAgain
  <2>3. QED BY <1>4, <1>6, <2>1, <2>2 DEF TapsAgree
<1>7. ASSUME UNCHANGED tap, \A v \in Taps : ~Resolve(v) PROVE TapsAgree'
  BY <1>4, <1>7 DEF TapsAgree
<1>8. CASE \A v \in Taps : ~Resolve(v) /\ ~Press(v) /\ ~ClaimAgain(v)
  <2>1. CASE UNCHANGED vars BY <1>7, <1>8, <2>1 DEF vars
  <2>2. CASE Next
    <3>1. ASSUME NEW c \in Connectors,
                 \/ HandleLine(c) \/ ClaimOnce(c) \/ Close(c) \/ Kill(c)
                 \/ Connect(c) \/ Crash(c) \/ CloseConnector(c)
                 \/ Notice(c) \/ Receive(c) \/ Memory(c) \/ ReadResponse(c)
          PROVE  UNCHANGED tap
      BY <3>1 DEF HandleLine, HandleHello, HandleApprovalRequest, HandleApprovalRecorded,
              HandleApprovalCancel, HandleDeliveryRecorded, ClaimOnce, ClaimFails, SendReceipt,
              ExpireRelayApprovals, SendDecision, Close, Kill, Leave, Connect, Crash,
              CloseConnector, Notice, NoticeRequest, NoticeTurnCompleted, Receive,
              ReceiveDecision, ReceiveReceipt, Memory, InjectFailures, ReceiveRefusal, ReadResponse
    <3>2. ASSUME NEW r \in Receipts, SettleReceipt(r) PROVE UNCHANGED tap BY <3>2 DEF SettleReceipt
    <3>3. ASSUME NEW a \in Requests, Deadline(a) \/ Ask(a) \/ EndTurn(a) PROVE UNCHANGED tap
      BY <3>3 DEF Deadline, Ask, EndTurn
    <3>4. QED BY <1>7, <1>8, <2>2, <3>1, <3>2, <3>3 DEF Next, Callback
  <2>3. QED BY <2>1, <2>2
<1>9. QED BY <1>3, <1>5, <1>6, <1>8

-----------------------------------------------------------------------------
\* Every step keeps the invariant.
LEMMA InvStep == ApprovalInv /\ [Next]_vars => ApprovalInv'
<1> SUFFICES ASSUME ApprovalInv, [Next]_vars PROVE ApprovalInv' OBVIOUS
<1>1. TypeOK' BY TypeStep DEF ApprovalInv
<1>2. RowsAgree' BY RowsKept
<1>3. QED BY <1>1, <1>2, TapsStay, WiresStay, AnswersStay DEF ApprovalInv

\* It holds throughout.
LEMMA InvHolds == Spec => []ApprovalInv
BY InvInit, InvStep, PTL DEF Spec

\* At most one tap decides a request, and the app-server hears "approve" only if
\* the owner's deciding tap said so, whatever connectors, relays, deadlines,
\* cancels and redelivered callbacks do in between.
THEOREM OneDecisionHolds == Spec => []OneDecision
<1>1. ApprovalInv => OneDecision
  <2>1. SUFFICES ASSUME ApprovalInv, NEW a \in Requests
                 PROVE  LET winners == {u \in Taps : tap[u].won /\ tap[u].request = a}
                        IN  /\ Cardinality(winners) <= 1
                            /\ ask[a].answer = "approve" =>
                                 \E u \in winners : tap[u].decision = "approve"
    BY DEF OneDecision
  <2> DEFINE winners == {u \in Taps : tap[u].won /\ tap[u].request = a}
  <2>2. \A u, v \in winners : u = v BY <2>1 DEF ApprovalInv, TapsAgree
  <2>3. Cardinality(winners) <= 1
    <3> HIDE DEF winners
    <3>1. CASE winners = {}
      <4>1. Cardinality(winners) = 0 BY <3>1, FS_EmptySet
      <4>2. QED BY <4>1
    <3>2. CASE winners # {}
      <4>1. PICK u \in winners : TRUE BY <3>2
      <4>2. winners = {u} BY <2>2, <4>1
      <4>3. Cardinality(winners) = 1 BY <4>2, FS_Singleton
      <4>4. QED BY <4>3
    <3>3. QED BY <3>1, <3>2
  <2>4. ask[a].answer = "approve" => \E u \in winners : tap[u].decision = "approve"
    <3>1. SUFFICES ASSUME ask[a].answer = "approve"
                   PROVE  \E u \in winners : tap[u].decision = "approve"
      OBVIOUS
    <3>2. ask[a].answer # None /\ a \in Requests
      BY <2>1, <3>1, RelayApprovalsAssumption DEF RelayApprovalsAssumption
    <3>3. Sound(a, ask[a].answer) BY <2>1, <3>2 DEF ApprovalInv, AnswersAgree
    <3>4. approval[a].verdict = "approved" BY <3>1, <3>3 DEF Sound, Agrees, DecisionFor
    <3>5. PICK u \in Taps : tap[u].won /\ tap[u].request = a /\ tap[u].decision = "approve"
      BY <2>1, <3>2, <3>4 DEF ApprovalInv, TapsAgree
    <3>6. QED BY <3>5
  <2>5. QED BY <2>3, <2>4
<1>2. QED BY <1>1, InvHolds, PTL

\* Relays, connectors, the table and the dispatcher together do nothing to an
\* approval that its lifecycle does not allow.
THEOREM ApprovalsImplementLifecycle == Spec => ImplementsApprovals
<1>1. Init => Lifecycle!Init BY LifecycleInit
<1>2. ApprovalInv /\ [Next]_vars => [Lifecycle!Next]_(Lifecycle!vars) BY LifecycleStep
<1>3. QED BY <1>1, <1>2, InvHolds, PTL DEF Spec, ImplementsApprovals, Lifecycle!Spec

-----------------------------------------------------------------------------
(***************************************************************************)
(* Receipts.  A connector's word that it recorded a failure may reach a     *)
(* relay long after the connector has put the failure into a turn, or is    *)
(* gone; so the invariant says of every frame and line under way what it     *)
(* claims of its receipt, and that no step makes it false.                  *)
(***************************************************************************)
Holds(row, r) == r \in row.failures \cup row.injected \/ row.newer[r] >= MaxFailures

Known(r) == \E c \in Connectors : Holds(conn[c], r)

\* No two failures are the oldest.
InOrder(row) == \A g, h \in row.failures : row.newer[g] = row.newer[h] => g = h

\* r may be acknowledged: a failure only once somebody knows of it.
Honest(r) == receipt[r].status # "unsettled" /\ (receipt[r].status = "failed" => Known(r))

TrueFrames == {f \in FromRelay : f.type = "delivery_receipt" => receipt[f.receipt].status = f.status}
HonestLines == {f \in FromConnector : f.type = "delivery_recorded" => Honest(f.receipt)}

ReceiptInv ==
  /\ TypeOK
  /\ \A c \in Connectors : InOrder(conn[c])
  /\ \A r \in Receipts : receipt[r].delivered => Honest(r)
  /\ \A c \in Connectors : toConn[c] \in Seq(TrueFrames) /\ toRelay[c] \in Seq(HonestLines)

\* The invariant of receipts holds at the start.
LEMMA ReceiptInit == Init => ReceiptInv
<1> SUFFICES ASSUME Init PROVE ReceiptInv OBVIOUS
<1>1. TypeOK BY TypeInit
<1>2. \A c \in Connectors : toConn[c] = <<>> /\ toRelay[c] = <<>> BY DEF Init
<1>3. <<>> \in Seq(TrueFrames) /\ <<>> \in Seq(HonestLines) OBVIOUS
<1>4. \A c \in Connectors : InOrder(conn[c]) BY Beginning DEF InOrder
<1>5. QED BY <1>1, <1>2, <1>3, <1>4, Beginning DEF ReceiptInv

\* What a receipt says once it is settled does not change.
SettledStays == \A r \in Receipts : receipt[r].status # "unsettled" => receipt'[r].status = receipt[r].status

\* A failure stays known, or pushed out, whatever becomes of its connector.
KnownStays == \A c \in Connectors, r \in Receipts : Holds(conn[c], r) => Holds(conn'[c], r)

\* A receipt settles once; writing it off changes nothing else of it.
LEMMA ReceiptsStay ==
  ASSUME TypeOK, [Next]_vars
  PROVE  SettledStays
<1>1. ASSUME receipt' = receipt PROVE SettledStays BY <1>1 DEF SettledStays
<1>2. CASE UNCHANGED vars BY <1>1, <1>2 DEF vars
<1>3. ASSUME NEW c \in Connectors, HandleDeliveryRecorded(c) PROVE SettledStays
  <2>1. toRelay[c] # <<>> /\ Head(toRelay[c]).type = "delivery_recorded"
    BY <1>3, LineGone DEF HandleDeliveryRecorded
  <2>2. PICK s \in Receipts : s = Head(toRelay[c]).receipt BY <2>1, LineTypes
  <2>3. receipt' = [receipt EXCEPT ![s].delivered = TRUE] \/ receipt' = receipt
    BY <1>3, <2>2 DEF HandleDeliveryRecorded
  <2>4. receipt' = [receipt EXCEPT ![s] = [receipt[s] EXCEPT !.delivered = TRUE]] \/ receipt' = receipt
    BY <2>3 DEF TypeOK
  <2>5. receipt[s] \in ReceiptRows BY DEF TypeOK
  <2>6. [receipt[s] EXCEPT !.delivered = TRUE].status = receipt[s].status BY <2>5 DEF ReceiptRows
  <2>7. \A r \in Receipts : receipt'[r].status = receipt[r].status
    BY <2>2, <2>4, <2>6 DEF TypeOK
  <2>8. QED BY <2>7 DEF SettledStays
<1>4. ASSUME NEW s \in Receipts, SettleReceipt(s) PROVE SettledStays
  <2>1. PICK v : receipt' = [receipt EXCEPT ![s].status = v] BY <1>4 DEF SettleReceipt
  <2>2. receipt[s].status = "unsettled" BY <1>4 DEF SettleReceipt
  <2>3. \A r \in Receipts : r # s => receipt'[r] = receipt[r] BY <2>1 DEF TypeOK
  <2>4. QED BY <2>2, <2>3 DEF SettledStays
<1>5. ASSUME NEW c \in Connectors,
             \/ HandleHello(c) \/ HandleApprovalRequest(c) \/ HandleApprovalRecorded(c)
             \/ HandleApprovalCancel(c)
             \/ ClaimOnce(c) \/ Close(c) \/ Kill(c) \/ Connect(c) \/ Crash(c) \/ CloseConnector(c)
             \/ Notice(c) \/ Receive(c) \/ Memory(c) \/ ReadResponse(c)
      PROVE  receipt' = receipt
  BY <1>5 DEF HandleHello, HandleApprovalRequest, HandleApprovalRecorded, HandleApprovalCancel,
          ClaimOnce, ClaimFails, SendReceipt, ExpireRelayApprovals, SendDecision, Close, Kill, Leave,
          Connect, Crash, CloseConnector, Notice, NoticeRequest, NoticeTurnCompleted, Receive,
          ReceiveDecision, ReceiveReceipt, Memory, InjectFailures, ReceiveRefusal, ReadResponse, rows
<1>6. ASSUME NEW u \in Taps, Callback(u) PROVE receipt' = receipt
  BY <1>6 DEF Callback, Press, Resolve, ClaimAgain, rows
<1>7. ASSUME NEW a \in Requests, Deadline(a) \/ Ask(a) \/ EndTurn(a) PROVE receipt' = receipt
  BY <1>7 DEF Deadline, Ask, EndTurn, rows
<1>8. CASE Next
  <2>1. ASSUME NEW c \in Connectors,
               \/ HandleLine(c) \/ ClaimOnce(c) \/ Close(c) \/ Kill(c)
               \/ Connect(c) \/ Crash(c) \/ CloseConnector(c)
               \/ Notice(c) \/ Receive(c) \/ Memory(c) \/ ReadResponse(c)
        PROVE  SettledStays
    BY <2>1, <1>1, <1>3, <1>5 DEF HandleLine
  <2>2. QED BY <1>8, <1>1, <1>4, <1>6, <1>7, <2>1 DEF Next
<1>9. QED BY <1>2, <1>8

\* Room is made by the failure the most have come after.
LEMMA OldestIsOld ==
  ASSUME TypeOK, NEW c \in Connectors, InOrder(conn[c]),
         Cardinality(conn[c].failures) = MaxFailures, NEW r \in Oldest(c)
  PROVE  conn[c].newer[r] >= MaxFailures - 1
<1> DEFINE S == conn[c].failures
           age == [g \in S |-> conn[c].newer[g]]
           top == conn[c].newer[r]
<1>1. S \subseteq Failures /\ conn[c].newer \in [Failures -> Nat] BY DEF TypeOK, ConnStates
<1>2. IsFiniteSet(S)
  BY <1>1, RelayApprovalsAssumption, FS_Union, FS_Subset DEF RelayApprovalsAssumption, Failures
<1>3. top \in Nat /\ \A g \in S : conn[c].newer[g] \in 0..top BY <1>1 DEF Oldest
<1>4. age \in [S -> 0..top] BY <1>3
<1>5. IsFiniteSet(0..top) /\ Cardinality(0..top) = top + 1 BY <1>3, FS_Interval
<1>6. MaxFailures \in Nat BY RelayApprovalsAssumption DEF RelayApprovalsAssumption
<1>7. ~ Cardinality(0..top) < Cardinality(S)
  <2>1. SUFFICES ASSUME Cardinality(0..top) < Cardinality(S) PROVE FALSE OBVIOUS
  <2> HIDE DEF age, S
  <2>2. \A a \in [S -> 0..top] : \E g, h \in S : g # h /\ a[g] = a[h]
    BY ONLY <1>2, <1>5, <2>1, FS_PigeonHole
  <2>3. PICK g, h \in S : g # h /\ age[g] = age[h] BY <1>4, <2>2
  <2>4. QED BY <2>3 DEF InOrder, age, S
<1>8. QED BY <1>3, <1>5, <1>6, <1>7

\* A connector that remembers one more failure loses none but the oldest, and
\* that one only when it has remembered MaxFailures after it.
LEMMA RememberingKeeps ==
  ASSUME TypeOK, NEW c \in Connectors, InOrder(conn[c]), NEW f \in Failures
  PROVE  /\ InOrder(Remembering(c, f))
         /\ \A r \in Receipts : Holds(conn[c], r) => Holds(Remembering(c, f), r)
         /\ f \in Remembering(c, f).failures
<1>1. CASE f \in conn[c].failures BY <1>1 DEF Remembering
<1>2. CASE f \notin conn[c].failures
  <2> DEFINE row == Remembering(c, f)
             kept == conn[c].failures
             newer == conn[c].newer
  <2>1. conn[c] \in ConnStates BY DEF TypeOK
  <2>2. kept \subseteq Failures /\ newer \in [Failures -> Nat] BY <2>1 DEF ConnStates
  <2>3. row = Pushed(c, f) BY <1>2 DEF Remembering
  <2>4. row.newer = Aged(c, f) /\ row.injected = conn[c].injected
    BY <2>1, <2>3 DEF Pushed, ConnStates
  <2>5. \/ row.failures = kept \cup {f}
        \/ Cardinality(kept) = MaxFailures /\ row.failures = (kept \ Oldest(c)) \cup {f}
    BY <2>1, <2>3 DEF Pushed, ConnStates
  <2>6. /\ row.newer[f] = 0
        /\ \A g \in kept : g # f /\ row.newer[g] = newer[g] + 1
        /\ \A g \in Failures \ (kept \cup {f}) : row.newer[g] = newer[g]
    BY <1>2, <2>2, <2>4 DEF Aged
  <2> HIDE DEF row
  <2>7. InOrder(row)
    <3>1. SUFFICES ASSUME NEW g \in kept \cup {f}, NEW h \in kept \cup {f},
                          row.newer[g] = row.newer[h]
                   PROVE  g = h
      BY <2>5 DEF InOrder
    <3>2. CASE g \in kept /\ h \in kept
      <4>1. newer[g] = newer[h] BY <2>2, <2>6, <3>1, <3>2
      <4>2. QED BY <3>2, <4>1 DEF InOrder
    <3>3. CASE g = f \/ h = f BY <2>2, <2>6, <3>1, <3>3
    <3>4. QED BY <3>2, <3>3
  <2>8. ASSUME NEW r \in Receipts, Holds(conn[c], r) PROVE Holds(row, r)
    <3>1. r \in Failures BY DEF Failures
    <3>2. CASE r \in conn[c].injected BY <2>4, <3>2 DEF Holds
    <3>3. CASE r \in row.failures BY <3>3 DEF Holds
    <3>4. CASE r \in kept /\ r \notin row.failures
      <4>1. Cardinality(kept) = MaxFailures /\ r \in Oldest(c) BY <2>5, <3>4
      <4>2. newer[r] >= MaxFailures - 1 BY <4>1, OldestIsOld
      <4>3. row.newer[r] = newer[r] + 1 /\ newer[r] \in Nat BY <2>2, <2>6, <3>1, <3>4
      <4>4. MaxFailures \in Nat BY RelayApprovalsAssumption DEF RelayApprovalsAssumption
      <4>5. row.newer[r] >= MaxFailures BY <4>2, <4>3, <4>4
      <4>6. QED BY <4>5 DEF Holds
    <3>5. CASE newer[r] >= MaxFailures /\ r \notin kept \cup {f}
      BY <2>6, <3>1, <3>5 DEF Holds
    <3>6. f \in row.failures BY <2>5
    <3>7. QED BY <2>8, <3>2, <3>3, <3>4, <3>5, <3>6 DEF Holds
  <2>9. f \in row.failures BY <2>5
  <2>10. QED BY <2>7, <2>8, <2>9 DEF row
<1>3. QED BY <1>1, <1>2

\* A connector forgets its requests when it ends, never a failure it remembered.
LEMMA MemoriesStay ==
  ASSUME TypeOK, [Next]_vars, \A c \in Connectors : InOrder(conn[c])
  PROVE  KnownStays /\ \A c \in Connectors : InOrder(conn'[c])
<1> DEFINE Goal == KnownStays /\ \A c \in Connectors : InOrder(conn'[c])
           Same(old, new) == /\ new.failures = old.failures /\ new.newer = old.newer
                             /\ new.injected = old.injected
<1>1. ASSUME \A c \in Connectors : Same(conn[c], conn'[c]) PROVE Goal
  <2>1. KnownStays BY <1>1 DEF KnownStays, Holds
  <2>2. ASSUME NEW c \in Connectors PROVE InOrder(conn'[c])
    BY <1>1 DEF InOrder
  <2>3. QED BY <2>1, <2>2
<1>2. ASSUME NEW d \in Connectors, \A c \in Connectors \ {d} : conn'[c] = conn[c],
             InOrder(conn'[d]), \A r \in Receipts : Holds(conn[d], r) => Holds(conn'[d], r)
      PROVE  Goal
  BY <1>2 DEF KnownStays
<1> SUFFICES Goal OBVIOUS
<1> HIDE DEF Goal
<1>3. ASSUME conn' = conn PROVE Goal BY <1>1, <1>3
<1>4. CASE UNCHANGED vars BY <1>3, <1>4 DEF vars
<1>5. ASSUME NEW d \in Connectors, Connect(d) \/ Crash(d) \/ CloseConnector(d) PROVE Goal
  <2>1. CASE Connect(d)
    <3>1. conn' = [conn EXCEPT ![d].pc = "up", ![d].asked = {a \in Requests : Open(a)}]
      BY <2>1 DEF Connect
    <3>2. QED BY <1>1, <3>1 DEF TypeOK, ConnStates
  <2>2. CASE Crash(d) \/ CloseConnector(d)
    <3>1. conn' = [conn EXCEPT ![d].pc = "down", ![d].asked = {}, ![d].pending = {}]
      BY <2>2 DEF Crash, CloseConnector, Forget
    <3>2. QED BY <1>1, <3>1 DEF TypeOK, ConnStates
  <2>3. QED BY <1>5, <2>1, <2>2
<1>6. ASSUME NEW d \in Connectors, NoticeRequest(d) PROVE Goal
  <2>1. PICK a \in conn[d].asked :
          \/ conn' = [conn EXCEPT ![d].asked = @ \ {a}]
          \/ conn' = [conn EXCEPT ![d].asked = @ \ {a}, ![d].pending = @ \cup {a}]
    BY <1>6 DEF NoticeRequest
  <2>2. CASE conn' = [conn EXCEPT ![d].asked = @ \ {a}]
    BY <1>1, <2>2 DEF TypeOK, ConnStates
  <2>3. CASE conn' = [conn EXCEPT ![d].asked = @ \ {a}, ![d].pending = @ \cup {a}]
    BY <1>1, <2>3 DEF TypeOK, ConnStates
  <2>4. QED BY <2>1, <2>2, <2>3
<1>7. ASSUME NEW d \in Connectors, NoticeTurnCompleted(d) \/ ReceiveDecision(d) PROVE Goal
  <2>1. PICK a : conn' = [conn EXCEPT ![d].pending = @ \ {a}]
    BY <1>7 DEF NoticeTurnCompleted, ReceiveDecision
  <2>2. QED BY <1>1, <2>1 DEF TypeOK, ConnStates
<1>8. ASSUME NEW d \in Connectors, NEW f \in Failures, RememberDeliveryFailure(d, f) PROVE Goal
  <2>1. conn'[d] = Remembering(d, f) /\ \A c \in Connectors \ {d} : conn'[c] = conn[c]
    BY <1>8 DEF RememberDeliveryFailure, TypeOK
  <2>2. QED BY <1>2, <2>1, RememberingKeeps
<1>9. ASSUME NEW d \in Connectors, ReceiveReceipt(d) PROVE Goal
  <2>1. toConn[d] # <<>> /\ Head(toConn[d]).type = "delivery_receipt"
    BY <1>9 DEF ReceiveReceipt, Received
  <2>2. Head(toConn[d]).receipt \in Failures BY <2>1, FrameHeads DEF Failures
  <2>3. UNCHANGED conn \/ RememberDeliveryFailure(d, Head(toConn[d]).receipt)
    BY <1>9 DEF ReceiveReceipt
  <2>4. QED BY <1>3, <1>8, <2>2, <2>3
<1>10. ASSUME NEW d \in Connectors, ReceiveRefusal(d) PROVE Goal
  <2>1. PICK b \in conn[d].refusals :
          conn' = [conn EXCEPT ![d] = [Remembering(d, b) EXCEPT !.refusals = @ \ {b}]]
    BY <1>10 DEF ReceiveRefusal
  <2>2. b \in Failures BY DEF TypeOK, ConnStates, Failures
  <2>3. Remembering(d, b) \in ConnStates BY <2>2, RememberingTypes
  <2>4. Same(Remembering(d, b), conn'[d]) /\ \A c \in Connectors \ {d} : conn'[c] = conn[c]
    BY <2>1, <2>3 DEF TypeOK, ConnStates
  <2>5. /\ InOrder(Remembering(d, b))
        /\ \A r \in Receipts : Holds(conn[d], r) => Holds(Remembering(d, b), r)
    BY <2>2, RememberingKeeps
  <2>6. InOrder(conn'[d]) BY <2>4, <2>5 DEF InOrder
  <2>7. \A r \in Receipts : Holds(conn[d], r) => Holds(conn'[d], r)
    BY <2>4, <2>5 DEF Holds
  <2>8. QED BY <1>2, <2>4, <2>6, <2>7
<1>11. ASSUME NEW d \in Connectors, InjectFailures(d) PROVE Goal
  <2>1. conn' = [conn EXCEPT ![d].failures = {}, ![d].injected = @ \cup conn[d].failures]
    BY <1>11 DEF InjectFailures
  <2>2. /\ conn'[d].failures = {} /\ conn'[d].newer = conn[d].newer
        /\ conn'[d].injected = conn[d].injected \cup conn[d].failures
        /\ \A c \in Connectors \ {d} : conn'[c] = conn[c]
    BY <2>1 DEF TypeOK, ConnStates
  <2>3. InOrder(conn'[d]) BY <2>2 DEF InOrder
  <2>4. \A r \in Receipts : Holds(conn[d], r) => Holds(conn'[d], r) BY <2>2 DEF Holds
  <2>5. QED BY <1>2, <2>2, <2>3, <2>4
<1>12. ASSUME NEW a \in Requests, Ask(a) PROVE Goal
  <2>1. conn' = [c \in Connectors |->
          IF Up(c) THEN [conn[c] EXCEPT !.asked = @ \cup {a}] ELSE conn[c]]
    BY <1>12 DEF Ask
  <2>2. QED BY <1>1, <2>1 DEF TypeOK, ConnStates
<1>13. ASSUME NEW c \in Connectors,
              \/ HandleLine(c) \/ ClaimOnce(c) \/ Close(c) \/ Kill(c) \/ ReadResponse(c)
       PROVE  conn' = conn
  BY <1>13 DEF HandleLine, HandleHello, HandleApprovalRequest, HandleApprovalRecorded,
          HandleApprovalCancel, HandleDeliveryRecorded, ClaimOnce, ClaimFails, SendReceipt,
          ExpireRelayApprovals, SendDecision, Close, Kill, Leave, ReadResponse
<1>14. CASE Next
  <2>1. ASSUME NEW u \in Taps, Callback(u) PROVE conn' = conn
    BY <2>1 DEF Callback, Press, Resolve, ClaimAgain
  <2>2. ASSUME NEW r \in Receipts, SettleReceipt(r) PROVE conn' = conn BY <2>2 DEF SettleReceipt
  <2>3. ASSUME NEW a \in Requests, Deadline(a) \/ EndTurn(a) PROVE conn' = conn
    BY <2>3 DEF Deadline, EndTurn
  <2>4. ASSUME NEW c \in Connectors,
               \/ HandleLine(c) \/ ClaimOnce(c) \/ Close(c) \/ Kill(c)
               \/ Connect(c) \/ Crash(c) \/ CloseConnector(c)
               \/ Notice(c) \/ Receive(c) \/ Memory(c) \/ ReadResponse(c)
        PROVE  Goal
    BY <2>4, <1>3, <1>5, <1>6, <1>7, <1>9, <1>10, <1>11, <1>13 DEF Notice, Receive, Memory
  <2>5. QED BY <1>14, <1>3, <1>12, <2>1, <2>2, <2>3, <2>4 DEF Next
<1>15. QED BY <1>4, <1>14

\* So what was claimed of a receipt stays true.
LEMMA HonestStays ==
  ASSUME TypeOK, SettledStays, KnownStays, NEW r \in Receipts, Honest(r)
  PROVE  Honest(r)'
<1>1. receipt'[r].status = receipt[r].status BY DEF Honest, SettledStays
<1>2. Known(r) => Known(r)' BY DEF Known, KnownStays
<1>3. QED BY <1>1, <1>2 DEF Honest

\* And with it every frame and line under way.
LEMMA ClaimsGrow ==
  ASSUME TypeOK, SettledStays, KnownStays
  PROVE  TrueFrames \subseteq TrueFrames' /\ HonestLines \subseteq HonestLines'
<1>1. ASSUME NEW f \in TrueFrames PROVE f \in TrueFrames'
  <2>1. f \in FromRelay BY DEF TrueFrames
  <2>2. CASE f.type = "delivery_receipt"
    <3>1. f.receipt \in Receipts /\ f.status \in {"sent", "failed"} BY <2>1, <2>2 DEF FromRelay
    <3>2. receipt[f.receipt].status = f.status BY <2>2 DEF TrueFrames
    <3>3. receipt'[f.receipt].status = f.status BY <3>1, <3>2 DEF SettledStays
    <3>4. QED BY <2>1, <3>3 DEF TrueFrames
  <2>3. CASE f.type # "delivery_receipt" BY <2>1, <2>3 DEF TrueFrames
  <2>4. QED BY <2>2, <2>3
<1>2. ASSUME NEW f \in HonestLines PROVE f \in HonestLines'
  <2>1. f \in FromConnector BY DEF HonestLines
  <2>2. CASE f.type = "delivery_recorded"
    <3>1. f.receipt \in Receipts BY <2>1, <2>2 DEF FromConnector
    <3>2. Honest(f.receipt) BY <2>2 DEF HonestLines
    <3>3. Honest(f.receipt)' BY <3>1, <3>2, HonestStays
    <3>4. QED BY <2>1, <3>3 DEF HonestLines
  <2>3. CASE f.type # "delivery_recorded" BY <2>1, <2>3 DEF HonestLines
  <2>4. QED BY <2>2, <2>3
<1>3. QED BY <1>1, <1>2

\* A relay reports what the row of the receipt says.
LEMMA FramesMove ==
  ASSUME TypeOK, [Next]_vars, NEW d \in Connectors
  PROVE  Moves(toConn[d], toConn'[d], TrueFrames')
<1> DEFINE Goal == Moves(toConn[d], toConn'[d], TrueFrames')
<1>1. ASSUME toConn' = toConn PROVE Goal BY <1>1 DEF Moves
<1>2. CASE UNCHANGED vars BY <1>1, <1>2 DEF vars, pipes
<1>3. ASSUME NEW c \in Connectors, SendReceipt(c) PROVE Goal
  <2>1. PICK r \in NextReceipts :
          ToConn(c, [type |-> "delivery_receipt", receipt |-> r, status |-> receipt[r].status])
    BY <1>3 DEF SendReceipt
  <2> DEFINE f == [type |-> "delivery_receipt", receipt |-> r, status |-> receipt[r].status]
  <2>2. receipt' = receipt BY <1>3 DEF SendReceipt, rows
  <2>3. f \in FromRelay BY DEF FromRelay, NextReceipts, DueReceipts, Undelivered, Settling, ReceiptRows, TypeOK
  <2>4. f \in TrueFrames' BY <2>2, <2>3 DEF TrueFrames
  <2>5. toConn'[d] = toConn[d] \/ toConn'[d] = Append(toConn[d], f)
    BY <2>1 DEF ToConn, TypeOK
  <2> HIDE DEF f
  <2>6. QED BY <2>4, <2>5 DEF Moves
<1>4. ASSUME NEW c \in Connectors, SendDecision(c) PROVE Goal
  <2>1. PICK a \in Requests :
          ToConn(c, [type |-> "approval_response", approval |-> a,
                     decision |-> DecisionFor(approval[a].state)])
    BY <1>4 DEF SendDecision
  <2> DEFINE f == [type |-> "approval_response", approval |-> a,
                   decision |-> DecisionFor(approval[a].state)]
  <2>2. f \in FromRelay BY DEF FromRelay, DecisionFor, Decisions
  <2>3. f \in TrueFrames' BY <2>2 DEF TrueFrames
  <2>4. toConn'[d] = toConn[d] \/ toConn'[d] = Append(toConn[d], f)
    BY <2>1 DEF ToConn, TypeOK
  <2> HIDE DEF f
  <2>5. QED BY <2>3, <2>4 DEF Moves
<1>5. ASSUME NEW c \in Connectors, Crash(c) \/ CloseConnector(c) PROVE Goal
  <2>1. toConn' = [toConn EXCEPT ![c] = <<>>] BY <1>5 DEF Crash, CloseConnector
  <2>2. QED BY <2>1 DEF TypeOK, Moves
<1>6. ASSUME NEW c \in Connectors, Receive(c) PROVE Goal
  <2>1. toConn[c] # <<>> /\ toConn' = [toConn EXCEPT ![c] = Tail(@)]
    BY <1>6 DEF Receive, ReceiveDecision, ReceiveReceipt, Received
  <2>2. QED BY <2>1 DEF TypeOK, Moves
<1>7. ASSUME NEW c \in Connectors,
             \/ HandleLine(c) \/ ClaimFails(c) \/ ExpireRelayApprovals(c) \/ Close(c) \/ Kill(c)
             \/ Connect(c) \/ Notice(c) \/ Memory(c) \/ ReadResponse(c)
      PROVE  toConn' = toConn
  BY <1>7 DEF HandleLine, HandleHello, HandleApprovalRequest, HandleApprovalRecorded,
          HandleApprovalCancel, HandleDeliveryRecorded, ClaimFails, ExpireRelayApprovals, Close,
          Kill, Leave, Connect, Notice, NoticeRequest, NoticeTurnCompleted, Memory, InjectFailures, ReceiveRefusal,
          ReadResponse, pipes
<1>8. CASE Next
  <2>1. ASSUME NEW c \in Connectors,
               \/ HandleLine(c) \/ ClaimOnce(c) \/ Close(c) \/ Kill(c)
               \/ Connect(c) \/ Crash(c) \/ CloseConnector(c)
               \/ Notice(c) \/ Receive(c) \/ Memory(c) \/ ReadResponse(c)
        PROVE  Goal
    BY <2>1, <1>1, <1>3, <1>4, <1>5, <1>6, <1>7 DEF ClaimOnce
  <2>2. ASSUME NEW u \in Taps, Callback(u) PROVE toConn' = toConn
    BY <2>2 DEF Callback, Press, Resolve, ClaimAgain, pipes
  <2>3. ASSUME NEW r \in Receipts, SettleReceipt(r) PROVE toConn' = toConn
    BY <2>3 DEF SettleReceipt, pipes
  <2>4. ASSUME NEW a \in Requests, Deadline(a) \/ Ask(a) \/ EndTurn(a) PROVE toConn' = toConn
    BY <2>4 DEF Deadline, Ask, EndTurn, pipes
  <2>5. QED BY <1>8, <1>1, <2>1, <2>2, <2>3, <2>4 DEF Next
<1>9. QED BY <1>2, <1>8

\* The lines of a closing connector are about approvals only.
LEMMA CancelsAreHonest ==
  ASSUME ReceiptInv, NEW c \in Connectors, CloseConnector(c), NEW d \in Connectors
  PROVE  toRelay'[d] \in Seq(HonestLines)
<1> DEFINE n == Cardinality(conn[c].pending)
           cancels(order) == [i \in DOMAIN order |->
                                [type |-> "approval_cancel", approval |-> order[i]]]
<1>1. PICK order \in [1..n -> conn[c].pending] :
        toRelay' = IF relay[c].pc = "gone" THEN toRelay
                   ELSE [toRelay EXCEPT ![c] = @ \o cancels(order)]
  BY DEF CloseConnector
<1>2. conn[c].pending \subseteq Requests BY DEF ReceiptInv, TypeOK, ConnStates
<1>3. n \in Nat
  BY <1>2, RelayApprovalsAssumption, FS_Subset, FS_CardinalityType DEF RelayApprovalsAssumption
<1>4. cancels(order) \in Seq(HonestLines)
  <2>1. \A i \in 1..n : order[i] \in Requests BY <1>2
  <2>2. \A i \in 1..n : [type |-> "approval_cancel", approval |-> order[i]] \in HonestLines
    BY <2>1 DEF FromConnector, HonestLines
  <2>3. cancels(order) \in [1..n -> HonestLines] BY <2>2
  <2>4. QED BY <1>3, <2>3
<1>5. toRelay[c] \in Seq(HonestLines) /\ toRelay[d] \in Seq(HonestLines) BY DEF ReceiptInv
<1>6. toRelay[c] \o cancels(order) \in Seq(HonestLines) BY <1>4, <1>5
<1> HIDE DEF cancels
<1>7. QED BY <1>1, <1>5, <1>6 DEF ReceiptInv, TypeOK

\* A connector acknowledges a failure once it has remembered it.
LEMMA LinesMove ==
  ASSUME ReceiptInv, [Next]_vars, SettledStays, KnownStays, NEW d \in Connectors,
         \A c \in Connectors : ~CloseConnector(c)
  PROVE  Moves(toRelay[d], toRelay'[d], HonestLines') \/ toRelay'[d] = <<[type |-> "hello"]>>
<1> USE DEF ReceiptInv
<1> DEFINE Goal == Moves(toRelay[d], toRelay'[d], HonestLines') \/ toRelay'[d] = <<[type |-> "hello"]>>
<1>1. ASSUME toRelay' = toRelay PROVE Goal BY <1>1 DEF Moves
<1>2. CASE UNCHANGED vars BY <1>1, <1>2 DEF vars, pipes
<1>3. ASSUME NEW c \in Connectors, NEW f \in FromConnector, f.type # "delivery_recorded", ToRelay(c, f)
      PROVE  Goal
  <2>1. f \in HonestLines' BY <1>3 DEF HonestLines
  <2>2. toRelay'[d] = toRelay[d] \/ toRelay'[d] = Append(toRelay[d], f) BY <1>3 DEF ToRelay, TypeOK
  <2>3. QED BY <2>1, <2>2 DEF Moves
<1>4. ASSUME NEW c \in Connectors, NoticeRequest(c) PROVE Goal
  <2>1. PICK a \in conn[c].asked :
          toRelay' = toRelay \/ ToRelay(c, [type |-> "approval_request", approval |-> a])
    BY <1>4 DEF NoticeRequest
  <2>2. a \in Requests BY DEF TypeOK, ConnStates
  <2>3. [type |-> "approval_request", approval |-> a] \in FromConnector BY <2>2 DEF FromConnector
  <2>4. QED BY <1>1, <1>3, <2>1, <2>3
<1>5. ASSUME NEW c \in Connectors, NoticeTurnCompleted(c) PROVE Goal
  <2>1. PICK a \in conn[c].pending : ToRelay(c, [type |-> "approval_cancel", approval |-> a])
    BY <1>5 DEF NoticeTurnCompleted
  <2>2. a \in Requests BY DEF TypeOK, ConnStates
  <2>3. [type |-> "approval_cancel", approval |-> a] \in FromConnector BY <2>2 DEF FromConnector
  <2>4. QED BY <1>3, <2>1, <2>3
<1>6. ASSUME NEW c \in Connectors, ReceiveDecision(c) PROVE Goal
  <2>1. toConn[c] # <<>> /\ Head(toConn[c]).type = "approval_response"
    BY <1>6 DEF ReceiveDecision, Received
  <2>2. PICK a \in Requests : a = Head(toConn[c]).approval BY <2>1, FrameHeads
  <2>3. ToRelay(c, [type |-> "approval_recorded", approval |-> a]) BY <1>6, <2>2 DEF ReceiveDecision
  <2>4. [type |-> "approval_recorded", approval |-> a] \in FromConnector BY DEF FromConnector
  <2>5. QED BY <1>3, <2>3, <2>4
<1>7. ASSUME NEW c \in Connectors, ReceiveReceipt(c) PROVE Goal
  <2>1. toConn[c] # <<>> /\ toConn[c] \in Seq(TrueFrames) BY <1>7 DEF ReceiveReceipt, Received
  <2>2. PICK f \in TrueFrames : f = Head(toConn[c]) BY <2>1, HeadTailProperties
  <2>3. f.type = "delivery_receipt" BY <1>7, <2>2 DEF ReceiveReceipt, Received
  <2>4. f.receipt \in Receipts /\ f.status \in {"sent", "failed"} /\ receipt[f.receipt].status = f.status
    BY <2>3 DEF TrueFrames, FromRelay
  <2>5. receipt'[f.receipt].status = f.status BY <2>4 DEF SettledStays
  <2>6. f.status = "failed" => Known(f.receipt)'
    <3>1. SUFFICES ASSUME f.status = "failed" PROVE Known(f.receipt)' OBVIOUS
    <3>2. conn' = [conn EXCEPT ![c] = Remembering(c, f.receipt)]
      BY <1>7, <2>2, <3>1 DEF ReceiveReceipt, RememberDeliveryFailure
    <3>3. conn'[c] = Remembering(c, f.receipt) BY <3>2 DEF TypeOK
    <3>4. f.receipt \in conn'[c].failures BY <2>4, <3>3, RememberingKeeps DEF Failures
    <3>5. QED BY <3>4 DEF Known, Holds
  <2> DEFINE l == [type |-> "delivery_recorded", receipt |-> f.receipt]
  <2>7. l \in FromConnector BY <2>4 DEF FromConnector
  <2>8. Honest(f.receipt)' BY <2>4, <2>5, <2>6 DEF Honest
  <2>9. l \in HonestLines' BY <2>7, <2>8 DEF HonestLines
  <2>10. ToRelay(c, l) BY <1>7, <2>2 DEF ReceiveReceipt
  <2>11. toRelay'[d] = toRelay[d] \/ toRelay'[d] = Append(toRelay[d], l)
    BY <2>10 DEF ToRelay, TypeOK
  <2> HIDE DEF l
  <2>12. QED BY <2>9, <2>11 DEF Moves
<1>8. ASSUME NEW c \in Connectors, HandleLine(c) PROVE Goal
  <2>1. toRelay[c] # <<>> /\ toRelay' = [toRelay EXCEPT ![c] = Tail(@)]
    BY <1>8 DEF HandleLine, HandleHello, HandleApprovalRequest, HandleApprovalRecorded,
            HandleApprovalCancel, HandleDeliveryRecorded, Line
  <2>2. QED BY <2>1 DEF TypeOK, Moves
<1>9. ASSUME NEW c \in Connectors, Close(c) \/ Kill(c) \/ Connect(c) \/ Crash(c) PROVE Goal
  <2>1. CASE Close(c) \/ Kill(c)
    <3>1. toRelay' = [toRelay EXCEPT ![c] = <<>>] BY <2>1 DEF Close, Kill, Leave
    <3>2. QED BY <3>1 DEF TypeOK, Moves
  <2>2. CASE Connect(c)
    <3>1. toRelay' = [toRelay EXCEPT ![c] = <<[type |-> "hello"]>>] BY <2>2 DEF Connect
    <3>2. QED BY <3>1 DEF TypeOK, Moves
  <2>3. CASE Crash(c)
    <3>1. Lose(toRelay, c, 0) BY <2>3 DEF Crash
    <3>2. toRelay'[d] = toRelay[d] \/ \E n \in 0..Len(toRelay[d]) : toRelay'[d] = SubSeq(toRelay[d], 1, n)
      BY <3>1 DEF Lose, TypeOK
    <3>3. QED BY <3>2 DEF Moves
  <2>4. QED BY <1>9, <2>1, <2>2, <2>3
<1>10. ASSUME NEW c \in Connectors, ClaimOnce(c) \/ Memory(c) \/ ReadResponse(c)
       PROVE  toRelay' = toRelay
  BY <1>10 DEF ClaimOnce, ClaimFails, SendReceipt, ExpireRelayApprovals, SendDecision,
          Memory, InjectFailures, ReceiveRefusal, ReadResponse, pipes
<1>11. CASE Next
  <2>1. ASSUME NEW c \in Connectors,
               \/ HandleLine(c) \/ ClaimOnce(c) \/ Close(c) \/ Kill(c)
               \/ Connect(c) \/ Crash(c)
               \/ Notice(c) \/ Receive(c) \/ Memory(c) \/ ReadResponse(c)
        PROVE  Goal
    BY <2>1, <1>1, <1>4, <1>5, <1>6, <1>7, <1>8, <1>9, <1>10 DEF Notice, Receive
  <2>2. ASSUME NEW u \in Taps, Callback(u) PROVE toRelay' = toRelay
    BY <2>2 DEF Callback, Press, Resolve, ClaimAgain, pipes
  <2>3. ASSUME NEW r \in Receipts, SettleReceipt(r) PROVE toRelay' = toRelay
    BY <2>3 DEF SettleReceipt, pipes
  <2>4. ASSUME NEW a \in Requests, Deadline(a) \/ Ask(a) \/ EndTurn(a) PROVE toRelay' = toRelay
    BY <2>4 DEF Deadline, Ask, EndTurn, pipes
  <2>5. QED BY <1>11, <1>1, <2>1, <2>2, <2>3, <2>4 DEF Next
<1>12. QED BY <1>2, <1>11

\* A relay writes a receipt off only on such a line.
LEMMA WrittenOffHonestly ==
  ASSUME ReceiptInv, [Next]_vars, SettledStays, KnownStays, NEW r \in Receipts, receipt'[r].delivered
  PROVE  Honest(r)'
<1> USE DEF ReceiptInv
<1>1. CASE receipt[r].delivered BY <1>1, HonestStays
<1>2. CASE ~receipt[r].delivered
  <2>1. ASSUME NEW c \in Connectors, HandleDeliveryRecorded(c) PROVE Honest(r)
    <3>1. /\ toRelay[c] # <<>> /\ Head(toRelay[c]).type = "delivery_recorded"
          /\ toRelay[c] \in Seq(HonestLines)
      BY <2>1, LineGone DEF HandleDeliveryRecorded
    <3>2. PICK f \in HonestLines : f = Head(toRelay[c]) BY <3>1, HeadTailProperties
    <3>3. Honest(f.receipt) BY <3>1, <3>2 DEF HonestLines
    <3>4. receipt' = [receipt EXCEPT ![f.receipt].delivered = TRUE] \/ receipt' = receipt
      BY <2>1, <3>2 DEF HandleDeliveryRecorded
    <3>5. r = f.receipt BY <1>2, <3>4 DEF TypeOK
    <3>6. QED BY <3>3, <3>5
  <2>2. ASSUME NEW s \in Receipts, SettleReceipt(s) PROVE FALSE
    <3>1. PICK v : receipt' = [receipt EXCEPT ![s].status = v] BY <2>2 DEF SettleReceipt
    <3>2. receipt'[r].delivered = receipt[r].delivered BY <3>1 DEF TypeOK, ReceiptRows
    <3>3. QED BY <1>2, <3>2
  <2>3. ASSUME receipt' = receipt PROVE FALSE BY <1>2, <2>3
  <2>4. CASE UNCHANGED vars BY <2>3, <2>4 DEF vars
  <2>5. ASSUME NEW c \in Connectors,
               \/ HandleHello(c) \/ HandleApprovalRequest(c) \/ HandleApprovalRecorded(c)
               \/ HandleApprovalCancel(c)
               \/ ClaimOnce(c) \/ Close(c) \/ Kill(c) \/ Connect(c) \/ Crash(c) \/ CloseConnector(c)
               \/ Notice(c) \/ Receive(c) \/ Memory(c) \/ ReadResponse(c)
        PROVE  receipt' = receipt
    BY <2>5 DEF HandleHello, HandleApprovalRequest, HandleApprovalRecorded, HandleApprovalCancel,
            ClaimOnce, ClaimFails, SendReceipt, ExpireRelayApprovals, SendDecision, Close, Kill,
            Leave, Connect, Crash, CloseConnector, Notice, NoticeRequest, NoticeTurnCompleted,
            Receive, ReceiveDecision, ReceiveReceipt, Memory, InjectFailures, ReceiveRefusal, ReadResponse, rows
  <2>6. ASSUME NEW u \in Taps, Callback(u) PROVE receipt' = receipt
    BY <2>6 DEF Callback, Press, Resolve, ClaimAgain, rows
  <2>7. ASSUME NEW a \in Requests, Deadline(a) \/ Ask(a) \/ EndTurn(a) PROVE receipt' = receipt
    BY <2>7 DEF Deadline, Ask, EndTurn, rows
  <2>8. CASE Next
    <3>1. PICK c \in Connectors : HandleDeliveryRecorded(c)
      BY <2>8, <2>2, <2>3, <2>5, <2>6, <2>7 DEF Next, HandleLine
    <3>2. Honest(r) BY <2>1, <3>1
    <3>3. QED BY <3>2, HonestStays
  <2>9. QED BY <2>4, <2>8
<1>3. QED BY <1>1, <1>2

\* Every step keeps it.
LEMMA ReceiptStep == ReceiptInv /\ [Next]_vars => ReceiptInv'
<1> SUFFICES ASSUME ReceiptInv, [Next]_vars PROVE ReceiptInv' OBVIOUS
<1>1. TypeOK /\ TypeOK' BY TypeStep DEF ReceiptInv
<1>2. SettledStays /\ KnownStays /\ \A c \in Connectors : InOrder(conn'[c])
  BY <1>1, ReceiptsStay, MemoriesStay DEF ReceiptInv
<1>3. \A r \in Receipts : receipt'[r].delivered => Honest(r)' BY <1>2, WrittenOffHonestly
<1>4. TrueFrames \subseteq TrueFrames' /\ HonestLines \subseteq HonestLines'
  BY <1>1, <1>2, ClaimsGrow
<1>5. ASSUME NEW d \in Connectors PROVE toConn'[d] \in Seq(TrueFrames')
  <2>1. toConn[d] \in Seq(TrueFrames) BY DEF ReceiptInv
  <2>2. Moves(toConn[d], toConn'[d], TrueFrames') BY <1>1, FramesMove
  <2>3. QED BY <1>4, <2>1, <2>2, PipeStep
<1>6. ASSUME NEW d \in Connectors PROVE toRelay'[d] \in Seq(HonestLines')
  <2>1. toRelay[d] \in Seq(HonestLines) BY DEF ReceiptInv
  <2>2. CASE \E c \in Connectors : CloseConnector(c)
    <3>1. toRelay'[d] \in Seq(HonestLines) BY <2>2, CancelsAreHonest
    <3>2. QED BY <1>4, <3>1, SeqMonotonic
  <2>3. CASE \A c \in Connectors : ~CloseConnector(c)
    <3>1. CASE Moves(toRelay[d], toRelay'[d], HonestLines') BY <1>4, <2>1, <3>1, PipeStep
    <3>2. CASE toRelay'[d] = <<[type |-> "hello"]>>
      <4>1. [type |-> "hello"] \in HonestLines' BY DEF HonestLines, FromConnector
      <4>2. QED BY <3>2, <4>1
    <3>3. QED BY <1>2, <2>3, <3>1, <3>2, LinesMove
  <2>4. QED BY <2>2, <2>3
<1>7. (\A c \in Connectors : InOrder(conn[c]))' BY <1>2 DEF InOrder
<1>8. QED BY <1>1, <1>3, <1>5, <1>6, <1>7 DEF ReceiptInv

\* A failed delivery that was written off is known to a connector, whichever
\* connector it was, however late its acknowledgement arrived, and whatever
\* became of the connector and its relay since, unless it has remembered
\* MaxFailures more since then: those pushed it out (#rememberDeliveryFailure).
THEOREM FailuresAreKnown == Spec => []FailuresKnown
<1>1. ReceiptInv => FailuresKnown BY DEF ReceiptInv, FailuresKnown, Honest, Known, Holds
<1>2. QED BY <1>1, ReceiptInit, ReceiptStep, PTL DEF Spec
=============================================================================
