--------------------------- MODULE RelayApprovals ---------------------------
(***************************************************************************)
(* What a relay carries beside its job batches: permission requests of the *)
(* app-server to the owner and their decisions back, and receipts that tell *)
(* the connector what became of a batch's outbound actions.                 *)
(*                                                                         *)
(* The processes are those of RelayProtocol: relays and connectors joined   *)
(* by FIFO pipes, one connector alive at a time, the app-server (external)  *)
(* at the far end of a socket.  A relay may run on another host (ssh), so   *)
(* it can outlive its connector.  The dispatcher turns the owner's taps on  *)
(* Approve and Deny into decisions.                                        *)
(***************************************************************************)
EXTENDS Integers, FiniteSets, Sequences

CONSTANTS
  Requests,    \* permission requests of the app-server
  GuestTurns,  \* requests that a turn for a sender without authority may raise
  Receipts,    \* delivery receipts, numbered as they were created
  Results,     \* batches whose result the relay refuses
  Connectors,
  Taps,        \* callback updates: taps of the owner
  None,
  Window,      \* receipts nextRelayDeliveryReceipt looks at: 64
  MaxFailures, \* failures a connector remembers: 32
  Scenes,      \* bound: the requests, receipts, ... that occur in a behaviour
  MaxBacklog   \* bound: lines a process may be ahead of its reader

ASSUME RelayApprovalsAssumption ==
  /\ MaxBacklog \in Nat \ {0} /\ Window \in Nat \ {0} /\ MaxFailures \in Nat \ {0}
  /\ Receipts \subseteq Nat /\ IsFiniteSet(Receipts) /\ IsFiniteSet(Results)
  /\ Receipts \cap Results = {}
  /\ IsFiniteSet(Requests)
  /\ GuestTurns \subseteq Requests
  /\ None \notin Requests \cup Connectors /\ None \notin Receipts
  /\ None \notin {"approve", "deny", "approved", "denied", "expired"}

VARIABLES
  approval,   \* approval[a]: its row of relay_approvals
  receipt,    \* receipt[r]: its row of relay_delivery_receipts and its actions
  session,    \* the connector of the relay_sessions row, None when offline
  tap,        \* tap[u]: callback update u at the dispatcher
  ask,        \* ask[a]: request a at the app-server
  conn,       \* conn[c]: connector process c
  relay,      \* relay[c]: the relay process serving connector c
  toRelay,    \* toRelay[c]: lines written by c, not yet handled
  toConn,     \* toConn[c]: lines written to c, not yet handled
  toApp       \* toApp[c]: responses of c on its way to the app-server

rows == <<approval, receipt, session>>
pipes == <<toRelay, toConn, toApp>>
vars == <<approval, receipt, session, tap, ask, conn, relay, toRelay, toConn, toApp>>

-----------------------------------------------------------------------------
Verdicts == {"approved", "denied", "expired"}
Decisions == {"approve", "deny"}

\* `verdict` is history: what the row said when it left "pending".
ApprovalRows ==
  [state : {"none", "pending", "cancelled"} \cup Verdicts,
   verdict : Verdicts \cup {None}, by : Connectors \cup {None},
   delivered : BOOLEAN, due : BOOLEAN]

ReceiptRows == [status : {"none", "unsettled", "sent", "failed"}, delivered : BOOLEAN]

\* `won` is history: this tap made the decision.
TapStates ==
  [pc : {"none", "new", "claimed", "handled"}, request : Requests \cup {None},
   decision : Decisions \cup {None}, won : BOOLEAN]

\* `guest`: the connector whose turn for a sender without authority raised it.
AskStates ==
  [asked : BOOLEAN, guest : Connectors \cup {None}, answer : Decisions \cup {None},
   over : BOOLEAN]

\* What a connector can remember as a failed delivery.
Failures == Receipts \cup Results

\* `asked`: requests the app-server sent to c that c has not handled yet.
\* `failures`: the failed deliveries c remembers; `newer[f]`: how many it remembered
\* after f while it remembered f.  `injected` is history: what it put into a turn.
\* `refusals`: its batches that will end with a refused result.
ConnStates ==
  [pc : {"new", "up", "down"}, asked : SUBSET Requests, pending : SUBSET Requests,
   failures : SUBSET Failures, newer : [Failures -> Nat], injected : SUBSET Failures,
   refusals : SUBSET Results]

RelayStates ==
  [pc : {"none", "open", "closing", "gone"}, fatal : BOOLEAN, hello : BOOLEAN,
   approval : Requests \cup {None}, receipt : Receipts \cup {None}]

FromConnector ==
  [type : {"hello"}]
  \cup [type : {"approval_request", "approval_recorded", "approval_cancel"}, approval : Requests]
  \cup [type : {"delivery_recorded"}, receipt : Receipts]

FromRelay ==
  [type : {"approval_response"}, approval : Requests, decision : Decisions]
  \cup [type : {"delivery_receipt"}, receipt : Receipts, status : {"sent", "failed"}]

Responses == [approval : Requests, decision : Decisions]

TypeOK ==
  /\ approval \in [Requests -> ApprovalRows]
  /\ receipt \in [Receipts -> ReceiptRows]
  /\ session \in Connectors \cup {None}
  /\ tap \in [Taps -> TapStates]
  /\ ask \in [Requests -> AskStates]
  /\ conn \in [Connectors -> ConnStates]
  /\ relay \in [Connectors -> RelayStates]
  /\ toRelay \in [Connectors -> Seq(FromConnector)]
  /\ toConn \in [Connectors -> Seq(FromRelay)]
  /\ toApp \in [Connectors -> Seq(Responses)]

NewConn == [pc |-> "new", asked |-> {}, pending |-> {}, failures |-> {},
            newer |-> [f \in Failures |-> 0], injected |-> {}, refusals |-> {}]
NewRelay ==
  [pc |-> "none", fatal |-> FALSE, hello |-> FALSE, approval |-> None, receipt |-> None]

Init ==
  /\ approval = [a \in Requests |-> [state |-> "none", verdict |-> None, by |-> None,
                                     delivered |-> FALSE, due |-> FALSE]]
  /\ \E scene \in Scenes :
       /\ receipt = [r \in Receipts |-> [status |-> IF r \in scene THEN "unsettled" ELSE "none",
                                         delivered |-> FALSE]]
       /\ tap = [u \in Taps |-> [pc |-> IF u \in scene THEN "new" ELSE "none",
                                 request |-> None, decision |-> None, won |-> FALSE]]
       /\ ask = [a \in Requests |-> [asked |-> FALSE, guest |-> None, answer |-> None,
                                     over |-> a \notin scene]]
       /\ conn = [c \in Connectors |->
                    [NewConn EXCEPT !.pc = IF c \in scene THEN "new" ELSE "down",
                                    !.refusals = Results \cap scene]]
  /\ session = None
  /\ relay = [c \in Connectors |-> NewRelay]
  /\ toRelay = [c \in Connectors |-> <<>>]
  /\ toConn = [c \in Connectors |-> <<>>]
  /\ toApp = [c \in Connectors |-> <<>>]

-----------------------------------------------------------------------------
Up(c) == conn[c].pc = "up"
Open(a) == ask[a].asked /\ ask[a].answer = None /\ ~ask[a].over

\* Lines written to a process that is gone are lost.
ToConn(c, frame) ==
  toConn' = IF Up(c) THEN [toConn EXCEPT ![c] = Append(@, frame)] ELSE toConn

ToRelay(c, frame) ==
  /\ Len(toRelay[c]) < MaxBacklog
  /\ toRelay' = IF relay[c].pc # "gone"
                THEN [toRelay EXCEPT ![c] = Append(@, frame)]
                ELSE toRelay

Respond(c, a, decision) ==
  toApp' = [toApp EXCEPT ![c] = Append(@, [approval |-> a, decision |-> decision])]

-----------------------------------------------------------------------------
(***************************************************************************)
(* The table relay_approvals.                                              *)
(***************************************************************************)
CreateRelayApproval(a, c) ==
  approval' = [approval EXCEPT ![a].state = "pending", ![a].by = c]

Decided(a) == approval[a].state \in Verdicts

RebindRelayApproval(a, c) ==
  approval' = IF approval[a].by # c /\ approval[a].state # "cancelled"
              THEN [approval EXCEPT ![a].by = c, ![a].delivered = @ /\ ~Decided(a)]
              ELSE approval

\* The rows with `S` settled as `v`.
Settled(S, v) ==
  [a \in Requests |-> IF a \in S THEN [approval[a] EXCEPT !.state = v, !.verdict = v]
                                 ELSE approval[a]]

Pending == {a \in Requests : approval[a].state = "pending"}
Overdue == {a \in Pending : approval[a].due}

\* Whoever asks: the connector is not compared.
CancelRelayApproval(a) ==
  approval' = IF approval[a].state # "none" /\ ~approval[a].delivered
              THEN [approval EXCEPT ![a].state = "cancelled"]
              ELSE approval

MarkRelayApprovalDelivered(a) ==
  /\ Decided(a) /\ ~approval[a].delivered
  /\ approval' = [approval EXCEPT ![a].delivered = TRUE]

\* Ten minutes pass since the connector made the request; only a pending row has
\* a use for that.
Deadline(a) ==
  /\ a \in Pending \ Overdue
  /\ approval' = [approval EXCEPT ![a].due = TRUE]
  /\ UNCHANGED <<receipt, session, tap, ask, conn, relay, pipes>>

-----------------------------------------------------------------------------
(***************************************************************************)
(* The dispatcher: callback updates.  An update is claimed again when the *)
(* service dies before it has completed it.  Of what the tap shows in the   *)
(* chat only the decision matters here.                                    *)
(***************************************************************************)
\* The prompt with its two buttons stays in the chat whatever the row says.
Press(u) ==
  /\ tap[u].pc = "new"
  /\ \E a \in Requests, d \in Decisions :
       /\ approval[a].state # "none"
       /\ tap' = [tap EXCEPT ![u].pc = "claimed", ![u].request = a, ![u].decision = d]
  /\ UNCHANGED <<rows, ask, conn, relay, pipes>>

VerdictOf(decision) == IF decision = "approve" THEN "approved" ELSE "denied"

\* Mutant: a second tap decides again.
ResolveAgain(u) ==
  LET a == tap[u].request
  IN  /\ tap[u].pc = "claimed"
      /\ tap' = [tap EXCEPT ![u].pc = "handled", ![u].won = TRUE]
      /\ approval' = Settled({a}, VerdictOf(tap[u].decision))
      /\ UNCHANGED <<receipt, session, ask, conn, relay, pipes>>

\* resolveRelayApproval, one transaction.
Resolve(u) ==
  LET a == tap[u].request
      resolved == a \in Pending \ Overdue
  IN  /\ tap[u].pc = "claimed"
      /\ tap' = [tap EXCEPT ![u].pc = "handled", ![u].won = @ \/ resolved]
      /\ approval' = IF resolved THEN Settled({a}, VerdictOf(tap[u].decision))
                                 ELSE Settled({a} \cap Overdue, "expired")
      /\ UNCHANGED <<receipt, session, ask, conn, relay, pipes>>

\* The service dies before completeUpdate.
ClaimAgain(u) ==
  /\ tap[u].pc = "handled"
  /\ tap' = [tap EXCEPT ![u].pc = "claimed"]
  /\ UNCHANGED <<rows, ask, conn, relay, pipes>>

-----------------------------------------------------------------------------
(***************************************************************************)
(* The table relay_delivery_receipts.  A finalize creates a receipt in the *)
(* transaction that creates its actions; the relay passes over it until the *)
(* outbound drain has settled them.  "failed" is also an unknown outcome.   *)
(***************************************************************************)
SettleReceipt(r) ==
  /\ receipt[r].status = "unsettled"
  /\ \E s \in {"sent", "failed"} : receipt' = [receipt EXCEPT ![r].status = s]
  /\ UNCHANGED <<approval, session, tap, ask, conn, relay, pipes>>

Undelivered == {r \in Receipts : receipt[r].status # "none" /\ ~receipt[r].delivered}
Settling == {r \in Receipts : receipt[r].status = "unsettled"}
Older(S, r) == {s \in S : s < r}

\* Among the oldest receipts an unsettled one does not hold back a settled one.
DueReceipts ==
  {r \in Undelivered \ Settling : Cardinality(Older(Undelivered, r)) < Window}

NextReceipts == {r \in DueReceipts : Older(DueReceipts, r) = {}}

-----------------------------------------------------------------------------
(***************************************************************************)
(* The relay process of connector c: the claim timer.  Interrupts, which   *)
(* claimOnce sends first, are in TransportService, job batches, which it    *)
(* sends last, in RelayProtocol.                                           *)
(***************************************************************************)
CanClaim(c) ==
  /\ relay[c].pc = "open" /\ relay[c].hello /\ ~relay[c].fatal
  /\ relay[c].receipt = None

\* The session was lost: the lines already read are still handled.
ClaimFails(c) ==
  /\ relay[c].pc = "open" /\ relay[c].hello /\ ~relay[c].fatal
  /\ session # c
  /\ relay' = [relay EXCEPT ![c].fatal = TRUE]
  /\ UNCHANGED <<rows, tap, ask, conn, pipes>>

SendReceipt(c) ==
  /\ CanClaim(c) /\ session = c
  /\ \E r \in NextReceipts :
       /\ relay' = [relay EXCEPT ![c].receipt = r]
       /\ ToConn(c, [type |-> "delivery_receipt", receipt |-> r, status |-> receipt[r].status])
  /\ UNCHANGED <<rows, tap, ask, conn, toRelay, toApp>>

ReadyForApproval(c) ==
  CanClaim(c) /\ session = c /\ DueReceipts = {} /\ relay[c].approval = None

\* nextRelayApprovalResponse notices deadlines before it looks.
ExpireRelayApprovals(c) ==
  /\ ReadyForApproval(c)
  /\ Overdue # {}
  /\ approval' = Settled(Overdue, "expired")
  /\ UNCHANGED <<receipt, session, tap, ask, conn, relay, pipes>>

\* Mutant: an expired request counts as neither approved nor denied.
AnswerFor(v) == IF v = "denied" THEN "deny" ELSE "approve"

\* Mutant: the state of the row is sent as it is.
StateFor(v) == v

DecisionFor(v) == IF v = "approved" THEN "approve" ELSE "deny"

SendDecision(c) ==
  /\ ReadyForApproval(c)
  /\ Overdue = {}
  /\ \E a \in Requests :
       /\ Decided(a) /\ ~approval[a].delivered
       /\ relay' = [relay EXCEPT ![c].approval = a]
       /\ ToConn(c, [type |-> "approval_response", approval |-> a,
                     decision |-> DecisionFor(approval[a].state)])
  /\ UNCHANGED <<rows, tap, ask, conn, toRelay, toApp>>

-----------------------------------------------------------------------------
(***************************************************************************)
(* The relay process of connector c: lines from the connector.  A handler  *)
(* that throws ends the relay.                                             *)
(***************************************************************************)
Line(c, type) ==
  /\ relay[c].pc = "open"
  /\ toRelay[c] # <<>>
  /\ Head(toRelay[c]).type = type
  /\ toRelay' = [toRelay EXCEPT ![c] = Tail(@)]

Throw(c) == relay' = [relay EXCEPT ![c].pc = "closing"]

HandleHello(c) ==
  /\ Line(c, "hello")
  /\ session' = c
  /\ relay' = [relay EXCEPT ![c].hello = TRUE]
  /\ UNCHANGED <<approval, receipt, tap, ask, conn, toConn, toApp>>

\* A request asked again, by the next connector, keeps its row and its deadline.
\* It throws when the line comes after its own ten minutes, or without an owner.
HandleApprovalRequest(c) ==
  LET a == Head(toRelay[c]).approval
  IN  /\ Line(c, "approval_request")
      /\ \/ /\ IF approval[a].state = "none" THEN CreateRelayApproval(a, c)
                                             ELSE RebindRelayApproval(a, c)
            /\ UNCHANGED relay
         \/ Throw(c) /\ UNCHANGED approval
      /\ UNCHANGED <<receipt, session, tap, ask, conn, toConn, toApp>>

HandleApprovalRecorded(c) ==
  LET a == Head(toRelay[c]).approval
  IN  /\ Line(c, "approval_recorded")
      /\ \/ /\ relay[c].approval = a
            /\ MarkRelayApprovalDelivered(a)
            /\ relay' = [relay EXCEPT ![c].approval = None]
         \/ /\ relay[c].approval # a \/ ~Decided(a) \/ approval[a].delivered
            /\ Throw(c)
            /\ UNCHANGED approval
      /\ UNCHANGED <<receipt, session, tap, ask, conn, toConn, toApp>>

HandleApprovalCancel(c) ==
  LET a == Head(toRelay[c]).approval
  IN  /\ Line(c, "approval_cancel")
      /\ CancelRelayApproval(a)
      /\ relay' = [relay EXCEPT ![c].approval = IF @ = a THEN None ELSE @]
      /\ UNCHANGED <<receipt, session, tap, ask, conn, toConn, toApp>>

HandleDeliveryRecorded(c) ==
  LET r == Head(toRelay[c]).receipt
  IN  /\ Line(c, "delivery_recorded")
      /\ \/ /\ relay[c].receipt = r /\ ~receipt[r].delivered
            /\ receipt' = [receipt EXCEPT ![r].delivered = TRUE]
            /\ relay' = [relay EXCEPT ![c].receipt = None]
         \/ /\ relay[c].receipt # r \/ receipt[r].delivered
            /\ Throw(c)
            /\ UNCHANGED receipt
      /\ UNCHANGED <<approval, session, tap, ask, conn, toConn, toApp>>

-----------------------------------------------------------------------------
\* close(), after an error or at end of input, or a kill: what was in flight is
\* forgotten, the rows keep it.
Ending(c) ==
  \/ relay[c].pc = "closing"
  \/ relay[c].pc = "open" /\ (relay[c].fatal \/ ~Up(c)) /\ toRelay[c] = <<>>

Leave(c) ==
  /\ relay' = [relay EXCEPT ![c] = [NewRelay EXCEPT !.pc = "gone"]]
  /\ toRelay' = [toRelay EXCEPT ![c] = <<>>]
  /\ UNCHANGED <<approval, receipt, tap, ask, conn, toConn, toApp>>

Close(c) ==
  /\ Ending(c)
  /\ session' = IF relay[c].hello /\ session = c THEN None ELSE session
  /\ Leave(c)

Kill(c) ==
  /\ relay[c].pc \in {"open", "closing"}
  /\ UNCHANGED session
  /\ Leave(c)

-----------------------------------------------------------------------------
(***************************************************************************)
(* Connector process c.                                                    *)
(***************************************************************************)
\* thread/resume: the app-server sends its open requests again.
Connect(c) ==
  /\ conn[c].pc = "new"
  /\ \A d \in Connectors : ~Up(d)
  /\ conn' = [conn EXCEPT ![c].pc = "up", ![c].asked = {a \in Requests : Open(a)}]
  /\ relay' = [relay EXCEPT ![c].pc = "open"]
  /\ toRelay' = [toRelay EXCEPT ![c] = <<[type |-> "hello"]>>]
  /\ UNCHANGED <<rows, tap, ask, toConn, toApp>>

\* Nothing of the connector's memory survives it.
Forget(c) == conn' = [conn EXCEPT ![c].pc = "down", ![c].asked = {}, ![c].pending = {}]

\* A prefix of each stream has left the process.
Lose(pipe, c, first) ==
  \E n \in first..Len(pipe[c]) : pipe' = [pipe EXCEPT ![c] = SubSeq(@, 1, n)]

Crash(c) ==
  /\ Up(c)
  /\ Forget(c)
  /\ Lose(toRelay, c, 0) /\ Lose(toApp, c, 0)
  /\ toConn' = [toConn EXCEPT ![c] = <<>>]
  /\ UNCHANGED <<rows, tap, ask, relay>>

\* LocalSessionConnector.close(): everything still pending is cancelled.
CloseConnector(c) ==
  /\ Up(c)
  /\ Forget(c)
  /\ \E order \in [1..Cardinality(conn[c].pending) -> conn[c].pending] :
       /\ \A a \in conn[c].pending : \E i \in DOMAIN order : order[i] = a
       /\ toRelay' = IF relay[c].pc = "gone" THEN toRelay ELSE
            [toRelay EXCEPT ![c] = @ \o [i \in DOMAIN order |->
               [type |-> "approval_cancel", approval |-> order[i]]]]
  /\ Lose(toApp, c, 0)
  /\ toConn' = [toConn EXCEPT ![c] = <<>>]
  /\ UNCHANGED <<rows, tap, ask, relay>>

\* A request of a turn without authority is refused on the spot, by the
\* connector that started the turn; any other goes to the owner.
NoticeRequest(c) ==
  /\ Up(c)
  /\ \E a \in conn[c].asked :
       IF ask[a].guest = c
       THEN /\ Respond(c, a, "deny")
            /\ conn' = [conn EXCEPT ![c].asked = @ \ {a}]
            /\ UNCHANGED toRelay
       ELSE /\ ToRelay(c, [type |-> "approval_request", approval |-> a])
            /\ conn' = [conn EXCEPT ![c].asked = @ \ {a}, ![c].pending = @ \cup {a}]
            /\ UNCHANGED toApp
  /\ UNCHANGED <<rows, tap, ask, relay, toConn>>

\* notification turn/completed.
NoticeTurnCompleted(c) ==
  /\ Up(c)
  /\ \E a \in conn[c].pending :
       /\ ask[a].over
       /\ ToRelay(c, [type |-> "approval_cancel", approval |-> a])
       /\ conn' = [conn EXCEPT ![c].pending = @ \ {a}]
  /\ UNCHANGED <<rows, tap, ask, relay, toConn, toApp>>

Received(c, type) ==
  /\ Up(c)
  /\ toConn[c] # <<>>
  /\ Head(toConn[c]).type = type
  /\ toConn' = [toConn EXCEPT ![c] = Tail(@)]

\* Mutant: a decision for a request it does not know is not acknowledged.
ReceiveKnownDecision(c) ==
  LET f == Head(toConn[c])
  IN  /\ Received(c, "approval_response")
      /\ IF f.approval \in conn[c].pending
         THEN /\ Respond(c, f.approval, f.decision)
              /\ ToRelay(c, [type |-> "approval_recorded", approval |-> f.approval])
         ELSE UNCHANGED <<toApp, toRelay>>
      /\ conn' = [conn EXCEPT ![c].pending = @ \ {f.approval}]
      /\ UNCHANGED <<rows, tap, ask, relay>>

\* A decision for a request that is no longer pending is acknowledged only.
ReceiveDecision(c) ==
  LET f == Head(toConn[c])
  IN  /\ Received(c, "approval_response")
      /\ IF f.approval \in conn[c].pending
         THEN Respond(c, f.approval, f.decision)
         ELSE UNCHANGED toApp
      /\ conn' = [conn EXCEPT ![c].pending = @ \ {f.approval}]
      /\ ToRelay(c, [type |-> "approval_recorded", approval |-> f.approval])
      /\ UNCHANGED <<rows, tap, ask, relay>>

Oldest(c) ==
  {g \in conn[c].failures : \A h \in conn[c].failures : conn[c].newer[h] <= conn[c].newer[g]}

Aged(c, f) ==
  [g \in Failures |-> IF g = f THEN 0
                      ELSE conn[c].newer[g] + (IF g \in conn[c].failures THEN 1 ELSE 0)]

\* Mutant: room is made one entry early.
PushedEarly(c, f) ==
  LET rest == IF Cardinality(conn[c].failures) >= MaxFailures - 1
              THEN conn[c].failures \ Oldest(c) ELSE conn[c].failures
  IN  [conn[c] EXCEPT !.failures = rest \cup {f}, !.newer = Aged(c, f)]

\* What c remembers with f pushed behind it: the oldest makes room.
Pushed(c, f) ==
  LET rest == IF Cardinality(conn[c].failures) = MaxFailures
              THEN conn[c].failures \ Oldest(c) ELSE conn[c].failures
  IN  [conn[c] EXCEPT !.failures = rest \cup {f}, !.newer = Aged(c, f)]

Remembering(c, f) == IF f \in conn[c].failures THEN conn[c] ELSE Pushed(c, f)

RememberDeliveryFailure(c, f) == conn' = [conn EXCEPT ![c] = Remembering(c, f)]

\* Mutant: only failures are acknowledged.
ReceiveFailedReceipt(c) ==
  LET f == Head(toConn[c])
  IN  /\ Received(c, "delivery_receipt")
      /\ IF f.status = "sent"
         THEN UNCHANGED <<conn, toRelay>>
         ELSE /\ RememberDeliveryFailure(c, f.receipt)
              /\ ToRelay(c, [type |-> "delivery_recorded", receipt |-> f.receipt])
      /\ UNCHANGED <<rows, tap, ask, relay, toApp>>

ReceiveReceipt(c) ==
  LET f == Head(toConn[c])
  IN  /\ Received(c, "delivery_receipt")
      /\ IF f.status = "sent" THEN UNCHANGED conn ELSE RememberDeliveryFailure(c, f.receipt)
      /\ ToRelay(c, [type |-> "delivery_recorded", receipt |-> f.receipt])
      /\ UNCHANGED <<rows, tap, ask, relay, toApp>>

\* A batch of c ends with job_recorded "failed": a failure without a receipt row.
ReceiveRefusal(c) ==
  /\ Up(c)
  /\ \E b \in conn[c].refusals :
       conn' = [conn EXCEPT ![c] = [Remembering(c, b) EXCEPT !.refusals = @ \ {b}]]
  /\ UNCHANGED <<rows, tap, ask, relay, pipes>>

\* The next turn of an authenticated sender was started with the failures; a
\* turn/start that fails keeps them.
InjectFailures(c) ==
  /\ Up(c)
  /\ conn[c].failures # {}
  /\ conn' = [conn EXCEPT ![c].failures = {}, ![c].injected = @ \cup conn[c].failures]
  /\ UNCHANGED <<rows, tap, ask, relay, pipes>>

-----------------------------------------------------------------------------
(***************************************************************************)
(* The app-server (external).  A request belongs to one turn; it is over   *)
(* when the turn is, and takes the first response it reads.                *)
(***************************************************************************)
Ask(a) ==
  /\ ~ask[a].asked /\ ~ask[a].over
  /\ \E c \in {None} \cup (IF a \in GuestTurns THEN {d \in Connectors : Up(d)} ELSE {}) :
       ask' = [ask EXCEPT ![a].asked = TRUE, ![a].guest = c]
  /\ conn' = [c \in Connectors |->
       IF Up(c) THEN [conn[c] EXCEPT !.asked = @ \cup {a}] ELSE conn[c]]
  /\ UNCHANGED <<rows, tap, relay, pipes>>

EndTurn(a) ==
  /\ ask[a].asked /\ ~ask[a].over
  /\ ask' = [ask EXCEPT ![a].over = TRUE]
  /\ UNCHANGED <<rows, tap, conn, relay, pipes>>

ReadResponse(c) ==
  LET f == Head(toApp[c])
  IN  /\ toApp[c] # <<>>
      /\ toApp' = [toApp EXCEPT ![c] = Tail(@)]
      /\ ask' = IF Open(f.approval) THEN [ask EXCEPT ![f.approval].answer = f.decision] ELSE ask
      /\ UNCHANGED <<rows, tap, conn, relay, toRelay, toConn>>

-----------------------------------------------------------------------------
Callback(u) == Press(u) \/ Resolve(u) \/ ClaimAgain(u)

HandleLine(c) ==
  \/ HandleHello(c) \/ HandleApprovalRequest(c) \/ HandleApprovalRecorded(c)
  \/ HandleApprovalCancel(c) \/ HandleDeliveryRecorded(c)

ClaimOnce(c) ==
  ClaimFails(c) \/ SendReceipt(c) \/ ExpireRelayApprovals(c) \/ SendDecision(c)

Notice(c) == NoticeRequest(c) \/ NoticeTurnCompleted(c)

Receive(c) == ReceiveDecision(c) \/ ReceiveReceipt(c)

Memory(c) == ReceiveRefusal(c) \/ InjectFailures(c)

Next ==
  \/ \E u \in Taps : Callback(u)
  \/ \E r \in Receipts : SettleReceipt(r)
  \/ \E a \in Requests : Deadline(a) \/ Ask(a) \/ EndTurn(a)
  \/ \E c \in Connectors :
       \/ HandleLine(c) \/ ClaimOnce(c) \/ Close(c) \/ Kill(c)
       \/ Connect(c) \/ Crash(c) \/ CloseConnector(c)
       \/ Notice(c) \/ Receive(c) \/ Memory(c) \/ ReadResponse(c)

Spec == Init /\ [][Next]_vars

(***************************************************************************)
(* Fairness: each process works off one FIFO promise chain and its timers  *)
(* keep firing, so a line that was read, a claim that is due or a notice is *)
(* handled in the end.  Deadlines pass.  Nothing is assumed of the owner,   *)
(* of turns, or of crashes, kills and restarts.                            *)
(***************************************************************************)
Fairness ==
  /\ \A a \in Requests : WF_vars(Deadline(a))
  /\ \A c \in Connectors :
       /\ WF_vars(HandleLine(c)) /\ WF_vars(ClaimOnce(c))
       /\ WF_vars(Notice(c)) /\ WF_vars(Receive(c)) /\ WF_vars(ReadResponse(c))

FairSpec == Spec /\ Fairness
=============================================================================
