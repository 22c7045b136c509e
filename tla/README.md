# A TLA+ model of codex-tg-bridge

The bridge carries Telegram messages into a Codex session and the answers back.
This directory models the part where that is hard to get right: the shared SQLite
tables, the processes that use them while any of them may crash, and the
Telegram side with its retries, its away mode and its disengage. Paths below are
relative to the repository (`src/...` is `src/src/...` in `PROJECT.json`).

## 1. The system

| Component | State it keeps | Operations | Talks to |
|---|---|---|---|
| Store, relay part (`state-store.mjs`) | `relay_jobs`, `relay_sessions` | enqueue, expire, claim, accept, release, finalize, fail; register, heartbeat, disconnect, get | transport service, every relay process |
| Store, outbound part | `outbound_actions` | create, claim due, mark sent / ambiguous / failed, supersede, recover | service, relays |
| Store, intake part | `telegram_updates`, poll offset | store, claim, complete, release, fail, recover leases | service |
| Relay process (`relay-stdio`, `RelayProtocolSession`) | batch in flight, inflight interrupt / approval / receipt, connector identity | one handler per line, `claimOnce` on a timer, `close` | store; connector over pipes |
| Local connector (`LocalSessionConnector`) | current job and turn, active turns, promise chain | start, batch intake, turn notices, report, heartbeat, reconcile | relay over pipes; Codex app-server |
| Transport service (`transport-runtime`, `relay-dispatcher`, `poller`) | worker loop, claimed updates | boot, poll, intake, commands, drain, quiesce, exit 78 | Telegram; store |
| Transport control (`transport-control`) | one settings row: away, disengage, interrupts | request, acknowledge, recover, complete interrupt | service **and** relay processes |
| Outbound drain, Telegram client | a claimed batch of calls | claim, call, mark, acknowledgement hook | Telegram; store |
| Relay approvals, delivery receipts | `relay_approvals`, `relay_delivery_receipts` | request, resolve by button, expire, rebind, cancel, deliver | service, relay, connector |
| Offline notices | `relay_offline_notices` | claim one per chat and offline epoch | service |
| Supervisor, launcher | child process, backoff, status file | spawn, restart, disengage wait, engage signal | connector |
| Direct mode (`dispatcher`, `codex-runner`, `approval-router`, wakes, control socket) | conversations, active turns, approvals, wakes | the older deployment with app-server beside the bot | store; app-server |
| Attachments | files, transfer buffers | store, chunk, verify, remove | relay, connector |
| Message rules | none | normalise, admit, trust, format, split | pure functions |

What makes it hard, and what correct means:

* *Relay jobs.* Several processes claim, accept and settle the same rows; leases and
  deadlines pass meanwhile; a batch is many rows and an answer is one transaction.
  A job must be run by at most one recorded turn, answered once and only by that
  turn, never rewritten after it ended, and read in the order of its conversation.
* *Relay and connector.* Either may die between any two steps, lines may be lost with
  them, a turn exists before anyone recorded it, `turn/start` may time out. A batch and its
  turn must stay one thing, no line may hit the wrong batch, unaccepted work must move on.
* *Outbound.* A call's outcome may be unknown. Nothing may be sent twice, and the chunks of an
  answer must arrive in order.
* *Control.* Commands take effect when their reply is confirmed, across restarts, and the
  row is shared with another process. Disengage must neither start without its farewell nor
  hang nor leave work behind.
* *Approvals and receipts.* A decision travels app-server, connector, relay, owner and back,
  over connectors that come and go. The owner decides once; the app-server must not hear an approval
  that nobody gave; a decision and a failed delivery must arrive.
* *Direct mode.* Two workers share one conversation with the app-server, which asks for approvals while
  its turn runs. The recorded turn must be a live one, a request must end although the worker waits for the turn that
  asks, and a retried update must not send its answer twice or run beside itself.

`PROJECT.json` lists every component (with its status) and every hazard at its line.

## 2. Modules

| Module | What it is |
|---|---|
| `JobLifecycle` | abstract promise about a job: queued once, run by one turn or dropped, answered by that turn, final |
| `RelayStore` | the two relay tables, one action per `StateStore` operation |
| `RelayStoreProps`, `MCRelayStore` | its properties, the refinement of `JobLifecycle`; its instance |
| `RelayStoreProofs`, `LifecycleProofs` | the invariants of the store, `ConversationOrder` and the refinement, proved |
| `RelayProtocol` | relay processes, connectors, pipes and the app-server's turns around `RelayStore` |
| `RelayProtocolProps`, `MCRelayProtocol` | its properties, the refinement of `RelayStore`; its instances |
| `RelayProtocolProofs` | its safety properties and the refinement, proved |
| `ApprovalLifecycle` | abstract promise about a permission request: one prompt, one decision, one answer that agrees with it |
| `RelayApprovals` | approvals and receipts across dispatcher, relays, connectors, pipes and app-server |
| `RelayApprovalsProps`, `MCRelayApprovals` | its properties, the refinement of `ApprovalLifecycle`; its instances |
| `RelayApprovalsProofs` | its type invariant, `OneDecision`, `FailuresKnown` and the refinement, proved |
| `OutboundStore`, `OutboundStoreProofs` | the outbound table as an abstract specification of delivery, and its order theorem |
| `TransportService` | the service process, its control row and a relay's interrupts, over `OutboundStore` and `JobLifecycle` |
| `TransportServiceProps`, `MCTransportService` | its properties, the refinement of `OutboundStore`; its instances |
| `TransportServiceProofs` | its safety properties and the refinement, proved |
| `DirectMode` | the direct mode: both workers, the runner, the approval router, the app-server, restart and recovery |
| `DirectModeProps`, `MCDirectMode` | its properties; its instance |
| `DirectModeProofs` | its types, `AnswerMatchesRow`, `PartsInOrder` and `SentOnce`, proved |
| `DirectTurnsProofs` | `RecordHeld` and `OneLiveTurn`, proved |

The layers meet by refinement. `RelayProtocol` uses `RelayStore`'s actions and
implements its specification; `RelayStore` implements `JobLifecycle`; `RelayApprovals`
implements `ApprovalLifecycle`; `TransportService` uses `JobLifecycle` for the relays it does not look
into, and implements `OutboundStore`. `RelayApprovals` has the processes of `RelayProtocol` with
other lines on their pipes: batches and approvals meet only in `claimOnce`, where a pending receipt or decision goes before a batch,
and in a session that ends for both. `DirectMode` stands by itself: it is another deployment.

### How state and actions correspond to the code

*RelayStore.* `job[j]` is a row of `relay_jobs`, `session` the `relay_sessions` row of the
configured label, `answers` the final outbound actions. An action is one SQLite transaction.
`ClaimRelayJobBatch` is the whole of `claimRelayJobBatch`: expiry, lease reclaim, attachment
gate, control first, coalescing, the longest prefix that fits, the lease. Two abstractions:
deadlines are kept as the time left and counted down by `Tick` (`expires_at <= now` is `ttl = 0`),
and a job is a number whose order is the code's `(created_at_ms, job_id)`. The frame limit is
`BatchLimit` jobs, plus a set `Oversized` of jobs too big alone. Columns of settled rows no query reads
are normalised.

*RelayProtocol.* `relay[c]` is the relay process that serves connector `c`, `conn[c]` the connector
process, `toRelay[c]` and `toConn[c]` the pipes, `turns` the app-server's thread
(external: at most one active turn, survives connectors). A relay has a program counter because
`claimOnce` awaits: it checks ownership in one step and claims in another, it has a leased batch before it
knows it as its batch in flight, and `close` is two transactions. A connector has one because `turn/start` blocks its
promise chain. `HandlerThrows` is every `throw` of a handler: no further line, then `close`.
`ClaimFails` is a throw inside the timer: lines already read are still handled first. `Stop(c)`
is a crash of the connector, with any suffix of its unread lines lost; `Kill(c)` ends a relay without
`close` (SIGTERM without a handler, SIGKILL, power). A batch is named by its first and last job
(`batchIdFor`), as on the wire.

*RelayApprovals.* `approval[a]` is a row of `relay_approvals`, `receipt[r]` one of `relay_delivery_receipts`
with the state of its outbound actions, `ask[a]` the request at the app-server, `tap[u]` a callback update at the dispatcher;
`toApp[c]` is what connector `c` wrote to the app-server. The relay's `#inflightApprovalId` and `#inflightReceiptId`
are `relay[c].approval` and `.receipt`; a line that does not match them, a rebind that finds nothing or an acknowledgement
that cannot be recorded ends the session (`Throw`), as in the code. A relay may run behind ssh, so it outlives
its connector until it reads the end of its input. A tap is handled in two steps, `Resolve` and the update's completion, so a crash
of the service handles it again (`ClaimAgain`). History: `verdict` (what was decided, kept
through a later cancel), `won` (this tap decided), `injected` (failures put into a turn). A deadline is a Boolean, `due`. A receipt's number is its age:
`Window` stands for the 64 oldest that `nextRelayDeliveryReceipt` looks at, `MaxFailures` for the 32 failures a connector remembers, which a
refused result (`ReceiveRefusal`) takes room from too; `newer` keeps the order of that list.

*OutboundStore.* `action[a]` is a row; `next_attempt_at_ms` is kept as never, now or later.

*TransportService.* `svc` is the worker loop with its program counter; `control` the settings row;
`update` the `telegram_updates` rows; `delivered` counts what Telegram really carried out. A
control transition is a read (`Stage`) and a write (`WriteControl`), since the relay process does
the same on the same row (`ReadInterrupts`, `WriteInterrupts`). A Bot API call has four outcomes: done,
rate limited, transport error (unknown, marked ambiguous), API error (including a response that is not JSON,
after which the call may have been carried out). `Crash` is possible between any two steps,
`Boot` runs recovery. Time is nondeterministic: an update lease or a retry may be found expired whenever it is looked at. An away
timer (`untilMs`) is named by the reply whose arrival set it, `TimerRunsOut` ends it at any moment after that (`elapsed`), and
`until` in the row is the timer of an active away or the snapshot (`previous`) of a pending one. The worker counts what keeps it busy in two steps
(`CountActions`, `CountJobs`).

*DirectMode.* `row[u]` is the row of an update or wake, `work[u]` the asynchronous function that handles it, with
a program counter that stops at every await of the code; `batch` what the main worker, the control
worker and the drain hold; `conv` the conversation row with its active turn; `mem` the runner's maps; `turns` the
app-server's turns with the shared `interruptPromise`; `ask` and `out` the approvals and outbound actions. A decision is committed
in one step and read by the app-server in another (`way`, `ReadResponse`); in between the socket may be closed (`Respond` throws, and the tap is tried again) or the
bridge killed, and then the answer is lost. `conv.torn` and `conv.lost` are history: the runs whose thread another run detached from the row, and whether
the bridge died while such a run was on a turn the row did not show. `Crash` loses
`work`, `batch`, `mem` and the answers under way; `Boot` and `RecoverInterruptedTurns` are the start sequence. Abstractions, all deliberate:
one conversation (several share only the turn semaphore, whose limit of two is never reached by one chain);
one approval request per turn; an answer is one targeted response of `Chunks` parts, with the context-break notice
as part 0; `hasEquivalentSentResponse` is a branch of `NothingToSend`; a lease lapses only for a dead process (leases are
taken back by the main worker between its batches, and a control handler is done within its 120 s);
`interrupt()` by a recorded id without a live run is unreachable, which `RecordHeld` shows.

## 3. What is checked

Passing runs:

| Run | Instance | Shows |
|---|---|---|
| `store` | 3 jobs (one control, one with attachment, two chats), 2 connectors of different sessions, 2 turns, coalescing windows 1 and 2, leases 1, deadline 2 | types; rows and answers agree (`RowInv`); replies neither lost nor doubled (`RepliesKeptOnce`); conversations in order (`ConversationOrder`); `ImplementsLifecycle` |
| `crash` | 2 jobs (one with attachment), 2 connectors in succession, 2 turns, one from the TUI, kills, no clock | `TurnOwnsItsBatch`, `AnsweredWhole`, `LinesMatchInflight`, `NoStartAfterAccept` |
| `recovery` | 2 jobs (one oversized, one with attachment), 1 connector, clock, kills, fairness | types, `ImplementsStore`, `UnacceptedMoves`, `RecordingEnds`, `AcceptedSettlesOrRelayDies` |
| `service` | an away, a mention with a two-chunk answer, a disengage; 2 boots, one attempt per update, claims of two actions | types, `DeliveredOnce`, `ChunksInOrder`, `FarewellFirst`, `ImplementsOutbound` |
| `controls` | two aways and a stop, a relay that completes interrupts, fairness | `AwayTimerKept`, `AwaySettles` |
| `approvals` | the scenes of `MCRelayApprovals` over 1 request that a guest's turn may raise, 2 taps, 3 receipts, a refused result, 2 connectors, pipes of 1 line; window and memory of 2, fairness | types, `OneDecision`, `FailuresKnown`, `ImplementsApprovals`, `RequestsReturn`, `ReceiptsArrive` |
| `direct` | the situations of `MCDirectMode`, answers of 1 or 2 parts, 2 attempts, room for 6 turns, fairness | types, `RecordHeld`, `AnswerMatchesRow`, `PartsInOrder`, `OneLiveTurnUnlessLost`, `SentOnce`, `UpdatesSettle`, `AsksSettle` |

Runs that find a disagreement between the code and what it says (`findings` in `PROJECT.json` quotes both sides):

| Run | Violates | What happens |
|---|---|---|
| `killed_relay` | `AcceptedSettles` | an accepted job whose relay is killed stays accepted for ever |
| `disengage` | `DisengageCompletes` | the chunks behind a failed chunk keep an active disengage from ever being ready |
| `exit` | `ExitsDrained` | the service exits while a turn is still running an accepted job |
| `detached` | `OneLiveTurn` | a reaction detaches the thread under a message's turn, the bridge is killed, and after its restart the message runs a second turn beside the first |
| `stop` | `StopRecorded` | a stop that was answered is overwritten by a relay completing an earlier one |

Every property of a passing run has a mutant: a plausible slip in a modelled definition under which TLC
finds the property violated.

### What the properties leave out, and why

Modelling met more behaviour than the five findings; each is excluded from a property by a stated
condition, or is a hazard in `PROJECT.json`, and a reader should know of it:

* A fenced relay's `close` (`relay-protocol.mjs:788`) fails the rows its successor's turn owns. No property says that only
  the relay that recorded a turn settles it.
* A decision acknowledged after its approval was cancelled ends a healthy session
  (`relay-protocol.mjs:752`); so does the end of a connector, whose `close` cancels its approvals for good, although a
  request is meant to "return to the same app-server request". `RequestsReturn` therefore ends with the
  cancel or the connection.
* A stale acknowledgement of an earlier relay may mark a rebound row as delivered (`state-store.mjs:1320`):
  `RequestsReturn` starts from rows not marked delivered.
* A connector keeps failed receipts in memory until its next turn: what it was told dies with it. `FailuresKnown` is
  about having been told.
* `AwaySettles` leaves out a command that ran again after its reply had been sent, and a row that a relay is about to write.
  Only the next restart settles those.
* In the direct mode a response without a valid target makes an accepted turn's update run again, and a reaction that finds its thread
  stale detaches another run's recorded turn. The run `detached` is about the case in which that goes wrong: the bridge dies while a run is on a turn whose
  thread was detached and that the row does not show (`conv.lost`), so that recovery (`listActiveConversations`) passes it over. `OneLiveTurn` is then violated, and in a longer
  behaviour `RecordHeld`: a run that resumed the thread before it was detached records its turn in a conversation
  without one, and the placeholder stays. `RecordHeld` and `OneLiveTurnUnlessLost` state the rest: everything up to such a death, reactions,
  stale threads and restarts included.
* A decision that was committed but whose answer was lost with the bridge or its socket is not given again: the turn that asked ends with the
  bridge, or waits until it is interrupted. `AnswerMatchesRow` excepts exactly those (`way = "lost"`).
* A connector forgets the oldest of more than 32 failures although they were acknowledged: `FailuresKnown` says so (`newer`). And
  64 older receipts that still wait for their actions hold back a settled one: `ReceiptsArrive` is about the others.
* `AwayTimerKept` ends when a relay has taken a stop, because the relay writes the row from a copy of its own (run `stop`).
* A relay whose `outboundActions` throws anything but a contract error (an unknown dice emoji, `telegram-dice.mjs:7`) ends its session,
  and `close` fails the batch. `HandleResult` has that step beside the contract error.

### Bounds

* Two jobs are enough for a batch with a first and a last job, a partly settled batch and a
  quarantine that releases a rest; three in `store` so that a batch's ends leave a job between them and a
  chat has two messages around a control.
* Connectors and turns are used up: each connector process has a fresh identity, so two give one replacement.
  Two turns give a job a second chance. When they are used up nothing moves, which is why those runs say
  `CHECK_DEADLOCK FALSE`. The service really stops (exit 78), and a chat without further updates, taps or requests is quiet,
  so those runs say so too; `store` checks deadlock.
* `service` has no stop, so the relay's rewrite of the control row is not in it; `ServiceInv` is proved with it (section 4).
* `MaxBacklog` lines ahead of the relay, `MaxLocalTurns` turns from the TUI, `MaxBoots` starts of the
  service, `MaxAttempts` per update (5 in the code) and `ClaimLimit` per claim (16 in the code) are
  small so that the limits are met; `MaxTurns` is met by no behaviour of `direct`, where at most five turns run, so that liveness does not hang on it. `ClockRuns` and `MayKill` switch the clock and kills off where a run
  is about something else. The bounds of `DirectMode` on the length of an answer, requests, faults and restarts are part of a situation, since all of them at once
  are too many states; together the situations fire every action, and a message meets a reaction, a `/new` or a second attempt with both a fault and a restart.
* One request in `approvals`: requests meet only in the relay's one place in flight. A behaviour is about one scene: two taps that race, a decision
  (redelivered when its connector is replaced) with one tap that may be handled twice, three receipts and a refused result for a window and a memory of two,
  a request and a receipt that want the same relay, a receipt whose connector is replaced. Both ways back of a request, the owner's tap and the deadline, are in three of them.
  The theorems about approvals have no such bound.
* `SYMMETRY` is used for connectors, turns and taps in runs of safety properties only, where the constants are
  interchangeable.

### Fairness

*Relay and connector.* Both run everything off one promise chain, which is FIFO: a line read, a timer tick or
a due exit cannot be overtaken for ever, but other work on the chain disables it now and then; hence SF for lines,
the claim timer and `close`, WF for steps inside one task. Timers fire, so `Tick` and the service's
`ExpireJobs` are weakly fair. A connector whose relay is gone sees its output close and exits.
`turn/start` is answered or times out after 30 s. Of the app-server it is assumed that a turn ends. Nothing is
assumed of crashes, kills, restarts, heartbeats or users.

*Approvals and receipts.* The same chains and timers: a line that was read, a claim that is due, a notice of the app-server and
a response on its way are handled in the end (WF), and deadlines pass. Nothing is assumed of the owner, of turns, of the drain that
settles receipts, or of crashes: a request is answered by its deadline if by nobody else.

*Service.* The worker loop is weakly fair while the process lives, retries come due, a job that is queued or running
ends. Telegram does not rate-limit one call for ever (SF on an answered `Send`); without that a command's
reply could be retried for ever, and pending with it.

*Direct mode.* The bridge's own steps and the clock are fair, and a request to the app-server or to Telegram is answered
or times out. Nothing is assumed of how long a turn runs (`WaitTimesOut` ends it), of the owner, or of
what arrives. A bridge that is down is started again, as systemd does.

## 4. What is proved

`tlapm` checks these for all values of the constants, subject to the named assumptions of the modules, which are
as weak as the code makes them: natural lengths, non-zero leases and limits, NULL is no identity, update ids are positive, requests are finitely many,
updates have a kind. Every inductive invariant below was first checked by TLC on the instances of section 3.

*The store* (`RelayStoreProofs`, `LifecycleProofs`).

* `TypeCorrect`: `Spec => []TypeOK` of `RelayStore`, by one lemma per row update and per variable.
* `StoreInvariant`, with `RowsConsistent` and `RepliesOnce` as consequences. The inductive invariant is
  `StoreInv`: types, the agreement of the columns of each row (`RowsOK`), recorded answers earned
  (`AnswersEarned`), every answer named by the ends of its own jobs (`AnswersNamed`), and `RepliesKeptOnce`.
  `RepliesKeptOnce` alone is not inductive: that an `INSERT OR IGNORE` never drops an
  answer needs that an existing answer with the same batch id would share its first job, which is completed,
  while the batch being finalized is all accepted. That is `FinalizeFacts`; `QuietStep` covers every
  statement that completes nothing.
* `ConversationsInOrder`: a claim that leases a message leases every earlier ready message of its conversation. The candidates keep
  whole conversations (`ConversationIsCandidate`), the prefix that fits is closed downwards (`FitsEarlier`), and no other call starts
  a lease (`OnlyClaimLeases`).
* `RefinesLifecycle`: `Spec => ImplementsLifecycle`. One lemma per operation says which abstract step it is
  (`EnqueueSubmits`, `ClaimExpires`, `AcceptRuns`, ...); a claim is an expiry, since it also expires what is overdue.

*Relays and connectors* (`RelayProtocolProofs`), for any number of jobs, connectors and turns, any pipe length, and
all crashes, kills, fenced relays and lapsed leases.

* `ProtocolImplementsStore`: every step of a process is one operation of the store or leaves the tables alone
  (`StoreStep`, one lemma per process), so the theorems above hold of the whole relay. The lemmas of `RelayStoreProofs` are
  used through an `INSTANCE` (`Table`).
* `ProtocolTypes`, `BatchIsOneTurn`, `AnswersAreWhole`, `LinesMatch`, `NoTurnAfterAcceptance` from `ProtocolInvariant`. None of
  the four is inductive, because what makes a step right was decided some lines earlier by another process. The
  invariant says for each pair of a relay and its connector how far their batch is (`Link`, in
  phases): the relay's memory, the lines on both pipes and the connector's batch name the same jobs until it is over. Around it: a running
  connector works on the turn started with its batch (`RunsItsBatch`) and every line that names a turn names one of its
  connector's, with its jobs (`NamesItsTurns`); an accepting line is about a turn no row names yet (`NotRecordedYet`); one connector is
  alive at a time (`OneAlive`); a job leased to a relay that may still accept it is with no other living connector
  (`NotStolen`); a job a turn may yet be started with has no recorded turn (`Unrecorded`). `NotStolen` is what carries the
  proof over a lapsed lease, where a successor claims the rows that a fenced relay still remembers.

*Approvals and receipts* (`RelayApprovalsProofs`).

* `ApprovalTypes`, `OneDecisionHolds` and `ApprovalsImplementLifecycle`. The inductive invariant
  is `ApprovalInv`: a row that left "pending" has the verdict it left with (`RowsAgree`), the winning tap of a request is unique and
  agrees with the verdict (`TapsAgree`), every decision on a pipe, towards a connector or towards the app-server, agrees with the verdict
  or refuses a guest (`WiresAgree`), and so does every answer given (`AnswersAgree`). `OneDecision` alone is not inductive: what
  the app-server hears was decided several processes earlier, and may come from a connector that has been replaced since. The wires
  carry the agreement from the row to the answer (`WiresStay`, `AnswersStay`), and verdicts are never rewritten
  (`RowsKept`), so late lines stay right. `InvStep` has one case per action; `LifecycleStep` names the abstract step of each.
* `FailuresAreKnown`, from `ReceiptInv`, for any size of the window and of the connector's memory: a frame on its way to a connector tells the truth about a message that has settled
  (`TrueFrames`), and whoever acknowledges a failure has read such a frame (`HonestLines`), also when the acknowledgement is handled after
  the connector died. A failure that was read is known as long as fewer than `MaxFailures` newer ones came behind it (`Known`). That only such a one
  is pushed out needs that no two entries have the same age (`InOrder`): then the oldest of a full memory has `MaxFailures - 1` others behind it, by counting.

*Outbound actions and the transport service* (`OutboundStoreProofs`, `TransportServiceProofs`), for any updates, answers of any
length and any number of restarts.

* `SendsInOrder` of `OutboundStore`: a chunk being sent, sent or possibly sent has only sent chunks before it.
  The strengthening is `GroupsWhole` (the chunks of a group are created together): without it a chunk
  could be created behind one already sent.
* `ServiceImplementsOutbound`: the service and the relays use the table as that specification allows.
* `ServiceTypes`, `CallsAreMadeOnce`, `ChunksArriveInOrder`, `FarewellIsFirst`, `AwayIsConfirmed`, `TimersAreKept`, `NoQueueLeft`, from `ServiceInv`:
  * `AttemptsCounted`: an update exceeds `MaxAttempts` only by attempts that a crash interrupted, and each start
    pays for one. This bounds the type of an attempt, and is why `FailUpdate` may compare with `>=`.
  * `CallsOnce`: what Telegram may have seen of an action (`delivered`), against the row and against what the drain still holds.
    The loop's own memory belongs to it: the action being marked is not sent again, and its row still says "sending".
  * `CopiesTruthful`: `FarewellFirst` and `AwayIsConfirmed` (every timer in the row was set by a reply that arrived) speak of the control row, but what is written there was read some steps
    before. So the invariant says of three rows, the stored one and the copies that the service and a relay are about to write, that they claim
    no more than Telegram has confirmed (`Truthful`); what was confirmed stays so (`SentRemains`), so that a copy cannot become untrue by
    waiting.
  * `StagedAway`: what the service is about to write is an `AwayStep` of the row as it is now, and no other process writes before it unless a
    relay has taken a stop. The reply it was computed from cannot change its fate, and a timer that ran out stays so. `TimersAreKept` follows.
  * `QuietExit`: the loop is on its way to its exit only if nothing was queued when it looked, and only the loop itself fills
    the queue. `NoQueueLeft` (no job is queued once the service has exited) follows; it is not among the properties of a run, since it says little more than that.

*The direct mode* (`DirectModeProofs`), for any updates, answers of any length and any number of turns, faults and restarts.

* `DirectTypes`, `AnswersMatchRows`, `PartsAreInOrder` and `PartsAreSentOnce`, from `DirectInv`:
  * `Places`: a run is under way exactly for what a worker's batch holds, its row is being processed, and a process that is down
    holds nothing. It rests on `HandlerMoves`: whatever a handler does, its update stays in its batch with its row or leaves it.
  * `Links`: the turn a run names, the turn of the conversation's record and the turn in memory exist and are of the update they
    are named for. Turns only grow and one that ended stays as it ended (`TurnsGrow`).
  * `AsksOK`: a request that is held is open, unanswered and without an answer on its way, and what the app-server heard or will hear is what the row
    says; the decision of a row is heard, on its way or lost. That a dead process
    holds none (`AsksDown`) makes boot's expiry of the open rows right.
  * `PartsOK`: a part under way has one sender, its run or the drain, and a run about to send a part has seen the one before it
    arrive. `PartsInOrder` and `SentOnce` alone are not inductive: the run reads the row of a part in one step and writes its fate in
    another, while the drain claims and sends parts of the same update.

*Turns of the direct mode* (`DirectTurnsProofs`), for any situations: reactions that detach a thread under a running turn, faults and restarts, in any number and
any combination.

* `TurnsAreRecorded` (`RecordHeld`) and `OneTurnLives` (`OneLiveTurnUnlessLost`), from `TurnsInv`:
  * `RunnerShape`: every step of a run opens, detaches, begins, starts, keeps, drops or ends a turn, or is not about one; the steps of
    twenty-odd actions are reduced to nine shapes by what they do to the conversation's row and the runner's memory.
  * `Kept`: a run that no other run has detached (`torn`) is known to the row, with the turn it is about, and the row has a thread. `KeptStep` shows it
    for each shape; that a detach marks everyone else on the thread is what makes it inductive.
  * `CrashListed`, `DownListed`: so when the bridge dies and nothing is `lost`, recovery finds every turn a run was about; a record of a bridge that is down
    has a thread and will be cleared.
  * `RecordHeld` is inductive given that: `HeldStep` follows the holder of the record through each shape.
  * `LiveHeld`: the live turn of an update that is not settled is known, to the update's run, or to the row after a crash. Recovery then
    settles the update whose turn it finds (`RowsSettle`: for good), and a new turn of an update is only accepted when its run
    knows of none (`OneLiveStep`). `OneLiveTurnUnlessLost` alone says nothing of who may still start a turn.

Only model-checked: all liveness. TLAPS reaches neither liveness under fairness nor
`ENABLED`.

## 5. Not modelled

* Progress messages (best-effort actions, superseded by the final result), typing, callback answers, reactions:
  they share the outbound rows of the model but not its promises.
* Offline notices: one row per chat and epoch that no other component reads.
* Attachment files and their chunked transfer: bytes, hashes and a directory. What the protocol sees of them (quarantine,
  capability, release of the rest) is in `RelayStore` and `RelayProtocol`.
* Connector supervisor, launcher and `engage-local`: they start one connector at a time, each with a fresh identity, which is what
  `RelayProtocol` and `RelayApprovals` assume.
* Of the direct mode: updates the policy rejects or only stores, the graceful close when the app-server disconnects
  (modelled as a crash; a response on a socket that has just closed is in `Tap`), outbound actions created by external tools over the control socket, the sockets themselves.
* The policy that ignores an update, `away_invalid` (a reply without a transition), `/continue` and interrupt
  targets: they take the paths of what is modelled. Several session labels: rows of different labels never meet.
* Configuration, redaction, deployment: no protocol state.

## 6. Plan

In order of importance; the first seven are done.

1. `JobLifecycle`, the abstract promise.
2. `RelayStore` with `RelayStoreProofs`, `LifecycleProofs`.
3. `RelayProtocol`: processes, crashes, clock, liveness.
4. `OutboundStore` with its proof, and `TransportService`.
5. `ApprovalLifecycle`, `RelayApprovals` with `RelayApprovalsProofs`.
6. `DirectMode`.
7. Proofs of the safety properties of `RelayProtocol`, `RelayApprovals`, `TransportService` and `DirectMode`, and of the refinements.
8. `UpdateIntake`: offline notices per epoch, and what starts while away.
9. `ConnectorSupervisor`: one connector at a time, disengage wait, engage signal, backoff.
10. Pure operators: chunk splitting, chunked attachment transfer, frame accounting, checked against definitions.

Runs stay few: a module that arrives shares a run with one that asks the same question.
