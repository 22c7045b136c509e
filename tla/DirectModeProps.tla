-------------------------- MODULE DirectModeProps --------------------------
(* Properties of the bridge that runs turns itself. *)
EXTENDS DirectMode

Holds(u, t) == work[u].turn = t /\ work[u].pc \in {"halting", "waiting", "overdue"}

\* While the bridge is up a recorded turn belongs to a live run, which will clear
\* it: no record is left behind that makes every later turn of the conversation
\* fail as already active (beginActiveTurn, runTurn's finally, boot recovery).
\* Left out: a bridge that died while a turn ran whose thread another run had
\* detached from the row (conv.lost); see OneLiveTurn.
RecordHeld ==
  Up /\ ~conv.lost =>
    (conv.active # <<>> =>
       \E u \in Updates :
         \/ conv.active = <<"starting", u>> /\ work[u].pc = "starting"
         \/ \E t \in Turns : conv.active = <<"turn", t>> /\ Holds(u, t) /\ mem.active = t)

\* The app-server hears "approve" only for a request whose row says so, never for
\* one that expired, whose prompt failed, or that a restart abandoned, and never
\* "deny" for an approved one.  The decision of a row is heard or on its way, unless
\* the bridge or its socket died after the row was committed (handleCallback).
AnswerMatchesRow ==
  \A t \in Turns :
    /\ ask[t].answer = "approve" => ask[t].state = "approved"
    /\ ask[t].answer = "deny" => ask[t].state # "approved"
    /\ ask[t].state = "approved" =>
         ask[t].answer = "approve" \/ ask[t].way \in {"approve", "lost"}
    /\ ask[t].state = "denied" => ask[t].answer = "deny" \/ ask[t].way \in {"deny", "lost"}

\* A later part of an answer is never sent unless the one before it arrived,
\* across retries, drains and a restart (#queueTargetedResponses).
PartsInOrder ==
  \A u \in Updates, k \in 2 .. Chunks :
    out[u].part[k] # "none" => out[u].part[k - 1] = "sent"

\* codex-runner.mjs: after a restart an interrupted turn is settled with "automatic
\* replay disabled"; codex-runner.test.mjs: it "interrupts and clears active turns
\* left by a hard bridge restart".  So no update ever has two live turns.
OneLiveTurn ==
  \A s, t \in Turns :
    s # t /\ turns[s].source = turns[t].source =>
      turns[s].status \in Ended \/ turns[t].status \in Ended

\* It holds whatever is retried, timed out or replayed, unless the bridge died while
\* a turn ran whose thread another run had detached from the row (detachThread).
OneLiveTurnUnlessLost == ~conv.lost => OneLiveTurn

\* An action that was sent, refused for good or of unknown fate is not sent again,
\* by its own run, by the drain or by a run after a restart (markOutboundSending).
SentOnce ==
  [][\A u \in Updates, k \in 0 .. Chunks :
       out[u].part[k] \in {"sent", "failed", "ambiguous"} =>
         out'[u].part[k] = out[u].part[k]]_vars

Unsettled(u) == row[u].status \notin {"unseen"} \cup Settled

\* Every update the bridge took in is completed, failed or expired in the end.
UpdatesSettle ==
  (\E u \in Updates : Unsettled(u)) ~> (\A u \in Updates : ~Unsettled(u))

\* A request the bridge holds is answered or dies with the bridge, even if the
\* owner never taps and the main worker waits for the very turn that asks.
AsksSettle ==
  (\E t \in 1 .. MaxTurns : ask[t].held) ~> (\A t \in 1 .. MaxTurns : ~ask[t].held)
=============================================================================
