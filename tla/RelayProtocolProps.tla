------------------------- MODULE RelayProtocolProps -------------------------
(* Properties of the relay as a whole.                                      *)
EXTENDS RelayProtocol

\* A batch and its turn stay one thing: the rows that name turn t are exactly
\* the jobs t was started with (acceptRelayJobBatch is all or nothing and names
\* the batch in flight, claimRelayJobBatch never hands out a recorded job).
TurnOwnsItsBatch ==
  \A t \in Turns :
    LET rows == {j \in Jobs : job[j].turn = t}
    IN  rows # {} => rows = turns[t].jobs

\* An answer covers the whole batch its turn read: if one job of a turn is
\* completed, all are (finalizeRelayJobBatch).
AnsweredWhole ==
  \A j, k \in Jobs :
    job[j].turn # None /\ job[j].turn = job[k].turn /\ job[j].status = "completed"
      => job[k].status = "completed"

\* A line about a batch never reaches a relay that has another batch, or none,
\* in flight: 'relay frame does not match the inflight batch' is unreachable.
LinesMatchInflight ==
  \A c \in Connectors :
    relay[c].pc = "open" /\ toRelay[c] # <<>> /\ "batch" \in DOMAIN Head(toRelay[c])
      => Matches(c)

\* What the replay rule really guarantees: once the relay has recorded a turn
\* for a job, no further turn is ever started with that job.
NoStartAfterAccept ==
  [][\A t \in Turns : turns[t].status = "unused" =>
       \A j \in turns'[t].jobs : job[j].turn = None]_vars

\* Every call the processes make is one operation of the store.
ImplementsStore == Store!Spec

-----------------------------------------------------------------------------
\* Work no turn has been recorded for never lingers: it is accepted, or ends,
\* whatever relay or connector died holding it (lease reclaim and expiry).
UnacceptedMoves ==
  \A j \in Jobs : job[j].status \in {"pending", "leased"}
                 ~> job[j].status \in Store!Settled \cup {"accepted"}

\* A connector that waits for job_recorded does not wait for ever: the relay
\* answers or its exit ends the connector.
RecordingEnds ==
  \A c \in Connectors : conn[c].pc = "recording" ~> conn[c].pc # "recording"

\* As long as its relay lives, accepted work is settled.
AcceptedSettlesOrRelayDies ==
  \A c \in Connectors, j \in Jobs :
    job[j].status = "accepted" /\ j \in relay[c].batch
      ~> job[j].status \in Store!Settled \/ relay[c].pc = "gone"

\* docs/OPERATING-LESSONS.md: persisting before side effects avoids silent loss,
\* so an accepted job ends one way or the other.
AcceptedSettles ==
  \A j \in Jobs : job[j].status = "accepted" ~> job[j].status \in Store!Settled
=============================================================================
