---------------------------- MODULE MCDirectMode ----------------------------
(* Small conversations of the owner's DM and of a forum topic.  Each comes   *)
(* with the approval requests, the faults and the restarts it may meet: all  *)
(* at once would be too many states for three updates, together the          *)
(* situations fire every action.                                             *)
EXTENDS DirectModeProps

With(kind, chunks, asks, faults, boots) ==
  [kind |-> kind, chunks |-> chunks, asks |-> asks, faults |-> faults, boots |-> boots]

\* A fault or a restart, not both.
Either(kind, asks) == {With(kind, 2, asks, 1, 0), With(kind, 2, asks, 0, 1)}

MCSituations ==
  {With(<<"message", "stop", "tap">>, 2, 1, 0, 0),
   With(<<"message", "absent", "absent">>, 2, 1, 2, 1),
   With(<<"message", "new", "absent">>, 2, 0, 1, 1),
   With(<<"message", "reaction", "absent">>, 1, 0, 1, 1)}
  \cup Either(<<"message", "stop", "absent">>, 0)
  \cup Either(<<"message", "tap", "absent">>, 1)
  \cup Either(<<"message", "wake", "absent">>, 0)
  \cup Either(<<"message", "reaction", "absent">>, 0)

\* A reaction is chained apart from the topic's messages: it may find the thread of
\* a running turn stale, and the bridge may restart after that.
MCDetached == {With(<<"message", "reaction">>, 1, 0, 1, 1)}
=============================================================================
