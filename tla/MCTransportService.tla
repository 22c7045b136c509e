------------------------- MODULE MCTransportService -------------------------
(* Small instances of TransportService; the updates are numbered in the     *)
(* order in which Telegram delivers them.                                   *)
EXTENDS TransportServiceProps, TLC

\* A message with an answer of several chunks, then a disengage.
KindDelivery == <<"message", "disengage">>
\* An away that a mention may end, then a disengage.
KindService == <<"away", "mention", "disengage">>
\* A second away while the first may still run, and a stop for the relay.
KindControls == <<"away", "stop", "away">>
KindStops == <<"stop", "stop">>
=============================================================================
