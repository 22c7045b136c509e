-------------------------- MODULE MCRelayApprovals --------------------------
(* Small instances of RelayApprovals: one request with the owner's taps and  *)
(* receipts in number.  All of it at once is too many states, so a behaviour *)
(* is about one of the scenes.                                               *)
EXTENDS RelayApprovalsProps

CONSTANTS a1, b1, c1, c2, u1, u2

MCScenes ==
  {{a1, u1, u2, c1},    \* two taps race
   {a1, u1, c1, c2},    \* a decision on its way while the connector is replaced
   {1, 2, 3, b1, c1},   \* more receipts than the window, more failures than the memory
   {a1, 1, c1},         \* a request and a receipt want the same relay
   {1, c1, c2}}         \* a receipt that was received but not acknowledged
=============================================================================
