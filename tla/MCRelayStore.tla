---------------------------- MODULE MCRelayStore ----------------------------
(* A small instance of RelayStore: three jobs of two conversations, the       *)
(* first with an attachment, the second a control message; two connectors of *)
(* two Codex sessions, one of which can take attachments.                    *)
EXTENDS RelayStoreProps, TLC

CONSTANTS c1, c2, t1, t2

MCThreadOf == [c \in Connectors |-> IF c = c1 THEN "thread-1" ELSE "thread-2"]
MCConvOf == [j \in Jobs |-> IF j = 2 THEN "dm" ELSE "group"]
=============================================================================
