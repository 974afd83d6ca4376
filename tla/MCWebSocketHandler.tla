------------------------- MODULE MCWebSocketHandler -------------------------
(* Instances of WebSocketHandler for TLC. *)
EXTENDS WebSocketHandler, TLC

CONSTANTS h1, h2

TwoHelpers == {h1, h2}
AllKinds == {"agent", "human", "number"}

-----------------------------------------------------------------------------
(* What the repository says of itself and the code does not do (README,      *)
(* section 5).  No run checks it; as a property of one it is violated.        *)

\* What websocket_handler.cpp:902 says where a phone transfer closes the agent's
\* connection: "agent_transfer_in_progress is already true, so the close handler
\* won't tear the SIP call down or try to reconnect".
FlagCoversClose ==
  \A h \in Helpers : call = "up" /\ kind[h] = "number" /\ step[h] = "close"
                      => agent_transfer_in_progress
=============================================================================
