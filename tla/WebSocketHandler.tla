-------------------------- MODULE WebSocketHandler --------------------------
(***************************************************************************)
(* WebSocketAudioHandler: the WebSocket between one answered call and its  *)
(* AI agent.  ws_thread runs one connection and its handlers.  Detached    *)
(* helper threads reconnect after a drop, or move the call to another      *)
(* agent or to a human; each joins ws_thread and starts a new one.  When   *)
(* the SIP leg is over, the cleanup thread of the media port disconnects,  *)
(* waits and deletes the handler.                                          *)
(*                                                                         *)
(* Init is the state after initializeWebSocket succeeded.  websocketpp is  *)
(* external: a connection attempt ends, with the open handler or without   *)
(* any; an open connection ends with the close handler; then run()         *)
(* returns.  Joining or replacing a std::thread another thread is joining  *)
(* or has started has no defined outcome: that is a fault.                 *)
(***************************************************************************)
EXTENDS Integers

CONSTANTS
  Helpers,                 \* slots for helper threads alive at the same time
  MAX_RECONNECT_ATTEMPTS,
  TransferKinds,           \* transfers the AI asks for: "agent", "human", "number"
  MaxTransfers             \* bound: transfer events of a call

Kinds == {"agent", "human", "number"}

ASSUME WSAssumption ==
  /\ MAX_RECONNECT_ATTEMPTS \in Nat
  /\ TransferKinds \subseteq Kinds
  /\ MaxTransfers \in Nat

VARIABLES
  ws,                 \* ws_thread: "none" unless joinable, and what it does
  connected,
  intentional_close,
  hangup_received,
  agent_transfer_in_progress,
  reconnect_attempts,
  rupture2,           \* does ws_uri contain "rupture2"?
  kind, step,         \* kind[h], step[h]: what helper h does, and where it is
  uri,                \* uri[h]: rupture2 of the ws_uri reconnect thread h read
  call,               \* the SIP leg
  cleanup,            \* the media port's cleanup thread
  transfers,          \* history: transfer events received
  fault               \* the first step with no defined outcome, or "none"

flags == <<intentional_close, hangup_received, rupture2>>
helpers == <<kind, step, uri>>
vars == <<ws, connected, flags, agent_transfer_in_progress, reconnect_attempts,
          helpers, call, cleanup, transfers, fault>>

TypeOK ==
  /\ ws \in {"none", "opening", "open", "closing", "checked", "over"}
  /\ {connected, intentional_close, hangup_received, agent_transfer_in_progress, rupture2}
        \subseteq BOOLEAN
  /\ reconnect_attempts \in Nat
  /\ kind \in [Helpers -> Kinds \cup {"none", "reconnect"}]
  /\ step \in [Helpers -> {"idle", "close", "pause", "join", "joining", "start", "poll",
                           "opened", "failed", "retry", "refer"}]
  /\ uri \in [Helpers -> BOOLEAN]
  /\ call \in {"up", "over"}
  /\ cleanup \in {"none", "joining", "settling", "rejoining", "deleted"}
  /\ transfers \in 0..MaxTransfers
  /\ fault \in {"none", "double_join", "thread_replaced", "use_after_free"}

Init ==
  /\ ws = "open" /\ connected = TRUE
  /\ intentional_close = FALSE /\ hangup_received = FALSE
  /\ agent_transfer_in_progress = FALSE
  /\ reconnect_attempts = 0
  /\ rupture2 \in BOOLEAN
  /\ kind = [h \in Helpers |-> "none"]
  /\ step = [h \in Helpers |-> "idle"]
  /\ uri = [h \in Helpers |-> FALSE]
  /\ call = "up" /\ cleanup = "none"
  /\ transfers = 0 /\ fault = "none"

Alive == {h \in Helpers : step[h] # "idle"}

Spawn(k, s) ==
  \E h \in Helpers \ Alive : /\ kind' = [kind EXCEPT ![h] = k]
                             /\ step' = [step EXCEPT ![h] = s]
                             /\ uri' = [uri EXCEPT ![h] = k = "reconnect" /\ rupture2]

Goto(h, s) == step' = [step EXCEPT ![h] = s] /\ UNCHANGED <<kind, uri>>

Ends(h) == /\ kind' = [kind EXCEPT ![h] = "none"]
           /\ step' = [step EXCEPT ![h] = "idle"]
           /\ uri' = [uri EXCEPT ![h] = FALSE]

\* onWebSocketDisconnected hangs up the SIP leg; its DISCONNECTED callback
\* starts the cleanup thread.
disconnect_callback == call' = "over"

\* A plausible bug: the flag is cleared and the connection left open.
CloseForgetting == connected' = FALSE /\ UNCHANGED ws

\* ws_client.close(), when connected.
Close ==
  /\ ws' = IF connected /\ ws = "open" THEN "closing" ELSE ws
  /\ connected' = FALSE

-----------------------------------------------------------------------------
(* The connection *)

\* set_open_handler
Opens ==
  /\ ws = "opening"
  /\ ws' = "open" /\ connected' = TRUE
  /\ UNCHANGED <<flags, agent_transfer_in_progress, reconnect_attempts, helpers,
                 call, cleanup, transfers, fault>>

\* There is no fail handler.
FailsToOpen ==
  /\ ws = "opening"
  /\ ws' = "over"
  /\ UNCHANGED <<connected, flags, agent_transfer_in_progress, reconnect_attempts, helpers,
                 call, cleanup, transfers, fault>>

\* The server or the network ends the connection.
Drops ==
  /\ ws = "open"
  /\ ws' = "closing"
  /\ UNCHANGED <<connected, flags, agent_transfer_in_progress, reconnect_attempts, helpers,
                 call, cleanup, transfers, fault>>

\* sendAudioFrame on a closing connection.
sendAudioFrame ==
  /\ connected /\ ws = "closing"
  /\ connected' = FALSE
  /\ UNCHANGED <<ws, flags, agent_transfer_in_progress, reconnect_attempts, helpers,
                 call, cleanup, transfers, fault>>

MayReconnect == reconnect_attempts < MAX_RECONNECT_ATTEMPTS

\* A plausible bug: a drop without budget is only logged.
CloseHandlerGivingUp ==
  /\ ws = "closing"
  /\ connected' = FALSE
  /\ ws' = IF ~rupture2 /\ MayReconnect THEN "checked" ELSE "over"
  /\ UNCHANGED <<flags, agent_transfer_in_progress, reconnect_attempts, helpers, call,
                 cleanup, transfers, fault>>

\* set_close_handler: ignored during a transfer; a wanted close, or a drop
\* with no budget left, ends the call; other drops lead to a reconnect.
CloseHandler ==
  /\ ws = "closing"
  /\ connected' = FALSE
  /\ \/ /\ agent_transfer_in_progress
        /\ ws' = "over" /\ UNCHANGED <<call, hangup_received>>
     \/ /\ ~agent_transfer_in_progress /\ (hangup_received \/ intentional_close)
        /\ disconnect_callback
        /\ hangup_received' = FALSE
        /\ ws' = "over"
     \/ /\ ~agent_transfer_in_progress /\ ~hangup_received /\ ~intentional_close
        /\ \/ ~rupture2 /\ MayReconnect /\ ws' = "checked" /\ UNCHANGED call
           \/ (rupture2 \/ ~MayReconnect) /\ ws' = "over" /\ disconnect_callback
        /\ UNCHANGED hangup_received
  /\ UNCHANGED <<intentional_close, rupture2, agent_transfer_in_progress, reconnect_attempts,
                 helpers, cleanup, transfers, fault>>

\* The rest of the close handler: the budget is taken after it was checked.
CloseReconnects ==
  /\ ws = "checked"
  /\ reconnect_attempts' = reconnect_attempts + 1
  /\ Spawn("reconnect", "pause")
  /\ ws' = "over"
  /\ UNCHANGED <<connected, flags, agent_transfer_in_progress, call, cleanup, transfers, fault>>

-----------------------------------------------------------------------------
(* Events the AI sends *)

HangupEvent ==
  /\ ws = "open"
  /\ hangup_received' = TRUE
  /\ disconnect_callback
  /\ UNCHANGED <<ws, connected, intentional_close, rupture2, agent_transfer_in_progress,
                 reconnect_attempts, helpers, cleanup, transfers, fault>>

\* agentTransfer or humanTransfer: the flag is set, a thread does the rest.
TransferEvent(k) ==
  /\ ws = "open" /\ transfers < MaxTransfers
  /\ agent_transfer_in_progress' = TRUE
  /\ Spawn(k, "close")
  /\ transfers' = transfers + 1
  /\ UNCHANGED <<ws, connected, flags, reconnect_attempts, call, cleanup, fault>>

-----------------------------------------------------------------------------
(* Helper threads.  A step after the handler is deleted uses freed memory. *)

\* A transfer thread leaves the current connection.
TransferCloses(h) ==
  /\ step[h] = "close"
  /\ Close
  /\ Goto(h, IF kind[h] = "number" THEN "refer" ELSE "pause")
  /\ UNCHANGED <<flags, agent_transfer_in_progress, reconnect_attempts, call, cleanup,
                 transfers, fault>>

\* The call id cannot be found in ws_uri (human), or substr throws (agent).
TransferAborts(h) ==
  /\ step[h] = "close" /\ kind[h] \in {"agent", "human"}
  /\ agent_transfer_in_progress' = FALSE
  /\ \/ kind[h] = "agent" /\ disconnect_callback
     \/ kind[h] = "human" /\ UNCHANGED call
  /\ Ends(h)
  /\ UNCHANGED <<ws, connected, flags, reconnect_attempts, cleanup, transfers, fault>>

\* The number is refused and nothing is done, or the REFER is sent, or it
\* fails and the call is hung up.
referCallerToHuman == disconnect_callback \/ UNCHANGED call

\* The end of a phone transfer: nobody resets the flag.
Refer(h) ==
  /\ step[h] = "refer"
  /\ referCallerToHuman
  /\ Ends(h)
  /\ UNCHANGED <<ws, connected, flags, agent_transfer_in_progress, reconnect_attempts,
                 cleanup, transfers, fault>>

\* attemptReconnect after its pause: it is given up when the close was
\* intended, else it writes back the ws_uri it read before.
Resume(h) ==
  /\ step[h] = "pause" /\ kind[h] = "reconnect"
  /\ \/ intentional_close /\ Ends(h) /\ UNCHANGED rupture2
     \/ ~intentional_close /\ Goto(h, "join") /\ rupture2' = uri[h]
  /\ UNCHANGED <<ws, connected, intentional_close, hangup_received, agent_transfer_in_progress,
                 reconnect_attempts, call, cleanup, transfers, fault>>

\* A transfer after its pause sets another ws_uri.
TransferResumes(h) ==
  /\ step[h] = "pause" /\ kind[h] # "reconnect"
  /\ Goto(h, "join")
  /\ rupture2' \in BOOLEAN
  /\ UNCHANGED <<ws, connected, intentional_close, hangup_received, agent_transfer_in_progress,
                 reconnect_attempts, call, cleanup, transfers, fault>>

SomeoneJoins == (\E h \in Helpers : step[h] = "joining") \/ cleanup \in {"joining", "rejoining"}

\* connect(): if (ws_thread.joinable()) ws_thread.join();
Join(h) ==
  /\ step[h] = "join"
  /\ \/ ws = "none" /\ Goto(h, "start") /\ UNCHANGED fault
     \/ ws # "none" /\ ~SomeoneJoins /\ Goto(h, "joining") /\ UNCHANGED fault
     \/ ws # "none" /\ SomeoneJoins /\ fault' = "double_join" /\ UNCHANGED helpers
  /\ UNCHANGED <<ws, connected, flags, agent_transfer_in_progress, reconnect_attempts,
                 call, cleanup, transfers>>

Joined(h) ==
  /\ step[h] = "joining" /\ ws = "over"
  /\ ws' = "none"
  /\ Goto(h, "start")
  /\ UNCHANGED <<connected, flags, agent_transfer_in_progress, reconnect_attempts, call,
                 cleanup, transfers, fault>>

\* connect(): reset, get_connection (which may fail), and a new ws_thread.
Start(h) ==
  /\ step[h] = "start"
  /\ \/ ws = "none" /\ ws' = "opening" /\ Goto(h, "poll") /\ UNCHANGED fault
     \/ ws # "none" /\ fault' = "thread_replaced" /\ UNCHANGED <<ws, helpers>>
     \/ Goto(h, "failed") /\ UNCHANGED <<ws, fault>>
  /\ UNCHANGED <<connected, flags, agent_transfer_in_progress, reconnect_attempts, call,
                 cleanup, transfers>>

\* connect() polls connected for five seconds.
Poll(h) ==
  /\ step[h] = "poll"
  /\ \/ connected /\ kind[h] = "reconnect" /\ Ends(h)
     \/ connected /\ kind[h] # "reconnect" /\ Goto(h, "opened")
     \/ ~connected /\ Goto(h, "failed")
  /\ UNCHANGED <<ws, connected, flags, agent_transfer_in_progress, reconnect_attempts, call,
                 cleanup, transfers, fault>>

\* "Reset only after successful connection".
TransferDone(h) ==
  /\ step[h] = "opened"
  /\ agent_transfer_in_progress' = FALSE
  /\ Ends(h)
  /\ UNCHANGED <<ws, connected, flags, reconnect_attempts, call, cleanup, transfers, fault>>

\* A plausible bug: a transfer that cannot connect tries again, without bound.
TransferRetries(h) ==
  /\ step[h] = "failed" /\ kind[h] # "reconnect"
  /\ Goto(h, "join")
  /\ UNCHANGED <<ws, connected, flags, agent_transfer_in_progress, reconnect_attempts, call,
                 cleanup, transfers, fault>>

\* A transfer that cannot connect ends the call.
TransferFails(h) ==
  /\ step[h] = "failed" /\ kind[h] # "reconnect"
  /\ agent_transfer_in_progress' = FALSE
  /\ disconnect_callback
  /\ Ends(h)
  /\ UNCHANGED <<ws, connected, flags, reconnect_attempts, cleanup, transfers, fault>>

\* A plausible bug: the last failed reconnect is only logged.
ReconnectFailsQuietly(h) ==
  /\ step[h] = "failed" /\ kind[h] = "reconnect"
  /\ IF ~intentional_close /\ MayReconnect THEN Goto(h, "retry") ELSE Ends(h)
  /\ UNCHANGED <<ws, connected, flags, agent_transfer_in_progress, reconnect_attempts, call,
                 cleanup, transfers, fault>>

\* A reconnect that cannot connect is retried while there is budget.
ReconnectFails(h) ==
  /\ step[h] = "failed" /\ kind[h] = "reconnect"
  /\ \/ ~intentional_close /\ MayReconnect /\ Goto(h, "retry") /\ UNCHANGED call
     \/ (intentional_close \/ ~MayReconnect) /\ Ends(h) /\ disconnect_callback
  /\ UNCHANGED <<ws, connected, flags, agent_transfer_in_progress, reconnect_attempts,
                 cleanup, transfers, fault>>

\* A plausible bug: the failed attempt is given back.
RetryRefunding(h) ==
  /\ step[h] = "retry"
  /\ reconnect_attempts' = reconnect_attempts - 1
  /\ step' = [step EXCEPT ![h] = "pause"]
  /\ UNCHANGED <<ws, connected, flags, agent_transfer_in_progress, kind, uri, call, cleanup,
                 transfers, fault>>

\* attemptReconnect again, on a new thread that reads ws_uri again.
Retry(h) ==
  /\ step[h] = "retry"
  /\ reconnect_attempts' = reconnect_attempts + 1
  /\ step' = [step EXCEPT ![h] = "pause"]
  /\ uri' = [uri EXCEPT ![h] = rupture2]
  /\ UNCHANGED <<ws, connected, flags, agent_transfer_in_progress, kind, call, cleanup,
                 transfers, fault>>

UsesFreed(h) ==
  /\ step[h] # "idle" /\ cleanup = "deleted"
  /\ fault' = "use_after_free"
  /\ UNCHANGED <<ws, connected, flags, agent_transfer_in_progress, reconnect_attempts, helpers,
                 call, cleanup, transfers>>

-----------------------------------------------------------------------------
(* The end of the call *)

\* The caller hangs up, or the call is ended over HTTP.
SipHangup ==
  /\ call = "up"
  /\ call' = "over"
  /\ UNCHANGED <<ws, connected, flags, agent_transfer_in_progress, reconnect_attempts, helpers,
                 cleanup, transfers, fault>>

\* disconnect(): the close is marked as intended only when connected; then
\* ws_thread is joined.
Disconnect(from, to) ==
  /\ cleanup = from
  /\ Close
  /\ intentional_close' = (intentional_close \/ connected)
  /\ \/ ~(\E h \in Helpers : step[h] = "joining") /\ cleanup' = to /\ UNCHANGED fault
     \/ (\E h \in Helpers : step[h] = "joining") /\ fault' = "double_join" /\ UNCHANGED cleanup
  /\ UNCHANGED <<hangup_received, rupture2, agent_transfer_in_progress, reconnect_attempts,
                 helpers, call, transfers>>

CleanupJoined(from, to) ==
  /\ cleanup = from /\ ws \in {"none", "over"}
  /\ ws' = "none"
  /\ cleanup' = to
  /\ UNCHANGED <<connected, flags, agent_transfer_in_progress, reconnect_attempts, helpers,
                 call, transfers, fault>>

\* cleanup(): disconnect, wait five seconds, and delete the handler, whose
\* destructor disconnects again.
CleanupStarts == call = "over" /\ Disconnect("none", "joining")
CleanupSettles == CleanupJoined("joining", "settling")
CleanupDeletes == Disconnect("settling", "rejoining")
CleanupEnds == CleanupJoined("rejoining", "deleted")
Cleanup == CleanupStarts \/ CleanupSettles \/ CleanupDeletes \/ CleanupEnds

-----------------------------------------------------------------------------
Connection == Opens \/ FailsToOpen \/ CloseHandler \/ CloseReconnects

Helper(h) ==
  \/ UsesFreed(h)
  \/ /\ cleanup # "deleted"
     /\ \/ TransferCloses(h) \/ TransferAborts(h) \/ Refer(h) \/ Resume(h) \/ TransferResumes(h)
        \/ Join(h) \/ Joined(h) \/ Start(h) \/ Poll(h)
        \/ TransferDone(h) \/ TransferFails(h) \/ ReconnectFails(h) \/ Retry(h)

Environment ==
  \/ Drops \/ sendAudioFrame \/ HangupEvent \/ SipHangup
  \/ \E k \in TransferKinds : TransferEvent(k)

Next ==
  /\ fault = "none"
  /\ Connection \/ Environment \/ Cleanup \/ \E h \in Helpers : Helper(h)

Spec == Init /\ [][Next]_vars

\* Threads that can run do; websocketpp's timers end every attempt to open and
\* every close.  Nobody has to drop a connection, to send or to hang up.
FairSpec ==
  /\ Spec
  /\ WF_vars(fault = "none" /\ Connection)
  /\ WF_vars(fault = "none" /\ Cleanup)
  /\ \A h \in Helpers : WF_vars(fault = "none" /\ Helper(h))

-----------------------------------------------------------------------------
(* Properties *)

\* Somebody will notice that the link is gone: a close handler that has yet to
\* run, or a thread that reconnects or hangs up.
InCharge == ws \in {"open", "closing", "checked"} \/ Alive # {}

\* Until the first transfer, a call that is up has its link or somebody who
\* will restore it or hang up, whatever drops, timeouts and late opens do.
SomeoneInCharge == call = "up" /\ transfers = 0 => InCharge

\* A link that is lost is restored, or the call is ended.
DropHandled == (call = "up" /\ ~connected /\ transfers = 0)
                 ~> (connected \/ call = "over" \/ transfers > 0 \/ fault # "none")

\* A thread that transfers the call to an agent or a human comes to its end,
\* unless it joins a connection that another thread has opened meanwhile.
TransferSettles ==
  \A h \in Helpers : kind[h] \in {"agent", "human"}
    ~> \/ kind[h] \notin {"agent", "human"} \/ call = "over" \/ fault # "none"
       \/ connected /\ step[h] = "joining"

\* The cleanup thread deletes the handler, unless a connection opened after
\* disconnect() had looked at connected and is kept open by the server.
CleanupEndsUnlessLateOpen ==
  call = "over" ~> cleanup = "deleted" \/ fault # "none" \/ (connected /\ SomeoneJoins)
=============================================================================
