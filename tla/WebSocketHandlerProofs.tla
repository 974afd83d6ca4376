----------------------- MODULE WebSocketHandlerProofs -----------------------
(***************************************************************************)
(* Until the first transfer a call that is up has its link, or a thread in *)
(* charge of it: proved for any number of helper threads, any reconnect    *)
(* budget and any bound on the transfers.                                  *)
(*                                                                         *)
(* SomeoneInCharge is not inductive: that a reconnect thread ends only     *)
(* with a live link rests on LinkWhenConnected, that it is not given up    *)
(* on OverFirst, and that nobody but a reconnect thread exists before the  *)
(* first transfer on NoTransferYet and HelpersOK.                          *)
(***************************************************************************)
EXTENDS WebSocketHandler, TLAPS

\* connected is only believed while there is a connection whose close handler
\* has yet to run.
LinkWhenConnected == connected => ws \in {"open", "closing"}

\* disconnect() only runs once the SIP leg is over.
OverFirst == cleanup # "none" \/ intentional_close => call = "over"

\* Before the first transfer its flag is clear and only reconnects run.
NoTransferYet ==
  transfers = 0 => /\ ~agent_transfer_in_progress
                   /\ \A h \in Helpers : kind[h] \in {"none", "reconnect"}

\* Idle slots are the ones without a thread; some steps are a transfer's.
HelpersOK ==
  \A h \in Helpers : /\ kind[h] = "none" <=> step[h] = "idle"
                     /\ step[h] \in {"close", "refer", "opened"} => kind[h] \in Kinds

Inv == LinkWhenConnected /\ OverFirst /\ NoTransferYet /\ HelpersOK /\ SomeoneInCharge

IInv == TypeOK /\ Inv

\* The steps of the connection keep IInv.
LEMMA ConnectionKeeps ==
  ASSUME IInv, Connection
  PROVE  IInv'
<1> USE DEF IInv, Inv, TypeOK, LinkWhenConnected, OverFirst, NoTransferYet, HelpersOK,
            SomeoneInCharge, InCharge, Alive, Kinds, flags, helpers
<1>1. CASE Opens
  BY <1>1 DEF Opens
<1>2. CASE FailsToOpen
  BY <1>2 DEF FailsToOpen
<1>3. CASE CloseHandler
  BY <1>3 DEF CloseHandler, disconnect_callback
<1>4. CASE CloseReconnects
  BY <1>4 DEF CloseReconnects, Spawn
<1> QED
  BY <1>1, <1>2, <1>3, <1>4 DEF Connection

\* The network, the AI and the caller keep IInv.
LEMMA EnvironmentKeeps ==
  ASSUME WSAssumption, IInv, Environment
  PROVE  IInv'
<1> USE DEF IInv, Inv, TypeOK, LinkWhenConnected, OverFirst, NoTransferYet, HelpersOK,
            SomeoneInCharge, InCharge, Alive, Kinds, flags, helpers
<1>1. CASE Drops
  BY <1>1 DEF Drops
<1>2. CASE sendAudioFrame
  BY <1>2 DEF sendAudioFrame
<1>3. CASE HangupEvent
  BY <1>3 DEF HangupEvent, disconnect_callback
<1>4. CASE SipHangup
  BY <1>4 DEF SipHangup
<1>5. ASSUME NEW k \in TransferKinds, TransferEvent(k)
      PROVE  IInv'
  BY <1>5 DEF TransferEvent, Spawn, WSAssumption
<1> QED
  BY <1>1, <1>2, <1>3, <1>4, <1>5 DEF Environment

\* Every step of a helper thread keeps IInv.
LEMMA HelperKeeps ==
  ASSUME IInv, NEW h \in Helpers, Helper(h)
  PROVE  IInv'
<1> USE DEF IInv, Inv, TypeOK, LinkWhenConnected, OverFirst, NoTransferYet, HelpersOK,
            SomeoneInCharge, InCharge, Alive, Kinds, flags, helpers
<1>1. CASE UsesFreed(h)
  BY <1>1 DEF UsesFreed
<1>2. CASE TransferCloses(h)
  BY <1>2 DEF TransferCloses, Close, Goto
<1>3. CASE TransferAborts(h)
  BY <1>3 DEF TransferAborts, Ends, disconnect_callback
<1>4. CASE Refer(h)
  BY <1>4 DEF Refer, referCallerToHuman, Ends, disconnect_callback
<1>5. CASE Resume(h)
  <2>1. rupture2' \in BOOLEAN
    BY <1>5 DEF Resume
  <2>2. CASE Ends(h)
    <3>1. call = "over" /\ UNCHANGED call
      BY <1>5, <2>2 DEF Resume, Ends, Goto
    <3> QED
      BY <1>5, <2>1, <2>2, <3>1 DEF Resume, Ends
  <2>3. CASE Goto(h, "join")
    BY <1>5, <2>1, <2>3 DEF Resume, Goto
  <2> QED
    BY <1>5, <2>2, <2>3 DEF Resume
<1>6. CASE TransferResumes(h)
  BY <1>6 DEF TransferResumes, Goto
<1>7. CASE Join(h)
  BY <1>7 DEF Join, Goto
<1>8. CASE Joined(h)
  BY <1>8 DEF Joined, Goto
<1>9. CASE Start(h)
  BY <1>9 DEF Start, Goto
<1>10. CASE Poll(h)
  <2>1. CASE Ends(h)
    <3>1. connected /\ ws \in {"open", "closing"} /\ UNCHANGED <<connected, ws>>
      BY <1>10, <2>1 DEF Poll, Ends, Goto
    <3> QED
      BY <1>10, <2>1, <3>1 DEF Poll, Ends
  <2>2. CASE Goto(h, "opened") /\ kind[h] # "reconnect"
    <3>1. kind[h] \in Kinds
      BY <1>10, <2>2 DEF Poll
    <3> QED
      BY <1>10, <2>2, <3>1 DEF Poll, Goto
  <2>3. CASE Goto(h, "failed")
    BY <1>10, <2>3 DEF Poll, Goto
  <2> QED
    BY <1>10, <2>1, <2>2, <2>3 DEF Poll
<1>11. CASE TransferDone(h)
  BY <1>11 DEF TransferDone, Ends
<1>12. CASE TransferFails(h)
  BY <1>12 DEF TransferFails, Ends, disconnect_callback
<1>13. CASE ReconnectFails(h)
  <2>1. CASE Goto(h, "retry") /\ UNCHANGED call
    BY <1>13, <2>1 DEF ReconnectFails, Goto
  <2>2. CASE Ends(h) /\ disconnect_callback
    BY <1>13, <2>2 DEF ReconnectFails, Ends, disconnect_callback
  <2> QED
    BY <1>13, <2>1, <2>2 DEF ReconnectFails
<1>14. CASE Retry(h)
  BY <1>14 DEF Retry
<1> QED
  BY <1>1, <1>2, <1>3, <1>4, <1>5, <1>6, <1>7, <1>8, <1>9, <1>10, <1>11, <1>12, <1>13,
     <1>14 DEF Helper

\* The cleanup thread keeps IInv.
LEMMA CleanupKeeps ==
  ASSUME IInv, Cleanup
  PROVE  IInv'
<1> USE DEF IInv, Inv, TypeOK, LinkWhenConnected, OverFirst, NoTransferYet, HelpersOK,
            SomeoneInCharge, InCharge, Alive, Kinds, flags, helpers
<1>1. CASE CleanupStarts
  BY <1>1 DEF CleanupStarts, Disconnect, Close
<1>2. CASE CleanupSettles
  BY <1>2 DEF CleanupSettles, CleanupJoined
<1>3. CASE CleanupDeletes
  BY <1>3 DEF CleanupDeletes, Disconnect, Close
<1>4. CASE CleanupEnds
  BY <1>4 DEF CleanupEnds, CleanupJoined
<1> QED
  BY <1>1, <1>2, <1>3, <1>4 DEF Cleanup

\* IInv holds initially and every step of the handler keeps it.
LEMMA Invariance == Spec => []IInv
<1>1. Init => IInv
  <2> SUFFICES ASSUME Init PROVE IInv
    OBVIOUS
  <2>1. TypeOK
    <3>1. {connected, intentional_close, hangup_received, agent_transfer_in_progress, rupture2}
            \subseteq BOOLEAN
      BY DEF Init
    <3> QED
      BY <3>1, WSAssumption DEF Init, TypeOK, WSAssumption
  <2>2. Inv
    BY DEF Init, Inv, LinkWhenConnected, OverFirst, NoTransferYet, HelpersOK,
       SomeoneInCharge, InCharge
  <2> QED
    BY <2>1, <2>2 DEF IInv
<1>2. IInv /\ [Next]_vars => IInv'
  <2> SUFFICES ASSUME IInv, [Next]_vars PROVE IInv'
    OBVIOUS
  <2>1. CASE Connection
    BY <2>1, ConnectionKeeps
  <2>2. CASE Environment
    BY <2>2, EnvironmentKeeps, WSAssumption
  <2>3. CASE Cleanup
    BY <2>3, CleanupKeeps
  <2>4. CASE \E h \in Helpers : Helper(h)
    BY <2>4, HelperKeeps
  <2>5. CASE UNCHANGED vars
    BY <2>5 DEF vars, flags, helpers, IInv, Inv, TypeOK, LinkWhenConnected, OverFirst,
       NoTransferYet, HelpersOK, SomeoneInCharge, InCharge, Alive
  <2> QED
    BY <2>1, <2>2, <2>3, <2>4, <2>5 DEF Next
<1> QED
  BY <1>1, <1>2, PTL DEF Spec

\* Type correctness of the handler's flags, threads and counters, whatever
\* drops, transfers and hangups do.
THEOREM TypeCorrect == Spec => []TypeOK
  BY Invariance, PTL DEF IInv

\* Until the first transfer no interleaving of drops, timeouts, late opens,
\* hangups and reconnect threads leaves a call that is up without a link and
\* without a thread that restores it or hangs up (the close handler and
\* attemptReconnect of websocket_handler.cpp).
THEOREM NeverAbandoned == Spec => []SomeoneInCharge
  BY Invariance, PTL DEF IInv, Inv
=============================================================================
