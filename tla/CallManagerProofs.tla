------------------------- MODULE CallManagerProofs -------------------------
(***************************************************************************)
(* For any number of HTTP threads and calls, any limit and every mix of    *)
(* outbound, inbound and simulated calls: current_calls drifts by the      *)
(* simulated calls that could not connect and by nothing else, the         *)
(* unlocked admission check is overrun by a known number only, the end of  *)
(* every other call is reported at most once, and endCall destroys the     *)
(* object of a SIP call only when the call is over.                        *)
(*                                                                         *)
(* None of these is inductive.  The invariant describes a call: what each  *)
(* kind of call may have, which of PJSIP's states go with which owner, and *)
(* who has discounted a simulated call (the pump or terminate(), told by   *)
(* the terminated flag).  A step touches one call and at most one thread,  *)
(* so the sums change by what the step does to that call.                  *)
(***************************************************************************)
EXTENDS CallManager, FiniteSetTheorems, TLAPS

Real(c) == kind[c] \in {"out", "in"}

\* A call id that is not in use has no state.
FreshOK(c) ==
  kind[c] = "none" =>
    /\ place[c] = "none" /\ sip[c] = "none" /\ port[c] = "none" /\ cb[c] = "none"
    /\ pump[c] = "none" /\ ~terminated[c] /\ hooks[c] = <<>>

\* A SIP call: its port is open only while it is confirmed, its callback has
\* run exactly when it is over, and so it is when its object goes.  The final
\* webhook is the last one, and no other end is reported.
RealOK(c) ==
  Real(c) =>
    /\ pump[c] = "none" /\ sip[c] # "none"
    /\ place[c] \in {"map", "hangup", "checked", "closing", "freed"}
    /\ sip[c] = "over" <=> cb[c] # "none"
    /\ port[c] = "open" => sip[c] = "confirmed"
    /\ place[c] \in {"closing", "freed"} => sip[c] = "over"
    /\ \A i \in DOMAIN hooks[c] :
         /\ hooks[c][i] \notin {"completed", "fail"}
         /\ hooks[c][i] = "final" => cb[c] = "done" /\ i = Len(hooks[c])

\* A simulated call is finished by whoever sets the flag, the pump or
\* terminate(), when its disconnect() has returned; until then it is closing.
SimOK(c) ==
  kind[c] = "sim" =>
    /\ sip[c] = "none" /\ port[c] = "none" /\ cb[c] = "none"
    /\ place[c] \in {"frame", "map", "hangup", "closing", "freed"}
    /\ pump[c] = "none" => place[c] = "freed" /\ hooks[c] = <<"fail", "completed">>
    /\ pump[c] # "none" => \A i \in DOMAIN hooks[c] : hooks[c][i] # "fail"
    /\ place[c] = "freed" => terminated[c]
    /\ place[c] = "closing" => terminated[c] /\ ~Finished(c) /\ pump[c] # "closing"
    /\ pump[c] = "closing" => terminated[c] /\ ~Finished(c)
    /\ terminated[c] /\ place[c] # "closing" /\ pump[c] # "closing"
         => Finished(c) /\ pump[c] \in {"none", "done"}
    /\ ~terminated[c] => ~Finished(c) /\ pump[c] \in {"running", "stopping"}
    /\ \A i, j \in DOMAIN hooks[c] :
         hooks[c][i] = "completed" /\ hooks[c][j] = "completed" => i = j
    /\ \A i \in DOMAIN hooks[c] : hooks[c][i] # "final"

CallOK(c) == FreshOK(c) /\ RealOK(c) /\ SimOK(c)

\* A thread inside start() has a simulated call of its own.
FrameOK(t) ==
  pc[t] \in {"spawned", "started"} =>
    mine[t] \in Calls /\ kind[mine[t]] = "sim" /\ place[mine[t]] = "frame"

ThreadsOK ==
  /\ \A t \in Threads : FrameOK(t)
  /\ \A t, u \in Threads :
       pc[t] \in {"spawned", "started"} /\ pc[u] \in {"spawned", "started"} /\ mine[t] = mine[u]
         => t = u

SimInserted == {c \in Calls : pump[c] # "none" /\ place[c] # "frame"}
SimFinished == {c \in Calls : Finished(c)}

\* The counter as a sum of what was added to it and taken off.
Accounting ==
  current_calls = Cardinality(RealCounted) + Cardinality(SimInserted)
                  - Cardinality(SimFinished)

\* How far the counter itself may run over the limit.
CounterBounded ==
  current_calls + Cardinality(Admitted)
    <= MaxCalls - 1 + Cardinality(Threads) + Cardinality(Inbound)

IInv ==
  /\ TypeOK /\ ThreadsOK
  /\ \A c \in Calls : CallOK(c)
  /\ Accounting /\ CounterBounded

\* A step leaves call d alone.
Same(d) ==
  /\ kind'[d] = kind[d] /\ place'[d] = place[d] /\ sip'[d] = sip[d] /\ port'[d] = port[d]
  /\ cb'[d] = cb[d] /\ pump'[d] = pump[d] /\ terminated'[d] = terminated[d]
  /\ hooks'[d] = hooks[d]

Only(c) == \A d \in Calls : d # c => Same(d)

One(b) == IF b THEN 1 ELSE 0

-----------------------------------------------------------------------------
(* Counting *)

\* Two sets that differ at most in c differ in size by that.
LEMMA CountChange ==
  ASSUME NEW S, NEW T, NEW c, IsFiniteSet(S), IsFiniteSet(T), S \ {c} = T \ {c}
  PROVE  /\ Cardinality(S) \in Nat /\ Cardinality(T) \in Nat
         /\ Cardinality(T) = Cardinality(S) + One(c \in T) - One(c \in S)
  <1>1. Cardinality(S) \in Nat /\ Cardinality(T) \in Nat
    BY FS_CardinalityType
  <1>2. c \in S => Cardinality(S \ {c}) = Cardinality(S) - 1
    BY FS_RemoveElement
  <1>3. c \in T => Cardinality(T \ {c}) = Cardinality(T) - 1
    BY FS_RemoveElement
  <1>4. c \notin S => Cardinality(S \ {c}) = Cardinality(S)
    <2>1. c \notin S => S \ {c} = S
      OBVIOUS
    <2> QED BY <2>1
  <1>5. c \notin T => Cardinality(T \ {c}) = Cardinality(T)
    <2>1. c \notin T => T \ {c} = T
      OBVIOUS
    <2> QED BY <2>1
  <1>6. Cardinality(S \ {c}) = Cardinality(T \ {c})
    OBVIOUS
  <1> QED BY <1>1, <1>2, <1>3, <1>4, <1>5, <1>6 DEF One

\* What a step that touches only call c does to the counted sets.
LEMMA CallsCounted ==
  ASSUME NEW c \in Calls, Only(c)
  PROVE  /\ Cardinality(RealCounted) \in Nat /\ Cardinality(RealCounted') \in Nat
         /\ Cardinality(SimInserted) \in Nat /\ Cardinality(SimInserted') \in Nat
         /\ Cardinality(SimFinished) \in Nat /\ Cardinality(SimFinished') \in Nat
         /\ Cardinality(Inbound) \in Nat /\ Cardinality(Inbound') \in Nat
         /\ Cardinality(RealCounted')
              = Cardinality(RealCounted) + One(c \in RealCounted') - One(c \in RealCounted)
         /\ Cardinality(SimInserted')
              = Cardinality(SimInserted) + One(c \in SimInserted') - One(c \in SimInserted)
         /\ Cardinality(SimFinished')
              = Cardinality(SimFinished) + One(c \in SimFinished') - One(c \in SimFinished)
         /\ Cardinality(Inbound') = Cardinality(Inbound) + One(c \in Inbound') - One(c \in Inbound)
  <1>1. /\ IsFiniteSet(RealCounted) /\ IsFiniteSet(RealCounted')
        /\ IsFiniteSet(SimInserted) /\ IsFiniteSet(SimInserted')
        /\ IsFiniteSet(SimFinished) /\ IsFiniteSet(SimFinished')
        /\ IsFiniteSet(Inbound) /\ IsFiniteSet(Inbound')
    <2>1. \A S : S \subseteq Calls => IsFiniteSet(S)
      BY CMAssumption, FS_Subset
    <2>2. /\ RealCounted \subseteq Calls /\ RealCounted' \subseteq Calls
          /\ SimInserted \subseteq Calls /\ SimInserted' \subseteq Calls
          /\ SimFinished \subseteq Calls /\ SimFinished' \subseteq Calls
          /\ Inbound \subseteq Calls /\ Inbound' \subseteq Calls
      BY DEF RealCounted, SimInserted, SimFinished, Inbound
    <2> QED BY <2>1, <2>2
  <1>2. RealCounted \ {c} = RealCounted' \ {c}
    BY DEF RealCounted, Only, Same
  <1>3. SimInserted \ {c} = SimInserted' \ {c}
    BY DEF SimInserted, Only, Same
  <1>4. SimFinished \ {c} = SimFinished' \ {c}
    BY DEF SimFinished, Finished, Reported, Only, Same
  <1>5. Inbound \ {c} = Inbound' \ {c}
    BY DEF Inbound, Only, Same
  <1> HIDE DEF RealCounted, SimInserted, SimFinished, Inbound
  <1>6. /\ Cardinality(RealCounted) \in Nat /\ Cardinality(RealCounted') \in Nat
        /\ Cardinality(RealCounted')
              = Cardinality(RealCounted) + One(c \in RealCounted') - One(c \in RealCounted)
    BY <1>1, <1>2, CountChange
  <1>7. /\ Cardinality(SimInserted) \in Nat /\ Cardinality(SimInserted') \in Nat
        /\ Cardinality(SimInserted')
              = Cardinality(SimInserted) + One(c \in SimInserted') - One(c \in SimInserted)
    BY <1>1, <1>3, CountChange
  <1>8. /\ Cardinality(SimFinished) \in Nat /\ Cardinality(SimFinished') \in Nat
        /\ Cardinality(SimFinished')
              = Cardinality(SimFinished) + One(c \in SimFinished') - One(c \in SimFinished)
    BY <1>1, <1>4, CountChange
  <1>9. /\ Cardinality(Inbound) \in Nat /\ Cardinality(Inbound') \in Nat
        /\ Cardinality(Inbound') = Cardinality(Inbound) + One(c \in Inbound') - One(c \in Inbound)
    BY <1>1, <1>5, CountChange
  <1> QED BY <1>6, <1>7, <1>8, <1>9

\* What a step of thread t does to the requests that passed the check.
LEMMA ThreadsCounted ==
  ASSUME NEW t \in Threads, \A u \in Threads : u # t => pc'[u] = pc[u]
  PROVE  /\ Cardinality(Admitted) \in Nat /\ Cardinality(Admitted') \in Nat
         /\ Cardinality(Threads) \in Nat /\ Cardinality(Admitted') <= Cardinality(Threads)
         /\ Cardinality(Admitted')
              = Cardinality(Admitted) + One(t \in Admitted') - One(t \in Admitted)
  <1>1. Admitted \subseteq Threads /\ Admitted' \subseteq Threads
        /\ Admitted \ {t} = Admitted' \ {t}
    BY DEF Admitted
  <1> HIDE DEF Admitted
  <1>2. /\ IsFiniteSet(Admitted) /\ IsFiniteSet(Admitted') /\ Cardinality(Threads) \in Nat
        /\ Cardinality(Admitted') <= Cardinality(Threads)
    BY <1>1, CMAssumption, FS_Subset, FS_CardinalityType
  <1> QED BY <1>1, <1>2, CountChange

-----------------------------------------------------------------------------
(* One call moves *)

\* Appending to the webhooks of a call.
LEMMA Appended ==
  ASSUME NEW S, NEW s \in Seq(S), NEW e \in S
  PROVE  /\ Append(s, e) \in Seq(S) /\ Len(Append(s, e)) = Len(s) + 1
         /\ Len(s) + 1 \in DOMAIN Append(s, e) /\ Append(s, e)[Len(s) + 1] = e
         /\ \A i \in DOMAIN s : i \in DOMAIN Append(s, e) /\ Append(s, e)[i] = s[i]
                                 /\ i # Len(s) + 1
         /\ \A i \in DOMAIN Append(s, e) : i \in DOMAIN s \/ i = Len(s) + 1
  OBVIOUS

\* A call that a step leaves alone stays as it should be.
LEMMA SameOK ==
  ASSUME NEW d \in Calls, CallOK(d), Same(d)
  PROVE  CallOK(d)'
  BY DEF CallOK, FreshOK, RealOK, SimOK, Real, Finished, Reported, Same

\* A step of no HTTP thread keeps the invariant when it changes the counter by
\* what it does to its call, and raises it for an inbound call only.
LEMMA CallStep ==
  ASSUME IInv, NEW c \in Calls, Only(c), TypeOK', CallOK(c)', UNCHANGED <<pc, mine>>,
         place[c] = "frame" => place'[c] = "frame" /\ kind'[c] = kind[c],
         current_calls' = current_calls + One(c \in RealCounted') - One(c \in RealCounted)
                          + One(c \in SimInserted') - One(c \in SimInserted)
                          - One(c \in SimFinished') + One(c \in SimFinished),
         current_calls' - current_calls <= One(c \in Inbound') - One(c \in Inbound)
  PROVE  IInv'
  <1>1. \A d \in Calls : CallOK(d)'
    BY SameOK DEF IInv, Only
  <1>2. ThreadsOK'
    BY DEF IInv, ThreadsOK, FrameOK, Only, Same
  <1>3. current_calls \in Int /\ current_calls' \in Int
    BY DEF IInv, TypeOK
  <1>4. Accounting'
    BY <1>3, CallsCounted DEF IInv, Accounting, One
  <1>5. Admitted' = Admitted
    BY DEF Admitted
  <1>6. Cardinality(Admitted) \in Nat /\ Cardinality(Threads) \in Nat
    <2>1. Admitted \subseteq Threads
      BY DEF Admitted
    <2> QED BY <2>1, CMAssumption, FS_Subset, FS_CardinalityType
  <1>7. CounterBounded'
    BY <1>3, <1>5, <1>6, CallsCounted, CMAssumption DEF IInv, CounterBounded, One
  <1> QED BY <1>1, <1>2, <1>4, <1>7 DEF IInv

\* Every step keeps the types.
LEMMA TypeStep == TypeOK /\ ThreadsOK /\ Next => TypeOK'
  <1> SUFFICES ASSUME TypeOK, ThreadsOK, Next PROVE TypeOK'
    OBVIOUS
  <1>0. /\ \A e \in Events : \A c \in Calls :
             /\ Append(hooks[c], e) \in Seq(Events)
             /\ [hooks EXCEPT ![c] = Append(@, e)] \in [Calls -> Seq(Events)]
        /\ \A c \in Calls :
             [hooks EXCEPT ![c] = @ \o <<"fail", "completed">>] \in [Calls -> Seq(Events)]
    <2>1. <<"fail", "completed">> \in Seq(Events)
      BY DEF Events
    <2>2. \A c \in Calls : hooks[c] \o <<"fail", "completed">> \in Seq(Events)
      BY <2>1 DEF TypeOK
    <2> QED BY <2>2 DEF TypeOK
  <1>e. /\ "ringing" \in Events /\ "connecting" \in Events /\ "in-progress" \in Events
        /\ "final" \in Events /\ "completed" \in Events
    BY DEF Events
  <1>1. ASSUME NEW t \in Threads, CheckLimit(t) \/ Refuse(t) PROVE TypeOK'
    <2>1. CASE CheckLimit(t)
      BY <2>1 DEF CheckLimit, TypeOK, counters, real, simul
    <2>2. CASE Refuse(t)
      BY <2>2 DEF Refuse, TypeOK, counters, real, simul
    <2> QED BY <1>1, <2>1, <2>2
  <1>2. ASSUME NEW t \in Threads, SimRinging(t) \/ SimInsert(t) PROVE TypeOK'
    <2>1. mine[t] \in Calls
      BY <1>2 DEF ThreadsOK, FrameOK, SimRinging, SimInsert
    <2>2. CASE SimRinging(t)
      BY <2>1, <2>2, <1>0, <1>e DEF SimRinging, Sends, TypeOK, counters, real, simul
    <2>3. CASE SimInsert(t)
      BY <2>1, <2>3 DEF SimInsert, Moves, TypeOK, real, simul
    <2> QED BY <1>2, <2>2, <2>3
  <1>3. ASSUME NEW t \in Threads, NEW c \in Calls, PlaceCall(t, c) PROVE TypeOK'
    BY <1>3, <1>0, <1>e DEF PlaceCall, Sends, Moves, TypeOK, simul
  <1>4. ASSUME NEW t \in Threads, NEW c \in Calls, SimStart(t, c) PROVE TypeOK'
    BY <1>4 DEF SimStart, Moves, TypeOK, counters, real
  <1>5. ASSUME NEW t \in Threads, NEW c \in Calls, SimStartFails(t, c) PROVE TypeOK'
    BY <1>5, <1>0 DEF SimStartFails, Moves, TypeOK, real, decrementCallCounter
  <1>6. ASSUME NEW c \in Calls, Progress(c) \/ Environment(c) PROVE TypeOK'
    <2>1. CASE PumpEnds(c)
      BY <2>1, <1>0, <1>e DEF PumpEnds, Sends, decrementCallCounter, TypeOK, http, real
    <2>17. CASE PumpLeaves(c)
      BY <2>17 DEF PumpLeaves, TypeOK, counters, http, real
    <2>18. CASE LateOpen(c) \/ FarEndCloses(c)
      <3>1. CASE LateOpen(c)
        BY <3>1 DEF LateOpen, TypeOK, counters, http, real
      <3>2. CASE FarEndCloses(c)
        BY <3>2 DEF FarEndCloses, TypeOK, counters, http, real
      <3> QED BY <2>18, <3>1, <3>2
    <2>2. CASE SimJoined(c)
      BY <2>2, <1>0, <1>e DEF SimJoined, Sends, Moves, decrementCallCounter, TypeOK, http, real, simul
    <2>3. CASE SimStops(c)
      BY <2>3 DEF SimStops, TypeOK, counters, http, real, simul
    <2>4. CASE SimTerminate(c)
      BY <2>4 DEF SimTerminate, Moves, TypeOK, counters, http, real, simul, Faults
    <2>5. CASE Answer(c)
      <3>1. CASE sip' = [sip EXCEPT ![c] = "connecting"] /\ Sends(c, "connecting") /\ UNCHANGED fault
        BY <2>5, <3>1, <1>0, <1>e DEF Answer, Sends, TypeOK, counters, http, simul, Faults
      <3>2. CASE fault' = "null_call" /\ UNCHANGED <<sip, hooks>>
        BY <2>5, <3>2 DEF Answer, Sends, TypeOK, counters, http, simul, Faults
      <3> QED BY <2>5, <3>1, <3>2 DEF Answer
    <2>6. CASE FinalWebhook(c)
      <3>1. CASE Sends(c, "final") /\ UNCHANGED fault
        BY <2>6, <3>1, <1>0, <1>e DEF FinalWebhook, Sends, TypeOK, counters, http, simul, Faults
      <3>2. CASE fault' = "use_after_free" /\ UNCHANGED hooks
        BY <2>6, <3>2 DEF FinalWebhook, Sends, TypeOK, counters, http, simul, Faults
      <3> QED BY <2>6, <3>1, <3>2 DEF FinalWebhook
    <2>7. CASE CleanupPort(c)
      BY <2>7 DEF CleanupPort, TypeOK, counters, http, simul
    <2>8. CASE EndCall(c)
      BY <2>8 DEF EndCall, Moves, TypeOK, counters, http, real, simul
    <2>9. CASE HangupCheck(c)
      BY <2>9 DEF HangupCheck, Destroy, Moves, TypeOK, counters, http, simul
    <2>10. CASE HangupReturns(c)
      BY <2>10 DEF HangupReturns, Destroy, Moves, TypeOK, counters, http, simul
    <2>11. CASE HangupCall(c)
      <3>1. CASE Disconnected(c) /\ Moves(c, "closing") /\ UNCHANGED fault
        BY <2>11, <3>1 DEF HangupCall, Disconnected, decrementCallCounter, Moves, TypeOK, http, real, simul, Faults
      <3>2. CASE fault' = "hangup_error" /\ UNCHANGED <<place, real, current_calls>>
        BY <2>11, <3>2 DEF HangupCall, Disconnected, decrementCallCounter, Moves, TypeOK, http, real, simul, Faults
      <3> QED BY <2>11, <3>1, <3>2 DEF HangupCall
    <2>12. CASE RemoteHangup(c)
      BY <2>12 DEF RemoteHangup, Disconnected, decrementCallCounter, TypeOK, http, simul
    <2>13. CASE WebSocketClosed(c)
      <3>1. CASE Disconnected(c) /\ UNCHANGED fault
        BY <2>13, <3>1 DEF WebSocketClosed, Disconnected, decrementCallCounter, TypeOK, http, real, simul, Faults
      <3>2. CASE fault' = "use_after_free" /\ UNCHANGED <<real, current_calls>>
        BY <2>13, <3>2 DEF WebSocketClosed, Disconnected, decrementCallCounter, TypeOK, http, real, simul, Faults
      <3> QED BY <2>13, <3>1, <3>2 DEF WebSocketClosed
    <2>14. CASE IncomingCall(c)
      BY <2>14 DEF IncomingCall, Moves, TypeOK, http, simul
    <2>15. CASE Connecting(c)
      BY <2>15, <1>0, <1>e DEF Connecting, Sends, TypeOK, counters, http, simul
    <2>16. CASE Confirmed(c)
      BY <2>16, <1>0, <1>e DEF Confirmed, setupMedia, incrementAnsweredCallsCount, Sends, TypeOK, http, simul
    <2> QED BY <1>6, <2>1, <2>2, <2>3, <2>4, <2>5, <2>6, <2>7, <2>8,
          <2>9, <2>10, <2>11, <2>12, <2>13, <2>14, <2>15, <2>16, <2>17, <2>18 DEF Progress, Environment
  <1>7. ASSUME NEW t \in Threads, Request(t) PROVE TypeOK'
    BY <1>7, <1>1, <1>2, <1>3, <1>4, <1>5 DEF Request
  <1> QED BY <1>6, <1>7 DEF Next

-----------------------------------------------------------------------------
(* The steps of a call *)

state == <<place, sip, port, cb, pump, terminated, hooks>>

\* A step that changes nothing but the fault, or opens or closes a late
\* connection, keeps the invariant.
LEMMA FaultStep ==
  ASSUME IInv, TypeOK', UNCHANGED <<current_calls, pc, mine, kind, state>>
  PROVE  IInv'
  <1>1. \A c \in Calls : CallOK(c)'
    BY SameOK DEF IInv, Same, state
  <1>2. ThreadsOK'
    BY DEF IInv, ThreadsOK, FrameOK, state
  <1>3. RealCounted' = RealCounted /\ SimInserted' = SimInserted /\ SimFinished' = SimFinished
        /\ Inbound' = Inbound /\ Admitted' = Admitted
    BY DEF RealCounted, SimInserted, SimFinished, Finished, Reported, Inbound, Admitted, state
  <1>4. Accounting' /\ CounterBounded'
    BY <1>3 DEF IInv, Accounting, CounterBounded
  <1> QED BY <1>1, <1>2, <1>4 DEF IInv

\* The DISCONNECTED callback discounts a SIP call, once: its call was not over.
LEMMA DisconnectStep ==
  ASSUME IInv, TypeOK', NEW c \in Calls, Disconnected(c), sip[c] \notin {"none", "over"},
         UNCHANGED place \/ (place[c] = "checked" /\ Moves(c, "closing")),
         UNCHANGED <<pc, mine, kind, pump, terminated, hooks>>
  PROVE  IInv'
  <1>0. TypeOK /\ CallOK(c)
    BY DEF IInv
  <1>1. Only(c)
    BY <1>0 DEF Only, Same, Disconnected, Moves, TypeOK
  <1>2. /\ Real(c) /\ cb[c] = "none" /\ place[c] # "frame"
    BY <1>0 DEF CallOK, FreshOK, RealOK, SimOK, Real, TypeOK
  <1>3. /\ sip'[c] = "over" /\ port'[c] # "open" /\ cb'[c] = "sending"
        /\ place'[c] = place[c] \/ place'[c] = "closing"
        /\ kind' = kind /\ pump' = pump /\ terminated' = terminated /\ hooks' = hooks
        /\ current_calls' = current_calls - 1
    BY <1>0 DEF Disconnected, Moves, decrementCallCounter, TypeOK
  <1>4. CallOK(c)'
    BY <1>0, <1>2, <1>3 DEF CallOK, FreshOK, RealOK, SimOK, Real
  <1>5. /\ c \in RealCounted /\ c \notin RealCounted'
        /\ c \in SimInserted' <=> c \in SimInserted
        /\ c \in SimFinished' <=> c \in SimFinished
        /\ c \notin Inbound'
    <2>1. pump[c] = "none"
      BY <1>0, <1>2 DEF CallOK, RealOK
    <2> QED BY <1>2, <1>3, <2>1 DEF RealCounted, SimInserted, SimFinished, Finished, Reported, Inbound, Real
  <1>6. current_calls \in Int
    BY <1>0 DEF TypeOK
  <1> QED BY <1>1, <1>2, <1>3, <1>4, <1>5, <1>6, CallStep DEF One

\* A step of a SIP call that leaves its callback and its end alone: what is
\* sent on the way is not an end.
LEMMA RealStep ==
  ASSUME IInv, TypeOK', NEW c \in Calls, Real(c), Only(c), CallOK(c)',
         kind'[c] = kind[c], cb'[c] = "none" <=> cb[c] = "none", pump'[c] = pump[c],
         UNCHANGED <<current_calls, pc, mine>>
  PROVE  IInv'
  <1>0. TypeOK /\ CallOK(c)
    BY DEF IInv
  <1>1. pump[c] = "none" /\ place[c] # "frame"
    BY <1>0 DEF CallOK, RealOK
  <1>2. Real(c)' /\ c \notin SimFinished /\ c \notin SimFinished'
    <2>1. Real(c)'
      BY DEF Real
    <2> QED BY <2>1, <1>0 DEF CallOK, RealOK, SimFinished, Finished, Reported
  <1>3. /\ c \in RealCounted' <=> c \in RealCounted
        /\ c \notin SimInserted' /\ c \notin SimInserted
        /\ c \in Inbound' <=> c \in Inbound
    BY <1>1 DEF RealCounted, SimInserted, Inbound, Real
  <1>4. current_calls \in Int
    BY <1>0 DEF TypeOK
  <1> QED BY <1>1, <1>2, <1>3, <1>4, CallStep DEF One

\* Connecting, confirmed or answered: one more webhook, and perhaps a port.
LEMMA SetupStep ==
  ASSUME IInv, TypeOK', NEW c \in Calls, NEW e \in {"connecting", "in-progress"},
         NEW q \in {"connecting", "confirmed"}, sip[c] \in {"incoming", "calling", "connecting"},
         sip' = [sip EXCEPT ![c] = q], Sends(c, e),
         \A d \in Calls : d # c => port'[d] = port[d],
         port'[c] = "open" => q = "confirmed",
         UNCHANGED <<current_calls, pc, mine, kind, place, cb, pump, terminated>>
  PROVE  IInv'
  <1>0. TypeOK /\ CallOK(c)
    BY DEF IInv
  <1>1. Only(c)
    BY <1>0 DEF Only, Same, Sends, setupMedia, TypeOK
  <1>2. Real(c) /\ cb[c] = "none"
    BY <1>0 DEF CallOK, FreshOK, RealOK, SimOK, Real, TypeOK
  <1>3. /\ sip'[c] = q /\ (port'[c] = "open" => q = "confirmed")
        /\ hooks'[c] = Append(hooks[c], e) /\ hooks[c] \in Seq(Events) /\ e \in Events
    BY <1>0 DEF Sends, setupMedia, TypeOK, Events
  <1>4. /\ Len(hooks'[c]) = Len(hooks[c]) + 1
        /\ hooks'[c][Len(hooks[c]) + 1] = e
        /\ \A i \in DOMAIN hooks[c] : hooks'[c][i] = hooks[c][i]
        /\ \A i \in DOMAIN hooks'[c] : i \in DOMAIN hooks[c] \/ i = Len(hooks[c]) + 1
    BY <1>3, Appended
  <1>5. CallOK(c)'
    BY <1>0, <1>2, <1>3, <1>4 DEF CallOK, FreshOK, RealOK, SimOK, Real
  <1> QED BY <1>1, <1>2, <1>5, RealStep

\* The final webhook is sent once, and nothing after it.
LEMMA FinalStep ==
  ASSUME IInv, TypeOK', NEW c \in Calls, FinalWebhook(c)
  PROVE  IInv'
  <1>0. /\ TypeOK /\ CallOK(c) /\ cb[c] = "sending" /\ cb' = [cb EXCEPT ![c] = "done"]
        /\ UNCHANGED <<current_calls, pc, mine, kind, place, sip, port, pump, terminated>>
        /\ Sends(c, "final") \/ UNCHANGED hooks
    BY DEF IInv, FinalWebhook, counters, http, simul
  <1>1. Only(c)
    BY <1>0 DEF Only, Same, Sends, TypeOK
  <1>2. Real(c)
    BY <1>0 DEF CallOK, FreshOK, RealOK, SimOK, Real, TypeOK
  <1>3. cb'[c] = "done"
    BY <1>0 DEF TypeOK
  <1>4. CASE UNCHANGED hooks
    <2>1. CallOK(c)'
      BY <1>0, <1>2, <1>3, <1>4 DEF CallOK, FreshOK, RealOK, SimOK, Real
    <2> QED BY <1>0, <1>1, <1>2, <1>3, <2>1, RealStep
  <1>5. CASE Sends(c, "final")
    <2>1. hooks'[c] = Append(hooks[c], "final") /\ hooks[c] \in Seq(Events) /\ "final" \in Events
      BY <1>0, <1>5 DEF Sends, TypeOK, Events
    <2>2. /\ Len(hooks'[c]) = Len(hooks[c]) + 1
          /\ hooks'[c][Len(hooks[c]) + 1] = "final"
          /\ \A i \in DOMAIN hooks[c] : hooks'[c][i] = hooks[c][i]
          /\ \A i \in DOMAIN hooks'[c] : i \in DOMAIN hooks[c] \/ i = Len(hooks[c]) + 1
      BY <2>1, Appended
    <2>3. CallOK(c)'
      BY <1>0, <1>2, <1>3, <2>2 DEF CallOK, FreshOK, RealOK, SimOK, Real
    <2> QED BY <1>0, <1>1, <1>2, <1>3, <2>3, RealStep
  <1> QED BY <1>0, <1>4, <1>5

\* Cleaning up a port, and the steps of endCall's thread around hangup(): the
\* object is destroyed when the call is over.
LEMMA HangupStep ==
  ASSUME IInv, TypeOK', NEW c \in Calls,
         CleanupPort(c) \/ HangupCheck(c) \/ HangupReturns(c)
  PROVE  IInv'
  <1>0. TypeOK /\ CallOK(c)
        /\ UNCHANGED <<current_calls, pc, mine, kind, sip, cb, pump, terminated, hooks>>
    BY DEF IInv, CleanupPort, HangupCheck, HangupReturns, counters, http, simul
  <1>1. Only(c)
    BY <1>0 DEF CleanupPort, HangupCheck, HangupReturns, Destroy, Moves, Only, Same, TypeOK
  <1>2. Real(c)
    BY <1>0 DEF CleanupPort, HangupCheck, HangupReturns, CallOK, FreshOK, SimOK, Real, TypeOK
  <1>3. /\ port'[c] = "open" => port[c] = "open"
        /\ place'[c] \in {place[c], "checked", "freed"}
        /\ place'[c] = "freed" => place[c] = "freed" \/ sip[c] = "over"
    <2>1. CASE CleanupPort(c)
      BY <2>1, <1>0 DEF CleanupPort, TypeOK
    <2>2. CASE HangupCheck(c)
      BY <2>2, <1>0 DEF HangupCheck, Destroy, Moves, TypeOK
    <2>3. CASE HangupReturns(c)
      BY <2>3, <1>0, <1>2 DEF HangupReturns, Destroy, Moves, TypeOK, CallOK, RealOK
    <2> QED BY <2>1, <2>2, <2>3
  <1>4. CallOK(c)'
    BY <1>0, <1>2, <1>3 DEF CallOK, FreshOK, RealOK, SimOK, Real
  <1> QED BY <1>0, <1>1, <1>2, <1>4, RealStep

\* endCall takes the object out of its map.
LEMMA EndCallStep ==
  ASSUME IInv, TypeOK', NEW c \in Calls, EndCall(c)
  PROVE  IInv'
  <1>0. /\ TypeOK /\ CallOK(c) /\ place[c] = "map" /\ place' = [place EXCEPT ![c] = "hangup"]
        /\ UNCHANGED <<current_calls, pc, mine, kind, sip, port, cb, pump, terminated, hooks>>
    BY DEF IInv, EndCall, Moves, counters, http, real, simul
  <1>1. Only(c) /\ place'[c] = "hangup"
    BY <1>0 DEF Only, Same, TypeOK
  <1>2. CallOK(c)'
    BY <1>0, <1>1 DEF CallOK, FreshOK, RealOK, SimOK, Real, Finished, Reported
  <1>3. /\ c \in RealCounted' <=> c \in RealCounted
        /\ c \in SimInserted' <=> c \in SimInserted
        /\ c \in SimFinished' <=> c \in SimFinished
        /\ c \in Inbound' <=> c \in Inbound
    BY <1>0, <1>1 DEF RealCounted, SimInserted, SimFinished, Finished, Reported, Inbound
  <1>4. current_calls \in Int
    BY <1>0 DEF TypeOK
  <1> QED BY <1>0, <1>1, <1>2, <1>3, <1>4, CallStep DEF One

\* An inbound call is counted when it gets its slot.
LEMMA IncomingStep ==
  ASSUME IInv, TypeOK', NEW c \in Calls, IncomingCall(c)
  PROVE  IInv'
  <1>0. /\ TypeOK /\ CallOK(c) /\ kind[c] = "none" /\ kind' = [kind EXCEPT ![c] = "in"]
        /\ sip' = [sip EXCEPT ![c] = "incoming"] /\ place' = [place EXCEPT ![c] = "map"]
        /\ current_calls' = current_calls + 1
        /\ UNCHANGED <<pc, mine, port, cb, pump, terminated, hooks>>
    BY DEF IInv, IncomingCall, Fresh, Moves, http, simul
  <1>1. Only(c) /\ kind'[c] = "in" /\ sip'[c] = "incoming" /\ place'[c] = "map"
    BY <1>0 DEF Only, Same, TypeOK
  <1>2. CallOK(c)' /\ place[c] = "none"
    BY <1>0, <1>1 DEF CallOK, FreshOK, RealOK, SimOK, Real
  <1>3. /\ c \in RealCounted' /\ c \notin RealCounted
        /\ c \notin SimInserted' /\ c \notin SimInserted
        /\ c \notin SimFinished' /\ c \notin SimFinished
        /\ c \in Inbound' /\ c \notin Inbound
    BY <1>0, <1>1 DEF CallOK, FreshOK, RealCounted, SimInserted, SimFinished, Finished, Reported, Inbound
  <1>4. current_calls \in Int
    BY <1>0 DEF TypeOK
  <1> QED BY <1>0, <1>1, <1>2, <1>3, <1>4, CallStep DEF One

\* A step of a simulated call's own threads: they leave the frame of start()
\* alone, and discount the call when they finish it.
LEMMA SimStep ==
  ASSUME IInv, TypeOK', NEW c \in Calls, kind[c] = "sim", Only(c), CallOK(c)',
         kind'[c] = "sim", pump[c] # "none", pump'[c] # "none",
         place'[c] = "frame" <=> place[c] = "frame",
         current_calls' = current_calls - One(Finished(c)') + One(Finished(c)),
         Finished(c) => Finished(c)', UNCHANGED <<pc, mine>>
  PROVE  IInv'
  <1>1. /\ c \notin RealCounted' /\ c \notin RealCounted
        /\ c \in SimInserted' <=> c \in SimInserted
        /\ c \in SimFinished' <=> Finished(c)'
        /\ c \in SimFinished <=> Finished(c)
        /\ c \notin Inbound' /\ c \notin Inbound
    BY DEF RealCounted, SimInserted, SimFinished, Inbound
  <1>2. current_calls \in Int
    BY DEF IInv, TypeOK
  <1> HIDE DEF RealCounted, SimInserted, SimFinished, Inbound, Finished
  <1>3. /\ current_calls' = current_calls + One(c \in RealCounted') - One(c \in RealCounted)
                            + One(c \in SimInserted') - One(c \in SimInserted)
                            - One(c \in SimFinished') + One(c \in SimFinished)
        /\ current_calls' - current_calls <= One(c \in Inbound') - One(c \in Inbound)
    BY <1>1, <1>2 DEF One
  <1> QED BY <1>3, CallStep

\* The pump is told to stop.
LEMMA SimStopsStep ==
  ASSUME IInv, TypeOK', NEW c \in Calls, SimStops(c)
  PROVE  IInv'
  <1>0. /\ TypeOK /\ CallOK(c) /\ pump[c] = "running" /\ pump' = [pump EXCEPT ![c] = "stopping"]
        /\ UNCHANGED <<current_calls, pc, mine, kind, place, sip, port, cb, terminated, hooks>>
    BY DEF IInv, SimStops, counters, http, real
  <1>1. Only(c) /\ pump'[c] = "stopping"
    BY <1>0 DEF Only, Same, TypeOK
  <1>2. kind[c] = "sim"
    BY <1>0 DEF CallOK, FreshOK, RealOK, Real, TypeOK
  <1>3. Finished(c)' <=> Finished(c)
    BY <1>0 DEF Finished, Reported
  <1>4. CallOK(c)'
    BY <1>0, <1>1, <1>2, <1>3 DEF CallOK, FreshOK, RealOK, SimOK, Real
  <1>5. current_calls' = current_calls - One(Finished(c)') + One(Finished(c))
    BY <1>0, <1>3 DEF One, TypeOK
  <1> QED BY <1>0, <1>1, <1>2, <1>3, <1>4, <1>5, SimStep

\* A completed event that is the first one of its call.
LEMMA CompletedOnce ==
  ASSUME TypeOK, NEW c \in Calls, ~Finished(c), Sends(c, "completed"),
         \A i \in DOMAIN hooks[c] : hooks[c][i] \notin {"final", "fail"}
  PROVE  /\ Finished(c)'
         /\ \A i, j \in DOMAIN hooks'[c] :
              hooks'[c][i] = "completed" /\ hooks'[c][j] = "completed" => i = j
         /\ \A i \in DOMAIN hooks'[c] : hooks'[c][i] \notin {"final", "fail"}
  <1>1. /\ hooks'[c] = Append(hooks[c], "completed") /\ hooks[c] \in Seq(Events)
        /\ "completed" \in Events
    BY DEF Sends, TypeOK, Events
  <1>2. /\ Len(hooks[c]) + 1 \in DOMAIN hooks'[c]
        /\ hooks'[c][Len(hooks[c]) + 1] = "completed"
        /\ \A i \in DOMAIN hooks[c] : hooks'[c][i] = hooks[c][i]
        /\ \A i \in DOMAIN hooks'[c] : i \in DOMAIN hooks[c] \/ i = Len(hooks[c]) + 1
    BY <1>1, Appended
  <1> QED BY <1>2 DEF Finished, Reported

\* The pump has left its loop: it finishes the call unless the flag says that
\* terminate() will.
LEMMA PumpLeavesStep ==
  ASSUME IInv, TypeOK', NEW c \in Calls, PumpLeaves(c)
  PROVE  IInv'
  <1>0. /\ TypeOK /\ CallOK(c) /\ pump[c] = "stopping"
        /\ pump' = [pump EXCEPT ![c] = IF terminated[c] THEN "done" ELSE "closing"]
        /\ terminated' = [terminated EXCEPT ![c] = TRUE]
        /\ UNCHANGED <<current_calls, pc, mine, kind, place, sip, port, cb, hooks>>
    BY DEF IInv, PumpLeaves, counters, http, real
  <1>1. /\ pump'[c] = IF terminated[c] THEN "done" ELSE "closing"
        /\ terminated'[c] = TRUE /\ Only(c)
    BY <1>0 DEF Only, Same, TypeOK
  <1>2. kind[c] = "sim"
    BY <1>0 DEF CallOK, FreshOK, RealOK, Real, TypeOK
  <1>3. Finished(c)' <=> Finished(c)
    BY <1>0 DEF Finished, Reported
  <1>4. CallOK(c)'
    BY <1>0, <1>1, <1>2, <1>3 DEF CallOK, FreshOK, RealOK, SimOK, Real
  <1>5. current_calls' = current_calls - One(Finished(c)') + One(Finished(c))
    BY <1>0, <1>3 DEF One, TypeOK
  <1>6. pump'[c] # "none"
    BY <1>1
  <1> QED BY <1>0, <1>1, <1>2, <1>3, <1>4, <1>5, <1>6, SimStep

\* The pump finishes the call: terminate() returns at once, if it is called.
LEMMA PumpStep ==
  ASSUME IInv, TypeOK', NEW c \in Calls, PumpEnds(c)
  PROVE  IInv'
  <1>0. /\ TypeOK /\ CallOK(c) /\ pump[c] = "closing" /\ pump' = [pump EXCEPT ![c] = "done"]
        /\ Sends(c, "completed") /\ current_calls' = current_calls - 1
        /\ UNCHANGED <<pc, mine, kind, place, sip, port, cb, terminated>>
    BY DEF IInv, PumpEnds, decrementCallCounter, http, real
  <1>1. Only(c) /\ pump'[c] = "done"
    BY <1>0 DEF Only, Same, Sends, TypeOK
  <1>2. kind[c] = "sim"
    BY <1>0 DEF CallOK, FreshOK, RealOK, Real, TypeOK
  <1>3. ~Finished(c) /\ \A i \in DOMAIN hooks[c] : hooks[c][i] \notin {"final", "fail"}
    BY <1>0, <1>2 DEF CallOK, SimOK
  <1>4. /\ Finished(c)'
        /\ \A i, j \in DOMAIN hooks'[c] :
             hooks'[c][i] = "completed" /\ hooks'[c][j] = "completed" => i = j
        /\ \A i \in DOMAIN hooks'[c] : hooks'[c][i] \notin {"final", "fail"}
    BY <1>0, <1>3, CompletedOnce
  <1>5. CallOK(c)'
    BY <1>0, <1>1, <1>2, <1>4 DEF CallOK, FreshOK, RealOK, SimOK, Real
  <1>6. current_calls' = current_calls - One(Finished(c)') + One(Finished(c))
    BY <1>0, <1>3, <1>4 DEF One, TypeOK
  <1> QED BY <1>0, <1>1, <1>2, <1>4, <1>5, <1>6, SimStep

\* terminate() up to the join, or its early return for a finished call.
LEMMA TerminateStep ==
  ASSUME IInv, TypeOK', NEW c \in Calls, SimTerminate(c)
  PROVE  IInv'
  <1>0. /\ TypeOK /\ CallOK(c) /\ kind[c] = "sim" /\ place[c] = "hangup"
        /\ UNCHANGED <<current_calls, pc, mine, kind, sip, port, cb, hooks>>
    BY DEF IInv, SimTerminate, counters, http, real
  <1>1. pump[c] # "none" /\ (Finished(c)' <=> Finished(c))
    BY <1>0 DEF CallOK, SimOK, Finished, Reported
  <1>2. current_calls' = current_calls - One(Finished(c)') + One(Finished(c))
    BY <1>0, <1>1 DEF One, TypeOK
  <1>3. CASE /\ ~terminated[c]
             /\ Moves(c, "closing")
             /\ terminated' = [terminated EXCEPT ![c] = TRUE]
             /\ pump' = [pump EXCEPT ![c] = IF @ = "running" THEN "stopping" ELSE @]
    <2>1. /\ place'[c] = "closing" /\ terminated'[c] = TRUE /\ pump'[c] # "none" /\ Only(c)
      BY <1>0, <1>1, <1>3 DEF Moves, Only, Same, TypeOK
    <2>2. CallOK(c)'
      BY <1>0, <1>1, <1>3, <2>1 DEF CallOK, FreshOK, RealOK, SimOK, Real
    <2> QED BY <1>0, <1>1, <1>2, <2>1, <2>2, SimStep
  <1>4. CASE terminated[c] /\ Moves(c, "freed") /\ UNCHANGED simul
    <2>1. place'[c] = "freed" /\ UNCHANGED <<pump, terminated>> /\ Only(c)
      BY <1>0, <1>4 DEF Moves, Only, Same, TypeOK, simul
    <2>2. CallOK(c)'
      BY <1>0, <1>1, <1>4, <2>1 DEF CallOK, FreshOK, RealOK, SimOK, Real
    <2> QED BY <1>0, <1>1, <1>2, <2>1, <2>2, SimStep
  <1> QED BY <1>3, <1>4 DEF SimTerminate

\* terminate() after the join: nobody else has finished the call.
LEMMA JoinedStep ==
  ASSUME IInv, TypeOK', NEW c \in Calls, SimJoined(c)
  PROVE  IInv'
  <1>0. /\ TypeOK /\ CallOK(c) /\ kind[c] = "sim" /\ place[c] = "closing" /\ pump[c] = "done"
        /\ Sends(c, "completed") /\ current_calls' = current_calls - 1
        /\ place' = [place EXCEPT ![c] = "freed"]
        /\ UNCHANGED <<pc, mine, kind, sip, port, cb, pump, terminated>>
    BY DEF IInv, SimJoined, Moves, decrementCallCounter, http, real, simul
  <1>1. Only(c) /\ place'[c] = "freed"
    BY <1>0 DEF Only, Same, Sends, TypeOK
  <1>2. ~Finished(c) /\ \A i \in DOMAIN hooks[c] : hooks[c][i] \notin {"final", "fail"}
    BY <1>0 DEF CallOK, SimOK
  <1>3. /\ Finished(c)'
        /\ \A i, j \in DOMAIN hooks'[c] :
             hooks'[c][i] = "completed" /\ hooks'[c][j] = "completed" => i = j
        /\ \A i \in DOMAIN hooks'[c] : hooks'[c][i] \notin {"final", "fail"}
    BY <1>0, <1>2, CompletedOnce
  <1>4. CallOK(c)'
    BY <1>0, <1>1, <1>3 DEF CallOK, FreshOK, RealOK, SimOK, Real
  <1>5. current_calls' = current_calls - One(Finished(c)') + One(Finished(c))
    BY <1>0, <1>2, <1>3 DEF One, TypeOK
  <1> QED BY <1>0, <1>1, <1>3, <1>4, <1>5, SimStep

-----------------------------------------------------------------------------
(* The steps of an HTTP thread *)

Starting(t) == pc[t] \in {"spawned", "started"}

\* A request that was admitted may raise the counter by one when it leaves.
LEMMA RequestStep ==
  ASSUME IInv, TypeOK', NEW t \in Threads, NEW c \in Calls, Only(c), CallOK(c)',
         \A u \in Threads : u # t => pc'[u] = pc[u] /\ mine'[u] = mine[u],
         Starting(t)' => /\ mine'[t] = c /\ kind'[c] = "sim" /\ place'[c] = "frame"
                         /\ kind[c] = "none" \/ (Starting(t) /\ mine[t] = c),
         place[c] = "frame" => Starting(t) /\ mine[t] = c,
         current_calls' = current_calls + One(c \in RealCounted') - One(c \in RealCounted)
                          + One(c \in SimInserted') - One(c \in SimInserted)
                          - One(c \in SimFinished') + One(c \in SimFinished),
         current_calls' + One(t \in Admitted') <= current_calls + One(t \in Admitted),
         ~(c \in Inbound) /\ ~(c \in Inbound')
  PROVE  IInv'
  <1>1. \A d \in Calls : CallOK(d)'
    BY SameOK DEF IInv, Only
  <1>2. current_calls \in Int /\ current_calls' \in Int
    BY DEF IInv, TypeOK
  <1>3. ASSUME NEW u \in Threads, u # t, Starting(u)
        PROVE  mine[u] # c /\ mine[u] \in Calls /\ kind'[mine[u]] = "sim"
               /\ place'[mine[u]] = "frame"
    <2>1. mine[u] \in Calls /\ kind[mine[u]] = "sim" /\ place[mine[u]] = "frame"
      BY <1>3 DEF IInv, ThreadsOK, FrameOK, Starting
    <2>2. mine[u] # c
      BY <2>1, <1>3 DEF IInv, ThreadsOK, Starting
    <2> QED BY <2>1, <2>2 DEF Only, Same
  <1>4. ThreadsOK'
    <2>1. ASSUME NEW u \in Threads PROVE FrameOK(u)'
      BY <1>3 DEF FrameOK, Starting
    <2>2. ASSUME NEW u \in Threads, NEW v \in Threads, Starting(u)', Starting(v)',
                 mine'[u] = mine'[v]
          PROVE  u = v
      <3>1. CASE u = t \/ v = t
        BY <2>2, <3>1, <1>3 DEF Starting
      <3>2. CASE u # t /\ v # t
        BY <2>2, <3>2 DEF IInv, ThreadsOK, Starting
      <3> QED BY <3>1, <3>2
    <2> QED BY <2>1, <2>2 DEF ThreadsOK, Starting
  <1>5. Accounting'
    BY <1>2, CallsCounted DEF IInv, Accounting, One
  <1>6. CounterBounded'
    BY <1>2, CallsCounted, ThreadsCounted, CMAssumption DEF IInv, CounterBounded, One
  <1> QED BY <1>1, <1>4, <1>5, <1>6 DEF IInv

\* The unlocked check admits a request below the limit, or it is refused.
LEMMA CheckStep ==
  ASSUME IInv, TypeOK', NEW t \in Threads, CheckLimit(t) \/ Refuse(t)
  PROVE  IInv'
  <1>0. /\ TypeOK /\ ~Starting(t) /\ ~Starting(t)'
        /\ UNCHANGED <<current_calls, mine, kind, state>>
        /\ \A u \in Threads : u # t => pc'[u] = pc[u]
        /\ \/ current_calls < MaxCalls
           \/ pc[t] = "checked" /\ pc'[t] = "idle"
    BY DEF IInv, CheckLimit, Refuse, TypeOK, Starting, state, counters, real, simul
  <1>1. \A c \in Calls : CallOK(c)'
    BY <1>0, SameOK DEF IInv, Same, state
  <1>2. ThreadsOK'
    BY <1>0 DEF IInv, ThreadsOK, FrameOK, Starting, state
  <1>3. /\ RealCounted' = RealCounted /\ SimInserted' = SimInserted
        /\ SimFinished' = SimFinished /\ Inbound' = Inbound
    BY <1>0 DEF RealCounted, SimInserted, SimFinished, Finished, Reported, Inbound, state
  <1>4. Accounting'
    BY <1>0, <1>3 DEF IInv, Accounting
  <1>5. Cardinality(Inbound) \in Nat
    <2>1. Inbound \subseteq Calls
      BY DEF Inbound
    <2> QED BY <2>1, CMAssumption, FS_Subset, FS_CardinalityType
  <1>6. CounterBounded'
    <2>1. /\ Cardinality(Admitted) \in Nat /\ Cardinality(Admitted') \in Nat
          /\ Cardinality(Threads) \in Nat /\ Cardinality(Admitted') <= Cardinality(Threads)
          /\ Cardinality(Admitted')
               = Cardinality(Admitted) + One(t \in Admitted') - One(t \in Admitted)
      BY <1>0, ThreadsCounted
    <2>2. current_calls \in Int /\ MaxCalls \in Nat
      BY <1>0, CMAssumption DEF TypeOK
    <2>3. CASE current_calls < MaxCalls
      BY <1>0, <1>3, <1>5, <2>1, <2>2, <2>3 DEF CounterBounded
    <2>4. CASE pc[t] = "checked" /\ pc'[t] = "idle"
      <3>1. t \in Admitted /\ t \notin Admitted'
        BY <2>4 DEF Admitted
      <3> QED BY <1>0, <1>3, <1>5, <2>1, <2>2, <3>1 DEF IInv, CounterBounded, One
    <2> QED BY <1>0, <2>3, <2>4
  <1> QED BY <1>1, <1>2, <1>4, <1>6 DEF IInv

\* An outbound call is placed and counted under calls_mutex.
LEMMA PlaceStep ==
  ASSUME IInv, TypeOK', NEW t \in Threads, NEW c \in Calls, PlaceCall(t, c)
  PROVE  IInv'
  <1>0. /\ TypeOK /\ CallOK(c) /\ pc[t] = "checked" /\ kind[c] = "none"
        /\ pc' = [pc EXCEPT ![t] = "idle"] /\ kind' = [kind EXCEPT ![c] = "out"]
        /\ sip' = [sip EXCEPT ![c] = "calling"]
        /\ hooks' = [hooks EXCEPT ![c] = Append(@, "ringing")]
        /\ place' = [place EXCEPT ![c] = "map"]
        /\ current_calls' = current_calls + 1
        /\ UNCHANGED <<mine, port, cb, pump, terminated>>
    BY DEF IInv, PlaceCall, Fresh, Sends, Moves, simul
  <1>1. /\ Only(c) /\ kind'[c] = "out" /\ sip'[c] = "calling" /\ place'[c] = "map"
        /\ pc'[t] = "idle" /\ \A u \in Threads : u # t => pc'[u] = pc[u]
    BY <1>0 DEF Only, Same, TypeOK
  <1>2. /\ place[c] = "none" /\ cb[c] = "none" /\ pump[c] = "none" /\ port[c] = "none"
        /\ hooks[c] = <<>> /\ ~terminated[c]
    BY <1>0 DEF CallOK, FreshOK
  <1>3. \A i \in DOMAIN hooks'[c] : hooks'[c][i] = "ringing"
    <2>1. hooks'[c] = <<"ringing">>
      BY <1>0, <1>2 DEF TypeOK
    <2> QED BY <2>1
  <1>4. CallOK(c)'
    BY <1>0, <1>1, <1>2, <1>3 DEF CallOK, FreshOK, RealOK, SimOK, Real
  <1>5. /\ c \in RealCounted' /\ c \notin RealCounted
        /\ c \notin SimInserted' /\ c \notin SimInserted
        /\ c \notin SimFinished' /\ c \notin SimFinished
        /\ c \notin Inbound' /\ c \notin Inbound
    BY <1>0, <1>1, <1>2, <1>3 DEF RealCounted, SimInserted, SimFinished, Finished, Reported, Inbound
  <1>6. t \in Admitted /\ t \notin Admitted' /\ ~Starting(t)'
    BY <1>0, <1>1 DEF Admitted, Starting
  <1>7. current_calls \in Int
    BY <1>0 DEF TypeOK
  <1>8. \A u \in Threads : u # t => pc'[u] = pc[u] /\ mine'[u] = mine[u]
    BY <1>0, <1>1
  <1>9. /\ current_calls' = current_calls + One(c \in RealCounted') - One(c \in RealCounted)
                            + One(c \in SimInserted') - One(c \in SimInserted)
                            - One(c \in SimFinished') + One(c \in SimFinished)
        /\ current_calls' + One(t \in Admitted') <= current_calls + One(t \in Admitted)
    BY <1>0, <1>5, <1>6, <1>7 DEF One
  <1> QED BY <1>1, <1>2, <1>4, <1>5, <1>6, <1>8, <1>9, RequestStep

\* start() of a simulated call up to its pump: nothing is counted yet.
LEMMA SimStartStep ==
  ASSUME IInv, TypeOK', NEW t \in Threads, NEW c \in Calls, SimStart(t, c)
  PROVE  IInv'
  <1>0. /\ TypeOK /\ CallOK(c) /\ pc[t] = "checked" /\ kind[c] = "none"
        /\ pc' = [pc EXCEPT ![t] = "spawned"] /\ kind' = [kind EXCEPT ![c] = "sim"]
        /\ mine' = [mine EXCEPT ![t] = c]
        /\ place' = [place EXCEPT ![c] = "frame"] /\ pump' = [pump EXCEPT ![c] = "running"]
        /\ UNCHANGED <<current_calls, sip, port, cb, terminated, hooks>>
    BY DEF IInv, SimStart, Fresh, Moves, counters, real
  <1>1. /\ Only(c) /\ kind'[c] = "sim" /\ place'[c] = "frame" /\ pump'[c] = "running"
        /\ pc'[t] = "spawned" /\ mine'[t] = c
        /\ \A u \in Threads : u # t => pc'[u] = pc[u] /\ mine'[u] = mine[u]
    BY <1>0 DEF Only, Same, TypeOK
  <1>2. /\ place[c] = "none" /\ cb[c] = "none" /\ pump[c] = "none" /\ port[c] = "none"
        /\ hooks[c] = <<>> /\ ~terminated[c] /\ sip[c] = "none"
    BY <1>0 DEF CallOK, FreshOK
  <1>3. ~Finished(c) /\ ~Finished(c)'
    BY <1>0, <1>2 DEF Finished, Reported
  <1>4. CallOK(c)'
    BY <1>0, <1>1, <1>2, <1>3 DEF CallOK, FreshOK, RealOK, SimOK, Real
  <1>5. /\ c \notin RealCounted' /\ c \notin RealCounted
        /\ c \notin SimInserted' /\ c \notin SimInserted
        /\ c \notin SimFinished' /\ c \notin SimFinished
        /\ c \notin Inbound' /\ c \notin Inbound
    BY <1>0, <1>1, <1>2, <1>3 DEF RealCounted, SimInserted, SimFinished, Inbound
  <1>6. t \in Admitted /\ t \in Admitted'
    BY <1>0, <1>1 DEF Admitted
  <1>7. current_calls \in Int
    BY <1>0 DEF TypeOK
  <1>8. /\ current_calls' = current_calls + One(c \in RealCounted') - One(c \in RealCounted)
                            + One(c \in SimInserted') - One(c \in SimInserted)
                            - One(c \in SimFinished') + One(c \in SimFinished)
        /\ current_calls' + One(t \in Admitted') <= current_calls + One(t \in Admitted)
    BY <1>0, <1>5, <1>6, <1>7 DEF One
  <1> QED BY <1>0, <1>1, <1>2, <1>4, <1>5, <1>8, RequestStep

\* start() fails: the destructor discounts a call that was never counted.
LEMMA SimFailsStep ==
  ASSUME IInv, TypeOK', NEW t \in Threads, NEW c \in Calls, SimStartFails(t, c)
  PROVE  IInv'
  <1>0. /\ TypeOK /\ CallOK(c) /\ pc[t] = "checked" /\ kind[c] = "none"
        /\ pc' = [pc EXCEPT ![t] = "idle"] /\ kind' = [kind EXCEPT ![c] = "sim"]
        /\ place' = [place EXCEPT ![c] = "freed"]
        /\ terminated' = [terminated EXCEPT ![c] = TRUE]
        /\ hooks' = [hooks EXCEPT ![c] = @ \o <<"fail", "completed">>]
        /\ current_calls' = current_calls - 1
        /\ UNCHANGED <<mine, sip, port, cb, pump>>
    BY DEF IInv, SimStartFails, Fresh, Moves, decrementCallCounter, real
  <1>1. /\ Only(c) /\ kind'[c] = "sim" /\ place'[c] = "freed" /\ terminated'[c] = TRUE
        /\ pc'[t] = "idle"
        /\ \A u \in Threads : u # t => pc'[u] = pc[u] /\ mine'[u] = mine[u]
    BY <1>0 DEF Only, Same, TypeOK
  <1>2. /\ place[c] = "none" /\ cb[c] = "none" /\ pump[c] = "none" /\ port[c] = "none"
        /\ hooks[c] = <<>> /\ ~terminated[c] /\ sip[c] = "none"
    BY <1>0 DEF CallOK, FreshOK
  <1>3. /\ hooks'[c] = <<"fail", "completed">>
        /\ DOMAIN hooks'[c] = {1, 2} /\ hooks'[c][1] = "fail" /\ hooks'[c][2] = "completed"
    <2>1. hooks'[c] = <<>> \o <<"fail", "completed">>
      BY <1>0, <1>2 DEF TypeOK
    <2>2. <<>> \o <<"fail", "completed">> = <<"fail", "completed">>
      OBVIOUS
    <2> QED BY <2>1, <2>2
  <1>4. ~Finished(c) /\ Finished(c)'
    BY <1>2, <1>3 DEF Finished, Reported
  <1>5. CallOK(c)'
    BY <1>0, <1>1, <1>2, <1>3, <1>4 DEF CallOK, FreshOK, RealOK, SimOK, Real
  <1>6. /\ c \notin RealCounted' /\ c \notin RealCounted
        /\ c \notin SimInserted' /\ c \notin SimInserted
        /\ c \in SimFinished' /\ c \notin SimFinished
        /\ c \notin Inbound' /\ c \notin Inbound
    BY <1>0, <1>1, <1>2, <1>4 DEF RealCounted, SimInserted, SimFinished, Inbound
  <1>7. t \in Admitted /\ t \notin Admitted' /\ ~Starting(t)'
    BY <1>0, <1>1 DEF Admitted, Starting
  <1>8. current_calls \in Int
    BY <1>0 DEF TypeOK
  <1>9. /\ current_calls' = current_calls + One(c \in RealCounted') - One(c \in RealCounted)
                            + One(c \in SimInserted') - One(c \in SimInserted)
                            - One(c \in SimFinished') + One(c \in SimFinished)
        /\ current_calls' + One(t \in Admitted') <= current_calls + One(t \in Admitted)
    BY <1>0, <1>6, <1>7, <1>8 DEF One
  <1> QED BY <1>1, <1>2, <1>5, <1>6, <1>7, <1>9, RequestStep

\* The end of start() and the insertion into simulated_calls; the pump may
\* have finished the call before either.
LEMMA SimInsertStep ==
  ASSUME IInv, TypeOK', NEW t \in Threads, SimRinging(t) \/ SimInsert(t),
         NEW c \in Calls, c = mine[t]
  PROVE  IInv'
  <1>0. /\ TypeOK /\ Starting(t) /\ kind[c] = "sim" /\ place[c] = "frame"
        /\ CallOK(c)
    BY DEF IInv, ThreadsOK, FrameOK, SimRinging, SimInsert, Starting
  <1>1. /\ sip[c] = "none" /\ port[c] = "none" /\ cb[c] = "none" /\ pump[c] # "none"
        /\ UNCHANGED <<kind, sip, port, cb, pump, terminated>>
    BY <1>0 DEF CallOK, SimOK, SimRinging, SimInsert, real, simul
  <1>2. current_calls \in Int
    BY <1>0 DEF TypeOK
  <1>3. CASE SimRinging(t)
    <2>1. /\ pc' = [pc EXCEPT ![t] = "started"]
          /\ hooks' = [hooks EXCEPT ![c] = Append(@, "ringing")]
          /\ UNCHANGED <<current_calls, mine, place>>
      BY <1>3 DEF SimRinging, Sends, counters
    <2>2. /\ Only(c) /\ pc'[t] = "started"
          /\ hooks'[c] = Append(hooks[c], "ringing") /\ hooks[c] \in Seq(Events)
          /\ \A u \in Threads : u # t => pc'[u] = pc[u] /\ mine'[u] = mine[u]
      BY <1>0, <1>1, <2>1 DEF Only, Same, TypeOK
    <2>3. /\ hooks'[c][Len(hooks[c]) + 1] = "ringing"
          /\ \A i \in DOMAIN hooks[c] : i \in DOMAIN hooks'[c] /\ hooks'[c][i] = hooks[c][i]
          /\ \A i \in DOMAIN hooks'[c] : i \in DOMAIN hooks[c] \/ i = Len(hooks[c]) + 1
      <3>1. "ringing" \in Events
        BY DEF Events
      <3> QED BY <2>2, <3>1, Appended
    <2>4. Finished(c)' <=> Finished(c)
      BY <2>3 DEF Finished, Reported
    <2>5. CallOK(c)'
      BY <1>0, <1>1, <2>1, <2>3, <2>4 DEF CallOK, FreshOK, RealOK, SimOK, Real
    <2>6. /\ c \notin RealCounted' /\ c \notin RealCounted
          /\ c \in SimInserted' <=> c \in SimInserted
          /\ c \in SimFinished' <=> c \in SimFinished
          /\ c \notin Inbound' /\ c \notin Inbound
      BY <1>0, <1>1, <2>1, <2>4 DEF RealCounted, SimInserted, SimFinished, Inbound
    <2>7. t \in Admitted /\ t \in Admitted'
      BY <1>0, <2>2 DEF Admitted, Starting
    <2>8. /\ current_calls' = current_calls + One(c \in RealCounted') - One(c \in RealCounted)
                              + One(c \in SimInserted') - One(c \in SimInserted)
                              - One(c \in SimFinished') + One(c \in SimFinished)
          /\ current_calls' + One(t \in Admitted') <= current_calls + One(t \in Admitted)
      BY <1>2, <2>1, <2>6, <2>7 DEF One
    <2>9. c = mine'[t] /\ kind'[c] = "sim" /\ place'[c] = "frame"
      BY <1>0, <1>1, <2>1
    <2> QED BY <1>0, <2>2, <2>5, <2>6, <2>8, <2>9, RequestStep
  <1>4. CASE SimInsert(t)
    <2>1. /\ pc' = [pc EXCEPT ![t] = "idle"] /\ mine' = [mine EXCEPT ![t] = None]
          /\ place' = [place EXCEPT ![c] = "map"] /\ current_calls' = current_calls + 1
          /\ UNCHANGED hooks
      BY <1>4 DEF SimInsert, Moves
    <2>2. /\ Only(c) /\ pc'[t] = "idle" /\ place'[c] = "map"
          /\ \A u \in Threads : u # t => pc'[u] = pc[u] /\ mine'[u] = mine[u]
      BY <1>0, <1>1, <2>1 DEF Only, Same, TypeOK
    <2>3. Finished(c)' <=> Finished(c)
      BY <2>1 DEF Finished, Reported
    <2>4. CallOK(c)'
      BY <1>0, <1>1, <2>1, <2>2, <2>3 DEF CallOK, FreshOK, RealOK, SimOK, Real
    <2>5. /\ c \notin RealCounted' /\ c \notin RealCounted
          /\ c \in SimInserted' /\ c \notin SimInserted
          /\ c \in SimFinished' <=> c \in SimFinished
          /\ c \notin Inbound' /\ c \notin Inbound
      BY <1>0, <1>1, <2>1, <2>2, <2>3 DEF RealCounted, SimInserted, SimFinished, Inbound
    <2>6. t \in Admitted /\ t \notin Admitted' /\ ~Starting(t)'
      BY <1>0, <2>2 DEF Admitted, Starting
    <2>7. /\ current_calls' = current_calls + One(c \in RealCounted') - One(c \in RealCounted)
                              + One(c \in SimInserted') - One(c \in SimInserted)
                              - One(c \in SimFinished') + One(c \in SimFinished)
          /\ current_calls' + One(t \in Admitted') <= current_calls + One(t \in Admitted)
      BY <1>2, <2>1, <2>5, <2>6 DEF One
    <2> QED BY <1>0, <2>2, <2>4, <2>5, <2>6, <2>7, RequestStep
  <1> QED BY <1>3, <1>4

-----------------------------------------------------------------------------
(* The invariant *)

\* The initial state satisfies the invariant: there is no call.
LEMMA InitIInv == Init => IInv
  <1> SUFFICES ASSUME Init PROVE IInv
    OBVIOUS
  <1>1. TypeOK /\ ThreadsOK /\ \A c \in Calls : CallOK(c)
    BY DEF Init, TypeOK, ThreadsOK, FrameOK, CallOK, FreshOK, RealOK, SimOK, Real, Finished, Reported
  <1>2. /\ RealCounted = {} /\ SimInserted = {} /\ SimFinished = {} /\ Inbound = {}
        /\ Admitted = {}
    BY DEF Init, RealCounted, SimInserted, SimFinished, Finished, Reported, Inbound, Admitted
  <1>3. Cardinality({}) = 0
    BY FS_EmptySet
  <1>4. Cardinality(Threads) \in Nat
    BY CMAssumption, FS_CardinalityType
  <1>5. current_calls = 0 /\ MaxCalls \in Nat /\ MaxCalls >= 1
    BY CMAssumption DEF Init
  <1>6. Accounting
    BY <1>2, <1>3, <1>5 DEF Accounting
  <1>7. CounterBounded
    BY <1>2, <1>3, <1>4, <1>5 DEF CounterBounded
  <1> QED BY <1>1, <1>6, <1>7 DEF IInv

\* Every step keeps the invariant.
LEMMA NextIInv == IInv /\ [Next]_vars => IInv'
  <1>1. ASSUME IInv, Next PROVE IInv'
    <2>1. TypeOK'
      BY <1>1, TypeStep DEF IInv
    <2>2. ASSUME NEW t \in Threads, Request(t) PROVE IInv'
      <3>1. CASE CheckLimit(t) \/ Refuse(t)
        BY <1>1, <2>1, <3>1, CheckStep
      <3>2. CASE SimRinging(t) \/ SimInsert(t)
        <4>1. mine[t] \in Calls
          BY <1>1, <3>2 DEF IInv, ThreadsOK, FrameOK, SimRinging, SimInsert
        <4> QED BY <1>1, <2>1, <3>2, <4>1, SimInsertStep
      <3>3. ASSUME NEW c \in Calls, PlaceCall(t, c) PROVE IInv'
        BY <1>1, <2>1, <3>3, PlaceStep
      <3>4. ASSUME NEW c \in Calls, SimStart(t, c) PROVE IInv'
        BY <1>1, <2>1, <3>4, SimStartStep
      <3>5. ASSUME NEW c \in Calls, SimStartFails(t, c) PROVE IInv'
        BY <1>1, <2>1, <3>5, SimFailsStep
      <3> QED BY <2>2, <3>1, <3>2, <3>3, <3>4, <3>5 DEF Request
    <2>3. ASSUME NEW c \in Calls, Progress(c) \/ Environment(c) PROVE IInv'
      <3>0. CallOK(c) /\ TypeOK
        BY <1>1 DEF IInv
      <3>1. CASE PumpEnds(c)
        BY <1>1, <2>1, <3>1, PumpStep
      <3>15. CASE PumpLeaves(c)
        BY <1>1, <2>1, <3>15, PumpLeavesStep
      <3>16. CASE LateOpen(c) \/ FarEndCloses(c)
        BY <1>1, <2>1, <3>16, FaultStep
           DEF LateOpen, FarEndCloses, state, counters, http, real
      <3>2. CASE SimTerminate(c)
        BY <1>1, <2>1, <3>2, TerminateStep
      <3>3. CASE SimJoined(c)
        BY <1>1, <2>1, <3>3, JoinedStep
      <3>4. CASE SimStops(c)
        BY <1>1, <2>1, <3>4, SimStopsStep
      <3>5. CASE FinalWebhook(c)
        BY <1>1, <2>1, <3>5, FinalStep
      <3>6. CASE CleanupPort(c) \/ HangupCheck(c) \/ HangupReturns(c)
        BY <1>1, <2>1, <3>6, HangupStep
      <3>7. CASE EndCall(c)
        BY <1>1, <2>1, <3>7, EndCallStep
      <3>8. CASE IncomingCall(c)
        BY <1>1, <2>1, <3>8, IncomingStep
      <3>9. CASE Answer(c)
        <4>1. CASE UNCHANGED <<sip, hooks>>
          BY <1>1, <2>1, <3>9, <4>1, FaultStep
             DEF Answer, state, counters, http, simul
        <4>2. CASE sip' = [sip EXCEPT ![c] = "connecting"] /\ Sends(c, "connecting")
          <5>1. sip[c] = "incoming" /\ port[c] # "open"
            BY <3>0, <3>9 DEF Answer, CallOK, FreshOK, RealOK, SimOK, Real, TypeOK
          <5> QED BY <1>1, <2>1, <3>9, <4>2, <5>1, SetupStep DEF Answer, counters, http, simul
        <4> QED BY <3>9, <4>1, <4>2 DEF Answer
      <3>10. CASE Connecting(c)
        <4>1. sip[c] = "calling" /\ port[c] # "open"
          BY <3>0, <3>10 DEF Connecting, CallOK, FreshOK, RealOK, SimOK, Real, TypeOK
        <4> QED BY <1>1, <2>1, <3>10, <4>1, SetupStep DEF Connecting, counters, http, simul
      <3>11. CASE Confirmed(c)
        <4>1. /\ sip[c] = "connecting" /\ sip' = [sip EXCEPT ![c] = "confirmed"]
              /\ setupMedia(c) /\ Sends(c, "in-progress")
              /\ UNCHANGED <<current_calls, pc, mine, kind, place, cb, pump, terminated>>
          BY <3>11 DEF Confirmed, http, simul
        <4>2. \A d \in Calls : d # c => port'[d] = port[d]
          BY <3>0, <4>1 DEF setupMedia, TypeOK
        <4> QED BY <1>1, <2>1, <4>1, <4>2, SetupStep
      <3>12. CASE RemoteHangup(c)
        BY <1>1, <2>1, <3>12, DisconnectStep DEF RemoteHangup, Live, http, simul
      <3>13. CASE WebSocketClosed(c)
        <4>1. CASE Live(c) /\ Disconnected(c)
          BY <1>1, <2>1, <3>13, <4>1, DisconnectStep DEF WebSocketClosed, Live, http, simul
        <4>2. CASE UNCHANGED <<real, current_calls>>
          BY <1>1, <2>1, <3>13, <4>2, FaultStep DEF WebSocketClosed, state, http, simul, real
        <4> QED BY <3>13, <4>1, <4>2 DEF WebSocketClosed
      <3>14. CASE HangupCall(c)
        <4>1. CASE sip[c] # "over" /\ Disconnected(c) /\ Moves(c, "closing")
          <5>1. sip[c] # "none" /\ place[c] = "checked"
            BY <3>0, <3>14 DEF HangupCall, CallOK, FreshOK, RealOK, SimOK, Real, TypeOK
          <5> QED BY <1>1, <2>1, <3>14, <4>1, <5>1, DisconnectStep DEF HangupCall, http, simul
        <4>2. CASE UNCHANGED <<place, real, current_calls>>
          BY <1>1, <2>1, <3>14, <4>2, FaultStep DEF HangupCall, state, http, simul, real
        <4> QED BY <3>14, <4>1, <4>2 DEF HangupCall
      <3> QED BY <2>3, <3>1, <3>2, <3>3, <3>4, <3>5, <3>6, <3>7, <3>8, <3>9, <3>10, <3>11,
                 <3>12, <3>13, <3>14, <3>15, <3>16 DEF Progress, Environment
    <2> QED BY <1>1, <2>2, <2>3 DEF Next
  <1>2. ASSUME IInv, UNCHANGED vars PROVE IInv'
    <2>1. TypeOK' /\ UNCHANGED <<current_calls, pc, mine, kind, state>>
      BY <1>2 DEF vars, counters, http, real, simul, state, IInv, TypeOK
    <2> QED BY <1>2, <2>1, FaultStep
  <1> QED BY <1>1, <1>2

\* The invariant holds in every reachable state of the server.
LEMMA Inductive == Spec => []IInv
  BY InitIInv, NextIInv, PTL DEF Spec

-----------------------------------------------------------------------------
\* Every variable keeps its type; webhooks are those of the code.
THEOREM TypeCorrect == Spec => []TypeOK
  <1>1. IInv => TypeOK
    BY DEF IInv
  <1> QED BY <1>1, Inductive, PTL

\* The sum, and the bound on the counter, say what drift the counter has and
\* what follows for the calls in progress.
LEMMA DriftOfSum == IInv => CountersSound
  <1> SUFFICES ASSUME IInv PROVE CountersSound
    OBVIOUS
  <1> DEFINE Going == {c \in Calls : pump[c] # "none" /\ place[c] # "frame" /\ ~Finished(c)}
             Gone == {c \in Calls : pump[c] # "none" /\ place[c] # "frame" /\ Finished(c)}
  <1>1. \A c \in Calls : /\ Finished(c) /\ pump[c] = "none" => kind[c] = "sim"
                         /\ kind[c] = "sim" /\ pump[c] = "none" => Finished(c)
                         /\ kind[c] \in {"out", "in"} => pump[c] = "none"
    <2> SUFFICES ASSUME NEW c \in Calls
                 PROVE  /\ Finished(c) /\ pump[c] = "none" => kind[c] = "sim"
                        /\ kind[c] = "sim" /\ pump[c] = "none" => Finished(c)
                        /\ kind[c] \in {"out", "in"} => pump[c] = "none"
      OBVIOUS
    <2>1. CallOK(c) /\ kind[c] \in {"none", "out", "in", "sim"}
      BY DEF IInv, TypeOK
    <2>2. kind[c] = "none" => ~Finished(c)
      BY <2>1 DEF CallOK, FreshOK, Finished, Reported
    <2>3. Real(c) => ~Finished(c) /\ pump[c] = "none"
      BY <2>1 DEF CallOK, RealOK, Finished, Reported
    <2>4. kind[c] = "sim" /\ pump[c] = "none" => Finished(c)
      BY <2>1 DEF CallOK, SimOK
    <2> QED BY <2>1, <2>2, <2>3, <2>4 DEF Real
  <1>2. /\ InProgress = RealCounted \cup Going /\ RealCounted \cap Going = {}
        /\ SimInserted = Going \cup Gone /\ Going \cap Gone = {}
        /\ SimFinished = Gone \cup (FailedStarts \cup FinishedEarly)
        /\ Gone \cap (FailedStarts \cup FinishedEarly) = {}
        /\ FailedStarts \cap FinishedEarly = {}
    BY <1>1 DEF InProgress, RealCounted, SimInserted, SimFinished, FailedStarts, FinishedEarly
  <1>3. /\ RealCounted \subseteq Calls /\ Going \subseteq Calls /\ Gone \subseteq Calls
        /\ FailedStarts \subseteq Calls /\ FinishedEarly \subseteq Calls
        /\ Inbound \subseteq Calls /\ Admitted \subseteq Threads
    BY DEF RealCounted, FailedStarts, FinishedEarly, Inbound, Admitted
  <1> HIDE DEF Going, Gone
  <1>4. /\ IsFiniteSet(RealCounted) /\ IsFiniteSet(Going) /\ IsFiniteSet(Gone)
        /\ IsFiniteSet(FailedStarts) /\ IsFiniteSet(FinishedEarly)
        /\ IsFiniteSet(FailedStarts \cup FinishedEarly)
        /\ IsFiniteSet(Inbound) /\ IsFiniteSet(Admitted)
    <2>1. \A S : S \subseteq Calls => IsFiniteSet(S)
      BY CMAssumption, FS_Subset
    <2>2. \A S : S \subseteq Threads => IsFiniteSet(S)
      BY CMAssumption, FS_Subset
    <2>3. FailedStarts \cup FinishedEarly \subseteq Calls
      BY <1>3
    <2> QED BY <1>3, <2>1, <2>2, <2>3
  <1>5. \A S, T : IsFiniteSet(S) /\ IsFiniteSet(T) /\ S \cap T = {} =>
                   /\ Cardinality(S) \in Nat /\ Cardinality(T) \in Nat
                   /\ Cardinality(S \cup T) = Cardinality(S) + Cardinality(T)
    <2> SUFFICES ASSUME NEW S, NEW T, IsFiniteSet(S), IsFiniteSet(T), S \cap T = {}
                 PROVE  /\ Cardinality(S) \in Nat /\ Cardinality(T) \in Nat
                        /\ Cardinality(S \cup T) = Cardinality(S) + Cardinality(T)
      OBVIOUS
    <2>1. Cardinality(S \cup T) = Cardinality(S) + Cardinality(T) - Cardinality(S \cap T)
      BY FS_Union
    <2>2. Cardinality(S \cap T) = 0
      BY FS_EmptySet
    <2> QED BY <2>1, <2>2, FS_CardinalityType
  <1>6. /\ Cardinality(InProgress) = Cardinality(RealCounted) + Cardinality(Going)
        /\ Cardinality(SimInserted) = Cardinality(Going) + Cardinality(Gone)
        /\ Cardinality(SimFinished)
             = Cardinality(Gone) + Cardinality(FailedStarts \cup FinishedEarly)
        /\ Cardinality(FailedStarts \cup FinishedEarly)
             = Cardinality(FailedStarts) + Cardinality(FinishedEarly)
    BY <1>2, <1>4, <1>5
  <1>7. /\ Cardinality(RealCounted) \in Nat /\ Cardinality(Going) \in Nat
        /\ Cardinality(Gone) \in Nat /\ Cardinality(FailedStarts) \in Nat
        /\ Cardinality(FinishedEarly) \in Nat /\ Cardinality(Inbound) \in Nat
        /\ Cardinality(Admitted) \in Nat /\ Cardinality(Threads) \in Nat
        /\ current_calls \in Int /\ MaxCalls \in Nat
    BY <1>4, FS_CardinalityType, CMAssumption DEF IInv, TypeOK
  <1>8. DriftExplained
    BY <1>6, <1>7 DEF IInv, Accounting, DriftExplained
  <1>9. OvershootBounded
    BY <1>7, <1>8, <1>6 DEF IInv, CounterBounded, DriftExplained, OvershootBounded
  <1> QED BY <1>8, <1>9 DEF CountersSound

\* Whoever ends a call (pump, endCall, PJSIP, the WebSocket), current_calls is
\* incremented and decremented once for it, except that every simulated call
\* that could not connect is discounted without having been counted: the
\* counter is short by exactly those (and, for a moment, by simulated calls
\* that end before they are counted), and the calls in progress exceed the
\* limit at most by the other threads, inbound calls and that drift.
THEOREM CounterDrift == Spec => []CountersSound
  BY DriftOfSum, Inductive, PTL

\* The customer is told of the end of a call at most once, and of nothing after
\* it when the call is a SIP call; only a simulated call that cannot connect is
\* reported twice, as failed and as completed.
THEOREM EndOnce == Spec => []EndReportedOnce
  <1>1. IInv => EndReportedOnce
    <2> SUFFICES ASSUME IInv, NEW c \in Calls
                 PROVE  \/ c \in FailedStarts /\ hooks[c] = <<"fail", "completed">>
                        \/ c \notin FailedStarts /\ \A i, j \in DOMAIN hooks[c] :
                             hooks[c][i] \in Terminal =>
                               /\ hooks[c][j] \in Terminal => i = j
                               /\ kind[c] # "sim" => j <= i
      BY DEF EndReportedOnce
    <2>1. TypeOK /\ CallOK(c) /\ hooks[c] \in Seq(Events)
      BY DEF IInv, TypeOK
    <2>2. \A i \in DOMAIN hooks[c] : i \in 1..Len(hooks[c]) /\ Len(hooks[c]) \in Nat
      BY <2>1
    <2>3. CASE kind[c] = "none"
      BY <2>1, <2>2, <2>3 DEF CallOK, FreshOK, FailedStarts
    <2>4. CASE Real(c)
      <3>1. c \notin FailedStarts /\ kind[c] # "sim"
        BY <2>4 DEF FailedStarts, Real
      <3>2. \A i \in DOMAIN hooks[c] : hooks[c][i] \in Terminal => i = Len(hooks[c])
        BY <2>1, <2>4 DEF CallOK, RealOK, Terminal
      <3> QED BY <2>2, <3>1, <3>2
    <2>5. CASE kind[c] = "sim" /\ pump[c] = "none"
      BY <2>1, <2>5 DEF CallOK, SimOK, FailedStarts
    <2>6. CASE kind[c] = "sim" /\ pump[c] # "none"
      BY <2>1, <2>6 DEF CallOK, SimOK, Terminal, FailedStarts
    <2> QED BY <2>1, <2>3, <2>4, <2>5, <2>6 DEF TypeOK, Real
  <1> QED BY <1>1, Inductive, PTL

\* endCall's thread never destroys a SIP call that PJSIP has not ended: the
\* callback has discounted it and the media port is out of use.
THEOREM DestroyedOver == Spec => []DestroyedWhenOver
  <1>1. IInv => DestroyedWhenOver
    <2> SUFFICES ASSUME IInv, NEW c \in Calls, place[c] = "freed", kind[c] # "sim"
                 PROVE  sip[c] = "over" /\ port[c] # "open" /\ cb[c] # "none"
      BY DEF DestroyedWhenOver
    <2> QED BY DEF IInv, TypeOK, CallOK, FreshOK, RealOK, Real
  <1> QED BY <1>1, Inductive, PTL
=============================================================================
