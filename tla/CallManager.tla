---------------------------- MODULE CallManager ----------------------------
(***************************************************************************)
(* The calls of one media server: the admission check of initiateCall, the *)
(* maps active_calls and simulated_calls guarded by calls_mutex, the       *)
(* counter current_calls that the health check reports to the load         *)
(* balancer, and the life of a MyCall or SimulatedCall object.             *)
(*                                                                         *)
(* Actors: the HTTP threads, PJSIP's worker threads (callbacks), one       *)
(* detached thread per ended call, one cleanup thread per media port, one  *)
(* WebSocket thread per port and one audio pump per simulated call.  A     *)
(* step is one critical section of calls_mutex, or what a thread does      *)
(* between two points where the code waits (a sleep, a join, a lock).      *)
(*                                                                         *)
(* PJSIP 2.15.1 is external.  It has MAX_CONCURRENT_CALLS call slots and   *)
(* serialises the callbacks of one call; its hangup() of a live call runs  *)
(* the DISCONNECTED callback before it returns, and of a call that is over *)
(* throws pj::Error, which is not a std::exception.                        *)
(***************************************************************************)
EXTENDS Integers, Sequences, FiniteSets

CONSTANTS
  Threads,   \* HTTP threads that may serve POST /calls at the same time
  Calls,     \* call ids generateCallId returns
  MaxCalls,  \* MAX_CONCURRENT_CALLS
  Kinds,     \* kinds of calls that happen: "out", "in", "sim"
  EndCalls,  \* do clients call endCall?
  None       \* no call

ASSUME CMAssumption ==
  /\ IsFiniteSet(Threads) /\ IsFiniteSet(Calls)
  /\ MaxCalls \in Nat \ {0}
  /\ Kinds \subseteq {"out", "in", "sim"}
  /\ EndCalls \in BOOLEAN
  /\ None \notin Calls

VARIABLES
  current_calls,  \* the atomic counter
  answered_calls, \* answered_calls_count
  pc,             \* pc[t]: progress of thread t in initiateCall
  mine,           \* mine[t]: the SimulatedCall in thread t's frame
  kind,           \* kind[c]: what call c is, "none" before it is created
  place,          \* place[c]: who owns the object of call c
  sip,            \* sip[c]: PJSIP's state of the call
  port,           \* port[c]: the media port, with its WebSocket
  cb,             \* cb[c]: the DISCONNECTED callback
  pump,           \* pump[c]: the audio pump thread of a simulated call
  terminated,     \* terminated[c]: the flag of a simulated call
  late,           \* late[c]: disconnect() waits for a connection that opened late
  hooks,          \* hooks[c]: webhook events enqueued for call c
  fault           \* the first step with no defined outcome, or "none"

counters == <<current_calls, answered_calls>>
http == <<pc, mine>>
real == <<sip, port, cb>>
simul == <<pump, terminated, late>>
vars == <<counters, http, kind, place, real, simul, hooks, fault>>

Events == {"ringing", "connecting", "in-progress", "final", "fail", "completed"}
Faults == {"use_after_free", "null_call", "hangup_error", "joinable_thread"}

TypeOK ==
  /\ current_calls \in Int /\ answered_calls \in Nat
  /\ pc \in [Threads -> {"idle", "checked", "spawned", "started"}]
  /\ mine \in [Threads -> Calls \cup {None}]
  /\ kind \in [Calls -> {"none", "out", "in", "sim"}]
  /\ place \in [Calls -> {"none", "frame", "map", "hangup", "checked", "closing", "freed"}]
  /\ sip \in [Calls -> {"none", "incoming", "calling", "connecting", "confirmed", "over"}]
  /\ port \in [Calls -> {"none", "open", "detached", "deleted"}]
  /\ cb \in [Calls -> {"none", "sending", "done"}]
  /\ pump \in [Calls -> {"none", "running", "stopping", "closing", "done"}]
  /\ terminated \in [Calls -> BOOLEAN]
  /\ late \in [Calls -> BOOLEAN]
  /\ hooks \in [Calls -> Seq(Events)]
  /\ fault \in Faults \cup {"none"}

Init ==
  /\ current_calls = 0 /\ answered_calls = 0
  /\ pc = [t \in Threads |-> "idle"]
  /\ mine = [t \in Threads |-> None]
  /\ kind = [c \in Calls |-> "none"]
  /\ place = [c \in Calls |-> "none"]
  /\ sip = [c \in Calls |-> "none"]
  /\ port = [c \in Calls |-> "none"]
  /\ cb = [c \in Calls |-> "none"]
  /\ pump = [c \in Calls |-> "none"]
  /\ terminated = [c \in Calls |-> FALSE]
  /\ late = [c \in Calls |-> FALSE]
  /\ hooks = [c \in Calls |-> <<>>]
  /\ fault = "none"

Fresh(c) == kind[c] = "none"
Sends(c, e) == hooks' = [hooks EXCEPT ![c] = Append(@, e)]
Moves(c, p) == place' = [place EXCEPT ![c] = p]
decrementCallCounter == current_calls' = current_calls - 1

\* uaConfig.maxCalls: PJSIP gives a call no slot (makeCall fails, an INVITE is
\* refused) while this many have not left their last callback.
SlotFree ==
  Cardinality({c \in Calls : kind[c] \in {"out", "in"} /\ cb[c] # "done"}) < MaxCalls

-----------------------------------------------------------------------------
(* POST /calls *)

\* A plausible bug: comparing with > instead of >=.
CheckLimitOffByOne(t) ==
  /\ pc[t] = "idle" /\ current_calls <= MaxCalls
  /\ pc' = [pc EXCEPT ![t] = "checked"]
  /\ UNCHANGED <<counters, mine, kind, place, real, simul, hooks, fault>>

\* The limit is checked without a lock; at the limit the request is answered
\* 503 and nothing changes.
CheckLimit(t) ==
  /\ pc[t] = "idle" /\ current_calls < MaxCalls
  /\ pc' = [pc EXCEPT ![t] = "checked"]
  /\ UNCHANGED <<counters, mine, kind, place, real, simul, hooks, fault>>

\* Invalid parameters, no initialised endpoint, or an error of makeCall (no
\* slot, or the network).
Refuse(t) ==
  /\ pc[t] = "checked"
  /\ pc' = [pc EXCEPT ![t] = "idle"]
  /\ UNCHANGED <<counters, mine, kind, place, real, simul, hooks, fault>>

\* makeCall sends "ringing" from the CALLING callback; all under calls_mutex,
\* which a DISCONNECTED callback needs too.
PlaceCall(t, c) ==
  /\ pc[t] = "checked" /\ "out" \in Kinds /\ Fresh(c) /\ SlotFree
  /\ pc' = [pc EXCEPT ![t] = "idle"]
  /\ kind' = [kind EXCEPT ![c] = "out"]
  /\ sip' = [sip EXCEPT ![c] = "calling"]
  /\ Sends(c, "ringing")
  /\ Moves(c, "map")
  /\ current_calls' = current_calls + 1
  /\ UNCHANGED <<answered_calls, mine, port, cb, simul, fault>>

\* SimulatedCall::start up to the creation of the pump thread.
SimStart(t, c) ==
  /\ pc[t] = "checked" /\ "sim" \in Kinds /\ Fresh(c)
  /\ pc' = [pc EXCEPT ![t] = "spawned"]
  /\ mine' = [mine EXCEPT ![t] = c]
  /\ kind' = [kind EXCEPT ![c] = "sim"]
  /\ Moves(c, "frame")
  /\ pump' = [pump EXCEPT ![c] = "running"]
  /\ UNCHANGED <<counters, real, terminated, late, hooks, fault>>

\* The WebSocket cannot be connected: start returns false, and initiateCall
\* destroys the object, whose destructor terminates the call that never was:
\* its end is reported twice, and a call is discounted that was not counted.
SimStartFails(t, c) ==
  /\ pc[t] = "checked" /\ "sim" \in Kinds /\ Fresh(c)
  /\ pc' = [pc EXCEPT ![t] = "idle"]
  /\ kind' = [kind EXCEPT ![c] = "sim"]
  /\ Moves(c, "freed")
  /\ terminated' = [terminated EXCEPT ![c] = TRUE]
  /\ hooks' = [hooks EXCEPT ![c] = @ \o <<"fail", "completed">>]
  /\ decrementCallCounter
  /\ UNCHANGED <<answered_calls, mine, real, pump, late, fault>>

\* The end of start: the pump is already running.
SimRinging(t) ==
  /\ pc[t] = "spawned"
  /\ Sends(mine[t], "ringing")
  /\ pc' = [pc EXCEPT ![t] = "started"]
  /\ UNCHANGED <<counters, mine, kind, place, real, simul, fault>>

SimInsert(t) ==
  /\ pc[t] = "started"
  /\ Moves(mine[t], "map")
  /\ current_calls' = current_calls + 1
  /\ pc' = [pc EXCEPT ![t] = "idle"]
  /\ mine' = [mine EXCEPT ![t] = None]
  /\ UNCHANGED <<answered_calls, kind, real, simul, hooks, fault>>

-----------------------------------------------------------------------------
(* Simulated calls *)

\* The WebSocket's disconnect callback, or 60 seconds.
SimStops(c) ==
  /\ pump[c] = "running"
  /\ pump' = [pump EXCEPT ![c] = "stopping"]
  /\ UNCHANGED <<counters, http, kind, place, real, terminated, late, hooks, fault>>

\* A plausible bug: the pump cleans up without looking at the flag.
PumpLeavesUnguarded(c) ==
  /\ pump[c] = "stopping"
  /\ pump' = [pump EXCEPT ![c] = "closing"]
  /\ terminated' = [terminated EXCEPT ![c] = TRUE]
  /\ UNCHANGED <<counters, http, kind, place, real, late, hooks, fault>>

\* The pump has left its loop; it closes the WebSocket unless terminate() does.
PumpLeaves(c) ==
  /\ pump[c] = "stopping"
  /\ pump' = [pump EXCEPT ![c] = IF terminated[c] THEN "done" ELSE "closing"]
  /\ terminated' = [terminated EXCEPT ![c] = TRUE]
  /\ UNCHANGED <<counters, http, kind, place, real, late, hooks, fault>>

\* Its disconnect() has returned; the pump finishes the call and ends.
PumpEnds(c) ==
  /\ pump[c] = "closing" /\ ~late[c]
  /\ pump' = [pump EXCEPT ![c] = "done"]
  /\ Sends(c, "completed")
  /\ decrementCallCounter
  /\ UNCHANGED <<answered_calls, http, kind, place, real, terminated, late, fault>>

\* A plausible bug: waiting for the pump without telling it to stop.
SimTerminateNotStopping(c) ==
  /\ kind[c] = "sim" /\ place[c] = "hangup" /\ ~terminated[c]
  /\ Moves(c, "closing")
  /\ terminated' = [terminated EXCEPT ![c] = TRUE]
  /\ UNCHANGED <<counters, http, kind, real, pump, late, hooks, fault>>

\* The detached thread of endCall runs terminate().  When the pump already
\* finishes the call, terminate() returns at once, nobody has joined the
\* pump thread, and destroying the object aborts the process.
SimTerminate(c) ==
  /\ kind[c] = "sim" /\ place[c] = "hangup"
  /\ \/ /\ ~terminated[c]
        /\ Moves(c, "closing")
        /\ terminated' = [terminated EXCEPT ![c] = TRUE]
        /\ pump' = [pump EXCEPT ![c] = IF @ = "running" THEN "stopping" ELSE @]
        /\ UNCHANGED <<late, fault>>
     \/ /\ terminated[c]
        /\ Moves(c, "freed")
        /\ fault' = "joinable_thread"
        /\ UNCHANGED simul
  /\ UNCHANGED <<counters, http, kind, real, hooks>>

\* The pump is joined and disconnect() has returned; terminate() goes on and
\* the object is destroyed.
SimJoined(c) ==
  /\ kind[c] = "sim" /\ place[c] = "closing" /\ pump[c] = "done" /\ ~late[c]
  /\ Sends(c, "completed")
  /\ decrementCallCounter
  /\ Moves(c, "freed")
  /\ UNCHANGED <<answered_calls, http, kind, real, simul, fault>>

\* The pump or terminate() is in handler->disconnect(), which joins ws_thread.
InDisconnect(c) ==
  \/ pump[c] = "closing"
  \/ kind[c] = "sim" /\ place[c] = "closing" /\ pump[c] = "done"

\* A reconnect that was under way succeeds after disconnect() has found the
\* link down: nobody closes this connection, and ws_thread serves it until the
\* far end does (module WebSocketHandler: CleanupEndsUnlessLateOpen).
LateOpen(c) ==
  /\ InDisconnect(c) /\ ~late[c]
  /\ late' = [late EXCEPT ![c] = TRUE]
  /\ UNCHANGED <<counters, http, kind, place, real, pump, terminated, hooks, fault>>

FarEndCloses(c) ==
  /\ late[c]
  /\ late' = [late EXCEPT ![c] = FALSE]
  /\ UNCHANGED <<counters, http, kind, place, real, pump, terminated, hooks, fault>>

-----------------------------------------------------------------------------
(* Calls of PJSIP *)

\* onIncomingCall: no limit is checked.
IncomingCall(c) ==
  /\ "in" \in Kinds /\ Fresh(c) /\ SlotFree
  /\ kind' = [kind EXCEPT ![c] = "in"]
  /\ sip' = [sip EXCEPT ![c] = "incoming"]
  /\ Moves(c, "map")
  /\ current_calls' = current_calls + 1
  /\ UNCHANGED <<answered_calls, http, port, cb, simul, hooks, fault>>

\* The call is answered through active_calls[call_id], outside the lock: an
\* endCall in between leaves a null pointer there.
Answer(c) ==
  /\ sip[c] = "incoming"
  /\ \/ /\ place[c] = "map" /\ sip' = [sip EXCEPT ![c] = "connecting"]
        /\ Sends(c, "connecting") /\ UNCHANGED fault
     \/ place[c] # "map" /\ fault' = "null_call" /\ UNCHANGED <<sip, hooks>>
  /\ UNCHANGED <<counters, http, kind, place, port, cb, simul>>

\* A plausible bug: decrementing the wrong counter.
answeredDecremented == answered_calls' = answered_calls - 1

incrementAnsweredCallsCount == answered_calls' = answered_calls + 1

\* The 200 OK of an outbound call: onCallState(CONNECTING).
Connecting(c) ==
  /\ sip[c] = "calling"
  /\ sip' = [sip EXCEPT ![c] = "connecting"]
  /\ Sends(c, "connecting")
  /\ UNCHANGED <<counters, http, kind, place, port, cb, simul, fault>>

\* The media port is made and its WebSocket connected, once; a WebSocket that
\* cannot be connected leaves the port without one.
setupMedia(c) == port' = [port EXCEPT ![c] = "open"]

\* onCallState(CONFIRMED): setupMedia and startRecording.
Confirmed(c) ==
  /\ sip[c] = "connecting"
  /\ sip' = [sip EXCEPT ![c] = "confirmed"]
  /\ incrementAnsweredCallsCount
  /\ setupMedia(c)
  /\ Sends(c, "in-progress")
  /\ UNCHANGED <<current_calls, http, kind, place, cb, simul, fault>>

Live(c) == sip[c] \in {"calling", "connecting", "confirmed"}

\* onCallState(DISCONNECTED) up to the delay before the webhook: the port is
\* handed to a cleanup thread and the call is no longer counted.
Disconnected(c) ==
  /\ sip' = [sip EXCEPT ![c] = "over"]
  /\ port' = [port EXCEPT ![c] = IF @ = "open" THEN "detached" ELSE @]
  /\ cb' = [cb EXCEPT ![c] = "sending"]
  /\ decrementCallCounter

\* The other side hangs up, refuses or does not answer.
RemoteHangup(c) ==
  /\ Live(c)
  /\ Disconnected(c)
  /\ UNCHANGED <<answered_calls, http, kind, place, simul, hooks, fault>>

\* The rest of the callback, after up to three seconds: the webhook is sent
\* with the object's own strings.
FinalWebhook(c) ==
  /\ cb[c] = "sending"
  /\ cb' = [cb EXCEPT ![c] = "done"]
  /\ \/ place[c] # "freed" /\ Sends(c, "final") /\ UNCHANGED fault
     \/ place[c] = "freed" /\ fault' = "use_after_free" /\ UNCHANGED hooks
  /\ UNCHANGED <<counters, http, kind, place, sip, port, simul>>

\* onWebSocketDisconnected, on the port's WebSocket thread: the AI side
\* closed, or cleanup() did.
WebSocketClosed(c) ==
  /\ port[c] \in {"open", "detached"}
  /\ \/ place[c] # "freed" /\ Live(c) /\ Disconnected(c) /\ UNCHANGED fault
     \/ place[c] = "freed" /\ fault' = "use_after_free"
        /\ UNCHANGED <<real, current_calls>>
  /\ UNCHANGED <<answered_calls, http, kind, place, simul, hooks>>

\* The cleanup thread closes the WebSocket, for which it may have to wait just
\* as a simulated call does, and deletes the port.
CleanupPort(c) ==
  /\ port[c] = "detached"
  /\ port' = [port EXCEPT ![c] = "deleted"]
  /\ UNCHANGED <<counters, http, kind, place, sip, cb, simul, hooks, fault>>

-----------------------------------------------------------------------------
(* DELETE /calls/:callId *)

\* The object moves from its map to a detached thread.
EndCall(c) ==
  /\ EndCalls /\ place[c] = "map"
  /\ Moves(c, "hangup")
  /\ UNCHANGED <<counters, http, kind, real, simul, hooks, fault>>

\* ~MyCall: a port still there is cleaned up and deleted.
Destroy(c) ==
  /\ Moves(c, "freed")
  /\ port' = [port EXCEPT ![c] = IF @ = "open" THEN "deleted" ELSE @]

\* A plausible bug: destroying the object without hanging up.
HangupCheckOnly(c) ==
  /\ kind[c] # "sim" /\ place[c] = "hangup"
  /\ Destroy(c)
  /\ UNCHANGED <<counters, http, kind, sip, cb, simul, hooks, fault>>

\* getInfo: a call that is over needs no BYE and its object is destroyed.
HangupCheck(c) ==
  /\ kind[c] # "sim" /\ place[c] = "hangup"
  /\ \/ sip[c] # "over" /\ Moves(c, "checked") /\ UNCHANGED port
     \/ sip[c] = "over" /\ Destroy(c)
  /\ UNCHANGED <<counters, http, kind, sip, cb, simul, hooks, fault>>

\* hangup(): waits for onIncomingCall to return, then runs the DISCONNECTED
\* callback in this thread; its pj::Error on a call that ended in between is
\* caught nowhere in the thread.
HangupCall(c) ==
  /\ place[c] = "checked" /\ sip[c] # "incoming"
  /\ \/ sip[c] # "over" /\ Disconnected(c) /\ Moves(c, "closing") /\ UNCHANGED fault
     \/ sip[c] = "over" /\ fault' = "hangup_error"
        /\ UNCHANGED <<place, real, current_calls>>
  /\ UNCHANGED <<answered_calls, http, kind, simul, hooks>>

HangupReturns(c) ==
  /\ kind[c] # "sim" /\ place[c] = "closing" /\ cb[c] = "done"
  /\ Destroy(c)
  /\ UNCHANGED <<counters, http, kind, sip, cb, simul, hooks, fault>>

-----------------------------------------------------------------------------
(* The specification *)

Request(t) ==
  \/ CheckLimit(t) \/ Refuse(t) \/ SimRinging(t) \/ SimInsert(t)
  \/ \E c \in Calls : PlaceCall(t, c) \/ SimStart(t, c) \/ SimStartFails(t, c)

\* What the server's own threads do for call c once they are started.
Progress(c) ==
  \/ PumpLeaves(c) \/ PumpEnds(c) \/ SimTerminate(c) \/ SimJoined(c)
  \/ Answer(c) \/ FinalWebhook(c)
  \/ HangupCheck(c) \/ HangupCall(c) \/ HangupReturns(c)

\* What clients, the network and timers do, or may keep waiting.
Environment(c) ==
  \/ IncomingCall(c) \/ Connecting(c) \/ Confirmed(c) \/ RemoteHangup(c) \/ WebSocketClosed(c)
  \/ SimStops(c) \/ LateOpen(c) \/ FarEndCloses(c) \/ CleanupPort(c) \/ EndCall(c)

Next ==
  /\ fault = "none"
  /\ \/ \E t \in Threads : Request(t)
     \/ \E c \in Calls : Progress(c) \/ Environment(c)

Spec == Init /\ [][Next]_vars

\* Threads that have started run on; nobody has to call, to hang up or to
\* close a connection.
FairSpec ==
  /\ Spec
  /\ \A t \in Threads : WF_vars(fault = "none" /\ (SimRinging(t) \/ SimInsert(t)))
  /\ \A c \in Calls : WF_vars(fault = "none" /\ Progress(c))

-----------------------------------------------------------------------------
(* Properties *)

Reported(c, E) == \E i \in DOMAIN hooks[c] : hooks[c][i] \in E
Finished(c) == Reported(c, {"completed"})

RealCounted == {c \in Calls : kind[c] \in {"out", "in"} /\ cb[c] = "none"}

\* The calls there are: placed or accepted, and not over.
InProgress == RealCounted \cup {c \in Calls : pump[c] # "none" /\ place[c] # "frame" /\ ~Finished(c)}

\* Simulated calls that could not connect, and the ones that their pump has
\* finished before initiateCall counts them.
FailedStarts == {c \in Calls : kind[c] = "sim" /\ pump[c] = "none"}
FinishedEarly == {c \in Calls : pump[c] # "none" /\ place[c] = "frame" /\ Finished(c)}

\* The counter is not the number of calls.  Every simulated call that could
\* not connect takes one off for ever, since ~SimulatedCall discounts what
\* initiateCall never counted, and an early end takes one off until the call
\* is counted.  Nothing else makes it drift: every other call is counted and
\* discounted once, whoever of pump, endCall, PJSIP and WebSocket ends it.
DriftExplained ==
  current_calls + Cardinality(FailedStarts) + Cardinality(FinishedEarly) = Cardinality(InProgress)

Inbound == {c \in Calls : kind[c] = "in" /\ cb[c] = "none"}
Admitted == {t \in Threads : pc[t] # "idle"}

\* How far the calls in progress may exceed the limit: the check of
\* initiateCall takes no lock, does not see inbound calls, and compares with
\* the drifting counter, so each failed simulated start raises the limit.
OvershootBounded ==
  Cardinality(InProgress) + Cardinality(Admitted)
    <= MaxCalls - 1 + Cardinality(Threads) + Cardinality(Inbound)
       + Cardinality(FailedStarts) + Cardinality(FinishedEarly)

\* What drift the counter the load balancer routes by has, and how far
\* admission by it lets the calls run over the limit.
CountersSound == DriftExplained /\ OvershootBounded

Terminal == {"final", "fail", "completed"}

\* A call's end is reported at most once, and for a SIP call nothing is sent
\* after it; but a simulated call that cannot connect is reported to have
\* failed and then, by its destructor, to be completed.
EndReportedOnce ==
  \A c \in Calls :
    \/ c \in FailedStarts /\ hooks[c] = <<"fail", "completed">>
    \/ c \notin FailedStarts /\ \A i, j \in DOMAIN hooks[c] :
         hooks[c][i] \in Terminal =>
           /\ hooks[c][j] \in Terminal => i = j
           /\ kind[c] # "sim" => j <= i

\* endCall destroys a SIP call's object only after DISCONNECTED was handled:
\* the counter was decremented and the media port handed to its cleanup
\* thread, so ~MyCall never meets a port that is in use.
DestroyedWhenOver ==
  \A c \in Calls : place[c] = "freed" /\ kind[c] # "sim" =>
    sip[c] = "over" /\ port[c] # "open" /\ cb[c] # "none"

\* A call a client ends is reported over in the end, unless a fault stops the
\* process or, for a simulated call, a WebSocket connection that opened while
\* disconnect() joined its thread is kept open: nothing else holds up a thread
\* of endCall or the pump it waits for.
EndedCallReported ==
  \A c \in Calls :
    <>[]~late[c] => (place[c] = "hangup" ~> fault # "none" \/ Reported(c, Terminal))

\* call.cpp:330 "Do NOT access any member variables after this line!": an
\* object is destroyed only when its DISCONNECTED callback has returned.
ObjectOutlivesCallbacks ==
  \A c \in Calls : place[c] = "freed" /\ kind[c] # "sim" => cb[c] = "done"
=============================================================================
