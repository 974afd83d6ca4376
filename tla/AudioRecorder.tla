--------------------------- MODULE AudioRecorder ---------------------------
(***************************************************************************)
(* The recording of one call: AudioMixer with its two pending buffers and  *)
(* two outputs (audio_buffer: both parties, user_only_buffer: the caller), *)
(* and AudioRecorder, which starts, discards, stops and hands the outputs  *)
(* to the upload pool.                                                     *)
(*                                                                         *)
(* One media thread (PJMEDIA's clock, or the pump of a simulated call)     *)
(* takes a frame from the playback queue or from the call, and only then   *)
(* locks the recorder to write it.  A transfer thread discards, and the    *)
(* call's callbacks start and stop, at any time in between.  Every method  *)
(* of the recorder holds its mutex from beginning to end, so each is one   *)
(* step.                                                                   *)
(*                                                                         *)
(* A frame is its number in its stream and the time at which it was added; *)
(* the unit of time is the 20 ms of one frame.  user_silence_count and     *)
(* last_user_frame are written by the code and never read.                 *)
(***************************************************************************)
EXTENDS Integers, Sequences, Functions

CONSTANTS
  MAX_BUFFER_SIZE,    \* pending frames per stream
  MAX_SILENCE_FRAMES, \* silent frames after which the agent counts as inactive
  WINDOW,             \* 1000 ms: time after which the agent counts as inactive
  SYNC,               \* 2 * FRAME_DURATION_MS: frames further apart are not mixed
  MaxBurst,           \* bound: frames of the caller delivered ahead of the clock
  MaxFrames,          \* bound: MaxFrames[s] frames of stream s
  MaxTime,            \* bound: time
  None                \* no frame, no mixer

Streams == {"agent", "user"}

VARIABLES
  is_recording,
  mixer,    \* the AudioMixer, None after a stop
  uploads,  \* what was handed to UploadManager, in order
  hand,     \* the frame the media thread has taken and not yet written
  taken,    \* taken[s]: number of frames of stream s taken so far
  ahead,    \* how many frames the caller's stream is ahead of one per period
  now,
  life,     \* "new", "up" (answered), "down" (stopped), "gone" (destroyed)
  floor     \* history: floor[s] is the first frame of s written after the last discard

vars == <<is_recording, mixer, uploads, hand, taken, ahead, now, life, floor>>

Pending(s) == [n : 1..MaxFrames[s], t : 0..MaxTime]
Entry == [agent : 0..MaxFrames["agent"], user : 0..MaxFrames["user"]]   \* 0: absent
Mixer == [agent_buffer : Seq(Pending("agent")), user_buffer : Seq(Pending("user")),
          audio_buffer : Seq(Entry), user_only_buffer : Seq(1..MaxFrames["user"]),
          agent_silence_count : Nat, agent_stream_active : BOOLEAN,
          user_stream_active : BOOLEAN, last_agent_frame : 0..MaxTime]
Upload == [folder : {"mixed", "user"}, length : Nat \ {0}]
Taken == [s : Streams, n : Nat \ {0}, silent : BOOLEAN]

ASSUME ARAssumption ==
  /\ MAX_BUFFER_SIZE \in Nat \ {0} /\ MAX_SILENCE_FRAMES \in Nat
  /\ WINDOW \in Nat /\ SYNC \in Nat /\ MaxBurst \in Nat \ {0}
  /\ MaxFrames \in [Streams -> Nat] /\ MaxTime \in Nat
  /\ None \notin Mixer /\ None \notin Taken

TypeOK ==
  /\ is_recording \in BOOLEAN
  /\ mixer \in Mixer \cup {None}
  /\ mixer # None =>
       /\ Len(mixer.agent_buffer) <= MAX_BUFFER_SIZE
       /\ Len(mixer.user_buffer) <= MAX_BUFFER_SIZE
  /\ uploads \in Seq(Upload)
  /\ hand \in Taken \cup {None}
  /\ taken \in [Streams -> Nat]
  /\ ahead \in 0..MaxBurst
  /\ now \in 0..MaxTime
  /\ life \in {"new", "up", "down", "gone"}
  /\ floor \in [Streams -> Nat \ {0}]

-----------------------------------------------------------------------------
(* AudioMixer *)

NewMixer ==
  [agent_buffer |-> <<>>, user_buffer |-> <<>>,
   audio_buffer |-> <<>>, user_only_buffer |-> <<>>,
   agent_silence_count |-> 0,
   agent_stream_active |-> FALSE, user_stream_active |-> FALSE,
   last_agent_frame |-> now]

\* Bug: only the outputs are cleared.
clearBuffersOutputs(m) ==
  [m EXCEPT !.audio_buffer = <<>>, !.user_only_buffer = <<>>,
            !.agent_silence_count = 0,
            !.agent_stream_active = FALSE, !.user_stream_active = FALSE]

clearBuffers(m) ==
  [m EXCEPT !.agent_buffer = <<>>, !.user_buffer = <<>>,
            !.audio_buffer = <<>>, !.user_only_buffer = <<>>,
            !.agent_silence_count = 0,
            !.agent_stream_active = FALSE, !.user_stream_active = FALSE]

\* Entries of the mixed recording: one frame alone, or a mixed pair.
AgentAlone(f) == [agent |-> f.n, user |-> 0]
UserAlone(f) == [agent |-> 0, user |-> f.n]
Both(a, u) == [agent |-> a.n, user |-> u.n]

Numbers(s) == [i \in DOMAIN s |-> s[i].n]

\* The branch for an inactive caller: writeSingleStream for every agent frame.
FlushAgent(m) ==
  [m EXCEPT !.audio_buffer =
              @ \o [i \in DOMAIN m.agent_buffer |-> AgentAlone(m.agent_buffer[i])],
            !.agent_buffer = <<>>]

\* Bug: the caller's own recording is forgotten.
FlushUserMixedOnly(m) ==
  [m EXCEPT !.audio_buffer =
              @ \o [i \in DOMAIN m.user_buffer |-> UserAlone(m.user_buffer[i])],
            !.user_buffer = <<>>]

\* The branch for an inactive agent: every caller frame to both outputs.
FlushUser(m) ==
  [m EXCEPT !.audio_buffer =
              @ \o [i \in DOMAIN m.user_buffer |-> UserAlone(m.user_buffer[i])],
            !.user_only_buffer = @ \o Numbers(m.user_buffer),
            !.user_buffer = <<>>]

\* One iteration of the loop over both buffers: the caller's frame goes to
\* user_only_buffer; of two frames more than SYNC apart the older one is written
\* alone and only that one is removed, others are mixed and both removed.
MixFront(m) ==
  LET a == Head(m.agent_buffer)
      u == Head(m.user_buffer)
      w == [m EXCEPT !.user_only_buffer = Append(@, u.n)]
  IN IF a.t - u.t > SYNC
     THEN [w EXCEPT !.audio_buffer = Append(@, UserAlone(u)), !.user_buffer = Tail(@)]
     ELSE IF u.t - a.t > SYNC
     THEN [w EXCEPT !.audio_buffer = Append(@, AgentAlone(a)), !.agent_buffer = Tail(@)]
     ELSE [w EXCEPT !.audio_buffer = Append(@, Both(a, u)),
                    !.agent_buffer = Tail(@), !.user_buffer = Tail(@)]

\* The condition of the loop.
BothPending(m) == m.agent_buffer # <<>> /\ m.user_buffer # <<>>

Iterate(m) == IF BothPending(m) THEN MixFront(m) ELSE m

\* Iterations[k]: the mixer after k iterations, or after the last one.
Iterations(m) == LET after[k \in Nat] == IF k = 0 THEN m ELSE Iterate(after[k - 1]) IN after

\* The loop: each iteration removes a frame, so it has as many at most as there
\* are frames pending.
MixBuffers(m) == Iterations(m)[Len(m.agent_buffer) + Len(m.user_buffer)]

processBuffers(m) ==
  IF m.agent_stream_active /\ ~m.user_stream_active THEN FlushAgent(m)
  ELSE IF ~m.agent_stream_active /\ m.user_stream_active THEN FlushUser(m)
  ELSE MixBuffers(m)

\* Bug: the agent counts as active for twice the time.
checkStreamActivityLater(m) ==
  [m EXCEPT !.agent_stream_active =
     @ /\ m.agent_silence_count <= MAX_SILENCE_FRAMES
       /\ now - m.last_agent_frame <= 2 * WINDOW]

\* Only the agent can become inactive: the check of the caller is commented out.
checkStreamActivity(m) ==
  [m EXCEPT !.agent_stream_active =
     @ /\ m.agent_silence_count <= MAX_SILENCE_FRAMES
       /\ now - m.last_agent_frame <= WINDOW]

\* The update of counters, time stamps and activity for a new frame.
Noted(m, f) ==
  IF f.s = "user" THEN [m EXCEPT !.user_stream_active = TRUE]
  ELSE [m EXCEPT !.agent_silence_count = IF f.silent THEN @ + 1 ELSE 0,
                 !.last_agent_frame = now, !.agent_stream_active = TRUE]

\* Bug: one frame more than the limit fits.
BufferedOneMore(buffer, n) ==
  LET longer == Append(buffer, [n |-> n, t |-> now])
  IN IF Len(longer) > MAX_BUFFER_SIZE + 1 THEN Tail(longer) ELSE longer

\* Bug: ">=" for ">".
BufferedOneLess(buffer, n) ==
  LET longer == Append(buffer, [n |-> n, t |-> now])
  IN IF Len(longer) >= MAX_BUFFER_SIZE THEN Tail(longer) ELSE longer

\* push_back, then pop_front while the buffer is too long.
Buffered(buffer, n) ==
  LET longer == Append(buffer, [n |-> n, t |-> now])
  IN IF Len(longer) > MAX_BUFFER_SIZE THEN Tail(longer) ELSE longer

addFrame(m, f) ==
  LET noted == Noted(m, f)
      pushed == IF f.s = "agent"
                THEN [noted EXCEPT !.agent_buffer = Buffered(@, f.n)]
                ELSE [noted EXCEPT !.user_buffer = Buffered(@, f.n)]
  IN processBuffers(checkStreamActivity(pushed))

-----------------------------------------------------------------------------
(* AudioRecorder *)

Init ==
  /\ is_recording = FALSE
  /\ now = 0
  /\ mixer = NewMixer
  /\ uploads = <<>>
  /\ hand = None
  /\ taken = [s \in Streams |-> 0]
  /\ ahead = 0
  /\ life = "new"
  /\ floor = [s \in Streams |-> 1]

\* onFrameRequested takes a frame the agent sent, onFrameReceived gets one of
\* the caller.  The clock delivers one of the caller per period on average, but
\* after a stall the pump and a media clock that catches up deliver several
\* back to back.
TakeFrame(s) ==
  /\ hand = None
  /\ life # "gone"
  /\ taken[s] < MaxFrames[s]
  /\ s = "user" => ahead < MaxBurst
  /\ \E silent \in (IF s = "agent" THEN BOOLEAN ELSE {FALSE}) :
       hand' = [s |-> s, n |-> taken[s] + 1, silent |-> silent]
  /\ taken' = [taken EXCEPT ![s] = @ + 1]
  /\ ahead' = IF s = "user" THEN ahead + 1 ELSE ahead
  /\ UNCHANGED <<is_recording, mixer, uploads, now, life, floor>>

writeFrame ==
  /\ hand # None
  /\ mixer' = IF is_recording /\ mixer # None THEN addFrame(mixer, hand) ELSE mixer
  /\ hand' = None
  /\ UNCHANGED <<is_recording, uploads, taken, ahead, now, life, floor>>

Tick ==
  /\ now < MaxTime
  /\ now' = now + 1
  /\ ahead' = IF ahead > 0 THEN ahead - 1 ELSE 0
  /\ UNCHANGED <<is_recording, mixer, uploads, hand, taken, life, floor>>

\* CONFIRMED, or the start of a simulated call: a fresh mixer.
startRecording ==
  /\ life = "new"
  /\ mixer' = IF is_recording THEN mixer ELSE NewMixer
  /\ is_recording' = TRUE
  /\ life' = "up"
  /\ UNCHANGED <<uploads, hand, taken, ahead, now, floor>>

\* A human transfer: everything recorded so far, and all that is pending, goes.
discardBufferedAudio ==
  /\ is_recording /\ mixer # None
  /\ mixer' = clearBuffers(mixer)
  /\ floor' = [s \in Streams |-> IF hand # None /\ hand.s = s THEN hand.n ELSE taken[s] + 1]
  /\ UNCHANGED <<is_recording, uploads, hand, taken, ahead, now, life>>

\* uploadAsync of an output that is not empty.
Uploaded(folder, output) ==
  IF output = <<>> THEN <<>> ELSE <<[folder |-> folder, length |-> Len(output)]>>

\* stopRecording: what is still pending in the mixer is not flushed.
stopRecording ==
  IF ~is_recording THEN UNCHANGED <<is_recording, mixer, uploads>>
  ELSE /\ is_recording' = FALSE
       /\ uploads' = uploads \o Uploaded("mixed", mixer.audio_buffer)
                             \o Uploaded("user", mixer.user_only_buffer)
       /\ mixer' = None

\* DISCONNECTED, the destructor of the call or the end of the pump.
CallStops ==
  /\ life \in {"new", "up", "down"}
  /\ stopRecording
  /\ life' = "down"
  /\ UNCHANGED <<hand, taken, ahead, now, floor>>

\* ~AudioRecorder stops once more; the media thread has left the port.
RecorderDestroyed ==
  /\ life \in {"new", "down"} /\ hand = None
  /\ stopRecording
  /\ life' = "gone"
  /\ UNCHANGED <<hand, taken, ahead, now, floor>>

Next ==
  \/ \E s \in Streams : TakeFrame(s)
  \/ writeFrame
  \/ Tick
  \/ startRecording \/ discardBufferedAudio
  \/ CallStops \/ RecorderDestroyed

Spec == Init /\ [][Next]_vars

-----------------------------------------------------------------------------
(* Properties *)

\* What the mixed recording has of each stream, entry by entry.
AgentColumn(output) == [i \in DOMAIN output |-> output[i].agent]
UserColumn(output) == [i \in DOMAIN output |-> output[i].user]

Agents(m) == Range(AgentColumn(m.audio_buffer)) \ {0}
Users(m) == Range(UserColumn(m.audio_buffer)) \ {0}

\* All frames that a stream has contributed, recorded or pending.
AgentTrail(m) == Agents(m) \cup Range(Numbers(m.agent_buffer))
UserTrail(m) == Users(m) \cup Range(Numbers(m.user_buffer))

\* Between two calls of addFrame at most one stream is ahead of the other: the
\* mixer always consumes as much as it can, whichever stream became inactive or
\* active, by silence or by the clock, in between.
OneSidePending ==
  mixer # None => mixer.agent_buffer = <<>> \/ mixer.user_buffer = <<>>

\* Frames are recorded in their order and once, the pending ones are newer, and
\* these are in order too.
InOrder(recorded, waiting) ==
  /\ \A i, j \in DOMAIN recorded :
       i < j /\ recorded[i] # 0 /\ recorded[j] # 0 => recorded[i] < recorded[j]
  /\ \A i \in DOMAIN recorded, j \in DOMAIN waiting : recorded[i] < waiting[j]
  /\ \A i, j \in DOMAIN waiting : i < j => waiting[i] < waiting[j]

\* The mixed recording and what is still pending hold each stream's frames in
\* order and each at most once, through drops at the limit, late streams,
\* changes between the three branches of processBuffers and discards.
RecordedInOrder ==
  mixer # None => /\ InOrder(AgentColumn(mixer.audio_buffer), Numbers(mixer.agent_buffer))
                  /\ InOrder(UserColumn(mixer.audio_buffer), Numbers(mixer.user_buffer))

\* The two recordings agree on the caller: whatever of the caller is in the
\* mixed recording is in the caller's own, and of what is still pending the
\* caller's own can have only the oldest frame in advance.
SidesAgree ==
  mixer # None =>
    LET only == Range(mixer.user_only_buffer)
        waiting == Numbers(mixer.user_buffer)
    IN /\ Users(mixer) \subseteq only
       /\ \A i \in DOMAIN waiting : waiting[i] \in only => i = 1

\* After a human transfer the recording contains no frame from before it, in
\* the outputs or pending, except the one the media thread held at that moment.
PostTransferOnly ==
  mixer # None =>
    /\ \A n \in AgentTrail(mixer) : n >= floor["agent"]
    /\ \A n \in UserTrail(mixer) \cup Range(mixer.user_only_buffer) : n >= floor["user"]

\* The limit of the pending buffer and the activity window are tuned to each
\* other: a pause of the agent costs at most SYNC + 1 consecutive frames of the
\* caller and as many as the clock delivers in a burst, although the caller's
\* frames are held back for the whole window.
CallerGapBounded ==
  mixer # None =>
    \A n, k \in UserTrail(mixer) :
      n < k => \E next \in UserTrail(mixer) : n < next /\ next <= n + SYNC + MaxBurst + 2

\* Each of the two recordings of a call is handed to the upload pool at most
\* once, although the callback, the destructor of the call and the destructor
\* of the recorder all stop it.
UploadedOnce ==
  \A i, j \in DOMAIN uploads : uploads[i].folder = uploads[j].folder => i = j

\* Both recordings are sound, from the first frame to the hand-over.
RecordingsSound == OneSidePending /\ RecordedInOrder /\ SidesAgree /\ UploadedOnce

\* A frame disappears unrecorded only when it is the oldest of a full buffer
\* while the other stream has nothing pending, or because of a discard or stop.
DropsOnlyWhenFull ==
  [][(mixer # None /\ mixer' # None /\ ~discardBufferedAudio) =>
       /\ \A n \in AgentTrail(mixer) \ AgentTrail(mixer') :
            /\ Len(mixer.agent_buffer) = MAX_BUFFER_SIZE /\ n = mixer.agent_buffer[1].n
            /\ mixer.user_buffer = <<>>
       /\ \A n \in UserTrail(mixer) \ UserTrail(mixer') :
            /\ Len(mixer.user_buffer) = MAX_BUFFER_SIZE /\ n = mixer.user_buffer[1].n
            /\ mixer.agent_buffer = <<>>]_vars

\* "This ensures each frame is only written once to user_only_buffer."
WrittenOnceToUserOnly ==
  mixer # None =>
    \A i, j \in DOMAIN mixer.user_only_buffer :
      mixer.user_only_buffer[i] = mixer.user_only_buffer[j] => i = j
=============================================================================
