----------------------------- MODULE AudioQueue -----------------------------
(***************************************************************************)
(* Playback of the agent's audio in WebSocketAudioHandler.  The message    *)
(* handler, on ws_thread, cuts chunks of any length into frames and queues *)
(* them; PJSIP's media clock takes a frame every 20 ms, unless ringback is *)
(* played; a transfer thread clears the queue, rings and switches to the   *)
(* realtime mode.  The three share the queue under queue_mutex, and the    *)
(* checkpoint's flag, id and ringing_active without any lock.              *)
(*                                                                         *)
(* Audio is a stream of bytes: a frame is the position of its first byte   *)
(* in all that was ever enqueued, partial_frame the number of bytes after  *)
(* the last frame.  clear_audio_called is false whenever queue_mutex is    *)
(* free, so it is left out.  After ws_client.close() websocketpp hands no  *)
(* message to the handler.                                                 *)
(***************************************************************************)
EXTENDS Integers, Sequences

CONSTANTS
  bytes_per_frame,
  MAX_QUEUE_SIZE_RUPTURE,
  MAX_QUEUE_SIZE_DEFAULT,
  ChunkSizes,      \* sizes of a decoded playAudio payload, in bytes
  MaxBytes,        \* bound: bytes enqueued in a call
  MaxCheckpoints,  \* bound: checkpoints of a call
  MaxTransfers,    \* bound: transfers of a call
  MayDrop          \* may the connection drop and be restored?

ASSUME AQAssumption ==
  /\ bytes_per_frame \in Nat \ {0} /\ bytes_per_frame % 2 = 0
  /\ MAX_QUEUE_SIZE_RUPTURE \in Nat \ {0}
  /\ MAX_QUEUE_SIZE_DEFAULT \in Nat /\ MAX_QUEUE_SIZE_RUPTURE <= MAX_QUEUE_SIZE_DEFAULT
  /\ ChunkSizes \subseteq Nat
  /\ MaxBytes \in Nat /\ MaxCheckpoints \in Nat /\ MaxTransfers \in Nat
  /\ MayDrop \in BOOLEAN

Ids == 1..MaxCheckpoints
NoId == 0                \* the empty pending_stream_id

VARIABLES
  audio_queue, partial_frame,
  REAL_TIME_AUDIO,
  checkpoint_received, pending_stream_id,
  msg,             \* id the checkpoint handler has yet to store, or NoId
  ringing_active,
  connected,
  transfer,        \* progress of the transfer thread
  transfers,       \* history: transfers started
  received,        \* history: bytes enqueued
  played,          \* history: where the last frame played ended
  cut,             \* history: received at the last clear
  marks,           \* history: marks[k] is received at checkpoint k
  acks             \* history: playedStream events sent

queue == <<audio_queue, partial_frame>>
checkpoint == <<checkpoint_received, pending_stream_id>>
switch == <<REAL_TIME_AUDIO, connected, transfer, transfers>>
vars == <<queue, checkpoint, msg, ringing_active, switch, received, played, cut, marks, acks>>

TypeOK ==
  /\ audio_queue \in Seq(Nat) /\ Len(audio_queue) <= MAX_QUEUE_SIZE_DEFAULT
  /\ partial_frame \in Nat
  /\ REAL_TIME_AUDIO \in BOOLEAN /\ checkpoint_received \in BOOLEAN
  /\ pending_stream_id \in Ids \cup {NoId} /\ msg \in Ids \cup {NoId}
  /\ ringing_active \in BOOLEAN /\ connected \in BOOLEAN
  /\ transfer \in {"none", "clear", "ring", "close", "connect"}
  /\ transfers \in 0..MaxTransfers
  /\ received \in 0..MaxBytes /\ played \in 0..MaxBytes /\ cut \in 0..MaxBytes
  /\ marks \in Seq(Nat) /\ Len(marks) <= MaxCheckpoints
  /\ acks \in Seq(Ids)

Init ==
  /\ audio_queue = <<>> /\ partial_frame = 0
  /\ REAL_TIME_AUDIO \in BOOLEAN
  /\ checkpoint_received = FALSE /\ pending_stream_id = NoId /\ msg = NoId
  /\ ringing_active = FALSE
  /\ connected = TRUE
  /\ transfer = "none" /\ transfers = 0
  /\ received = 0 /\ played = 0 /\ cut = 0 /\ marks = <<>> /\ acks = <<>>

-----------------------------------------------------------------------------
(* Messages of the agent *)

resetCheckpointState == checkpoint_received' = FALSE /\ pending_stream_id' = NoId

\* A plausible bug: the carry-over is kept.
clearAudioQueueKeepingCarry ==
  /\ audio_queue' = <<>> /\ UNCHANGED partial_frame
  /\ cut' = received
  /\ resetCheckpointState

clearAudioQueue ==
  /\ audio_queue' = <<>> /\ partial_frame' = 0
  /\ cut' = received
  /\ resetCheckpointState

\* The k frames that start at byte from.
Frames(from, k) == [i \in 1..k |-> from + (i - 1) * bytes_per_frame]

Least(a, b) == IF a <= b THEN a ELSE b

\* 16-bit PCM: an odd last byte is dropped.
Even(size) == size - (size % 2)

\* Realtime: each frame pushed onto a queue at its limit pops the oldest one,
\* so a queue that is longer never grows, and never shrinks either.
Pushed(q, new) ==
  LET all == q \o new
      limit == IF Len(q) <= MAX_QUEUE_SIZE_RUPTURE THEN MAX_QUEUE_SIZE_RUPTURE ELSE Len(q)
  IN SubSeq(all, Len(all) - Least(Len(all), limit) + 1, Len(all))

\* A plausible bug: one frame more than the limit.
RoomForOneMore(q) == MAX_QUEUE_SIZE_DEFAULT + 1 - Len(q)

Room(q) == MAX_QUEUE_SIZE_DEFAULT - Len(q)

\* enqueueAudio: the new bytes join the carry-over, full frames are queued
\* while there is room (or always, in realtime), the rest is the carry-over.
enqueueAudio(size, q, carry) ==
  LET total == carry + Even(size)
      full == total \div bytes_per_frame
      moved == IF REAL_TIME_AUDIO THEN full ELSE Least(full, Room(q))
      new == Frames(received - carry, moved)
  IN /\ audio_queue' = IF REAL_TIME_AUDIO THEN Pushed(q, new) ELSE q \o new
     /\ partial_frame' = total - moved * bytes_per_frame
     /\ received' = received + Even(size)

\* playAudio while nothing rings.
PlayAudio(size) ==
  /\ connected /\ msg = NoId /\ received + size <= MaxBytes
  /\ ~ringing_active
  /\ enqueueAudio(size, audio_queue, partial_frame)
  /\ UNCHANGED <<cut, checkpoint, msg, ringing_active, switch, played, marks, acks>>

\* playAudio while ringback is played ends it, and clears what was queued.
PlayAudioOverRinging(size) ==
  /\ connected /\ msg = NoId /\ received + size <= MaxBytes
  /\ ringing_active /\ ringing_active' = FALSE
  /\ resetCheckpointState
  /\ cut' = received
  /\ enqueueAudio(size, <<>>, 0)
  /\ UNCHANGED <<msg, switch, played, marks, acks>>

ClearAudio ==
  /\ connected /\ msg = NoId
  /\ clearAudioQueue
  /\ UNCHANGED <<msg, ringing_active, switch, received, played, marks, acks>>

\* The checkpoint handler sets the flag, then the id, without queue_mutex.
CheckpointFlag ==
  /\ connected /\ msg = NoId /\ Len(marks) < MaxCheckpoints
  /\ checkpoint_received' = TRUE
  /\ msg' = Len(marks) + 1
  /\ marks' = Append(marks, received)
  /\ UNCHANGED <<cut, queue, pending_stream_id, ringing_active, switch, received, played, acks>>

CheckpointId ==
  /\ msg # NoId
  /\ pending_stream_id' = msg /\ msg' = NoId
  /\ UNCHANGED <<cut, queue, checkpoint_received, ringing_active, switch, received, played,
                 marks, acks>>

-----------------------------------------------------------------------------
(* The media clock *)

\* sendPlayedStreamEvent returns early, and keeps the flag, when there is no
\* connection or no id.
sendPlayedStreamEvent ==
  \/ /\ ~connected \/ pending_stream_id = NoId
     /\ UNCHANGED <<checkpoint, acks>>
  \/ /\ connected /\ pending_stream_id # NoId
     /\ acks' = Append(acks, pending_stream_id)
     /\ resetCheckpointState

\* A plausible bug: the queue is looked at before the frame is taken.
getAudioFrameLooksFirst ==
  /\ ~ringing_active /\ audio_queue # <<>>
  /\ audio_queue' = Tail(audio_queue)
  /\ played' = Head(audio_queue) + bytes_per_frame
  /\ UNCHANGED <<cut, partial_frame, checkpoint, msg, ringing_active, switch, received, marks, acks>>

\* A plausible bug: the queue need not be empty, only short.
getAudioFrameAcksEarly ==
  /\ ~ringing_active /\ audio_queue # <<>>
  /\ audio_queue' = Tail(audio_queue)
  /\ played' = Head(audio_queue) + bytes_per_frame
  /\ \/ checkpoint_received /\ Len(audio_queue') <= 1 /\ sendPlayedStreamEvent
     \/ ~(checkpoint_received /\ Len(audio_queue') <= 1) /\ UNCHANGED <<checkpoint, acks>>
  /\ UNCHANGED <<cut, partial_frame, msg, ringing_active, switch, received, marks>>

\* getAudioFrame takes the oldest frame; the last one of the queue makes a
\* checkpoint due.  While ringback is played it is not called, and from an
\* empty queue it gets nothing.
getAudioFrame ==
  /\ ~ringing_active /\ audio_queue # <<>>
  /\ audio_queue' = Tail(audio_queue)
  /\ played' = Head(audio_queue) + bytes_per_frame
  /\ \/ checkpoint_received /\ Tail(audio_queue) = <<>> /\ sendPlayedStreamEvent
     \/ ~(checkpoint_received /\ Tail(audio_queue) = <<>>) /\ UNCHANGED <<checkpoint, acks>>
  /\ UNCHANGED <<cut, partial_frame, msg, ringing_active, switch, received, marks>>

-----------------------------------------------------------------------------
(* Transfers and drops *)

\* agentTransfer or humanTransfer: the rest happens on its own thread.
TransferEvent ==
  /\ connected /\ msg = NoId /\ transfer = "none" /\ transfers < MaxTransfers
  /\ transfer' = "clear" /\ transfers' = transfers + 1
  /\ UNCHANGED <<cut, queue, checkpoint, msg, ringing_active, REAL_TIME_AUDIO, connected,
                 received, played, marks, acks>>

TransferClears ==
  /\ transfer = "clear"
  /\ clearAudioQueue
  /\ transfer' = "ring"
  /\ UNCHANGED <<msg, ringing_active, REAL_TIME_AUDIO, connected, transfers, received,
                 played, marks, acks>>

\* startRinging, for a human and when the file can be read.
startRinging ==
  /\ transfer = "ring"
  /\ ringing_active' \in {ringing_active, TRUE}
  /\ transfer' = "close"
  /\ UNCHANGED <<cut, queue, checkpoint, msg, REAL_TIME_AUDIO, connected, transfers,
                 received, played, marks, acks>>

TransferCloses ==
  /\ transfer = "close"
  /\ connected' = FALSE
  /\ transfer' = "connect"
  /\ UNCHANGED <<cut, queue, checkpoint, msg, ringing_active, REAL_TIME_AUDIO, transfers,
                 received, played, marks, acks>>

\* The new peer: realtime for a human or a rupture agent.  A transfer that
\* fails stops the ringback and ends the call.
TransferConnects ==
  /\ transfer = "connect"
  /\ \/ connected' = TRUE /\ UNCHANGED ringing_active
        /\ REAL_TIME_AUDIO' \in {REAL_TIME_AUDIO, TRUE}
     \/ ringing_active' = FALSE /\ UNCHANGED <<connected, REAL_TIME_AUDIO>>
  /\ transfer' = "none"
  /\ UNCHANGED <<cut, queue, checkpoint, msg, transfers, received, played, marks, acks>>

\* The connection drops, and a reconnect restores it.
LinkFlips ==
  /\ MayDrop /\ transfer = "none"
  /\ connected' = ~connected
  /\ UNCHANGED <<cut, queue, checkpoint, msg, ringing_active, REAL_TIME_AUDIO, transfer,
                 transfers, received, played, marks, acks>>

-----------------------------------------------------------------------------
Message ==
  \/ \E size \in ChunkSizes : PlayAudio(size) \/ PlayAudioOverRinging(size)
  \/ ClearAudio \/ CheckpointFlag \/ TransferEvent

Transfer == TransferClears \/ startRinging \/ TransferCloses \/ TransferConnects

Next == Message \/ CheckpointId \/ getAudioFrame \/ Transfer \/ LinkFlips

Spec == Init /\ [][Next]_vars

\* PJSIP's clock asks for frames forever, and a handler runs to its end.
FairSpec == Spec /\ WF_vars(getAudioFrame) /\ WF_vars(CheckpointId)

-----------------------------------------------------------------------------
(* Properties *)

\* Whatever the chunk sizes, overflows, clears and mode switches: the queued
\* frames and the carry-over are the last bytes enqueued, without a gap or a
\* repetition.
Contiguous ==
  \A i \in DOMAIN audio_queue :
    audio_queue[i] + (Len(audio_queue) - i + 1) * bytes_per_frame + partial_frame = received

\* No byte is played twice or after a later one: what is queued is newer than
\* what was played.
PlaysForward ==
  /\ played <= received
  /\ audio_queue # <<>> => played <= audio_queue[1]

\* An interruption is complete: after clearAudio, a transfer or the end of the
\* ringback nothing enqueued before is played, not even as part of a frame.
NothingStale ==
  /\ partial_frame <= received - cut
  /\ \A i \in DOMAIN audio_queue : audio_queue[i] >= cut

\* The agent's audio is played without gap, repetition or remains.
StreamIntact == Contiguous /\ PlaysForward /\ NothingStale

\* A checkpoint that is complete while audio is queued is acknowledged, unless
\* a clear or a later checkpoint replaces it or the connection is lost; an
\* agent that never stops sending audio keeps the queue from running empty.
CheckpointAcked ==
  \A k \in Ids :
    (pending_stream_id = k /\ checkpoint_received /\ audio_queue # <<>>)
      ~> (\E i \in DOMAIN acks : acks[i] = k) \/ pending_stream_id # k \/ msg # NoId
         \/ ~connected \/ ringing_active

\* Checkpoints are acknowledged at most once, in their order, and only when they
\* are reached (src/README.md:96): all audio received before one has been played
\* or dropped, except what waits in partial_frame, which is less than a frame, or
\* whole frames that a full queue left there.
AcksTruthful ==
  [][\A k \in Ids : acks' = Append(acks, k) =>
       /\ \A i \in DOMAIN acks : acks[i] < k
       /\ played' + partial_frame' >= marks[k]]_vars
=============================================================================
