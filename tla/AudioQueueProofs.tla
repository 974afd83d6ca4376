-------------------------- MODULE AudioQueueProofs --------------------------
(***************************************************************************)
(* For every frame length, every chunk size, every pair of queue limits    *)
(* and any number of chunks, clears, checkpoints and transfers: the audio  *)
(* queued is the end of what was received, nothing is played twice, out of *)
(* order or after an interruption, and an acknowledged checkpoint has been *)
(* reached.                                                                *)
(*                                                                         *)
(* StreamIntact is not inductive: an empty queue says nothing of what was  *)
(* played.  The invariant keeps what was played below the carry-over too,  *)
(* and below every queued frame, not only the first.  For checkpoints it   *)
(* orders the ids: those acknowledged, the pending one, and the one the    *)
(* message handler has yet to store.                                       *)
(***************************************************************************)
EXTENDS AudioQueue, SequenceTheorems, TLAPS

\* Frames q followed by carry bytes are the last ones of r.
Ends(q, carry, r) ==
  \A i \in DOMAIN q : q[i] + (Len(q) - i + 1) * bytes_per_frame + carry = r

AtLeast(low, q) == \A i \in DOMAIN q : low <= q[i]

\* What was played is before all that is not.
PlayedOK == played + partial_frame <= received /\ AtLeast(played, audio_queue)

\* Checkpoints are numbered as they arrive; the one in hand is the newest.
IdsOK ==
  /\ \A k \in DOMAIN marks : marks[k] <= received
  /\ pending_stream_id <= Len(marks)
  /\ msg # NoId => msg = Len(marks) /\ pending_stream_id < msg

\* Acknowledged ids are older than those that may still be acknowledged.
AcksOK ==
  \A i \in DOMAIN acks :
    /\ acks[i] <= Len(marks)
    /\ pending_stream_id # NoId => acks[i] < pending_stream_id
    /\ msg # NoId => acks[i] < msg

IInv == TypeOK /\ Contiguous /\ NothingStale /\ PlayedOK /\ IdsOK /\ AcksOK

-----------------------------------------------------------------------------
(* Frames *)

\* Products with the frame length are monotone.
LEMMA FrameArithmetic ==
  /\ bytes_per_frame \in Nat /\ bytes_per_frame > 0
  /\ \A n \in Nat : n * bytes_per_frame \in Nat
  /\ \A n \in Nat : n >= 1 => n * bytes_per_frame >= bytes_per_frame
  /\ \A m, n \in Nat : m <= n => m * bytes_per_frame <= n * bytes_per_frame
  <1>1. bytes_per_frame \in Nat /\ bytes_per_frame > 0
    BY AQAssumption
  <1>2. \A n \in Nat : n * bytes_per_frame \in Nat
    BY <1>1
  <1>3. \A m, n \in Nat : m <= n => m * bytes_per_frame <= n * bytes_per_frame
    BY <1>1
  <1>4. \A n \in Nat : n >= 1 => n * bytes_per_frame >= bytes_per_frame
    BY <1>1
  <1> QED BY <1>1, <1>2, <1>3, <1>4

\* The full frames of some bytes are no more than the bytes.
LEMMA FullFrames ==
  ASSUME NEW n \in Nat
  PROVE  n \div bytes_per_frame \in Nat /\ (n \div bytes_per_frame) * bytes_per_frame <= n
  BY AQAssumption

\* An odd byte is dropped.
LEMMA EvenSize ==
  ASSUME NEW n \in Nat
  PROVE  Even(n) \in Nat /\ Even(n) <= n
  BY DEF Even

\* The frames cut from byte from on.
LEMMA FramesCut ==
  ASSUME NEW from \in Nat, NEW k \in Nat
  PROVE  /\ Frames(from, k) \in Seq(Nat) /\ Len(Frames(from, k)) = k
         /\ \A i \in 1..k : /\ Frames(from, k)[i] = from + (i - 1) * bytes_per_frame
                            /\ from <= Frames(from, k)[i]
  <1>1. \A i \in 1..k : (i - 1) * bytes_per_frame \in Nat
    BY FrameArithmetic
  <1>2. \A i \in 1..k : from + (i - 1) * bytes_per_frame \in Nat
    BY <1>1
  <1>3. Frames(from, k) \in [1..k -> Nat]
    BY <1>2 DEF Frames
  <1>4. Frames(from, k) \in Seq(Nat) /\ Len(Frames(from, k)) = k
    BY <1>3
  <1>5. \A i \in 1..k : Frames(from, k)[i] = from + (i - 1) * bytes_per_frame
    BY DEF Frames
  <1> QED BY <1>1, <1>4, <1>5

\* k frames from a position on, behind those queued; the last m of them.
Behind(q, from, k) == q \o Frames(from, k)
LastOf(q, m) == SubSeq(q, Len(q) - m + 1, Len(q))

\* Frames queued behind others continue the stream.
LEMMA Joined ==
  ASSUME NEW q \in Seq(Nat), NEW carry \in Nat, NEW r \in Nat, carry <= r, Ends(q, carry, r),
         NEW k \in Nat, NEW more \in Nat, k * bytes_per_frame <= carry + more
  PROVE  LET all == Behind(q, r - carry, k)
         IN /\ all \in Seq(Nat) /\ Len(all) = Len(q) + k
            /\ \A used \in Nat : used = k * bytes_per_frame => Ends(all, (carry + more) - used, r + more)
            /\ \A low \in Nat : low <= r - carry /\ AtLeast(low, q) => AtLeast(low, all)
  <1> DEFINE new == Frames(r - carry, k)
             all == q \o new
             rest == (carry + more) - k * bytes_per_frame
  <1>0. r - carry \in Nat
    OBVIOUS
  <1>1. /\ new \in Seq(Nat) /\ Len(new) = k
        /\ \A i \in 1..k : new[i] = r - carry + (i - 1) * bytes_per_frame /\ r - carry <= new[i]
    BY <1>0, FramesCut
  <1> HIDE DEF new
  <1>2. /\ all \in Seq(Nat) /\ Len(all) = Len(q) + k
        /\ \A i \in 1..Len(q) : all[i] = q[i]
        /\ \A i \in 1..Len(all) : i > Len(q) => all[i] = new[i - Len(q)] /\ i - Len(q) \in 1..k
    <2>1. /\ all \in Seq(Nat) /\ Len(all) = Len(q) + Len(new)
          /\ \A i \in 1..Len(q) + Len(new) :
               all[i] = IF i <= Len(q) THEN q[i] ELSE new[i - Len(q)]
      BY <1>1, ConcatProperties
    <2> QED BY <1>1, <2>1
  <1> HIDE DEF all
  <1>3. Ends(all, rest, r + more)
    <2> SUFFICES ASSUME NEW i \in 1..Len(all)
                 PROVE  all[i] + (Len(all) - i + 1) * bytes_per_frame + rest = r + more
      BY <1>2 DEF Ends
    <2>1. bytes_per_frame \in Nat /\ Len(q) \in Nat /\ Len(all) \in Nat
      BY <1>2, FrameArithmetic
    <2>2. CASE i <= Len(q)
      <3>1. i \in DOMAIN q /\ q[i] \in Nat
        BY <2>2
      <3> DEFINE x == q[i]
                 left == (Len(q) - i + 1) * bytes_per_frame
                 moved == k * bytes_per_frame
      <3>2. x \in Nat /\ x + left + carry = r
        BY <3>1 DEF Ends
      <3>3. all[i] = x
        BY <1>2, <2>2
      <3>4. (Len(all) - i + 1) * bytes_per_frame = left + moved
        BY <1>2, <2>1
      <3>5. left \in Int /\ moved \in Int /\ rest = (carry + more) - moved
        BY <2>1
      <3> HIDE DEF x, left, moved, rest
      <3>6. x + (left + moved) + rest = r + more
        BY <3>2, <3>5
      <3> QED BY <3>3, <3>4, <3>6
    <2>3. CASE i > Len(q)
      <3>1. i - Len(q) \in 1..k /\ all[i] = r - carry + (i - Len(q) - 1) * bytes_per_frame
        BY <1>1, <1>2, <2>3
      <3>2. (i - Len(q) - 1) * bytes_per_frame + (Len(all) - i + 1) * bytes_per_frame
              = k * bytes_per_frame
        BY <1>2, <2>1, <3>1
      <3>3. /\ (i - Len(q) - 1) * bytes_per_frame \in Int /\ k * bytes_per_frame \in Int
            /\ (Len(all) - i + 1) * bytes_per_frame \in Int
        BY <2>1
      <3>4. r - carry + ((i - Len(q) - 1) * bytes_per_frame + (Len(all) - i + 1) * bytes_per_frame)
              + rest = r + more
        BY <3>2, <3>3
      <3> QED BY <3>1, <3>3, <3>4
    <2> QED BY <2>1, <2>2, <2>3
  <1>4. ASSUME NEW low \in Nat, low <= r - carry, AtLeast(low, q)
        PROVE  AtLeast(low, all)
    <2> SUFFICES ASSUME NEW i \in 1..Len(all) PROVE low <= all[i]
      BY <1>2 DEF AtLeast
    <2>1. CASE i <= Len(q)
      <3>1. i \in DOMAIN q /\ all[i] = q[i]
        BY <1>2, <2>1
      <3> QED BY <3>1, <1>4 DEF AtLeast
    <2>2. CASE i > Len(q)
      <3>1. all[i] \in Nat /\ r - carry <= all[i]
        BY <1>1, <1>2, <2>2
      <3> QED BY <3>1, <1>4
    <2> QED BY <2>1, <2>2
  <1>5. \A used \in Nat : used = k * bytes_per_frame => Ends(all, (carry + more) - used, r + more)
    BY <1>3, Zenon DEF rest
  <1> QED BY <1>2, <1>4, <1>5 DEF all, new, Behind

\* The last frames of a stream are the end of the stream.
LEMMA Suffix ==
  ASSUME NEW q \in Seq(Nat), NEW carry \in Nat, NEW r \in Nat, Ends(q, carry, r),
         NEW m \in Nat, m <= Len(q)
  PROVE  LET last == LastOf(q, m)
         IN /\ last \in Seq(Nat) /\ Len(last) = m
            /\ Ends(last, carry, r)
            /\ \A low \in Nat : AtLeast(low, q) => AtLeast(low, last)
  <1> DEFINE a == Len(q) - m + 1
             last == SubSeq(q, a, Len(q))
  <1>1. Len(q) \in Nat /\ a \in Int /\ \A i \in a..Len(q) : q[i] \in Nat
    OBVIOUS
  <1>2. /\ last \in Seq(Nat) /\ Len(last) = (IF a <= Len(q) THEN Len(q) - a + 1 ELSE 0)
        /\ \A i \in 1..Len(q) - a + 1 : last[i] = q[a + i - 1]
    BY <1>1, SubSeqProperties
  <1> HIDE DEF last
  <1>3. /\ Len(last) = m
        /\ \A i \in 1..m : last[i] = q[Len(q) - m + i] /\ Len(q) - m + i \in DOMAIN q
    BY <1>1, <1>2
  <1>4. ASSUME NEW i \in DOMAIN last
        PROVE  last[i] + (Len(last) - i + 1) * bytes_per_frame + carry = r
    <2>1. i \in 1..m /\ Len(q) - m + i \in DOMAIN q
      BY <1>2, <1>3
    <2>2. q[Len(q) - m + i] + (Len(q) - (Len(q) - m + i) + 1) * bytes_per_frame + carry = r
      BY <2>1 DEF Ends
    <2>3. Len(q) - (Len(q) - m + i) + 1 = m - i + 1
      BY <1>1, <2>1
    <2> QED BY <1>3, <2>1, <2>2, <2>3
  <1>5. \A low \in Nat : AtLeast(low, q) => AtLeast(low, last)
    BY <1>2, <1>3 DEF AtLeast
  <1> QED BY <1>2, <1>3, <1>4, <1>5 DEF last, Ends, LastOf

\* enqueueAudio in both modes: the stream continues within the limit, what is
\* played next is not older, and nothing becomes staler than it was.
LEMMA Enqueued ==
  ASSUME NEW q \in Seq(Nat), NEW carry \in Nat, NEW size \in Nat, received \in Nat,
         REAL_TIME_AUDIO \in BOOLEAN, Len(q) <= MAX_QUEUE_SIZE_DEFAULT, carry <= received,
         Ends(q, carry, received), enqueueAudio(size, q, carry)
  PROVE  /\ audio_queue' \in Seq(Nat) /\ Len(audio_queue') <= MAX_QUEUE_SIZE_DEFAULT
         /\ partial_frame' \in Nat /\ received' \in Nat
         /\ received <= received' /\ received' <= received + size
         /\ Ends(audio_queue', partial_frame', received')
         /\ received - carry <= received' - partial_frame'
         /\ partial_frame' - carry <= received' - received
         /\ \A low \in Nat :
              low <= received - carry /\ AtLeast(low, q) => AtLeast(low, audio_queue')
  <1> DEFINE more == Even(size)
             full == (carry + more) \div bytes_per_frame
             moved == IF REAL_TIME_AUDIO THEN full ELSE Least(full, Room(q))
             used == moved * bytes_per_frame
             new == Frames(received - carry, moved)
             all == q \o new
             limit == IF Len(q) <= MAX_QUEUE_SIZE_RUPTURE THEN MAX_QUEUE_SIZE_RUPTURE ELSE Len(q)
             m == Least(Len(all), limit)
  <1>0. /\ audio_queue' = IF REAL_TIME_AUDIO THEN Pushed(q, new) ELSE all
        /\ partial_frame' = (carry + more) - used
        /\ received' = received + more
    BY DEF enqueueAudio
  <1>1. more \in Nat /\ more <= size
    BY EvenSize
  <1> HIDE DEF more
  <1>2. carry + more \in Nat
    BY <1>1
  <1>3. full \in Nat /\ full * bytes_per_frame <= carry + more
    BY <1>2, FullFrames
  <1> HIDE DEF full
  <1>4. Len(q) \in Nat /\ Room(q) \in Nat /\ Len(q) + Room(q) = MAX_QUEUE_SIZE_DEFAULT
    BY AQAssumption DEF Room
  <1>5. moved \in Nat /\ moved <= full /\ (~REAL_TIME_AUDIO => moved <= Room(q))
    BY <1>3, <1>4 DEF Least
  <1> HIDE DEF moved
  <1>6. used \in Nat /\ used <= carry + more
    <2>1. moved * bytes_per_frame \in Nat /\ full * bytes_per_frame \in Nat
          /\ moved * bytes_per_frame <= full * bytes_per_frame
      BY <1>3, <1>5, FrameArithmetic
    <2> QED BY <1>2, <1>3, <2>1
  <1>7. /\ all \in Seq(Nat) /\ Len(all) = Len(q) + moved
        /\ Ends(all, (carry + more) - used, received + more)
        /\ \A low \in Nat : low <= received - carry /\ AtLeast(low, q) => AtLeast(low, all)
    <2>1. moved * bytes_per_frame <= carry + more /\ moved * bytes_per_frame \in Nat
      BY <1>6
    <2>2. all = Behind(q, received - carry, moved)
      BY DEF Behind
    <2>3. used = moved * bytes_per_frame
      OBVIOUS
    <2> HIDE DEF all, new, used
    <2>4. /\ all \in Seq(Nat) /\ Len(all) = Len(q) + moved
          /\ \A u \in Nat : u = moved * bytes_per_frame => Ends(all, (carry + more) - u, received + more)
          /\ \A low \in Nat : low <= received - carry /\ AtLeast(low, q) => AtLeast(low, all)
      <3> DEFINE k == moved
                 b == Behind(q, received - carry, k)
      <3>1. k \in Nat /\ more \in Nat /\ k * bytes_per_frame <= carry + more
        BY <1>1, <1>5, <2>1
      <3> HIDE DEF k
      <3>2. /\ b \in Seq(Nat) /\ Len(b) = Len(q) + k
            /\ \A u \in Nat : u = k * bytes_per_frame => Ends(b, (carry + more) - u, received + more)
            /\ \A low \in Nat : low <= received - carry /\ AtLeast(low, q) => AtLeast(low, b)
        BY <3>1, Joined
      <3> QED BY <3>2, <2>2 DEF k
    <2> QED BY <1>6, <2>3, <2>4
  <1>8. /\ partial_frame' \in Nat /\ received' \in Nat
        /\ received <= received' /\ received' <= received + size
        /\ received - carry <= received' - partial_frame'
        /\ partial_frame' - carry <= received' - received
    <2> HIDE DEF used
    <2> QED BY <1>0, <1>1, <1>2, <1>6
  <1>9. CASE ~REAL_TIME_AUDIO
    <2>1. audio_queue' = all
      BY <1>0, <1>9
    <2>2. Len(all) <= MAX_QUEUE_SIZE_DEFAULT
      BY <1>4, <1>5, <1>7, <1>9
    <2> HIDE DEF all, used
    <2> QED BY <1>0, <1>7, <1>8, <2>1, <2>2
  <1>10. CASE REAL_TIME_AUDIO
    <2>0. audio_queue' = Pushed(q, new)
      BY <1>0, <1>10
    <2>1. audio_queue' = LastOf(all, m)
      BY <2>0 DEF Pushed, LastOf
    <2>2. m \in Nat /\ m <= Len(all) /\ m <= MAX_QUEUE_SIZE_DEFAULT
      <3> HIDE DEF all
      <3>1. Len(all) \in Nat
        BY <1>4, <1>5, <1>7
      <3>2. limit \in Nat /\ limit <= MAX_QUEUE_SIZE_DEFAULT
        BY <1>4, AQAssumption
      <3> HIDE DEF limit
      <3> QED BY <3>1, <3>2, AQAssumption DEF Least
    <2> HIDE DEF all, m, used
    <2>3. Ends(all, partial_frame', received')
      BY <1>0, <1>7
    <2>4. /\ audio_queue' \in Seq(Nat) /\ Len(audio_queue') = m
          /\ Ends(audio_queue', partial_frame', received')
          /\ \A low \in Nat : AtLeast(low, all) => AtLeast(low, audio_queue')
      BY <1>7, <1>8, <2>1, <2>2, <2>3, Suffix
    <2> QED BY <1>7, <1>8, <2>2, <2>4
  <1> QED BY <1>9, <1>10

-----------------------------------------------------------------------------
(* The steps *)

\* The initial state satisfies the invariant: nothing was received.
LEMMA InitIInv == Init => IInv
  <1> SUFFICES ASSUME Init PROVE IInv
    OBVIOUS
  <1>1. TypeOK
    <2>1. <<>> \in Seq(Nat) /\ <<>> \in Seq(Ids) /\ Len(<<>>) = 0
      OBVIOUS
    <2>2. 0 \in 0..MaxBytes /\ 0 \in 0..MaxTransfers /\ NoId \in Ids \cup {NoId}
      BY AQAssumption
    <2>3. Len(<<>>) <= MAX_QUEUE_SIZE_DEFAULT /\ Len(<<>>) <= MaxCheckpoints
      BY AQAssumption
    <2> QED BY <2>1, <2>2, <2>3, Zenon DEF Init, TypeOK
  <1>2. Contiguous /\ NothingStale /\ PlayedOK
    BY DEF Init, Contiguous, NothingStale, PlayedOK, AtLeast
  <1>3. IdsOK /\ AcksOK
    BY DEF Init, IdsOK, AcksOK, NoId
  <1> QED BY <1>1, <1>2, <1>3 DEF IInv

\* Steps that move no byte and no checkpoint keep the invariant.
LEMMA QuietStep ==
  ASSUME IInv, TypeOK',
         UNCHANGED <<audio_queue, partial_frame, received, played, cut, marks, acks,
                     pending_stream_id, msg>>
  PROVE  IInv'
  BY DEF IInv, Contiguous, NothingStale, PlayedOK, AtLeast, IdsOK, AcksOK

\* A clear takes everything, and forgets the pending checkpoint.
LEMMA ClearStep ==
  ASSUME IInv, TypeOK', clearAudioQueue, UNCHANGED <<msg, received, played, marks, acks>>
  PROVE  IInv'
  <1>1. Contiguous' /\ NothingStale' /\ PlayedOK'
    BY DEF IInv, TypeOK, clearAudioQueue, Contiguous, NothingStale, PlayedOK, AtLeast
  <1>2. IdsOK' /\ AcksOK'
    BY DEF IInv, TypeOK, clearAudioQueue, resetCheckpointState, IdsOK, AcksOK, NoId, Ids
  <1> QED BY <1>1, <1>2 DEF IInv

\* What is before all that waits stays before it when the stream grows.
LEMMA Shift ==
  ASSUME NEW low \in Nat, NEW carry \in Nat, NEW r \in Nat, carry + low <= r
  PROVE  /\ low <= r - carry
         /\ \A carry2, r2 \in Nat : r - carry <= r2 - carry2 =>
              carry2 <= r2 - low /\ low + carry2 <= r2
  OBVIOUS

\* What is played is no more than what may be received.
LEMMA Within ==
  ASSUME NEW n \in Nat, NEW carry \in Nat, NEW r \in Nat, NEW max \in Nat,
         n + carry <= r, r <= max
  PROVE  n \in 0..max
  OBVIOUS

\* Bytes are enqueued behind a queue and a carry-over that satisfy the
\* invariant with the new cut.
LEMMA EnqueueFrom ==
  ASSUME IInv, NEW size \in Nat, NEW q \in Seq(Nat), NEW carry \in Nat,
         received + size <= MaxBytes,
         enqueueAudio(size, q, carry), Len(q) <= MAX_QUEUE_SIZE_DEFAULT,
         Ends(q, carry, received), carry + played <= received, AtLeast(played, q),
         cut' \in 0..MaxBytes, carry + cut' <= received, AtLeast(cut', q),
         checkpoint_received' \in BOOLEAN, ringing_active' \in BOOLEAN,
         pending_stream_id' \in {pending_stream_id, NoId},
         UNCHANGED <<msg, played, marks, acks, REAL_TIME_AUDIO, connected, transfer, transfers>>
  PROVE  IInv'
  <1>0. /\ TypeOK /\ received \in Nat /\ played \in Nat /\ cut' \in Nat /\ MaxBytes \in Nat
        /\ REAL_TIME_AUDIO \in BOOLEAN /\ carry <= received
    BY AQAssumption DEF IInv, TypeOK
  <1>1. /\ audio_queue' \in Seq(Nat) /\ Len(audio_queue') <= MAX_QUEUE_SIZE_DEFAULT
        /\ partial_frame' \in Nat /\ received' \in Nat
        /\ received <= received' /\ received' <= received + size
        /\ Ends(audio_queue', partial_frame', received')
        /\ received - carry <= received' - partial_frame'
        /\ \A low \in Nat :
             low <= received - carry /\ AtLeast(low, q) => AtLeast(low, audio_queue')
    BY <1>0, Enqueued
  <1>2. TypeOK'
    BY <1>0, <1>1 DEF TypeOK
  <1>3. Contiguous'
    BY <1>1 DEF Contiguous, Ends
  <1>4. cut' <= received - carry /\ played <= received - carry
    BY <1>0, Shift
  <1>5. AtLeast(cut', audio_queue') /\ AtLeast(played, audio_queue')
    BY <1>0, <1>1, <1>4
  <1>6. NothingStale'
    <2>1. partial_frame' <= received' - cut'
      BY <1>0, <1>1, Shift
    <2> QED BY <1>5, <2>1 DEF NothingStale, AtLeast
  <1>7. PlayedOK'
    <2>1. played + partial_frame' <= received'
      BY <1>0, <1>1, Shift
    <2> QED BY <1>5, <2>1 DEF PlayedOK, AtLeast
  <1>8. IdsOK' /\ AcksOK'
    <2>1. marks \in Seq(Nat) /\ Len(marks) \in Nat /\ acks \in Seq(Ids)
      BY <1>0 DEF TypeOK
    <2>2. \A k \in DOMAIN marks : marks[k] \in Nat /\ marks[k] <= received
      BY <2>1 DEF IInv, IdsOK
    <2>3. \A k \in DOMAIN marks : marks[k] <= received'
      BY <1>0, <1>1, <2>2
    <2>4. IdsOK'
      BY <1>0, <2>1, <2>3 DEF IInv, IdsOK, NoId, TypeOK, Ids
    <2>5. AcksOK'
      BY <1>0 DEF IInv, AcksOK
    <2> QED BY <2>4, <2>5
  <1> QED BY <1>2, <1>3, <1>6, <1>7, <1>8 DEF IInv

\* playAudio, with or without ringback before it.
LEMMA EnqueueStep ==
  ASSUME IInv, NEW size \in ChunkSizes, PlayAudio(size) \/ PlayAudioOverRinging(size)
  PROVE  IInv'
  <1>0. /\ TypeOK /\ size \in Nat /\ received \in Nat /\ received + size <= MaxBytes
        /\ cut \in 0..MaxBytes /\ received \in 0..MaxBytes /\ played \in Nat
        /\ audio_queue \in Seq(Nat) /\ partial_frame \in Nat
        /\ UNCHANGED <<msg, played, marks, acks, REAL_TIME_AUDIO, connected, transfer, transfers>>
    BY AQAssumption DEF IInv, TypeOK, PlayAudio, PlayAudioOverRinging, switch
  <1>1. CASE PlayAudio(size)
    <2>1. /\ enqueueAudio(size, audio_queue, partial_frame) /\ cut' = cut
          /\ Len(audio_queue) <= MAX_QUEUE_SIZE_DEFAULT
          /\ checkpoint_received' \in BOOLEAN /\ ringing_active' \in BOOLEAN
          /\ pending_stream_id' = pending_stream_id
      BY <1>0, <1>1 DEF PlayAudio, TypeOK, checkpoint
    <2>2. /\ Ends(audio_queue, partial_frame, received) /\ AtLeast(played, audio_queue)
          /\ AtLeast(cut, audio_queue)
      BY DEF IInv, Contiguous, Ends, PlayedOK, AtLeast, NothingStale
    <2>3. partial_frame + played <= received /\ partial_frame + cut <= received
      BY <1>0 DEF IInv, PlayedOK, NothingStale
    <2> QED BY <1>0, <2>1, <2>2, <2>3, EnqueueFrom
  <1>2. CASE PlayAudioOverRinging(size)
    <2>1. /\ enqueueAudio(size, <<>>, 0) /\ cut' = received
          /\ checkpoint_received' \in BOOLEAN /\ ringing_active' \in BOOLEAN
          /\ pending_stream_id' = NoId
      BY <1>2 DEF PlayAudioOverRinging, resetCheckpointState
    <2>2. /\ Ends(<<>>, 0, received) /\ AtLeast(played, <<>>) /\ AtLeast(cut', <<>>)
      BY DEF Ends, AtLeast
    <2>3. 0 + played <= received /\ 0 + cut' <= received /\ cut' \in 0..MaxBytes
      BY <1>0, <2>1 DEF IInv, PlayedOK
    <2>4. <<>> \in Seq(Nat) /\ Len(<<>>) <= MAX_QUEUE_SIZE_DEFAULT /\ 0 \in Nat
      BY AQAssumption
    <2> QED BY <1>0, <2>1, <2>2, <2>3, <2>4, EnqueueFrom
  <1> QED BY <1>1, <1>2

\* The two halves of a checkpoint: a new number, then its id.
LEMMA CheckpointStep ==
  ASSUME IInv, CheckpointFlag \/ CheckpointId
  PROVE  IInv'
  <1>0. /\ TypeOK /\ IdsOK /\ AcksOK /\ Contiguous /\ NothingStale /\ PlayedOK
        /\ received \in Nat /\ MaxCheckpoints \in Nat /\ pending_stream_id \in Nat /\ msg \in Nat
        /\ marks \in Seq(Nat) /\ Len(marks) \in Nat /\ acks \in Seq(Ids)
        /\ \A i \in DOMAIN acks : acks[i] \in Nat
    BY AQAssumption DEF IInv, TypeOK, Ids, NoId
  <1>1. UNCHANGED <<audio_queue, partial_frame, received, played, cut, acks, ringing_active,
                    REAL_TIME_AUDIO, connected, transfer, transfers>>
    BY DEF CheckpointFlag, CheckpointId, queue, switch
  <1>2. Contiguous' /\ NothingStale' /\ PlayedOK'
    BY <1>0, <1>1 DEF Contiguous, NothingStale, PlayedOK, AtLeast
  <1>3. CASE CheckpointFlag
    <2> DEFINE n == Len(marks) + 1
    <2>1. /\ msg = NoId /\ n <= MaxCheckpoints /\ checkpoint_received' = TRUE
          /\ msg' = n /\ marks' = Append(marks, received) /\ pending_stream_id' = pending_stream_id
      BY <1>0, <1>3 DEF CheckpointFlag
    <2>2. /\ marks' \in Seq(Nat) /\ Len(marks') = n /\ n \in Nat /\ Len(marks) < n /\ n > 0
          /\ \A k \in DOMAIN marks' : k \in DOMAIN marks => marks'[k] = marks[k]
          /\ \A k \in DOMAIN marks' : k \notin DOMAIN marks => marks'[k] = received
      BY <1>0, <2>1
    <2> HIDE DEF n
    <2>3. TypeOK'
      <3>1. msg' \in Ids /\ Len(marks') <= MaxCheckpoints
        BY <1>0, <2>1, <2>2 DEF Ids
      <3> QED BY <1>0, <1>1, <2>1, <2>2, <3>1, Zenon DEF TypeOK
    <2>4. IdsOK'
      <3>1. ASSUME NEW k \in DOMAIN marks' PROVE marks'[k] <= received
        <4>1. CASE k \in DOMAIN marks
          BY <1>0, <2>2, <4>1 DEF IdsOK
        <4>2. CASE k \notin DOMAIN marks
          BY <1>0, <2>2, <4>2
        <4> QED BY <4>1, <4>2
      <3>2. pending_stream_id < n
        BY <1>0, <2>2 DEF IdsOK
      <3> QED BY <1>0, <1>1, <2>1, <2>2, <3>1, <3>2 DEF IdsOK
    <2>5. AcksOK'
      <3>1. ASSUME NEW i \in DOMAIN acks
            PROVE  acks[i] < n /\ (pending_stream_id # NoId => acks[i] < pending_stream_id)
        <4> DEFINE a == acks[i]
                   l == Len(marks)
        <4>1. a \in Nat /\ a <= l /\ (pending_stream_id # NoId => a < pending_stream_id)
          BY <1>0 DEF AcksOK
        <4>2. l \in Nat /\ l < n /\ n \in Nat
          BY <1>0, <2>2
        <4> HIDE DEF a, l
        <4>3. a < n
          BY <4>1, <4>2
        <4> QED BY <4>1, <4>3 DEF a
      <3> QED BY <1>0, <1>1, <2>1, <2>2, <3>1 DEF AcksOK
    <2> QED BY <1>2, <2>3, <2>4, <2>5 DEF IInv
  <1>4. CASE CheckpointId
    <2>1. /\ msg # NoId /\ pending_stream_id' = msg /\ msg' = NoId
          /\ checkpoint_received' = checkpoint_received /\ marks' = marks
      BY <1>4 DEF CheckpointId
    <2>2. TypeOK'
      <3>1. msg \in Ids \cup {NoId} /\ NoId \in Ids \cup {NoId}
        BY <1>0 DEF TypeOK
      <3> QED BY <1>0, <1>1, <2>1, <3>1, Zenon DEF TypeOK
    <2>3. IdsOK'
      BY <1>0, <1>1, <2>1 DEF IdsOK
    <2>4. AcksOK'
      BY <1>0, <1>1, <2>1 DEF AcksOK
    <2> QED BY <1>2, <2>2, <2>3, <2>4 DEF IInv
  <1> QED BY <1>3, <1>4

\* The frame played is the oldest one queued: it ends before all others begin
\* and before the carry-over; with the last one, all of the stream but the
\* carry-over is played.
LEMMA FramePlayed ==
  ASSUME NEW q \in Seq(Nat), q # <<>>, NEW carry \in Nat, NEW r \in Nat, Ends(q, carry, r)
  PROVE  /\ Tail(q) \in Seq(Nat) /\ Len(Tail(q)) < Len(q) /\ Ends(Tail(q), carry, r)
         /\ Head(q) + bytes_per_frame \in Nat /\ Head(q) + bytes_per_frame + carry <= r
         /\ AtLeast(Head(q) + bytes_per_frame, Tail(q))
         /\ \A low \in Nat : AtLeast(low, q) => AtLeast(low, Tail(q))
         /\ Tail(q) = <<>> => Head(q) + bytes_per_frame + carry = r
  <1> DEFINE n == Len(q)
             B == bytes_per_frame
  <1>1. /\ n \in Nat /\ n >= 1 /\ Head(q) = q[1] /\ q[1] \in Nat
        /\ Tail(q) \in Seq(Nat) /\ Len(Tail(q)) = n - 1
        /\ \A i \in 1..(n - 1) : Tail(q)[i] = q[i + 1] /\ i + 1 \in DOMAIN q /\ q[i + 1] \in Nat
    BY HeadTailProperties
  <1>2. B \in Nat /\ B > 0
    BY FrameArithmetic
  <1>3. \A i \in DOMAIN q : q[i] + (n - i + 1) * B + carry = r
    BY DEF Ends
  <1>4. q[1] + n * B + carry = r
    <2>1. DOMAIN q = 1..n
      OBVIOUS
    <2> HIDE DEF n
    <2>2. 1 \in DOMAIN q /\ n - 1 + 1 = n
      BY <1>1, <2>1
    <2> QED BY <1>3, <2>2
  <1>5. n * B \in Nat /\ n * B >= B
    BY <1>1, FrameArithmetic
  <1>6. q[1] + B \in Nat /\ q[1] + B + carry <= r
    BY <1>1, <1>2, <1>4, <1>5
  <1>7. Tail(q) = <<>> => q[1] + B + carry = r
    <2> SUFFICES ASSUME Tail(q) = <<>> PROVE q[1] + B + carry = r
      OBVIOUS
    <2>0. n - 1 = 0
      BY <1>1, EmptySeq, Zenon
    <2> HIDE DEF n
    <2>1. n = 1
      BY <1>1, <2>0
    <2>2. n * B = B
      BY <1>2, <2>1
    <2> QED BY <1>4, <2>2
  <1>8. ASSUME NEW i \in 1..(n - 1)
        PROVE  /\ Tail(q)[i] + ((n - 1) - i + 1) * B + carry = r
               /\ q[1] + B <= Tail(q)[i]
    <2>1. q[i + 1] + (n - (i + 1) + 1) * B + carry = r
      BY <1>1, <1>3
    <2>2. n - (i + 1) + 1 = n - i /\ (n - 1) - i + 1 = n - i /\ n - i \in Nat
      BY <1>1
    <2>3. n * B = (n - i) * B + i * B /\ i * B \in Nat /\ i * B >= B /\ (n - i) * B \in Nat
      <3>1. i * B \in Nat /\ i * B >= B /\ (n - i) * B \in Nat
        BY <2>2, FrameArithmetic
      <3>2. n * B = (n - i) * B + i * B
        BY <1>1, <1>2
      <3> QED BY <3>1, <3>2
    <2> DEFINE x == q[i + 1]
               y == q[1]
               left == (n - i) * B
               before == i * B
    <2>4. x \in Nat /\ y \in Nat /\ x + left + carry = r /\ y + (left + before) + carry = r
      BY <1>1, <1>4, <2>1, <2>2, <2>3
    <2>5. left \in Nat /\ before \in Nat /\ before >= B
      BY <2>3
    <2> HIDE DEF x, y, left, before
    <2>6. y + B <= x
      BY <1>2, <2>4, <2>5
    <2>7. x = Tail(q)[i] /\ y = q[1] /\ left = ((n - 1) - i + 1) * B
      BY <1>1, <2>2 DEF x, y, left
    <2> QED BY <2>4, <2>6, <2>7
  <1>9. DOMAIN Tail(q) = 1..(n - 1)
    BY <1>1
  <1>10. \A low \in Nat : AtLeast(low, q) => AtLeast(low, Tail(q))
    BY <1>1, <1>9 DEF AtLeast
  <1>11. Ends(Tail(q), carry, r)
    BY <1>1, <1>8, <1>9 DEF Ends
  <1>12. AtLeast(q[1] + B, Tail(q))
    BY <1>8, <1>9 DEF AtLeast
  <1>13. Len(Tail(q)) < Len(q)
    BY <1>1
  <1> QED BY <1>1, <1>6, <1>7, <1>10, <1>11, <1>12, <1>13

\* A frame is played: nothing is acknowledged, or the pending checkpoint is, with
\* the last frame of the queue.
LEMMA AckOrNot ==
  ASSUME getAudioFrame
  PROVE  \/ UNCHANGED <<checkpoint_received, pending_stream_id, acks>>
         \/ /\ Tail(audio_queue) = <<>> /\ pending_stream_id # NoId
            /\ acks' = Append(acks, pending_stream_id)
            /\ checkpoint_received' = FALSE /\ pending_stream_id' = NoId
  <1>1. CASE checkpoint_received /\ Tail(audio_queue) = <<>> /\ sendPlayedStreamEvent
    BY <1>1 DEF sendPlayedStreamEvent, resetCheckpointState, checkpoint
  <1>2. CASE ~(checkpoint_received /\ Tail(audio_queue) = <<>>) /\ UNCHANGED <<checkpoint, acks>>
    BY <1>2 DEF checkpoint
  <1> QED BY <1>1, <1>2 DEF getAudioFrame

\* getAudioFrame.
LEMMA FrameStep ==
  ASSUME IInv, getAudioFrame
  PROVE  IInv'
  <1>0. /\ TypeOK /\ IdsOK /\ AcksOK
        /\ audio_queue \in Seq(Nat) /\ Len(audio_queue) <= MAX_QUEUE_SIZE_DEFAULT
        /\ MAX_QUEUE_SIZE_DEFAULT \in Nat /\ MaxBytes \in Nat
        /\ partial_frame \in Nat /\ received \in Nat /\ received <= MaxBytes /\ cut \in Nat
        /\ Ends(audio_queue, partial_frame, received) /\ AtLeast(cut, audio_queue)
        /\ partial_frame <= received - cut
    BY AQAssumption DEF IInv, TypeOK, Contiguous, Ends, NothingStale, AtLeast
  <1>1. /\ audio_queue # <<>> /\ audio_queue' = Tail(audio_queue)
        /\ played' = Head(audio_queue) + bytes_per_frame
        /\ UNCHANGED <<cut, partial_frame, msg, ringing_active, REAL_TIME_AUDIO, connected,
                       transfer, transfers, received, marks>>
    BY DEF getAudioFrame, switch
  <1>2. /\ audio_queue' \in Seq(Nat) /\ Len(audio_queue') < Len(audio_queue)
        /\ Ends(audio_queue', partial_frame, received)
        /\ played' \in Nat /\ played' + partial_frame <= received
        /\ AtLeast(played', audio_queue') /\ AtLeast(cut, audio_queue')
    BY <1>0, <1>1, FramePlayed
  <1>3. Contiguous' /\ NothingStale' /\ PlayedOK'
    BY <1>0, <1>1, <1>2 DEF Contiguous, Ends, NothingStale, PlayedOK, AtLeast
  <1>4. /\ pending_stream_id' \in Ids \cup {NoId} /\ checkpoint_received' \in BOOLEAN
        /\ acks' \in Seq(Ids) /\ IdsOK' /\ AcksOK'
    <2>0. /\ marks \in Seq(Nat) /\ Len(marks) \in Nat /\ acks \in Seq(Ids)
          /\ pending_stream_id \in Ids \cup {NoId} /\ checkpoint_received \in BOOLEAN
          /\ pending_stream_id \in Nat /\ msg \in Nat
      BY <1>0 DEF TypeOK, Ids, NoId
    <2>1. CASE UNCHANGED <<checkpoint_received, pending_stream_id, acks>>
      BY <1>0, <1>1, <2>0, <2>1 DEF IdsOK, AcksOK
    <2>2. CASE /\ pending_stream_id # NoId /\ acks' = Append(acks, pending_stream_id)
               /\ checkpoint_received' = FALSE /\ pending_stream_id' = NoId
      <3>1. pending_stream_id \in Ids
        BY <2>0, <2>2
      <3>2. /\ acks' \in Seq(Ids) /\ Len(acks') = Len(acks) + 1 /\ Len(acks) \in Nat
            /\ \A i \in 1..Len(acks) : acks'[i] = acks[i]
            /\ acks'[Len(acks) + 1] = pending_stream_id
        BY <2>0, <2>2, <3>1, AppendProperties
      <3>3. IdsOK'
        BY <1>0, <1>1, <2>0, <2>2 DEF IdsOK, NoId
      <3>4. ASSUME NEW i \in DOMAIN acks'
            PROVE  acks'[i] <= Len(marks) /\ (msg # NoId => acks'[i] < msg)
        <4>1. i \in 1..Len(acks) \/ i = Len(acks) + 1
          BY <3>2
        <4>2. CASE i \in 1..Len(acks)
          <5>1. i \in DOMAIN acks /\ acks'[i] = acks[i]
            BY <2>0, <3>2, <4>2
          <5>2. acks[i] <= Len(marks) /\ (msg # NoId => acks[i] < msg)
            BY <1>0, <5>1, Zenon DEF AcksOK
          <5> QED BY <5>1, <5>2
        <4>3. CASE i = Len(acks) + 1
          <5>1. acks'[i] = pending_stream_id
            BY <3>2, <4>3
          <5>2. pending_stream_id <= Len(marks) /\ (msg # NoId => pending_stream_id < msg)
            BY <1>0, Zenon DEF IdsOK
          <5> QED BY <5>1, <5>2
        <4> QED BY <4>1, <4>2, <4>3
      <3>5. AcksOK'
        BY <1>1, <2>2, <3>4 DEF AcksOK
      <3> QED BY <2>2, <3>2, <3>3, <3>5
    <2> QED BY <2>1, <2>2, AckOrNot
  <1>5. TypeOK'
    <2>1. Len(audio_queue') <= MAX_QUEUE_SIZE_DEFAULT
      <3>1. Len(audio_queue') \in Nat /\ Len(audio_queue) \in Nat
        BY <1>0, <1>2
      <3> QED BY <1>0, <1>2, <3>1
    <2>2. played' \in 0..MaxBytes
      <3>1. /\ played' \in Nat /\ partial_frame \in Nat /\ received \in Nat /\ MaxBytes \in Nat
            /\ received <= MaxBytes /\ played' + partial_frame <= received
        BY <1>0, <1>2
      <3> QED BY <3>1, Within
    <2> QED BY <1>0, <1>1, <1>2, <1>4, <2>1, <2>2, Zenon DEF TypeOK
  <1> QED BY <1>3, <1>4, <1>5 DEF IInv

\* Transfers and drops move no byte, except that a transfer clears the queue.
LEMMA TransferStep ==
  ASSUME IInv, TransferEvent \/ Transfer \/ LinkFlips \/ ClearAudio
  PROVE  IInv'
  <1>0. /\ TypeOK /\ connected \in BOOLEAN /\ ringing_active \in BOOLEAN
        /\ transfers \in 0..MaxTransfers /\ received \in 0..MaxBytes
        /\ REAL_TIME_AUDIO \in BOOLEAN
    BY DEF IInv, TypeOK
  <1>cleared. <<>> \in Seq(Nat) /\ Len(<<>>) <= MAX_QUEUE_SIZE_DEFAULT /\ 0 \in Nat
    BY AQAssumption
  <1>1. CASE TransferEvent
    <2>1. transfers' \in 0..MaxTransfers
      BY <1>0, <1>1, AQAssumption DEF TransferEvent
    <2>2. TypeOK'
      BY <1>0, <1>1, <2>1, Zenon DEF TransferEvent, TypeOK, queue, checkpoint
    <2> QED BY <1>1, <2>2, QuietStep DEF TransferEvent, queue, checkpoint
  <1>2. CASE startRinging
    <2>1. TypeOK'
      BY <1>0, <1>2 DEF startRinging, TypeOK, queue, checkpoint
    <2> QED BY <1>2, <2>1, QuietStep DEF startRinging, queue, checkpoint
  <1>3. CASE TransferCloses
    <2>1. TypeOK'
      BY <1>0, <1>3 DEF TransferCloses, TypeOK, queue, checkpoint
    <2> QED BY <1>3, <2>1, QuietStep DEF TransferCloses, queue, checkpoint
  <1>4. CASE TransferConnects
    <2>1. TypeOK'
      BY <1>0, <1>4 DEF TransferConnects, TypeOK, queue, checkpoint
    <2> QED BY <1>4, <2>1, QuietStep DEF TransferConnects, queue, checkpoint
  <1>5. CASE LinkFlips
    <2>1. TypeOK'
      BY <1>0, <1>5 DEF LinkFlips, TypeOK, queue, checkpoint
    <2> QED BY <1>5, <2>1, QuietStep DEF LinkFlips, queue, checkpoint
  <1>6. CASE TransferClears
    <2>1. clearAudioQueue /\ UNCHANGED <<msg, received, played, marks, acks>>
      BY <1>6 DEF TransferClears
    <2>2. TypeOK'
      BY <1>0, <1>6, <1>cleared, Zenon
        DEF TransferClears, clearAudioQueue, resetCheckpointState, TypeOK
    <2> QED BY <2>1, <2>2, ClearStep
  <1>7. CASE ClearAudio
    <2>1. clearAudioQueue /\ UNCHANGED <<msg, received, played, marks, acks>>
      BY <1>7 DEF ClearAudio
    <2>2. TypeOK'
      BY <1>0, <1>7, <1>cleared, Zenon
        DEF ClearAudio, clearAudioQueue, resetCheckpointState, TypeOK, switch
    <2> QED BY <2>1, <2>2, ClearStep
  <1> QED BY <1>1, <1>2, <1>3, <1>4, <1>5, <1>6, <1>7 DEF Transfer

\* Every step preserves the invariant.
LEMMA NextIInv == IInv /\ [Next]_vars => IInv'
  <1> SUFFICES ASSUME IInv, [Next]_vars PROVE IInv'
    OBVIOUS
  <1>1. ASSUME NEW size \in ChunkSizes, PlayAudio(size) \/ PlayAudioOverRinging(size) PROVE IInv'
    BY <1>1, EnqueueStep
  <1>2. CASE CheckpointFlag \/ CheckpointId
    BY <1>2, CheckpointStep
  <1>3. CASE getAudioFrame
    BY <1>3, FrameStep
  <1>4. CASE TransferEvent \/ Transfer \/ LinkFlips \/ ClearAudio
    BY <1>4, TransferStep
  <1>5. CASE UNCHANGED vars
    <2>1. UNCHANGED <<audio_queue, partial_frame, REAL_TIME_AUDIO, checkpoint_received,
                      pending_stream_id, msg, ringing_active, connected, transfer, transfers,
                      received, played, cut, marks, acks>>
      BY <1>5 DEF vars, queue, checkpoint, switch
    <2>2. TypeOK'
      BY <2>1 DEF IInv, TypeOK
    <2> QED BY <2>1, <2>2, QuietStep
  <1> QED BY <1>1, <1>2, <1>3, <1>4, <1>5 DEF Next, Message

-----------------------------------------------------------------------------
(* The theorems *)

\* The inductive invariant.
LEMMA Inductive == Spec => []IInv
  BY InitIInv, NextIInv, PTL DEF Spec

\* Type correctness: the queue never exceeds its limit in either mode, ids and
\* counters stay in their ranges.
THEOREM TypeCorrect == Spec => []TypeOK
  <1>1. IInv => TypeOK
    BY DEF IInv
  <1> QED BY <1>1, Inductive, PTL

\* The agent's audio is played without gap, repetition or remains of what was
\* interrupted, for every sequence of chunks of any size, clears, transfers,
\* mode switches and overflows of the queue.
THEOREM AudioIntact == Spec => []StreamIntact
  <1>1. IInv => StreamIntact
    <2> SUFFICES ASSUME IInv PROVE PlaysForward
      BY DEF IInv, StreamIntact
    <2>1. played \in Nat /\ partial_frame \in Nat /\ received \in Nat /\ audio_queue \in Seq(Nat)
      BY AQAssumption DEF IInv, TypeOK
    <2>2. played <= received
      BY <2>1 DEF IInv, PlayedOK
    <2>3. audio_queue # <<>> => 1 \in DOMAIN audio_queue
      BY <2>1
    <2> QED BY <2>2, <2>3 DEF IInv, PlayedOK, AtLeast, PlaysForward
  <1> QED BY <1>1, Inductive, PTL

\* A playedStream event is sent only by the media clock with the last queued
\* frame: all audio received before the checkpoint is played or dropped, except
\* the carry-over, and the id is newer than all those acknowledged before.
LEMMA AckStep ==
  ASSUME IInv, [Next]_vars, NEW k \in Ids, acks' = Append(acks, k)
  PROVE  /\ \A i \in DOMAIN acks : acks[i] < k
         /\ played' + partial_frame' >= marks[k]
  <1>0. /\ acks \in Seq(Ids) /\ marks \in Seq(Nat) /\ audio_queue \in Seq(Nat)
        /\ partial_frame \in Nat /\ received \in Nat /\ Len(marks) \in Nat
        /\ pending_stream_id \in Ids \cup {NoId}
        /\ Ends(audio_queue, partial_frame, received)
    BY AQAssumption DEF IInv, TypeOK, Contiguous, Ends
  <1>1. acks' # acks
    <2>1. Len(Append(acks, k)) = Len(acks) + 1 /\ Len(acks) \in Nat
      BY <1>0, AppendProperties
    <2> QED BY <2>1
  <1>2. getAudioFrame
    <2>1. ~(\E size \in ChunkSizes : PlayAudio(size) \/ PlayAudioOverRinging(size))
      BY <1>1 DEF PlayAudio, PlayAudioOverRinging
    <2>2. ~(ClearAudio \/ CheckpointFlag \/ TransferEvent \/ CheckpointId \/ LinkFlips)
      BY <1>1 DEF ClearAudio, CheckpointFlag, TransferEvent, CheckpointId, LinkFlips
    <2>3. ~Transfer
      BY <1>1 DEF Transfer, TransferClears, startRinging, TransferCloses, TransferConnects
    <2>4. ~UNCHANGED vars
      BY <1>1 DEF vars
    <2> QED BY <2>1, <2>2, <2>3, <2>4 DEF Next, Message
  <1>3. /\ Tail(audio_queue) = <<>> /\ pending_stream_id # NoId
        /\ acks' = Append(acks, pending_stream_id)
    BY <1>1, <1>2, AckOrNot
  <1>4. k = pending_stream_id
    <2>1. pending_stream_id \in Ids /\ acks \in Seq(Ids)
      BY <1>0, <1>3
    <2>2. Append(acks, k) = Append(acks, pending_stream_id)
      BY <1>3
    <2>3. /\ Append(acks, k)[Len(acks) + 1] = k
          /\ Append(acks, pending_stream_id)[Len(acks) + 1] = pending_stream_id
      BY <2>1, AppendProperties, Zenon
    <2> QED BY <2>2, <2>3, Zenon
  <1>5. \A i \in DOMAIN acks : acks[i] < k
    BY <1>3, <1>4 DEF IInv, AcksOK
  <1>6. /\ audio_queue # <<>> /\ played' = Head(audio_queue) + bytes_per_frame
        /\ partial_frame' = partial_frame
    BY <1>2 DEF getAudioFrame
  <1>7. played' + partial_frame' = received
    BY <1>0, <1>3, <1>6, FramePlayed
  <1>8. k \in DOMAIN marks /\ marks[k] \in Nat /\ marks[k] <= received
    <2>1. k <= Len(marks) /\ k \in 1..MaxCheckpoints
      BY <1>4 DEF IInv, IdsOK, Ids
    <2>2. k \in DOMAIN marks
      BY <1>0, <2>1, AQAssumption
    <2> QED BY <1>0, <2>2 DEF IInv, IdsOK
  <1> QED BY <1>0, <1>5, <1>7, <1>8

\* An acknowledged checkpoint was reached, and none is acknowledged twice or out
\* of order, whatever the media clock, the message handler and a transfer do
\* between the flag and the id, and around clears and drops.
THEOREM AcksReached == Spec => AcksTruthful
  <1>1. IInv /\ [Next]_vars =>
          [\A k \in Ids : acks' = Append(acks, k) =>
             /\ \A i \in DOMAIN acks : acks[i] < k
             /\ played' + partial_frame' >= marks[k]]_vars
    BY AckStep
  <1> QED BY <1>1, Inductive, PTL DEF Spec, AcksTruthful
=============================================================================
