---------------------------- MODULE MCAudioQueue ----------------------------
(* Instances of AudioQueue for TLC. *)
EXTENDS AudioQueue, TLC

\* Less than a frame, an odd size and more than two frames.
Sizes == {2, 5, 10}

-----------------------------------------------------------------------------
(* What the repository says of itself and the code does not do (README,      *)
(* section 5).  No run checks it; as a property of one it is violated.        *)

\* What src/README.md:96 says of playedStream: it acknowledges "that a specific
\* checkpoint has been reached in playback".  Less than a frame of the audio
\* before the checkpoint may be left, since playback is by frames.
CheckpointReached ==
  [][\A k \in Ids : acks' = Append(acks, k) => played' + bytes_per_frame > marks[k]]_vars
=============================================================================
