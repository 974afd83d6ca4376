-------------------------- MODULE MCAudioRecorder --------------------------
(* Small instances of AudioRecorder for TLC. *)
EXTENDS AudioRecorder

\* The caller's stream is longer than the agent's: the agent pauses.
MCMaxFrames == [agent |-> 3, user |-> 8]
=============================================================================
