--------------------------- MODULE MCCallManager ---------------------------
(* Instances of CallManager for TLC. *)
EXTENDS CallManager, TLC

CONSTANTS t1, t2, c1, c2

TwoThreads == {t1, t2}
OneThread == {t1}
TwoCalls == {c1, c2}
AllKinds == {"out", "in", "sim"}
SipKinds == {"out", "in"}

-----------------------------------------------------------------------------
(* What the repository says of itself and the code does not do (README,      *)
(* section 5).  No run checks it; as a property of one it is violated.        *)

\* MANUAL_TEST.md:157-161 "you can also confirm two live legs: ... Expect:
\* "current_calls":2": with no request half done, the counter that
\* getCallCount and healthCheck report is the number of calls there are.
CounterIsCallsInProgress ==
  (\A t \in Threads : pc[t] = "idle") => current_calls = Cardinality(InProgress)
=============================================================================
