-------------------------- MODULE MCUploadManager --------------------------
(* Instances of UploadManager for TLC. *)
EXTENDS UploadManager, TLC

CONSTANTS w1, w2, j1, j2, j3

TwoWorkers == {w1, w2}
ThreeJobs == {j1, j2, j3}
=============================================================================
