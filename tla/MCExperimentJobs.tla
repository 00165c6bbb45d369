--------------------------- MODULE MCExperimentJobs ---------------------------
(* Two requests at a time, and two batches or submissions.                 *)
EXTENDS ExperimentJobs, TLC

\* The threads are alike.
MCSymmetry == Permutations(Workers)
=============================================================================
