---------------------------- MODULE MCThreadPool ----------------------------
(* The workers and main are model values; the configuration gives them     *)
(* without symmetry, for the run checks liveness too.                      *)
EXTENDS ThreadPool
=============================================================================
