----------------------------- MODULE MCPipeline -----------------------------
(* What a message of main says, to be checked against Pipeline.            *)
EXTENDS Pipeline

(* main.cpp:152 reports that the tokens have been written to the file: the *)
(* file still holds them when the process is gone.                         *)
WrittenMeansWritten ==
  main \in {"exited", "killed"} /\ "tokens" \in said => lexOut = "complete"
=============================================================================
