---------------------------- MODULE MCCommandLine ----------------------------
(* Command lines for checking CommandLine, and what a message of the       *)
(* program says of one of them.                                            *)
EXTENDS CommandLine

CONSTANT MaxArgs

AllCommandLines == UNION {[1..n -> Args] : n \in 0..MaxArgs}

(* inputParser.cpp:79 asks for an input that ends in .mrx or .mrxproj: one *)
(* that ends in .mrxproj will do.                                          *)
ProjectIsInput ==
  args = <<"p.mrxproj", "-o", "out">> /\ status # "reading" => status = "accepted"
=============================================================================
