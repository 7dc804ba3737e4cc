----------------------------- MODULE Compilation -----------------------------
(***************************************************************************)
(* What one run of the compiler comes to, without threads, pools or calls: *)
(* every file is read once, and parsed once all have been read; what is    *)
(* written, reported and answered to the shell goes by that.               *)
(***************************************************************************)
EXTENDS Integers

CONSTANT Files

VARIABLES
  fate,      \* of the parse of each file, if it can be read
  phase,     \* what has been reached
  lexed,     \* files that have been read, or found to be unreadable
  unread,    \* the latter
  parsed,    \* files whose parse has ended
  status,    \* the exit status, -1 if there is none
  tokens,    \* outLexer.txt: "absent", "buffered" or "complete"
  trees,     \* outSyntax.txt, likewise
  said       \* the files reported as written

files == <<lexed, unread, parsed>>
output == <<tokens, trees, said>>
vars == <<fate, phase, files, status, output>>

Ends(k) == k \in unread \/ fate[k] = "ends"

Init ==
  /\ fate \in [1..Files -> {"ends", "spins", "crashes"}]
  /\ phase = "command" /\ status = -1
  /\ lexed = {} /\ unread = {} /\ parsed = {}
  /\ tokens = "absent" /\ trees = "absent" /\ said = {}

Goto(here, there) == phase = here /\ phase' = there

Accept == Goto("command", "lexing") /\ UNCHANGED <<fate, files, status, output>>

Reject ==
  /\ Goto("command", "exiting")
  /\ status' = 1
  /\ UNCHANGED <<fate, files, output>>

(* The files are read in any order, each of them once.                     *)
Lex ==
  /\ phase = "lexing"
  /\ \E k \in (1..Files) \ lexed :
       lexed' = lexed \cup {k} /\ unread' \in {unread, unread \cup {k}}
  /\ UNCHANGED <<fate, phase, parsed, status, output>>

WriteTokens ==
  /\ lexed = 1..Files
  /\ Goto("lexing", "parsing")
  /\ \/ tokens' = "buffered" /\ said' = said \cup {"tokens"}
     \/ UNCHANGED <<tokens, said>>
  /\ UNCHANGED <<fate, files, status, trees>>

(* They are parsed in any order too, those that can be.                    *)
Parse ==
  /\ phase = "parsing"
  /\ \E k \in (1..Files) \ parsed : Ends(k) /\ parsed' = parsed \cup {k}
  /\ UNCHANGED <<fate, phase, lexed, unread, status, output>>

Die ==
  /\ Goto("parsing", "killed")
  /\ \E k \in (1..Files) \ unread : fate[k] = "crashes"
  /\ UNCHANGED <<fate, files, status, output>>

WriteTrees ==
  /\ parsed = 1..Files
  /\ Goto("parsing", "returning")
  /\ \/ trees' = "buffered" /\ said' = said \cup {"trees"}
     \/ UNCHANGED <<trees, said>>
  /\ UNCHANGED <<fate, files, status, tokens>>

Closed(file) == IF file = "buffered" THEN "complete" ELSE file

Return ==
  /\ Goto("returning", "exiting")
  /\ tokens' = Closed(tokens) /\ trees' = Closed(trees)
  /\ status' = 0
  /\ UNCHANGED <<fate, files, said>>

Exit == Goto("exiting", "exited") /\ UNCHANGED <<fate, files, status, output>>

Next ==
  \/ Accept \/ Reject \/ Lex \/ WriteTokens \/ Parse \/ Die \/ WriteTrees
  \/ Return \/ Exit

Spec == Init /\ [][Next]_vars
=============================================================================
