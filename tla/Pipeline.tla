------------------------------ MODULE Pipeline ------------------------------
(***************************************************************************)
(* One run of the compiler: main of compiler/src/main.cpp, with the exit   *)
(* that parseInput may take, lexer::entry called twice (a warm-up whose    *)
(* result is dropped, and the run that is kept), syntax::entry once, the   *)
(* two files it writes, and the destruction of the two pools.              *)
(*                                                                         *)
(* Each pool is its contract EntryCalls, which ThreadPool implements.      *)
(* Lexing a file always ends, see Lexer, but the file may not be there to  *)
(* be read. What the parse of its tokens comes to is its fate, after       *)
(* Parser: it ends, it spins, or it kills the process; that of no tokens   *)
(* ends.                                                                   *)
(***************************************************************************)
EXTENDS Integers, FiniteSets

CONSTANTS
  Threads,   \* workers of each pool
  Files      \* input files

ASSUME PipelineAssumption == Threads \in Nat \ {0} /\ Files \in Nat \ {0}

VARIABLES
  fate,      \* of the parse of each file's tokens
  unread,    \* files the lexer could not read in the run that is kept
  main,      \* what main is doing
  status,    \* the process's exit status, -1 while it runs or if it has none
  lexCalls, lexSettled, lexSubmitted, lexEntered, lexFinished, lexClosed,
  synCalls, synSettled, synSubmitted, synEntered, synFinished, synClosed,
  lexOut,    \* outLexer.txt: "absent", "buffered" or "complete"
  synOut,    \* outSyntax.txt, likewise
  said       \* the files main has reported as written

lexPool == <<lexCalls, lexSettled, lexSubmitted, lexEntered, lexFinished, lexClosed>>
synPool == <<synCalls, synSettled, synSubmitted, synEntered, synFinished, synClosed>>
output == <<lexOut, synOut, said>>
vars == <<fate, unread, main, status, lexPool, synPool, output>>

LexerCalls == 2
SyntaxCalls == 1

Lex == INSTANCE EntryCalls WITH
  Calls <- LexerCalls, calls <- lexCalls, settled <- lexSettled,
  submitted <- lexSubmitted, entered <- lexEntered,
  finished <- lexFinished, closed <- lexClosed

Syn == INSTANCE EntryCalls WITH
  Calls <- SyntaxCalls, calls <- synCalls, settled <- synSettled,
  submitted <- synSubmitted, entered <- synEntered,
  finished <- synFinished, closed <- synClosed

Fates == {"ends", "spins", "crashes"}
Fate(k) == IF k \in unread THEN "ends" ELSE fate[k]

Init ==
  /\ fate \in [1..Files -> Fates]
  /\ unread = {}
  /\ main = "command" /\ status = -1
  /\ Lex!Init /\ Syn!Init
  /\ lexOut = "absent" /\ synOut = "absent"
  /\ said = {}

Goto(here, there) == main = here /\ main' = there

-----------------------------------------------------------------------------
(* parseInput accepts the command line, or calls exit, which destroys the  *)
(* static pools before they have had a job.                                *)
Accept ==
  /\ Goto("command", "lexing")
  /\ UNCHANGED <<fate, unread, status, lexPool, synPool, output>>

Reject ==
  /\ Goto("command", "exiting")
  /\ status' = 1
  /\ UNCHANGED <<fate, unread, lexPool, synPool, output>>

(* A step of the lexer's pool, inside one of main's two calls of entry.    *)
Lexing ==
  /\ main = "lexing"
  /\ Lex!Submit \/ Lex!Enter \/ Lex!Return
  /\ UNCHANGED <<fate, unread, main, status, synPool, output>>

(* Variant: what the warm-up could not read is not read later either.      *)
LexedFileAny == {IF j > Files THEN j - Files ELSE j : j \in lexFinished' \ lexFinished}

(* A file has been lexed, or could not be opened or mapped, which is only  *)
(* printed; it may have been otherwise in the warm-up.                     *)
LexedFile == {j - Files : j \in lexFinished' \ lexFinished} \cap (1..Files)

FileLexed ==
  /\ main = "lexing"
  /\ Lex!Finish
  /\ unread' \in {unread, unread \cup LexedFile}
  /\ UNCHANGED <<fate, main, status, synPool, output>>

(* Variant: main goes on after the warm-up.                                *)
WriteTokensEarly ==
  /\ lexCalls > 0
  /\ Goto("lexing", "parsing")
  /\ \/ lexOut' = "buffered" /\ said' = said \cup {"tokens"}
     \/ UNCHANGED <<lexOut, said>>
  /\ UNCHANGED <<fate, unread, status, lexPool, synPool, synOut>>

(* The tokens go into the stream's buffer, and part of them to the file,   *)
(* unless the file could not be opened; the stream is closed by main's     *)
(* return only.                                                            *)
WriteTokens ==
  /\ lexCalls = LexerCalls
  /\ Goto("lexing", "parsing")
  /\ \/ lexOut' = "buffered" /\ said' = said \cup {"tokens"}
     \/ UNCHANGED <<lexOut, said>>
  /\ UNCHANGED <<fate, unread, status, lexPool, synPool, synOut>>

(* Variant: one parse at a time.                                           *)
ParsingAlone ==
  /\ main = "parsing"
  /\ Syn!Submit \/ Syn!Enter \/ Syn!Finish \/ Syn!Return
  /\ \A k \in synFinished' : Fate(k) = "ends"
  /\ Cardinality((1..synEntered') \ synFinished') <= 1
  /\ UNCHANGED <<fate, unread, main, status, lexPool, output>>

(* A step of the parser's pool: only a parse that ends finishes.           *)
Parsing ==
  /\ main = "parsing"
  /\ Syn!Submit \/ Syn!Enter \/ Syn!Finish \/ Syn!Return
  /\ \A k \in synFinished' : Fate(k) = "ends"
  /\ UNCHANGED <<fate, unread, main, status, lexPool, output>>

(* Variant: the process dies of any parse.                                 *)
CrashOnAny ==
  /\ Goto("parsing", "killed")
  /\ Syn!Running # {}
  /\ UNCHANGED <<fate, unread, status, lexPool, synPool, output>>

(* A parse of a register operand at the end of its file kills the process. *)
Crash ==
  /\ Goto("parsing", "killed")
  /\ \E k \in Syn!Running : Fate(k) = "crashes"
  /\ UNCHANGED <<fate, unread, status, lexPool, synPool, output>>

WriteTrees ==
  /\ synCalls = SyntaxCalls
  /\ Goto("parsing", "returning")
  /\ \/ synOut' = "buffered" /\ said' = said \cup {"trees"}
     \/ UNCHANGED <<synOut, said>>
  /\ UNCHANGED <<fate, unread, status, lexPool, synPool, lexOut>>

(* main returns 0: both streams are flushed and closed.                    *)
Flushed(file) == IF file = "buffered" THEN "complete" ELSE file

ReturnFromMain ==
  /\ Goto("returning", "exiting")
  /\ lexOut' = Flushed(lexOut) /\ synOut' = Flushed(synOut)
  /\ status' = 0
  /\ UNCHANGED <<fate, unread, lexPool, synPool, said>>

(* The static pools are destroyed in either order.                         *)
ClosePool ==
  /\ main = "exiting"
  /\ \/ ~lexClosed /\ Lex!Close /\ UNCHANGED synPool
     \/ ~synClosed /\ Syn!Close /\ UNCHANGED lexPool
  /\ UNCHANGED <<fate, unread, main, status, output>>

Exit ==
  /\ lexClosed /\ synClosed
  /\ Goto("exiting", "exited")
  /\ UNCHANGED <<fate, unread, status, lexPool, synPool, output>>

Over == main \in {"exited", "killed"} /\ UNCHANGED vars

(* Nothing but spinning parses is left: the process runs on without a step.*)
Hung ==
  /\ main = "parsing"
  /\ synSubmitted = Files
  /\ synCalls = 0
  /\ \A k \in Syn!Running : Fate(k) = "spins"
  /\ synEntered = Files \/ Cardinality(Syn!Running) = Threads
  /\ Syn!Running # {}
  /\ UNCHANGED vars

Step ==
  \/ Accept \/ Reject \/ Lexing \/ FileLexed \/ WriteTokens \/ Parsing \/ Crash \/ WriteTrees
  \/ ReturnFromMain \/ ClosePool \/ Exit

Next == Step \/ Over \/ Hung

Spec == Init /\ [][Next]_vars

(* Main and the workers are scheduled; a crash is a step of a worker that  *)
(* runs, and what comes of it is not put off for ever.                     *)
FairSpec == Spec /\ WF_vars(Step)

(* The run without its pools, whose files are read once.                   *)
Whole == INSTANCE Compilation WITH
  phase  <- main,
  lexed  <- {k \in 1..Files : k + Files \in lexFinished},
  parsed <- synFinished,
  tokens <- lexOut,
  trees  <- synOut

-----------------------------------------------------------------------------
(* Every variable stays in its range, the pools' within their contracts.   *)
TypeOK ==
  /\ fate \in [1..Files -> Fates] /\ unread \subseteq 1..Files
  /\ main \in {"command", "lexing", "parsing", "returning", "exiting", "exited", "killed"}
  /\ status \in {-1, 0, 1}
  /\ lexSubmitted \in 0 .. LexerCalls * Files
  /\ synSubmitted \in 0..Files
  /\ lexEntered \in 0..lexSubmitted /\ lexFinished \subseteq 1..lexEntered
  /\ synEntered \in 0..synSubmitted /\ synFinished \subseteq 1..synEntered
  /\ lexOut \in {"absent", "buffered", "complete"}
  /\ synOut \in {"absent", "buffered", "complete"}
  /\ said \subseteq {"tokens", "trees"}

(* No parse is running, or has run, before both lexer calls are over: what *)
(* a worker reads of the tokens is never still being written.              *)
TokensSettled ==
  synEntered > 0 =>
    /\ lexCalls = LexerCalls
    /\ lexFinished = 1 .. LexerCalls * Files

Spinning(k) == {j \in 1..k : Fate(j) = "spins"}

(* The process exits with status 0 only if the parse of every file that    *)
(* was read has ended, and then the files it reported as written are       *)
(* complete; with status 1 only if it has touched no file. Status 0 says   *)
(* nothing of the files that could not be read.                            *)
ExitMeansParsed ==
  /\ main = "exited" /\ status = 0 =>
       /\ \A k \in 1..Files : fate[k] = "ends" \/ k \in unread
       /\ "tokens" \in said => lexOut = "complete"
       /\ "trees" \in said => synOut = "complete"
  /\ status = 1 => lexEntered = 0 /\ synEntered = 0 /\ lexOut = "absent" /\ synOut = "absent"
  /\ main = "exited" => status # -1 /\ lexClosed /\ synClosed

(* Seen from the shell, nothing is left of the threads, the order in which *)
(* they work, the warm-up and the destructors: each file is read once, and *)
(* what comes of the run depends only on what each parse comes to.         *)
Compiles == Whole!Spec

(* As many spinning parses as there are threads starve the files behind    *)
(* them: those are never entered.                                          *)
BehindSpinningUnread ==
  \A k \in 1..Files : Cardinality(Spinning(k - 1)) >= Threads => synEntered < k

(* Every other file whose parse ends gets parsed, and an all-good run      *)
(* exits, unless a parse kills the process.                                *)
OthersParsed ==
  \A k \in 1..Files :
    (/\ status # 1
     /\ Fate(k) = "ends"
     /\ Cardinality(Spinning(k - 1)) < Threads
     /\ \A j \in 1..Files : Fate(j) # "crashes")
      ~> (k \in synFinished \/ status = 1)

GoodRunsExit == (\A k \in 1..Files : Fate(k) = "ends") ~> (main = "exited")
=============================================================================
