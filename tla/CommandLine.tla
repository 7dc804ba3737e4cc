----------------------------- MODULE CommandLine -----------------------------
(***************************************************************************)
(* parseInput of compiler/src/lib/code/inputParser.cpp: the command line,  *)
(* read from left to right, one argument a step, into a parsedCommand or   *)
(* an exit with status 1.                                                  *)
(*                                                                         *)
(* args[0], the program, is left out. An argument is a model of a class of *)
(* texts; what the code asks of a text are the predicates below.           *)
(***************************************************************************)
EXTENDS Integers, Sequences, FiniteSets

CONSTANTS
  CommandLines   \* the command lines the program may be given

Inputs   == {"a.mrx", "-c.mrx"}            \* endsWith(".mrx")
Projects == {"p.mrxproj", "-p.mrxproj"}    \* endsWith(".mrxproj")
Numbers  == {"2", "3"}                     \* toInt succeeds
Plain    == {"out", "p.mrxproj"} \cup Numbers
Unknown  == {"-x", "-y", "-p.mrxproj"}
Known    == {"-o", "-mT", "-sS", "-iW"}    \* or their long forms
Dashed   == Known \cup Unknown \cup {"-c.mrx"}   \* arg[0] == '-'

Args == Inputs \cup Plain \cup Unknown \cup Known

ASSUME CommandLineAssumption == CommandLines \subseteq Seq(Args)

None == "none"

VARIABLES
  args,
  curr,                       \* the argument looked at next, from 1
  outputFile, inputFiles,     \* the command, outputFile being null at first
  showStatus, ignorWarning, maxThreads,
  warnings,                   \* the unknown flags warned of
  status                      \* "reading", "accepted" or "exited"

command == <<outputFile, inputFiles, showStatus, ignorWarning, maxThreads>>
vars == <<args, curr, command, warnings, status>>

(* The first argument is passed over when it names a project, which makes  *)
(* a difference if it begins with a dash: no warning is given of it. There *)
(* may be no argument: what is looked at then is a null pointer, and       *)
(* endsWith says no.                                                       *)
Init ==
  /\ args \in CommandLines
  /\ curr = IF args # <<>> /\ args[1] \in Projects THEN 2 ELSE 1
  /\ outputFile = None /\ inputFiles = <<>>
  /\ showStatus = FALSE /\ ignorWarning = FALSE
  /\ maxThreads = None
  /\ warnings = <<>>
  /\ status = "reading"

-----------------------------------------------------------------------------
(* The argument at curr is one of A, and n arguments are left behind.      *)
Take(A, n) ==
  /\ status = "reading" /\ curr <= Len(args)
  /\ args[curr] \in A
  /\ curr' = curr + n
  /\ UNCHANGED <<args, status>>

NextIn(A) == curr < Len(args) /\ args[curr + 1] \in A

Exit == status' = "exited" /\ UNCHANGED <<args, curr, command, warnings>>

Reject(A, wanted) ==
  /\ status = "reading" /\ curr <= Len(args)
  /\ args[curr] \in A
  /\ ~NextIn(wanted)
  /\ Exit

InputFile ==
  /\ Take(Inputs, 1)
  /\ inputFiles' = Append(inputFiles, args[curr])
  /\ UNCHANGED <<outputFile, showStatus, ignorWarning, maxThreads, warnings>>

Ignored ==
  /\ Take(Plain, 1)
  /\ UNCHANGED <<command, warnings>>

(* Variants: a flag is taken for the file name; the name is consumed.      *)
OutputFileAny ==
  /\ Take({"-o"}, 1)
  /\ NextIn(Args)
  /\ outputFile' = args[curr + 1]
  /\ UNCHANGED <<inputFiles, showStatus, ignorWarning, maxThreads, warnings>>

OutputFileConsumed ==
  /\ Take({"-o"}, 2)
  /\ NextIn(Args \ Dashed)
  /\ outputFile' = args[curr + 1]
  /\ UNCHANGED <<inputFiles, showStatus, ignorWarning, maxThreads, warnings>>

(* The name is kept, but curr is left on it: it is read again as an        *)
(* argument of its own.                                                    *)
OutputFile ==
  /\ Take({"-o"}, 1)
  /\ NextIn(Args \ Dashed)
  /\ outputFile' = args[curr + 1]
  /\ UNCHANGED <<inputFiles, showStatus, ignorWarning, maxThreads, warnings>>

NoFileName == Reject({"-o"}, Args \ Dashed)

(* Variant: one argument too many is skipped.                              *)
MaxThreadsFar ==
  /\ Take({"-mT"}, 3)
  /\ NextIn(Numbers)
  /\ maxThreads' = args[curr + 1]
  /\ UNCHANGED <<outputFile, inputFiles, showStatus, ignorWarning, warnings>>

MaxThreads ==
  /\ Take({"-mT"}, 2)
  /\ NextIn(Numbers)
  /\ maxThreads' = args[curr + 1]
  /\ UNCHANGED <<outputFile, inputFiles, showStatus, ignorWarning, warnings>>

NoNumber == Reject({"-mT"}, Numbers)

ShowStatus ==
  /\ Take({"-sS"}, 1)
  /\ showStatus' = TRUE
  /\ UNCHANGED <<outputFile, inputFiles, ignorWarning, maxThreads, warnings>>

IgnorWarnings ==
  /\ Take({"-iW"}, 1)
  /\ ignorWarning' = TRUE
  /\ UNCHANGED <<outputFile, inputFiles, showStatus, maxThreads, warnings>>

(* Variant: -iW has no effect.                                             *)
UnknownFlagAlways ==
  /\ Take(Unknown, 1)
  /\ warnings' = Append(warnings, args[curr])
  /\ UNCHANGED command

UnknownFlag ==
  /\ Take(Unknown, 1)
  /\ warnings' = IF ignorWarning THEN warnings ELSE Append(warnings, args[curr])
  /\ UNCHANGED command

AllRead == status = "reading" /\ curr > Len(args)

Missing ==
  /\ AllRead
  /\ outputFile = None \/ inputFiles = <<>>
  /\ Exit

Accept ==
  /\ AllRead
  /\ outputFile # None /\ inputFiles # <<>>
  /\ status' = "accepted"
  /\ UNCHANGED <<args, curr, command, warnings>>

Ended == status # "reading" /\ UNCHANGED vars

Next ==
  \/ InputFile \/ Ignored \/ OutputFile \/ NoFileName \/ MaxThreads \/ NoNumber
  \/ ShowStatus \/ IgnorWarnings \/ UnknownFlag \/ Missing \/ Accept \/ Ended

Spec == Init /\ [][Next]_vars

-----------------------------------------------------------------------------
(* Every variable stays in its range.                                      *)
TypeOK ==
  /\ args \in Seq(Args)
  /\ curr \in 1 .. Len(args) + 1
  /\ outputFile \in {None} \cup (Args \ Dashed)
  /\ inputFiles \in Seq(Inputs)
  /\ showStatus \in BOOLEAN /\ ignorWarning \in BOOLEAN
  /\ maxThreads \in {None} \cup Numbers
  /\ warnings \in Seq(Unknown)
  /\ status \in {"reading", "accepted", "exited"}

(* The command read off the whole line, without going through it.          *)
Places(A) == {k \in DOMAIN args : args[k] \in A}
Follows(k, A) == k + 1 \in DOMAIN args /\ args[k + 1] \in A
Last(S) == CHOOSE k \in S : \A m \in S : m <= k

OutputGiven  == Places({"-o"}) # {}
OutputNamed  == \A k \in Places({"-o"}) : Follows(k, Args \ Dashed)
ThreadsGiven == \A k \in Places({"-mT"}) : Follows(k, Numbers)

(* A command is accepted exactly when every -o is followed by a name and   *)
(* every -mT by a number, and there are an -o and an argument that ends in *)
(* .mrx, wherever they stand.                                              *)
AcceptedExactly ==
  status # "reading" =>
    (status = "accepted" <=>
       OutputGiven /\ OutputNamed /\ ThreadsGiven /\ Places(Inputs) # {})

(* s is the arguments at the places S, in their order.                     *)
Lists(s, S) ==
  /\ Len(s) = Cardinality(S)
  /\ \A k \in S : s[Cardinality({m \in S : m <= k})] = args[k]

(* Every argument that ends in .mrx is an input, in order, the one after   *)
(* an -o too; the last -o and the last -mT count.                          *)
CommandAsWritten ==
  status = "accepted" =>
    /\ Lists(inputFiles, Places(Inputs))
    /\ outputFile = args[Last(Places({"-o"})) + 1]
    /\ maxThreads = IF Places({"-mT"}) = {} THEN None
                    ELSE args[Last(Places({"-mT"})) + 1]
    /\ showStatus = (Places({"-sS"}) # {})

(* An unknown flag is warned of unless -iW stands before it, or it is a    *)
(* project in first place: an -iW that comes later does not take the       *)
(* warning back.                                                           *)
ProjectFirst(k) == k = 1 /\ args[1] \in Projects

WarningsInOrder ==
  status = "accepted" =>
    Lists(warnings, {k \in Places(Unknown) : ~ProjectFirst(k) /\ \A q \in Places({"-iW"}) : k < q})

=============================================================================
