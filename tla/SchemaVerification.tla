-------------------------- MODULE SchemaVerification --------------------------
(***************************************************************************)
(* Schema admission (verify_schema.py): the command checks its files one   *)
(* after the other, each by a depth-first traversal of what it imports or  *)
(* redefines.  verify_schema calls itself; its call stack is the variable  *)
(* stack, and what the innermost call returned, until its caller looks at  *)
(* it, is result.  The set of paths it has seen belongs to one traversal.  *)
(***************************************************************************)
EXTENDS Naturals, Sequences, FiniteSets

CONSTANTS
  Files,        \* the paths
  ContentsOf,   \* [Files -> SUBSET Contents]: what may be found at a path
  Arguments     \* Seq(Files): the files the command is given

NoFile == 1     \* stage 1: no such file, or it is no .xsd
AllSix == 7     \* no stage up to 6 objects
Nowhere == "nowhere"

\* stage is the first one that objects to the file itself: parsing, namespace, URN,
\* version and checksum are all functions of the file and the policy.  A dependency
\* is an import or a redefine, in the order they are followed; one without a
\* schemaLocation points nowhere; agrees is FALSE if it declares a namespace that
\* is not the target's.
Dependencies == [target : Files \cup {Nowhere}, agrees : BOOLEAN]
Contents == [stage : NoFile .. AllSix, dependencies : Seq(Dependencies)]

ASSUME SchemaAssumption ==
  /\ Nowhere \notin Files
  /\ ContentsOf \in [Files -> SUBSET Contents]
  /\ Arguments \in Seq(Files)

VARIABLES
  contents,   \* [Files -> Contents]: the schemas, which nobody changes meanwhile
  verdicts,   \* Seq({"ok", "violation"}): of the files checked so far
  seen,       \* SUBSET Files: _seen_paths
  stack,      \* Seq([file : Files, next : Nat]): the calls in progress, innermost last
  result,     \* what the innermost call has returned, "none" while it runs
  exit        \* the exit code, "running" until then

schemaVars == <<contents, verdicts, seen, stack, result, exit>>

Results == {"none", "ok", "seen", "failed"}

Top == stack[Len(stack)]
Pop == SubSeq(stack, 1, Len(stack) - 1)
Push(calls, f) == Append(calls, [file |-> f, next |-> 1])
Advanced == [stack EXCEPT ![Len(stack)].next = @ + 1]

DependenciesOf(f) == contents[f].dependencies
HasDependency == Top.next <= Len(DependenciesOf(Top.file))
Dependency == DependenciesOf(Top.file)[Top.next]

\* verify_schema up to its dependencies, called with the paths seen before.  A path is
\* seen from the moment its file is there, before any of its checks; it is reported
\* ok, without its namespace, from then on.
Verify(f, before) ==
  \/ /\ f \in before
     /\ result' = "seen"
     /\ seen' = before
     /\ UNCHANGED stack
  \/ /\ f \notin before
     /\ contents[f].stage = NoFile
     /\ result' = "failed"
     /\ seen' = before
     /\ UNCHANGED stack
  \/ /\ f \notin before
     /\ contents[f].stage \in NoFile + 1 .. AllSix - 1
     /\ result' = "failed"
     /\ seen' = before \cup {f}
     /\ UNCHANGED stack
  \/ /\ f \notin before
     /\ contents[f].stage = AllSix
     /\ result' = "none"
     /\ seen' = before \cup {f}
     /\ stack' = Push(stack, f)

Checking == stack # <<>> /\ result = "none"

\* Mutant: one set of seen paths for all the files.
CheckFileSeeingAll ==
  /\ stack = <<>> /\ result = "none" /\ Len(verdicts) < Len(Arguments)
  /\ Verify(Arguments[Len(verdicts) + 1], seen)
  /\ UNCHANGED <<contents, verdicts, exit>>

\* cli_main's loop: the next file, with nothing seen.
CheckFile ==
  /\ stack = <<>> /\ result = "none" /\ Len(verdicts) < Len(Arguments)
  /\ Verify(Arguments[Len(verdicts) + 1], {})
  /\ UNCHANGED <<contents, verdicts, exit>>

\* Mutant: the paths seen are not handed to the recursive call.
FollowAfresh ==
  /\ Checking /\ HasDependency
  /\ Dependency.target # Nowhere
  /\ Verify(Dependency.target, {})
  /\ UNCHANGED <<contents, verdicts, exit>>

FollowDependency ==
  /\ Checking /\ HasDependency
  /\ Dependency.target # Nowhere
  /\ Verify(Dependency.target, seen)
  /\ UNCHANGED <<contents, verdicts, exit>>

SkipDependency ==
  /\ Checking /\ HasDependency
  /\ Dependency.target = Nowhere
  /\ stack' = Advanced
  /\ UNCHANGED <<contents, verdicts, seen, result, exit>>

\* Mutant: a declared namespace is compared with one that was not returned, too.
NamespaceIsKnown == result = "ok" /\ Dependency.agrees

\* Mutant: the declared namespace is not looked at.
NamespaceIgnored == TRUE

\* The declared namespace is compared with the one the call returned; a call that had
\* seen the path returns none.
NamespaceAgrees == result = "ok" => Dependency.agrees

\* Mutant: the loop does not move on.
AcceptAndStay ==
  /\ stack # <<>> /\ result \in {"ok", "seen"}
  /\ NamespaceAgrees
  /\ result' = "none"
  /\ UNCHANGED <<contents, verdicts, seen, stack, exit>>

AcceptDependency ==
  /\ stack # <<>> /\ result \in {"ok", "seen"}
  /\ NamespaceAgrees
  /\ stack' = Advanced
  /\ result' = "none"
  /\ UNCHANGED <<contents, verdicts, seen, exit>>

RejectNamespace ==
  /\ stack # <<>> /\ result \in {"ok", "seen"}
  /\ ~NamespaceAgrees
  /\ stack' = Pop
  /\ result' = "failed"
  /\ UNCHANGED <<contents, verdicts, seen, exit>>

\* A call whose dependency failed fails with it.
FailWithDependency ==
  /\ stack # <<>> /\ result = "failed"
  /\ stack' = Pop
  /\ UNCHANGED <<contents, verdicts, seen, result, exit>>

ReturnOk ==
  /\ Checking /\ ~HasDependency
  /\ stack' = Pop
  /\ result' = "ok"
  /\ UNCHANGED <<contents, verdicts, seen, exit>>

Report ==
  /\ stack = <<>> /\ result # "none"
  /\ verdicts' = Append(verdicts, IF result = "failed" THEN "violation" ELSE "ok")
  /\ result' = "none"
  /\ UNCHANGED <<contents, seen, stack, exit>>

Exit ==
  /\ exit = "running" /\ Len(verdicts) = Len(Arguments)
  /\ exit' = IF \E i \in DOMAIN verdicts : verdicts[i] = "violation" THEN "1" ELSE "0"
  /\ UNCHANGED <<contents, verdicts, seen, stack, result>>

SchemaInit ==
  /\ contents \in {c \in [Files -> UNION {ContentsOf[f] : f \in Files}] :
                     \A f \in Files : c[f] \in ContentsOf[f]}
  /\ verdicts = <<>>
  /\ seen = {}
  /\ stack = <<>>
  /\ result = "none"
  /\ exit = "running"

SchemaNext ==
  \/ CheckFile \/ FollowDependency \/ SkipDependency \/ AcceptDependency
  \/ RejectNamespace \/ FailWithDependency \/ ReturnOk \/ Report \/ Exit

\* One thread that nothing interrupts.
SchemaSpec == SchemaInit /\ [][SchemaNext]_schemaVars /\ WF_schemaVars(SchemaNext)

-----------------------------------------------------------------------------
(* Properties                                                              *)

SchemaTypeInvariant ==
  /\ contents \in [Files -> UNION {ContentsOf[f] : f \in Files}]
  /\ verdicts \in Seq({"ok", "violation"}) /\ Len(verdicts) <= Len(Arguments)
  /\ seen \subseteq Files
  /\ stack \in Seq([file : Files, next : Nat])
  /\ \A i \in DOMAIN stack :
       stack[i].file \in seen /\ stack[i].next <= Len(DependenciesOf(stack[i].file)) + 1
  /\ result \in Results
  /\ exit \in {"running", "0", "1"}

\* What a file pulls in: everything in every set that holds the file and the
\* dependencies of all it holds.
TargetsOf(f) == {DependenciesOf(f)[i].target : i \in DOMAIN DependenciesOf(f)} \ {Nowhere}

Expanded(f) == contents[f].stage = AllSix

Closed(set) == \A f \in set : Expanded(f) => TargetsOf(f) \subseteq set

Reachable(f) == {g \in Files : \A set \in SUBSET Files : f \in set /\ Closed(set) => g \in set}

\* "Suffix extraction and policy evaluation apply recursively, to every import"
\* (iso20022-messaging.md 3.4): a file is reported ok only if it and everything it
\* pulls in passes all six stages -- on diamonds and cycles too, where the traversal
\* takes a file it has seen for a good one before it has looked at it.
OkIsSound ==
  \A i \in DOMAIN verdicts :
    verdicts[i] = "ok" => \A g \in Reachable(Arguments[i]) : contents[g].stage = AllSix

\* What remains of "xs:import namespace attribute must match imported file's
\* targetNamespace" (test_verify_schema.py 305): everything a file reported ok pulls in
\* is pulled in by at least one dependency whose namespace agrees, except that the file
\* itself needs none.
OkNamesItsImports ==
  \A i \in DOMAIN verdicts : verdicts[i] = "ok" =>
    \A g \in Reachable(Arguments[i]) \ {Arguments[i]} :
      \E f \in Reachable(Arguments[i]) : \E j \in DOMAIN DependenciesOf(f) :
        DependenciesOf(f)[j] = [target |-> g, agrees |-> TRUE]

\* A violation is reported only for a reason: a bad file or a wrong namespace somewhere
\* in what the file pulls in.  So a commit is not stopped by a cycle.
ViolationIsReal ==
  \A i \in DOMAIN verdicts :
    verdicts[i] = "violation" =>
      \E g \in Reachable(Arguments[i]) :
        \/ contents[g].stage # AllSix
        \/ \E j \in DOMAIN DependenciesOf(g) :
             DependenciesOf(g)[j].target # Nowhere /\ ~DependenciesOf(g)[j].agrees

\* The command ends, whatever imports whatever.
CommandEnds == <>(exit # "running")
=============================================================================
