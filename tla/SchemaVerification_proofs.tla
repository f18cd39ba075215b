------------------------ MODULE SchemaVerification_proofs ------------------------
(***************************************************************************)
(* What schema admission guarantees for any number of files and whatever   *)
(* they import: a file reported ok pulls in nothing bad, a violation has a *)
(* reason, and the traversal neither recurs into a file it is in nor goes  *)
(* on for ever.                                                            *)
(***************************************************************************)
EXTENDS SchemaVerification, FiniteSetTheorems, TLAPS

-----------------------------------------------------------------------------
(* What a file pulls in                                                    *)

LEMMA ContentsAreTyped ==
  ASSUME SchemaTypeInvariant, NEW f \in Files
  PROVE  /\ contents[f] \in Contents
         /\ DependenciesOf(f) \in Seq(Dependencies)
         /\ TargetsOf(f) \subseteq Files
<1>1. contents[f] \in Contents
  BY SchemaAssumption DEF SchemaTypeInvariant
<1>2. DependenciesOf(f) \in Seq(Dependencies)
  BY <1>1 DEF Contents, DependenciesOf
<1>3. ASSUME NEW i \in DOMAIN DependenciesOf(f)
      PROVE  DependenciesOf(f)[i] \in Dependencies
  BY <1>2
<1>4. TargetsOf(f) \subseteq Files
  BY <1>3 DEF TargetsOf, Dependencies
<1> QED BY <1>1, <1>2, <1>4

LEMMA ReachesItself ==
  ASSUME NEW f \in Files
  PROVE  f \in Reachable(f)
BY DEF Reachable

LEMMA ReachesTargets ==
  ASSUME SchemaTypeInvariant, NEW f \in Files, NEW g \in Reachable(f), Expanded(g),
         NEW target \in TargetsOf(g)
  PROVE  target \in Reachable(f)
<1>1. g \in Files /\ target \in Files
  BY ContentsAreTyped DEF Reachable
<1> QED BY <1>1 DEF Reachable, Closed

LEMMA ReachesNoFurther ==
  ASSUME NEW f \in Files, NEW set \in SUBSET Files, f \in set, Closed(set)
  PROVE  Reachable(f) \subseteq set
BY DEF Reachable

-----------------------------------------------------------------------------
(* The call stack                                                          *)

Frame == [file : Files, next : Nat]

LEMMA StackTop ==
  ASSUME SchemaTypeInvariant, stack # <<>>
  PROVE  /\ Len(stack) \in Nat \ {0} /\ Len(stack) \in DOMAIN stack
         /\ Top \in Frame /\ Top = stack[Len(stack)]
         /\ Top.file \in seen /\ Top.file \in Files /\ Top.next \in Nat
         /\ Top.next <= Len(DependenciesOf(Top.file)) + 1
<1>1. stack \in Seq(Frame)
  BY DEF SchemaTypeInvariant, Frame
<1>2. Len(stack) \in Nat \ {0} /\ Len(stack) \in DOMAIN stack
  BY <1>1
<1>3. Top \in Frame /\ Top = stack[Len(stack)]
  BY <1>1, <1>2 DEF Top
<1> QED BY <1>2, <1>3 DEF SchemaTypeInvariant, Frame

LEMMA Popped ==
  ASSUME SchemaTypeInvariant, stack # <<>>
  PROVE  /\ Pop \in Seq(Frame) /\ Len(Pop) = Len(stack) - 1
         /\ DOMAIN Pop = 1 .. Len(stack) - 1
         /\ \A i \in 1 .. Len(stack) - 1 : Pop[i] = stack[i]
<1>1. stack \in Seq(Frame)
  BY DEF SchemaTypeInvariant, Frame
<1>2. Len(stack) \in Nat \ {0}
  BY StackTop
<1>3. Len(stack) - 1 \in Nat /\ \A i \in 1 .. Len(stack) - 1 : stack[i] \in Frame
  BY <1>1, <1>2
<1>4. Pop = [i \in 1 .. Len(stack) - 1 |-> stack[i]]
  BY <1>1, <1>2, <1>3 DEF Pop
<1> QED BY <1>3, <1>4

LEMMA Pushed ==
  ASSUME SchemaTypeInvariant, NEW f \in Files
  PROVE  /\ Push(stack, f) \in Seq(Frame) /\ Len(Push(stack, f)) = Len(stack) + 1
         /\ DOMAIN Push(stack, f) = 1 .. Len(stack) + 1 /\ Len(stack) \in Nat
         /\ \A i \in 1 .. Len(stack) : Push(stack, f)[i] = stack[i]
         /\ Push(stack, f)[Len(stack) + 1] = [file |-> f, next |-> 1]
<1>1. stack \in Seq(Frame)
  BY DEF SchemaTypeInvariant, Frame
<1>2. [file |-> f, next |-> 1] \in Frame
  BY DEF Frame
<1> QED BY <1>1, <1>2 DEF Push

LEMMA MovedOn ==
  ASSUME SchemaTypeInvariant, stack # <<>>
  PROVE  /\ Advanced \in Seq(Frame) /\ Len(Advanced) = Len(stack)
         /\ DOMAIN Advanced = 1 .. Len(stack)
         /\ \A i \in 1 .. Len(stack) : Advanced[i].file = stack[i].file
         /\ \A i \in 1 .. Len(stack) - 1 : Advanced[i] = stack[i]
         /\ Advanced[Len(stack)].next = Top.next + 1
<1>1. stack \in Seq(Frame)
  BY DEF SchemaTypeInvariant, Frame
<1>2. /\ Len(stack) \in Nat \ {0} /\ Len(stack) \in DOMAIN stack
      /\ stack[Len(stack)] \in Frame /\ Top = stack[Len(stack)] /\ Top.next \in Nat
  BY StackTop
<1>3. [stack[Len(stack)] EXCEPT !.next = @ + 1] = [file |-> Top.file, next |-> Top.next + 1]
  BY <1>2 DEF Frame
<1>4. [file |-> Top.file, next |-> Top.next + 1] \in Frame
  BY <1>2 DEF Frame
<1>5. Advanced = [stack EXCEPT ![Len(stack)] = [file |-> Top.file, next |-> Top.next + 1]]
  BY <1>3 DEF Advanced
<1> QED BY <1>1, <1>2, <1>4, <1>5

-----------------------------------------------------------------------------
(* The inductive invariant                                                 *)

Argument == Arguments[Len(verdicts) + 1]

\* Each call but the first is for the dependency its caller is at, and what the last
\* call returned is what its caller is waiting for.
StackInv ==
  /\ \A i \in DOMAIN stack : contents[stack[i].file].stage = AllSix /\ stack[i].next > 0
  /\ \A i \in 2 .. Len(stack) :
       /\ stack[i - 1].next \in DOMAIN contents[stack[i - 1].file].dependencies
       /\ contents[stack[i - 1].file].dependencies[stack[i - 1].next].target = stack[i].file
  /\ result \in {"ok", "seen"} /\ stack # <<>> => HasDependency /\ Dependency.target \in seen
  /\ stack = <<>> => result # "seen"
  /\ stack # <<>> \/ result # "none" => Len(verdicts) < Len(Arguments)

\* Something the file pulls in is bad.
Bad(arg) ==
  \E g \in Reachable(arg) :
    \/ contents[g].stage # AllSix
    \/ \E j \in DOMAIN DependenciesOf(g) :
         DependenciesOf(g)[j].target # Nowhere /\ ~DependenciesOf(g)[j].agrees

\* Somebody seen imports the file under its namespace.
Named(g) ==
  \E f \in seen : \E j \in DOMAIN DependenciesOf(f) :
    DependenciesOf(f)[j] = [target |-> g, agrees |-> TRUE]

InProgress(g) == \E i \in DOMAIN stack : stack[i].file = g

\* While nothing has failed: every file seen has passed its own stages, it is in progress
\* or everything it imports is seen, and its name was checked or is about to be.
GoodInv(arg) ==
  /\ arg \in seen
  /\ \A f \in seen : contents[f].stage = AllSix
  /\ \A f \in seen : InProgress(f) \/ TargetsOf(f) \subseteq seen
  /\ \A i \in DOMAIN stack : \A j \in DOMAIN contents[stack[i].file].dependencies :
       j < stack[i].next =>
         contents[stack[i].file].dependencies[j].target \in seen \cup {Nowhere}
  /\ \A g \in seen \ {arg} :
       \/ Named(g) \/ InProgress(g)
       \/ result = "ok" /\ stack # <<>> /\ Dependency.target = g

\* The file being checked, and what has been seen of what it pulls in.
CheckInv(arg) ==
  /\ stack # <<>> => stack[1].file = arg
  /\ seen \subseteq Reachable(arg)
  /\ result = "failed" => Bad(arg)
  /\ result # "failed" => GoodInv(arg)

VerdictInv == OkIsSound /\ OkNamesItsImports /\ ViolationIsReal

SchemaInv ==
  /\ SchemaTypeInvariant
  /\ StackInv
  /\ \A arg \in Files :
       arg = Argument /\ (stack # <<>> \/ result # "none") => CheckInv(arg)
  /\ VerdictInv

LEMMA InvInit == SchemaInit => SchemaInv
<1> SUFFICES ASSUME SchemaInit PROVE SchemaInv
  OBVIOUS
<1> USE DEF SchemaInit
<1>1. stack = <<>> /\ DOMAIN stack = {} /\ Len(stack) = 0 /\ verdicts = <<>> /\ DOMAIN verdicts = {}
  OBVIOUS
<1>2. SchemaTypeInvariant
  <2>1. Len(Arguments) \in Nat
    BY SchemaAssumption
  <2> QED BY <1>1, <2>1 DEF SchemaTypeInvariant, Results
<1>3. StackInv
  BY <1>1 DEF StackInv
<1>4. VerdictInv
  BY <1>1 DEF VerdictInv, OkIsSound, OkNamesItsImports, ViolationIsReal
<1> QED BY <1>1, <1>2, <1>3, <1>4 DEF SchemaInv

\* The schemas do not change, and what follows from them alone does not.
LEMMA ContentsStay ==
  ASSUME UNCHANGED contents
  PROVE  \A f : /\ Reachable(f)' = Reachable(f) /\ TargetsOf(f)' = TargetsOf(f)
                /\ DependenciesOf(f)' = DependenciesOf(f) /\ Bad(f)' = Bad(f)
BY DEF Reachable, Closed, Expanded, TargetsOf, DependenciesOf, Bad

LEMMA VerdictsStay ==
  ASSUME VerdictInv, UNCHANGED <<contents, verdicts>>
  PROVE  VerdictInv'
<1>1. OkIsSound'
  BY ContentsStay DEF VerdictInv, OkIsSound
<1>2. OkNamesItsImports'
  BY ContentsStay DEF VerdictInv, OkNamesItsImports
<1>3. ViolationIsReal'
  BY ContentsStay DEF VerdictInv, ViolationIsReal
<1> QED BY <1>1, <1>2, <1>3 DEF VerdictInv

LEMMA ArgumentIsFile ==
  ASSUME SchemaTypeInvariant, Len(verdicts) < Len(Arguments)
  PROVE  Argument \in Files
<1>1. Len(verdicts) \in Nat
  BY DEF SchemaTypeInvariant
<1> QED BY <1>1, SchemaAssumption DEF Argument

-----------------------------------------------------------------------------
(* A call is made                                                          *)

LEMMA CheckFileStep ==
  ASSUME SchemaInv, CheckFile
  PROVE  SchemaInv'
<1>1. /\ SchemaTypeInvariant /\ VerdictInv
      /\ stack = <<>> /\ result = "none" /\ Len(verdicts) < Len(Arguments)
      /\ Verify(Argument, {})
      /\ contents' = contents /\ verdicts' = verdicts /\ exit' = exit
  BY DEF SchemaInv, CheckFile, Argument
<1>2. PICK arg \in Files : arg = Argument
  BY <1>1, ArgumentIsFile
<1>3. Argument' = arg /\ VerdictInv'
  BY <1>1, <1>2, VerdictsStay DEF Argument
<1>4. arg \in Reachable(arg) /\ Reachable(arg)' = Reachable(arg) /\ Bad(arg)' = Bad(arg)
  BY <1>1, <1>2, ReachesItself, ContentsStay
<1>5. contents[arg] \in Contents /\ Len(stack) = 0 /\ DOMAIN stack = {}
      /\ Len(contents[arg].dependencies) \in Nat
  BY <1>1, ContentsAreTyped DEF DependenciesOf
<1>6. CASE contents[arg].stage # AllSix
  <2>1. result' = "failed" /\ stack' = <<>> /\ seen' \subseteq {arg}
    BY <1>1, <1>2, <1>6 DEF Verify, NoFile, AllSix
  <2>2. SchemaTypeInvariant'
    BY <1>1, <1>5, <2>1 DEF SchemaTypeInvariant, Results
  <2>3. StackInv'
    BY <1>1, <1>5, <2>1 DEF StackInv
  <2>4. Bad(arg)
    BY <1>4, <1>6 DEF Bad
  <2>5. CheckInv(arg)'
    BY <1>1, <1>4, <2>1, <2>4 DEF CheckInv
  <2> QED BY <1>3, <2>2, <2>3, <2>5 DEF SchemaInv
<1>7. CASE contents[arg].stage = AllSix
  <2>1. result' = "none" /\ stack' = Push(stack, arg) /\ seen' = {arg}
    BY <1>1, <1>2, <1>7 DEF Verify, NoFile, AllSix
  <2>2. /\ stack' \in Seq(Frame) /\ Len(stack') = 1 /\ DOMAIN stack' = {1}
        /\ stack'[1] = [file |-> arg, next |-> 1]
    BY <1>1, <1>5, <2>1, Pushed
  <2>3. SchemaTypeInvariant'
    BY <1>1, <1>5, <2>1, <2>2 DEF SchemaTypeInvariant, Results, Frame, DependenciesOf
  <2>4. StackInv'
    BY <1>1, <1>7, <2>1, <2>2 DEF StackInv
  <2>5. InProgress(arg)'
    BY <2>2 DEF InProgress
  <2>6. \A j \in DOMAIN contents[arg].dependencies : ~(j < 1)
    BY <1>5 DEF Contents
  <2>7. GoodInv(arg)'
    BY <1>1, <1>7, <2>1, <2>2, <2>5, <2>6 DEF GoodInv
  <2>8. CheckInv(arg)'
    BY <1>1, <1>4, <2>1, <2>2, <2>7 DEF CheckInv
  <2> QED BY <1>3, <2>3, <2>4, <2>8 DEF SchemaInv
<1> QED BY <1>6, <1>7

\* While a call is in progress, the invariant speaks of the file being checked.
LEMMA CallInProgress ==
  ASSUME SchemaInv, stack # <<>> \/ result # "none"
  PROVE  \E arg \in Files : arg = Argument /\ CheckInv(arg)
BY ArgumentIsFile DEF SchemaInv, StackInv

LEMMA TopCall ==
  ASSUME SchemaInv, stack # <<>>
  PROVE  /\ Len(stack) \in Nat \ {0} /\ DOMAIN stack = 1 .. Len(stack)
         /\ Top = stack[Len(stack)] /\ Top.file \in seen /\ Top.file \in Files
         /\ Top.next \in Nat \ {0} /\ Top.next <= Len(contents[Top.file].dependencies) + 1
         /\ contents[Top.file].dependencies \in Seq(Dependencies)
         /\ contents[Top.file].stage = AllSix
<1>1. SchemaTypeInvariant /\ StackInv
  BY DEF SchemaInv
<1>2. /\ Len(stack) \in Nat \ {0} /\ Len(stack) \in DOMAIN stack
      /\ Top \in Frame /\ Top = stack[Len(stack)]
      /\ Top.file \in seen /\ Top.file \in Files /\ Top.next \in Nat
      /\ Top.next <= Len(DependenciesOf(Top.file)) + 1
  BY <1>1, StackTop
<1>3. DependenciesOf(Top.file) \in Seq(Dependencies)
  BY <1>1, <1>2, ContentsAreTyped
<1>4. Top.next > 0 /\ contents[Top.file].stage = AllSix
  BY <1>1, <1>2 DEF StackInv
<1>5. DOMAIN stack = 1 .. Len(stack)
  BY <1>1 DEF SchemaTypeInvariant
<1> QED BY <1>2, <1>3, <1>4, <1>5 DEF DependenciesOf

\* A dependency with a location is one of the targets, and so is pulled in.
LEMMA AtDependency ==
  ASSUME SchemaInv, stack # <<>>, HasDependency
  PROVE  /\ Top.next \in DOMAIN contents[Top.file].dependencies
         /\ Dependency = contents[Top.file].dependencies[Top.next]
         /\ Dependency \in Dependencies
         /\ Dependency.target # Nowhere => Dependency.target \in TargetsOf(Top.file) \cap Files
<1>1. /\ Top.next \in Nat \ {0}
      /\ contents[Top.file].dependencies \in Seq(Dependencies)
      /\ Top.next <= Len(contents[Top.file].dependencies)
      /\ Dependency = contents[Top.file].dependencies[Top.next]
  BY TopCall DEF HasDependency, Dependency, DependenciesOf
<1>2. Top.next \in DOMAIN contents[Top.file].dependencies
  BY <1>1
<1>3. contents[Top.file].dependencies[Top.next] \in Dependencies
  BY <1>1, <1>2
<1>4. Dependency.target # Nowhere => Dependency.target \in TargetsOf(Top.file)
  BY <1>1, <1>2 DEF TargetsOf, DependenciesOf
<1>5. Dependency.target # Nowhere => Dependency.target \in Files
  BY <1>1, <1>3 DEF Dependencies
<1> QED BY <1>1, <1>2, <1>3, <1>4, <1>5

LEMMA FollowStep ==
  ASSUME SchemaInv, FollowDependency
  PROVE  SchemaInv'
<1>1. /\ SchemaTypeInvariant /\ StackInv /\ VerdictInv
      /\ stack # <<>> /\ result = "none" /\ HasDependency
      /\ contents' = contents /\ verdicts' = verdicts /\ exit' = exit
  BY DEF SchemaInv, FollowDependency, Checking
<1>2. PICK arg \in Files : arg = Argument /\ CheckInv(arg)
  BY <1>1, CallInProgress
<1>3. Argument' = arg /\ VerdictInv'
  BY <1>1, <1>2, VerdictsStay DEF Argument
<1>4. /\ Reachable(arg)' = Reachable(arg) /\ Bad(arg)' = Bad(arg)
      /\ \A f : TargetsOf(f)' = TargetsOf(f) /\ DependenciesOf(f)' = DependenciesOf(f)
  BY <1>1, ContentsStay
<1>5. /\ Len(stack) \in Nat \ {0} /\ DOMAIN stack = 1 .. Len(stack)
      /\ Top = stack[Len(stack)] /\ Top.file \in seen /\ Top.file \in Files
      /\ contents[Top.file].stage = AllSix
  BY <1>1, TopCall
<1>6. PICK f \in Files : f = Dependency.target /\ Verify(f, seen) /\ f \in TargetsOf(Top.file)
  BY <1>1, AtDependency DEF FollowDependency
<1>7. f \in Reachable(arg) /\ GoodInv(arg) /\ seen \subseteq Reachable(arg)
  BY <1>1, <1>2, <1>5, <1>6, ReachesTargets DEF CheckInv, Expanded
<1>8. contents[f] \in Contents /\ Len(contents[f].dependencies) \in Nat
  BY <1>1, ContentsAreTyped DEF DependenciesOf
<1>9. CASE f \in seen
  <2>1. result' = "seen" /\ stack' = stack /\ seen' = seen
    BY <1>6, <1>9 DEF Verify
  <2>2. SchemaTypeInvariant'
    BY <1>1, <2>1 DEF SchemaTypeInvariant, Results, DependenciesOf
  <2>3. StackInv'
    BY <1>1, <1>6, <1>9, <2>1 DEF StackInv, HasDependency, Dependency, Top, DependenciesOf
  <2>4. GoodInv(arg)'
    BY <1>1, <1>4, <1>7, <2>1 DEF GoodInv, Named, InProgress
  <2>5. CheckInv(arg)'
    BY <1>1, <1>2, <1>4, <2>1, <2>4 DEF CheckInv
  <2> QED BY <1>3, <2>2, <2>3, <2>5 DEF SchemaInv
<1>10. CASE f \notin seen /\ contents[f].stage # AllSix
  <2>1. result' = "failed" /\ stack' = stack /\ seen \subseteq seen' /\ seen' \subseteq seen \cup {f}
    BY <1>6, <1>10 DEF Verify
  <2>2. SchemaTypeInvariant'
    BY <1>1, <2>1 DEF SchemaTypeInvariant, Results, DependenciesOf
  <2>3. StackInv'
    BY <1>1, <2>1 DEF StackInv
  <2>4. Bad(arg)
    BY <1>7, <1>10 DEF Bad
  <2>5. CheckInv(arg)'
    BY <1>1, <1>2, <1>4, <1>7, <2>1, <2>4 DEF CheckInv
  <2> QED BY <1>3, <2>2, <2>3, <2>5 DEF SchemaInv
<1>11. CASE f \notin seen /\ contents[f].stage = AllSix
  <2>1. result' = "none" /\ stack' = Push(stack, f) /\ seen' = seen \cup {f}
    BY <1>6, <1>11 DEF Verify, NoFile, AllSix
  <2>2. /\ stack' \in Seq(Frame) /\ Len(stack') = Len(stack) + 1
        /\ DOMAIN stack' = 1 .. Len(stack) + 1
        /\ \A i \in 1 .. Len(stack) : stack'[i] = stack[i]
        /\ stack'[Len(stack) + 1] = [file |-> f, next |-> 1]
    BY <1>1, <2>1, Pushed
  <2>3. SchemaTypeInvariant'
    <3>1. ASSUME NEW i \in DOMAIN stack'
          PROVE  /\ stack'[i].file \in seen'
                 /\ stack'[i].next <= Len(contents[stack'[i].file].dependencies) + 1
      <4>1. CASE i \in DOMAIN stack
        <5>1. stack'[i] = stack[i]
          BY <1>5, <2>2, <4>1
        <5> QED BY <1>1, <2>1, <4>1, <5>1 DEF SchemaTypeInvariant, DependenciesOf
      <4>2. CASE i = Len(stack) + 1
        BY <1>8, <2>1, <2>2, <4>2
      <4> QED BY <1>5, <2>2, <4>1, <4>2
    <3> QED BY <1>1, <2>1, <2>2, <3>1 DEF SchemaTypeInvariant, Results, Frame, DependenciesOf
  <2>4. StackInv'
    <3>1. \A i \in DOMAIN stack' : contents[stack'[i].file].stage = AllSix /\ stack'[i].next > 0
      BY <1>1, <1>5, <1>11, <2>2 DEF StackInv
    <3>2. ASSUME NEW i \in 2 .. Len(stack) + 1
          PROVE  /\ stack'[i - 1].next \in DOMAIN contents[stack'[i - 1].file].dependencies
                 /\ contents[stack'[i - 1].file].dependencies[stack'[i - 1].next].target
                      = stack'[i].file
      <4>1. CASE i = Len(stack) + 1
        <5>1. /\ Top.next \in DOMAIN contents[Top.file].dependencies
              /\ Dependency = contents[Top.file].dependencies[Top.next]
          BY <1>1, AtDependency
        <5>2. i - 1 = Len(stack) /\ Len(stack) \in 1 .. Len(stack)
          BY <1>5, <4>1
        <5>3. stack'[i - 1] = Top /\ stack'[i].file = f
          BY <1>5, <2>2, <4>1, <5>2
        <5> QED BY <1>6, <5>1, <5>3
      <4>2. CASE i \in 2 .. Len(stack)
        <5>1. i \in 1 .. Len(stack) /\ i - 1 \in 1 .. Len(stack)
          BY <1>5, <4>2
        <5>2. stack'[i - 1] = stack[i - 1] /\ stack'[i] = stack[i]
          BY <2>2, <5>1
        <5> QED BY <1>1, <4>2, <5>2 DEF StackInv
      <4> QED BY <1>5, <4>1, <4>2
    <3> QED BY <1>1, <2>1, <2>2, <3>1, <3>2 DEF StackInv
  <2>5. \A g : InProgress(g) \/ g = f => InProgress(g)'
    BY <1>5, <2>2 DEF InProgress
  <2>6. \A g : Named(g) => Named(g)'
    BY <1>4, <2>1 DEF Named
  <2>7. \A i \in DOMAIN stack' : \A j \in DOMAIN contents[stack'[i].file].dependencies :
          j < stack'[i].next =>
            contents[stack'[i].file].dependencies[j].target \in seen' \cup {Nowhere}
    <3>1. \A j \in DOMAIN contents[f].dependencies : ~(j < 1)
      BY <1>8 DEF Contents
    <3> QED BY <1>5, <1>7, <2>1, <2>2, <3>1 DEF GoodInv
  <2>8. GoodInv(arg)'
    BY <1>1, <1>4, <1>7, <1>11, <2>1, <2>2, <2>5, <2>6, <2>7 DEF GoodInv
  <2>9. CheckInv(arg)'
    BY <1>1, <1>2, <1>4, <1>5, <1>7, <2>1, <2>2, <2>8 DEF CheckInv
  <2> QED BY <1>3, <2>3, <2>4, <2>9 DEF SchemaInv
<1> QED BY <1>9, <1>10, <1>11

-----------------------------------------------------------------------------
(* A call moves on                                                         *)

\* The call in progress is done with a dependency that was seen, or is nowhere.
LEMMA MovingOn ==
  ASSUME SchemaInv, stack # <<>>, HasDependency, result \in {"none", "ok", "seen"},
         stack' = Advanced, result' = "none", UNCHANGED <<contents, verdicts, seen, exit>>,
         Dependency.target \in seen \cup {Nowhere},
         result = "ok" => Dependency.agrees
  PROVE  SchemaInv'
<1>1. SchemaTypeInvariant /\ StackInv /\ VerdictInv
  BY DEF SchemaInv
<1>2. PICK arg \in Files : arg = Argument /\ CheckInv(arg)
  BY CallInProgress
<1>3. Argument' = arg /\ VerdictInv' /\ GoodInv(arg)
  BY <1>1, <1>2, VerdictsStay DEF Argument, CheckInv
<1>4. /\ Reachable(arg)' = Reachable(arg)
      /\ \A f : TargetsOf(f)' = TargetsOf(f) /\ DependenciesOf(f)' = DependenciesOf(f)
  BY ContentsStay
<1>5. /\ Len(stack) \in Nat \ {0} /\ DOMAIN stack = 1 .. Len(stack)
      /\ Top = stack[Len(stack)] /\ Top.file \in seen /\ Top.next \in Nat \ {0}
      /\ contents[Top.file].dependencies \in Seq(Dependencies)
  BY TopCall
<1>6. /\ Top.next \in DOMAIN contents[Top.file].dependencies
      /\ Dependency = contents[Top.file].dependencies[Top.next]
      /\ Dependency \in Dependencies
  BY AtDependency
<1>7. /\ stack' \in Seq(Frame) /\ Len(stack') = Len(stack) /\ DOMAIN stack' = DOMAIN stack
      /\ \A i \in DOMAIN stack : stack'[i].file = stack[i].file
      /\ \A i \in 1 .. Len(stack) - 1 : stack'[i] = stack[i]
      /\ stack'[Len(stack)].next = Top.next + 1
      /\ stack'[Len(stack)].file = Top.file
  BY <1>1, <1>5, MovedOn
<1>8. SchemaTypeInvariant'
  <2>1. ASSUME NEW i \in DOMAIN stack'
        PROVE  stack'[i].next <= Len(contents[stack'[i].file].dependencies) + 1
    <3>1. CASE i = Len(stack)
      BY <1>5, <1>6, <1>7, <3>1
    <3>2. CASE i # Len(stack)
      <4>1. stack'[i] = stack[i]
        BY <1>5, <1>7, <3>2
      <4> QED BY <1>1, <1>7, <4>1 DEF SchemaTypeInvariant, DependenciesOf
    <3> QED BY <3>1, <3>2
  <2> QED BY <1>1, <1>7, <2>1 DEF SchemaTypeInvariant, Results, Frame, DependenciesOf
<1>9. StackInv'
  <2>1. ASSUME NEW i \in DOMAIN stack'
        PROVE  contents[stack'[i].file].stage = AllSix /\ stack'[i].next > 0
    <3>1. CASE i = Len(stack)
      BY <1>1, <1>5, <1>7, <3>1 DEF StackInv
    <3>2. CASE i # Len(stack)
      <4>1. stack'[i] = stack[i]
        BY <1>5, <1>7, <3>2
      <4> QED BY <1>1, <1>7, <4>1 DEF StackInv
    <3> QED BY <3>1, <3>2
  <2>2. ASSUME NEW i \in 2 .. Len(stack)
        PROVE  /\ stack'[i - 1].next \in DOMAIN contents[stack'[i - 1].file].dependencies
               /\ contents[stack'[i - 1].file].dependencies[stack'[i - 1].next].target
                    = stack'[i].file
    <3>1. stack'[i - 1] = stack[i - 1] /\ stack'[i].file = stack[i].file
      BY <1>5, <1>7
    <3> QED BY <1>1, <3>1 DEF StackInv
  <2> QED BY <1>1, <1>7, <2>1, <2>2 DEF StackInv
<1>10. \A g : InProgress(g) => InProgress(g)'
  BY <1>7 DEF InProgress
<1>11. \A g : Named(g) => Named(g)'
  BY <1>4 DEF Named
<1>12. result = "ok" => Named(Dependency.target)
  <2> SUFFICES ASSUME result = "ok" PROVE Named(Dependency.target)
    OBVIOUS
  <2>1. Dependency = [target |-> Dependency.target, agrees |-> TRUE]
    BY <1>6 DEF Dependencies
  <2> QED BY <1>5, <1>6, <2>1 DEF Named, DependenciesOf
<1>13. GoodInv(arg)'
  <2>1. ASSUME NEW i \in DOMAIN stack', NEW j \in DOMAIN contents[stack'[i].file].dependencies,
               j < stack'[i].next
        PROVE  contents[stack'[i].file].dependencies[j].target \in seen \cup {Nowhere}
    <3>1. CASE i = Len(stack) /\ j = Top.next
      BY <1>6, <1>7, <3>1
    <3>2. CASE i = Len(stack) /\ j # Top.next
      <4>1. stack'[i].file = Top.file /\ stack[i] = Top /\ j \in DOMAIN contents[Top.file].dependencies
        BY <1>5, <1>7, <3>2
      <4>2. j \in Nat /\ j < Top.next + 1
        BY <1>5, <1>7, <2>1, <3>2, <4>1
      <4>3. j < stack[i].next
        BY <1>5, <3>2, <4>1, <4>2
      <4> QED BY <1>3, <1>7, <4>1, <4>3 DEF GoodInv
    <3>3. CASE i # Len(stack)
      <4>1. stack'[i] = stack[i]
        BY <1>5, <1>7, <3>3
      <4> QED BY <1>3, <1>7, <2>1, <4>1 DEF GoodInv
    <3> QED BY <3>1, <3>2, <3>3
  <2>2. ASSUME NEW g \in seen \ {arg} PROVE Named(g) \/ InProgress(g)
    BY <1>3, <1>12 DEF GoodInv
  <2> QED BY <1>3, <1>4, <1>10, <1>11, <2>1, <2>2 DEF GoodInv
<1>14. stack' # <<>> /\ stack'[1].file = stack[1].file
  BY <1>5, <1>7
<1>15. CheckInv(arg)'
  BY <1>2, <1>4, <1>13, <1>14 DEF CheckInv
<1> QED BY <1>3, <1>8, <1>9, <1>15 DEF SchemaInv

LEMMA SkipStep ==
  ASSUME SchemaInv, SkipDependency
  PROVE  SchemaInv'
BY MovingOn DEF SkipDependency, Checking

LEMMA AcceptStep ==
  ASSUME SchemaInv, AcceptDependency
  PROVE  SchemaInv'
<1>1. HasDependency /\ Dependency.target \in seen
  BY DEF SchemaInv, StackInv, AcceptDependency
<1> QED BY <1>1, MovingOn DEF AcceptDependency, NamespaceAgrees

-----------------------------------------------------------------------------
(* A call ends                                                             *)

\* The caller, if there is one, is at the dependency that the call was for.
LEMMA Returning ==
  ASSUME SchemaInv, stack # <<>>, stack' = Pop, result' \in {"ok", "failed"},
         UNCHANGED <<contents, verdicts, seen, exit>>
  PROVE  /\ SchemaTypeInvariant' /\ StackInv'
         /\ stack' # <<>> => stack'[1] = stack[1] /\ Dependency'.target = Top.file
         /\ stack' = <<>> => Len(stack) = 1
         /\ DOMAIN stack' = 1 .. Len(stack) - 1
         /\ \A i \in DOMAIN stack' : stack'[i] = stack[i]
<1>1. SchemaTypeInvariant /\ StackInv
  BY DEF SchemaInv
<1>2. /\ Len(stack) \in Nat \ {0} /\ DOMAIN stack = 1 .. Len(stack)
      /\ Top = stack[Len(stack)] /\ Top.file \in seen
  BY TopCall
<1>3. /\ stack' \in Seq(Frame) /\ Len(stack') = Len(stack) - 1
      /\ DOMAIN stack' = 1 .. Len(stack) - 1
      /\ \A i \in DOMAIN stack' : i \in DOMAIN stack /\ stack'[i] = stack[i]
  <2>1. /\ Pop \in Seq(Frame) /\ Len(Pop) = Len(stack) - 1
        /\ DOMAIN Pop = 1 .. Len(stack) - 1
        /\ \A i \in 1 .. Len(stack) - 1 : Pop[i] = stack[i]
    BY <1>1, Popped
  <2>2. 1 .. Len(stack) - 1 \subseteq 1 .. Len(stack)
    BY <1>2
  <2> QED BY <1>2, <2>1, <2>2
<1>4. SchemaTypeInvariant'
  BY <1>1, <1>3 DEF SchemaTypeInvariant, Results, Frame, DependenciesOf
<1>5. stack' = <<>> => Len(stack) = 1
  BY <1>2, <1>3
<1>6. ASSUME stack' # <<>>
      PROVE  /\ Len(stack) - 1 \in DOMAIN stack' /\ stack'[1] = stack[1]
             /\ Top' = stack[Len(stack) - 1]
             /\ Top'.next \in DOMAIN contents[Top'.file].dependencies
             /\ contents[Top'.file].dependencies[Top'.next].target = Top.file
  <2>1. Len(stack) # 1
    BY <1>3, <1>6
  <2>2. Len(stack) \in 2 .. Len(stack) /\ Len(stack) - 1 \in DOMAIN stack' /\ 1 \in DOMAIN stack'
    BY <1>2, <1>3, <2>1
  <2>3. Top' = stack[Len(stack) - 1] /\ stack'[1] = stack[1]
    BY <1>3, <2>2 DEF Top
  <2> QED BY <1>1, <1>2, <2>2, <2>3 DEF StackInv
<1>7. ASSUME stack' # <<>>
      PROVE  HasDependency' /\ Dependency'.target = Top.file
  <2>1. Top' \in Frame /\ Top'.file \in Files
    <3>1. Len(stack) - 1 \in DOMAIN stack' /\ Top' = stack[Len(stack) - 1]
      BY <1>6, <1>7
    <3>2. stack'[Len(stack) - 1] \in Frame
      BY <1>3, <3>1
    <3>3. Top' \in Frame
      BY <1>3, <3>1, <3>2
    <3> QED BY <3>3 DEF Frame
  <2>2. contents[Top'.file].dependencies \in Seq(Dependencies)
    BY <1>1, <2>1, ContentsAreTyped DEF DependenciesOf
  <2>3. Top'.next <= Len(contents[Top'.file].dependencies)
    BY <1>6, <1>7, <2>2
  <2> QED BY <1>6, <1>7, <2>3 DEF HasDependency, Dependency, DependenciesOf
<1>8. StackInv'
  <2>1. \A i \in DOMAIN stack' : contents[stack'[i].file].stage = AllSix /\ stack'[i].next > 0
    BY <1>1, <1>3 DEF StackInv
  <2>2. ASSUME NEW i \in 2 .. Len(stack) - 1
        PROVE  /\ stack'[i - 1].next \in DOMAIN contents[stack'[i - 1].file].dependencies
               /\ contents[stack'[i - 1].file].dependencies[stack'[i - 1].next].target
                    = stack'[i].file
    <3>1. i \in 2 .. Len(stack) /\ i \in DOMAIN stack' /\ i - 1 \in DOMAIN stack'
      BY <1>2, <1>3
    <3>2. stack'[i - 1] = stack[i - 1] /\ stack'[i] = stack[i]
      BY <1>3, <3>1
    <3> QED BY <1>1, <3>1, <3>2 DEF StackInv
  <2> QED BY <1>1, <1>2, <1>3, <1>7, <2>1, <2>2 DEF StackInv
<1> QED BY <1>3, <1>4, <1>5, <1>6, <1>7, <1>8

LEMMA Failing ==
  ASSUME SchemaInv, stack # <<>>, stack' = Pop, result' = "failed",
         UNCHANGED <<contents, verdicts, seen, exit>>,
         \A arg \in Files : CheckInv(arg) => Bad(arg)
  PROVE  SchemaInv'
<1>1. PICK arg \in Files : arg = Argument /\ CheckInv(arg)
  BY CallInProgress
<1>2. Argument' = arg /\ VerdictInv' /\ Bad(arg)
  BY <1>1, VerdictsStay DEF Argument, SchemaInv
<1>3. Reachable(arg)' = Reachable(arg) /\ Bad(arg)' = Bad(arg)
  BY ContentsStay
<1>4. /\ SchemaTypeInvariant' /\ StackInv'
      /\ stack' # <<>> => stack'[1] = stack[1]
  BY Returning
<1>5. CheckInv(arg)'
  BY <1>1, <1>2, <1>3, <1>4 DEF CheckInv
<1> QED BY <1>2, <1>4, <1>5 DEF SchemaInv

LEMMA RejectStep ==
  ASSUME SchemaInv, RejectNamespace
  PROVE  SchemaInv'
<1>1. /\ stack # <<>> /\ result = "ok" /\ ~Dependency.agrees
      /\ stack' = Pop /\ result' = "failed" /\ UNCHANGED <<contents, verdicts, seen, exit>>
  BY DEF RejectNamespace, NamespaceAgrees
<1>2. HasDependency /\ Dependency.target \in seen /\ seen \subseteq Files
  BY <1>1 DEF SchemaInv, StackInv, SchemaTypeInvariant
<1>3. /\ Top.file \in seen
      /\ Top.next \in DOMAIN DependenciesOf(Top.file)
      /\ Dependency = DependenciesOf(Top.file)[Top.next]
  BY <1>1, <1>2, TopCall, AtDependency DEF DependenciesOf
<1>4. Dependency.target # Nowhere
  BY <1>2, SchemaAssumption
<1>5. \A arg \in Files : CheckInv(arg) => Bad(arg)
  BY <1>1, <1>3, <1>4 DEF CheckInv, Bad
<1> QED BY <1>1, <1>5, Failing

LEMMA FailStep ==
  ASSUME SchemaInv, FailWithDependency
  PROVE  SchemaInv'
<1>1. /\ stack # <<>> /\ result = "failed" /\ result' = "failed"
      /\ stack' = Pop /\ UNCHANGED <<contents, verdicts, seen, exit>>
  BY DEF FailWithDependency
<1>2. \A arg \in Files : CheckInv(arg) => Bad(arg)
  BY <1>1 DEF CheckInv
<1> QED BY <1>1, <1>2, Failing

LEMMA ReturnStep ==
  ASSUME SchemaInv, ReturnOk
  PROVE  SchemaInv'
<1>1. /\ stack # <<>> /\ result = "none" /\ ~HasDependency
      /\ stack' = Pop /\ result' = "ok" /\ UNCHANGED <<contents, verdicts, seen, exit>>
  BY DEF ReturnOk, Checking
<1>2. PICK arg \in Files : arg = Argument /\ CheckInv(arg)
  BY <1>1, CallInProgress
<1>3. Argument' = arg /\ VerdictInv' /\ GoodInv(arg)
  BY <1>1, <1>2, VerdictsStay DEF Argument, SchemaInv, CheckInv
<1>4. /\ Reachable(arg)' = Reachable(arg)
      /\ \A f : TargetsOf(f)' = TargetsOf(f) /\ DependenciesOf(f)' = DependenciesOf(f)
  BY <1>1, ContentsStay
<1>5. /\ SchemaTypeInvariant' /\ StackInv'
      /\ stack' # <<>> => stack'[1] = stack[1] /\ Dependency'.target = Top.file
      /\ stack' = <<>> => Len(stack) = 1
      /\ DOMAIN stack' = 1 .. Len(stack) - 1
      /\ \A i \in DOMAIN stack' : stack'[i] = stack[i]
  BY <1>1, Returning
<1>6. /\ Len(stack) \in Nat \ {0} /\ DOMAIN stack = 1 .. Len(stack)
      /\ Top = stack[Len(stack)] /\ Top.next \in Nat \ {0}
      /\ contents[Top.file].dependencies \in Seq(Dependencies)
  BY <1>1, TopCall
<1>7. ASSUME NEW g, InProgress(g) PROVE InProgress(g)' \/ g = Top.file
  <2>1. PICK i \in DOMAIN stack : stack[i].file = g
    BY <1>7 DEF InProgress
  <2>2. i \in DOMAIN stack' \/ i = Len(stack)
    BY <1>5, <1>6
  <2> QED BY <1>5, <1>6, <2>1, <2>2 DEF InProgress
<1>8. TargetsOf(Top.file) \subseteq seen
  <2>1. \A j \in DOMAIN contents[Top.file].dependencies : j < Top.next
    BY <1>1, <1>6 DEF HasDependency, DependenciesOf
  <2>2. \A j \in DOMAIN contents[Top.file].dependencies :
          contents[Top.file].dependencies[j].target \in seen \cup {Nowhere}
    BY <1>3, <1>6, <2>1 DEF GoodInv
  <2> QED BY <2>2 DEF TargetsOf, DependenciesOf
<1>9. ASSUME NEW g \in seen \ {arg}
      PROVE  Named(g)' \/ InProgress(g)' \/ (stack' # <<>> /\ Dependency'.target = g)
  <2>1. Named(g) \/ InProgress(g)
    BY <1>1, <1>3 DEF GoodInv
  <2>2. CASE Named(g)
    BY <1>1, <1>4, <2>2 DEF Named
  <2>3. CASE InProgress(g)
    <3>1. CASE g = Top.file
      <4>1. stack' # <<>>
        BY <1>1, <1>2, <1>5, <1>6, <3>1 DEF CheckInv
      <4> QED BY <1>5, <3>1, <4>1
    <3> QED BY <1>7, <2>3, <3>1
  <2> QED BY <2>1, <2>2, <2>3
<1>10. GoodInv(arg)'
  <2>1. ASSUME NEW f \in seen PROVE InProgress(f)' \/ TargetsOf(f) \subseteq seen
    BY <1>3, <1>7, <1>8 DEF GoodInv
  <2>2. \A i \in DOMAIN stack' : \A j \in DOMAIN contents[stack'[i].file].dependencies :
          j < stack'[i].next =>
            contents[stack'[i].file].dependencies[j].target \in seen \cup {Nowhere}
    BY <1>3, <1>5, <1>6 DEF GoodInv
  <2> QED BY <1>1, <1>3, <1>4, <1>9, <2>1, <2>2 DEF GoodInv
<1>11. CheckInv(arg)'
  BY <1>1, <1>2, <1>4, <1>5, <1>10 DEF CheckInv
<1> QED BY <1>3, <1>5, <1>11 DEF SchemaInv

-----------------------------------------------------------------------------
(* A file is done                                                          *)

\* With no call in progress, what has been seen is all the file pulls in.
LEMMA AllSeen ==
  ASSUME SchemaInv, stack = <<>>, NEW arg \in Files, CheckInv(arg), GoodInv(arg)
  PROVE  /\ Reachable(arg) = seen
         /\ \A g \in Reachable(arg) : contents[g].stage = AllSix
         /\ \A g \in Reachable(arg) \ {arg} :
              \E f \in Reachable(arg) : \E j \in DOMAIN DependenciesOf(f) :
                DependenciesOf(f)[j] = [target |-> g, agrees |-> TRUE]
<1>1. \A g : ~InProgress(g)
  BY DEF InProgress
<1>2. Closed(seen) /\ arg \in seen
  BY <1>1 DEF GoodInv, Closed
<1>3. seen \in SUBSET Files
  BY DEF SchemaInv, SchemaTypeInvariant
<1>4. Reachable(arg) \subseteq seen
  BY <1>2, <1>3, ReachesNoFurther
<1>5. Reachable(arg) = seen
  BY <1>4 DEF CheckInv
<1>6. \A g \in seen \ {arg} : Named(g)
  BY <1>1 DEF GoodInv
<1> QED BY <1>5, <1>6 DEF GoodInv, Named

LEMMA ReportStep ==
  ASSUME SchemaInv, Report
  PROVE  SchemaInv'
<1> DEFINE verdict == IF result = "failed" THEN "violation" ELSE "ok"
<1>1. /\ SchemaTypeInvariant /\ StackInv /\ VerdictInv
      /\ stack = <<>> /\ result # "none" /\ result' = "none"
      /\ verdicts' = Append(verdicts, verdict)
      /\ contents' = contents /\ seen' = seen /\ stack' = stack /\ exit' = exit
  BY DEF SchemaInv, Report
<1>2. PICK arg \in Files : arg = Argument /\ CheckInv(arg)
  BY <1>1, CallInProgress
<1>3. /\ Len(verdicts) \in Nat /\ Len(verdicts) < Len(Arguments) /\ Len(Arguments) \in Nat
      /\ verdicts \in Seq({"ok", "violation"}) /\ verdict \in {"ok", "violation"}
  BY <1>1, SchemaAssumption DEF SchemaTypeInvariant, StackInv
<1>4. /\ verdicts' \in Seq({"ok", "violation"}) /\ Len(verdicts') = Len(verdicts) + 1
      /\ \A i \in DOMAIN verdicts' :
           \/ i \in DOMAIN verdicts /\ verdicts'[i] = verdicts[i]
           \/ Arguments[i] = arg /\ verdicts'[i] = verdict
  BY <1>1, <1>2, <1>3 DEF Argument
<1>5. SchemaTypeInvariant'
  BY <1>1, <1>3, <1>4 DEF SchemaTypeInvariant, Results, DependenciesOf
<1>6. StackInv'
  BY <1>1 DEF StackInv
<1>7. \A f : Reachable(f)' = Reachable(f) /\ DependenciesOf(f)' = DependenciesOf(f)
  BY <1>1, ContentsStay
<1>8. verdict = "ok" =>
        /\ \A g \in Reachable(arg) : contents[g].stage = AllSix
        /\ \A g \in Reachable(arg) \ {arg} :
             \E f \in Reachable(arg) : \E j \in DOMAIN DependenciesOf(f) :
               DependenciesOf(f)[j] = [target |-> g, agrees |-> TRUE]
  BY <1>1, <1>2, AllSeen DEF CheckInv
<1>9. verdict = "violation" => Bad(arg)
  BY <1>2 DEF CheckInv
<1>10. OkIsSound'
  BY <1>1, <1>4, <1>7, <1>8 DEF VerdictInv, OkIsSound
<1>11. OkNamesItsImports'
  BY <1>1, <1>4, <1>7, <1>8 DEF VerdictInv, OkNamesItsImports
<1>12. ViolationIsReal'
  BY <1>1, <1>4, <1>7, <1>9 DEF VerdictInv, ViolationIsReal, Bad
<1> QED BY <1>1, <1>5, <1>6, <1>10, <1>11, <1>12 DEF SchemaInv, VerdictInv

-----------------------------------------------------------------------------
(* Every step                                                              *)

LEMMA UnchangedStep ==
  ASSUME SchemaInv, UNCHANGED <<contents, verdicts, seen, stack, result>>,
         exit' \in {"running", "0", "1"}
  PROVE  SchemaInv'
<1>1. SchemaTypeInvariant'
  BY DEF SchemaInv, SchemaTypeInvariant, DependenciesOf
<1>2. StackInv'
  BY DEF SchemaInv, StackInv, HasDependency, Dependency, Top, DependenciesOf
<1>3. VerdictInv' /\ Argument' = Argument
  BY VerdictsStay DEF SchemaInv, Argument
<1>4. ASSUME NEW arg \in Files, CheckInv(arg) PROVE CheckInv(arg)'
  BY <1>4, ContentsStay
     DEF CheckInv, GoodInv, InProgress, Named, Dependency, Top
<1> QED BY <1>1, <1>2, <1>3, <1>4 DEF SchemaInv

LEMMA InvStep == SchemaInv /\ [SchemaNext]_schemaVars => SchemaInv'
<1> SUFFICES ASSUME SchemaInv, [SchemaNext]_schemaVars PROVE SchemaInv'
  OBVIOUS
<1>1. CASE CheckFile
  BY <1>1, CheckFileStep
<1>2. CASE FollowDependency
  BY <1>2, FollowStep
<1>3. CASE SkipDependency
  BY <1>3, SkipStep
<1>4. CASE AcceptDependency
  BY <1>4, AcceptStep
<1>5. CASE RejectNamespace
  BY <1>5, RejectStep
<1>6. CASE FailWithDependency
  BY <1>6, FailStep
<1>7. CASE ReturnOk
  BY <1>7, ReturnStep
<1>8. CASE Report
  BY <1>8, ReportStep
<1>9. CASE Exit
  BY <1>9, UnchangedStep DEF Exit
<1>10. CASE UNCHANGED schemaVars
  <2>1. exit' \in {"running", "0", "1"}
    BY <1>10 DEF schemaVars, SchemaInv, SchemaTypeInvariant
  <2> QED BY <1>10, <2>1, UnchangedStep DEF schemaVars
<1> QED BY <1>1, <1>2, <1>3, <1>4, <1>5, <1>6, <1>7, <1>8, <1>9, <1>10 DEF SchemaNext

\* The invariant holds in every state: what the calls in progress and the set of paths
\* seen say of the file being checked (verify_schema).
THEOREM SchemaInvAlways == SchemaSpec => []SchemaInv
BY InvInit, InvStep, PTL DEF SchemaSpec

\* The variables keep their types; every call in progress has its file among those seen.
THEOREM SchemaTypesHold == SchemaSpec => []SchemaTypeInvariant
<1>1. SchemaInv => SchemaTypeInvariant
  BY DEF SchemaInv
<1> QED BY <1>1, SchemaInvAlways, PTL

\* For any files, importing and redefining one another in any way, cycles and diamonds
\* included: a file that verify_schema.py reports ok pulls in nothing that any of the six
\* stages objects to.
THEOREM OkAlwaysSound == SchemaSpec => []OkIsSound
<1>1. SchemaInv => OkIsSound
  BY DEF SchemaInv, VerdictInv
<1> QED BY <1>1, SchemaInvAlways, PTL

\* Everything such a file pulls in is imported at least once under its own namespace.
THEOREM OkAlwaysNamesItsImports == SchemaSpec => []OkNamesItsImports
<1>1. SchemaInv => OkNamesItsImports
  BY DEF SchemaInv, VerdictInv
<1> QED BY <1>1, SchemaInvAlways, PTL

\* A reported violation has a cause in what the file pulls in.
THEOREM ViolationAlwaysReal == SchemaSpec => []ViolationIsReal
<1>1. SchemaInv => ViolationIsReal
  BY DEF SchemaInv, VerdictInv
<1> QED BY <1>1, SchemaInvAlways, PTL
-----------------------------------------------------------------------------
(* The depth of the recursion, and its end                                 *)

\* No file is traversed by two calls in progress.
NoReentry ==
  \A i, j \in DOMAIN stack : stack[i].file = stack[j].file => i = j

DepthInv == SchemaInv /\ NoReentry

LEMMA DepthStep == DepthInv /\ [SchemaNext]_schemaVars => DepthInv'
<1> SUFFICES ASSUME DepthInv, [SchemaNext]_schemaVars PROVE NoReentry'
  BY InvStep DEF DepthInv
<1>1. /\ SchemaInv /\ SchemaTypeInvariant /\ NoReentry
      /\ DOMAIN stack = 1 .. Len(stack) /\ Len(stack) \in Nat
      /\ \A i \in DOMAIN stack : stack[i].file \in seen
  BY DEF DepthInv, SchemaInv, SchemaTypeInvariant
<1>2. ASSUME NEW f \in Files, f \notin seen \/ stack = <<>>, stack' = Push(stack, f)
      PROVE  NoReentry'
  <2>1. /\ DOMAIN stack' = 1 .. Len(stack) + 1
        /\ \A i \in 1 .. Len(stack) : stack'[i] = stack[i]
        /\ stack'[Len(stack) + 1].file = f
    <3>1. /\ DOMAIN Push(stack, f) = 1 .. Len(stack) + 1
          /\ \A i \in 1 .. Len(stack) : Push(stack, f)[i] = stack[i]
          /\ Push(stack, f)[Len(stack) + 1] = [file |-> f, next |-> 1]
      BY <1>1, Pushed
    <3> QED BY <1>2, <3>1
  <2>2. \A i \in DOMAIN stack : stack[i].file # f
    BY <1>1, <1>2
  <2> HIDE DEF NoReentry
  <2>3. \A i, j \in 1 .. Len(stack) : stack[i].file = stack[j].file => i = j
    BY <1>1 DEF NoReentry
  <2>4. \A i \in 1 .. Len(stack) + 1 : i \in 1 .. Len(stack) \/ i = Len(stack) + 1
    BY <1>1
  <2> QED BY <1>1, <2>1, <2>2, <2>3, <2>4 DEF NoReentry
<1>3. CASE CheckFile
  BY <1>1, <1>2, <1>3, ArgumentIsFile DEF CheckFile, Verify, NoReentry, Argument
<1>4. CASE FollowDependency
  BY <1>1, <1>2, <1>4, AtDependency DEF FollowDependency, Checking, Verify, NoReentry
<1>5. CASE SkipDependency \/ AcceptDependency
  BY <1>1, <1>5, MovedOn DEF SkipDependency, AcceptDependency, Checking, NoReentry
<1>6. CASE RejectNamespace \/ FailWithDependency \/ ReturnOk
  <2>1. stack # <<>> /\ stack' = Pop
    BY <1>6 DEF RejectNamespace, FailWithDependency, ReturnOk, Checking
  <2>2. /\ DOMAIN Pop = 1 .. Len(stack) - 1
        /\ \A i \in 1 .. Len(stack) - 1 : Pop[i] = stack[i]
    BY <1>1, <2>1, Popped
  <2>3. \A i \in DOMAIN stack' : i \in DOMAIN stack /\ stack'[i] = stack[i]
    BY <1>1, <2>1, <2>2
  <2> QED BY <1>1, <2>3 DEF NoReentry
<1>7. CASE Report \/ Exit \/ UNCHANGED schemaVars
  BY <1>1, <1>7 DEF Report, Exit, schemaVars, NoReentry
<1> QED BY <1>3, <1>4, <1>5, <1>6, <1>7 DEF SchemaNext

THEOREM DepthInvAlways == SchemaSpec => []DepthInv
<1>1. SchemaInit => DepthInv
  BY InvInit DEF SchemaInit, DepthInv, NoReentry
<1> QED BY <1>1, DepthStep, PTL DEF SchemaSpec

\* However the files import one another, in cycles too, verify_schema calls itself no
\* deeper than there are files, and never for a file it is still in.
THEOREM RecursionIsBounded ==
  ASSUME IsFiniteSet(Files)
  PROVE  SchemaSpec => [](NoReentry /\ Len(stack) <= Cardinality(Files))
<1>1. DepthInv => NoReentry /\ Len(stack) <= Cardinality(Files)
  <2> SUFFICES ASSUME DepthInv PROVE Len(stack) <= Cardinality(Files)
    BY DEF DepthInv
  <2>1. /\ NoReentry /\ DOMAIN stack = 1 .. Len(stack) /\ Len(stack) \in Nat
        /\ \A i \in 1 .. Len(stack) : stack[i].file \in Files
    BY DEF DepthInv, SchemaInv, SchemaTypeInvariant
  <2> DEFINE fileAt == [i \in 1 .. Len(stack) |-> stack[i].file]
  <2>2. fileAt \in Injection(1 .. Len(stack), Files)
    BY <2>1 DEF NoReentry, Injection, IsInjective
  <2>3. Cardinality(1 .. Len(stack)) <= Cardinality(Files)
    BY <2>2, FS_Injection
  <2>4. Cardinality(1 .. Len(stack)) = Len(stack)
    BY <2>1, FS_Interval
  <2> QED BY <2>3, <2>4
<1> QED BY <1>1, DepthInvAlways, PTL

\* What is left to do, from the outermost loop inwards: the exit, the files to report,
\* whether the next one is begun, the paths not seen, the calls in progress, the
\* dependencies of the innermost, and the call it is about to make.
ToExit == IF exit = "running" THEN 1 ELSE 0
ToReport == Len(Arguments) - Len(verdicts)
ToBegin == IF stack = <<>> /\ result = "none" THEN 1 ELSE 0
ToSee == Cardinality(Files \ seen)
ToReturn == Len(stack)
ToFollow == IF stack = <<>> THEN 0 ELSE Len(DependenciesOf(Top.file)) + 1 - Top.next
ToCall == IF result = "none" THEN 1 ELSE 0

WorkLeft == <<ToExit, ToReport, ToBegin, ToSee, ToReturn, ToFollow, ToCall>>

\* The work decreases lexicographically.
Less(after, before) ==
  \E k \in 1 .. 7 : after[k] < before[k] /\ \A j \in 1 .. k - 1 : after[j] = before[j]

\* A step that gets on with the work.
WorkIsLess == WorkLeft \in [1 .. 7 -> Nat] /\ Less(WorkLeft', WorkLeft)

LEMMA WorkLeftType ==
  ASSUME IsFiniteSet(Files), SchemaInv
  PROVE  /\ ToExit \in Nat /\ ToReport \in Nat /\ ToBegin \in Nat /\ ToSee \in Nat
         /\ ToReturn \in Nat /\ ToFollow \in Nat /\ ToCall \in Nat
<1>1. ToReport \in Nat /\ ToReturn \in Nat
  BY SchemaAssumption DEF SchemaAssumption, SchemaInv, SchemaTypeInvariant, ToReport, ToReturn
<1>2. ToSee \in Nat
  BY FS_Subset, FS_CardinalityType DEF ToSee
<1>3. ToFollow \in Nat
  BY TopCall DEF ToFollow, DependenciesOf
<1> QED BY <1>1, <1>2, <1>3 DEF ToExit, ToBegin, ToCall

\* A path seen for the first time is one less to see.
LEMMA SeenOnce ==
  ASSUME IsFiniteSet(Files), NEW before \in SUBSET Files, NEW f \in Files \ before
  PROVE  Cardinality(Files \ (before \cup {f})) < Cardinality(Files \ before)
<1>1. IsFiniteSet(Files \ before)
  BY FS_Subset
<1>2. Files \ (before \cup {f}) = (Files \ before) \ {f} /\ f \in Files \ before
  OBVIOUS
<1>3. Cardinality((Files \ before) \ {f}) = Cardinality(Files \ before) - 1
  BY <1>1, <1>2, FS_RemoveElement
<1>4. Cardinality(Files \ before) \in Nat
  BY <1>1, FS_CardinalityType
<1> QED BY <1>2, <1>3, <1>4

\* A call just made is in progress.
LEMMA PushIsACall ==
  ASSUME SchemaTypeInvariant, NEW f \in Files
  PROVE  Push(stack, f) # <<>>
<1>1. Push(stack, f) \in Seq(Frame) /\ Len(Push(stack, f)) = Len(stack) + 1 /\ Len(stack) \in Nat
  BY Pushed
<1> QED BY <1>1

LEMMA WorkDescends ==
  ASSUME IsFiniteSet(Files), SchemaInv, SchemaInv', SchemaNext
  PROVE  Less(WorkLeft', WorkLeft)
<1>1. /\ SchemaTypeInvariant
      /\ stack \in Seq(Frame) /\ Len(stack) \in Nat /\ (stack = <<>> <=> Len(stack) = 0)
      /\ stack' \in Seq(Frame) /\ Len(stack') \in Nat /\ (stack' = <<>> <=> Len(stack') = 0)
      /\ seen \in SUBSET Files
  BY DEF SchemaInv, SchemaTypeInvariant, Frame
<1>2. /\ ToExit \in Nat /\ ToReport \in Nat /\ ToBegin \in Nat /\ ToSee \in Nat
      /\ ToReturn \in Nat /\ ToFollow \in Nat /\ ToCall \in Nat
  BY WorkLeftType
<1>3. /\ ToExit' < ToExit => Less(WorkLeft', WorkLeft)
      /\ ToExit' = ToExit =>
           /\ ToReport' < ToReport => Less(WorkLeft', WorkLeft)
           /\ ToReport' = ToReport =>
                /\ ToBegin' < ToBegin => Less(WorkLeft', WorkLeft)
                /\ ToBegin' = ToBegin =>
                     /\ ToSee' < ToSee => Less(WorkLeft', WorkLeft)
                     /\ ToSee' = ToSee =>
                          /\ ToReturn' < ToReturn => Less(WorkLeft', WorkLeft)
                          /\ ToReturn' = ToReturn =>
                               /\ ToFollow' < ToFollow => Less(WorkLeft', WorkLeft)
                               /\ ToFollow' = ToFollow /\ ToCall' < ToCall =>
                                    Less(WorkLeft', WorkLeft)
  BY DEF Less, WorkLeft
<1>4. CASE CheckFile
  <2>1. /\ stack' # <<>> \/ result' # "none"
    BY <1>1, <1>4, PushIsACall, ArgumentIsFile DEF CheckFile, Verify, Argument
  <2>2. ToBegin' < ToBegin /\ ToReport' = ToReport /\ ToExit' = ToExit
    BY <1>4, <2>1 DEF CheckFile, ToBegin, ToReport, ToExit
  <2> QED BY <1>3, <2>2
<1>5. CASE FollowDependency
  <2> DEFINE f == Dependency.target
  <2>1. /\ f \in Files /\ stack # <<>> /\ result = "none"
        /\ UNCHANGED <<contents, verdicts, exit>> /\ Verify(f, seen)
    BY <1>5, AtDependency DEF FollowDependency, Checking
  <2>2. ToExit' = ToExit /\ ToReport' = ToReport
    BY <2>1 DEF ToExit, ToReport
  <2>3. stack' # <<>>
    <3>1. Push(stack, f) # <<>>
      BY <1>1, <2>1, PushIsACall
    <3>2. stack' = stack \/ stack' = Push(stack, f)
      BY <2>1 DEF Verify
    <3> QED BY <2>1, <3>1, <3>2
  <2>4. ToBegin' = ToBegin
    BY <2>1, <2>3 DEF ToBegin
  <2>5. CASE f \notin seen /\ seen' = seen \cup {f}
    <3>1. ToSee' < ToSee
      BY <1>1, <2>1, <2>5, SeenOnce DEF ToSee
    <3> QED BY <1>3, <2>2, <2>4, <3>1
  <2>6. CASE seen' = seen /\ stack' = stack /\ result' # "none"
    <3>1. ToSee' = ToSee /\ ToReturn' = ToReturn /\ ToFollow' = ToFollow
      BY <2>1, <2>6 DEF ToSee, ToReturn, ToFollow, Top, DependenciesOf
    <3>2. ToCall' < ToCall
      BY <2>1, <2>6 DEF ToCall
    <3> QED BY <1>3, <2>2, <2>4, <3>1, <3>2
  <2> QED BY <2>1, <2>5, <2>6 DEF Verify
<1>6. CASE SkipDependency \/ AcceptDependency
  <2>1. /\ stack # <<>> /\ stack' = Advanced /\ result' = "none"
        /\ UNCHANGED <<contents, verdicts, seen, exit>>
    BY <1>6 DEF SkipDependency, AcceptDependency, Checking
  <2>2. /\ Len(stack') = Len(stack) /\ Len(stack) \in Nat \ {0}
        /\ stack'[Len(stack)].file = Top.file
        /\ stack'[Len(stack)].next = Top.next + 1
    BY <1>1, <2>1, MovedOn, StackTop
  <2>3. stack' # <<>>
    BY <1>1, <2>2
  <2>4. /\ ToExit' = ToExit /\ ToReport' = ToReport /\ ToBegin' = ToBegin
        /\ ToSee' = ToSee /\ ToReturn' = ToReturn
    BY <2>1, <2>2, <2>3 DEF ToExit, ToReport, ToBegin, ToSee, ToReturn
  <2>5. ToFollow' < ToFollow
    <3>1. Top' = stack'[Len(stack)]
      BY <2>2 DEF Top
    <3>2. ToFollow = Len(DependenciesOf(Top.file)) + 1 - Top.next
      BY <2>1 DEF ToFollow
    <3>3. ToFollow' = Len(DependenciesOf(Top.file)) + 1 - (Top.next + 1)
      BY <2>1, <2>2, <2>3, <3>1 DEF ToFollow, DependenciesOf
    <3>4. Top.next \in Nat /\ Len(DependenciesOf(Top.file)) \in Nat
      BY <2>1, TopCall DEF DependenciesOf
    <3> QED BY <3>2, <3>3, <3>4
  <2> QED BY <1>3, <2>4, <2>5
<1>7. CASE RejectNamespace \/ FailWithDependency \/ ReturnOk
  <2>1. /\ stack # <<>> /\ stack' = Pop /\ result' # "none"
        /\ UNCHANGED <<contents, verdicts, seen, exit>>
    BY <1>7 DEF RejectNamespace, FailWithDependency, ReturnOk, Checking
  <2>2. /\ ToExit' = ToExit /\ ToReport' = ToReport /\ ToBegin' = ToBegin /\ ToSee' = ToSee
    BY <2>1 DEF ToExit, ToReport, ToBegin, ToSee
  <2>3. ToReturn' < ToReturn
    BY <1>1, <2>1, Popped DEF ToReturn
  <2> QED BY <1>3, <2>2, <2>3
<1>8. CASE Report
  <2>1. ToReport' < ToReport /\ ToExit' = ToExit
    <3>1. Len(verdicts) \in Nat /\ Len(verdicts') = Len(verdicts) + 1
      BY <1>1, <1>8 DEF Report, SchemaTypeInvariant
    <3>2. Len(Arguments) \in Nat
      BY SchemaAssumption DEF SchemaAssumption
    <3> QED BY <1>8, <3>1, <3>2 DEF Report, ToReport, ToExit
  <2> QED BY <1>3, <2>1
<1>9. CASE Exit
  <2>1. ToExit' < ToExit
    BY <1>9 DEF Exit, ToExit
  <2> QED BY <1>3, <2>1
<1> QED BY <1>4, <1>5, <1>6, <1>7, <1>8, <1>9 DEF SchemaNext

\* The command makes progress at every step: whatever imports whatever, the work left,
\* seven natural numbers compared from the outermost loop inwards, only ever gets less.
THEOREM CommandDescends ==
  ASSUME IsFiniteSet(Files)
  PROVE  SchemaSpec => [][WorkIsLess]_schemaVars
<1>1. SchemaInv /\ SchemaInv' /\ [SchemaNext]_schemaVars =>
        [WorkIsLess]_schemaVars
  <2>1. SchemaInv => WorkLeft \in [1 .. 7 -> Nat]
    BY WorkLeftType DEF WorkLeft
  <2> QED BY <2>1, WorkDescends DEF WorkIsLess
<1> QED BY <1>1, SchemaInvAlways, PTL DEF SchemaSpec
=============================================================================
