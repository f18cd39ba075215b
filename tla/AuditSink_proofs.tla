---------------------------- MODULE AuditSink_proofs ----------------------------
(***************************************************************************)
(* What the contract of log_record comes to, for any writers and records:  *)
(* the log holds nothing that was not handed over, holds everything of a   *)
(* writer that still writes, and misses at most one record of any other.   *)
(***************************************************************************)
EXTENDS AuditSink, TLAPS

NothingForged == \A w \in Writers : held[w] \subseteq given[w]

OnlyTheLastIsMissing ==
  \A w \in Writers :
    /\ w \notin over => held[w] = given[w]
    /\ \A a, b \in given[w] \ held[w] : a = b

SinkTypes ==
  /\ given \in [Writers -> SUBSET Records]
  /\ held \in [Writers -> SUBSET Records]
  /\ over \subseteq Writers

Kept == SinkTypes /\ NothingForged /\ OnlyTheLastIsMissing

LEMMA KeptAtFirst == Init => Kept
  BY DEF Init, Kept, SinkTypes, NothingForged, OnlyTheLastIsMissing

LEMMA KeptByAStep == Kept /\ [Next]_sinkVars => Kept'
<1> SUFFICES ASSUME Kept, [Next]_sinkVars PROVE Kept'
  OBVIOUS
<1> USE DEF Kept, SinkTypes, NothingForged, OnlyTheLastIsMissing
<1>1. ASSUME NEW w \in Writers, NEW rec \in Records, Record(w, rec) PROVE Kept'
  BY <1>1 DEF Record
<1>2. ASSUME NEW w \in Writers, Arrive(w) PROVE Kept'
  BY <1>2 DEF Arrive
<1>3. ASSUME NEW ws \in SUBSET Writers, Stop(ws) PROVE Kept'
  <2>1. SinkTypes'
    BY <1>3 DEF Stop
  <2>2. ASSUME NEW w \in ws
        PROVE  held'[w] \subseteq given'[w] /\ \A a, b \in given'[w] \ held'[w] : a = b
    BY <1>3, <2>2 DEF Stop, HandsOverItsLast
  <2>3. ASSUME NEW w \in Writers \ ws
        PROVE  UNCHANGED <<given[w], held[w]>> /\ (w \in over' <=> w \in over)
    BY <1>3, <2>3 DEF Stop
  <2>4. \A w \in ws : w \in over'
    BY <1>3 DEF Stop
  <2> QED BY <2>1, <2>2, <2>3, <2>4
<1>4. CASE UNCHANGED sinkVars
  BY <1>4 DEF sinkVars
<1> QED BY <1>1, <1>2, <1>3, <1>4 DEF Next

\* Whoever writes by the contract can be believed: the log shows only what was handed
\* over, all of it while the writer writes, and all but one record for good.
THEOREM OneRecordAtMostIsMissing == Spec => [](NothingForged /\ OnlyTheLastIsMissing)
<1>1. Kept => NothingForged /\ OnlyTheLastIsMissing
  BY DEF Kept
<1> QED BY <1>1, KeptAtFirst, KeptByAStep, PTL DEF Spec
=============================================================================
