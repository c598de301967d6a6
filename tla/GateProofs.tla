----------------------------- MODULE GateProofs -----------------------------
(***************************************************************************)
(* scg check keeps the promise of module Gate, for every baseline, project *)
(* and set of references.                                                  *)
(***************************************************************************)
EXTENDS CheckProofs

\* A goroutine records its result once, on its way out.
Unset ==
    \A u \in UniqueRef :
        pc[u] \in {"idle", "select", "lookup", "call", "note", "read", "store"}
            => results[u] = NoOutcome

\* What the project is known to differ in.
Changes ==
    IF project.state = "declared"
    THEN SelectionChanges(project.refs, RefsIn(baseline)) ELSE {}

Changed ==
    /\ project.state = "declared"
    /\ SelectionChanges(project.refs, RefsIn(baseline)) # {}

hindered == ctx = "deadline" \/ sarif = "failed"

\* What an operational error on its way to main stands for.
FailureExplained ==
    Is(err, "operational") =>
        \/ hindered
        \/ main = "joined" /\ \E e \in Entry : Unverified(e)

GateInv ==
    /\ CheckInv
    /\ Unset
    /\ stage \in {"resolve", "report"} => selection = Changes
    /\ stage \in {"read", "compare", "resolve", "report"} => sarif = "unwritten"
    /\ stage \in {"classify", "exited"} =>
          /\ baseline.state = "trusted" => selection = Changes
          /\ FailureExplained
    /\ stage = "classify" => ~Is(err, "deadline")

----------------------------------------------------------------------------
\* What one goroutine's step does to the results.
LEMMA ResultsOnce ==
    ASSUME IInv, Unset, NEW u \in UniqueRef, LocalStep(u) \/ PlatformStep(u)
    PROVE  /\ \A v \in UniqueRef \ {u} : results'[v] = results[v]
           /\ \/ results' = results
              \/ results[u].kind = "none" /\ results'[u].kind # "none"
<1> USE DEF IInv, ResolveTypeOK
<1>1. CASE GiveUp(u) \/ NoResolver(u)
  BY <1>1 DEF GiveUp, NoResolver, Unset, NoOutcome, Failed
<1>2. CASE Store(u)
  <2>1. got[u].kind # "none"
    BY <1>2 DEF Store, Sound, Genuine
  <2> QED
    BY <1>2, <2>1 DEF Store, Unset, NoOutcome
<1> QED
  BY <1>1, <1>2 DEF LocalStep, PlatformStep, Spawn, Acquire, CacheHit, CallStart,
       CallCut, CallReply, CallFails, NoteFreshness, ReadFreshness, Release, Exit

\* A result is not set before its goroutine has stored it.
LEMMA UnsetStep ==
    ASSUME IInv, Unset, [ResolveNext \/ Returned]_resolveVars
    PROVE  Unset'
<1> USE DEF IInv, ResolveTypeOK
<1>1. ASSUME NEW u \in UniqueRef, LocalStep(u) \/ PlatformStep(u)
      PROVE  Unset'
  <2>1. ASSUME NEW v \in UniqueRef \ {u}
        PROVE  pc'[v] = pc[v] /\ results'[v] = results[v]
    BY <1>1, OthersUntouched, ResultsOnce
  <2>2. pc'[u] \in {"idle", "select", "lookup", "call", "note", "read", "store"}
           => results'[u] = NoOutcome
    BY <1>1 DEF Unset, LocalStep, PlatformStep, Spawn, Acquire, GiveUp, NoResolver,
         CacheHit, CallStart, CallCut, CallReply, CallFails, NoteFreshness,
         ReadFreshness, Store, Release, Exit
  <2> QED
    BY <2>1, <2>2 DEF Unset
<1>2. CASE QuietStep
  BY <1>2, QuietUnchanged DEF Unset
<1>3. CASE UNCHANGED resolveVars
  BY <1>3 DEF Unset, resolveVars
<1> QED
  BY <1>1, <1>2, <1>3, NextCases DEF Returned

\* The invariant holds before the lockfile is read.
LEMMA GateInvInit ==
    ASSUME CheckInit
    PROVE  GateInv
BY CheckInvInit DEF GateInv, CheckInit, ResolveInit, Unset

\* Grounds for an operational error do not go away.
LEMMA FailureStep ==
    ASSUME FailureExplained, UNCHANGED <<err, main, results, baseline>>,
           hindered => hindered'
    PROVE  FailureExplained'
BY DEF FailureExplained, Unverified, ResultFor

\* No step of the command breaks the invariant.
LEMMA GateInvStep ==
    ASSUME GateInv, [CheckNext \/ Exited]_checkVars
    PROVE  GateInv'
<1>1. CheckInv'
  BY IInvStep, ResolvingIsResolve, CheckTypeStep, StageStep DEF CheckInv, GateInv
<1>2. Unset'
  BY UnsetStep, ResolvingIsResolve DEF GateInv, CheckInv
<1> USE <1>1, <1>2 DEF GateInv
<1>3. CASE ResolveStep
  BY <1>3 DEF ResolveStep, reportVars, Changes
<1>4. CASE CheckContextEnds \/ UNCHANGED checkVars
  <2>1. UNCHANGED <<reportVars, main, results>> /\ (hindered => hindered')
    BY <1>4 DEF CheckContextEnds, ContextEnds, checkVars, resolveVars, reportVars, hindered
  <2> QED
    BY <2>1, FailureStep DEF reportVars, Changes
<1>5. CASE RejectBaseline
  BY <1>5 DEF RejectBaseline, FailureExplained, Is
<1>6. CASE AcceptBaseline \/ CompareSelection
  BY <1>6 DEF AcceptBaseline, CompareSelection, Changes
<1>7. CASE DetectDrift
  BY <1>7 DEF DetectDrift, Changes
<1>8. CASE SarifFails
  BY <1>8 DEF SarifFails, Changes, FailureExplained, hindered, Operational, Is
<1>9. CASE ReportOutcome
  <2>1. Compared /\ UNCHANGED <<main, results, baseline>>
    BY <1>9 DEF ReportOutcome, CheckInv, resolveVars
  <2>2. Is(err', "operational") => warnings # {}
    BY <1>9 DEF ReportOutcome, Report, Operational, NoError, Is
  <2>3. FailureExplained'
    BY <2>1, <2>2 DEF FailureExplained, Compared, Unverified, ResultFor
  <2>4. ~Is(err', "deadline")
    BY <1>9 DEF ReportOutcome, Report, Operational, NoError, Is
  <2> QED
    BY <1>9, <2>3, <2>4 DEF ReportOutcome, Changes
<1>10. CASE Classify
  <2>1. UNCHANGED <<main, results, baseline, hindered>>
    BY <1>10 DEF Classify, resolveVars, hindered
  <2>2. err' = err \/ hindered
    <3>1. CASE ctx = "deadline"
      BY <3>1 DEF hindered
    <3>2. CASE ctx # "deadline"
      BY <1>10, <3>2 DEF Classify, ClassifyDeadline, ContextErr, NoError, Is, CheckInv,
           IInv, ResolveTypeOK
    <3> QED
      BY <3>1, <3>2
  <2>3. FailureExplained'
    BY <1>10, <2>1, <2>2 DEF Classify, FailureExplained, Unverified, ResultFor
  <2> QED
    BY <1>10, <2>3 DEF Classify, Changes
<1> QED
  BY <1>3, <1>4, <1>5, <1>6, <1>7, <1>8, <1>9, <1>10 DEF CheckNext, Exited

\* The invariant under which each step of check is a step of the gate.
THEOREM GateInductive == CheckSpec => []GateInv
<1>1. GateInv /\ [CheckNext \/ Exited]_checkVars => GateInv'
  BY GateInvStep
<1> QED
  BY GateInvInit, <1>1, PTL DEF CheckSpec

----------------------------------------------------------------------------
\* Where evidence comes from.
LEMMA EvidenceOf ==
    ASSUME NEW e \in Entry
    PROVE  /\ evidence[e] \in {"none", "unknown", "differs", "confirmed"}
           /\ evidence[e] = "none" <=> ResultFor(e).kind = "none"
           /\ evidence[e] = "unknown" => Unverified(e)
BY DEF evidence

\* Evidence depends on the results and the baseline alone.
LEMMA EvidenceKept ==
    ASSUME UNCHANGED <<results, baseline>>
    PROVE  evidence' = evidence
BY DEF evidence, Unverified, Drifted, ResultFor

\* Before the exit code there is no verdict.
LEMMA NoVerdictYet == exit = {} => verdict = "none"
BY DEF verdict

\* An initial state of check is an initial state of the gate.
LEMMA GateInitially == CheckInit => G!Init
<1> SUFFICES ASSUME CheckInit
             PROVE  G!Init
  OBVIOUS
<1>1. evidence = [e \in Entry |-> "none"]
  <2>1. \A e \in Entry : ResultFor(e).kind = "none"
    BY BaselineAssumption DEF CheckInit, ResolveInit, ResultFor, NoOutcome, Tool
  <2> QED
    BY <2>1 DEF evidence
<1> QED
  BY <1>1, NoVerdictYet DEF CheckInit, ResolveInit, G!Init

\* A goroutine that records its result yields the evidence of the entries
\* with its reference.
LEMMA ExamineStep ==
    ASSUME GateInv, ResolveStep
    PROVE  G!Examine \/ UNCHANGED G!gateVars
<1>1. UNCHANGED <<ctx, reportVars>> /\ stage = "resolve"
  BY DEF ResolveStep, LocalStep, PlatformStep, LocalBatchStep, PlatformBatchStep,
       CacheExpires, Spawn, Acquire, GiveUp, NoResolver, CacheHit, CallStart, CallCut,
       CallReply, CallFails, NoteFreshness, ReadFreshness, Store, Release, Exit,
       BatchStart, BatchCut, BatchReply, BatchFails, PrefetchDone, Join
<1>2. UNCHANGED <<baseline, project, ctx, sarif, exit>>
  BY <1>1 DEF reportVars
<1>3. UNCHANGED verdict /\ verdict = "none"
  BY <1>1, <1>2, NoVerdictYet DEF GateInv, CheckInv, verdict
<1>4. CASE results' = results
  BY <1>2, <1>3, <1>4, EvidenceKept DEF G!gateVars
<1>5. CASE results' # results
  <2>1. PICK u \in UniqueRef :
               /\ \A v \in UniqueRef \ {u} : results'[v] = results[v]
               /\ results[u].kind = "none" /\ results'[u].kind # "none"
    <3>1. ~QuietStep
      BY <1>5, QuietUnchanged
    <3> QED
      BY <1>5, <3>1, ResultsOnce DEF ResolveStep, QuietStep, GateInv, CheckInv
  <2> DEFINE S == {e \in Entry : baseline.tools[e].ref = u}
             j == [e \in S |-> evidence'[e]]
  <2>2. S \in SUBSET {e \in Entry : evidence[e] = "none"}
    BY <2>1, EvidenceOf DEF ResultFor
  <2>3. \A e \in S : evidence'[e] \in {"unknown", "differs", "confirmed"}
    BY <1>2, <2>1 DEF evidence, ResultFor
  <2>4. \A e \in Entry \ S : evidence'[e] = evidence[e]
    <3> SUFFICES ASSUME NEW e \in Entry \ S
                 PROVE  evidence'[e] = evidence[e]
      OBVIOUS
    <3>1. baseline.tools[e].ref \in UniqueRef
      BY BaselineAssumption DEF GateInv, CheckInv, CheckTypeOK, Tool
    <3>2. ResultFor(e)' = ResultFor(e)
      BY <1>2, <2>1, <3>1 DEF ResultFor
    <3> QED
      BY <1>2, <3>2 DEF evidence, Unverified, Drifted
  <2>5. j \in [S -> G!Judgement]
    BY <2>3 DEF G!Judgement
  <2>6. evidence' = [e \in Entry |-> IF e \in S THEN j[e] ELSE evidence[e]]
    <3>1. evidence' = [e \in Entry |-> evidence'[e]]
      BY DEF evidence
    <3> QED
      BY <2>4, <3>1
  <2> HIDE DEF S, j
  <2>7. G!Examine
    BY <1>1, <1>2, <1>3, <2>2, <2>5, <2>6 DEF G!Examine, GateInv, CheckInv
  <2> QED
    BY <2>7
<1> QED
  BY <1>4, <1>5

\* The exit code stands on what is known when it is given.
LEMMA ConcludeStep ==
    ASSUME GateInv, GateInv', Classify
    PROVE  G!Conclude
<1>1. UNCHANGED <<baseline, project, ctx, sarif, results, selection, warnings, drift, main>>
  BY DEF Classify, resolveVars
<1>2. stage' = "exited" /\ exit' = {ExitCodeFor(err')} /\ verdict = "none"
  BY NoVerdictYet DEF Classify, GateInv, CheckInv
<1>3. evidence' = evidence
  BY <1>1, EvidenceKept
<1>4. ErrorExplained' /\ FailureExplained'
  BY <1>2 DEF GateInv, CheckInv
<1>5. CASE ExitCodeFor(err') = ExitClean
  <2>1. err' = NoError
    BY <1>5 DEF ExitCodeFor, ExitClean, ExitFinding, ExitOperational
  <2>2. Compared' /\ warnings = {} /\ drift = {} /\ selection = {}
    BY <1>1, <1>4, <2>1 DEF ErrorExplained
  <2>3. \A e \in Entry : evidence[e] = "confirmed"
    <3> SUFFICES ASSUME NEW e \in Entry
                 PROVE  evidence[e] = "confirmed"
      OBVIOUS
    <3>1. ~Unverified(e) /\ ~Drifted(e) /\ main = "joined"
      BY <1>1, <2>2 DEF Compared, Unverified, Drifted, ResultFor
    <3>2. ResultFor(e).kind # "none"
      BY <3>1, BaselineAssumption
         DEF GateInv, CheckInv, CheckTypeOK, IInv, Joined, Sound, RefsIn, ResultFor, Tool
    <3> QED
      BY <3>1, <3>2 DEF evidence
  <2>4. baseline.state = "trusted" /\ ~Changed
    BY <1>1, <1>2, <2>2 DEF Compared, GateInv, Changes, Changed
  <2>5. G!Grounds("clean")
    BY <2>3, <2>4 DEF G!Grounds, Changed
  <2>6. verdict' = "clean"
    BY <1>2, <1>5 DEF verdict, ExitClean, ExitFinding, ExitOperational
  <2> QED
    BY <1>1, <1>2, <1>3, <2>5, <2>6 DEF G!Conclude, G!Verdict
<1>6. CASE ExitCodeFor(err') = ExitFinding
  <2>1. err' # NoError /\ ~Is(err', "operational")
    BY <1>6 DEF ExitCodeFor, ExitClean, ExitFinding, ExitOperational
  <2>2. baseline.state # "trusted" \/ selection # {} \/ (Compared' /\ drift # {})
    BY <1>1, <1>4, <2>1 DEF ErrorExplained
  <2>3. ASSUME Compared', drift # {}
        PROVE  \E e \in Entry : evidence[e] = "differs"
    <3>1. PICK e \in Entry : Drifted(e) /\ main = "joined"
      BY <1>1, <2>3 DEF Compared, Drifted, Unverified, ResultFor
    <3>2. ResultFor(e).kind # "none"
      BY <3>1, BaselineAssumption
         DEF GateInv, CheckInv, CheckTypeOK, IInv, Joined, Sound, RefsIn, ResultFor, Tool
    <3> QED
      BY <3>1, <3>2 DEF evidence, Drifted
  <2>4. baseline.state = "trusted" /\ selection # {} => Changed
    BY <1>1, <1>2 DEF GateInv, Changes, Changed
  <2>5. G!Grounds("finding")
    BY <2>2, <2>3, <2>4 DEF G!Grounds, Changed
  <2>6. verdict' = "finding"
    BY <1>2, <1>6 DEF verdict, ExitClean, ExitFinding, ExitOperational
  <2> QED
    BY <1>1, <1>2, <1>3, <2>5, <2>6 DEF G!Conclude, G!Verdict
<1>7. CASE ExitCodeFor(err') = ExitOperational
  <2>1. Is(err', "operational")
    BY <1>7 DEF ExitCodeFor, ExitClean, ExitFinding, ExitOperational
  <2>2. hindered \/ (main = "joined" /\ \E e \in Entry : Unverified(e))
    BY <1>1, <1>4, <2>1 DEF FailureExplained, hindered, Unverified, ResultFor
  <2>3. ASSUME NEW e \in Entry, main = "joined", Unverified(e)
        PROVE  evidence[e] = "unknown"
    <3>1. ResultFor(e).kind # "none"
      BY <2>3, BaselineAssumption
         DEF GateInv, CheckInv, CheckTypeOK, IInv, Joined, Sound, RefsIn, ResultFor, Tool
    <3> QED
      BY <2>3, <3>1 DEF evidence
  <2>4. G!Grounds("operational")
    BY <2>2, <2>3 DEF G!Grounds, hindered
  <2>5. verdict' = "operational"
    BY <1>2, <1>7 DEF verdict, ExitClean, ExitFinding, ExitOperational
  <2> QED
    BY <1>1, <1>2, <1>3, <2>4, <2>5 DEF G!Conclude, G!Verdict
<1> QED
  BY <1>5, <1>6, <1>7 DEF ExitCodeFor

\* A step of check is a step of the gate or a stutter.
LEMMA GateStep ==
    ASSUME GateInv, GateInv', [CheckNext \/ Exited]_checkVars
    PROVE  [G!Next]_(G!gateVars)
<1>1. CASE ResolveStep
  BY <1>1, ExamineStep DEF G!Next
<1>2. CASE Classify
  BY <1>2, ConcludeStep DEF G!Next
<1>3. ASSUME UNCHANGED <<results, baseline, project, exit>>,
             UNCHANGED <<ctx, sarif>> \/ (hindered' = TRUE)
      PROVE  G!Hinder \/ UNCHANGED G!gateVars
  BY <1>3, EvidenceKept DEF G!Hinder, G!gateVars, verdict, hindered
<1>4. CASE CheckContextEnds
  <2>1. UNCHANGED <<results, baseline, project, exit, sarif>>
    BY <1>4 DEF CheckContextEnds, ContextEnds, reportVars
  <2>2. CASE ctx' = "deadline"
    BY <1>3, <2>1, <2>2 DEF G!Next, hindered
  <2>3. CASE ctx' = "interrupted"
    <3>1. evidence' = evidence /\ verdict' = verdict /\ ctx = "live"
      BY <1>4, <2>1, EvidenceKept DEF verdict, CheckContextEnds, ContextEnds
    <3> QED
      BY <2>1, <2>3, <3>1 DEF G!gateVars
  <2> QED
    BY <1>4, <2>2, <2>3 DEF CheckContextEnds, ContextEnds
<1>5. CASE SarifFails
  BY <1>3, <1>5 DEF SarifFails, resolveVars, hindered, G!Next
<1>6. CASE ReportOutcome
  <2>1. UNCHANGED <<results, baseline, project, exit, ctx>>
    BY <1>6 DEF ReportOutcome, resolveVars
  <2>2. sarif # "failed" /\ sarif' # "failed"
    BY <1>6 DEF ReportOutcome, GateInv
  <2>3. evidence' = evidence /\ verdict' = verdict
    BY <2>1, EvidenceKept DEF verdict
  <2> QED
    BY <2>1, <2>2, <2>3 DEF G!gateVars
<1>7. CASE RejectBaseline \/ AcceptBaseline \/ CompareSelection \/ DetectDrift
           \/ UNCHANGED checkVars
  BY <1>3, <1>7 DEF RejectBaseline, AcceptBaseline, CompareSelection, DetectDrift,
       checkVars, reportVars, resolveVars, G!Next
<1> QED
  BY <1>1, <1>2, <1>4, <1>5, <1>6, <1>7 DEF CheckNext, Exited

\* scg check implements the gate: evidence about an entry is gathered once
\* and never revised, the verdict is given once, and each of its values has
\* its grounds, whatever goroutines, platform, deadline and files do.
THEOREM CheckIsGate == CheckSpec => GateSpec
BY GateInitially, GateStep, GateInductive, PTL DEF CheckSpec, GateSpec, G!Spec
=============================================================================
