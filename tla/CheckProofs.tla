---------------------------- MODULE CheckProofs ----------------------------
(***************************************************************************)
(* Theorems about scg check, for every baseline, project and set of        *)
(* references: what exit 0 and exit 1 stand on.                            *)
(***************************************************************************)
EXTENDS Check, ResolveProofs

\* The comparison was made with every result in place, and the results stay.
Compared ==
    /\ main = "joined"
    /\ baseline.state = "trusted"
    /\ warnings = {e \in Entry : Unverified(e)}
    /\ drift = {e \in Entry : Drifted(e)}

\* What the error on its way to main says of the comparison.
ErrorExplained ==
    /\ err = NoError => Compared /\ warnings = {} /\ drift = {} /\ selection = {}
    /\ Is(err, "drift") \/ Is(err, "selection") =>
          Compared /\ (drift # {} \/ selection # {})
    /\ \/ err = NoError \/ Is(err, "operational")
       \/ Is(err, "drift") \/ Is(err, "selection")
       \/ baseline.state # "trusted"

CheckInv ==
    /\ IInv
    /\ CheckTypeOK
    /\ refs = RefsIn(baseline)
    /\ stage \in {"compare", "resolve"} => baseline.state = "trusted"
    /\ stage = "report" => Compared
    /\ stage \in {"classify", "exited"} => ErrorExplained
    /\ IF stage = "exited" THEN exit = {ExitCodeFor(err)} ELSE exit = {}

\* Every step of the command is a step of Resolve or leaves it alone, so that
\* the invariant of Resolve carries over.
LEMMA ResolvingIsResolve ==
    ASSUME [CheckNext \/ Exited]_checkVars
    PROVE  [ResolveNext \/ Returned]_resolveVars
BY DEF CheckNext, Exited, checkVars, CheckContextEnds, RejectBaseline, AcceptBaseline,
       CompareSelection, ResolveStep, ResolveNext, DetectDrift, SarifFails,
       ReportOutcome, Classify

\* The errors check builds.
LEMMA ErrorTypes ==
    /\ NoError \in Error
    /\ {"other"} \in Error /\ {"drift"} \in Error /\ {"selection"} \in Error
    /\ Operational({}) \in Error /\ Operational({"other"}) \in Error
BY DEF Error, Identity, Operational, NoError

\* The invariant holds before the lockfile is read.
LEMMA CheckInvInit ==
    ASSUME CheckInit
    PROVE  CheckInv
<1>1. IInv
  BY IInvInit DEF CheckInit
<1>2. CheckTypeOK
  BY <1>1, ErrorTypes DEF CheckInit, CheckTypeOK, IInv
<1> QED
  BY <1>1, <1>2 DEF CheckInit, CheckInv

----------------------------------------------------------------------------
\* No step of the command breaks the types.
LEMMA CheckTypeStep ==
    ASSUME CheckInv, [CheckNext \/ Exited]_checkVars
    PROVE  CheckTypeOK'
<1>1. ResolveTypeOK'
  BY TypeStep, ResolvingIsResolve DEF CheckInv
<1> USE ErrorTypes, <1>1 DEF CheckInv, CheckTypeOK
<1>2. CASE CheckContextEnds \/ ResolveStep \/ UNCHANGED checkVars
  BY <1>2 DEF CheckContextEnds, ResolveStep, checkVars, reportVars
<1>3. CASE RejectBaseline \/ AcceptBaseline
  BY <1>3 DEF RejectBaseline, AcceptBaseline
<1>4. CASE CompareSelection
  <2>1. RefsIn(baseline) \subseteq UniqueRef /\ project.refs \subseteq UniqueRef
    BY BaselineAssumption, ProjectAssumption DEF RefsIn, Tool
  <2>2. selection' \subseteq UniqueRef
    BY <1>4, <2>1 DEF CompareSelection, SelectionChanges
  <2> QED
    BY <1>4, <2>2 DEF CompareSelection
<1>5. CASE DetectDrift
  BY <1>5 DEF DetectDrift
<1>6. CASE SarifFails \/ ReportOutcome
  BY <1>6 DEF SarifFails, ReportOutcome, Report
<1>7. CASE Classify
  <2>1. err' \in Error
    BY <1>7 DEF Classify, ClassifyDeadline
  <2>2. exit' \subseteq {ExitClean, ExitFinding, ExitOperational}
    BY <1>7 DEF Classify, ExitCodeFor
  <2> QED
    BY <1>7, <2>1, <2>2 DEF Classify
<1> QED
  BY <1>2, <1>3, <1>4, <1>5, <1>6, <1>7 DEF CheckNext, Exited

\* The comparison stays true: no later step touches what it was made from.
LEMMA ComparedStep ==
    ASSUME CheckInv, Compared,
           UNCHANGED <<main, results, baseline, warnings, drift>>
    PROVE  Compared'
BY DEF Compared, Unverified, Drifted, ResultFor

\* At each stage, what the stages before it have settled: the baseline is
\* trusted, the comparison was made, the error says what was found.
LEMMA StageStep ==
    ASSUME CheckInv, [CheckNext \/ Exited]_checkVars
    PROVE  /\ refs' = RefsIn(baseline')
           /\ stage' \in {"compare", "resolve"} => baseline'.state = "trusted"
           /\ stage' = "report" => Compared'
           /\ stage' \in {"classify", "exited"} => ErrorExplained'
           /\ IF stage' = "exited" THEN exit' = {ExitCodeFor(err')} ELSE exit' = {}
<1>0. baseline' = baseline /\ refs' = refs
  BY DEF CheckNext, Exited, checkVars, resolveVars, reportVars, CheckContextEnds,
       ContextEnds, RejectBaseline, AcceptBaseline, CompareSelection, ResolveStep,
       DetectDrift, SarifFails, ReportOutcome, Classify, LocalStep, PlatformStep,
       LocalBatchStep, PlatformBatchStep, CacheExpires, Spawn, Acquire, GiveUp,
       NoResolver, CacheHit, CallStart, CallCut, CallReply, CallFails, NoteFreshness,
       ReadFreshness, Store, Release, Exit, BatchStart, BatchCut, BatchReply,
       BatchFails, PrefetchDone, Join
<1> USE <1>0 DEF CheckInv
<1>1. CASE ResolveStep
  BY <1>1 DEF ResolveStep, reportVars
<1>2. CASE CheckContextEnds \/ UNCHANGED checkVars
  <2>1. UNCHANGED <<reportVars, main, results>>
    BY <1>2 DEF CheckContextEnds, ContextEnds, checkVars, resolveVars
  <2>2. Compared => Compared'
    BY <2>1, ComparedStep DEF reportVars
  <2> QED
    BY <2>1, <2>2 DEF reportVars, ErrorExplained
<1>3. CASE RejectBaseline
  BY <1>3 DEF RejectBaseline, ErrorExplained, NoError, Is
<1>4. CASE AcceptBaseline \/ CompareSelection
  BY <1>4 DEF AcceptBaseline, CompareSelection
<1>5. CASE DetectDrift
  BY <1>5 DEF DetectDrift, Compared, Unverified, Drifted, ResultFor, resolveVars
<1>6. CASE SarifFails
  BY <1>6 DEF SarifFails, ErrorExplained, Operational, NoError, Is
<1>7. CASE ReportOutcome
  <2>1. Compared /\ Compared'
    BY <1>7, ComparedStep DEF ReportOutcome, resolveVars
  <2>2. ErrorExplained'
    BY <1>7, <2>1 DEF ReportOutcome, Report, ErrorExplained, Operational, NoError, Is
  <2> QED
    BY <1>7, <2>2 DEF ReportOutcome
<1>8. CASE Classify
  <2>1. Compared => Compared'
    BY <1>8, ComparedStep DEF Classify, resolveVars
  <2>2. err' = err \/ err' = Operational({})
    BY <1>8 DEF Classify, ClassifyDeadline
  <2>3. ErrorExplained'
    BY <1>8, <2>1, <2>2 DEF Classify, ErrorExplained, Operational, NoError, Is
  <2> QED
    BY <1>8, <2>3 DEF Classify
<1> QED
  BY <1>1, <1>2, <1>3, <1>4, <1>5, <1>6, <1>7, <1>8 DEF CheckNext, Exited

\* The invariant the verdicts rest on.
THEOREM CheckInductive == CheckSpec => []CheckInv
<1>1. CheckInit => CheckInv
  BY CheckInvInit
<1>2. CheckInv /\ [CheckNext \/ Exited]_checkVars => CheckInv'
  <2> SUFFICES ASSUME CheckInv, [CheckNext \/ Exited]_checkVars
               PROVE  CheckInv'
    OBVIOUS
  <2>1. IInv'
    BY IInvStep, ResolvingIsResolve DEF CheckInv
  <2> QED
    BY <2>1, CheckTypeStep, StageStep DEF CheckInv
<1> QED
  BY <1>1, <1>2, PTL DEF CheckSpec

\* Every variable of the command keeps its type.
THEOREM CheckTypeCorrect == CheckSpec => []CheckTypeOK
<1>1. CheckInv => CheckTypeOK
  BY DEF CheckInv
<1> QED
  BY <1>1, CheckInductive, PTL

\* The result a compared entry rests on is an answer of this run.
LEMMA ComparedEntry ==
    ASSUME CheckInv, Compared, NEW e \in Entry, ~Unverified(e)
    PROVE  [hash |-> ResultFor(e).hash, stale |-> FALSE]
              \in answered[baseline.tools[e].ref]
<1>1. baseline.tools[e].ref \in UniqueRef /\ baseline.tools[e].ref \in refs
  BY BaselineAssumption DEF CheckInv, CheckTypeOK, RefsIn, Tool
<1>2. ResultFor(e) \in Outcome /\ ResultFor(e).kind # "none"
  BY <1>1 DEF CheckInv, IInv, ResolveTypeOK, Joined, Sound, Compared, ResultFor
<1>3. ResultFor(e).kind = "ok" /\ ResultFor(e).stale = FALSE
  BY <1>2 DEF Unverified, Outcome
<1>4. AnswerOf(ResultFor(e)) \in answered[baseline.tools[e].ref]
  BY <1>1, <1>3 DEF CheckInv, IInv, Sound, Genuine, ResultFor
<1> QED
  BY <1>3, <1>4 DEF AnswerOf

\* Exit 0 means verified: signed by the platform, same selection, and a fresh
\* matching answer in this run for every entry, whatever the interleaving of
\* goroutines, failures, stale answers and the deadline.
THEOREM CleanCorrect == CheckSpec => []CleanMeansVerified
<1>1. CheckInv => CleanMeansVerified
  <2> SUFFICES ASSUME CheckInv, ExitClean \in exit
               PROVE  /\ baseline.state = "trusted"
                      /\ selection = {}
                      /\ \A e \in Entry :
                           [hash |-> baseline.tools[e].hash, stale |-> FALSE]
                              \in answered[baseline.tools[e].ref]
    BY DEF CleanMeansVerified
  <2>1. stage = "exited" /\ ExitCodeFor(err) = ExitClean
    BY DEF CheckInv
  <2>2. err = NoError
    BY <2>1 DEF ExitCodeFor, ExitClean, ExitFinding, ExitOperational
  <2>3. Compared /\ warnings = {} /\ drift = {} /\ selection = {}
    BY <2>1, <2>2 DEF CheckInv, ErrorExplained
  <2>4. ASSUME NEW e \in Entry
        PROVE  ~Unverified(e) /\ ResultFor(e).hash = baseline.tools[e].hash
    BY <2>3 DEF Compared, Drifted
  <2> QED
    BY <2>3, <2>4, ComparedEntry DEF Compared
<1> QED
  BY <1>1, CheckInductive, PTL

\* Exit 1 on a trusted baseline means a change was seen, never an outage.
THEOREM FindingCorrect == CheckSpec => []FindingHasEvidence
<1>1. CheckInv => FindingHasEvidence
  <2> SUFFICES ASSUME CheckInv, ExitFinding \in exit, baseline.state = "trusted",
                      selection = {}
               PROVE  \E e \in Entry : \E a \in answered[baseline.tools[e].ref] :
                        ~a.stale /\ a.hash # baseline.tools[e].hash
    BY DEF FindingHasEvidence
  <2>1. stage = "exited" /\ ExitCodeFor(err) = ExitFinding
    BY DEF CheckInv
  <2>2. err # NoError /\ ~Is(err, "operational")
    BY <2>1 DEF ExitCodeFor, ExitClean, ExitFinding, ExitOperational
  <2>3. Compared /\ drift # {}
    BY <2>1, <2>2 DEF CheckInv, ErrorExplained
  <2>4. PICK e \in Entry : ~Unverified(e) /\ ResultFor(e).hash # baseline.tools[e].hash
    BY <2>3 DEF Compared, Drifted
  <2> QED
    BY <2>3, <2>4, ComparedEntry
<1> QED
  BY <1>1, CheckInductive, PTL
=============================================================================
