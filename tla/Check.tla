------------------------------- MODULE Check -------------------------------
(***************************************************************************)
(* scg check: doCheckDetailed, runCheck's classifyDeadline and main's exit *)
(* code (cmd/scg/check.go, main.go), around the resolving of module        *)
(* Resolve.  The baseline and the project are inputs; what they hold stays *)
(* as it is for the run.                                                   *)
(***************************************************************************)
EXTENDS Resolve, ExitCodes

CONSTANTS
    Entry,      \* positions of tool entries in the baseline
    Baselines,  \* the baselines scg.lock may hold
    Projects    \* what the project's files may declare

\* One tool entry: what was reviewed.  ReadLockfile rejects an empty hash.
Tool == [ref : UniqueRef, hash : Hash]

ASSUME BaselineAssumption ==
    Baselines \subseteq [state : {"unreadable", "unsigned", "forged", "trusted"},
                         tools : [Entry -> Tool]]
ASSUME ProjectAssumption ==
    Projects \subseteq [state : {"unknown", "declared"},
                        refs : SUBSET UniqueRef]
ASSUME EntryAssumption == IsFiniteSet(Entry)

VARIABLES
    baseline, project,
    stage,      \* how far doCheckDetailed is
    selection,  \* references added to or gone from the project
    drift,      \* entries whose live hash differs
    warnings,   \* entries that could not be verified
    sarif,      \* the SARIF report: "unwritten", "written" or "failed"
    err,        \* the error the command ends with
    exit        \* the process's exit code, in a set

reportVars == <<baseline, project, stage, selection, drift, warnings, sarif, err, exit>>
checkVars == <<resolveVars, reportVars>>

\* The type invariant of the whole command.
CheckTypeOK ==
    /\ ResolveTypeOK
    /\ baseline \in Baselines
    /\ project \in Projects
    /\ stage \in {"read", "compare", "resolve", "report", "classify", "exited"}
    /\ selection \subseteq UniqueRef
    /\ drift \subseteq Entry
    /\ warnings \subseteq Entry
    /\ sarif \in {"unwritten", "written", "failed"}
    /\ err \in Error
    /\ exit \subseteq {ExitClean, ExitFinding, ExitOperational}

\* collectUniqueRefs
RefsIn(b) == {b.tools[e].ref : e \in Entry}

CheckInit ==
    /\ ResolveInit
    /\ baseline \in Baselines
    /\ project \in Projects
    /\ refs = RefsIn(baseline)
    /\ stage = "read"
    /\ selection = {}
    /\ drift = {}
    /\ warnings = {}
    /\ sarif = "unwritten"
    /\ err = NoError
    /\ exit = {}

----------------------------------------------------------------------------
(* ReadLockfile, the signature test, VerifyLockfile. *)

RejectBaseline ==
    /\ stage = "read" /\ baseline.state # "trusted"
    /\ err' = {"other"}
    /\ stage' = "classify"
    /\ UNCHANGED <<resolveVars, baseline, project, selection, drift, warnings, sarif, exit>>

AcceptBaseline ==
    /\ stage = "read" /\ baseline.state = "trusted"
    /\ stage' = "compare"
    /\ UNCHANGED <<resolveVars, baseline, project, selection, drift, warnings, sarif, err, exit>>

\* compareSelection: what only one of the two sides has.
SelectionChanges(declared, recorded) ==
    (declared \ recorded) \cup (recorded \ declared)

\* A project that cannot be read, or has no files, is "unknown": it only
\* earns a warning.
CompareSelection ==
    /\ stage = "compare"
    /\ selection' = IF project.state = "declared"
                    THEN SelectionChanges(project.refs, RefsIn(baseline))
                    ELSE {}
    /\ stage' = "resolve"
    /\ UNCHANGED <<resolveVars, baseline, project, drift, warnings, sarif, err, exit>>

ResolveStep ==
    /\ stage = "resolve"
    /\ \/ \E u \in UniqueRef : CacheExpires(u) \/ LocalStep(u) \/ PlatformStep(u)
       \/ \E e \in KnownEcosystem : LocalBatchStep(e) \/ PlatformBatchStep(e)
       \/ PrefetchDone
       \/ Join
    /\ UNCHANGED reportVars

ResultFor(e) == results[baseline.tools[e].ref]

\* Mistakes seeded for the properties below to notice, used by no behaviour:
\* a stale answer passes for a verified one, ...
UnverifiedIgnoresStale(e) == ResultFor(e).kind = "failed"
\* ... incomplete verification is returned as a plain error, ...
ReportIncompletePlain(w, d, sel) ==
    IF d # {} THEN {"drift"}
    ELSE IF w # {} THEN {"other"}
    ELSE IF sel # {} THEN {"selection"}
    ELSE NoError
\* ... or only counts when nothing at all could be verified.
ReportForgivesSome(w, d, sel) ==
    IF Entry # {} /\ w = Entry THEN Operational({"other"})
    ELSE IF d # {} THEN {"drift"}
    ELSE IF sel # {} THEN {"selection"}
    ELSE NoError

\* The loop of detectDriftWithPartialFailure over every entry.
Unverified(e) == ResultFor(e).kind = "failed" \/ ResultFor(e).stale
Drifted(e) == ~Unverified(e) /\ ResultFor(e).hash # baseline.tools[e].hash

DetectDrift ==
    /\ stage = "resolve" /\ main = "joined"
    /\ warnings' = {e \in Entry : Unverified(e)}
    /\ drift' = {e \in Entry : Drifted(e)}
    /\ stage' = "report"
    /\ UNCHANGED <<resolveVars, baseline, project, selection, sarif, err, exit>>

SarifFails ==
    /\ stage = "report" /\ sarif = "unwritten"
    /\ sarif' = "failed"
    /\ err' = Operational({"other"})
    /\ stage' = "classify"
    /\ UNCHANGED <<resolveVars, baseline, project, selection, drift, warnings, exit>>

\* The reporting half of doCheckDetailed, in the order of its returns:
\* nothing verified, drift, incomplete verification, selection changes.
Report(w, d, sel) ==
    IF Entry # {} /\ w = Entry THEN Operational({"other"})
    ELSE IF d # {} THEN {"drift"}
    ELSE IF w # {} THEN Operational({"other"})
    ELSE IF sel # {} THEN {"selection"}
    ELSE NoError

\* With --sarif the report is written first, without it nothing is.
ReportOutcome ==
    /\ stage = "report"
    /\ sarif' \in {"unwritten", "written"}
    /\ err' = Report(warnings, drift, selection)
    /\ stage' = "classify"
    /\ UNCHANGED <<resolveVars, baseline, project, selection, drift, warnings, exit>>

Classify ==
    /\ stage = "classify"
    /\ err' = ClassifyDeadline(ctx, err)
    /\ exit' = {ExitCodeFor(err')}
    /\ stage' = "exited"
    /\ UNCHANGED <<resolveVars, baseline, project, selection, drift, warnings, sarif>>

\* The deadline and SIGINT arrive whenever they like.
CheckContextEnds == stage # "exited" /\ ContextEnds /\ UNCHANGED reportVars

CheckNext ==
    \/ CheckContextEnds
    \/ RejectBaseline \/ AcceptBaseline \/ CompareSelection
    \/ ResolveStep
    \/ DetectDrift \/ SarifFails \/ ReportOutcome \/ Classify

Exited == stage = "exited" /\ UNCHANGED checkVars

CommandStep ==
    \/ RejectBaseline \/ AcceptBaseline \/ CompareSelection \/ DetectDrift
    \/ SarifFails \/ ReportOutcome \/ Classify

Resolving(A) == stage = "resolve" /\ A /\ UNCHANGED reportVars

\* As in Resolve: the client's own steps are scheduled fairly.
CheckFairness ==
    /\ WF_checkVars(CommandStep)
    /\ WF_checkVars(Resolving(PrefetchDone \/ Join))
    /\ \A u \in UniqueRef : WF_checkVars(Resolving(LocalStep(u)))
    /\ \A e \in KnownEcosystem : WF_checkVars(Resolving(LocalBatchStep(e)))

CheckSpec == CheckInit /\ [][CheckNext \/ Exited]_checkVars /\ CheckFairness

----------------------------------------------------------------------------
\* A run that exits 0 verified every entry: the baseline is signed by the
\* platform, and for every entry the platform gave, during this run, an
\* answer that was fresh and held the recorded hash.  Neither an outage, nor
\* a stale record, nor a result lost between goroutines reads as clean.
CleanMeansVerified ==
    ExitClean \in exit =>
        /\ baseline.state = "trusted"
        /\ selection = {}
        /\ \A e \in Entry :
             [hash |-> baseline.tools[e].hash, stale |-> FALSE]
                \in answered[baseline.tools[e].ref]

\* A run that exits 1 on a trusted baseline has a reason in the dependencies:
\* a fresh answer of this run that differs from the record, or a reference
\* only the project or only the baseline has.  An SCG outage never looks like
\* an attack (exit.go, release-checklist.md "exit 2, not 1").
FindingHasEvidence ==
    ExitFinding \in exit /\ baseline.state = "trusted" =>
        \/ selection # {}
        \/ \E e \in Entry : \E a \in answered[baseline.tools[e].ref] :
             ~a.stale /\ a.hash # baseline.tools[e].hash

\* scg check is an implementation of the promise in Gate.
evidence ==
    [e \in Entry |->
        IF ResultFor(e).kind = "none" THEN "none"
        ELSE IF Unverified(e) THEN "unknown"
        ELSE IF Drifted(e) THEN "differs" ELSE "confirmed"]

verdict ==
    CASE exit = {} -> "none"
      [] exit = {ExitClean} -> "clean"
      [] exit = {ExitFinding} -> "finding"
      [] exit = {ExitOperational} -> "operational"

G == INSTANCE Gate WITH
        trusted <- baseline.state = "trusted",
        changed <- /\ project.state = "declared"
                   /\ SelectionChanges(project.refs, RefsIn(baseline)) # {},
        hindered <- ctx = "deadline" \/ sarif = "failed"

\* Evidence is gathered once, the verdict is final and has its grounds.
GateSpec == G!Spec

\* Once the deadline has passed, the process exits, whatever the platform does.
DeadlineEndsCheck == (ctx = "deadline") ~> (stage = "exited")

\* deadline_test.go: "A genuine finding must survive unchanged.  Wrapping
\* drift as a timeout would hide a real detection."
DriftSurvivesClassification ==
    [][stage = "classify" /\ Is(err, "drift") => Is(err', "drift")]_checkVars

\* main prints of every exit 2: "Nothing was detected about your
\* dependencies."  Here for a run with its whole time and its report written,
\* that could verify an entry (without one it stops before it looks at what has
\* changed): the project depends on nothing outside the baseline.
OperationalDetectedNothing ==
    /\ ExitOperational \in exit /\ ctx = "live" /\ sarif # "failed"
    /\ warnings # Entry
    => drift = {} /\ selection \subseteq RefsIn(baseline)
=============================================================================
