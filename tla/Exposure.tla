------------------------------ MODULE Exposure ------------------------------
(***************************************************************************)
(* scg audit and scg scope (cmd/scg/audit.go, scope.go, forbidden.go,      *)
(* scoper/env.go, runAudit and runScope of main.go): which secrets of the  *)
(* environment the tools of the workflows must not see, by the profiles    *)
(* the platform gives, and for audit what has drifted from the baseline.   *)
(***************************************************************************)
EXTENDS Workflows, ExitCodes

CONSTANTS
    Invocations,    \* how scg is called
    Repositories,   \* what the workflow directory holds
    Baselines,      \* in what state scg.lock is
    Entry,          \* the tool entries of a trusted baseline
    EnvName,        \* names of environment variables
    Environments,   \* the sets of them that may be set
    WordsOf,        \* the words each name splits into
    SecretToken,    \* the words of a credential's name
    KnownSafe,      \* names that hold no credential all the same
    Profile         \* the profiles the platform may give

ASSUME ExposureAssumption ==
    /\ \A a \in Invocations :
         a \in [cmd : {"audit", "scope"}, step : {a.step}, sanitize : BOOLEAN]
    /\ \A r \in Repositories :
         /\ r.state \in {"unreadable", "readable"}
         /\ \A i \in DOMAIN r.files : DOMAIN r.files[i] \subseteq Job
    /\ Baselines \subseteq {"absent", "unreadable", "unsigned", "forged", "trusted"}
    /\ Environments \subseteq SUBSET EnvName
    /\ DOMAIN WordsOf = EnvName
    /\ Profile \subseteq [broken : BOOLEAN, forbids : SUBSET EnvName]
\* What the parser yields, in whatever order, are tools with their steps.
ASSUME ParsingAssumption == \A r \in Repositories : Parsings(r.files) \subseteq Seq(Seq(ToolRef))

BaseRefs == {BaseRef(t) : t \in Tool}

VARIABLES
    args, repo, baseline,   \* the inputs
    env,        \* the process's environment
    ctx,        \* the command's context
    stage,      \* how far the command is
    workflows,  \* what was parsed
    todo,       \* the tools not examined yet, file by file
    seen,       \* step names examined so far
    cached,     \* the client's cache of profiles, per base reference
    drift,      \* entries whose live hash differs
    skipped,    \* what could not be checked
    violations, \* what is reported: which secret at which step
    err, exit,
    env0,       \* history: the environment at the start
    live,       \* history: what was learnt of each entry
    given       \* history: the profiles the platform gave

inputs == <<args, repo, baseline, env0>>
exposureVars == <<inputs, env, ctx, stage, workflows, todo, seen, cached, drift, skipped,
                  violations, err, exit, live, given>>

Audit == args.cmd = "audit"
Scope == args.cmd = "scope"

\* LooksLikeSecret and ScanEnv.
LooksLikeSecret(k) == k \notin KnownSafe /\ WordsOf[k] \cap SecretToken # {}
ScanEnv(e) == {k \in e : LooksLikeSecret(k)}

\* The secrets of the environment at the start that a profile forbids.
Exposed(p) == ScanEnv(env0) \cap p.forbids

ExposureTypeOK ==
    /\ args \in Invocations /\ repo \in Repositories /\ baseline \in Baselines
    /\ env0 \in Environments /\ env \subseteq env0
    /\ ctx \in {"live", "interrupted"} \cup (IF Audit THEN {"deadline"} ELSE {})
    /\ stage \in {"parse", "resolve", "baseline", "find", "profiles", "classify", "exited"}
    /\ workflows = <<>> \/ workflows \in Parsings(repo.files)
    /\ todo \in Seq(Seq(ToolSet(workflows)))
    /\ seen \subseteq {t.step : t \in ToolSet(workflows)}
    /\ cached \in [BaseRefs -> {{}} \cup {{p} : p \in Profile}]
    /\ given \in [BaseRefs -> SUBSET Profile]
    /\ live \in [Entry -> {"unasked", "same", "differs", "unknown"}]
    /\ drift \subseteq Entry
    /\ skipped \subseteq {<<"workflows">>, <<"baseline">>} \cup ({"entry"} \X Entry)
                            \cup ({"profile"} \X BaseRefs)
    /\ violations \subseteq [step : {t.step : t \in ToolSet(workflows)}, secret : EnvName]
    /\ err \in Error
    /\ exit \subseteq {ExitClean, ExitFinding, ExitOperational}

ExposureInit ==
    /\ args \in Invocations /\ repo \in Repositories /\ baseline \in Baselines
    /\ env0 \in Environments /\ env = env0
    /\ ctx = "live"
    /\ stage = "parse"
    /\ workflows = <<>> /\ todo = <<>>
    /\ seen = {} /\ drift = {} /\ skipped = {} /\ violations = {}
    /\ cached = [b \in BaseRefs |-> {}]
    /\ given = [b \in BaseRefs |-> {}]
    /\ live = [e \in Entry |-> "unasked"]
    /\ err = NoError /\ exit = {}

Fail(e) == err' = e /\ stage' = "classify"
Skip(what) == skipped' = skipped \cup what

----------------------------------------------------------------------------
(* Mistakes seeded for the properties to notice, used by no behaviour.      *)

\* Tools are told apart by their job.
SeenByJob(t) == t.job

\* A tool without a profile is passed over.
NotNoted(b) == {}

\* ... or ends the audit like an unknown step ends scope.
ProfileFailureEnds(e) == Fail(e) /\ UNCHANGED <<todo, seen, skipped>>

\* A pattern that does not compile is skipped.
AlwaysCompiles(p) == TRUE

\* The cache is keyed by the name alone.
KeyByName(t) == CHOOSE b \in BaseRefs : b.name = t.name

\* Incompleteness is reported first.
IncompleteFirst(d, v, s) ==
    IF s # {} THEN Operational({"other"}) ELSE IF d # {} \/ v # {} THEN {"other"} ELSE NoError

\* Every secret is cleared, forbidden or not.
AllSecrets == ScanEnv(env)

\* The request for a profile does not carry the context.
ProfileUncut == FALSE

----------------------------------------------------------------------------
\* audit has a deadline, scope only SIGINT.
ExposureContextEnds ==
    /\ ctx = "live" /\ stage # "exited"
    /\ ctx' \in {"interrupted"} \cup (IF Audit THEN {"deadline"} ELSE {})
    /\ UNCHANGED <<inputs, env, stage, workflows, todo, seen, cached, drift, skipped,
                   violations, err, exit, live, given>>

----------------------------------------------------------------------------
(* Discovery and parsing. *)

ParseFails ==
    /\ stage = "parse" /\ repo.state = "unreadable"
    /\ Fail({"other"})
    /\ UNCHANGED <<inputs, env, ctx, workflows, todo, seen, cached, drift, skipped,
                   violations, exit, live, given>>

ParseFiles ==
    /\ stage = "parse" /\ repo.state = "readable"
    /\ workflows' \in Parsings(repo.files)
    /\ Skip(IF Audit /\ repo.files = <<>> THEN {<<"workflows">>} ELSE {})
    /\ stage' = IF Audit THEN "resolve" ELSE "find"
    /\ UNCHANGED <<inputs, env, ctx, todo, seen, cached, drift, violations, err, exit,
                   live, given>>

----------------------------------------------------------------------------
(* audit: every tool is resolved, and what comes of it only counted.  A      *)
(* single failure ends the command, with the exit code of a finding.         *)

ResolveTools ==
    /\ stage = "resolve"
    /\ ctx = "live" \/ ToolSet(workflows) = {}
    /\ stage' = "baseline"
    /\ UNCHANGED <<inputs, env, ctx, workflows, todo, seen, cached, drift, skipped,
                   violations, err, exit, live, given>>

ResolveFails ==
    /\ stage = "resolve" /\ ToolSet(workflows) # {}
    /\ IF ctx = "live" THEN \E e \in CallErrors : Fail(e) ELSE Fail(ContextErr(ctx))
    /\ UNCHANGED <<inputs, env, ctx, workflows, todo, seen, cached, drift, skipped,
                   violations, exit, live, given>>

----------------------------------------------------------------------------
(* audit: the baseline. *)

ToProfiles == todo' = workflows /\ stage' = "profiles"

NoBaseline ==
    /\ stage = "baseline" /\ baseline = "absent"
    /\ Skip({<<"baseline">>})
    /\ ToProfiles
    /\ UNCHANGED <<inputs, env, ctx, workflows, seen, cached, drift, violations, err, exit,
                   live, given>>

RejectBaseline ==
    /\ stage = "baseline" /\ baseline \in {"unreadable", "unsigned", "forged"}
    /\ Fail({"other"})
    /\ UNCHANGED <<inputs, env, ctx, workflows, todo, seen, cached, drift, skipped,
                   violations, exit, live, given>>

\* detectDriftWithPartialFailure, as in module Check, in one step.
DetectDrift ==
    /\ stage = "baseline" /\ baseline = "trusted"
    /\ live' \in [Entry -> {"same", "differs", "unknown"}]
    /\ ctx # "live" => \A e \in Entry : live'[e] = "unknown"
    /\ drift' = {e \in Entry : live'[e] = "differs"}
    /\ Skip({"entry"} \X {e \in Entry : live'[e] = "unknown"})
    /\ ToProfiles
    /\ UNCHANGED <<inputs, env, ctx, workflows, seen, cached, violations, err, exit, given>>

----------------------------------------------------------------------------
(* scope: the step is looked up by its name. *)

HasStep(i, step) == \E k \in DOMAIN workflows[i] : workflows[i][k].step = step

\* The last file that has it decides, and in it the first tool.
FileWith(step) ==
    CHOOSE i \in DOMAIN workflows :
        /\ HasStep(i, step)
        /\ \A j \in DOMAIN workflows : j > i => ~HasStep(j, step)
ToolOf(step) ==
    LET wf == workflows[FileWith(step)]
        k == CHOOSE k \in DOMAIN wf :
               wf[k].step = step /\ \A l \in 1..(k - 1) : wf[l].step # step
    IN  wf[k]

FindStep ==
    /\ stage = "find" /\ \E i \in DOMAIN workflows : HasStep(i, args.step)
    /\ todo' = <<<<ToolOf(args.step)>>>>
    /\ stage' = "profiles"
    /\ UNCHANGED <<inputs, env, ctx, workflows, seen, cached, drift, skipped, violations,
                   err, exit, live, given>>

StepUnknown ==
    /\ stage = "find" /\ \A i \in DOMAIN workflows : ~HasStep(i, args.step)
    /\ Fail({"other"})
    /\ UNCHANGED <<inputs, env, ctx, workflows, todo, seen, cached, drift, skipped,
                   violations, exit, live, given>>

----------------------------------------------------------------------------
(* The profiles, file by file and tool by tool. *)

SeenKey(t) == t.step

NextTool == stage = "profiles" /\ todo # <<>> /\ todo[1] # <<>>
Current == Head(todo[1])
Advance == todo' = [todo EXCEPT ![1] = Tail(@)]
Fresh == Audit => SeenKey(Current) \notin seen

NextFile ==
    /\ stage = "profiles" /\ todo # <<>> /\ todo[1] = <<>>
    /\ todo' = Tail(todo)
    /\ UNCHANGED <<inputs, env, ctx, stage, workflows, seen, cached, drift, skipped,
                   violations, err, exit, live, given>>

SameStep ==
    /\ NextTool /\ ~Fresh
    /\ Advance
    /\ UNCHANGED <<inputs, env, ctx, stage, workflows, seen, cached, drift, skipped,
                   violations, err, exit, live, given>>

Compiles(p) == ~p.broken

\* compileForbidden, and the match against the environment.
Examine(p) ==
    /\ seen' = seen \cup {SeenKey(Current)}
    /\ IF Compiles(p)
       THEN /\ violations' = violations \cup
                 {[step |-> Current.step, secret |-> k] : k \in ScanEnv(env) \cap p.forbids}
            /\ Advance
            /\ UNCHANGED <<stage, err>>
       ELSE /\ Fail(Operational({"other"}))
            /\ UNCHANGED <<violations, todo>>

ProfileKey(t) == BaseRef(t)

ProfileCached ==
    /\ NextTool /\ Fresh
    /\ \E p \in cached[ProfileKey(Current.tool)] : Examine(p)
    /\ UNCHANGED <<inputs, env, ctx, workflows, cached, drift, skipped, exit, live, given>>

\* A profile in the cache may have expired.
ProfileGiven ==
    /\ NextTool /\ Fresh /\ ctx = "live"
    /\ \E p \in Profile :
         /\ Examine(p)
         /\ cached' = [cached EXCEPT ![ProfileKey(Current.tool)] = {p}]
         /\ given' = [given EXCEPT ![BaseRef(Current.tool)] = @ \cup {p}]
    /\ UNCHANGED <<inputs, env, ctx, workflows, drift, skipped, exit, live>>

Noted(b) == {<<"profile", b>>}

\* audit goes on without it.
PassOver(e) ==
    /\ Skip(Noted(BaseRef(Current.tool)))
    /\ seen' = seen \cup {SeenKey(Current)}
    /\ Advance
    /\ UNCHANGED <<stage, err>>

WithoutProfile(e) ==
    IF Audit THEN PassOver(e) ELSE Fail(e) /\ UNCHANGED <<todo, seen, skipped>>

ProfileFails ==
    /\ NextTool /\ Fresh
    /\ \E e \in CallErrors : WithoutProfile(e)
    /\ UNCHANGED <<inputs, env, ctx, workflows, cached, drift, violations, exit, live, given>>

ProfileCut ==
    /\ NextTool /\ Fresh /\ ctx # "live"
    /\ WithoutProfile(ContextErr(ctx))
    /\ UNCHANGED <<inputs, env, ctx, workflows, cached, drift, violations, exit, live, given>>

----------------------------------------------------------------------------
(* The report. *)

AuditVerdict(d, v, s) ==
    IF d # {} \/ v # {} THEN {"other"} ELSE IF s # {} THEN Operational({"other"}) ELSE NoError

ReportAudit ==
    /\ Audit /\ stage = "profiles" /\ todo = <<>>
    /\ Fail(AuditVerdict(drift, violations, skipped))
    /\ UNCHANGED <<inputs, env, ctx, workflows, todo, seen, cached, drift, skipped,
                   violations, exit, live, given>>

\* What --sanitize unsets.
ToClear == IF args.sanitize THEN {v.secret : v \in violations} \cap env ELSE {}

ClearSecret ==
    /\ Scope /\ stage = "profiles" /\ todo = <<>>
    /\ \E k \in ToClear : env' = env \ {k}
    /\ UNCHANGED <<inputs, ctx, stage, workflows, todo, seen, cached, drift, skipped,
                   violations, err, exit, live, given>>

ClearFails ==
    /\ Scope /\ stage = "profiles" /\ todo = <<>> /\ ToClear # {}
    /\ Fail(Operational({"other"}))
    /\ UNCHANGED <<inputs, env, ctx, workflows, todo, seen, cached, drift, skipped,
                   violations, exit, live, given>>

ReportScope ==
    /\ Scope /\ stage = "profiles" /\ todo = <<>> /\ ToClear = {}
    /\ Fail(IF violations # {} THEN {"other"} ELSE NoError)
    /\ UNCHANGED <<inputs, env, ctx, workflows, todo, seen, cached, drift, skipped,
                   violations, exit, live, given>>

\* Only audit has a deadline to classify.
ClassifyExposure ==
    /\ stage = "classify"
    /\ err' = IF Audit THEN ClassifyDeadline(ctx, err) ELSE err
    /\ exit' = {ExitCodeFor(err')}
    /\ stage' = "exited"
    /\ UNCHANGED <<inputs, env, ctx, workflows, todo, seen, cached, drift, skipped,
                   violations, live, given>>

----------------------------------------------------------------------------
\* What the command does by itself, and what waits for the platform.
ExposureStep ==
    \/ ParseFails \/ ParseFiles \/ NoBaseline \/ RejectBaseline \/ FindStep \/ StepUnknown
    \/ NextFile \/ SameStep \/ ProfileCached \/ ProfileCut
    \/ ReportAudit \/ ClearSecret \/ ClearFails \/ ReportScope \/ ClassifyExposure
ExposurePlatformStep == ResolveTools \/ ResolveFails \/ DetectDrift \/ ProfileGiven \/ ProfileFails

ExposureNext == ExposureContextEnds \/ ExposureStep \/ ExposurePlatformStep

ExposureExited == stage = "exited" /\ UNCHANGED exposureVars

\* With the context ended every request ends too, and so does what waits for
\* it; nothing is assumed of the platform before.
ExposureSpec ==
    /\ ExposureInit /\ [][ExposureNext \/ ExposureExited]_exposureVars
    /\ WF_exposureVars(ExposureStep)
    /\ WF_exposureVars(ctx # "live" /\ (ResolveTools \/ ResolveFails \/ DetectDrift))

----------------------------------------------------------------------------
\* A tool whose step has the name of another tool's step.
Shadowed(t) ==
    \E u \in ToolSet(workflows) : u.step = t.step /\ BaseRef(u.tool) # BaseRef(t.tool)

\* The platform gave a profile of the tool that forbids none of the secrets.
Unexposed(t) ==
    \E p \in given[BaseRef(t.tool)] : ~p.broken /\ Exposed(p) = {}

\* "Nothing found" and "nothing checked" are different answers (audit.go):
\* an audit that exits 0 had a verified baseline whose every entry was
\* confirmed, and for every tool a profile that no secret of the environment
\* violates, in whatever order the jobs were visited.  Left out are tools
\* whose step shares its name with another's: of those the code looks at one.
PassMeansLookedAt ==
    Audit /\ exit = {ExitClean} =>
        /\ baseline = "trusted" /\ \A e \in Entry : live[e] = "same"
        /\ repo.files # <<>>
        /\ \A t \in ToolSet(workflows) : Shadowed(t) \/ Unexposed(t)

\* A scope that exits 0 looked at a tool of the step asked for, and at the
\* only one there is unless the name is shared.
ScopeMeansUnexposed ==
    Scope /\ exit = {ExitClean} =>
        \E t \in ToolSet(workflows) : t.step = args.step /\ Unexposed(t)

\* Exit 1 is explained: by drift, by a reported violation, or by the command
\* having given up before it compared anything.  And every violation that is
\* reported belongs to a tool of the step it names, whose own profile forbids
\* a secret that is set.
ExposureExplained ==
    /\ exit = {ExitFinding} =>
         \/ drift # {} \/ violations # {}
         \/ (\A e \in Entry : live[e] = "unasked") /\ (\A b \in BaseRefs : given[b] = {})
    /\ \A v \in violations : \E t \in ToolSet(workflows) :
         t.step = v.step /\ \E p \in given[BaseRef(t.tool)] : v.secret \in Exposed(p)

\* "A finding is reported before incompleteness" (audit.go): what drift or
\* violation an audit has found is its verdict, whatever else it had to skip,
\* unless the deadline passes or a profile's pattern is broken.
FindingSurvives ==
    Audit /\ exit # {} /\ (drift # {} \/ violations # {}) /\ ctx # "deadline" =>
        exit = {ExitFinding} \/ \E b \in BaseRefs : \E p \in given[b] : p.broken

\* --sanitize clears what is reported and nothing else, and is done when the
\* command exits with the finding; without it the environment is left alone.
SanitizedExactly ==
    /\ env0 \ env \subseteq {v.secret : v \in violations}
    /\ ~args.sanitize => env = env0
    /\ Scope /\ args.sanitize /\ exit = {ExitFinding} => env \cap {v.secret : v \in violations} = {}

\* Once its context has ended, the command exits, whatever the platform does.
ContextEndsExposure == (ctx # "live") ~> (stage = "exited")
=============================================================================
