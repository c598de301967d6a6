---------------------------- MODULE InitCommand ----------------------------
(***************************************************************************)
(* scg init and scg update (cmd/scg/init.go, main.go, watch.go): the       *)
(* project's declarations are resolved one after the other, the baseline   *)
(* is signed by the platform and written, and with --watch what is then on *)
(* disk is verified and uploaded.  WriteLockfile is one step: module       *)
(* LockfileStore shows that it may be taken for one.  Meanwhile others may *)
(* replace the lockfile: a checkout, an editor, another scg.               *)
(***************************************************************************)
EXTENDS Answers, ExitCodes, Sources

CONSTANTS
    Projects,   \* the projects: their files, and whether their root can be listed
    OtherDocs   \* lockfiles others may put in place

\* A lockfile's content: the hash recorded for each reference, and whether it
\* names its repository.
IsLockfile(l) ==
    /\ DOMAIN l = {"hashes", "repo"} /\ l.repo \in BOOLEAN
    /\ DOMAIN l.hashes \subseteq UniqueRef
    /\ \A u \in DOMAIN l.hashes : l.hashes[u] \in Hash \cup {NoHash}
\* What was signed, and whether by the platform key pinned in this build.
IsSignature(s) ==
    DOMAIN s = {"key", "over"} /\ s.key \in {"none", "pinned", "unknown"} /\ IsLockfile(s.over)
IsDocument(d) == DOMAIN d = {"lf", "sig"} /\ IsLockfile(d.lf) /\ IsSignature(d.sig)

ASSUME ProjectsAssumption ==
    \A p \in Projects :
        /\ DOMAIN p = {"files", "listed"} /\ p.listed \in BOOLEAN
        /\ \A i \in DOMAIN p.files : p.files[i].kind \in LockKind \cup {"workflow"}
        /\ Declarations(p) \subseteq Seq(UniqueRef)
ASSUME OtherDocsAssumption == \A d \in OtherDocs : IsDocument(d)

NoLockfile == [hashes |-> [u \in {} |-> NoHash], repo |-> FALSE]
Unsigned == [key |-> "none", over |-> NoLockfile]
NoDocument == [lf |-> NoLockfile, sig |-> Unsigned]

\* What the parsers may yield for each project.
ReadingsOf == [p \in Projects |-> Declarations(p)]

\* What they are expected to yield, in some order of their maps and in all.
EverOf == [p \in Projects |-> EverExpected(p)]
AlwaysOf == [p \in Projects |-> AlwaysExpected(p)]

VARIABLES
    project,    \* the project, its files as they are on disk
    declared,   \* the references the parsers yield
    watch,      \* --watch
    ctx,        \* the command's context
    stage,      \* how far the command is
    cache,      \* Client.cache after prefetch
    todo,       \* names resolveTools has not resolved yet
    resolved,   \* what each name was resolved to
    lf, sig,    \* the lockfile in memory, and its signature
    disk,       \* the document at the lockfile's path
    wrote,      \* WriteLockfile has succeeded
    read,       \* the document doWatch has read
    watching,   \* the references the platform watches
    err,        \* the error the command ends with
    exit,       \* the exit code, in a set
    answered    \* history: answers the platform gave for each reference

initVars == <<project, declared, watch, ctx, stage, cache, todo, resolved, lf, sig, disk,
              wrote, read, watching, err, exit, answered>>

Stage == {"collect", "prefetch", "resolve", "build", "sign", "write", "classify",
          "watch", "upload", "leave", "exited"}

Declared == {declared[i] : i \in 1..Len(declared)}
Names == {u.name : u \in Declared}

\* collectUniqueTools keeps, of all tools with one reference, the first.
First(n) ==
    LET i == CHOOSE k \in 1..Len(declared) :
               /\ declared[k].name = n
               /\ \A j \in 1..(k - 1) : declared[j].name # n
    IN  declared[i]
UniqueTools == {First(n) : n \in Names}

Refs(d) == DOMAIN d.lf.hashes

\* What ReadLockfile, and the signature's test, let through.
Readable(d) == \A u \in Refs(d) : d.lf.hashes[u] # NoHash
Verified(d) == d.sig.key = "pinned" /\ d.sig.over = d.lf

\* The type invariant, with what the loop of resolveTools keeps.
InitTypeOK ==
    /\ project \in Projects
    /\ declared = <<>> \/ declared \in ReadingsOf[project]
    /\ watch \in BOOLEAN
    /\ ctx \in {"live", "deadline", "interrupted"}
    /\ stage \in Stage
    /\ cache \in [UniqueRef -> Outcome]
    /\ todo \subseteq Names
    /\ resolved \in [Name -> Outcome]
    /\ IsLockfile(lf) /\ IsSignature(sig)
    /\ IsDocument(disk) /\ IsDocument(read)
    /\ wrote \in BOOLEAN
    /\ watching \subseteq UniqueRef
    /\ err \in Error
    /\ exit \subseteq {ExitClean, ExitFinding, ExitOperational}
    /\ answered \in [UniqueRef -> SUBSET Answer]

InitCommandInit ==
    /\ project \in Projects
    /\ declared = <<>>
    /\ watch \in BOOLEAN
    /\ ctx = "live"
    /\ stage = "collect"
    /\ cache = [u \in UniqueRef |-> NoOutcome]
    /\ todo = {}
    /\ resolved = [n \in Name |-> NoOutcome]
    /\ lf = NoLockfile /\ sig = Unsigned
    /\ disk \in OtherDocs
    /\ wrote = FALSE
    /\ read = NoDocument
    /\ watching = {}
    /\ err = NoError
    /\ exit = {}
    /\ answered = [u \in UniqueRef |-> {}]

Fail(e) == err' = e /\ stage' = "classify"

\* The name resolveTools is at: sort.Strings gives a fixed order.
Turn(n) == stage = "resolve" /\ todo # {} /\ n = CHOOSE m \in todo : TRUE

----------------------------------------------------------------------------
(* Mistakes seeded for the properties to notice, used by no behaviour.      *)

\* A reference that cannot be resolved is skipped, as check does.
AskFailsSkips(n) ==
    /\ Turn(n)
    /\ cache[First(n)] = NoOutcome
    /\ todo' = todo \ {n}
    /\ UNCHANGED <<project, declared, watch, ctx, stage, cache, resolved, lf, sig, disk, wrote,
                   read, watching, err, exit, answered>>

\* The cache is keyed, like the one of profiles, without the version.
CacheKeyLoose(u) == CHOOSE v \in UniqueRef : v.eco = u.eco /\ Head(v.name) = Head(u.name)

\* The signing path's own copy of the canonical form.
SignOwnCopy(l) == [l EXCEPT !.repo = FALSE]

\* fmt.Errorf("...: %w", err) where err is nil.
WrapsNil == NoError \cup {"operational"}

\* What is uploaded is read again.
UploadReread == disk

\* Classified by the context alone.
ClassifiedByContext(e) == IF ctx = "deadline" THEN Operational({}) ELSE e

\* The request for the signature does not carry the context.
SignUncut == FALSE

----------------------------------------------------------------------------
(* The environment. *)

InitContextEnds ==
    /\ ctx = "live" /\ stage # "exited"
    /\ ctx' \in {"deadline", "interrupted"}
    /\ UNCHANGED <<project, declared, watch, stage, cache, todo, resolved, lf, sig, disk, wrote,
                   read, watching, err, exit, answered>>

Replace ==
    /\ stage # "exited"
    /\ disk' \in OtherDocs
    /\ UNCHANGED <<project, declared, watch, ctx, stage, cache, todo, resolved, lf, sig, wrote,
                   read, watching, err, exit, answered>>

----------------------------------------------------------------------------
(* Discovery and parsing, which may fail, and the test for an empty set. *)

CollectFails ==
    /\ stage = "collect"
    /\ Fail({"other"})
    /\ UNCHANGED <<project, declared, watch, ctx, cache, todo, resolved, lf, sig, disk, wrote,
                   read, watching, exit, answered>>

Collect ==
    /\ stage = "collect"
    /\ declared' \in ReadingsOf[project] \ {<<>>}
    /\ todo' = {declared'[i].name : i \in DOMAIN declared'}
    /\ stage' = "prefetch"
    /\ UNCHANGED <<project, watch, ctx, cache, resolved, lf, sig, disk, wrote, read,
                   watching, err, exit, answered>>

----------------------------------------------------------------------------
(* prefetch, as in module Resolve, in one step: some of what was asked for   *)
(* in batches is in the cache afterwards.                                    *)

Batched ==
    {u \in UniqueTools : \E v \in UniqueTools : v # u /\ v.eco = u.eco}

Prefetch ==
    /\ stage = "prefetch"
    /\ \E items \in [Batched -> {a \in Answer : a.hash # NoHash} \cup {NoOutcome}] :
         LET usable == {u \in Batched : items[u] \in Answer}
         IN  /\ cache' = [u \in UniqueRef |->
                            IF u \in usable THEN Resolved(items[u]) ELSE cache[u]]
             /\ answered' = [u \in UniqueRef |->
                            IF u \in usable THEN {items[u]} ELSE answered[u]]
    /\ stage' = "resolve"
    /\ UNCHANGED <<project, declared, watch, ctx, todo, resolved, lf, sig, disk, wrote, read,
                   watching, err, exit>>

PrefetchCut ==
    /\ stage = "prefetch" /\ (ctx # "live" \/ Batched = {})
    /\ stage' = "resolve"
    /\ UNCHANGED <<project, declared, watch, ctx, cache, todo, resolved, lf, sig, disk, wrote,
                   read, watching, err, exit, answered>>

----------------------------------------------------------------------------
(* resolveTools: name by name, in a fixed order, until one fails.  Every      *)
(* ecosystem of the parsers has a resolver.  The stale flag is not looked at. *)

CacheKey(u) == u

FromCache(n) ==
    /\ Turn(n)
    /\ cache[CacheKey(First(n))] # NoOutcome
    /\ resolved' = [resolved EXCEPT ![n] = cache[CacheKey(First(n))]]
    /\ todo' = todo \ {n}
    /\ UNCHANGED <<project, declared, watch, ctx, stage, cache, lf, sig, disk, wrote, read,
                   watching, err, exit, answered>>

\* An entry that has expired is asked for again.
Ask(n) ==
    /\ Turn(n)
    /\ \E a \in Answer :
         /\ resolved' = [resolved EXCEPT ![n] = Resolved(a)]
         /\ answered' = [answered EXCEPT ![First(n)] = @ \cup {a}]
    /\ todo' = todo \ {n}
    /\ UNCHANGED <<project, declared, watch, ctx, stage, cache, lf, sig, disk, wrote, read,
                   watching, err, exit>>

AskFails(n) ==
    /\ Turn(n)
    /\ \E e \in CallErrors : Fail(e)
    /\ UNCHANGED <<project, declared, watch, ctx, cache, todo, resolved, lf, sig, disk, wrote,
                   read, watching, exit, answered>>

AskCut(n) ==
    /\ Turn(n)
    /\ ctx # "live"
    /\ Fail(ContextErr(ctx))
    /\ UNCHANGED <<project, declared, watch, ctx, cache, todo, resolved, lf, sig, disk, wrote,
                   read, watching, exit, answered>>

ResolvedAll ==
    /\ stage = "resolve" /\ todo = {}
    /\ stage' = "build"
    /\ UNCHANGED <<project, declared, watch, ctx, cache, todo, resolved, lf, sig, disk, wrote,
                   read, watching, err, exit, answered>>

----------------------------------------------------------------------------
(* buildLockfile gives every tool the hash of its name; the repository is    *)
(* named if it can be told.                                                  *)

Build ==
    /\ stage = "build"
    /\ \E named \in BOOLEAN :
         lf' = [hashes |-> [u \in {v \in Declared : resolved[v.name] # NoOutcome} |->
                               resolved[u.name].hash],
                repo |-> named]
    /\ stage' = "sign"
    /\ UNCHANGED <<project, declared, watch, ctx, cache, todo, resolved, sig, disk, wrote, read,
                   watching, err, exit, answered>>

\* The bytes sent to the platform: manifest.CanonicalJSON.
SentForSigning(l) == l

\* The platform's key need not be one this build has pinned.
Sign ==
    /\ stage = "sign"
    /\ \E k \in {"pinned", "unknown"} : sig' = [key |-> k, over |-> SentForSigning(lf)]
    /\ stage' = "write"
    /\ UNCHANGED <<project, declared, watch, ctx, cache, todo, resolved, lf, disk, wrote, read,
                   watching, err, exit, answered>>

\* The answer names another algorithm.
WrongAlgorithm == Operational({"other"})

SignFails ==
    /\ stage = "sign"
    /\ Fail(WrongAlgorithm) \/ \E e \in CallErrors : Fail(Operational(e))
    /\ UNCHANGED <<project, declared, watch, ctx, cache, todo, resolved, lf, sig, disk, wrote,
                   read, watching, exit, answered>>

SignCut ==
    /\ stage = "sign" /\ ctx # "live"
    /\ Fail(Operational(ContextErr(ctx)))
    /\ UNCHANGED <<project, declared, watch, ctx, cache, todo, resolved, lf, sig, disk, wrote,
                   read, watching, exit, answered>>

Write ==
    /\ stage = "write"
    /\ disk' = [lf |-> lf, sig |-> sig]
    /\ wrote' = TRUE
    /\ Fail(NoError)
    /\ UNCHANGED <<project, declared, watch, ctx, cache, todo, resolved, lf, sig, read, watching,
                   exit, answered>>

WriteFails ==
    /\ stage = "write"
    /\ Fail({"other"})
    /\ UNCHANGED <<project, declared, watch, ctx, cache, todo, resolved, lf, sig, disk, wrote,
                   read, watching, exit, answered>>

Classified(e) == ClassifyDeadline(ctx, e)

Classify ==
    /\ stage = "classify"
    /\ err' = Classified(err)
    /\ stage' = IF err' = NoError /\ watch THEN "watch" ELSE "leave"
    /\ UNCHANGED <<project, declared, watch, ctx, cache, todo, resolved, lf, sig, disk, wrote,
                   read, watching, exit, answered>>

----------------------------------------------------------------------------
(* watchAfterWrite, outside of classifyDeadline. *)

Leave(e) == err' = ClassifyEntitlement(e) /\ stage' = "leave"

WatchRead ==
    /\ stage = "watch" /\ Readable(disk) /\ Verified(disk)
    /\ read' = disk
    /\ stage' = "upload"
    /\ UNCHANGED <<project, declared, watch, ctx, cache, todo, resolved, lf, sig, disk, wrote,
                   watching, err, exit, answered>>

\* No key is configured; or the file cannot be read or does not verify, or the
\* repository has no name.
WatchFails ==
    /\ stage = "watch"
    /\ Leave(Operational({"other"})) \/ Leave({"other"})
    /\ UNCHANGED <<project, declared, watch, ctx, cache, todo, resolved, lf, sig, disk, wrote,
                   read, watching, exit, answered>>

Uploaded == read

\* The platform replaces what it watches for the repository.
Upload ==
    /\ stage = "upload"
    /\ watching' = Refs(Uploaded)
    /\ Leave(NoError)
    /\ UNCHANGED <<project, declared, watch, ctx, cache, todo, resolved, lf, sig, disk, wrote,
                   read, exit, answered>>

\* The request was lost, or carried out and the reply lost.
UploadFails ==
    /\ stage = "upload"
    /\ watching' \in {watching, Refs(Uploaded)}
    /\ \E e \in CallErrors : Leave(e)
    /\ UNCHANGED <<project, declared, watch, ctx, cache, todo, resolved, lf, sig, disk, wrote,
                   read, exit, answered>>

UploadCut ==
    /\ stage = "upload" /\ ctx # "live"
    /\ watching' \in {watching, Refs(Uploaded)}
    /\ Leave(ContextErr(ctx))
    /\ UNCHANGED <<project, declared, watch, ctx, cache, todo, resolved, lf, sig, disk, wrote,
                   read, exit, answered>>

Exit ==
    /\ stage = "leave"
    /\ exit' = {ExitCodeFor(err)}
    /\ stage' = "exited"
    /\ UNCHANGED <<project, declared, watch, ctx, cache, todo, resolved, lf, sig, disk, wrote,
                   read, watching, err, answered>>

----------------------------------------------------------------------------
\* What the command does by itself, and what waits for the platform.
InitStep ==
    \/ CollectFails \/ Collect \/ PrefetchCut \/ ResolvedAll \/ Build \/ SignCut
    \/ Write \/ WriteFails \/ Classify \/ WatchRead \/ WatchFails \/ UploadCut \/ Exit
    \/ \E n \in Name : FromCache(n) \/ AskCut(n)
InitPlatformStep ==
    \/ Prefetch \/ Sign \/ SignFails \/ Upload \/ UploadFails
    \/ \E n \in Name : Ask(n) \/ AskFails(n)

InitNext == InitContextEnds \/ Replace \/ InitStep \/ InitPlatformStep

InitExited == stage = "exited" /\ UNCHANGED initVars

InitSpec ==
    InitCommandInit /\ [][InitNext \/ InitExited]_initVars /\ WF_initVars(InitStep)

----------------------------------------------------------------------------
\* Nothing is lost on the way from the parsers to the file: what init writes
\* records exactly what one reading of the project's files yields, though tools
\* are deduplicated, asked for in batches, resolved one by one and grouped again,
\* and the signature is over exactly what is in the file.
RecordsReading ==
    wrote =>
        /\ \E d \in ReadingsOf[project] : DOMAIN lf.hashes = {d[i] : i \in DOMAIN d}
        /\ sig.over = lf

\* What init writes covers the project: it records what was read, and what was
\* read is whatever the files found declare that is not listed as not supported,
\* and nothing else; a check of the unchanged project, which reads the same files
\* in other orders, finds no change of selection.  Two exceptions are the code's:
\* what parsers drop without a word (Dropped; NothingDroppedSilently), and what
\* package-lock.json of version 1 nests in a reference that occurs again with
\* something else nested in it (Hidden).
WrittenComplete ==
    /\ RecordsReading
    /\ wrote =>
        /\ AlwaysOf[project] \subseteq DOMAIN lf.hashes
        /\ DOMAIN lf.hashes \subseteq EverOf[project]
        /\ AlwaysOf[project] = EverOf[project] =>
             \A d \in ReadingsOf[project] : {d[i] : i \in DOMAIN d} = DOMAIN lf.hashes

Recorded(kind, e) == e.source # "unread" /\ RefOf(kind, e) \in DOMAIN lf.hashes

\* parser.go says of an entry that cannot be reduced to one reference: "It is
\* reported rather than dropped, because a silently skipped dependency reads as a
\* covered one."  So every entry of the files found that declares a dependency is
\* recorded, or listed as not supported.
NothingDroppedSilently ==
    wrote => \A f \in Seqs!ToSet(Found(project)) : f.kind # "workflow" =>
        \A e \in f.entries \ Unsupported(f) : Declares(e) => Recorded(f.kind, e)

Clashing(u) == \E v \in Declared : v # u /\ v.name = u.name

\* Every recorded hash is one the platform gave, in this run, for that very
\* reference, as long as no other ecosystem has a reference of that name.
AttributedUnlessClashing ==
    wrote => \A u \in DOMAIN lf.hashes :
        Clashing(u) \/ lf.hashes[u] \in {a.hash : a \in answered[u]}

\* The platform is only ever told to watch what a document signed with the
\* pinned key lists, though others replace the file between its verification
\* and the upload.
WatchedIsSigned ==
    watching # {} => \E d \in OtherDocs \cup {[lf |-> lf, sig |-> sig]} :
        Verified(d) /\ watching = Refs(d)

\* A baseline that was written is reported as written, however late the
\* deadline passes, and exit 0 is said of nothing less: with --watch, of
\* nothing less than a completed upload.
FateTold ==
    exit # {} =>
        /\ wrote /\ ~watch => exit = {ExitClean}
        /\ exit = {ExitClean} => wrote /\ (watch => watching = Refs(read))

\* The deadline ends the command, whatever the platform does.
DeadlineEndsInit == (ctx # "live") ~> (stage = "exited")

\* selection_test.go: "The same reference in two ecosystems is two
\* dependencies."  What is recorded for each is an answer to it.
EntriesAttributed ==
    wrote => \A u \in DOMAIN lf.hashes : lf.hashes[u] \in {a.hash : a \in answered[u]}
=============================================================================
