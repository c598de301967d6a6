# TLA+ verification of scg

`scg` records the dependencies of a project with their content hashes in a
signed `scg.lock`, and later (`scg check`, usually in CI) verifies that every
recorded reference still resolves to the recorded hash. All resolving goes
through the SCG platform; there is deliberately no local fallback. What the
user and the pipeline act on is the exit code: 0 clean, 1 a finding, 2 "SCG
could not tell". The specifications here are about that verdict and what it
rests on: what the parsers take a project to depend on, concurrent resolving,
retries, deadlines, the lockfile on disk; and about the secrets around it: which
tool may see which, and the key the user's logins store.

## The system

| component | source | state | operations | talks to |
|---|---|---|---|---|
| check | `cmd/scg/check.go`, `selection.go` | lockfile, selection changes, drift, warnings | `doCheckDetailed`: read, verify, compare, resolve, detect, report | store, resolving, signature, project files |
| concurrent resolving | `cmd/scg/check.go` (`resolveUnique`, `prefetch`), `platform/resolver.go`, cache of `platform/client.go` | result map, semaphore, WaitGroup, cache, freshness maps | one batch per ecosystem, one goroutine per reference | platform client |
| platform client | `platform/client.go` | attempt counter, last error | `do`, `attempt`, `statusError`, Retry-After | SCG platform over HTTP |
| exit codes, deadline | `cmd/scg/exit.go`, `deadline.go`, `main.go` | the context | `operational`, `classifyDeadline`, `exitCodeFor` | every command |
| lockfile store | `manifest/lock.go` | `scg.lock`, temporary files | `WriteLockfile`, `ReadLockfile` | file system, other scg processes |
| unwatch | `cmd/scg/watch.go` | the platform's list of watched repositories | `runUnwatch` | platform client |
| watch, watches | `cmd/scg/watch.go` | as above | `runWatch`, `watchAfterWrite`, `runWatches` | platform client, store |
| init, update | `cmd/scg/init.go`, `main.go` | declared tools, resolved map, lockfile in memory | `doInit`: collect, prefetch, resolve, sign, write | parsers, client, store |
| audit | `cmd/scg/audit.go`, `forbidden.go` | drift, skipped, violations, step names seen, cache of profiles | `doAuditDetailed`: parse, resolve, drift, profiles, report | parsers, client, store |
| scope | `cmd/scg/scope.go`, `scoper/env.go` | the process environment | find the step, scan, sanitise | parsers, profiles of the platform |
| login, logout, credentials | `cmd/scg/login*.go`, `internal/config` | credentials file, its temporary file, the device code | device flow, password flow, save, load, remove | platform, file system, other scg processes |
| parsers | `parser/` | none | files to references, and to what is not supported | project files |
| signature and trust | `manifest/sign.go`, `trust.go` | pinned keys | canonical JSON, verify | - |
| output, action, installer | `sarif.go`, `output.go`, `action.yml`, `install.sh` | none | formatting, wrapping | - |

What makes them hard:

- **Resolving**: goroutines behind a semaphore of 8 slots, a `select` between a
  slot and the context, one shared result map, a cache that is primed by batches
  which may fail in part and that expires meanwhile, a stale flag that is
  written under one lock and read back later under it again. Correct means:
  every reference gets exactly one result before `wg.Wait` returns; a result is
  one whole answer to that reference; slots come back; the deadline ends it all.
- **check**: several facts hold at once (drift, unverifiable entries, changed
  selection, deadline, unwritable report) and a sequence of early returns picks
  the one that becomes the exit code. Correct means: clean only if everything
  was verified, a finding only with evidence, operational only with a cause.
- **client**: lost requests cannot be told from lost replies; several timers
  (backoff, Retry-After, the HTTP timeout, the command's deadline) race.
- **store**: several processes, failures at any system call, kills, power loss.
- **unwatch**: a retry of a request that is not idempotent in its answer.
- **init, update**: eight steps that each may fail, a deadline across them, a
  file that others replace between writing, verifying and uploading it. Correct
  means: a written baseline covers the project, carries answers of this run and
  the signature over itself; what is watched is signed; the exit code tells
  what was done.

- **parsers**: Go maps are visited in an order of their own in every run, and
  the npm v1 walk and the names of steps depend on it; a lock file nests; some
  entries are no dependency, some cannot be used and must be said. Correct
  means: what the files name is recorded, nothing else, and a second reading
  gives the same.
- **audit, scope**: findings and gaps come in any mixture, and one exit code has
  to tell; a cache of profiles is shared by tools; a step's name need not be
  unique. Correct means: exit 0 only if every tool was compared with its own
  profile, a violation only with a profile behind it, and what was found is told.
- **login**: a person, a clock and a platform race; a reply with a key may be
  lost; several processes save through one temporary name and may be killed.
  Correct means: a user who is told to be signed in has this key stored, a
  failed login leaves the file as it was, and a key is used where it was issued.

`PROJECT.json` lists the hazards at their lines, with the properties that are
aimed at each, and those that no property covers yet.

## The modules

| module | models | checked by | proved in |
|---|---|---|---|
| `ExitCodes` | errors as the sets of identities `errors.Is`/`As` find; `operational`, `classifyDeadline`, `classifyEntitlement`, `exitCodeFor` | through `Check`, `Unwatch`, `InitCommand`, `Exposure` | - |
| `Answers` | references, the platform's answers, what a caller keeps of one | through `Resolve`, `InitCommand` | - |
| `Resolve` | `resolveUnique`, `prefetch`, `PlatformResolver`, the client's cache | `MCResolve` | `ResolveProofs` |
| `Check` | `doCheckDetailed`, `runCheck`, the exit, around `Resolve` | `MCCheck` | `CheckProofs` |
| `Gate` | abstract: what a check promises a pipeline | property `GateSpec` of `Check` | `GateProofs` |
| `LockfileStore` | `WriteLockfile`, `ReadLockfile`, the file system | `MCLockfileStore` | `LockfileStoreProofs` |
| `Register` | abstract: what the lockfile promises readers and writers | property `RegisterSpec` of `LockfileStore` | `LockfileStoreProofs` |
| `Client` | `Client.do` and `attempt` for one call | `MCUnwatch` | `ClientProofs` |
| `Unwatch` | `runUnwatch`, around `Client` | `MCUnwatch` | `ClientProofs` |
| `Workflows` | `WorkflowParser`: the tools of a workflow file and the names of their steps, in every order of its jobs | through `InitCommand`, `Exposure` | - |
| `Sources` | which files are found; the other parsers: which entries of each kind of file are references, which are reported, which are dropped, the npm v1 walk | through `InitCommand` | - |
| `InitCommand` | `doInit`, `runInit`, `runUpdate`, `watchAfterWrite`, `doWatch` | `MCInitCommand` | `InitProofs` |
| `Exposure` | `doAuditDetailed`, `doScopeDetailed`, `compileForbidden`, `ScanEnv` | `MCExposure` | `ExposureProofs` |
| `Credentials` | `SaveCredentials`, `LoadCredentials`, `SamePlatform` | through `Login` | `LoginProofs` |
| `Login` | `runLogin`, `loginWithPassword`, `runLogout`, around `Credentials` | `MCLogin` | `LoginProofs` |

`Check` EXTENDS `Resolve`; `Unwatch` EXTENDS `Client`; `InitCommand` EXTENDS
`Answers` and `Sources`; `Sources` and `Exposure` EXTEND `Workflows`; `Login`
EXTENDS `Credentials`. Every command but login uses `ExitCodes`.
Each module carries a few *seeded mistakes* (a forgotten `wg.Add`, a skipped
fsync, a cache keyed by the name alone, ...), defined before the real step. No
behaviour uses them; replacing the real definition by one of them breaks the
property they were written for.

### Resolve
One value of `pc` per goroutine (`idle`, `select`, `lookup`, `call`, `note`,
`read`, `store`, `release`, `exit`, `done`) between two statements where other
goroutines can interfere; `main` is the calling goroutine. `Acquire` and
`GiveUp` are the two branches of the `select`: with both ready, either is taken.
`NoteFreshness` and `ReadFreshness` are the two separate critical sections on
`PlatformResolver.freshness`. The mutex around the result map makes `Store` one
step. A request with its retries is one call here: it is answered (`CallReply`),
fails (`CallFails`), or is cut by the context (`CallCut`); module `Client` is
where its inside is modelled. The cache may lose an entry at any time
(`CacheExpires`), which covers the five minutes of `cacheTTL` and the equally
long default deadline. Batches store only usable items; single answers are
stored whatever they hold, like the empty hash of a 204.

### Check and Gate
The baseline (`unreadable`, `unsigned`, `forged`, `trusted`, with its tool
entries) and the project (`unknown`, or `declared` with its references) are
inputs. `stage` is the program counter of `doCheckDetailed`. `Report` is the
order of its returns: nothing verified, drift, incomplete, selection changed,
clean. The SARIF report may be asked for or not, written or not. `Classify` is
`classifyDeadline` and `exitCodeFor`; the context may end at every point before.
With `--json` the same code is computed from the same error and carried in a
`reportedError`, which changes what is printed but not the exit code.

`Gate` knows nothing of goroutines: evidence about entries appears, each piece
once and only against a trusted baseline, and one final verdict is given that
has its grounds. `evidence` and `verdict` in `Check` are the refinement mapping.
The gate allows more than one verdict where several have grounds (drift and an
outage together); which of them wins is check's choice and what the two
`check_*` findings are about.

### LockfileStore and Register
A file is named by the write that made it. `onDisk` is the set of files the path
may name after a power loss: a rename adds to it, `Flush` (the directory
reaching the disk) narrows it. File data survives for certain once synced. Any
call may fail, any process may be killed between two steps, the deferred
`Remove` is best effort. `ReadLockfile` looks the path up twice (`Stat`,
`Open`), and in between a writer may rename. `os.CreateTemp`'s random names are
taken to be distinct. An open file stays whole under a reader even when the path
is renamed over, so `Read` returns what was opened.

`Register` is what users rely on: writes take effect at one instant or never, an
error means it did not and will not, a success means it did, a read returns what
the register held at one instant. After an outage it may hold an earlier value:
the code does not fsync the directory, so a success can be undone by a power
loss, but only by a whole older document.

### Client and Unwatch
`failures` is the sequence of the errors of the attempts, so `lastErr` is its
last element. `flight` is the request or the reply on the network; `Lose` drops
whichever it is. `quiet` says that a delay the server asked for has not passed.
A plain transport with a key to protect is refused before anything is sent. The
platform may answer every status of `statusError`; bodies may be garbled. `Unwatch`
adds the platform's handler of DELETE as `runUnwatch` relies on it (removing
what is watched succeeds, removing what is not is a 404) and the exit codes.
`runUnwatch` is handed its context; the one of `main.go` has no deadline, but the
module lets it end either way, so that its run is also the one about a call of a
command that has one.

### InitCommand
`stage` is the program counter of `doInit` and, after `classify`, of
`watchAfterWrite`. `init` and `update` run the same code. The project is a
sequence of files and whether its root can be listed; `Collect` takes one of the
sequences of references module `Sources` says discovery and the parsers may
yield, whose order matters because `collectUniqueTools` keeps the first tool of
each name. `Prefetch` is the effect
of module `Resolve`'s batches in one step (nobody reads the cache in between);
`PrefetchCut` is the case with nothing to batch or an ended context.
`resolveTools` takes the names in sorted order; the module takes them in one
fixed order (`Turn`). That an ecosystem has no resolver cannot happen: every
ecosystem the parsers yield has one. Its cache lookups may also miss (`Ask`), as an entry
expires. `Sign` gives a platform signature over the canonical form, by a key
that this build has pinned or not; `signViaPlat` looks at neither. `Write` is
one step because `LockfileStore` implements `Register`. `Replace` is everybody
else who may put a lockfile at the path: `OtherDocs` holds the documents they
may put there, and is what the lockfile is at the start. `WatchFails` covers a missing key, a
file that does not read or verify, and a repository without a name: each ends
with exit 2 or 1 as the code has it. `UploadFails` leaves open whether the
platform carried the request out.

### Workflows and Sources
Text is left out, the choice of what counts is not: a workflow file is a function
from jobs to sequences of steps, any other file a set of entries with the place
where the package is installed, a version that may be missing or no exact one,
and a source. `Found` is what discovery makes of a project: files that are not
regular are passed over, and where `os.Stat` or `os.ReadDir` of the root fails,
`discoverLockfiles` returns no lock file and no error, so that the workflows alone
are recorded. Each parser has its own operators: `TakenNPM1`, `TakenPNPM`,
`TakenPipfile`, ... are the entries it makes references, `ListedPNPM`, ... those it
puts on its list of entries that are not covered (npm and docker list none),
`NPMRef`, `LockedRef`, ... the reference an entry becomes; `Taken`, `Unsupported` and
`RefOf` choose by the kind of file. An entry can be the project's own (also an
image that is an earlier stage of the Dockerfile, which the code takes for a
reference), declare nothing (`none`: FROM scratch, most options of pip), or declare
a dependency in a form the parser does not read (`unread`: FROM with build
arguments, `-e` and `-r` of pip). What is neither taken nor listed passes in
silence; `Dropped` says which of it declares something, so it is an exception the
properties name and nothing the model hides. A `uses:` of a whole job and one
without `@` are not seen by the workflow parser either and are steps without a
tool here. Names are normalised as PEP 503 has it but for `requirements.txt`.

Whatever a parser takes out of a Go map comes in every order: `Orders` for the
jobs of a workflow, whose unnamed steps are counted through them, and `Visits` for
`collectV1Deps`, which goes through the tree of a version 1 `package-lock.json`
depth first and does not look again below a reference it has met (`Visits` uses a
recursive function; its result depends on the order). `Expected` says, independently
of the walk, what a file names, and `Hidden` what the walk finds in some orders
only.

### Exposure
`audit` and `scope` are one module because they share the parsers, the profiles
and the match. `stage` is the program counter; `todo` the tools still to be
examined, file by file, in the order of this run's jobs: audit's two nested
loops, whose outer one is `NextFile`. `DetectDrift` is
`detectDriftWithPartialFailure` in one step, as nothing else looks at its state
meanwhile; `Check` has it in detail. `FindStep` takes the tool `runScope` ends
up with: the last file that has the step, and in it the first. `ProfileCached`
and `ProfileGiven` are the client's cache of profiles, keyed by the reference
without its version; an entry may expire. A profile whose pattern does not
compile ends either command with exit 2 (`Examine`). `ClearSecret` is one turn of
the loop that unsets, `ClearFails` its failure, possibly half-way. Only audit
has a deadline and `classifyDeadline`. How a name is split into words and what a
pattern matches are inputs.

### Credentials and Login
A file is an inode here: `path` and `tmp` say which one the two names are links
to, so that two saves which share the temporary file, a rename under an open
file, and an old tail under a shorter document come out as they do on disk. A
save is open (with truncation), write, rename; every call may fail, every
process may be killed in between, and what is left behind stays. `overlapped` and
`superseded` are histories for the properties. `Loaded` is what a later command
would use for a platform, by `SamePlatform`.

In `Login`, `stage` is the program counter of a login, `code` the platform's
state of its device code, `issued` how many keys it handed out. A password login
first waits at its prompt: `readPassword` has no context and `main.go` has taken
SIGINT over, so only an answer (`Answer`, `PromptFails`) ends that stage, an
interrupt does not; the request that follows is cut by it. `Approve` is the
person, `Expire` the clock, `Interrupt` the signal. `PollFails` and `MintFails`
leave open whether the platform carried the request out, as a lost reply does.
Logout reads the file for its message and removes it in a second step.

## What the runs check

| run | instance | states | shows |
|---|---|---|---|
| `resolve` | 4 lists of up to 3 references, 3 ecosystems (one without a resolver), 2 answers, 2 slots | 63,432 | `JoinComplete`, `AnswerIntegrity`, `SlotsAccounted`; `DeadlineEndsRun`, `RunEnds` |
| `check` | 3 entries over 2 references (one recorded twice) and a third name, 5 baselines, 4 projects, 4 answers, 1 slot | 448,668 | `CleanMeansVerified`, `FindingHasEvidence`; refinement `GateSpec`; `DeadlineEndsCheck` |
| `store` | 3 writers (symmetric), 1 reader | 127,924 | `NeverTruncated`; refinement `RegisterSpec` |
| `unwatch` | 3 attempts, the default; one repository, with and without `--all` | 11,788 | of the call `ResultExplained`, `ServerDelayHonoured`; `ContextEndsCall`, `CallEnds`; of the command `SuccessMeansUnwatched` |
| `init` | 7 projects of up to 3 files (npm v1 trees, pnpm, Python, requirements, Docker, workflow; one file that is not regular, one root that cannot be listed), 2 answers, 2 documents of others, with and without `--watch` | 240,736 | `WrittenComplete`, `AttributedUnlessClashing`, `WatchedIsSigned`, `FateTold`; `DeadlineEndsInit` |
| `exposure` | 4 invocations, 6 repositories of up to 2 files with 3 tools, 3 baselines of 2 entries, 2 environments over 4 names, 3 profiles | 14,748 | `PassMeansLookedAt`, `ScopeMeansUnexposed`, `ExposureExplained`, `FindingSurvives`, `SanitizedExactly`; `ContextEndsExposure` |
| `login` | 2 logins (device and password, at 4 addresses) and a logout, 3 states of the file | 184,816 | `SignedInMeansStored`, `FailureLeavesFile`, `KeyStaysHome`, `RefusedMeansNoKey`; `InterruptEndsLogin`, `ExpiryEndsLogin` |
| `check_timeout`, `check_partial`, `unwatch_retry`, `init_dropped`, `init_clash` | as `check`, `check`, `unwatch`; `init` with one project | - | expected violations, see below |

Why the bounds are enough. In `resolve` two references of one name in two
ecosystems let answers cross through a shared key; a third reference in a list
with two slots makes one goroutine wait for a slot, and a two-reference
ecosystem makes a batch; a fourth of the lists is empty. The semaphore's bound
is 2 instead of 8 so that it is reached. In `check` one reference recorded by
two entries separates the count of entries from that of references, and four
answers (matching, matching but stale, different, empty) separate all the
branches of the drift loop; the third name lets a project declare something
outside the baseline while some entry is verified and some is not. In `store` a
writer can be overtaken by a second while a third dies; a reader reads again and
again, so one is enough for anything two could see apart. In `unwatch` three
attempts give a first, a middle and a last one. In `init` one version 1 tree
nests in one way, with an entry without a version among them, and one nests
differently under a reference that occurs twice; another project has one name in
two ecosystems and entries that are not supported or not read; two Python files
spell one name in two ways; a workflow and a Dockerfile share an image, beside a
lock file that is not a regular one, and again in a root that cannot be listed;
one is empty. Each has at most three references, which gives a batch, a single
request and a repeated declaration. Of the documents of others one verifies and
one is an edited copy of it. In `exposure` the repositories are the ways in
which steps and tools can coincide: two tools in one job, unnamed steps in two
jobs with one profile, and a step name shared by two files, given or generated;
the profiles forbid the secrets, forbid only what is none, or do not compile; an
entry may be the same, differ or fail, and two of them mix. In `login` two
sessions are enough to share the temporary file; the third state of the file,
and a logout between, separate what is theirs from what was there. Symmetry is
used in `store` only, where no liveness is checked. No counter is cut short by a
bound: all state spaces are finite by themselves.

Fairness. `LocalFairness`, `CheckFairness` and `ClientFairness` are weak
fairness of the program's own steps: the Go scheduler runs every runnable
goroutine, a `select` with a ready branch proceeds; `InitSpec` has weak fairness
of `InitStep`, what the command does by itself, requests cut by an ended context
included. `LoginSpec` and `ExposureSpec` do the same for a login, whose ticker
ticks and whose requests `http.Client` ends after 30 seconds, and for audit and
scope, where an ended context also ends the request that is out. Nobody need
approve a code or answer the prompt for a password (`PromptStep` has no fairness, and
`InterruptEndsLogin` is about the login outside of it). The steps of the network and
the platform have none, so the deadline properties hold with a platform that
never answers. `RunEnds` and `CallEnds` assume in addition, as the left side of
an implication, that a request ends (`http.Client` has a 30 second timeout and
the attempts are bounded) and that timers fire. No strong fairness is used.
Deadlock is checked in every run; the terminal states stutter explicitly
(`Returned`, `Exited`, `Done`, `Ended`, `InitExited`, `ExposureExited`,
`Finished`).

### Where the code and what is said of it differ

- `check_timeout`: `classifyDeadline` turns every error into "timed out ...
  Nothing was detected" once the context is past its deadline, also the error
  that reports drift already found. `deadline_test.go:86` says that a genuine
  finding must survive; its test has a live context.
- `check_partial`: with at least one entry verified and one not, a dependency
  outside the baseline comes to exit 2, because incomplete verification is returned
  first (`check.go:127`);
  `main.go:86` then prints "Nothing was detected about your dependencies", and
  `README.md:313` promises exit 1.
- `unwatch_retry`: a lost reply makes the client repeat the DELETE; the second
  answer is 404 and the command ends with "is not watched" and exit 1, though
  it removed the watch. `README.md:318`, `exit.go:16`.
- `init_dropped`: an image that is a build argument, and the `-e` and `-r` lines of a
  requirements file, are neither recorded nor listed as not supported
  (`dockerfile.go:53`, `pypi.go:47`). `parser.go:52`: such a declaration "is reported
  rather than dropped, because a silently skipped dependency reads as a covered
  one". `WrittenComplete` covers all entries but these (`Dropped`).
- `init_clash`: `collectUniqueTools` keys tools by reference alone, so of one
  name in two ecosystems only the first is resolved and both are recorded with
  its hash. `selection.go:17`: "A reference alone is not an identity". Apart from
  this case attribution holds: `AttributedUnlessClashing`.

Differences that have no run of their own; the properties nearest to them leave
the case out and say so:

- `audit` examines tools once per step name, so of two tools whose steps share a
  name one is not compared and the audit may still exit 0; `audit.go:36` says
  that "nothing checked" never prints as "nothing found" (`PassMeansLookedAt`).
- `pythonlock.go:20` calls package-lock.json the whole resolved tree, which the
  npm parser reads. Of version 1 it may miss what is nested in a reference that occurs
  twice with different things nested, depending on the map order
  (`WrittenComplete` leaves it out: `Hidden`). Of both versions it drops entries
  without a version (`npm.go:74`, `npm.go:98`), of version 1 with all that is nested in
  them (`Dropped`).
- `discoverLockfiles` returns no lock files and no error when the root cannot be read
  (`init.go:360`, `init.go:367`), and passes over what is no regular file (`init.go:391`);
  errors of the workflow directory are returned (`init.go:205`). A baseline of the
  workflows alone is then written and reported as complete; `readsource.go:81` speaks
  of a named warning. Both are in the run `init` (`Found`).
- An interrupt at the prompt for the password ends nothing until somebody answers:
  `login_password.go:138` reads without a context, and `main.go:28` has taken SIGINT
  over (`InterruptEndsLogin` leaves the prompt out).
- Names in `requirements.txt` are not normalised, though the comment at
  `pythonlock.go:209` gives the reason why they have to be.
- `FROM` of an earlier stage's alias is taken for an image (`dockerfile.go:59`), so
  the platform is asked for it.
- A platform outage during `init` exits 1; `README.md:312` knows 0 and 2. The
  same of `audit` and `scope`, for which 1 stands for issues
  (`ExposureExplained` bounds what 1 may mean).
- A profile with a pattern that does not compile ends the audit with exit 2,
  before drift that was found is reported; `audit.go` reports findings before
  incompleteness (`FindingSurvives`).
- Two saves of credentials that overlap share one temporary file and can leave
  half a document, which later commands read as no key (`SignedInMeansStored`,
  `FailureLeavesFile`). The device flow stores an empty token like any other.

## What is proved

Every safety property of the runs is a theorem, and so are the two refinements;
the one exception is the part of `WrittenComplete` that is about the parsers.
TLAPS checks all of these for every value of the constants: any set of
references and answers (finite where it is counted), any semaphore size, any
lockfile and project, any number of attempts, writers, readers and logins. The
assumptions are the named ones of the modules: answers have a hash or the empty
one and a stale flag, resolvers are for ecosystems that exist, references and
entries are finite in number, the names of files are distinct, an address has a
scheme.

Two of the assumptions are about what the parsers compute, since that is
recursion over data and out of the prover's reach: a reading of a project is a
sequence of references (`ProjectsAssumption`), a parsed workflow a sequence of
tools (`ParsingAssumption`). TLC evaluates both for the projects of its runs.
`WrittenComplete` has two parts. The first, `RecordsReading`, is proved
(`InitWritesReading`): the lockfile at the path records exactly one reading of
the project's files and is signed as it stands, whatever the platform and others
do meanwhile. The second, that such a reading is what the files declare but for
`Dropped` and `Hidden`, is about the parsers and is only model-checked; two
mutants of the run `init` are mistakes of the parsers.

- `ResolveProofs`. The inductive invariant `IInv` adds to the types: `Counted`
  (the semaphore and the WaitGroup equal the cardinalities of the sets of
  goroutines they stand for), `Sound(u)` (what a goroutine has in hand, what is
  cached and what is stored for a reference are answers to that reference, and
  at `read` the freshness map still holds this answer's flag), and `Joined`.
  `JoinComplete` alone is not inductive: that no goroutine is left when the
  counter is 0 needs `Counted`, and `AnswerIntegrity` needs the state of the
  freshness map between its two critical sections. `TypeCorrect`, `SlotsCorrect`,
  `AnswersCorrect`, `JoinCorrect` follow.
- `CheckProofs`. `CheckInv` carries `IInv` over (every step of the command is a
  step of `Resolve` or leaves it alone) and adds what each stage has settled, up
  to the explanation of the error about to be classified. `CleanCorrect` is the
  theorem the tool exists for: exit 0 means a platform-signed baseline, an
  unchanged selection and, for every entry, a fresh answer of this run with the
  recorded hash. `FindingCorrect`: exit 1 on a trusted baseline always has a
  fresh differing answer or a changed selection behind it.
- `GateProofs`. `CheckIsGate`: `CheckSpec => GateSpec`. The stronger `GateInv`
  adds that results not stored yet are unset (evidence appears once) and that an
  operational error has its cause.
- `LockfileStoreProofs`. `StoreInv` says that whatever the path has ever named is
  whole and synced, and that a writer past a stage has what the stage gives.
  `StoreNeverTruncated` and the refinement `StoreIsRegister` follow.
- `ClientProofs`. `ClientInv`: until the call returns every failure was one that
  is retried, an attempt is left for whoever waits or has sent, and a delay the
  server asked for goes with a failure that carried it. `ResultCorrect` and
  `DelayHonoured` follow. `UnwatchInv` adds that no answer which says that the
  repository is gone, on the network, among the failures or in hand, comes
  before it is; so exit 0 says the truth however often a DELETE was repeated
  (`UnwatchedCorrect`).
- `InitProofs`. `InitInv`: what is cached is a genuine answer (`CacheGenuine`), a
  name that is done has an answer to the first tool of that name (`Settled`),
  the lockfile in memory records each declared tool with what its name was
  resolved to (`Built`), what is at the path is signed by this run or another's
  (`Provenance`), and the error on its way out says what was done (`Fate`).
  `Settled` is where the exception of `AttributedUnlessClashing` comes from: only
  of a name that does not clash is the first tool the tool itself. That there
  is a first one is `LeastNumber`, proved from the well-foundedness of the strict
  subset ordering on finite sets, as the library's induction cannot be used.
- `ExposureProofs`. `ExposureInv`: in the loop of audit every tool is still to come
  or its step was seen (`AuditLoop`), a step was seen only if one of its tools was
  held against its own profile or is listed as skipped (`Accounted`), a violation
  has a tool and a profile behind it (`Justified`), and the error about to be
  classified is the verdict on all that (`Verdict`). That a step rather than a tool
  is accounted for is why `PassMeansLookedAt` leaves out tools that share one.
- `LoginProofs`. `LoginInv` has three parts. `SessionInv`: no key before the stage
  that asks for one, what a user is told is what came of the save. `AtHome`: in
  every file, also one that has no name any more, a key lies with the safe
  address it was issued at; `KeyIsHome` adds that addresses `SamePlatform` takes for
  one are equally safe (`SamePlatformAsSafe`). `FileInv`: the two names are never
  links to one file; a save that shares the temporary file with no other has it
  to itself, empty when it writes and whole when it renames; after its rename
  nobody has that file open, until others change the path. The last part is
  what makes `SignedInIsStored` inductive: the write of a later save must not
  reach the file at the path.

Only model-checked: all liveness (`DeadlineEndsRun`, `RunEnds`,
`DeadlineEndsCheck`, `DeadlineEndsInit`, `ContextEndsCall`, `CallEnds`,
`ContextEndsExposure`, `InterruptEndsLogin`, `ExpiryEndsLogin`), which is out of
the prover's reach; and what the parsers compute (`ProjectsAssumption`,
`ParsingAssumption`, the second part of `WrittenComplete`), which is induction over
data.

## What is not modelled, and what comes next

Cryptography is an input (a signature is missing, does not verify, or does).
Messages, formatting and durations are left out. JSON validation is reduced to
whole or torn. Of the parsers, the scanning of text, the grammar of version
specifiers and the secrets listed for workflow steps are left out; regular
expressions are what they match. Credentials are modelled without power loss
(the code does not sync them, and promises nothing). A check takes the
project's references as an input; composing it with `Sources` would add files
to its state space and no new interleaving. `intel` prints one answer and keeps
no state; the output formats, repository detection and `install.sh` are string
handling; the sequential drift function of package `manifest` is not called by
the commands.

Plan, in order:

1. Init followed by a check of the unchanged project: is every baseline init
   writes accepted (empty hashes, keys that are not pinned, clashes)?
2. An abstract specification of the credentials file, as `Register` is of the
   lockfile, and what of it overlapping saves break.
3. Lemmas about `ExitCodes` on their own: which identities an error may have so
   that each exit code comes out.
4. `Action`: what `action.yml` makes of the exit codes.
