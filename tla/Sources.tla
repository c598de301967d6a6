------------------------------ MODULE Sources ------------------------------
(***************************************************************************)
(* What scg takes a project to depend on: discoverLockfiles,               *)
(* parseWithMultiParser and the parsers (parser/npm.go, pnpm.go,           *)
(* pythonlock.go, pypi.go, dockerfile.go, and workflow.go by module        *)
(* Workflows).  Text is left out: a file is the entries it is made of, and *)
(* a reference is a package at a version.  The maps of a file are Go maps, *)
(* which every run visits in an order of its own.                          *)
(***************************************************************************)
EXTENDS Workflows

CONSTANTS
    Package,    \* names of packages, as files spell them
    Normal,     \* what PEP 503 makes of each
    Version,    \* exact versions
    NoVersion,  \* an entry without one, or with one that cannot be told from its name
    Unpinned    \* an entry with a range, or a specifier that cannot be read

ASSUME PackageAssumption == Normal \in [Package -> Package]
ASSUME VersionAssumption == {NoVersion, Unpinned} \cap Version = {} /\ NoVersion # Unpinned

\* One entry of a file.  Its path is where the package is installed, from the
\* outermost package inwards: only package-lock.json nests, and what it has
\* outside of node_modules has no path.  Its source is an index (or nothing is
\* said), somewhere else (git, a path, a link) or the project itself.  "unread"
\* declares a dependency in a form its parser does not read: FROM with build
\* arguments, -e and -r of pip.  "none" declares nothing: FROM scratch, other
\* options of pip.
Entry == [path : Seq(Package), version : Version \cup {NoVersion, Unpinned},
          source : {"index", "elsewhere", "own", "unread", "none"}]

LockKind == {"npm-v1", "npm-v2", "pnpm", "python", "pipfile", "requirements", "docker"}

\* A file of the project, a lock file or a workflow with its jobs, and whether
\* it is, as os.Stat says, a regular file.
LockFile == [kind : LockKind, regular : BOOLEAN, entries : SUBSET Entry]
WorkflowFile == [kind : {"workflow"}, regular : BOOLEAN, jobs : File]
ProjectFile == LockFile \cup WorkflowFile

\* The files of a project, in the order of their names, workflows first; and
\* whether os.Stat and os.ReadDir let discoverLockfiles list its root.
Project == [files : Seq(ProjectFile), listed : BOOLEAN]

\* discoverWorkflows and discoverLockfiles: what is not a regular file is passed
\* over, and a root that cannot be listed is one without lock files.
Found(project) ==
    SelectSeq(project.files, LAMBDA f : f.regular /\ (f.kind = "workflow" \/ project.listed))

----------------------------------------------------------------------------
(* Mistakes seeded for the properties to notice, used by no behaviour.      *)

\* Dependencies of dependencies are not looked at.
TopLevelOnly(entries, path) == {}

\* An entry is dropped without a word.
DroppedSilently(e) == FALSE

----------------------------------------------------------------------------
(* The references entries stand for.  The parser of requirements.txt is the  *)
(* one for Python that does not normalise names.                             *)

Reference(package, version) == <<package, version>>
PackageRef(eco, package, e) == [eco |-> eco, name |-> Reference(package, e.version)]

NPMRef(e) == PackageRef("npm", Seqs!Last(e.path), e)
LockedRef(e) == PackageRef("pypi", Normal[Seqs!Last(e.path)], e)
RequiredRef(e) == PackageRef("pypi", Seqs!Last(e.path), e)
ImageRef(e) == PackageRef("docker", Seqs!Last(e.path), e)

----------------------------------------------------------------------------
(* Which entries each parser takes for references, and which others it lists *)
(* (WorkflowFile.Unsupported).  Those of npm and docker list none.           *)

TakenNPM2(e) == e.path # <<>> /\ e.version # NoVersion
TakenNPM1(e) == e.version # NoVersion

TakenPNPM(e) == e.source = "index" /\ e.version # NoVersion
ListedPNPM(e) == ~TakenPNPM(e)

TakenPython(e) == e.source = "index" /\ e.version # NoVersion
ListedPython(e) == e.source \notin {"index", "own"} /\ e.version # NoVersion

TakenPipfile(e) == e.source = "index" /\ e.version \in Version
ListedPipfile(e) == ~TakenPipfile(e)

\* isPipOption tells apart what is passed over; the rest is its version.
TakenRequirements(e) == e.source \notin {"unread", "none"} /\ e.version \in Version
ListedRequirements(e) == e.source \notin {"unread", "none"} /\ e.version \notin Version

TakenDocker(e) == e.source \notin {"unread", "none"}

\* A parser is chosen by the file's name.
RefOf(kind, e) ==
    CASE kind \in {"npm-v1", "npm-v2", "pnpm"} -> NPMRef(e)
      [] kind \in {"python", "pipfile"}        -> LockedRef(e)
      [] kind = "requirements"                 -> RequiredRef(e)
      [] kind = "docker"                       -> ImageRef(e)

Taken(kind, e) ==
    CASE kind = "npm-v2"       -> TakenNPM2(e)
      [] kind = "npm-v1"       -> TakenNPM1(e)
      [] kind = "pnpm"         -> TakenPNPM(e)
      [] kind = "python"       -> TakenPython(e)
      [] kind = "pipfile"      -> TakenPipfile(e)
      [] kind = "requirements" -> TakenRequirements(e)
      [] kind = "docker"       -> TakenDocker(e)

Unsupported(file) ==
    {e \in file.entries :
        CASE file.kind = "pnpm"         -> ListedPNPM(e)
          [] file.kind = "python"       -> ListedPython(e)
          [] file.kind = "pipfile"      -> ListedPipfile(e)
          [] file.kind = "requirements" -> ListedRequirements(e)
          [] OTHER                      -> FALSE}

----------------------------------------------------------------------------
(* package-lock.json of version 1: collectV1Deps goes through the tree depth *)
(* first, each level in any order.  A reference met before is passed over,   *)
(* with all that is nested in it.                                            *)

Nested(entries, path) ==
    {e \in entries : Len(e.path) = Len(path) + 1 /\ SubSeq(e.path, 1, Len(path)) = path}

Visits(entries) ==
    LET refs == {NPMRef(e) : e \in entries}
        Visit[todo \in Seq(entries), seen \in SUBSET refs] ==
            IF todo = <<>> THEN {seen}
            ELSE LET e == Head(todo)
                 IN  IF ~TakenNPM1(e) \/ NPMRef(e) \in seen
                     THEN Visit[Tail(todo), seen]
                     ELSE UNION {Visit[below \o Tail(todo), seen \cup {NPMRef(e)}] :
                                   below \in Seqs!SetToSeqs(Nested(entries, e.path))}
    IN  UNION {Visit[top, {}] : top \in Seqs!SetToSeqs({e \in entries : Len(e.path) = 1})}

\* Parse: the references one file yields, in each order of its maps.
Readings(file) ==
    CASE file.kind = "workflow" ->
            {LET tools == Parse(file.jobs, order)
             IN  [i \in DOMAIN tools |->
                    [eco |-> tools[i].tool.eco,
                     name |-> Reference(tools[i].tool.name, tools[i].tool.version)]] :
                order \in Orders(file.jobs)}
      [] file.kind = "npm-v1" -> {Seqs!SetToSeq(refs) : refs \in Visits(file.entries)}
      [] OTHER ->
            {Seqs!SetToSeq({RefOf(file.kind, e) :
                              e \in {e \in file.entries : Taken(file.kind, e)}})}

\* All files found, one after the other.
Declarations(project) ==
    LET files == Found(project)
        all == UNION {Readings(files[i]) : i \in DOMAIN files}
    IN  {Seqs!FlattenSeq(r) :
            r \in {r \in [DOMAIN files -> all] :
                     \A i \in DOMAIN files : r[i] \in Readings(files[i])}}

----------------------------------------------------------------------------
(* What the properties expect to be read of a file, told from the file alone. *)

Declares(e) == e.source \in {"index", "elsewhere", "unread"}

Under(path, f) == Len(f.path) > Len(path) /\ SubSeq(f.path, 1, Len(path)) = path

\* What a parser drops without a word, by its format: an entry of
\* package-lock.json without a version, with what is nested in it; a package of
\* poetry.lock or uv.lock without one; and what it does not read.
Dropped(file) ==
    CASE file.kind \in {"npm-v1", "npm-v2"} ->
            {f \in file.entries :
                \/ f.version = NoVersion
                \/ /\ file.kind = "npm-v1"
                   /\ \E e \in file.entries : e.version = NoVersion /\ Under(e.path, f)}
      [] file.kind = "python" -> {f \in file.entries : f.version = NoVersion}
      [] file.kind \in {"requirements", "docker"} ->
            {f \in file.entries : f.source = "unread"}
      [] OTHER -> {}

\* All that is nested in a package, by where it is from there.
Beneath(entries, path) ==
    {<<SubSeq(f.path, Len(path) + 1, Len(f.path)), f.version>> :
        f \in {f \in entries : Under(path, f)}}

\* What is nested, in a file of version 1, in a reference that occurs again
\* with something else nested in it: not read in every order.
Hidden(file) ==
    IF file.kind # "npm-v1" THEN {}
    ELSE {f \in file.entries :
            \E e, g \in file.entries :
              /\ NPMRef(e) = NPMRef(g)
              /\ Beneath(file.entries, e.path) # Beneath(file.entries, g.path)
              /\ Under(e.path, f)}

Steps(jobs) == UNION {{jobs[j][i] : i \in DOMAIN jobs[j]} : j \in DOMAIN jobs}
Uses(jobs) ==
    {[eco |-> t.eco, name |-> Reference(t.name, t.version)] :
        t \in {s.uses : s \in Steps(jobs)} \ {NoTool}}

\* The references a file is expected to yield but for some of its entries.
Expected(file, but) ==
    IF file.kind = "workflow" THEN Uses(file.jobs)
    ELSE {RefOf(file.kind, e) :
            e \in {e \in file.entries \ (Unsupported(file) \cup but) :
                     e.source \in {"index", "elsewhere"}}}

\* Those of all files found, in some order of their maps and in all orders.
EverExpected(project) ==
    UNION {Expected(f, Dropped(f)) : f \in Seqs!ToSet(Found(project))}
AlwaysExpected(project) ==
    UNION {Expected(f, Dropped(f) \cup Hidden(f)) : f \in Seqs!ToSet(Found(project))}
=============================================================================
