--------------------------- MODULE MCInitCommand ---------------------------
(***************************************************************************)
(* InitCommand on projects of up to three files: a package-lock.json of    *)
(* version 1 that nests, also in an entry without a version, and one that  *)
(* nests differently where a reference occurs again; one name in two       *)
(* ecosystems and three files, beside entries that are listed as not       *)
(* supported and entries that are dropped; two Python files that spell a   *)
(* name in two ways; a workflow with an action and an image, beside a      *)
(* Dockerfile with the same image and a file that is not regular; the same *)
(* in a root that cannot be listed; and no file.  Others have a signed     *)
(* baseline of an older project, and an edited copy of it.                 *)
(***************************************************************************)
EXTENDS InitCommand

CONSTANTS react, six, Six, v1, v2, h1, h2, j1, j2

MCPackage == {react, six, Six}
MCNormal == [p \in MCPackage |-> IF p = Six THEN six ELSE p]

At(path, version, source) == [path |-> path, version |-> version, source |-> source]
Of(path, version) == At(path, version, "index")
Lock(kind, entries) == [kind |-> kind, regular |-> TRUE, entries |-> entries]

MCTools ==
    {[eco |-> "github_action", name |-> react, version |-> v1],
     [eco |-> "docker", name |-> six, version |-> v1]}
MCStep(tool) == [label |-> Unnamed, uses |-> tool]
Workflow ==
    [kind |-> "workflow", regular |-> TRUE,
     jobs |-> [j \in {j1, j2} |->
                 IF j = j1 THEN <<MCStep(CHOOSE t \in MCTools : t.eco = "docker")>>
                 ELSE <<MCStep(CHOOSE t \in MCTools : t.eco = "github_action"), MCStep(NoTool)>>]]

Images ==
    Lock("docker", {Of(<<six>>, v1), At(<<react>>, NoVersion, "unread"),
                    At(<<>>, NoVersion, "none")})
Pipe == [Lock("pnpm", {Of(<<react>>, v2)}) EXCEPT !.regular = FALSE]
Nesting ==
    Lock("npm-v1", {Of(<<react>>, v1), Of(<<react, six>>, v1), Of(<<react, six, react>>, v2),
                    Of(<<six>>, v1)})
Unread ==
    Lock("requirements", {Of(<<six>>, v1), Of(<<react>>, Unpinned),
                          At(<<react>>, NoVersion, "unread"), At(<<>>, NoVersion, "none")})

Listed(files) == [files |-> files, listed |-> TRUE]

MCProjects ==
    {Listed(files) : files \in {
       <<Lock("npm-v1", {Of(<<react>>, v1), Of(<<react, six>>, v1),
                         At(<<six>>, NoVersion, "elsewhere"), Of(<<six, react>>, v2)})>>,
       <<Nesting>>,
       <<Lock("npm-v2", {Of(<<react, six>>, v1), At(<<react>>, NoVersion, "elsewhere"),
                         At(<<>>, v1, "own")}),
         Lock("pnpm", {Of(<<six>>, v1), At(<<react>>, v1, "elsewhere"),
                       Of(<<react>>, NoVersion)}),
         Unread>>,
       <<Lock("pipfile", {Of(<<Six>>, v1), At(<<react>>, NoVersion, "elsewhere")}),
         Lock("python", {Of(<<six>>, v1), At(<<react>>, v1, "own"), At(<<react>>, v2, "elsewhere"),
                         Of(<<react>>, NoVersion)})>>,
       <<Workflow, Images, Pipe>>,
       <<>>}}
    \cup {[files |-> <<Workflow, Images>>, listed |-> FALSE]}

\* For the run about what is dropped in silence.
MCImagesProject == {Listed(<<Images, Unread>>)}

MCEcosystem == {"npm", "pypi", "docker", "github_action"}
MCName == {Reference(react, v1), Reference(react, v2), Reference(six, v1)}
MCHash == {h1, h2}
MCAnswer == {[hash |-> h1, stale |-> TRUE], [hash |-> NoHash, stale |-> FALSE]}

Ref(e, n) == [eco |-> e, name |-> n]
Older == [hashes |-> [u \in {Ref("npm", Reference(react, v1))} |-> h2], repo |-> TRUE]
Edited == [hashes |-> [u \in {Ref("pypi", Reference(react, v1))} |-> h2], repo |-> TRUE]
MCOtherDocs ==
    {[lf |-> l, sig |-> [key |-> "pinned", over |-> Older]] : l \in {Older, Edited}}
=============================================================================
