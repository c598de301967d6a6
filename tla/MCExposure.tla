----------------------------- MODULE MCExposure -----------------------------
(***************************************************************************)
(* Audits and scopes of repositories with up to two files and three tools: *)
(* an action at two versions, which share a profile, and an image of the   *)
(* same name.  Steps of one job with names, steps of two jobs without, and *)
(* steps of two files that share a name, written or generated.             *)
(***************************************************************************)
EXTENDS Exposure

CONSTANTS j1, j2, l1, l2, token, key, sock, home, e1, e2

MCTool(eco, version) == [eco |-> eco, name |-> "act", version |-> version]
Action1 == MCTool("github_action", "v1")
Action2 == MCTool("github_action", "v2")
Image == MCTool("docker", "none")
MCTools == {Action1, Action2, Image}

Step(label, uses) == [label |-> label, uses |-> uses]
One(steps) == [j \in {j1} |-> steps]
Two(steps1, steps2) == [j \in {j1, j2} |-> IF j = j1 THEN steps1 ELSE steps2]

Readable(files) == [state |-> "readable", files |-> files]
MCRepositories ==
    {[state |-> "unreadable", files |-> <<>>],
     Readable(<<>>),
     Readable(<<One(<<Step(l1, Action1), Step(l2, Image)>>)>>),
     Readable(<<Two(<<Step(Unnamed, Action1)>>, <<Step(Unnamed, Action2), Step(l1, NoTool)>>)>>),
     Readable(<<One(<<Step(l1, Image)>>), One(<<Step(l1, Action1)>>)>>),
     Readable(<<One(<<Step(Unnamed, Action2)>>), One(<<Step(Unnamed, Image)>>)>>)}

MCInvocations ==
    {[cmd |-> "audit", step |-> <<>>, sanitize |-> FALSE],
     [cmd |-> "scope", step |-> <<l1>>, sanitize |-> FALSE],
     [cmd |-> "scope", step |-> <<l1>>, sanitize |-> TRUE],
     [cmd |-> "scope", step |-> <<j1, 0>>, sanitize |-> TRUE]}

MCBaselines == {"absent", "forged", "trusted"}

\* NPM_TOKEN, DEPLOY_KEY, SSH_AUTH_SOCK and HOME.
MCEnvName == {token, key, sock, home}
MCEnvironments == {MCEnvName, {home}}
MCWordsOf ==
    [k \in MCEnvName |-> CASE k = token -> {"NPM", "TOKEN"} [] k = key -> {"DEPLOY", "KEY"}
                           [] k = sock -> {"SSH", "AUTH", "SOCK"} [] k = home -> {"HOME"}]
MCSecretToken == {"TOKEN", "KEY", "AUTH"}
MCKnownSafe == {sock}
MCProfile ==
    {[broken |-> FALSE, forbids |-> {home, sock}],
     [broken |-> FALSE, forbids |-> {token, key}],
     [broken |-> TRUE, forbids |-> MCEnvName]}
=============================================================================
