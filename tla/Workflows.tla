----------------------------- MODULE Workflows -----------------------------
(***************************************************************************)
(* What the workflow parser makes of a GitHub workflow file                *)
(* (parser/workflow.go), in the order in which it makes it.  The jobs of a *)
(* file are a Go map: every run visits them in an order of its own, and    *)
(* the name of a step that has none depends on it.                         *)
(***************************************************************************)
EXTENDS Naturals, Sequences
Seqs == INSTANCE SequencesExt

CONSTANTS
    Job,        \* names of jobs
    Label,      \* names, or ids, given to steps
    Unnamed,    \* a step without either
    Tool,       \* what parseToolRef makes of a "uses"
    NoTool      \* a step without "uses", with a local action, or with one that cannot be read

ASSUME ToolAssumption ==
    /\ \A t \in Tool : DOMAIN t = {"eco", "name", "version"}
    /\ Unnamed \notin Label

\* A file: for each of its jobs, the steps as written.
StepDef == [label : Label \cup {Unnamed}, uses : Tool \cup {NoTool}]
File == UNION {[J -> Seq(StepDef)] : J \in SUBSET Job}

\* extractBaseRef: the reference without what follows its last "@", in its
\* ecosystem.  The tag of a docker image has no "@" and is part of the name.
BaseRef(t) == [eco |-> t.eco, name |-> t.name]

Orders(file) == Seqs!SetToSeqs(DOMAIN file)

\* A tool that a step uses, with the step's name.
StepId == {<<l>> : l \in Label} \cup (Job \X Nat)
ToolRef == [step : StepId, job : Job, tool : Tool]

\* All steps of a file, its jobs taken in the given order.
StepsOf(file, order) ==
    Seqs!FlattenSeq([j \in DOMAIN order |->
        [i \in DOMAIN file[order[j]] |-> [job |-> order[j], def |-> file[order[j]][i]]]])

\* A step without a name is called "<job>-step-<n>", n counting through all jobs.
StepName(steps, i) ==
    IF steps[i].def.label # Unnamed THEN <<steps[i].def.label>> ELSE <<steps[i].job, i - 1>>

\* Parse: the tools of a file, each with its step's name.
Parse(file, order) ==
    LET steps == StepsOf(file, order)
        refs == [i \in DOMAIN steps |->
                   [step |-> StepName(steps, i), job |-> steps[i].job, tool |-> steps[i].def.uses]]
    IN  SelectSeq(refs, LAMBDA r : r.tool # NoTool)

\* parseWorkflows: every file, each in some order of its jobs.
Parsings(files) ==
    LET all == UNION {Orders(files[i]) : i \in DOMAIN files}
    IN  {[i \in DOMAIN files |-> Parse(files[i], o[i])] :
            o \in {o \in [DOMAIN files -> all] : \A i \in DOMAIN files : o[i] \in Orders(files[i])}}

\* The tools of all files.
ToolSet(workflows) == UNION {{workflows[i][k] : k \in DOMAIN workflows[i]} : i \in DOMAIN workflows}
=============================================================================
