--------------------------- MODULE ExposureProofs ---------------------------
(***************************************************************************)
(* Theorems about scg audit and scope, for every repository, every         *)
(* environment and every profile the platform may give: what exit 0 and    *)
(* exit 1 say, what is reported, and what is cleared.                      *)
(***************************************************************************)
EXTENDS Exposure, SequenceTheorems, FiniteSetTheorems, TLAPS

\* Nothing was compared, and so nothing was found.
Nothing ==
    /\ \A e \in Entry : live[e] = "unasked"
    /\ \A b \in BaseRefs : given[b] = {}
    /\ drift = {} /\ violations = {}

\* A profile of the tool was held against the environment, and what it forbids
\* of it is reported.
Looked(t) ==
    \E p \in given[BaseRef(t.tool)] :
        ~p.broken /\ \A k \in Exposed(p) : [step |-> t.step, secret |-> k] \in violations

\* A tool of the step was looked at, or is listed as not checked.
Accounted(s) ==
    \E t \in ToolSet(workflows) :
        t.step = s /\ (<<"profile", BaseRef(t.tool)>> \in skipped \/ Looked(t))

\* The baseline was compared entry by entry, or is listed as not checked.
Compared ==
    /\ repo.files = <<>> => <<"workflows">> \in skipped
    /\ \/ <<"baseline">> \in skipped /\ drift = {}
       \/ /\ baseline = "trusted"
          /\ drift = {e \in Entry : live[e] = "differs"}
          /\ \A e \in Entry : live[e] = "same" \/ live[e] = "differs" \/ <<"entry", e>> \in skipped

Reported == {v.secret : v \in violations}

Broken == \E b \in BaseRefs : \E p \in given[b] : p.broken

\* Every violation is a tool's whose own profile forbids a secret that is set.
Justified ==
    \A v \in violations : \E t \in ToolSet(workflows) :
        t.step = v.step /\ \E p \in given[BaseRef(t.tool)] : v.secret \in Exposed(p)

Cached == \A b \in BaseRefs : cached[b] \subseteq given[b]

Beginning ==
    /\ stage \in {"parse", "resolve", "baseline", "find"} => Nothing /\ seen = {} /\ todo = <<>>
    /\ stage = "parse" => workflows = <<>> /\ skipped = {}
    /\ stage \in {"resolve", "baseline"} =>
          Audit /\ (repo.files = <<>> => <<"workflows">> \in skipped)
    /\ stage = "find" => Scope

\* The loop of audit: a tool is still to come or its step was accounted for.
AuditLoop ==
    Audit /\ stage = "profiles" =>
        /\ Compared
        /\ \A t \in ToolSet(workflows) : t \in ToolSet(todo) \/ t.step \in seen
        /\ \A s \in seen : Accounted(s)

\* scope looks at one tool, of the step asked for.
ScopeLoop ==
    Scope /\ stage = "profiles" =>
        \E t \in ToolSet(workflows) :
            /\ t.step = args.step
            /\ \/ todo = <<<<t>>>> /\ Nothing
               \/ ToolSet(todo) = {} /\ Looked(t)

\* The environment loses what is reported, when all is reported.
Kept ==
    /\ env0 \ env \subseteq Reported
    /\ env # env0 => args.sanitize /\ Scope /\ ToolSet(todo) = {}

\* What an error, or none, says of what was done.
Verdict ==
    \/ Nothing /\ err # NoError
    \/ Is(err, "operational") /\ (Audit => Broken)
    \/ /\ Audit /\ Compared /\ \A t \in ToolSet(workflows) : Accounted(t.step)
       /\ err = AuditVerdict(drift, violations, skipped)
    \/ /\ Scope /\ ToClear = {}
       /\ \E t \in ToolSet(workflows) : t.step = args.step /\ Looked(t)
       /\ err = IF violations # {} THEN {"other"} ELSE NoError

Ended ==
    /\ stage = "classify" => Verdict
    /\ IF stage = "exited"
       THEN /\ exit = {ExitCodeFor(err)}
            /\ Verdict \/ (Audit /\ ctx = "deadline" /\ Is(err, "operational"))
       ELSE exit = {}

ExposureInv ==
    /\ ExposureTypeOK
    /\ Cached
    /\ Justified
    /\ Beginning
    /\ AuditLoop
    /\ ScopeLoop
    /\ Kept
    /\ Ended

----------------------------------------------------------------------------
\* A tool has a place in a list of files.
Has(w, t) == \E i \in 1..Len(w) : \E k \in 1..Len(w[i]) : t = w[i][k]

\* The tools of a list of files are those that have a place in it.
LEMMA ToolSetPlaces ==
    ASSUME NEW S, NEW w \in Seq(Seq(S))
    PROVE  /\ ToolSet(w) \subseteq S
           /\ \A t : t \in ToolSet(w) <=> Has(w, t)
<1>1. DOMAIN w = 1..Len(w)
  BY LenProperties
<1>2. ASSUME NEW i \in 1..Len(w)
      PROVE  DOMAIN w[i] = 1..Len(w[i]) /\ \A k \in 1..Len(w[i]) : w[i][k] \in S
  <2>1. w[i] \in Seq(S)
    BY ElementOfSeq
  <2> QED
    BY <2>1, LenProperties, ElementOfSeq
<1>3. \A t : t \in ToolSet(w) <=> \E i \in DOMAIN w : \E k \in DOMAIN w[i] : t = w[i][k]
  BY DEF ToolSet
<1>4. \A t : t \in ToolSet(w) <=> Has(w, t)
  BY <1>1, <1>2, <1>3 DEF Has
<1>5. ASSUME NEW t, Has(w, t)
      PROVE  t \in S
  <2>1. PICK i \in 1..Len(w) : \E k \in 1..Len(w[i]) : t = w[i][k]
    BY <1>5 DEF Has
  <2> QED
    BY <1>2, <2>1
<1> QED
  BY <1>4, <1>5

\* A list of files is a list of its own tools.
LEMMA ToolSetTypes ==
    ASSUME NEW S, NEW w \in Seq(Seq(S))
    PROVE  w \in Seq(Seq(ToolSet(w)))
<1>1. ASSUME NEW i \in 1..Len(w)
      PROVE  w[i] \in Seq(ToolSet(w))
  <2>1. w[i] \in Seq(S)
    BY ElementOfSeq
  <2>2. w[i] \in [1..Len(w[i]) -> S] /\ Len(w[i]) \in Nat
    BY <2>1, LenProperties
  <2>3. \A k \in 1..Len(w[i]) : w[i][k] \in ToolSet(w)
    BY ToolSetPlaces DEF Has
  <2>4. w[i] \in [1..Len(w[i]) -> ToolSet(w)]
    BY <2>2, <2>3
  <2> QED
    BY <2>2, <2>4, SeqDef
<1>2. w \in [1..Len(w) -> Seq(S)] /\ Len(w) \in Nat
  BY LenProperties
<1>3. w \in [1..Len(w) -> Seq(ToolSet(w))]
  BY <1>1, <1>2
<1> DEFINE F == Seq(ToolSet(w))
<1>4. w \in [1..Len(w) -> F]
  BY <1>3
<1> HIDE DEF F
<1>5. w \in Seq(F)
  <2>1. Seq(F) = UNION {[1..n -> F] : n \in Nat}
    BY SeqDef
  <2> QED
    BY <1>2, <1>4, <2>1
<1> QED
  BY <1>5 DEF F

\* A list without files has no tools, and one of a single tool has that one.
LEMMA ToolSetSmall ==
    /\ ToolSet(<<>>) = {}
    /\ \A t : /\ ToolSet(<<<<t>>>>) = {t} /\ <<<<t>>>>[1] # <<>> /\ Head(<<<<t>>>>[1]) = t
              /\ ToolSet([<<<<t>>>> EXCEPT ![1] = Tail(@)]) = {}
<1>1. ToolSet(<<>>) = {}
  BY DEF ToolSet
<1>2. ASSUME NEW t
      PROVE  /\ ToolSet(<<<<t>>>>) = {t} /\ <<<<t>>>>[1] # <<>> /\ Head(<<<<t>>>>[1]) = t
             /\ ToolSet([<<<<t>>>> EXCEPT ![1] = Tail(@)]) = {}
  <2>1. /\ DOMAIN <<<<t>>>> = {1} /\ <<<<t>>>>[1] = <<t>> /\ DOMAIN <<t>> = {1} /\ <<t>>[1] = t
        /\ <<t>> # <<>> /\ Head(<<t>>) = t /\ Tail(<<t>>) = <<>> /\ DOMAIN <<>> = {}
    OBVIOUS
  <2>2. ToolSet(<<<<t>>>>) = {t}
    BY <2>1 DEF ToolSet
  <2> DEFINE none == [<<<<t>>>> EXCEPT ![1] = Tail(@)]
  <2>3. DOMAIN none = {1} /\ none[1] = <<>>
    BY <2>1
  <2>4. ToolSet(none) = {}
    BY <2>1, <2>3 DEF ToolSet
  <2> QED
    BY <2>1, <2>2, <2>4
<1> QED
  BY <1>1, <1>2

\* A file without tools left can be dropped.
LEMMA FileDone ==
    ASSUME NEW S, NEW w \in Seq(Seq(S)), w # <<>>, w[1] = <<>>
    PROVE  Tail(w) \in Seq(Seq(S)) /\ ToolSet(Tail(w)) = ToolSet(w)
<1> DEFINE r == Tail(w)
<1>1. r \in Seq(Seq(S)) /\ Len(r) = Len(w) - 1 /\ \A i \in 1..Len(r) : r[i] = w[i + 1]
  BY HeadTailProperties
<1>2. Len(w) \in Nat \ {0} /\ Len(w[1]) = 0
  BY EmptySeq
<1> HIDE DEF r
<1>3. ASSUME NEW t, Has(w, t)
      PROVE  Has(r, t)
  <2>1. PICK i \in 1..Len(w) : \E k \in 1..Len(w[i]) : t = w[i][k]
    BY <1>3 DEF Has
  <2>2. i # 1
    BY <1>2, <2>1
  <2>3. i - 1 \in 1..Len(r) /\ r[i - 1] = w[i]
    BY <1>1, <1>2, <2>2
  <2> QED
    BY <2>1, <2>3 DEF Has
<1>4. ASSUME NEW t, Has(r, t)
      PROVE  Has(w, t)
  <2>1. PICK i \in 1..Len(r) : \E k \in 1..Len(r[i]) : t = r[i][k]
    BY <1>4 DEF Has
  <2>2. i + 1 \in 1..Len(w) /\ r[i] = w[i + 1]
    BY <1>1, <1>2
  <2> QED
    BY <2>1, <2>2 DEF Has
<1>5. /\ \A t : t \in ToolSet(w) <=> Has(w, t)
      /\ \A t : t \in ToolSet(r) <=> Has(r, t)
  BY <1>1, ToolSetPlaces
<1> QED
  BY <1>1, <1>3, <1>4, <1>5 DEF r

\* Passing the first tool of the first file leaves all the others.
LEMMA ToolDone ==
    ASSUME NEW S, NEW w \in Seq(Seq(S)), w # <<>>, w[1] # <<>>
    PROVE  /\ Head(w[1]) \in ToolSet(w) /\ ToolSet(w) \subseteq S
           /\ [w EXCEPT ![1] = Tail(@)] \in Seq(Seq(S))
           /\ ToolSet(w) = ToolSet([w EXCEPT ![1] = Tail(@)]) \cup {Head(w[1])}
<1> DEFINE f == w[1]
           g == Tail(w[1])
           r == [w EXCEPT ![1] = g]
<1>1. Len(w) \in Nat \ {0} /\ f \in Seq(S)
  BY EmptySeq, ElementOfSeq
<1>2. /\ Len(f) \in Nat \ {0} /\ Head(f) = f[1]
      /\ g \in Seq(S) /\ Len(g) = Len(f) - 1 /\ \A k \in 1..Len(g) : g[k] = f[k + 1]
  BY <1>1, EmptySeq, HeadTailProperties
<1>3. /\ r \in Seq(Seq(S)) /\ Len(r) = Len(w)
      /\ \A j \in 1..Len(w) : r[j] = IF j = 1 THEN g ELSE w[j]
  BY <1>1, <1>2, ExceptSeq
<1>0. f = w[1] /\ r = [w EXCEPT ![1] = Tail(@)]
  OBVIOUS
<1> HIDE DEF r, f, g
<1>4. Has(w, Head(f))
  <2>1. 1 \in 1..Len(w) /\ 1 \in 1..Len(w[1]) /\ Head(f) = w[1][1]
    BY <1>0, <1>1, <1>2
  <2> QED
    BY <2>1 DEF Has
<1>5. ASSUME NEW t, Has(w, t), t # Head(f)
      PROVE  Has(r, t)
  <2>1. PICK i \in 1..Len(w) : \E k \in 1..Len(w[i]) : t = w[i][k]
    BY <1>5 DEF Has
  <2>2. PICK k \in 1..Len(w[i]) : t = w[i][k]
    BY <2>1
  <2>3. CASE i = 1
    <3>1. k # 1 /\ k \in 1..Len(f) /\ t = f[k]
      BY <1>0, <1>2, <1>5, <2>2, <2>3
    <3>2. k - 1 \in 1..Len(g) /\ g[k - 1] = t
      BY <1>2, <3>1
    <3>3. 1 \in 1..Len(r) /\ r[1] = g
      BY <1>1, <1>3
    <3> QED
      BY <3>2, <3>3 DEF Has
  <2>4. CASE i # 1
    BY <1>3, <2>2, <2>4 DEF Has
  <2> QED
    BY <2>3, <2>4
<1>6. ASSUME NEW t, Has(r, t)
      PROVE  Has(w, t)
  <2>1. PICK i \in 1..Len(r) : \E k \in 1..Len(r[i]) : t = r[i][k]
    BY <1>6 DEF Has
  <2>2. PICK k \in 1..Len(r[i]) : t = r[i][k]
    BY <2>1
  <2>3. CASE i = 1
    <3>1. k \in 1..Len(g) /\ t = f[k + 1] /\ k + 1 \in 1..Len(f)
      BY <1>1, <1>2, <1>3, <2>2, <2>3
    <3>2. 1 \in 1..Len(w)
      BY <1>1
    <3> QED
      BY <1>0, <3>1, <3>2 DEF Has
  <2>4. CASE i # 1
    BY <1>3, <2>2, <2>4 DEF Has
  <2> QED
    BY <2>3, <2>4
<1>7. /\ ToolSet(w) \subseteq S
      /\ \A t : t \in ToolSet(w) <=> Has(w, t)
  BY ToolSetPlaces
<1>8. \A t : t \in ToolSet(r) <=> Has(r, t)
  BY <1>3, ToolSetPlaces
<1>9. Head(f) \in ToolSet(w) /\ ToolSet(w) = ToolSet(r) \cup {Head(f)}
  BY <1>4, <1>5, <1>6, <1>7, <1>8
<1> QED
  BY <1>0, <1>3, <1>7, <1>9

\* A set of numbers from 1 on that is not empty has a least element: of the
\* intervals that end in one of them, a least by inclusion ends there.
LEMMA LeastNumber ==
    ASSUME NEW T \in SUBSET (Nat \ {0}), T # {}
    PROVE  \E x \in T : \A y \in T : x <= y
<1> DEFINE R == StrictSubsetOrdering(Nat)
           F == FiniteSubsetsOf(Nat)
           I == {1..k : k \in T}
<1>1. IsWellFoundedOn(R, F)
  BY FS_StrictSubsetOrderingWellFounded
<1>2. I \subseteq F /\ I # {}
  <2>1. ASSUME NEW k \in T
        PROVE  1..k \in F
    <3>1. IsFiniteSet(1..k)
      BY FS_Interval
    <3> QED
      BY <3>1 DEF FiniteSubsetsOf
  <2> QED
    BY <2>1
<1>3. \A x, y \in T : y < x => <<1..y, 1..x>> \in R
  <2> SUFFICES ASSUME NEW x \in T, NEW y \in T, y < x
               PROVE  <<1..y, 1..x>> \in R
    OBVIOUS
  <2>1. 1..y \subseteq 1..x /\ x \in 1..x /\ x \notin 1..y
    OBVIOUS
  <2> QED
    BY <2>1 DEF StrictSubsetOrdering
<1> HIDE DEF R, F
<1>4. PICK s \in I : \A t \in I : ~(<<t, s>> \in R)
  BY <1>1, <1>2, WFMin
<1>5. PICK x \in T : s = 1..x
  BY <1>4
<1>6. \A y \in T : ~(y < x)
  BY <1>3, <1>4, <1>5
<1> QED
  BY <1>6

\* ... and a greatest one if none exceeds some number.
LEMMA GreatestNumber ==
    ASSUME NEW N \in Nat, NEW T \in SUBSET (1..N), T # {}
    PROVE  \E x \in T : \A y \in T : y <= x
<1> DEFINE M == {(N + 1) - k : k \in T}
<1>1. M \in SUBSET (Nat \ {0}) /\ M # {}
  <2>1. \A k \in T : (N + 1) - k \in Nat \ {0}
    OBVIOUS
  <2> QED
    BY <2>1
<1>2. PICK m \in M : \A l \in M : m <= l
  BY <1>1, LeastNumber
<1>3. PICK x \in T : m = (N + 1) - x
  BY <1>2
<1>4. ASSUME NEW y \in T
      PROVE  y <= x
  <2>1. (N + 1) - y \in M
    OBVIOUS
  <2>2. m <= (N + 1) - y
    BY <1>2, <2>1
  <2> QED
    BY <1>3, <2>2
<1> QED
  BY <1>4

\* What is there to examine, and how it is typed.
LEMMA ExposureTypes ==
    ASSUME ExposureTypeOK
    PROVE  /\ workflows \in Seq(Seq(ToolRef)) /\ workflows \in Seq(Seq(ToolSet(workflows)))
           /\ \A t \in ToolSet(workflows) : t \in ToolRef /\ BaseRef(t.tool) \in BaseRefs
           /\ Audit <=> ~Scope
<1>1. <<>> \in Seq(Seq(ToolRef))
  BY EmptySeq
<1>2. workflows \in Seq(Seq(ToolRef))
  BY <1>1, ParsingAssumption DEF ExposureTypeOK
<1>3. ToolSet(workflows) \subseteq ToolRef
  BY <1>2, ToolSetPlaces
<1>4. \A t \in ToolRef : BaseRef(t.tool) \in BaseRefs
  BY DEF ToolRef, BaseRefs
<1>5. args.cmd \in {"audit", "scope"}
  BY ExposureAssumption DEF ExposureTypeOK
<1> QED
  BY <1>2, <1>3, <1>4, <1>5, ToolSetTypes DEF Audit, Scope

\* The tool that scope looks up is a tool of the step.
LEMMA FoundTool ==
    ASSUME ExposureTypeOK, NEW step, \E i \in DOMAIN workflows : HasStep(i, step)
    PROVE  ToolOf(step) \in ToolSet(workflows) /\ ToolOf(step).step = step
<1>1. /\ DOMAIN workflows = 1..Len(workflows) /\ Len(workflows) \in Nat
      /\ \A i \in 1..Len(workflows) : workflows[i] \in Seq(ToolRef)
  BY ExposureTypes, LenProperties, ElementOfSeq
<1> DEFINE T == {i \in 1..Len(workflows) : HasStep(i, step)}
           f == FileWith(step)
<1>2. PICK x \in T : \A y \in T : y <= x
  BY <1>1, GreatestNumber
<1>3. x \in DOMAIN workflows /\ HasStep(x, step)
     /\ \A j \in DOMAIN workflows : j > x => ~HasStep(j, step)
  BY <1>1, <1>2
<1>4. f \in DOMAIN workflows /\ HasStep(f, step)
  BY <1>3 DEF FileWith
<1> DEFINE wf == workflows[f]
           K == {k \in 1..Len(wf) : wf[k].step = step}
<1>5. wf \in Seq(ToolRef) /\ DOMAIN wf = 1..Len(wf) /\ Len(wf) \in Nat
  <2>1. wf \in Seq(ToolRef)
    BY <1>1, <1>4
  <2> QED
    BY <2>1, LenProperties
<1>6. ToolOf(step) = LET k == CHOOSE k \in DOMAIN wf :
                                wf[k].step = step /\ \A l \in 1..(k - 1) : wf[l].step # step
                     IN  wf[k]
  BY DEF ToolOf
<1>7. K \in SUBSET (Nat \ {0}) /\ K # {}
  BY <1>4, <1>5 DEF HasStep
<1>8. PICK m \in K : \A y \in K : m <= y
  BY <1>7, LeastNumber
<1> HIDE DEF f
<1>9. m \in DOMAIN wf /\ wf[m].step = step /\ \A l \in 1..(m - 1) : wf[l].step # step
  BY <1>5, <1>8
<1>10. PICK k \in DOMAIN wf : wf[k].step = step /\ ToolOf(step) = wf[k]
  BY <1>6, <1>9
<1>11. wf[k] \in ToolSet(workflows)
  BY <1>4, <1>10 DEF ToolSet
<1> QED
  BY <1>10, <1>11

\* Every error a step ends with is an error.
LEMMA ExposureErrors ==
    /\ \A e \in CallErrors \cup {{"other"}, {"deadline"}, {"canceled"}} : e \in Error \ {NoError}
    /\ Operational({}) \in Error /\ Operational({"other"}) \in Error
    /\ Is(Operational({}), "operational") /\ Is(Operational({"other"}), "operational")
    /\ NoError \in Error /\ ~Is(NoError, "operational")
    /\ ~Is({"other"}, "operational") /\ ~Is({"other"}, "deadline") /\ ~Is(NoError, "deadline")
BY DEF CallErrors, Error, NoError, Identity, Operational, Is

\* What an audit has accounted for stays so.
LEMMA StaysAccounted ==
    ASSUME ExposureTypeOK, UNCHANGED <<inputs, workflows>>,
           \A b \in BaseRefs : given[b] \subseteq given'[b],
           skipped \subseteq skipped', violations \subseteq violations'
    PROVE  /\ \A t \in ToolSet(workflows) : Looked(t) => Looked(t)'
           /\ \A s : Accounted(s) => Accounted(s)'
           /\ \A p : Exposed(p)' = Exposed(p)
<1>1. \A p : Exposed(p)' = Exposed(p)
  BY DEF Exposed, ScanEnv, LooksLikeSecret, inputs
<1>2. ASSUME NEW t \in ToolSet(workflows), Looked(t)
      PROVE  Looked(t)'
  BY <1>1, <1>2, ExposureTypes DEF Looked
<1>3. ToolSet(workflows)' = ToolSet(workflows)
  BY DEF ToolSet
<1> QED
  BY <1>1, <1>2, <1>3 DEF Accounted

\* The command starts with nothing done.
LEMMA ExposureInvInit ==
    ASSUME ExposureInit
    PROVE  ExposureInv
<1> USE DEF ExposureInit
<1>1. ToolSet(workflows) = {} /\ todo \in Seq(Seq(ToolSet(workflows)))
  BY ToolSetSmall, EmptySeq
<1>2. ExposureTypeOK
  BY <1>1, ExposureErrors DEF ExposureTypeOK
<1>3. Audit <=> ~Scope
  BY <1>2, ExposureTypes
<1> QED
  BY <1>1, <1>2, <1>3
     DEF ExposureInv, Cached, Justified, Beginning, Nothing, AuditLoop, ScopeLoop, Kept, Ended

\* The command gives up, or reports: the error says what was done.
LEMMA ExposureFailStep ==
    ASSUME ExposureInv, NEW e \in Error, Fail(e), stage \notin {"classify", "exited"}, Verdict',
           UNCHANGED <<inputs, env, ctx, workflows, todo, drift, violations, exit, live>>,
           cached' \in [BaseRefs -> {{}} \cup {{p} : p \in Profile}], Cached',
           given' \in [BaseRefs -> SUBSET Profile],
           \A b \in BaseRefs : given[b] \subseteq given'[b],
           seen' \subseteq {t.step : t \in ToolSet(workflows)}, skipped' = skipped
    PROVE  ExposureInv'
<1>1. ToolSet(workflows)' = ToolSet(workflows) /\ ToolSet(todo)' = ToolSet(todo)
  BY DEF ToolSet
<1>2. UNCHANGED <<args, repo, baseline, env0>>
  BY DEF inputs
<1>3. ExposureTypeOK'
  BY <1>1, <1>2 DEF ExposureInv, ExposureTypeOK, Fail, Audit
<1>4. \A p : Exposed(p)' = Exposed(p)
  BY <1>2 DEF Exposed, ScanEnv, LooksLikeSecret
<1>5. Justified'
  <2>1. \A t \in ToolSet(workflows) : BaseRef(t.tool) \in BaseRefs
    BY ExposureTypes DEF ExposureInv
  <2> QED
    BY <1>1, <1>4, <2>1 DEF ExposureInv, Justified
<1>6. stage' = "classify" /\ err' = e
  BY DEF Fail
<1>7. Beginning' /\ AuditLoop' /\ ScopeLoop'
  BY <1>6 DEF Beginning, AuditLoop, ScopeLoop
<1>8. Kept' /\ Ended'
  BY <1>1, <1>2, <1>6 DEF ExposureInv, Kept, Reported, Scope, Ended
<1> QED
  BY <1>3, <1>5, <1>7, <1>8 DEF ExposureInv

\* The context ends.
LEMMA ContextEndsStep ==
    ASSUME ExposureInv, ExposureContextEnds
    PROVE  ExposureInv'
<1> USE DEF ExposureContextEnds
<1>1. UNCHANGED <<args, repo, baseline, env0>> /\ ToolSet(workflows)' = ToolSet(workflows)
      /\ ToolSet(todo)' = ToolSet(todo)
  BY DEF inputs, ToolSet
<1>2. ExposureTypeOK'
  BY <1>1 DEF ExposureInv, ExposureTypeOK, Audit
<1>3. \A p : Exposed(p)' = Exposed(p)
  BY <1>1 DEF Exposed, ScanEnv, LooksLikeSecret
<1>4. \A t : Looked(t)' <=> Looked(t)
  BY <1>3 DEF Looked
<1>5. Cached' /\ Justified' /\ Beginning'
  BY <1>1, <1>3 DEF ExposureInv, Cached, Justified, Beginning, Nothing, Audit, Scope
<1>6. \A s : Accounted(s)' <=> Accounted(s)
  BY <1>1, <1>4 DEF Accounted
<1>7. AuditLoop' /\ ScopeLoop'
  BY <1>1, <1>4, <1>6
     DEF ExposureInv, AuditLoop, ScopeLoop, Compared, Nothing, Audit, Scope
<1>8. Kept'
  BY <1>1 DEF ExposureInv, Kept, Reported, Scope
<1>9. Verdict' <=> Verdict
  BY <1>1, <1>4, <1>6
     DEF Verdict, Nothing, Broken, Compared, ToClear, AuditVerdict, Audit, Scope, Is
<1>10. Ended'
  BY <1>9 DEF ExposureInv, Ended
<1> QED
  BY <1>2, <1>5, <1>7, <1>8, <1>10 DEF ExposureInv

\* Before any profile is asked for, nothing was found: whatever ends the
\* command there reports no finding of its own.
LEMMA EarlyFailStep ==
    ASSUME ExposureInv, \/ ParseFails \/ ResolveFails \/ RejectBaseline \/ StepUnknown
    PROVE  ExposureInv'
<1> DEFINE ends(e) == /\ e \in Error \ {NoError}
                      /\ Fail(e) /\ stage \in {"parse", "resolve", "baseline", "find"}
                      /\ UNCHANGED <<inputs, env, ctx, workflows, todo, seen,
                                   cached, drift, skipped,
                                     violations, exit, live, given>>
<1>1. \E e \in Error : ends(e)
  <2>1. ctx \in {"live", "deadline", "interrupted"}
    BY DEF ExposureInv, ExposureTypeOK
  <2>2. ctx # "live" => ContextErr(ctx) \in {{"deadline"}, {"canceled"}}
    BY <2>1 DEF ContextErr
  <2>3. CASE ResolveFails
    BY <2>2, <2>3, ExposureErrors DEF ResolveFails
  <2>4. CASE ParseFails \/ RejectBaseline \/ StepUnknown
    BY <2>4, ExposureErrors DEF ParseFails, RejectBaseline, StepUnknown
  <2> QED
    BY <2>3, <2>4
<1>2. PICK e \in Error : ends(e)
  BY <1>1
<1>3. Nothing' /\ Verdict'
  BY <1>2 DEF ExposureInv, Beginning, Nothing, Verdict, Fail
<1>4. /\ seen' \subseteq {t.step : t \in ToolSet(workflows)}
      /\ given' \in [BaseRefs -> SUBSET Profile]
      /\ cached' \in [BaseRefs -> {{}} \cup {{p} : p \in Profile}] /\ Cached'
  BY <1>2 DEF ExposureInv, ExposureTypeOK, Cached
<1> QED
  BY <1>2, <1>3, <1>4, ExposureFailStep

\* The files are parsed, and the tools of audit resolved.
LEMMA ParseStep ==
    ASSUME ExposureInv, ParseFiles \/ ResolveTools
    PROVE  ExposureInv'
<1>1. /\ UNCHANGED <<args, repo, baseline, env0, env, todo, seen, cached, drift, violations, err,
                     exit, live, given>>
      /\ ctx' = ctx
  BY DEF ParseFiles, ResolveTools, inputs
<1>2. /\ ExposureTypeOK /\ Nothing /\ seen = {} /\ todo = <<>>
      /\ stage' \in {"resolve", "find", "baseline"} /\ exit = {} /\ env = env0
  BY DEF ExposureInv, Beginning, Kept, Reported, Nothing, Ended, ParseFiles, ResolveTools,
         ExposureTypeOK
<1>3. (workflows' = <<>> \/ workflows' \in Parsings(repo.files))
      /\ todo' \in Seq(Seq(ToolSet(workflows')))
  BY <1>1, <1>2, EmptySeq DEF ParseFiles, ResolveTools, ExposureTypeOK
<1>4. /\ skipped' \subseteq skipped \cup {<<"workflows">>}
      /\ stage' \in {"resolve", "baseline"} =>
           Audit /\ (repo.files = <<>> => <<"workflows">> \in skipped')
      /\ stage' = "find" => Scope
  BY <1>2, ExposureTypes DEF ExposureInv, Beginning, ParseFiles, ResolveTools, Skip
<1>5. ExposureTypeOK'
  BY <1>1, <1>2, <1>3, <1>4 DEF ExposureTypeOK, Audit, Nothing
<1>6. Cached' /\ Justified'
  BY <1>1, <1>2 DEF ExposureInv, Cached, Justified, Nothing
<1>7. Beginning' /\ AuditLoop' /\ ScopeLoop'
  BY <1>1, <1>2, <1>4 DEF Beginning, Nothing, AuditLoop, ScopeLoop, Audit, Scope
<1>8. Kept' /\ Ended'
  BY <1>1, <1>2 DEF Kept, Ended
<1> QED
  BY <1>5, <1>6, <1>7, <1>8 DEF ExposureInv

\* audit compares its baseline, if there is one, and turns to all tools.
LEMMA BaselineStep ==
    ASSUME ExposureInv, NoBaseline \/ DetectDrift
    PROVE  ExposureInv'
<1>1. /\ UNCHANGED <<args, repo, baseline, env0, env, workflows, seen, cached, violations, err,
                     exit, given>>
      /\ ctx' = ctx /\ stage = "baseline" /\ stage' = "profiles" /\ todo' = workflows
  BY DEF NoBaseline, DetectDrift, ToProfiles, inputs
<1>2. /\ ExposureTypeOK /\ Nothing /\ seen = {} /\ Audit
      /\ repo.files = <<>> => <<"workflows">> \in skipped
      /\ exit = {} /\ env = env0
  BY <1>1 DEF ExposureInv, Beginning, Kept, Reported, Nothing, Ended, ExposureTypeOK
<1>3. ToolSet(workflows)' = ToolSet(workflows) /\ ToolSet(todo)' = ToolSet(workflows)
  BY <1>1 DEF ToolSet
<1>4. /\ live' \in [Entry -> {"unasked", "same", "differs", "unknown"}] /\ drift' \subseteq Entry
      /\ skipped' \subseteq skipped \cup {<<"baseline">>} \cup ({"entry"} \X Entry)
      /\ skipped \subseteq skipped'
      /\ \/ <<"baseline">> \in skipped' /\ drift' = {}
         \/ /\ baseline = "trusted" /\ drift' = {e \in Entry : live'[e] = "differs"}
            /\ \A e \in Entry : live'[e] = "same" \/ live'[e] = "differs"
                     \/ <<"entry", e>> \in skipped'
  <2>1. CASE NoBaseline
    BY <1>2, <2>1 DEF NoBaseline, Skip, ExposureTypeOK, Nothing
  <2>2. CASE DetectDrift
    BY <1>2, <2>2 DEF DetectDrift, Skip, ExposureTypeOK
  <2> QED
    BY <2>1, <2>2
<1>5. todo' \in Seq(Seq(ToolSet(workflows)))
  BY <1>1, <1>2, ExposureTypes
<1>6. ExposureTypeOK'
  BY <1>1, <1>2, <1>3, <1>4, <1>5 DEF ExposureTypeOK, Audit
<1>7. Cached' /\ Justified' /\ Beginning'
  BY <1>1, <1>2 DEF ExposureInv, Cached, Justified, Nothing, Beginning
<1>8. AuditLoop'
  BY <1>1, <1>2, <1>3, <1>4 DEF AuditLoop, Compared
<1>9. ScopeLoop'
  BY <1>1, <1>2, ExposureTypes DEF ScopeLoop, Audit, Scope
<1>10. Kept' /\ Ended'
  BY <1>1, <1>2 DEF Kept, Ended
<1> QED
  BY <1>6, <1>7, <1>8, <1>9, <1>10 DEF ExposureInv

\* scope has found its step, and turns to its tool.
LEMMA FindStepStep ==
    ASSUME ExposureInv, FindStep
    PROVE  ExposureInv'
<1> DEFINE t == ToolOf(args.step)
<1>1. /\ UNCHANGED <<args, repo, baseline, env0, env, workflows, seen, cached, drift, skipped,
                     violations, err, exit, live, given>>
      /\ ctx' = ctx /\ stage = "find" /\ stage' = "profiles" /\ todo' = <<<<t>>>>
  BY DEF FindStep, inputs
<1>2. /\ ExposureTypeOK /\ Nothing /\ seen = {} /\ Scope /\ exit = {} /\ env = env0
  BY <1>1 DEF ExposureInv, Beginning, Kept, Reported, Nothing, Ended, ExposureTypeOK
<1>3. t \in ToolSet(workflows) /\ t.step = args.step
  BY <1>2, FoundTool DEF FindStep
<1> HIDE DEF t
<1>4. ToolSet(workflows)' = ToolSet(workflows)
  BY <1>1 DEF ToolSet
<1>5. <<<<t>>>> \in Seq(Seq(ToolSet(workflows)))
  BY <1>3
<1>6. ExposureTypeOK'
  BY <1>1, <1>2, <1>4, <1>5 DEF ExposureTypeOK, Audit
<1>7. Cached' /\ Justified' /\ Beginning'
  BY <1>1, <1>2 DEF ExposureInv, Cached, Justified, Nothing, Beginning
<1>8. AuditLoop'
  BY <1>1, <1>2, ExposureTypes DEF AuditLoop, Audit, Scope
<1>9. ScopeLoop'
  BY <1>1, <1>2, <1>3, <1>4 DEF ScopeLoop, Nothing
<1>10. Kept' /\ Ended'
  BY <1>1, <1>2 DEF Kept, Ended
<1> QED
  BY <1>6, <1>7, <1>8, <1>9, <1>10 DEF ExposureInv

\* A file without tools left is passed.
LEMMA NextFileStep ==
    ASSUME ExposureInv, NextFile
    PROVE  ExposureInv'
<1>1. /\ UNCHANGED <<args, repo, baseline, env0, env, workflows, seen, cached, drift, skipped,
                     violations, err, exit, live, given>>
      /\ ctx' = ctx /\ stage = "profiles" /\ stage' = "profiles"
      /\ todo # <<>> /\ todo[1] = <<>> /\ todo' = Tail(todo)
  BY DEF NextFile, inputs
<1>2. ToolSet(workflows)' = ToolSet(workflows) /\ ExposureTypeOK
  BY <1>1 DEF ToolSet, ExposureInv
<1>3. todo' \in Seq(Seq(ToolSet(workflows))) /\ ToolSet(todo)' = ToolSet(todo)
  <2>1. todo \in Seq(Seq(ToolSet(workflows)))
    BY <1>2 DEF ExposureTypeOK
  <2>2. ToolSet(todo)' = ToolSet(todo')
    BY DEF ToolSet
  <2> QED
    BY <1>1, <2>1, <2>2, FileDone
<1>4. ExposureTypeOK'
  BY <1>1, <1>2, <1>3 DEF ExposureTypeOK, Audit
<1>5. \A p : Exposed(p)' = Exposed(p)
  BY <1>1 DEF Exposed, ScanEnv, LooksLikeSecret
<1>6. (\A u : Looked(u)' <=> Looked(u)) /\ \A s : Accounted(s)' <=> Accounted(s)
  BY <1>1, <1>2, <1>5 DEF Looked, Accounted
<1>7. Cached' /\ Justified' /\ Beginning'
  BY <1>1, <1>2, <1>5 DEF ExposureInv, Cached, Justified, Nothing, Beginning
<1>8. AuditLoop'
  BY <1>1, <1>2, <1>3, <1>6 DEF ExposureInv, AuditLoop, Compared, Audit
<1>9. ScopeLoop'
  <2>1. \A t : todo # <<<<t>>>>
    BY <1>1, ToolSetSmall
  <2> QED
    BY <1>1, <1>2, <1>3, <1>6, <2>1 DEF ExposureInv, ScopeLoop, Scope
<1>10. Kept' /\ Ended'
  BY <1>1, <1>3 DEF ExposureInv, Kept, Reported, Scope, Ended
<1> QED
  BY <1>4, <1>7, <1>8, <1>9, <1>10 DEF ExposureInv

\* The tool under examination is one of the tools; and scope, which has only
\* that one, has nothing behind it.
LEMMA CurrentTool ==
    ASSUME ExposureInv, NextTool
    PROVE  /\ Current \in ToolSet(todo) /\ Current \in ToolSet(workflows)
           /\ BaseRef(Current.tool) \in BaseRefs
           /\ env = env0 /\ exit = {} /\ stage = "profiles"
           /\ Scope => todo = <<<<Current>>>> /\ Current.step = args.step /\ Nothing
<1>1. ExposureTypeOK /\ todo \in Seq(Seq(ToolSet(workflows))) /\ todo # <<>> /\ todo[1] # <<>>
      /\ stage = "profiles"
  BY DEF ExposureInv, ExposureTypeOK, NextTool
<1>2. Current \in ToolSet(todo) /\ ToolSet(todo) \subseteq ToolSet(workflows)
  BY <1>1, ToolDone DEF Current
<1>3. BaseRef(Current.tool) \in BaseRefs
  BY <1>1, <1>2, ExposureTypes
<1>4. env = env0 /\ exit = {}
  BY <1>1, <1>2 DEF ExposureInv, Kept, Ended
<1>5. ASSUME Scope
      PROVE  todo = <<<<Current>>>> /\ Current.step = args.step /\ Nothing
  <2>1. PICK t \in ToolSet(workflows) : t.step = args.step /\ todo = <<<<t>>>> /\ Nothing
    BY <1>1, <1>2, <1>5 DEF ExposureInv, ScopeLoop
  <2>2. Current = t
    BY <2>1, ToolSetSmall DEF Current
  <2> QED
    BY <2>1, <2>2
<1> QED
  BY <1>1, <1>2, <1>3, <1>4, <1>5

\* A tool is done with once it is accounted for.
LEMMA PassedStep ==
    ASSUME ExposureInv, NextTool, Advance, NEW t, t = Current,
           UNCHANGED <<inputs, env, ctx, stage, workflows, drift, err, exit, live>>,
           cached' \in [BaseRefs -> {{}} \cup {{p} : p \in Profile}], Cached',
           given' \in [BaseRefs -> SUBSET Profile],
           \A b \in BaseRefs : given[b] \subseteq given'[b],
           skipped \subseteq skipped', skipped' \subseteq skipped \cup ({"profile"} \X BaseRefs),
           violations \subseteq violations', Justified',
           violations' \subseteq [step : {u.step : u \in ToolSet(workflows)}, secret : EnvName],
           seen' \in {seen, seen \cup {t.step}}, t.step \in seen',
           Audit => t.step \in seen \/ Accounted(t.step)',
           Scope => Looked(t)'
    PROVE  ExposureInv'
<1>1. /\ UNCHANGED <<args, repo, baseline, env0>> /\ ToolSet(workflows)' = ToolSet(workflows)
      /\ ExposureTypeOK /\ (Audit' <=> Audit) /\ (Scope' <=> Scope)
  BY DEF inputs, ToolSet, ExposureInv, Audit, Scope
<1>2. /\ t \in ToolSet(todo) /\ t \in ToolSet(workflows)
      /\ env = env0 /\ exit = {} /\ stage = "profiles"
      /\ Scope => todo = <<<<t>>>> /\ t.step = args.step
  BY CurrentTool
<1>3. /\ todo' \in Seq(Seq(ToolSet(workflows)))
      /\ ToolSet(todo) = ToolSet(todo') \cup {t} /\ ToolSet(todo)' = ToolSet(todo')
  <2>1. todo \in Seq(Seq(ToolSet(workflows))) /\ todo # <<>> /\ todo[1] # <<>>
    BY <1>1 DEF ExposureTypeOK, NextTool
  <2>2. ToolSet(todo)' = ToolSet(todo')
    BY DEF ToolSet
  <2> QED
    BY <2>1, <2>2, ToolDone DEF Advance, Current
<1>4. ExposureTypeOK'
  <2>1. seen' \subseteq {u.step : u \in ToolSet(workflows)}
    BY <1>1, <1>2 DEF ExposureTypeOK
  <2> QED
    BY <1>1, <1>2, <1>3, <2>1 DEF ExposureTypeOK
<1>5. /\ \A u \in ToolSet(workflows) : Looked(u) => Looked(u)'
      /\ \A s : Accounted(s) => Accounted(s)'
  BY <1>1, StaysAccounted
<1>6. Beginning'
  BY <1>2 DEF Beginning
<1>7. AuditLoop'
  <2> SUFFICES ASSUME Audit
               PROVE  /\ Compared'
                      /\ \A u \in ToolSet(workflows) : u \in ToolSet(todo)' \/ u.step \in seen'
                      /\ \A s \in seen' : Accounted(s)'
    BY <1>1 DEF AuditLoop
  <2>1. /\ Compared
        /\ \A u \in ToolSet(workflows) : u \in ToolSet(todo) \/ u.step \in seen
        /\ \A s \in seen : Accounted(s)
    BY <1>2 DEF ExposureInv, AuditLoop
  <2>2. Compared'
    BY <1>1, <2>1 DEF Compared
  <2>3. \A u \in ToolSet(workflows) : u \in ToolSet(todo)' \/ u.step \in seen'
    BY <1>3, <2>1
  <2>4. \A s \in seen' : Accounted(s)'
    BY <1>5, <2>1
  <2> QED
    BY <2>2, <2>3, <2>4
<1>8. ScopeLoop'
  <2> SUFFICES ASSUME Scope
               PROVE  \E u \in ToolSet(workflows) :
                        u.step = args.step /\ ToolSet(todo)' = {} /\ Looked(u)'
    BY <1>1 DEF ScopeLoop
  <2>1. ToolSet(todo') = {}
    BY <1>2, ToolSetSmall DEF Advance
  <2> QED
    BY <1>2, <1>3, <2>1
<1>9. Kept' /\ Ended'
  BY <1>1, <1>2 DEF Kept, Reported, Ended
<1> QED
  BY <1>4, <1>6, <1>7, <1>8, <1>9 DEF ExposureInv

\* A profile is held against the environment, unless its patterns are broken.
LEMMA ExamineStep ==
    ASSUME ExposureInv, NextTool, NEW p \in Profile, Examine(p),
           UNCHANGED <<inputs, env, ctx, workflows, drift, skipped, exit, live>>,
           cached' \in [BaseRefs -> {{}} \cup {{q} : q \in Profile}], Cached',
           given' \in [BaseRefs -> SUBSET Profile],
           \A b \in BaseRefs : given[b] \subseteq given'[b],
           p \in given'[BaseRef(Current.tool)]
    PROVE  ExposureInv'
<1>1. PICK t : t = Current
  OBVIOUS
<1>2. /\ t \in ToolSet(workflows) /\ BaseRef(t.tool) \in BaseRefs
      /\ env = env0 /\ stage = "profiles"
      /\ ToolSet(workflows)' = ToolSet(workflows) /\ ExposureTypeOK /\ (Audit' <=> Audit)
  BY <1>1, CurrentTool DEF ToolSet, ExposureInv, inputs, Audit
<1>3. seen' = seen \cup {t.step} /\ p \in given'[BaseRef(t.tool)]
  BY <1>1 DEF Examine, SeenKey
<1>4. \A q : Exposed(q)' = Exposed(q)
  BY DEF Exposed, ScanEnv, LooksLikeSecret, inputs
<1>5. CASE Compiles(p)
  <2>1. /\ Advance /\ UNCHANGED <<stage, err>> /\ ~p.broken
        /\ violations' = violations \cup {[step |-> t.step, secret |-> k] : k \in Exposed(p)}
    BY <1>1, <1>2, <1>5 DEF Examine, Compiles, Exposed
  <2>2. Exposed(p) \subseteq EnvName
    BY <1>2, ExposureAssumption DEF Exposed, ScanEnv, ExposureTypeOK
  <2>3. violations' \subseteq [step : {u.step : u \in ToolSet(workflows)}, secret : EnvName]
    BY <1>2, <2>1, <2>2 DEF ExposureTypeOK
  <2>4. Looked(t)'
    BY <1>3, <1>4, <2>1 DEF Looked
  <2>5. Justified'
    <3> SUFFICES ASSUME NEW v \in violations'
                 PROVE  \E u \in ToolSet(workflows) :
                          u.step = v.step /\ \E q \in given'[BaseRef(u.tool)] :
                               v.secret \in Exposed(q)
      BY <1>2, <1>4 DEF Justified
    <3>1. CASE v \in violations
      <4>1. \A u \in ToolSet(workflows) : BaseRef(u.tool) \in BaseRefs
        BY <1>2, ExposureTypes
      <4> QED
        BY <3>1, <4>1 DEF ExposureInv, Justified
    <3>2. CASE v \in {[step |-> t.step, secret |-> k] : k \in Exposed(p)}
      BY <1>2, <1>3, <3>2
    <3> QED
      BY <2>1, <3>1, <3>2
  <2>6. Accounted(t.step)'
    BY <1>2, <2>4 DEF Accounted
  <2>7. violations \subseteq violations'
    BY <2>1
  <2> QED
    BY <1>1, <1>3, <2>1, <2>3, <2>4, <2>5, <2>6, <2>7, PassedStep
<1>6. CASE ~Compiles(p)
  <2>1. /\ Fail(Operational({"other"})) /\ UNCHANGED <<violations, todo>> /\ p.broken
    BY <1>6 DEF Examine, Compiles
  <2>2. Verdict'
    BY <1>2, <1>3, <2>1, ExposureErrors DEF Verdict, Broken, Fail, BaseRefs
  <2>3. seen' \subseteq {u.step : u \in ToolSet(workflows)}
    BY <1>2, <1>3 DEF ExposureTypeOK
  <2> QED
    BY <1>2, <2>1, <2>2, <2>3, ExposureErrors, ExposureFailStep
<1> QED
  BY <1>5, <1>6

\* The profile is in the client's cache, or the platform gives it.
LEMMA ProfileStep ==
    ASSUME ExposureInv, ProfileCached \/ ProfileGiven
    PROVE  ExposureInv'
<1>1. PICK b : b = BaseRef(Current.tool)
  OBVIOUS
<1>2. NextTool /\ ExposureTypeOK /\ Cached
  BY DEF ProfileCached, ProfileGiven, ExposureInv
<1>3. b \in BaseRefs
  BY <1>1, <1>2, CurrentTool
<1>4. CASE ProfileCached
  <2>1. PICK p \in cached[b] : Examine(p)
    BY <1>1, <1>4 DEF ProfileCached, ProfileKey
  <2>2. p \in Profile /\ p \in given[b]
    BY <1>2, <1>3, <2>1 DEF ExposureTypeOK, Cached
  <2>3. /\ UNCHANGED <<inputs, env, ctx, workflows, cached, drift, skipped, exit, live, given>>
    BY <1>4 DEF ProfileCached
  <2>4. Cached'
    BY <1>2, <2>3 DEF Cached
  <2> QED
    BY <1>1, <1>2, <2>1, <2>2, <2>3, <2>4, ExamineStep DEF ExposureTypeOK
<1>5. CASE ProfileGiven
  <2>1. PICK p \in Profile : /\ Examine(p)
                             /\ cached' = [cached EXCEPT ![b] = {p}]
                             /\ given' = [given EXCEPT ![b] = @ \cup {p}]
    BY <1>1, <1>5 DEF ProfileGiven, ProfileKey
  <2>2. /\ cached' \in [BaseRefs -> {{}} \cup {{q} : q \in Profile}]
        /\ given' \in [BaseRefs -> SUBSET Profile]
        /\ \A c \in BaseRefs : given[c] \subseteq given'[c]
        /\ p \in given'[b]
    BY <1>2, <1>3, <2>1 DEF ExposureTypeOK
  <2>3. Cached'
    BY <1>2, <1>3, <2>1 DEF ExposureTypeOK, Cached
  <2>4. UNCHANGED <<inputs, env, ctx, workflows, drift, skipped, exit, live>>
    BY <1>5 DEF ProfileGiven
  <2> QED
    BY <1>1, <1>2, <2>1, <2>2, <2>3, <2>4, ExamineStep
<1> QED
  BY <1>4, <1>5

\* There is no profile: audit notes it and goes on, scope gives up.
LEMMA WithoutStep ==
    ASSUME ExposureInv, ProfileFails \/ ProfileCut
    PROVE  ExposureInv'
<1>1. PICK t : t = Current
  OBVIOUS
<1>2. /\ NextTool /\ ExposureTypeOK
      /\ UNCHANGED <<inputs, env, ctx, workflows, cached, drift, violations, exit, live, given>>
  BY DEF ProfileFails, ProfileCut, ExposureInv
<1>3. /\ t \in ToolSet(workflows) /\ BaseRef(t.tool) \in BaseRefs /\ stage = "profiles"
      /\ ToolSet(workflows)' = ToolSet(workflows) /\ Cached' /\ Justified'
      /\ Scope => Nothing
  <2>1. \A q : Exposed(q)' = Exposed(q)
    BY <1>2 DEF Exposed, ScanEnv, LooksLikeSecret, inputs
  <2>2. ToolSet(workflows)' = ToolSet(workflows)
    BY <1>2 DEF ToolSet
  <2> QED
    BY <1>1, <1>2, <2>1, <2>2, CurrentTool DEF ExposureInv, Cached, Justified
<1>4. PICK e \in Error \ {NoError} : WithoutProfile(e)
  <2>1. CASE ProfileFails
    BY <2>1, ExposureErrors DEF ProfileFails
  <2>2. CASE ProfileCut
    <3>1. ContextErr(ctx) \in {{"deadline"}, {"canceled"}}
      BY <1>2, <2>2 DEF ProfileCut, ContextErr, ExposureTypeOK
    <3> QED
      BY <2>2, <3>1, ExposureErrors DEF ProfileCut
  <2> QED
    BY <2>1, <2>2
<1>5. CASE Audit
  <2>1. /\ skipped' = skipped \cup {<<"profile", BaseRef(t.tool)>>}
        /\ seen' = seen \cup {t.step} /\ Advance /\ UNCHANGED <<stage, err>>
    BY <1>1, <1>4, <1>5 DEF WithoutProfile, PassOver, Skip, Noted, SeenKey
  <2>2. Accounted(t.step)'
    BY <1>3, <2>1 DEF Accounted
  <2>3. skipped' \subseteq skipped \cup ({"profile"} \X BaseRefs) /\ skipped \subseteq skipped'
    BY <1>3, <2>1
  <2>4. violations' \subseteq [step : {u.step : u \in ToolSet(workflows)}, secret : EnvName]
    BY <1>2 DEF ExposureTypeOK
  <2>5. ~Scope /\ t.step \in seen'
    BY <1>2, <1>5, <2>1, ExposureTypes
  <2> QED
    BY <1>1, <1>2, <1>3, <2>1, <2>2, <2>3, <2>4, <2>5, PassedStep DEF ExposureTypeOK
<1>6. CASE ~Audit
  <2>1. Fail(e) /\ UNCHANGED <<todo, seen, skipped>> /\ Nothing
    BY <1>2, <1>3, <1>4, <1>6, ExposureTypes DEF WithoutProfile
  <2>2. Verdict'
    BY <1>2, <1>4, <2>1 DEF Verdict, Nothing, Fail
  <2>3. seen' \subseteq {u.step : u \in ToolSet(workflows)}
    BY <1>2, <2>1 DEF ExposureTypeOK
  <2> QED
    BY <1>2, <1>3, <1>4, <2>1, <2>2, <2>3, ExposureFailStep DEF ExposureTypeOK
<1> QED
  BY <1>5, <1>6

\* A tool whose step was examined is passed.
LEMMA SameStepStep ==
    ASSUME ExposureInv, SameStep
    PROVE  ExposureInv'
<1>1. PICK t : t = Current
  OBVIOUS
<1>2. /\ NextTool /\ Advance /\ ExposureTypeOK /\ Audit /\ t.step \in seen
      /\ UNCHANGED <<inputs, env, ctx, stage, workflows, seen, cached, drift, skipped,
                     violations, err, exit, live, given>>
  BY <1>1 DEF SameStep, Fresh, SeenKey, ExposureInv
<1>3. Cached' /\ Justified'
  <2>1. \A q : Exposed(q)' = Exposed(q)
    BY <1>2 DEF Exposed, ScanEnv, LooksLikeSecret, inputs
  <2>2. ToolSet(workflows)' = ToolSet(workflows)
    BY <1>2 DEF ToolSet
  <2> QED
    BY <1>2, <2>1, <2>2 DEF ExposureInv, Cached, Justified
<1>4. violations' \subseteq [step : {u.step : u \in ToolSet(workflows)}, secret : EnvName]
  BY <1>2 DEF ExposureTypeOK
<1>5. ~Scope
  BY <1>2, ExposureTypes
<1> QED
  BY <1>1, <1>2, <1>3, <1>4, <1>5, PassedStep DEF ExposureTypeOK

\* The report, and what --sanitize could not clear.
LEMMA ReportStep ==
    ASSUME ExposureInv, ReportAudit \/ ReportScope \/ ClearFails
    PROVE  ExposureInv'
<1>1. /\ ExposureTypeOK /\ stage = "profiles" /\ todo = <<>> /\ stage' = "classify"
      /\ UNCHANGED <<inputs, env, ctx, workflows, todo, seen, cached, drift, skipped, violations,
                     exit, live, given>>
  BY DEF ExposureInv, ReportAudit, ReportScope, ClearFails, Fail
<1>2. UNCHANGED <<args, repo, baseline, env0>> /\ (Audit' <=> Audit) /\ (Scope' <=> Scope)
  BY <1>1 DEF inputs, Audit, Scope
<1>3. ToolSet(workflows)' = ToolSet(workflows) /\ ToolSet(todo) = {} /\ Cached'
  BY <1>1, ToolSetSmall DEF ToolSet, ExposureInv, Cached
<1>4. \A q : Exposed(q)' = Exposed(q)
  BY <1>2 DEF Exposed, ScanEnv, LooksLikeSecret
<1>5. /\ \A t \in ToolSet(workflows) : Looked(t)' <=> Looked(t)
      /\ \A s : Accounted(s)' <=> Accounted(s)
  BY <1>1, <1>3, <1>4 DEF Looked, Accounted
<1>6. /\ seen' \subseteq {u.step : u \in ToolSet(workflows)}
      /\ cached' \in [BaseRefs -> {{}} \cup {{q} : q \in Profile}]
      /\ given' \in [BaseRefs -> SUBSET Profile]
      /\ \A b \in BaseRefs : given[b] \subseteq given'[b]
  BY <1>1 DEF ExposureTypeOK
<1>7. CASE ReportAudit
  <2>1. /\ Audit /\ Compared
        /\ \A t \in ToolSet(workflows) : Accounted(t.step)
    BY <1>1, <1>3, <1>7 DEF ReportAudit, ExposureInv, AuditLoop
  <2>2. Compared'
    BY <1>1, <1>2, <2>1 DEF Compared
  <2>3. err' = AuditVerdict(drift, violations, skipped) /\ AuditVerdict(drift, violations, skipped)'
          = AuditVerdict(drift, violations, skipped)
    BY <1>1, <1>7 DEF ReportAudit, Fail, AuditVerdict
  <2>4. Verdict'
    BY <1>2, <1>3, <1>5, <2>1, <2>2, <2>3 DEF Verdict
  <2>5. AuditVerdict(drift, violations, skipped) \in Error
    BY ExposureErrors DEF AuditVerdict
  <2> QED
    BY <1>1, <1>3, <1>6, <1>7, <2>4, <2>5, ExposureFailStep DEF ReportAudit
<1>8. CASE ReportScope
  <2> DEFINE e == IF violations # {} THEN {"other"} ELSE NoError
  <2>1. Scope /\ ToClear = {} /\ Fail(e)
    BY <1>8 DEF ReportScope
  <2>2. PICK t \in ToolSet(workflows) : t.step = args.step /\ Looked(t)
    <3>1. \A t : todo # <<<<t>>>>
      BY <1>1
    <3> QED
      BY <1>1, <2>1, <3>1 DEF ExposureInv, ScopeLoop
  <2>3. ToClear' = ToClear /\ err' = IF violations' # {} THEN {"other"} ELSE NoError
    BY <1>1, <1>2, <2>1 DEF ToClear, Fail
  <2>4. Verdict'
    BY <1>2, <1>3, <1>5, <2>1, <2>2, <2>3 DEF Verdict
  <2>5. e \in Error
    BY ExposureErrors
  <2> QED
    BY <1>1, <1>3, <1>6, <2>1, <2>4, <2>5, ExposureFailStep
<1>9. CASE ClearFails
  <2>1. ~Audit /\ Fail(Operational({"other"}))
    BY <1>1, <1>9, ExposureTypes DEF ClearFails
  <2>2. Verdict'
    BY <1>2, <2>1, ExposureErrors DEF Verdict, Fail
  <2> QED
    BY <1>1, <1>3, <1>6, <2>1, <2>2, ExposureErrors, ExposureFailStep
<1> QED
  BY <1>7, <1>8, <1>9

\* One reported secret is unset.
LEMMA ClearStep ==
    ASSUME ExposureInv, ClearSecret
    PROVE  ExposureInv'
<1>1. /\ ExposureTypeOK /\ stage = "profiles" /\ todo = <<>> /\ Scope
      /\ UNCHANGED <<args, repo, baseline, env0>>
      /\ UNCHANGED <<ctx, stage, workflows, todo, seen, cached, drift, skipped, violations, err,
                     exit, live, given>>
  BY DEF ExposureInv, ClearSecret, inputs
<1>2. PICK k \in Reported : env' = env \ {k} /\ args.sanitize
  BY DEF ClearSecret, ToClear, Reported
<1>3. /\ ToolSet(workflows)' = ToolSet(workflows) /\ ToolSet(todo)' = {} /\ ToolSet(todo) = {}
      /\ (Audit' <=> Audit) /\ (Scope' <=> Scope) /\ ~Audit
  BY <1>1, ToolSetSmall, ExposureTypes DEF ToolSet, Audit, Scope
<1>4. \A q : Exposed(q)' = Exposed(q)
  BY <1>1 DEF Exposed, ScanEnv, LooksLikeSecret
<1>5. ExposureTypeOK'
  BY <1>1, <1>2, <1>3 DEF ExposureTypeOK
<1>6. Cached' /\ Justified' /\ Beginning' /\ AuditLoop'
  BY <1>1, <1>3, <1>4 DEF ExposureInv, Cached, Justified, Beginning, AuditLoop
<1>7. ScopeLoop'
  <2>1. \A t : todo # <<<<t>>>>
    BY <1>1
  <2>2. PICK t \in ToolSet(workflows) : t.step = args.step /\ Looked(t)
    BY <1>1, <2>1 DEF ExposureInv, ScopeLoop
  <2>3. Looked(t)'
    BY <1>1, <1>4, <2>2 DEF Looked
  <2> QED
    BY <1>1, <1>3, <2>2, <2>3 DEF ScopeLoop
<1>8. Kept'
  BY <1>1, <1>2, <1>3 DEF ExposureInv, Kept, Reported
<1>9. Ended'
  BY <1>1 DEF ExposureInv, Ended
<1> QED
  BY <1>5, <1>6, <1>7, <1>8, <1>9 DEF ExposureInv

\* The error becomes the exit code.  A deadline that has passed, or that an
\* error carries, makes it operational.
LEMMA ClassifyExposureStep ==
    ASSUME ExposureInv, ClassifyExposure
    PROVE  ExposureInv'
<1>1. /\ ExposureTypeOK /\ stage = "classify" /\ stage' = "exited" /\ Verdict
      /\ UNCHANGED <<args, repo, baseline, env0>>
      /\ UNCHANGED <<env, ctx, workflows, todo, seen, cached, drift, skipped,
                      violations, live, given>>
  BY DEF ExposureInv, Ended, ClassifyExposure, inputs
<1>2. /\ ToolSet(workflows)' = ToolSet(workflows) /\ ToolSet(todo)' = ToolSet(todo)
      /\ (Audit' <=> Audit) /\ (Scope' <=> Scope)
  BY <1>1 DEF ToolSet, Audit, Scope
<1>3. \A q : Exposed(q)' = Exposed(q)
  BY <1>1 DEF Exposed, ScanEnv, LooksLikeSecret
<1>4. /\ \A t : Looked(t)' <=> Looked(t)
      /\ \A s : Accounted(s)' <=> Accounted(s)
  BY <1>1, <1>2, <1>3 DEF Looked, Accounted
<1>5. \/ err' = err
      \/ /\ Audit /\ err' = Operational({}) /\ err # NoError
         /\ ctx = "deadline" \/ Is(err, "deadline")
  <2>1. ctx \in {"live", "interrupted", "deadline"}
    BY <1>1 DEF ExposureTypeOK
  <2>2. Is(ContextErr(ctx), "deadline") => ctx = "deadline"
    BY <2>1 DEF ContextErr, Is, NoError
  <2> QED
    BY <2>2 DEF ClassifyExposure, ClassifyDeadline
<1>6. err' \in Error /\ exit' = {ExitCodeFor(err')}
      /\ ExitCodeFor(err') \in {ExitClean, ExitFinding, ExitOperational}
  BY <1>1, <1>5, ExposureErrors DEF ClassifyExposure, ExposureTypeOK, ExitCodeFor
<1>7. ExposureTypeOK'
  BY <1>1, <1>2, <1>6 DEF ExposureTypeOK
<1>8. Cached' /\ Justified' /\ Beginning' /\ AuditLoop' /\ ScopeLoop' /\ Kept'
  BY <1>1, <1>2, <1>3
     DEF ExposureInv, Cached, Justified, Beginning, AuditLoop, ScopeLoop, Kept, Reported
<1>9. Verdict' \/ (Audit' /\ ctx' = "deadline" /\ Is(err', "operational"))
  <2>1. CASE err' = err
    <3>1. ToClear' = ToClear
           /\ AuditVerdict(drift, violations, skipped)' = AuditVerdict(drift, violations, skipped)
      BY <1>1 DEF ToClear, AuditVerdict
    <3>2. (Nothing' <=> Nothing) /\ (Broken' <=> Broken) /\ (Compared' <=> Compared)
      BY <1>1 DEF Nothing, Broken, Compared
    <3> QED
      BY <1>1, <1>2, <1>4, <2>1, <3>1, <3>2 DEF Verdict
  <2>2. CASE /\ Audit /\ err' = Operational({}) /\ err # NoError
             /\ ctx = "deadline" \/ Is(err, "deadline")
    <3>1. Is(err', "operational") /\ err' # NoError
      BY <2>2, ExposureErrors
    <3>2. CASE ctx = "deadline"
      BY <1>1, <1>2, <2>2, <3>1, <3>2
    <3>3. CASE Is(err, "deadline")
      <4>1. err # AuditVerdict(drift, violations, skipped)
        BY <3>3, ExposureErrors DEF AuditVerdict, Is, Operational
      <4>2. ~Scope
        BY <1>1, <2>2, ExposureTypes
      <4>3. Nothing \/ Broken
        BY <1>1, <2>2, <4>1, <4>2 DEF Verdict
      <4>4. Nothing' \/ Broken'
        BY <1>1, <4>3 DEF Nothing, Broken
      <4> QED
        BY <3>1, <4>4 DEF Verdict
    <3> QED
      BY <2>2, <3>2, <3>3
  <2> QED
    BY <1>5, <2>1, <2>2
<1> QED
  BY <1>1, <1>6, <1>7, <1>8, <1>9 DEF ExposureInv, Ended

\* Nothing that the commands, the platform or the context do breaks the
\* invariant.
LEMMA ExposureInvStep ==
    ASSUME ExposureInv, [ExposureNext \/ ExposureExited]_exposureVars
    PROVE  ExposureInv'
<1>1. CASE UNCHANGED exposureVars
  <2>1. UNCHANGED <<args, repo, baseline, env0, env, ctx, stage, workflows, todo, seen, cached,
                    drift, skipped, violations, err, exit, live, given>>
    BY <1>1 DEF exposureVars, inputs
  <2>2. /\ ToolSet(workflows)' = ToolSet(workflows) /\ ToolSet(todo)' = ToolSet(todo)
        /\ \A q : Exposed(q)' = Exposed(q)
    BY <2>1 DEF ToolSet, Exposed, ScanEnv, LooksLikeSecret
  <2>3. (\A t : Looked(t)' <=> Looked(t)) /\ \A s : Accounted(s)' <=> Accounted(s)
    BY <2>1, <2>2 DEF Looked, Accounted
  <2>4. ExposureTypeOK'
    BY <2>1, <2>2 DEF ExposureInv, ExposureTypeOK, Audit
  <2>5. Cached' /\ Justified' /\ Beginning' /\ Kept'
    BY <2>1, <2>2 DEF ExposureInv, Cached, Justified, Beginning, Nothing,
         Kept, Reported, Audit, Scope
  <2>6. (Nothing' <=> Nothing) /\ (Broken' <=> Broken) /\ (Compared' <=> Compared)
    BY <2>1 DEF Nothing, Broken, Compared
  <2>7. AuditLoop' /\ ScopeLoop'
    BY <2>1, <2>2, <2>3, <2>6 DEF ExposureInv, AuditLoop, ScopeLoop, Audit, Scope
  <2>8. Verdict' <=> Verdict
    BY <2>1, <2>2, <2>3, <2>6 DEF Verdict, ToClear, AuditVerdict, Audit, Scope
  <2>9. Ended'
    BY <2>1, <2>8 DEF ExposureInv, Ended, Audit
  <2> QED
    BY <2>4, <2>5, <2>7, <2>9 DEF ExposureInv
<1>2. CASE ExposureStep
  BY <1>2, EarlyFailStep, ParseStep, BaselineStep, FindStepStep, NextFileStep, SameStepStep,
     ProfileStep, WithoutStep, ReportStep, ClearStep, ClassifyExposureStep DEF ExposureStep
<1>3. CASE ExposurePlatformStep
  BY <1>3, ParseStep, EarlyFailStep, BaselineStep, ProfileStep, WithoutStep
     DEF ExposurePlatformStep
<1> QED
  BY <1>1, <1>2, <1>3, ContextEndsStep DEF ExposureNext, ExposureExited

----------------------------------------------------------------------------
\* The inductive invariant holds of every run of scg audit and scg scope.
THEOREM ExposureInductive == ExposureSpec => []ExposureInv
BY ExposureInvInit, ExposureInvStep, PTL DEF ExposureSpec

\* Every variable of the two commands keeps its type.
THEOREM ExposureTypeCorrect == ExposureSpec => []ExposureTypeOK
<1>1. ExposureInv => ExposureTypeOK
  BY DEF ExposureInv
<1> QED
  BY <1>1, ExposureInductive, PTL

\* What an exit code says of the error, and the error of what was done.
LEMMA ExitSays ==
    ASSUME ExposureInv, exit # {}
    PROVE  /\ exit = {ExitCodeFor(err)}
           /\ exit = {ExitClean} <=> err = NoError
           /\ exit = {ExitFinding} <=> err # NoError /\ ~Is(err, "operational")
           /\ Verdict \/ (Audit /\ ctx = "deadline" /\ Is(err, "operational"))
<1>1. /\ exit = {ExitCodeFor(err)}
      /\ Verdict \/ (Audit /\ ctx = "deadline" /\ Is(err, "operational"))
  BY DEF ExposureInv, Ended
<1>2. /\ ExitCodeFor(err) = ExitClean <=> err = NoError
      /\ ExitCodeFor(err) = ExitFinding <=> err # NoError /\ ~Is(err, "operational")
  BY DEF ExitCodeFor, ExitClean, ExitFinding, ExitOperational
<1> QED
  BY <1>1, <1>2

\* What was looked at without any violation has a profile that forbids no
\* secret of the environment.
LEMMA LookedUnexposed ==
    ASSUME NEW t, Looked(t), violations = {}
    PROVE  Unexposed(t)
BY DEF Looked, Unexposed

\* An audit that passes has compared the whole baseline and looked at every
\* tool.
THEOREM AuditPassMeansLookedAt == ExposureSpec => []PassMeansLookedAt
<1>1. ASSUME ExposureInv
      PROVE  PassMeansLookedAt
  <2> SUFFICES ASSUME Audit, exit = {ExitClean}
               PROVE  /\ baseline = "trusted" /\ \A e \in Entry : live[e] = "same"
                      /\ repo.files # <<>>
                      /\ \A t \in ToolSet(workflows) : Shadowed(t) \/ Unexposed(t)
    BY DEF PassMeansLookedAt
  <2>1. err = NoError /\ Verdict /\ ~Scope
    BY <1>1, ExitSays, ExposureErrors, ExposureTypes DEF ExposureInv
  <2>2. /\ Compared /\ \A t \in ToolSet(workflows) : Accounted(t.step)
        /\ NoError = AuditVerdict(drift, violations, skipped)
    BY <2>1, ExposureErrors DEF Verdict
  <2>3. drift = {} /\ violations = {} /\ skipped = {}
    BY <2>2, ExposureErrors DEF AuditVerdict, NoError, Operational
  <2>4. baseline = "trusted" /\ (\A e \in Entry : live[e] = "same") /\ repo.files # <<>>
    BY <2>2, <2>3 DEF Compared
  <2>5. ASSUME NEW t \in ToolSet(workflows)
        PROVE  Shadowed(t) \/ Unexposed(t)
    <3>1. PICK u \in ToolSet(workflows) : u.step = t.step /\ Looked(u)
      BY <2>2, <2>3 DEF Accounted
    <3>2. Unexposed(u)
      BY <2>3, <3>1, LookedUnexposed
    <3>3. CASE BaseRef(u.tool) = BaseRef(t.tool)
      BY <3>2, <3>3 DEF Unexposed
    <3>4. CASE BaseRef(u.tool) # BaseRef(t.tool)
      BY <3>1, <3>4 DEF Shadowed
    <3> QED
      BY <3>3, <3>4
  <2> QED
    BY <2>4, <2>5
<1> QED
  BY <1>1, ExposureInductive, PTL

\* A scope that passes has looked at a tool of the step asked for.
THEOREM ScopePassMeansUnexposed == ExposureSpec => []ScopeMeansUnexposed
<1>1. ASSUME ExposureInv
      PROVE  ScopeMeansUnexposed
  <2> SUFFICES ASSUME Scope, exit = {ExitClean}
               PROVE  \E t \in ToolSet(workflows) : t.step = args.step /\ Unexposed(t)
    BY DEF ScopeMeansUnexposed
  <2>1. err = NoError /\ Verdict /\ ~Audit
    BY <1>1, ExitSays, ExposureErrors, ExposureTypes DEF ExposureInv
  <2>2. /\ \E t \in ToolSet(workflows) : t.step = args.step /\ Looked(t)
        /\ violations = {}
    BY <2>1, ExposureErrors DEF Verdict, NoError
  <2> QED
    BY <2>2, LookedUnexposed
<1> QED
  BY <1>1, ExposureInductive, PTL

\* Exit 1 has a finding or says that nothing was compared, and no violation is
\* reported that a tool's own profile does not forbid.
THEOREM ExposureIsExplained == ExposureSpec => []ExposureExplained
<1>1. ASSUME ExposureInv
      PROVE  ExposureExplained
  <2>1. ASSUME exit = {ExitFinding}
        PROVE  \/ drift # {} \/ violations # {}
               \/ (\A e \in Entry : live[e] = "unasked") /\ (\A b \in BaseRefs : given[b] = {})
    <3>1. err # NoError /\ ~Is(err, "operational") /\ Verdict
      BY <1>1, <2>1, ExitSays
    <3>2. CASE Nothing
      BY <3>2 DEF Nothing
    <3>3. CASE err = AuditVerdict(drift, violations, skipped)
      BY <3>1, <3>3, ExposureErrors DEF AuditVerdict
    <3>4. CASE err = IF violations # {} THEN {"other"} ELSE NoError
      BY <3>1, <3>4
    <3> QED
      BY <3>1, <3>2, <3>3, <3>4 DEF Verdict
  <2>2. Justified
    BY <1>1 DEF ExposureInv
  <2> QED
    BY <2>1, <2>2 DEF ExposureExplained, Justified
<1> QED
  BY <1>1, ExposureInductive, PTL

\* What an audit has found is its verdict, whatever it had to skip.
THEOREM FindingIsVerdict == ExposureSpec => []FindingSurvives
<1>1. ASSUME ExposureInv
      PROVE  FindingSurvives
  <2> SUFFICES ASSUME Audit, exit # {}, drift # {} \/ violations # {}, ctx # "deadline", ~Broken
               PROVE  exit = {ExitFinding}
    BY DEF FindingSurvives, Broken
  <2>1. Verdict /\ ~Scope
    BY <1>1, ExitSays, ExposureTypes DEF ExposureInv
  <2>2. err = AuditVerdict(drift, violations, skipped)
    BY <2>1 DEF Verdict, Nothing
  <2>3. err = {"other"} /\ err # NoError /\ ~Is(err, "operational")
    BY <2>2, ExposureErrors DEF AuditVerdict
  <2> QED
    BY <1>1, <2>3, ExitSays
<1> QED
  BY <1>1, ExposureInductive, PTL

\* What --sanitize clears is what is reported, and all of it.
THEOREM SanitizeIsExact == ExposureSpec => []SanitizedExactly
<1>1. ASSUME ExposureInv
      PROVE  SanitizedExactly
  <2>1. env0 \ env \subseteq Reported /\ (~args.sanitize => env = env0)
    BY <1>1 DEF ExposureInv, Kept
  <2>2. ASSUME Scope, args.sanitize, exit = {ExitFinding}
        PROVE  env \cap Reported = {}
    <3>1. ~Audit /\ Verdict /\ ~Is(err, "operational")
      BY <1>1, <2>2, ExitSays, ExposureTypes DEF ExposureInv
    <3>2. violations = {} \/ ToClear = {}
      BY <3>1 DEF Verdict, Nothing
    <3> QED
      BY <2>2, <3>2 DEF ToClear, Reported
  <2> QED
    BY <2>1, <2>2 DEF SanitizedExactly, Reported
<1> QED
  BY <1>1, ExposureInductive, PTL
=============================================================================
