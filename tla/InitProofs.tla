----------------------------- MODULE InitProofs -----------------------------
(***************************************************************************)
(* Theorems about scg init and update, for every project, every answer of  *)
(* the platform and every lockfile others may put in place meanwhile.      *)
(***************************************************************************)
EXTENDS InitCommand, SequenceTheorems, FiniteSetTheorems, TLAPS

\* What is cached is an answer to the reference it is cached for.
CacheGenuine ==
    \A u \in UniqueRef : cache[u] # NoOutcome =>
        cache[u].kind = "ok" /\ AnswerOf(cache[u]) \in answered[u]

\* A name that is not to be resolved any more has an answer to the first tool
\* of that name.
Settled ==
    \A n \in Names \ todo :
        resolved[n].kind = "ok" /\ AnswerOf(resolved[n]) \in answered[First(n)]

\* The lockfile in memory records every declared tool with the hash its name
\* was resolved to.
Built ==
    /\ todo = {}
    /\ DOMAIN lf.hashes = Declared
    /\ \A u \in Declared : lf.hashes[u] = resolved[u.name].hash

Mine == [lf |-> lf, sig |-> sig]

Progress ==
    /\ stage = "collect" => declared = <<>>
    /\ stage \in {"prefetch", "resolve", "build", "sign", "write"} \/ wrote =>
         declared \in ReadingsOf[project]
    /\ stage = "prefetch" => todo = Names
    /\ stage = "build" => todo = {}
    /\ stage \in {"sign", "write"} \/ wrote => Built
    /\ stage = "write" \/ wrote => sig.over = lf
    /\ wrote => stage \in {"classify", "watch", "upload", "leave", "exited"}

\* What is at the path is a document of others or the one written; what is
\* uploaded is one of them and verifies.
Provenance ==
    /\ disk \in OtherDocs \/ (wrote /\ disk = Mine)
    /\ stage = "upload" => Verified(read) /\ read \in OtherDocs \cup {Mine}
    /\ watching # {} => wrote
    /\ WatchedIsSigned

\* What the error on its way out says of what was done.
Fate ==
    /\ stage = "classify" => (err = NoError <=> wrote)
    /\ stage \in {"watch", "upload"} => wrote /\ watch
    /\ stage \in {"leave", "exited"} =>
         /\ err = NoError => wrote /\ (watch => watching = Refs(read))
         /\ wrote /\ ~watch => err = NoError
    /\ IF stage = "exited" THEN exit = {ExitCodeFor(err)} ELSE exit = {}

InitInv ==
    /\ InitTypeOK
    /\ CacheGenuine
    /\ Settled
    /\ Progress
    /\ Provenance
    /\ Fate

----------------------------------------------------------------------------
\* A set of numbers from 1 on that is not empty has a least element: of the
\* intervals that end in one of them, a least by inclusion ends there.
LEMMA LeastNumber ==
    ASSUME NEW T \in SUBSET (Nat \ {0}), T # {}
    PROVE  \E x \in T : \A y \in T : x <= y
<1> DEFINE R == StrictSubsetOrdering(Nat)
           F == FiniteSubsetsOf(Nat)
           I == {1..k : k \in T}
<1>1. IsWellFoundedOn(R, F)
  BY FS_StrictSubsetOrderingWellFounded
<1>2. I \subseteq F /\ I # {}
  <2>1. ASSUME NEW k \in T
        PROVE  1..k \in F
    <3>1. IsFiniteSet(1..k)
      BY FS_Interval
    <3> QED
      BY <3>1 DEF FiniteSubsetsOf
  <2> QED
    BY <2>1
<1>3. \A x, y \in T : y < x => <<1..y, 1..x>> \in R
  <2> SUFFICES ASSUME NEW x \in T, NEW y \in T, y < x
               PROVE  <<1..y, 1..x>> \in R
    OBVIOUS
  <2>1. 1..y \subseteq 1..x /\ x \in 1..x /\ x \notin 1..y
    OBVIOUS
  <2> QED
    BY <2>1 DEF StrictSubsetOrdering
<1> HIDE DEF R, F
<1>4. PICK s \in I : \A t \in I : ~(<<t, s>> \in R)
  BY <1>1, <1>2, WFMin
<1>5. PICK x \in T : s = 1..x
  BY <1>4
<1>6. \A y \in T : ~(y < x)
  BY <1>3, <1>4, <1>5
<1> QED
  BY <1>6

\* Whatever the parsers yield is a sequence of references.
LEMMA DeclaredTypes ==
    ASSUME InitTypeOK
    PROVE  /\ declared \in Seq(UniqueRef)
           /\ Declared \subseteq UniqueRef
           /\ Names \subseteq Name
<1>1. declared \in Seq(UniqueRef)
  BY ProjectsAssumption, EmptySeq DEF InitTypeOK, ReadingsOf
<1>2. Declared \subseteq UniqueRef
  BY <1>1, ElementOfSeq DEF Declared
<1> QED
  BY <1>1, <1>2 DEF Names, UniqueRef

\* Of each declared name there is a first tool, and it is a declared one.
LEMMA FirstOfName ==
    ASSUME InitTypeOK, NEW n \in Names
    PROVE  First(n) \in Declared /\ First(n).name = n /\ First(n) \in UniqueRef
<1> DEFINE T == {k \in 1..Len(declared) : declared[k].name = n}
<1>1. T # {} /\ T \in SUBSET (Nat \ {0})
  BY DeclaredTypes, LenProperties DEF Names, Declared
<1>2. PICK x \in T : \A y \in T : x <= y
  BY <1>1, LeastNumber
<1>3. /\ x \in 1..Len(declared) /\ declared[x].name = n
      /\ \A j \in 1..(x - 1) : declared[j].name # n
  BY <1>2, DeclaredTypes, LenProperties
<1>4. \E k \in 1..Len(declared) : /\ declared[k].name = n
                                  /\ \A j \in 1..(k - 1) : declared[j].name # n
  BY <1>3
<1> QED
  BY <1>4, DeclaredTypes DEF First, Declared

\* The first tool of a name no other ecosystem has is the tool itself.
LEMMA FirstIsOnly ==
    ASSUME InitTypeOK, NEW u \in Declared, ~Clashing(u)
    PROVE  First(u.name) = u
BY FirstOfName DEF Clashing, Names

\* The declared tools, and which of them is first, depend on the parsers alone.
LEMMA SameDeclared ==
    ASSUME declared' = declared
    PROVE  /\ Declared' = Declared /\ Names' = Names
           /\ \A n : First(n)' = First(n)
BY DEF Declared, Names, First

\* Every error a step ends with is an error, and none is nil.
LEMMA InitErrors ==
    /\ NoError \in Error
    /\ \A e \in CallErrors \cup {{"other"}, {"deadline"}, {"canceled"}} :
         e \in Error \ {NoError} /\ Operational(e) \in Error \ {NoError}
    /\ Operational({}) \in Error \ {NoError}
BY DEF CallErrors, Error, NoError, Identity, Operational

\* What a context that has ended makes a call end with.
LEMMA CutErrors ==
    ASSUME ctx \in {"live", "deadline", "interrupted"}, ctx # "live"
    PROVE  ContextErr(ctx) \in {{"deadline"}, {"canceled"}}
BY DEF ContextErr

\* A failure stays a failure in both classifications, and nil stays nil.
LEMMA ClassifiedErrors ==
    ASSUME NEW e \in Error
    PROVE  /\ Classified(e) \in Error /\ (Classified(e) = NoError <=> e = NoError)
           /\ ClassifyEntitlement(e) \in Error
           /\ ClassifyEntitlement(e) = NoError <=> e = NoError
<1>1. Classified(e) \in {e, Operational({})} /\ (e = NoError => Classified(e) = e)
  BY DEF Classified, ClassifyDeadline
<1>2. e = NoError => ClassifyEntitlement(e) = e
  BY DEF ClassifyEntitlement, NoError, Is
<1>3. e # NoError => Operational(e) \in Error \ {NoError}
  BY DEF Operational, Error, NoError, Identity
<1>4. ClassifyEntitlement(e) \in {e, Operational(e)}
  BY DEF ClassifyEntitlement
<1> QED
  BY <1>1, <1>2, <1>3, <1>4, InitErrors

\* What is kept of an answer is the answer.
LEMMA KeptAnswer ==
    ASSUME NEW a \in Answer
    PROVE  /\ Resolved(a) \in Outcome /\ Resolved(a) # NoOutcome
           /\ Resolved(a).kind = "ok" /\ AnswerOf(Resolved(a)) = a
<1>1. a.hash \in Hash \cup {NoHash} /\ a.stale \in BOOLEAN
      /\ a = [hash |-> a.hash, stale |-> a.stale]
  BY AnswerAssumption
<1>2. Resolved(a).kind = "ok" /\ NoOutcome.kind = "none"
  BY DEF Resolved, NoOutcome
<1> QED
  BY <1>1, <1>2 DEF Resolved, Outcome, AnswerOf

\* The resolver is not where it was, and what it has done is what it was.
LEMMA ResolverRests ==
    ASSUME CacheGenuine, Settled, UNCHANGED <<declared, cache, todo, resolved, answered>>
    PROVE  CacheGenuine' /\ Settled'
BY SameDeclared DEF CacheGenuine, Settled

\* The command starts with nothing done.
LEMMA InitInvInit ==
    ASSUME InitCommandInit
    PROVE  InitInv
<1> USE DEF InitCommandInit
<1>1. IsLockfile(NoLockfile) /\ IsSignature(Unsigned) /\ IsDocument(NoDocument) /\ IsDocument(disk)
  BY OtherDocsAssumption DEF IsLockfile, IsSignature, IsDocument, NoLockfile, Unsigned, NoDocument
<1>2. NoOutcome \in Outcome
  BY DEF NoOutcome, Outcome
<1>3. InitTypeOK
  BY <1>1, <1>2, InitErrors DEF InitTypeOK, Stage
<1>4. Names = {}
  BY EmptySeq DEF Names, Declared
<1> QED
  BY <1>3, <1>4
     DEF InitInv, CacheGenuine, Settled, Progress, Provenance, WatchedIsSigned, Fate

\* The context ends, or others replace the lockfile.
LEMMA EnvironmentStep ==
    ASSUME InitInv, InitContextEnds \/ Replace
    PROVE  InitInv'
<1>1. CacheGenuine' /\ Settled'
  BY ResolverRests DEF InitInv, InitContextEnds, Replace
<1>2. Names' = Names /\ Declared' = Declared
  BY SameDeclared DEF InitContextEnds, Replace
<1>3. InitTypeOK'
  BY <1>2, OtherDocsAssumption DEF InitInv, InitTypeOK, InitContextEnds, Replace
<1>4. Progress' /\ Fate'
  BY <1>2 DEF InitInv, Progress, Built, Fate, InitContextEnds, Replace
<1>5. Provenance'
  BY DEF InitInv, Provenance, WatchedIsSigned, Mine, InitContextEnds, Replace
<1> QED
  BY <1>1, <1>3, <1>4, <1>5 DEF InitInv

\* Before anything is written, a step may fail: it leaves all as it is.
LEMMA FailStep ==
    ASSUME InitInv, NEW e \in Error \ {NoError}, Fail(e),
           stage \in {"collect", "resolve", "sign", "write"},
           UNCHANGED <<project, declared, watch, ctx, cache, todo, resolved, lf, sig, disk, wrote,
                       read, watching, exit, answered>>
    PROVE  InitInv'
<1>1. CacheGenuine' /\ Settled'
  BY ResolverRests DEF InitInv
<1>2. Names' = Names /\ Declared' = Declared
  BY SameDeclared
<1>3. InitTypeOK'
  BY <1>2 DEF InitInv, InitTypeOK, Fail, Stage
<1>4. ~wrote /\ Progress'
  BY <1>2 DEF InitInv, Progress, Fail
<1>5. Fate' /\ Provenance'
  BY <1>4 DEF InitInv, Fate, Fail, Provenance, WatchedIsSigned, Mine
<1> QED
  BY <1>1, <1>3, <1>4, <1>5 DEF InitInv

\* Steps that fail before anything is written.
LEMMA FailingStep ==
    ASSUME InitInv, \/ CollectFails \/ SignFails \/ SignCut \/ WriteFails
                    \/ \E n \in Name : AskFails(n) \/ AskCut(n)
    PROVE  InitInv'
<1>1. CASE CollectFails \/ WriteFails
  BY <1>1, FailStep, InitErrors DEF CollectFails, WriteFails
<1>2. CASE SignFails
  BY <1>2, FailStep, InitErrors DEF SignFails, WrongAlgorithm
<1>3. CASE SignCut
  BY <1>3, FailStep, InitErrors, CutErrors DEF SignCut, InitInv, InitTypeOK
<1>4. ASSUME NEW n \in Name, AskFails(n) \/ AskCut(n)
      PROVE  InitInv'
  BY <1>4, FailStep, InitErrors, CutErrors DEF AskFails, AskCut, Turn, InitInv, InitTypeOK
<1> QED
  BY <1>1, <1>2, <1>3, <1>4

\* Collecting the declarations, one of the readings of the project's files.
LEMMA CollectStep ==
    ASSUME InitInv, Collect
    PROVE  InitInv'
<1> USE DEF Collect
<1>1. declared' \in ReadingsOf[project] /\ declared' \in Seq(UniqueRef)
  BY ProjectsAssumption DEF ReadingsOf, InitInv, InitTypeOK
<1>2. todo' = Names'
  BY <1>1, LenProperties DEF Names, Declared
<1>3. InitTypeOK'
  BY <1>1, <1>2 DEF InitInv, InitTypeOK, Stage
<1>4. CacheGenuine' /\ Settled'
  BY <1>2 DEF InitInv, CacheGenuine, Settled
<1>5. ~wrote /\ Progress'
  BY <1>1, <1>2 DEF InitInv, Progress
<1>6. Fate' /\ Provenance'
  BY <1>5 DEF InitInv, Fate, Provenance, WatchedIsSigned, Mine
<1> QED
  BY <1>3, <1>4, <1>5, <1>6 DEF InitInv

\* What was asked for in batches is cached with the answer it was given.
LEMMA PrefetchStep ==
    ASSUME InitInv, Prefetch \/ PrefetchCut
    PROVE  InitInv'
<1>1. Names' = Names /\ Declared' = Declared
  BY SameDeclared DEF Prefetch, PrefetchCut
<1>2. todo = Names /\ stage = "prefetch" /\ stage' = "resolve" /\ todo' = todo
  BY DEF InitInv, Progress, Prefetch, PrefetchCut
<1>3. /\ cache' \in [UniqueRef -> Outcome] /\ answered' \in [UniqueRef -> SUBSET Answer]
      /\ CacheGenuine'
  <2>1. CASE PrefetchCut
    BY <2>1, ResolverRests DEF InitInv, InitTypeOK, PrefetchCut
  <2>2. CASE Prefetch
    <3>1. PICK items \in [Batched -> {a \in Answer : a.hash # NoHash} \cup {NoOutcome}] :
            LET usable == {u \in Batched : items[u] \in Answer}
            IN  /\ cache' = [u \in UniqueRef |->
                               IF u \in usable THEN Resolved(items[u]) ELSE cache[u]]
                /\ answered' = [u \in UniqueRef |->
                               IF u \in usable THEN {items[u]} ELSE answered[u]]
      BY <2>2 DEF Prefetch
    <3> DEFINE usable == {u \in Batched : items[u] \in Answer}
    <3>2. \A u \in usable : items[u] \in Answer
      OBVIOUS
    <3>3. \A u \in UniqueRef :
            /\ u \in usable => cache'[u] = Resolved(items[u]) /\ answered'[u] = {items[u]}
            /\ u \notin usable => cache'[u] = cache[u] /\ answered'[u] = answered[u]
      BY <3>1
    <3>4. cache' = [u \in UniqueRef |-> cache'[u]] /\ answered' = [u \in UniqueRef |-> answered'[u]]
      BY <3>1
    <3> HIDE DEF usable
    <3>5. \A u \in UniqueRef : cache'[u] \in Outcome /\ answered'[u] \in SUBSET Answer
      BY <3>2, <3>3, KeptAnswer DEF InitInv, InitTypeOK
    <3>6. CacheGenuine'
      BY <3>2, <3>3, KeptAnswer DEF InitInv, CacheGenuine
    <3> QED
      BY <3>4, <3>5, <3>6
  <2> QED
    BY <2>1, <2>2
<1>4. InitTypeOK'
  BY <1>1, <1>2, <1>3 DEF InitInv, InitTypeOK, Stage, Prefetch, PrefetchCut
<1>5. Settled'
  BY <1>1, <1>2 DEF Settled
<1>6. ~wrote /\ Progress'
  BY <1>1, <1>2 DEF InitInv, Progress, Prefetch, PrefetchCut
<1>7. Fate' /\ Provenance'
  BY <1>2, <1>6 DEF InitInv, Fate, Provenance, WatchedIsSigned, Mine, Prefetch, PrefetchCut
<1> QED
  BY <1>3, <1>4, <1>5, <1>6, <1>7 DEF InitInv

\* A name whose first tool has an answer is settled.
LEMMA SettleStep ==
    ASSUME InitInv, NEW n \in Names, stage = "resolve",
           NEW o \in Outcome, o.kind = "ok", AnswerOf(o) \in answered'[First(n)],
           resolved' = [resolved EXCEPT ![n] = o], todo' = todo \ {n},
           answered' \in [UniqueRef -> SUBSET Answer],
           \A u \in UniqueRef : answered[u] \subseteq answered'[u],
           UNCHANGED <<project, declared, watch, ctx, stage, cache, lf, sig, disk, wrote, read,
                       watching, err, exit>>
    PROVE  InitInv'
<1>1. Names' = Names /\ Declared' = Declared /\ \A m : First(m)' = First(m)
  BY SameDeclared
<1>2. InitTypeOK
  BY DEF InitInv
<1>3. n \in Name /\ \A m \in Names : First(m) \in UniqueRef
  BY <1>2, DeclaredTypes, FirstOfName
<1>4. InitTypeOK'
  BY <1>1, <1>2, <1>3 DEF InitTypeOK
<1>5. CacheGenuine'
  BY DEF InitInv, CacheGenuine
<1>6. Settled'
  <2>1. \A m \in Names \ todo : m # n => resolved'[m] = resolved[m]
    BY <1>2, <1>3 DEF InitTypeOK
  <2>2. resolved'[n] = o
    BY <1>2, <1>3 DEF InitTypeOK
  <2>3. \A m \in Names \ todo' : m # n => m \in Names \ todo
    OBVIOUS
  <2>4. ASSUME NEW m \in Names \ todo', m # n
        PROVE  resolved'[m].kind = "ok" /\ AnswerOf(resolved'[m]) \in answered'[First(m)]
    <3>1. resolved[m].kind = "ok" /\ AnswerOf(resolved[m]) \in answered[First(m)]
      BY <2>3, <2>4 DEF InitInv, Settled
    <3> QED
      BY <1>3, <2>1, <2>3, <2>4, <3>1
  <2> QED
    BY <1>1, <2>2, <2>4 DEF Settled
<1>7. ~wrote /\ Progress'
  BY <1>1 DEF InitInv, Progress
<1>8. Fate' /\ Provenance'
  BY <1>7 DEF InitInv, Fate, Provenance, WatchedIsSigned, Mine
<1> QED
  BY <1>4, <1>5, <1>6, <1>7, <1>8 DEF InitInv

\* One name of the loop of resolveTools, from the cache or from the platform.
LEMMA ResolveStep ==
    ASSUME InitInv, NEW n \in Name, FromCache(n) \/ Ask(n)
    PROVE  InitInv'
<1>1. InitTypeOK /\ stage = "resolve"
  BY DEF InitInv, FromCache, Ask, Turn
<1>2. n \in Names
  <2>1. n = CHOOSE m \in todo : TRUE
    BY DEF FromCache, Ask, Turn
  <2>2. todo # {}
    BY DEF FromCache, Ask, Turn
  <2> QED
    BY <1>1, <2>1, <2>2 DEF InitTypeOK
<1>3. First(n) \in UniqueRef
  BY <1>1, <1>2, FirstOfName
<1>4. CASE FromCache(n)
  <2>1. cache[First(n)] \in Outcome /\ cache[First(n)] # NoOutcome /\ answered' = answered
    BY <1>1, <1>3, <1>4 DEF FromCache, CacheKey, InitTypeOK
  <2>2. cache[First(n)].kind = "ok" /\ AnswerOf(cache[First(n)]) \in answered'[First(n)]
    BY <1>3, <2>1 DEF InitInv, CacheGenuine
  <2> QED
    BY <1>1, <1>2, <1>4, <2>1, <2>2, SettleStep DEF FromCache, CacheKey, InitTypeOK
<1>5. CASE Ask(n)
  <2>1. PICK a \in Answer : /\ resolved' = [resolved EXCEPT ![n] = Resolved(a)]
                            /\ answered' = [answered EXCEPT ![First(n)] = @ \cup {a}]
    BY <1>5 DEF Ask
  <2>2. /\ answered' \in [UniqueRef -> SUBSET Answer] /\ a \in answered'[First(n)]
        /\ \A u \in UniqueRef : answered[u] \subseteq answered'[u]
    BY <1>1, <1>3, <2>1 DEF InitTypeOK
  <2>3. /\ Resolved(a) \in Outcome /\ Resolved(a).kind = "ok"
        /\ AnswerOf(Resolved(a)) \in answered'[First(n)]
    BY <2>2, KeptAnswer
  <2>4. /\ todo' = todo \ {n}
        /\ UNCHANGED <<project, declared, watch, ctx, stage, cache, lf, sig, disk, wrote, read,
                       watching, err, exit>>
    BY <1>5 DEF Ask
  <2> QED
    BY <1>1, <1>2, <2>1, <2>2, <2>3, <2>4, SettleStep
<1> QED
  BY <1>4, <1>5

\* When all names are settled, every declared tool gets the hash of its name.
LEMMA BuildStep ==
    ASSUME InitInv, ResolvedAll \/ Build
    PROVE  InitInv'
<1>1. Names' = Names /\ Declared' = Declared
  BY SameDeclared DEF ResolvedAll, Build
<1>2. CacheGenuine' /\ Settled'
  BY ResolverRests DEF InitInv, ResolvedAll, Build
<1>3. ~wrote
  BY DEF InitInv, Progress, ResolvedAll, Build
<1>4. Fate' /\ Provenance'
  BY <1>3 DEF InitInv, Fate, Provenance, WatchedIsSigned, Mine, ResolvedAll, Build
<1>5. CASE ResolvedAll
  <2>1. InitTypeOK'
    BY <1>1, <1>5 DEF InitInv, InitTypeOK, Stage, ResolvedAll
  <2>2. Progress'
    BY <1>1, <1>3, <1>5 DEF InitInv, Progress, ResolvedAll
  <2> QED
    BY <1>2, <1>4, <2>1, <2>2 DEF InitInv
<1>6. CASE Build
  <2>1. PICK named \in BOOLEAN :
          lf' = [hashes |-> [u \in {v \in Declared : resolved[v.name] # NoOutcome} |->
                               resolved[u.name].hash],
                 repo |-> named]
    BY <1>6 DEF Build
  <2>2. /\ InitTypeOK /\ Settled /\ todo = {} /\ todo' = todo
        /\ declared \in ReadingsOf[project]
    BY <1>6 DEF InitInv, Progress, Build
  <2>3. Declared \subseteq UniqueRef /\ \A u \in Declared : u.name \in Names /\ u.name \in Name
    BY <2>2, DeclaredTypes DEF Names
  <2>4. \A u \in Declared : resolved[u.name] \in Outcome /\ resolved[u.name] # NoOutcome
    BY <2>2, <2>3 DEF Settled, InitTypeOK, NoOutcome
  <2>5. {v \in Declared : resolved[v.name] # NoOutcome} = Declared
    BY <2>4
  <2>6. /\ DOMAIN lf' = {"hashes", "repo"} /\ lf'.repo = named
        /\ lf'.hashes = [u \in Declared |-> resolved[u.name].hash]
    BY <2>1, <2>5
  <2>7. IsLockfile(lf')
    BY <2>3, <2>4, <2>6 DEF IsLockfile, Outcome
  <2>8. InitTypeOK'
    BY <1>1, <1>6, <2>2, <2>7 DEF InitTypeOK, Stage, Build
  <2>9. Progress'
    BY <1>1, <1>3, <1>6, <2>2, <2>6 DEF Progress, Built, Build
  <2> QED
    BY <1>2, <1>4, <2>8, <2>9 DEF InitInv
<1> QED
  BY <1>5, <1>6

\* The signature is over the lockfile in memory, and both are written.
LEMMA WrittenStep ==
    ASSUME InitInv, Sign \/ Write
    PROVE  InitInv'
<1>1. Names' = Names /\ Declared' = Declared
  BY SameDeclared DEF Sign, Write
<1>2. CacheGenuine' /\ Settled'
  BY ResolverRests DEF InitInv, Sign, Write
<1>3. InitTypeOK /\ ~wrote /\ Built /\ watching = {}
  BY DEF InitInv, Progress, Provenance, Sign, Write
<1>4. CASE Sign
  <2>1. PICK k \in {"pinned", "unknown"} : sig' = [key |-> k, over |-> lf]
    BY <1>4 DEF Sign, SentForSigning
  <2>2. IsSignature(sig') /\ sig'.over = lf
    BY <1>3, <2>1 DEF IsSignature, InitTypeOK
  <2>3. InitTypeOK'
    BY <1>1, <1>3, <1>4, <2>2 DEF InitTypeOK, Stage, Sign
  <2>4. Progress'
    BY <1>1, <1>3, <1>4, <2>2 DEF InitInv, Progress, Built, Sign
  <2>5. Fate' /\ Provenance'
    BY <1>3, <1>4 DEF InitInv, Fate, Provenance, WatchedIsSigned, Mine, Sign
  <2> QED
    BY <1>2, <2>3, <2>4, <2>5 DEF InitInv
<1>5. CASE Write
  <2>1. IsDocument(disk')
    BY <1>3, <1>5 DEF IsDocument, InitTypeOK, Write
  <2>2. InitTypeOK'
    BY <1>1, <1>3, <1>5, <2>1, InitErrors DEF InitTypeOK, Stage, Write, Fail
  <2>3. Progress'
    BY <1>1, <1>3, <1>5 DEF InitInv, Progress, Built, Write, Fail
  <2>4. Fate' /\ Provenance'
    BY <1>3, <1>5 DEF InitInv, Fate, Provenance, WatchedIsSigned, Mine, Write, Fail
  <2> QED
    BY <1>2, <2>2, <2>3, <2>4 DEF InitInv
<1> QED
  BY <1>4, <1>5

\* The error is classified, and only a baseline that was written is watched.
LEMMA ClassifyStep ==
    ASSUME InitInv, Classify
    PROVE  InitInv'
<1>1. Names' = Names /\ Declared' = Declared
  BY SameDeclared DEF Classify
<1>2. CacheGenuine' /\ Settled'
  BY ResolverRests DEF InitInv, Classify
<1>3. InitTypeOK /\ err' \in Error /\ (err' = NoError <=> wrote)
  BY ClassifiedErrors DEF InitInv, InitTypeOK, Fate, Classify
<1>4. InitTypeOK'
  BY <1>1, <1>3 DEF InitTypeOK, Stage, Classify
<1>5. Progress'
  BY <1>1 DEF InitInv, Progress, Built, Classify
<1>6. ~wrote => watching = {}
  BY DEF InitInv, Provenance
<1>7. Provenance'
  BY <1>3 DEF InitInv, Provenance, WatchedIsSigned, Mine, Classify
<1>8. Fate'
  <2>1. stage = "classify" /\ watch' = watch /\ wrote' = wrote /\ exit' = exit
        /\ stage' = IF err' = NoError /\ watch THEN "watch" ELSE "leave"
    BY DEF Classify
  <2>2. exit' = {}
    BY <2>1 DEF InitInv, Fate
  <2> QED
    BY <1>3, <2>1, <2>2 DEF InitInv, InitTypeOK, Fate
<1> QED
  BY <1>2, <1>4, <1>5, <1>7, <1>8 DEF InitInv

\* What is read to be watched is what is at the path, and verifies.
LEMMA WatchReadStep ==
    ASSUME InitInv, WatchRead
    PROVE  InitInv'
<1>1. Names' = Names /\ Declared' = Declared
  BY SameDeclared DEF WatchRead
<1>2. CacheGenuine' /\ Settled'
  BY ResolverRests DEF InitInv, WatchRead
<1>3. InitTypeOK'
  BY <1>1 DEF InitInv, InitTypeOK, Stage, WatchRead
<1>4. Progress' /\ Fate'
  BY <1>1 DEF InitInv, Progress, Built, Fate, WatchRead
<1>5. Provenance'
  BY DEF InitInv, Provenance, WatchedIsSigned, Mine, Verified, WatchRead
<1> QED
  BY <1>2, <1>3, <1>4, <1>5 DEF InitInv

\* The upload, done or lost or cut, and every other end of watchAfterWrite.
LEMMA LeaveStep ==
    ASSUME InitInv, NEW e \in Error, Leave(e),
           stage \in {"watch", "upload"},
           \/ stage = "watch" /\ e # NoError /\ watching' = watching
           \/ stage = "upload" /\ e # NoError /\ watching' \in {watching, Refs(read)}
           \/ stage = "upload" /\ watching' = Refs(read),
           UNCHANGED <<project, declared, watch, ctx, cache, todo, resolved, lf, sig, disk, wrote,
                       read, exit, answered>>
    PROVE  InitInv'
<1>1. Names' = Names /\ Declared' = Declared
  BY SameDeclared
<1>2. CacheGenuine' /\ Settled'
  BY ResolverRests DEF InitInv
<1>3. /\ InitTypeOK /\ stage' = "leave"
      /\ err' \in Error /\ (err' = NoError => e = NoError)
  BY ClassifiedErrors DEF InitInv, Leave
<1>4. wrote /\ watch
  BY DEF InitInv, Fate
<1>5. Refs(read) \subseteq UniqueRef
  BY <1>3 DEF InitTypeOK, IsDocument, IsLockfile, Refs
<1>6. InitTypeOK'
  BY <1>1, <1>3, <1>5 DEF InitTypeOK, Stage
<1>7. Progress'
  BY <1>1, <1>3 DEF InitInv, Progress, Built
<1>8. Provenance'
  BY <1>3, <1>4 DEF InitInv, Provenance, WatchedIsSigned, Mine
<1>9. Fate'
  BY <1>3, <1>4 DEF InitInv, Fate, Refs
<1> QED
  BY <1>2, <1>6, <1>7, <1>8, <1>9 DEF InitInv

\* The steps of watchAfterWrite that end it.
LEMMA LeavingStep ==
    ASSUME InitInv, WatchFails \/ Upload \/ UploadFails \/ UploadCut
    PROVE  InitInv'
<1>1. CASE WatchFails
  BY <1>1, LeaveStep, InitErrors DEF WatchFails
<1>2. CASE Upload
  BY <1>2, LeaveStep, InitErrors DEF Upload, Uploaded
<1>3. CASE UploadFails
  BY <1>3, LeaveStep, InitErrors DEF UploadFails, Uploaded
<1>4. CASE UploadCut
  BY <1>4, LeaveStep, InitErrors, CutErrors DEF UploadCut, Uploaded, InitInv, InitTypeOK
<1> QED
  BY <1>1, <1>2, <1>3, <1>4

\* The command exits, or has exited.
LEMMA ExitStep ==
    ASSUME InitInv, Exit
    PROVE  InitInv'
<1>1. Names' = Names /\ Declared' = Declared
  BY SameDeclared DEF Exit
<1>2. CacheGenuine' /\ Settled'
  BY ResolverRests DEF InitInv, Exit
<1>3. ExitCodeFor(err) \in {ExitClean, ExitFinding, ExitOperational}
  BY DEF ExitCodeFor
<1>4. InitTypeOK'
  BY <1>1, <1>3 DEF InitInv, InitTypeOK, Stage, Exit
<1>5. Progress' /\ Fate'
  BY <1>1 DEF InitInv, Progress, Built, Fate, Exit
<1>6. Provenance'
  BY DEF InitInv, Provenance, WatchedIsSigned, Mine, Exit
<1> QED
  BY <1>2, <1>4, <1>5, <1>6 DEF InitInv

\* Nothing that init, the platform, the context or others do breaks the
\* invariant.
LEMMA InitInvStep ==
    ASSUME InitInv, [InitNext \/ InitExited]_initVars
    PROVE  InitInv'
<1>1. CASE UNCHANGED initVars
  <2>1. Names' = Names /\ Declared' = Declared /\ CacheGenuine' /\ Settled'
    BY <1>1, SameDeclared, ResolverRests DEF InitInv, initVars
  <2> QED
    BY <1>1, <2>1
       DEF InitInv, InitTypeOK, Progress, Built, Provenance, WatchedIsSigned, Mine, Fate, initVars
<1>2. CASE InitStep
  BY <1>2, FailingStep, CollectStep, PrefetchStep, BuildStep, WrittenStep, ClassifyStep,
     WatchReadStep, LeavingStep, ExitStep, ResolveStep DEF InitStep
<1>3. CASE InitPlatformStep
  BY <1>3, FailingStep, PrefetchStep, WrittenStep, LeavingStep, ResolveStep
     DEF InitPlatformStep
<1> QED
  BY <1>1, <1>2, <1>3, EnvironmentStep DEF InitNext, InitExited

----------------------------------------------------------------------------
\* The inductive invariant holds of every run of scg init and scg update.
THEOREM InitInductive == InitSpec => []InitInv
BY InitInvInit, InitInvStep, PTL DEF InitSpec

\* Every variable of the command keeps its type.
THEOREM InitTypeCorrect == InitSpec => []InitTypeOK
<1>1. InitInv => InitTypeOK
  BY DEF InitInv
<1> QED
  BY <1>1, InitInductive, PTL

\* Every recorded hash is the platform's answer to that very reference, where
\* no two ecosystems share its name.
THEOREM InitAttributed == InitSpec => []AttributedUnlessClashing
<1>1. ASSUME InitInv
      PROVE  AttributedUnlessClashing
  <2> SUFFICES ASSUME wrote, NEW u \in DOMAIN lf.hashes, ~Clashing(u)
               PROVE  lf.hashes[u] \in {a.hash : a \in answered[u]}
    BY DEF AttributedUnlessClashing
  <2>1. InitTypeOK /\ Built /\ Settled
    BY <1>1 DEF InitInv, Progress
  <2>2. u \in Declared /\ lf.hashes[u] = resolved[u.name].hash
    BY <2>1 DEF Built
  <2>3. First(u.name) = u
    BY <2>1, <2>2, FirstIsOnly
  <2>4. AnswerOf(resolved[u.name]) \in answered[u]
    BY <2>1, <2>2, <2>3 DEF Settled, Built, Names
  <2> QED
    BY <2>2, <2>4 DEF AnswerOf
<1> QED
  BY <1>1, InitInductive, PTL

\* The platform is told to watch nothing that was not signed with a pinned key.
THEOREM InitWatchesSigned == InitSpec => []WatchedIsSigned
<1>1. InitInv => WatchedIsSigned
  BY DEF InitInv, Provenance
<1> QED
  BY <1>1, InitInductive, PTL

\* A baseline that was written is reported as written, and exit 0 says so.
THEOREM InitFateTold == InitSpec => []FateTold
<1>1. ASSUME InitInv
      PROVE  FateTold
  <2> SUFFICES ASSUME exit # {}
               PROVE  /\ wrote /\ ~watch => exit = {ExitClean}
                      /\ exit = {ExitClean} => wrote /\ (watch => watching = Refs(read))
    BY DEF FateTold
  <2>1. stage = "exited" /\ exit = {ExitCodeFor(err)}
    BY <1>1 DEF InitInv, Fate
  <2>2. ExitCodeFor(err) = ExitClean <=> err = NoError
    BY DEF ExitCodeFor, ExitClean, ExitFinding, ExitOperational
  <2> QED
    BY <1>1, <2>1, <2>2 DEF InitInv, Fate
<1> QED
  BY <1>1, InitInductive, PTL

\* Nothing is lost from the parsers to the file: what is written records exactly
\* one reading of the project's files, whatever the answers, the failures and the
\* moment at which the context ends, and is signed as it is written.
THEOREM InitWritesReading == InitSpec => []RecordsReading
<1>1. ASSUME InitInv
      PROVE  RecordsReading
  <2> SUFFICES ASSUME wrote
               PROVE  /\ \E d \in ReadingsOf[project] :
                           DOMAIN lf.hashes = {d[i] : i \in DOMAIN d}
                      /\ sig.over = lf
    BY DEF RecordsReading
  <2>1. /\ project \in Projects /\ declared \in ReadingsOf[project]
        /\ DOMAIN lf.hashes = Declared /\ sig.over = lf
    BY <1>1 DEF InitInv, InitTypeOK, Progress, Built
  <2>2. Declared = {declared[i] : i \in DOMAIN declared}
    BY <2>1, ProjectsAssumption, LenProperties DEF ReadingsOf, Declared
  <2> QED
    BY <2>1, <2>2
<1> QED
  BY <1>1, InitInductive, PTL
=============================================================================
