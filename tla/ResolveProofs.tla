--------------------------- MODULE ResolveProofs ---------------------------
(***************************************************************************)
(* Theorems about Resolve, for every finite set of references, every bound *)
(* on the concurrency and every set of answers.                            *)
(***************************************************************************)
EXTENDS Resolve, FiniteSetTheorems, TLAPS

\* The semaphore and the WaitGroup count the goroutines they stand for.
Counted ==
    /\ sem = Cardinality(Holding)
    /\ wg = Cardinality(Running)
    /\ sem <= MaxConcurrentResolves

\* Whatever a cache entry or a goroutine's local holds was answered.
Genuine(u, o) == o.kind = "ok" /\ AnswerOf(o) \in answered[u]

Sound(u) ==
    /\ cache[u] = NoOutcome \/ Genuine(u, cache[u])
    /\ pc[u] \in {"note", "read"} => Genuine(u, got[u])
    /\ pc[u] = "read" => freshness[u] = got[u].stale
    /\ pc[u] = "store" => got[u].kind = "failed" \/ Genuine(u, got[u])
    /\ results[u].kind = "ok" => Genuine(u, results[u])
    /\ pc[u] \in {"release", "exit", "done"} => results[u].kind # "none"

Joined == main = "joined" => \A u \in refs : pc[u] = "done"

\* The inductive invariant.
IInv ==
    /\ ResolveTypeOK
    /\ Counted
    /\ \A u \in UniqueRef : Sound(u)
    /\ Joined

----------------------------------------------------------------------------
\* An answer survives the way through the cache and a refResult.
LEMMA OutcomeType ==
    /\ NoOutcome \in Outcome
    /\ Failed \in Outcome
    /\ \A a \in Answer : /\ Resolved(a) \in Outcome
                         /\ Resolved(a).kind = "ok"
                         /\ AnswerOf(Resolved(a)) = a
                         /\ Resolved(a).stale = a.stale
                         /\ Resolved(a) # NoOutcome
BY AnswerAssumption DEF Outcome, NoOutcome, Failed, Resolved, AnswerOf

\* What a move of one goroutine does to the two sets that are counted.
LEMMA Moves ==
    ASSUME pc \in [UniqueRef -> PC], NEW u \in UniqueRef, NEW p \in PC,
           pc' = [pc EXCEPT ![u] = p]
    PROVE  /\ Holding' = IF p \in Slotted THEN Holding \cup {u} ELSE Holding \ {u}
           /\ Running' = IF p \in {"idle", "done"} THEN Running \ {u} ELSE Running \cup {u}
BY DEF Holding, Running

\* The counted sets are finite.
LEMMA Finite == IsFiniteSet(Holding) /\ IsFiniteSet(Running)
BY FinitenessAssumption, FS_Subset DEF Holding, Running

----------------------------------------------------------------------------
\* A step of the environment, of prefetch or of the caller moves no goroutine.
QuietStep ==
    \/ ContextEnds \/ PrefetchDone \/ Join
    \/ \E u \in UniqueRef : CacheExpires(u)
    \/ \E e \in KnownEcosystem : LocalBatchStep(e) \/ PlatformBatchStep(e)

\* What those steps leave alone.
LEMMA QuietUnchanged ==
    ASSUME QuietStep
    PROVE  UNCHANGED <<refs, pc, got, sem, wg, freshness, results>>
BY DEF QuietStep, ContextEnds, PrefetchDone, Join, CacheExpires, LocalBatchStep,
       PlatformBatchStep, BatchStart, BatchCut, BatchReply, BatchFails

\* A step is one goroutine's or nobody's.
LEMMA NextCases ==
    ASSUME ResolveNext
    PROVE  QuietStep \/ \E u \in UniqueRef : LocalStep(u) \/ PlatformStep(u)
BY DEF ResolveNext, QuietStep

\* The counters follow the goroutines.
LEMMA CountedStep ==
    ASSUME IInv, [ResolveNext \/ Returned]_resolveVars
    PROVE  Counted' /\ sem' \in Nat /\ wg' \in Nat
<1> USE DEF IInv, ResolveTypeOK, Counted
<1>0. /\ IsFiniteSet(Holding) /\ IsFiniteSet(Running)
      /\ Cardinality(Holding) \in Nat /\ Cardinality(Running) \in Nat
      /\ MaxConcurrentResolves \in Nat
  BY Finite, FS_CardinalityType, ConcurrencyAssumption
<1>1. CASE UNCHANGED <<pc, sem, wg>>
  BY <1>0, <1>1 DEF Holding, Running
<1>2. ASSUME NEW u \in UniqueRef, LocalStep(u) \/ PlatformStep(u)
      PROVE  Counted' /\ sem' \in Nat /\ wg' \in Nat
  <2>1. CASE Spawn(u)
    <3>1. Holding' = Holding /\ Running' = Running \cup {u} /\ u \notin Running
      BY <2>1, Moves DEF Spawn, PC, Slotted, Holding, Running
    <3>2. Cardinality(Running') = Cardinality(Running) + 1
      BY <1>0, <3>1, FS_AddElement
    <3> QED
      BY <1>0, <2>1, <3>1, <3>2 DEF Spawn
  <2>2. CASE Acquire(u)
    <3>1. Holding' = Holding \cup {u} /\ Running' = Running /\ u \notin Holding
      BY <2>2, Moves DEF Acquire, PC, Slotted, Holding, Running
    <3>2. Cardinality(Holding') = Cardinality(Holding) + 1
      BY <1>0, <3>1, FS_AddElement
    <3> QED
      BY <1>0, <2>2, <3>1, <3>2 DEF Acquire
  <2>3. CASE Release(u)
    <3>1. Holding' = Holding \ {u} /\ Running' = Running /\ u \in Holding
      BY <2>3, Moves DEF Release, PC, Slotted, Holding, Running
    <3>2. Cardinality(Holding') = Cardinality(Holding) - 1
      BY <1>0, <3>1, FS_RemoveElement
    <3>3. Cardinality(Holding') \in Nat
      BY <1>0, <3>1, FS_RemoveElement, FS_CardinalityType
    <3> QED
      BY <1>0, <2>3, <3>1, <3>2, <3>3 DEF Release
  <2>4. CASE Exit(u)
    <3>1. Running' = Running \ {u} /\ Holding' = Holding /\ u \in Running
      BY <2>4, Moves DEF Exit, PC, Slotted, Holding, Running
    <3>2. Cardinality(Running') = Cardinality(Running) - 1
      BY <1>0, <3>1, FS_RemoveElement
    <3>3. Cardinality(Running') \in Nat
      BY <1>0, <3>1, FS_RemoveElement, FS_CardinalityType
    <3> QED
      BY <1>0, <2>4, <3>1, <3>2, <3>3 DEF Exit
  <2>5. CASE GiveUp(u)
    <3>1. Holding' = Holding /\ Running' = Running
      BY <2>5, Moves DEF GiveUp, PC, Slotted, Holding, Running
    <3> QED
      BY <1>0, <2>5, <3>1 DEF GiveUp
  <2>6. CASE \/ NoResolver(u) \/ CacheHit(u) \/ CallStart(u) \/ CallReply(u)
             \/ CallFails(u) \/ NoteFreshness(u) \/ ReadFreshness(u) \/ Store(u)
    <3>1. /\ UNCHANGED <<sem, wg>>
          /\ pc[u] \in Slotted
          /\ \E p \in Slotted : pc' = [pc EXCEPT ![u] = p]
      BY <2>6 DEF NoResolver, CacheHit, CallStart, CallReply, CallFails,
                  NoteFreshness, ReadFreshness, Store, Slotted
    <3>2. PICK p \in Slotted : pc' = [pc EXCEPT ![u] = p]
      BY <3>1
    <3>3. Holding' = Holding /\ Running' = Running
      BY <3>1, <3>2, Moves DEF PC, Slotted, Holding, Running
    <3> QED
      BY <1>0, <3>1, <3>3
  <2> QED
    BY <1>2, <2>1, <2>2, <2>3, <2>4, <2>5, <2>6
    DEF LocalStep, PlatformStep, CallCut
<1> QED
  BY <1>1, <1>2, NextCases, QuietUnchanged DEF Returned, resolveVars

----------------------------------------------------------------------------
\* The type invariant; that the counters are naturals is CountedStep's.
LEMMA TypeStep ==
    ASSUME IInv, [ResolveNext \/ Returned]_resolveVars
    PROVE  ResolveTypeOK'
<1>0. sem' \in Nat /\ wg' \in Nat
  BY CountedStep
<1> USE DEF ResolveTypeOK, PC
<1>1. CASE UNCHANGED resolveVars
  BY <1>1 DEF IInv, resolveVars
<1>2. CASE ContextEnds \/ PrefetchDone \/ Join
  BY <1>0, <1>2 DEF IInv, ContextEnds, PrefetchDone, Join
<1>3. ASSUME NEW u \in UniqueRef, CacheExpires(u)
      PROVE  ResolveTypeOK'
  BY <1>0, <1>3, OutcomeType DEF IInv, CacheExpires
<1>4. ASSUME NEW e \in KnownEcosystem, LocalBatchStep(e) \/ BatchFails(e)
      PROVE  ResolveTypeOK'
  BY <1>0, <1>4 DEF IInv, LocalBatchStep, BatchStart, BatchCut, BatchFails
<1>5. ASSUME NEW e \in KnownEcosystem, BatchReply(e)
      PROVE  ResolveTypeOK'
  <2>1. PICK items \in [RefsOf(e) -> Answer \cup {NoOutcome}] :
          LET usable == {u \in RefsOf(e) : items[u] \in Answer /\ items[u].hash # NoHash}
          IN  /\ cache' = [u \in UniqueRef |->
                             IF u \in usable THEN Resolved(items[u]) ELSE cache[u]]
              /\ answered' = [u \in UniqueRef |->
                             IF u \in usable THEN answered[u] \cup {items[u]} ELSE answered[u]]
    BY <1>5 DEF BatchReply
  <2>2. cache' \in [UniqueRef -> Outcome]
    BY <2>1, OutcomeType DEF IInv
  <2>3. answered' \in [UniqueRef -> SUBSET Answer]
    BY <2>1 DEF IInv
  <2> QED
    BY <1>0, <1>5, <2>2, <2>3 DEF IInv, BatchReply
<1>6. ASSUME NEW u \in UniqueRef, LocalStep(u) \/ PlatformStep(u)
      PROVE  ResolveTypeOK'
  <2>1. CASE Spawn(u) \/ Acquire(u) \/ Release(u) \/ Exit(u)
    BY <1>0, <2>1 DEF IInv, Spawn, Acquire, Release, Exit
  <2>2. CASE GiveUp(u) \/ NoResolver(u) \/ Store(u)
    BY <1>0, <2>2, OutcomeType DEF IInv, GiveUp, NoResolver, Store
  <2>3. CASE CacheHit(u) \/ CallStart(u) \/ CallFails(u)
    BY <1>0, <2>3, OutcomeType DEF IInv, CacheHit, CallStart, CallFails
  <2>4. CASE CallReply(u)
    BY <1>0, <2>4, OutcomeType DEF IInv, CallReply
  <2>5. CASE NoteFreshness(u)
    BY <1>0, <2>5 DEF IInv, NoteFreshness, FreshnessKey, Outcome
  <2>6. CASE ReadFreshness(u)
    BY <1>0, <2>6 DEF IInv, ReadFreshness, FreshnessKey, Outcome, Resolved
  <2> QED
    BY <1>6, <2>1, <2>2, <2>3, <2>4, <2>5, <2>6 DEF LocalStep, PlatformStep, CallCut
<1> QED
  BY <1>1, <1>2, <1>3, <1>4, <1>5, <1>6 DEF ResolveNext, Returned, PlatformBatchStep

----------------------------------------------------------------------------
\* No step takes an answer back.
LEMMA AnsweredGrows ==
    ASSUME IInv, [ResolveNext \/ Returned]_resolveVars, NEW v \in UniqueRef
    PROVE  answered[v] \subseteq answered'[v]
<1> USE DEF IInv, ResolveTypeOK
<1>1. ASSUME NEW e \in KnownEcosystem, BatchReply(e)
      PROVE  answered[v] \subseteq answered'[v]
  BY <1>1 DEF BatchReply
<1>2. ASSUME NEW u \in UniqueRef, CallReply(u)
      PROVE  answered[v] \subseteq answered'[v]
  BY <1>2 DEF CallReply
<1>3. ASSUME NEW u \in UniqueRef, LocalStep(u) \/ CallFails(u)
      PROVE  UNCHANGED answered
  BY <1>3 DEF LocalStep, Spawn, Acquire, GiveUp, NoResolver, CacheHit, CallStart,
              CallCut, CallFails, NoteFreshness, ReadFreshness, Store, Release, Exit
<1>4. ASSUME NEW e \in KnownEcosystem, LocalBatchStep(e) \/ BatchFails(e)
      PROVE  UNCHANGED answered
  BY <1>4 DEF LocalBatchStep, BatchStart, BatchCut, BatchFails
<1>5. CASE \/ ContextEnds \/ PrefetchDone \/ Join \/ UNCHANGED resolveVars
           \/ \E u \in UniqueRef : CacheExpires(u)
  BY <1>5 DEF ContextEnds, PrefetchDone, Join, CacheExpires, resolveVars
<1> QED
  BY <1>1, <1>2, <1>3, <1>4, <1>5
  DEF ResolveNext, Returned, PlatformStep, PlatformBatchStep

\* The cache holds answers: only replies fill it.
LEMMA CacheStep ==
    ASSUME IInv, [ResolveNext \/ Returned]_resolveVars, NEW v \in UniqueRef
    PROVE  cache'[v] = NoOutcome \/ Genuine(v, cache[v])'
<1> USE DEF IInv, ResolveTypeOK
<1>0. answered[v] \subseteq answered'[v]
  BY AnsweredGrows
<1>1. CASE cache'[v] = cache[v]
  BY <1>0, <1>1 DEF Sound, Genuine
<1>2. ASSUME NEW u \in UniqueRef, CacheExpires(u)
      PROVE  cache'[v] = NoOutcome \/ cache'[v] = cache[v]
  BY <1>2 DEF CacheExpires
<1>3. ASSUME NEW e \in KnownEcosystem, BatchReply(e)
      PROVE  cache'[v] = cache[v] \/ Genuine(v, cache[v])'
  BY <1>3, OutcomeType DEF BatchReply, Genuine
<1>4. ASSUME NEW u \in UniqueRef, CallReply(u)
      PROVE  cache'[v] = cache[v] \/ Genuine(v, cache[v])'
  BY <1>4, OutcomeType DEF CallReply, Genuine
<1>5. ASSUME NEW u \in UniqueRef, LocalStep(u) \/ CallFails(u)
      PROVE  UNCHANGED cache
  BY <1>5 DEF LocalStep, Spawn, Acquire, GiveUp, NoResolver, CacheHit, CallStart,
              CallCut, CallFails, NoteFreshness, ReadFreshness, Store, Release, Exit
<1>6. ASSUME NEW e \in KnownEcosystem, LocalBatchStep(e) \/ BatchFails(e)
      PROVE  UNCHANGED cache
  BY <1>6 DEF LocalBatchStep, BatchStart, BatchCut, BatchFails
<1>7. CASE ContextEnds \/ PrefetchDone \/ Join \/ UNCHANGED resolveVars
  BY <1>1, <1>7 DEF ContextEnds, PrefetchDone, Join, resolveVars
<1> QED
  BY <1>1, <1>2, <1>3, <1>4, <1>5, <1>6, <1>7
  DEF ResolveNext, Returned, PlatformStep, PlatformBatchStep

\* The step of goroutine u leaves the other goroutines' state alone.
LEMMA OthersUntouched ==
    ASSUME IInv, NEW u \in UniqueRef, LocalStep(u) \/ PlatformStep(u),
           NEW v \in UniqueRef, v # u
    PROVE  /\ pc'[v] = pc[v] /\ got'[v] = got[v]
           /\ freshness'[v] = freshness[v] /\ results'[v] = results[v]
BY DEF IInv, ResolveTypeOK, LocalStep, PlatformStep, Spawn, Acquire, GiveUp,
       NoResolver, CacheHit, CallStart, CallCut, CallReply, CallFails,
       NoteFreshness, ReadFreshness, FreshnessKey, Store, Release, Exit

\* What Sound says of a goroutine, apart from the cache.
LEMMA SoundStep ==
    ASSUME IInv, [ResolveNext \/ Returned]_resolveVars, NEW v \in UniqueRef
    PROVE  Sound(v)'
<1>0. /\ answered[v] \subseteq answered'[v]
      /\ cache'[v] = NoOutcome \/ Genuine(v, cache[v])'
      /\ Sound(v)
  BY AnsweredGrows, CacheStep DEF IInv
<1> USE DEF IInv, ResolveTypeOK, Sound, Genuine
<1>1. CASE /\ pc'[v] = pc[v] /\ got'[v] = got[v]
           /\ freshness'[v] = freshness[v] /\ results'[v] = results[v]
  BY <1>0, <1>1
<1>2. ASSUME LocalStep(v) \/ PlatformStep(v)
      PROVE  Sound(v)'
  <2>1. CASE Spawn(v) \/ Acquire(v)
    BY <1>0, <2>1 DEF Spawn, Acquire
  <2>2. CASE Release(v) \/ Exit(v)
    BY <1>0, <2>2 DEF Release, Exit
  <2>3. CASE GiveUp(v) \/ NoResolver(v)
    BY <1>0, <2>3 DEF GiveUp, NoResolver, Failed
  <2>4. CASE CacheHit(v)
    BY <1>0, <2>4 DEF CacheHit
  <2>5. CASE CallStart(v) \/ CallFails(v)
    BY <1>0, <2>5 DEF CallStart, CallFails, Failed
  <2>6. CASE CallReply(v)
    BY <1>0, <2>6, OutcomeType DEF CallReply
  <2>7. CASE NoteFreshness(v)
    BY <1>0, <2>7 DEF NoteFreshness, FreshnessKey
  <2>8. CASE ReadFreshness(v)
    BY <1>0, <2>8 DEF ReadFreshness, FreshnessKey, Resolved, AnswerOf
  <2>9. CASE Store(v)
    BY <1>0, <2>9 DEF Store
  <2> QED
    BY <1>2, <2>1, <2>2, <2>3, <2>4, <2>5, <2>6, <2>7, <2>8, <2>9
    DEF LocalStep, PlatformStep, CallCut
<1>3. ASSUME NEW u \in UniqueRef, u # v, LocalStep(u) \/ PlatformStep(u)
      PROVE  Sound(v)'
  BY <1>1, <1>3, OthersUntouched
<1>4. CASE QuietStep \/ UNCHANGED resolveVars
  BY <1>1, <1>4, QuietUnchanged DEF resolveVars
<1> QED
  BY <1>2, <1>3, <1>4, NextCases DEF Returned

\* Once wg.Wait has returned, no goroutine of this run is left.
LEMMA JoinedStep ==
    ASSUME IInv, [ResolveNext \/ Returned]_resolveVars
    PROVE  Joined'
<1> USE DEF IInv, ResolveTypeOK, Joined
<1>1. CASE Join
  <2>1. Running = {}
    BY <1>1, Finite, FS_EmptySet DEF Join, Counted
  <2> QED
    BY <1>1, <2>1 DEF Join, Running
<1>2. ASSUME NEW u \in UniqueRef, LocalStep(u) \/ PlatformStep(u)
      PROVE  main' = main /\ refs' = refs /\ (main = "joined" => u \notin refs \/ pc[u] # "done")
  BY <1>2 DEF LocalStep, PlatformStep, Spawn, Acquire, GiveUp,
       NoResolver, CacheHit, CallStart, CallCut, CallReply, CallFails,
       NoteFreshness, ReadFreshness, Store, Release, Exit
<1>3. ASSUME NEW u \in UniqueRef, LocalStep(u) \/ PlatformStep(u)
      PROVE  Joined'
  BY <1>2, <1>3, OthersUntouched
<1>4. CASE QuietStep /\ ~Join
  <2>1. main' = "joined" => main = "joined"
    BY <1>4 DEF QuietStep, ContextEnds, PrefetchDone, CacheExpires, LocalBatchStep,
         PlatformBatchStep, BatchStart, BatchCut, BatchReply, BatchFails
  <2> QED
    BY <1>4, <2>1, QuietUnchanged
<1>5. CASE UNCHANGED resolveVars
  BY <1>5 DEF resolveVars
<1> QED
  BY <1>1, <1>3, <1>4, <1>5, NextCases DEF Returned

----------------------------------------------------------------------------
\* The invariant holds when resolveUnique is called.
LEMMA IInvInit ==
    ASSUME ResolveInit
    PROVE  IInv
<1> USE DEF ResolveInit
<1>1. ResolveTypeOK
  BY OutcomeType DEF ResolveTypeOK, PC, BatchesFor
<1>2. Counted
  <2>1. Holding = {} /\ Running = {}
    BY DEF Holding, Running, Slotted
  <2> QED
    BY <2>1, FS_EmptySet, ConcurrencyAssumption DEF Counted
<1>3. ASSUME NEW u \in UniqueRef
      PROVE  Sound(u)
  BY DEF Sound, NoOutcome
<1> QED
  BY <1>1, <1>2, <1>3 DEF IInv, Joined

\* No step breaks the invariant.
LEMMA IInvStep ==
    ASSUME IInv, [ResolveNext \/ Returned]_resolveVars
    PROVE  IInv'
BY TypeStep, CountedStep, SoundStep, JoinedStep DEF IInv

\* The inductive invariant holds throughout.
THEOREM Inductive == ResolveSpec => []IInv
<1>1. ResolveInit => IInv
  BY IInvInit
<1>2. IInv /\ [ResolveNext \/ Returned]_resolveVars => IInv'
  BY IInvStep
<1> QED
  BY <1>1, <1>2, PTL DEF ResolveSpec

\* Every variable keeps its type; in particular neither the WaitGroup's
\* counter nor the semaphore ever goes below zero.
THEOREM TypeCorrect == ResolveSpec => []ResolveTypeOK
<1>1. IInv => ResolveTypeOK
  BY DEF IInv
<1> QED
  BY <1>1, Inductive, PTL

\* No more requests in flight than the semaphore has slots, and none lost.
THEOREM SlotsCorrect == ResolveSpec => []SlotsAccounted
<1>1. IInv => SlotsAccounted
  BY DEF IInv, Counted, SlotsAccounted
<1> QED
  BY <1>1, Inductive, PTL

\* A result is one answer of the platform to the reference it is filed under.
THEOREM AnswersCorrect == ResolveSpec => []AnswerIntegrity
<1>1. IInv => AnswerIntegrity
  BY DEF IInv, Sound, Genuine, AnswerIntegrity
<1> QED
  BY <1>1, Inductive, PTL

\* After the join every reference has a result.
THEOREM JoinCorrect == ResolveSpec => []JoinComplete
<1>1. IInv => JoinComplete
  BY DEF IInv, ResolveTypeOK, Sound, Joined, JoinComplete
<1> QED
  BY <1>1, Inductive, PTL
=============================================================================
