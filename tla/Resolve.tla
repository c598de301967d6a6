------------------------------ MODULE Resolve ------------------------------
(***************************************************************************)
(* resolveUnique (cmd/scg/check.go): every distinct reference of a         *)
(* lockfile is resolved once, first by one batch request per ecosystem     *)
(* that primes the client's cache, then by one goroutine per reference     *)
(* behind a semaphore.  PlatformResolver and the client's cache            *)
(* (platform/resolver.go, platform/client.go) are part of the module; one  *)
(* client call, retries included, is one request that the platform         *)
(* answers, fails, or that the context cuts short.                         *)
(***************************************************************************)
EXTENDS Answers, Naturals

CONSTANT MaxConcurrentResolves
ASSUME ConcurrencyAssumption == MaxConcurrentResolves \in Nat \ {0}

VARIABLES
    refs,       \* the distinct references of the lockfile
    ctx,        \* the command's context
    main,       \* where the calling goroutine is
    batches,    \* ecosystems whose batch request has not been sent
    batch,      \* the ecosystem whose batch request is in flight, in a set
    pc,         \* where each reference's goroutine is
    got,        \* the goroutine's local `out`
    sem,        \* slots taken in the semaphore channel
    wg,         \* the WaitGroup's counter
    cache,      \* Client.cache: an outcome of kind "ok", or none
    freshness,  \* PlatformResolver.freshness: the stale flag last noted
    results,    \* the map resolveUnique returns
    answered    \* history: answers the platform gave for each reference

resolveVars == <<refs, ctx, main, batches, batch, pc, got, sem, wg, cache,
                 freshness, results, answered>>

PC == {"idle", "select", "lookup", "call", "note", "read", "store", "release",
       "exit", "done"}

\* The goroutines that have a slot of the semaphore.
Slotted == {"lookup", "call", "note", "read", "store", "release"}
Holding == {u \in UniqueRef : pc[u] \in Slotted}
\* The goroutines wg.Wait waits for.
Running == {u \in UniqueRef : pc[u] \notin {"idle", "done"}}

\* The type invariant.  wg \in Nat is what sync.WaitGroup panics without: a
\* goroutine that ends must have been added.
ResolveTypeOK ==
    /\ refs \subseteq UniqueRef
    /\ ctx \in {"live", "deadline", "interrupted"}
    /\ main \in {"prefetch", "spawn", "joined"}
    /\ batches \subseteq KnownEcosystem
    /\ batch \subseteq KnownEcosystem
    /\ pc \in [UniqueRef -> PC]
    /\ got \in [UniqueRef -> Outcome]
    /\ sem \in Nat
    /\ wg \in Nat
    /\ cache \in [UniqueRef -> Outcome]
    /\ freshness \in [UniqueRef -> BOOLEAN]
    /\ results \in [UniqueRef -> Outcome]
    /\ answered \in [UniqueRef -> SUBSET Answer]

RefsOf(e) == {u \in refs : u.eco = e}

\* prefetch leaves alone an ecosystem it has no resolver for, and one with a
\* single reference.
BatchesFor(rs) ==
    {e \in KnownEcosystem : \E u, v \in rs : u # v /\ u.eco = e /\ v.eco = e}

ResolveInit ==
    /\ refs \in SUBSET UniqueRef
    /\ ctx = "live"
    /\ main = "prefetch"
    /\ batches = BatchesFor(refs)
    /\ batch = {}
    /\ pc = [u \in UniqueRef |-> "idle"]
    /\ got = [u \in UniqueRef |-> NoOutcome]
    /\ sem = 0
    /\ wg = 0
    /\ cache = [u \in UniqueRef |-> NoOutcome]
    /\ freshness = [u \in UniqueRef |-> FALSE]
    /\ results = [u \in UniqueRef |-> NoOutcome]
    /\ answered = [u \in UniqueRef |-> {}]

----------------------------------------------------------------------------
(* Variants of single steps with a plausible mistake seeded in them.  No    *)
(* behaviour below uses them; they confirm that the properties at the end   *)
(* of the module can fail.                                                  *)

\* wg.Add is forgotten.
SpawnWithoutAdd(u) ==
    /\ main = "spawn" /\ u \in refs /\ pc[u] = "idle"
    /\ pc' = [pc EXCEPT ![u] = "select"]
    /\ UNCHANGED <<refs, ctx, main, batches, batch, got, sem, wg, cache,
                   freshness, results, answered>>

\* The channel is one slot larger than the bound.
AcquireOneMore(u) ==
    /\ pc[u] = "select" /\ sem <= MaxConcurrentResolves
    /\ sem' = sem + 1
    /\ pc' = [pc EXCEPT ![u] = "lookup"]
    /\ UNCHANGED <<refs, ctx, main, batches, batch, got, wg, cache, freshness,
                   results, answered>>

\* The early return on ctx.Done() records no result.
GiveUpUnrecorded(u) ==
    /\ pc[u] = "select" /\ ctx # "live"
    /\ pc' = [pc EXCEPT ![u] = "exit"]
    /\ UNCHANGED <<refs, ctx, main, batches, batch, got, sem, wg, cache,
                   freshness, results, answered>>

\* The early return for an unknown ecosystem keeps its slot.
NoResolverKeepsSlot(u) ==
    /\ pc[u] = "lookup" /\ u.eco \notin KnownEcosystem
    /\ results' = [results EXCEPT ![u] = Failed]
    /\ pc' = [pc EXCEPT ![u] = "exit"]
    /\ UNCHANGED <<refs, ctx, main, batches, batch, got, sem, wg, cache,
                   freshness, answered>>

\* The request is built without the context.
CallNeverCut(u) == FALSE

\* One freshness map for all ecosystems, keyed by the reference alone.
FreshnessKeyByName(u) == CHOOSE v \in UniqueRef : v.name = u.name

----------------------------------------------------------------------------
(* The environment. *)

\* The command's deadline passes, or SIGINT arrives; the first is final.
ContextEnds ==
    /\ ctx = "live"
    /\ ctx' \in {"deadline", "interrupted"}
    /\ UNCHANGED <<refs, main, batches, batch, pc, got, sem, wg, cache,
                   freshness, results, answered>>

\* A cache entry outlives cacheTTL.
CacheExpires(u) ==
    /\ cache[u] # NoOutcome
    /\ main # "joined"
    /\ cache' = [cache EXCEPT ![u] = NoOutcome]
    /\ UNCHANGED <<refs, ctx, main, batches, batch, pc, got, sem, wg,
                   freshness, results, answered>>

----------------------------------------------------------------------------
(* prefetch: one batch request per ecosystem, one after the other. *)

BatchStart(e) ==
    /\ main = "prefetch" /\ batch = {} /\ e \in batches
    /\ batches' = batches \ {e}
    /\ batch' = IF ctx = "live" THEN {e} ELSE {}
    /\ UNCHANGED <<refs, ctx, main, pc, got, sem, wg, cache, freshness, results,
                   answered>>

\* The platform answers for any part of the batch.  An item with an error,
\* or with an empty hash, is not cached.
BatchReply(e) ==
    /\ batch = {e}
    /\ \E items \in [RefsOf(e) -> Answer \cup {NoOutcome}] :
         LET usable == {u \in RefsOf(e) : items[u] \in Answer /\ items[u].hash # NoHash}
         IN  /\ cache' = [u \in UniqueRef |->
                            IF u \in usable THEN Resolved(items[u]) ELSE cache[u]]
             /\ answered' = [u \in UniqueRef |->
                            IF u \in usable THEN answered[u] \cup {items[u]} ELSE answered[u]]
    /\ batch' = {}
    /\ UNCHANGED <<refs, ctx, main, batches, pc, got, sem, wg, freshness, results>>

\* A failed batch is logged and otherwise ignored.
BatchFails(e) ==
    /\ batch = {e}
    /\ batch' = {}
    /\ UNCHANGED <<refs, ctx, main, batches, pc, got, sem, wg, cache, freshness,
                   results, answered>>

BatchCut(e) == ctx # "live" /\ BatchFails(e)

PrefetchDone ==
    /\ main = "prefetch" /\ batches = {} /\ batch = {}
    /\ main' = "spawn"
    /\ UNCHANGED <<refs, ctx, batches, batch, pc, got, sem, wg, cache, freshness,
                   results, answered>>

----------------------------------------------------------------------------
(* One goroutine per reference. *)

Spawn(u) ==
    /\ main = "spawn" /\ u \in refs /\ pc[u] = "idle"
    /\ wg' = wg + 1
    /\ pc' = [pc EXCEPT ![u] = "select"]
    /\ UNCHANGED <<refs, ctx, main, batches, batch, got, sem, cache, freshness,
                   results, answered>>

\* select { case sem <- struct{}{}: ... case <-ctx.Done(): ... }.  With both
\* ready Go chooses either.
Acquire(u) ==
    /\ pc[u] = "select" /\ sem < MaxConcurrentResolves
    /\ sem' = sem + 1
    /\ pc' = [pc EXCEPT ![u] = "lookup"]
    /\ UNCHANGED <<refs, ctx, main, batches, batch, got, wg, cache, freshness,
                   results, answered>>

GiveUp(u) ==
    /\ pc[u] = "select" /\ ctx # "live"
    /\ results' = [results EXCEPT ![u] = Failed]
    /\ pc' = [pc EXCEPT ![u] = "exit"]
    /\ UNCHANGED <<refs, ctx, main, batches, batch, got, sem, wg, cache,
                   freshness, answered>>

NoResolver(u) ==
    /\ pc[u] = "lookup" /\ u.eco \notin KnownEcosystem
    /\ results' = [results EXCEPT ![u] = Failed]
    /\ pc' = [pc EXCEPT ![u] = "release"]
    /\ UNCHANGED <<refs, ctx, main, batches, batch, got, sem, wg, cache,
                   freshness, answered>>

CacheHit(u) ==
    /\ pc[u] = "lookup" /\ u.eco \in KnownEcosystem /\ cache[u] # NoOutcome
    /\ got' = [got EXCEPT ![u] = cache[u]]
    /\ pc' = [pc EXCEPT ![u] = "note"]
    /\ UNCHANGED <<refs, ctx, main, batches, batch, sem, wg, cache, freshness,
                   results, answered>>

\* Client.do returns ctx.Err() before its first attempt.
CallStart(u) ==
    /\ pc[u] = "lookup" /\ u.eco \in KnownEcosystem /\ cache[u] = NoOutcome
    /\ pc' = [pc EXCEPT ![u] = IF ctx = "live" THEN "call" ELSE "store"]
    /\ got' = IF ctx = "live" THEN got ELSE [got EXCEPT ![u] = Failed]
    /\ UNCHANGED <<refs, ctx, main, batches, batch, sem, wg, cache, freshness,
                   results, answered>>

\* A single answer is cached whatever it holds, the empty hash of a 204 too.
CallReply(u) ==
    /\ pc[u] = "call"
    /\ \E a \in Answer :
         /\ got' = [got EXCEPT ![u] = Resolved(a)]
         /\ cache' = [cache EXCEPT ![u] = Resolved(a)]
         /\ answered' = [answered EXCEPT ![u] = @ \cup {a}]
    /\ pc' = [pc EXCEPT ![u] = "note"]
    /\ UNCHANGED <<refs, ctx, main, batches, batch, sem, wg, freshness, results>>

CallFails(u) ==
    /\ pc[u] = "call"
    /\ got' = [got EXCEPT ![u] = Failed]
    /\ pc' = [pc EXCEPT ![u] = "store"]
    /\ UNCHANGED <<refs, ctx, main, batches, batch, sem, wg, cache, freshness,
                   results, answered>>

CallCut(u) == ctx # "live" /\ CallFails(u)

\* The resolver of an ecosystem keeps the stale flags of its own references,
\* so the flag's key is the pair.
FreshnessKey(u) == u

\* PlatformResolver.Resolve writes the flag under its lock ...
NoteFreshness(u) ==
    /\ pc[u] = "note"
    /\ freshness' = [freshness EXCEPT ![FreshnessKey(u)] = got[u].stale]
    /\ pc' = [pc EXCEPT ![u] = "read"]
    /\ UNCHANGED <<refs, ctx, main, batches, batch, got, sem, wg, cache, results,
                   answered>>

\* ... and the goroutine reads it back later, through Freshness.
ReadFreshness(u) ==
    /\ pc[u] = "read"
    /\ got' = [got EXCEPT ![u] = Resolved([hash |-> got[u].hash,
                                            stale |-> freshness[FreshnessKey(u)]])]
    /\ pc' = [pc EXCEPT ![u] = "store"]
    /\ UNCHANGED <<refs, ctx, main, batches, batch, sem, wg, cache, freshness,
                   results, answered>>

Store(u) ==
    /\ pc[u] = "store"
    /\ results' = [results EXCEPT ![u] = got[u]]
    /\ pc' = [pc EXCEPT ![u] = "release"]
    /\ UNCHANGED <<refs, ctx, main, batches, batch, got, sem, wg, cache,
                   freshness, answered>>

\* The deferred calls, last registered first: the slot, then wg.Done.
Release(u) ==
    /\ pc[u] = "release"
    /\ sem' = sem - 1
    /\ pc' = [pc EXCEPT ![u] = "exit"]
    /\ UNCHANGED <<refs, ctx, main, batches, batch, got, wg, cache, freshness,
                   results, answered>>

Exit(u) ==
    /\ pc[u] = "exit"
    /\ wg' = wg - 1
    /\ pc' = [pc EXCEPT ![u] = "done"]
    /\ UNCHANGED <<refs, ctx, main, batches, batch, got, sem, cache, freshness,
                   results, answered>>

\* The loop over refs has ended and wg.Wait returns.
Join ==
    /\ main = "spawn" /\ wg = 0
    /\ \A u \in refs : pc[u] # "idle"
    /\ main' = "joined"
    /\ UNCHANGED <<refs, ctx, batches, batch, pc, got, sem, wg, cache, freshness,
                   results, answered>>

----------------------------------------------------------------------------
\* Steps the client takes by itself, once it can.
LocalStep(u) ==
    \/ Spawn(u) \/ Acquire(u) \/ GiveUp(u) \/ NoResolver(u) \/ CacheHit(u)
    \/ CallStart(u) \/ CallCut(u) \/ NoteFreshness(u) \/ ReadFreshness(u)
    \/ Store(u) \/ Release(u) \/ Exit(u)

LocalBatchStep(e) == BatchStart(e) \/ BatchCut(e)

\* Steps that wait for the platform.
PlatformStep(u) == CallReply(u) \/ CallFails(u)
PlatformBatchStep(e) == BatchReply(e) \/ BatchFails(e)

ResolveNext ==
    \/ ContextEnds
    \/ \E u \in UniqueRef : CacheExpires(u) \/ LocalStep(u) \/ PlatformStep(u)
    \/ \E e \in KnownEcosystem : LocalBatchStep(e) \/ PlatformBatchStep(e)
    \/ PrefetchDone
    \/ Join

\* resolveUnique has returned.
Returned == main = "joined" /\ UNCHANGED resolveVars

\* The Go scheduler runs every goroutine that can run.
LocalFairness ==
    /\ \A u \in UniqueRef : WF_resolveVars(LocalStep(u))
    /\ \A e \in KnownEcosystem : WF_resolveVars(LocalBatchStep(e))
    /\ WF_resolveVars(PrefetchDone \/ Join)

\* Every request ends: an attempt by the HTTP client's 30 second timeout, and
\* the attempts of a request are bounded.
PlatformFairness ==
    /\ \A u \in UniqueRef : WF_resolveVars(PlatformStep(u))
    /\ \A e \in KnownEcosystem : WF_resolveVars(PlatformBatchStep(e))

ResolveSpec ==
    ResolveInit /\ [][ResolveNext \/ Returned]_resolveVars /\ LocalFairness

----------------------------------------------------------------------------
\* When the goroutines have been joined every reference has a result: a zero
\* refResult would have neither an error nor a resolution, and the comparison
\* in detectDriftWithPartialFailure would dereference nil.
JoinComplete ==
    main = "joined" => \A u \in refs : pc[u] = "done" /\ results[u].kind # "none"

\* A result pairs the hash and the stale flag of one answer the platform gave
\* to this very reference during this run, even where two ecosystems hold the
\* same name and their answers cross: a stale hash never becomes evidence by
\* borrowing another answer's freshness.
AnswerIntegrity ==
    \A u \in UniqueRef : results[u].kind = "ok" => AnswerOf(results[u]) \in answered[u]

\* The semaphore counts the goroutines between its two ends, so no more than
\* MaxConcurrentResolves requests are ever in flight and no slot is lost.
SlotsAccounted ==
    /\ sem = Cardinality(Holding)
    /\ sem <= MaxConcurrentResolves

\* Once the context has ended the command gets past the resolving, even if
\* the platform never answers another request.
DeadlineEndsRun == (ctx # "live") ~> (main = "joined")

\* With no deadline at all (--timeout 0) the run ends as long as every
\* request does.
RunEnds == PlatformFairness => <>(main = "joined")
=============================================================================
