------------------------------ MODULE Answers ------------------------------
(***************************************************************************)
(* The vocabulary the resolving commands share: what is asked of the SCG   *)
(* platform, what it answers, and what a caller is left with.              *)
(***************************************************************************)
EXTENDS FiniteSets

CONSTANTS
    Ecosystem,          \* ecosystems that occur in lockfiles and projects
    KnownEcosystem,     \* those buildResolvers has a resolver for
    Name,               \* references as written, e.g. "six@1.16.0"
    Hash,               \* digests
    NoHash,             \* the empty digest of a zero ResolveResponse
    Answer              \* the answers the platform may give

\* A reference alone is not an identity: the key is (ecosystem, reference).
UniqueRef == [eco : Ecosystem, name : Name]

ASSUME EcosystemAssumption == KnownEcosystem \subseteq Ecosystem
ASSUME FinitenessAssumption == IsFiniteSet(UniqueRef)
ASSUME HashAssumption == NoHash \notin Hash
ASSUME AnswerAssumption == Answer \subseteq [hash : Hash \cup {NoHash}, stale : BOOLEAN]

\* What resolving one reference produced (refResult, and a cache entry).
Outcome == [kind : {"none", "failed", "ok"}, hash : Hash \cup {NoHash}, stale : BOOLEAN]

NoOutcome == [kind |-> "none", hash |-> NoHash, stale |-> FALSE]
Failed == [kind |-> "failed", hash |-> NoHash, stale |-> FALSE]
Resolved(a) == [kind |-> "ok", hash |-> a.hash, stale |-> a.stale]

AnswerOf(o) == [hash |-> o.hash, stale |-> o.stale]
=============================================================================
