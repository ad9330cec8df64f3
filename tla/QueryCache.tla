------------------------------ MODULE QueryCache ------------------------------
(***************************************************************************)
(* retrieval/_query_cache_core.py and query_concurrency.py: the query      *)
(* embedder a server builds, a result cache that lets concurrent calls of  *)
(* one key share a computation, over a gate that bounds the computations.  *)
(*                                                                         *)
(* A call is one task awaiting get_or_compute.  The first call of a key    *)
(* leads: its future is what the others, its followers, await.  Any task   *)
(* may be cancelled while it waits, and cancelling a task cancels the      *)
(* future it awaits.  An embedding runs in a worker thread, which a        *)
(* cancellation does not reach.                                            *)
(*                                                                         *)
(* The order of the OrderedDict is the order of `used`, the number of the  *)
(* use that last moved a key to its end.  `began` and `stampedAt` are      *)
(* history variables: no guard reads them.                                 *)
(***************************************************************************)
EXTENDS Integers, FiniteSets

CONSTANTS Calls,       \* calls of get_or_compute, each made once
          Keys,        \* (query identity, normalized text)
          None,        \* no call, no key
          MaxEntries,  \* entries the cache keeps
          Ttl,         \* age at which an entry expires; 0 for never
          MaxInFlight, \* permits of the gate
          MaxTime      \* bound: the clock stops here

ASSUME CacheAssumption ==
    /\ None \notin Calls \cup Keys
    /\ MaxEntries \in Nat \ {0}
    /\ Ttl \in Nat
    /\ MaxInFlight \in Nat \ {0}
    /\ MaxTime \in Nat

VARIABLES at,         \* call |-> where it is
          key,        \* call |-> the key it asks for, or None
          leader,     \* call |-> the call whose future it gets, or None
          asked,      \* the calls whose task was cancelled
          future,     \* call |-> the state of the future it created
          outcome,    \* call |-> how it ended
          inflight,   \* key |-> the call that leads it, or None
          used,       \* key |-> number of its last use; 0: not cached
          insertedAt, \* key |-> when its value was stored
          uses,       \* how many uses there were
          threads,    \* the calls whose embedding runs in a worker thread
          now,        \* the clock
          began,      \* history: call |-> when it began
          stampedAt   \* history: call |-> when the value it got was stored

vars == <<at, key, leader, asked, future, outcome, inflight, used, insertedAt,
          uses, threads, now, began, stampedAt>>

-----------------------------------------------------------------------------
Live(c)  == at[c] \in {"queued", "permitted", "embedding"}
Holders  == {c \in Calls : at[c] \in {"permitted", "embedding"}}
Waiting  == {c \in Calls : at[c] = "queued" /\ c \notin asked}
Cached   == {k \in Keys : used[k] > 0}
Fresh(k) == k \in Cached /\ (Ttl = 0 \/ now - insertedAt[k] <= Ttl)

Init ==
    /\ at = [c \in Calls |-> "idle"]
    /\ key = [c \in Calls |-> None]
    /\ leader = [c \in Calls |-> None]
    /\ asked = {}
    /\ future = [c \in Calls |-> "none"]
    /\ outcome = [c \in Calls |-> "none"]
    /\ inflight = [k \in Keys |-> None]
    /\ used = [k \in Keys |-> 0]
    /\ insertedAt = [k \in Keys |-> 0]
    /\ uses = 0
    /\ threads = {}
    /\ now = 0
    /\ began = [c \in Calls |-> 0]
    /\ stampedAt = [c \in Calls |-> 0]

Begin(c, k) ==
    /\ at[c] = "idle"
    /\ key' = [key EXCEPT ![c] = k]
    /\ began' = [began EXCEPT ![c] = now]

\* Mutant: an entry older than the bound is still served.
HitOfAnyAge(c, k) ==
    /\ Begin(c, k)
    /\ k \in Cached
    /\ at' = [at EXCEPT ![c] = "ended"]
    /\ outcome' = [outcome EXCEPT ![c] = "value"]
    /\ uses' = uses + 1
    /\ used' = [used EXCEPT ![k] = uses + 1]
    /\ stampedAt' = [stampedAt EXCEPT ![c] = insertedAt[k]]
    /\ UNCHANGED <<leader, asked, future, inflight, insertedAt, threads, now>>

\* The cached value, moved to the end of the order.
Hit(c, k) ==
    /\ Begin(c, k)
    /\ Fresh(k)
    /\ at' = [at EXCEPT ![c] = "ended"]
    /\ outcome' = [outcome EXCEPT ![c] = "value"]
    /\ uses' = uses + 1
    /\ used' = [used EXCEPT ![k] = uses + 1]
    /\ stampedAt' = [stampedAt EXCEPT ![c] = insertedAt[k]]
    /\ UNCHANGED <<leader, asked, future, inflight, insertedAt, threads, now>>

\* Not cached, or expired and dropped by the lookup.
Missed(c, k) ==
    /\ Begin(c, k)
    /\ ~Fresh(k)
    /\ used' = [used EXCEPT ![k] = 0]
    /\ UNCHANGED <<asked, insertedAt, uses, now, stampedAt>>

\* A follower awaits the future of the call that leads its key; a future that
\* is already cancelled raises at once.
Join(c, k) ==
    /\ Missed(c, k)
    /\ inflight[k] # None
    /\ leader' = [leader EXCEPT ![c] = inflight[k]]
    /\ IF future[inflight[k]] = "pending"
       THEN /\ at' = [at EXCEPT ![c] = "follows"]
            /\ UNCHANGED outcome
       ELSE /\ at' = [at EXCEPT ![c] = "ended"]
            /\ outcome' = [outcome EXCEPT ![c] = future[inflight[k]]]
    /\ UNCHANGED <<future, inflight, threads>>

\* Mutant: the key is reserved only once the gate let the leader through.
LeadUnreserved(c, k) ==
    /\ Missed(c, k)
    /\ inflight[k] = None
    /\ leader' = [leader EXCEPT ![c] = c]
    /\ future' = [future EXCEPT ![c] = "pending"]
    /\ IF Waiting = {} /\ Cardinality(Holders) < MaxInFlight
       THEN /\ at' = [at EXCEPT ![c] = "embedding"]
            /\ inflight' = [inflight EXCEPT ![k] = c]
            /\ threads' = threads \cup {c}
       ELSE /\ at' = [at EXCEPT ![c] = "queued"]
            /\ UNCHANGED <<inflight, threads>>
    /\ UNCHANGED outcome

\* The first call of a key reserves it, then goes to the gate.
Lead(c, k) ==
    /\ Missed(c, k)
    /\ inflight[k] = None
    /\ leader' = [leader EXCEPT ![c] = c]
    /\ future' = [future EXCEPT ![c] = "pending"]
    /\ inflight' = [inflight EXCEPT ![k] = c]
    /\ IF Waiting = {} /\ Cardinality(Holders) < MaxInFlight
       THEN /\ at' = [at EXCEPT ![c] = "embedding"]
            /\ threads' = threads \cup {c}
       ELSE /\ at' = [at EXCEPT ![c] = "queued"]
            /\ UNCHANGED threads
    /\ UNCHANGED outcome

\* A waiter that was given a permit resumes and starts its embedding.
StartEmbedding(c) ==
    /\ at[c] = "permitted"
    /\ c \notin asked
    /\ at' = [at EXCEPT ![c] = "embedding"]
    /\ threads' = threads \cup {c}
    /\ UNCHANGED <<key, leader, asked, future, outcome, inflight, used,
                   insertedAt, uses, now, began, stampedAt>>

-----------------------------------------------------------------------------
(* The end of a leader. *)

\* The call is over; its permit goes to a waiter.
Release(c) ==
    \/ /\ Waiting = {}
       /\ at' = [at EXCEPT ![c] = "ended"]
    \/ \E w \in Waiting : at' = [at EXCEPT ![c] = "ended", ![w] = "permitted"]

\* The future is settled, unless it was cancelled: setting a future that is
\* already done raises.  The key is free again either way.
Settle(c, result) ==
    /\ inflight' = [inflight EXCEPT ![key[c]] = None]
    /\ IF future[c] = "pending"
       THEN /\ future' = [future EXCEPT ![c] = result]
            /\ outcome' = [outcome EXCEPT ![c] = result]
       ELSE /\ outcome' = [outcome EXCEPT ![c] = "invalid"]
            /\ UNCHANGED future

Oldest(u) == CHOOSE k \in Keys : u[k] > 0 /\ \A j \in Keys : u[j] > 0 => u[k] <= u[j]

\* Over its size the cache drops the key that was used least recently.
Evicted(u) ==
    IF Cardinality({k \in Keys : u[k] > 0}) > MaxEntries
    THEN [u EXCEPT ![Oldest(u)] = 0]
    ELSE u

\* The value is stored only if the future took it.
EmbeddingReturns(c) ==
    /\ at[c] = "embedding"
    /\ c \notin asked
    /\ Release(c)
    /\ Settle(c, "value")
    /\ threads' = threads \ {c}
    /\ IF future[c] = "pending"
       THEN /\ uses' = uses + 1
            /\ used' = Evicted([used EXCEPT ![key[c]] = uses + 1])
            /\ insertedAt' = [insertedAt EXCEPT ![key[c]] = now]
            /\ stampedAt' = [stampedAt EXCEPT ![c] = now]
       ELSE UNCHANGED <<uses, used, insertedAt, stampedAt>>
    /\ UNCHANGED <<key, leader, asked, now, began>>

EmbeddingFails(c) ==
    /\ at[c] = "embedding"
    /\ c \notin asked
    /\ Release(c)
    /\ Settle(c, "failed")
    /\ threads' = threads \ {c}
    /\ UNCHANGED <<key, leader, asked, used, insertedAt, uses, now, began,
                   stampedAt>>

-----------------------------------------------------------------------------
(* Cancellation. *)

\* A leader learns of it at its next step; its worker thread never does.
CancelLeader(c) ==
    /\ Live(c)
    /\ c \notin asked
    /\ asked' = asked \cup {c}
    /\ UNCHANGED <<at, key, leader, future, outcome, inflight, used,
                   insertedAt, uses, threads, now, began, stampedAt>>

\* Mutant: a cancelled leader ends without a word to its followers.
LeaderLeaves(c) ==
    /\ Live(c)
    /\ c \in asked
    /\ IF at[c] = "queued" THEN at' = [at EXCEPT ![c] = "ended"] ELSE Release(c)
    /\ inflight' = [inflight EXCEPT ![key[c]] = None]
    /\ outcome' = [outcome EXCEPT ![c] = "cancelled"]
    /\ UNCHANGED <<key, leader, asked, future, used, insertedAt, uses, threads,
                   now, began, stampedAt>>

LeaderCancelled(c) ==
    /\ Live(c)
    /\ c \in asked
    /\ IF at[c] = "queued" THEN at' = [at EXCEPT ![c] = "ended"] ELSE Release(c)
    /\ Settle(c, "cancelled")
    /\ UNCHANGED <<key, leader, asked, used, insertedAt, uses, threads, now,
                   began, stampedAt>>

\* The task of a follower cancels the future it awaits: its leader's.
CancelFollower(c) ==
    /\ at[c] = "follows"
    /\ c \notin asked
    /\ asked' = asked \cup {c}
    /\ future' = [future EXCEPT ![leader[c]] = IF @ = "pending" THEN "cancelled" ELSE @]
    /\ UNCHANGED <<at, key, leader, outcome, inflight, used, insertedAt, uses,
                   threads, now, began, stampedAt>>

\* Mutant: a follower resumes before the future is done.
FollowerRushes(c) ==
    /\ at[c] = "follows"
    /\ at' = [at EXCEPT ![c] = "ended"]
    /\ outcome' = [outcome EXCEPT ![c] = IF c \in asked THEN "cancelled" ELSE future[leader[c]]]
    /\ stampedAt' = [stampedAt EXCEPT ![c] = stampedAt[leader[c]]]
    /\ UNCHANGED <<key, leader, asked, future, inflight, used, insertedAt,
                   uses, threads, now, began>>

FollowerResumes(c) ==
    /\ at[c] = "follows"
    /\ future[leader[c]] # "pending"
    /\ at' = [at EXCEPT ![c] = "ended"]
    /\ outcome' = [outcome EXCEPT ![c] = IF c \in asked THEN "cancelled" ELSE future[leader[c]]]
    /\ stampedAt' = [stampedAt EXCEPT ![c] = stampedAt[leader[c]]]
    /\ UNCHANGED <<key, leader, asked, future, inflight, used, insertedAt,
                   uses, threads, now, began>>

\* The thread of a leader that was cancelled runs to its end.
ThreadEnds(c) ==
    /\ c \in threads
    /\ at[c] = "ended"
    /\ threads' = threads \ {c}
    /\ UNCHANGED <<at, key, leader, asked, future, outcome, inflight, used,
                   insertedAt, uses, now, began, stampedAt>>

Tick ==
    /\ now < MaxTime
    /\ now' = now + 1
    /\ UNCHANGED <<at, key, leader, asked, future, outcome, inflight, used,
                   insertedAt, uses, threads, began, stampedAt>>

-----------------------------------------------------------------------------
Runs(c) ==
    \/ StartEmbedding(c) \/ EmbeddingReturns(c) \/ EmbeddingFails(c)
    \/ LeaderCancelled(c) \/ FollowerResumes(c) \/ ThreadEnds(c)

Next ==
    \/ \E c \in Calls, k \in Keys : Hit(c, k) \/ Join(c, k) \/ Lead(c, k)
    \/ \E c \in Calls : CancelLeader(c) \/ CancelFollower(c) \/ Runs(c)
    \/ Tick

Spec == Init /\ [][Next]_vars

\* The loop resumes every runnable task, and every embedding comes back.
FairSpec == Spec /\ \A c \in Calls : WF_vars(Runs(c))

-----------------------------------------------------------------------------
(* Properties. *)

States   == {"idle", "queued", "permitted", "embedding", "follows", "ended"}
Outcomes == {"none", "value", "failed", "cancelled", "invalid"}
Futures  == {"none", "pending", "value", "failed", "cancelled"}

\* Every variable keeps its type: a call ends with a value or an error of its
\* own, never with a future that is still pending.
TypeOK ==
    /\ at \in [Calls -> States]
    /\ key \in [Calls -> Keys \cup {None}]
    /\ leader \in [Calls -> Calls \cup {None}]
    /\ asked \subseteq Calls
    /\ future \in [Calls -> Futures]
    /\ outcome \in [Calls -> Outcomes]
    /\ inflight \in [Keys -> Calls \cup {None}]
    /\ used \in [Keys -> Nat]
    /\ insertedAt \in [Keys -> Nat]
    /\ uses \in Nat
    /\ threads \subseteq Calls
    /\ now \in Nat
    /\ began \in [Calls -> Nat]
    /\ stampedAt \in [Calls -> Nat]

\* A key is computed by one call at a time, the one get_or_compute reserved it
\* for, and never while its value is in the cache: cancellations, failures,
\* expiry and eviction included.
OneComputation ==
    /\ \A c \in Calls : Live(c) => inflight[key[c]] = c
    /\ \A k \in Keys :
           inflight[k] # None => /\ Live(inflight[k]) /\ key[inflight[k]] = k
                                 /\ used[k] = 0

\* A follower that still waits has a leader that will settle the future it
\* waits for: however a leader ends, nobody is left awaiting it.
FollowersAreHeard ==
    \A c \in Calls :
        at[c] = "follows" =>
            /\ leader[c] \in Calls
            /\ future[leader[c]] = "pending" => Live(leader[c])

\* The value a call gets, from the cache, from its own computation or from the
\* one it joined, was never past its age when the call began.
AnswersAreFresh ==
    \A c \in Calls : outcome[c] = "value" => Ttl = 0 \/ began[c] - stampedAt[c] <= Ttl

\* Every call of get_or_compute ends, if embeddings come back.
EveryCallEnds == \A c \in Calls : at[c] # "idle" ~> at[c] = "ended"

\* A call that was not cancelled ends with an error only if the call that led
\* it failed or was cancelled: "a failing leader fans its exception out to
\* every follower", and nothing else makes a call fail.
ErrorsComeFromTheLeader ==
    \A c \in Calls :
        at[c] = "ended" /\ outcome[c] # "value" /\ c \notin asked =>
            leader[c] \in asked \/ outcome[leader[c]] = "failed"

\* BoundedQueryEmbedder: "at most max_in_flight embeddings at a time".
EmbeddingsAreBounded == Cardinality(threads) <= MaxInFlight
=============================================================================
