--------------------------- MODULE QueryCacheProofs ---------------------------
(***************************************************************************)
(* Proofs about QueryCache for any calls, keys, sizes, ages and bounds: a  *)
(* key is computed once at a time, no follower is left behind, and no      *)
(* answer is past its age.                                                 *)
(***************************************************************************)
EXTENDS QueryCache, TLAPS

\* What a call's place says of its key, its leader, its future, its outcome.
CallInv ==
    /\ \A c \in Calls : at[c] # "idle" => key[c] \in Keys
    /\ \A c \in Calls : at[c] # "ended" => outcome[c] = "none"
    /\ \A c \in Calls : at[c] \in {"idle", "follows"} => future[c] = "none"
    /\ \A c \in Calls : Live(c) => leader[c] = c /\ future[c] \in {"pending", "cancelled"}
    /\ \A c \in Calls : future[c] = "pending" => Live(c)

\* A follower began before the future it awaits got its value.
FollowInv ==
    \A c \in Calls : at[c] = "follows" =>
        /\ leader[c] \in Calls
        /\ future[leader[c]] # "none"
        /\ future[leader[c]] = "value" => began[c] <= stampedAt[leader[c]]

\* No call began in the future.
BeganInv == \A c \in Calls : began[c] <= now

IInv == TypeOK /\ CallInv /\ FollowInv /\ BeganInv /\ OneComputation /\ AnswersAreFresh

-----------------------------------------------------------------------------
(* The helpers. *)

\* Eviction only removes entries.
LEMMA EvictedRemoves ==
    ASSUME NEW u \in [Keys -> Nat]
    PROVE  /\ Evicted(u) \in [Keys -> Nat]
           /\ \A k \in Keys : Evicted(u)[k] \in {0, u[k]}
BY DEF Evicted

\* Releasing a permit ends the call and moves at most one waiter, which stays
\* a live leader.
LEMMA ReleaseEnds ==
    ASSUME TypeOK, NEW c \in Calls, Live(c), Release(c)
    PROVE  /\ at' \in [Calls -> States]
           /\ at'[c] = "ended"
           /\ \A d \in Calls \ {c} :
                 \/ at'[d] = at[d]
                 \/ at[d] = "queued" /\ at'[d] = "permitted"
BY DEF TypeOK, Release, States, Waiting

\* However a leader ends, it leaves its place the way Release does.
LEMMA LeaderEnds ==
    ASSUME IInv, NEW c \in Calls, Live(c), NEW result \in {"value", "failed", "cancelled"},
           Settle(c, result),
           at' \in [Calls -> States],
           at'[c] = "ended",
           \A d \in Calls \ {c} :
               \/ at'[d] = at[d]
               \/ at[d] = "queued" /\ at'[d] = "permitted",
           UNCHANGED <<key, leader, asked, now, began>>,
           used' \in [Keys -> Nat],
           \A k \in Keys \ {key[c]} : used'[k] \in {0, used[k]},
           stampedAt' \in [Calls -> Nat],
           \A d \in Calls \ {c} : stampedAt'[d] = stampedAt[d],
           result = "value" /\ future[c] = "pending" => stampedAt'[c] = now
    PROVE  /\ future' \in [Calls -> Futures]
           /\ outcome' \in [Calls -> Outcomes]
           /\ inflight' \in [Keys -> Calls \cup {None}]
           /\ CallInv' /\ FollowInv' /\ BeganInv' /\ OneComputation' /\ AnswersAreFresh'
<1>1. key[c] \in Keys /\ inflight[key[c]] = c /\ leader[c] = c
      /\ future[c] \in {"pending", "cancelled"}
  BY DEF IInv, CallInv, OneComputation, Live
<1>2. future' = [future EXCEPT ![c] = IF @ = "pending" THEN result ELSE @]
  BY <1>1 DEF Settle, IInv, TypeOK
<1>3. outcome' = [outcome EXCEPT ![c] = IF future[c] = "pending" THEN result ELSE "invalid"]
  BY DEF Settle
<1>4. inflight' = [inflight EXCEPT ![key[c]] = None]
  BY DEF Settle
<1>5. /\ future' \in [Calls -> Futures]
      /\ outcome' \in [Calls -> Outcomes]
      /\ inflight' \in [Keys -> Calls \cup {None}]
  BY <1>2, <1>3, <1>4 DEF IInv, TypeOK, Futures, Outcomes
<1>6. \A d \in Calls \ {c} : Live(d)' <=> Live(d)
  BY DEF Live
<1>7. ~Live(c)'
  BY DEF Live
<1>8. CallInv'
  <2>1. \A d \in Calls : (at[d] # "idle" => key[d] \in Keys)'
    BY <1>1 DEF IInv, CallInv
  <2>2. \A d \in Calls : (at[d] # "ended" => outcome[d] = "none")'
    BY <1>3 DEF IInv, CallInv, TypeOK
  <2>5. \A d \in Calls : (at[d] \in {"idle", "follows"} => future[d] = "none")'
    BY <1>2 DEF IInv, CallInv, TypeOK
  <2>3. \A d \in Calls : (Live(d) => leader[d] = d /\ future[d] \in {"pending", "cancelled"})'
    BY <1>2, <1>6, <1>7 DEF IInv, CallInv, TypeOK
  <2>4. \A d \in Calls : (future[d] = "pending" => Live(d))'
    BY <1>2, <1>6 DEF IInv, CallInv, TypeOK
  <2> QED
    BY <2>1, <2>2, <2>3, <2>4, <2>5 DEF CallInv
<1>9. FollowInv'
  <2> SUFFICES ASSUME NEW d \in Calls, at'[d] = "follows"
               PROVE  /\ leader[d] \in Calls
                      /\ future'[leader[d]] # "none"
                      /\ future'[leader[d]] = "value" => began[d] <= stampedAt'[leader[d]]
    BY DEF FollowInv
  <2>1. at[d] = "follows"
    OBVIOUS
  <2>2. leader[d] \in Calls /\ future[leader[d]] # "none" /\ began[d] <= now
    BY <2>1 DEF IInv, FollowInv, BeganInv
  <2>3. CASE leader[d] = c
    BY <2>2, <2>3, <1>1, <1>2 DEF IInv, TypeOK
  <2>4. CASE leader[d] # c
    BY <2>1, <2>2, <2>4, <1>2 DEF IInv, FollowInv, TypeOK
  <2> QED
    BY <2>3, <2>4
<1>10. BeganInv'
  BY DEF IInv, BeganInv
<1>11. OneComputation'
  <2>1. SUFFICES
          /\ \A d \in Calls : (Live(d) => inflight[key[d]] = d)'
          /\ \A k \in Keys : (inflight[k] # None =>
              /\ Live(inflight[k]) /\ key[inflight[k]] = k
              /\ used[k] = 0)'
    BY Zenon DEF OneComputation
  <2>2. ASSUME NEW d \in Calls, Live(d)'
        PROVE  (inflight[key[d]] = d)'
    <3>1. d # c /\ Live(d)
      BY <1>6, <1>7, <2>2
    <3>2. inflight[key[d]] = d /\ key[d] \in Keys
      BY <3>1 DEF IInv, OneComputation, CallInv, Live
    <3> QED
      BY <3>1, <3>2, <1>1, <1>4 DEF IInv, TypeOK
  <2>3. ASSUME NEW k \in Keys, inflight'[k] # None
        PROVE  (Live(inflight[k]) /\ key[inflight[k]] = k /\ used[k] = 0)'
    <3>1. k # key[c] /\ inflight'[k] = inflight[k]
      BY <2>3, <1>1, <1>4 DEF IInv, TypeOK
    <3>2. inflight[k] \in Calls /\ Live(inflight[k]) /\ key[inflight[k]] = k /\ used[k] = 0
      BY <3>1, <2>3 DEF IInv, TypeOK, OneComputation
    <3>3. inflight[k] # c
      BY <3>1, <3>2
    <3>4. used'[k] = 0
      BY <3>1, <3>2
    <3> QED
      BY <3>1, <3>2, <3>3, <3>4, <1>6 DEF Live
  <2> QED
    BY <2>2, <2>3
<1>12. AnswersAreFresh'
  <2> SUFFICES ASSUME NEW d \in Calls, outcome'[d] = "value", Ttl # 0
               PROVE  began[d] - stampedAt'[d] <= Ttl
    BY DEF AnswersAreFresh
  <2>1. CASE d = c
    <3>1. stampedAt'[c] = now
      BY <2>1, <1>3 DEF IInv, TypeOK
    <3> QED
      BY <3>1, <2>1, CacheAssumption DEF IInv, BeganInv, TypeOK
  <2>2. CASE d # c
    BY <2>2, <1>3 DEF IInv, AnswersAreFresh, TypeOK
  <2> QED
    BY <2>1, <2>2
<1> QED
  BY <1>5, <1>8, <1>9, <1>10, <1>11, <1>12

-----------------------------------------------------------------------------
(* The invariant. *)

\* Before any call there is nothing to share.
LEMMA InitIInv == Init => IInv
BY CacheAssumption
   DEF Init, IInv, TypeOK, CallInv, FollowInv, BeganInv, OneComputation,
       AnswersAreFresh, Live, States, Outcomes, Futures

\* A hit answers with a value that was fresh when the call began.
LEMMA HitIInv == ASSUME IInv, NEW c \in Calls, NEW k \in Keys, Hit(c, k) PROVE IInv'
<1>1. TypeOK'
  BY DEF IInv, TypeOK, Hit, Begin, States, Outcomes
<1>2. \A d \in Calls : Live(d)' <=> Live(d)
  BY DEF IInv, TypeOK, Hit, Begin, Live
<1>3. CallInv'
  <2>1. \A d \in Calls : (at[d] # "idle" => key[d] \in Keys)'
    BY DEF IInv, TypeOK, CallInv, Hit, Begin
  <2>2. \A d \in Calls : (at[d] # "ended" => outcome[d] = "none")'
    BY DEF IInv, TypeOK, CallInv, Hit, Begin
  <2>5. \A d \in Calls : (at[d] \in {"idle", "follows"} => future[d] = "none")'
    BY DEF IInv, TypeOK, CallInv, Hit, Begin
  <2>3. \A d \in Calls : (Live(d) => leader[d] = d /\ future[d] \in {"pending", "cancelled"})'
    BY <1>2 DEF IInv, CallInv, Hit
  <2>4. \A d \in Calls : (future[d] = "pending" => Live(d))'
    BY <1>2 DEF IInv, CallInv, Hit
  <2> QED
    BY <2>1, <2>2, <2>3, <2>4, <2>5 DEF CallInv
<1>4. FollowInv'
  <2> SUFFICES ASSUME NEW d \in Calls, at'[d] = "follows"
               PROVE  /\ leader[d] \in Calls
                      /\ future[leader[d]] # "none"
                      /\ future[leader[d]] = "value" => began'[d] <= stampedAt'[leader[d]]
    BY DEF FollowInv, Hit
  <2>1. at[d] = "follows" /\ d # c
    BY DEF Hit, Begin, IInv, TypeOK
  <2>2. leader[d] # c
    BY <2>1 DEF IInv, FollowInv, CallInv, Hit, Begin
  <2> QED
    BY <2>1, <2>2 DEF IInv, TypeOK, FollowInv, Hit, Begin
<1>5. BeganInv'
  BY DEF IInv, TypeOK, BeganInv, Hit, Begin
<1>6. OneComputation'
  <2>1. inflight[k] = None
    BY DEF IInv, TypeOK, OneComputation, Hit, Fresh, Cached
  <2>2. \A d \in Calls : (Live(d) => inflight[key[d]] = d)'
    BY <1>2 DEF IInv, TypeOK, OneComputation, Hit, Begin, Live
  <2>3. \A j \in Keys : (inflight[j] # None =>
              /\ Live(inflight[j]) /\ key[inflight[j]] = j
              /\ used[j] = 0)'
    BY <1>2, <2>1 DEF IInv, TypeOK, OneComputation, Hit, Begin, Live
  <2> QED
    BY <2>2, <2>3, Zenon DEF OneComputation
<1>7. AnswersAreFresh'
  BY DEF IInv, TypeOK, AnswersAreFresh, Hit, Begin, Fresh
<1> QED
  BY <1>1, <1>3, <1>4, <1>5, <1>6, <1>7 DEF IInv

\* What a lookup that misses leaves in place for the calls that came before.
LEMMA MissedKeeps ==
    ASSUME IInv, NEW c \in Calls, NEW k \in Keys, Missed(c, k)
    PROVE  /\ at[c] = "idle" /\ outcome[c] = "none" /\ future[c] = "none"
           /\ key' \in [Calls -> Keys \cup {None}]
           /\ key'[c] = k /\ \A d \in Calls \ {c} : key'[d] = key[d]
           /\ used' \in [Keys -> Nat]
           /\ used'[k] = 0 /\ \A j \in Keys : used[j] = 0 => used'[j] = 0
           /\ began' \in [Calls -> Nat]
           /\ began'[c] = now /\ \A d \in Calls \ {c} : began'[d] = began[d]
           /\ UNCHANGED <<asked, insertedAt, uses, now, stampedAt>>
           /\ BeganInv'
           /\ \A d \in Calls : at[d] = "follows" => leader[d] # c
BY DEF IInv, TypeOK, CallInv, FollowInv, BeganInv, Missed, Begin

\* A call that joins has a live leader, or ends with its cancellation.
LEMMA JoinIInv == ASSUME IInv, NEW c \in Calls, NEW k \in Keys, Join(c, k) PROVE IInv'
<1> DEFINE l == inflight[k]
<1>m. Missed(c, k) /\ l # None
  BY DEF Join
<1>1. l \in Calls /\ l # c /\ Live(l) /\ leader[l] = l /\ future[l] \in {"pending", "cancelled"}
  BY <1>m, MissedKeeps DEF IInv, TypeOK, OneComputation, CallInv, Live
<1>2. /\ leader' = [leader EXCEPT ![c] = l]
      /\ at' = [at EXCEPT ![c] = IF future[l] = "pending" THEN "follows" ELSE "ended"]
      /\ outcome' = [outcome EXCEPT ![c] = IF future[l] = "pending" THEN @ ELSE "cancelled"]
      /\ UNCHANGED <<future, inflight, threads>>
  BY <1>1 DEF Join, IInv, TypeOK
<1>3. TypeOK'
  BY <1>m, <1>1, <1>2, MissedKeeps DEF IInv, TypeOK, States, Outcomes
<1>4. \A d \in Calls : Live(d)' <=> Live(d)
  BY <1>m, <1>2, MissedKeeps DEF IInv, TypeOK, Live
<1>5. CallInv'
  <2>1. \A d \in Calls : (at[d] # "idle" => key[d] \in Keys)'
    BY <1>m, <1>2, MissedKeeps DEF IInv, TypeOK, CallInv
  <2>2. \A d \in Calls : (at[d] # "ended" => outcome[d] = "none")'
    BY <1>m, <1>2, MissedKeeps DEF IInv, TypeOK, CallInv
  <2>3. \A d \in Calls : (at[d] \in {"idle", "follows"} => future[d] = "none")'
    BY <1>m, <1>2, MissedKeeps DEF IInv, TypeOK, CallInv
  <2>4. \A d \in Calls : (Live(d) => leader[d] = d /\ future[d] \in {"pending", "cancelled"})'
    BY <1>m, <1>2, <1>4, MissedKeeps DEF IInv, TypeOK, CallInv, Live
  <2>5. \A d \in Calls : (future[d] = "pending" => Live(d))'
    BY <1>2, <1>4 DEF IInv, CallInv
  <2> QED
    BY <2>1, <2>2, <2>3, <2>4, <2>5 DEF CallInv
<1>6. FollowInv'
  BY <1>m, <1>1, <1>2, MissedKeeps DEF IInv, TypeOK, FollowInv
<1>7. OneComputation'
  <2>1. \A d \in Calls : (Live(d) => inflight[key[d]] = d)'
    BY <1>m, <1>2, <1>4, MissedKeeps DEF IInv, OneComputation, Live
  <2>2. \A j \in Keys : (inflight[j] # None =>
              /\ Live(inflight[j]) /\ key[inflight[j]] = j
              /\ used[j] = 0)'
    BY <1>m, <1>2, <1>4, MissedKeeps DEF IInv, TypeOK, OneComputation, Live
  <2> QED
    BY <2>1, <2>2, Zenon DEF OneComputation
<1>8. AnswersAreFresh'
  BY <1>m, <1>2, MissedKeeps DEF IInv, TypeOK, AnswersAreFresh
<1> QED
  BY <1>m, <1>3, <1>5, <1>6, <1>7, <1>8, MissedKeeps DEF IInv

\* A leader reserves its key before its first await, wherever the gate puts it.
LEMMA LeadIInv == ASSUME IInv, NEW c \in Calls, NEW k \in Keys, Lead(c, k) PROVE IInv'
<1>m. Missed(c, k) /\ inflight[k] = None
  BY DEF Lead
<1>2. /\ leader' = [leader EXCEPT ![c] = c]
      /\ future' = [future EXCEPT ![c] = "pending"]
      /\ inflight' = [inflight EXCEPT ![k] = c]
      /\ \E place \in {"embedding", "queued"} : at' = [at EXCEPT ![c] = place]
      /\ threads' \subseteq Calls
      /\ UNCHANGED outcome
  BY DEF Lead, IInv, TypeOK
<1>3. TypeOK'
  BY <1>m, <1>2, MissedKeeps DEF IInv, TypeOK, States, Futures
<1>4. Live(c)' /\ \A d \in Calls \ {c} : Live(d)' <=> Live(d)
  BY <1>m, <1>2, MissedKeeps DEF IInv, TypeOK, Live
<1>5. CallInv'
  <2>1. \A d \in Calls : (at[d] # "idle" => key[d] \in Keys)'
    BY <1>m, <1>2, MissedKeeps DEF IInv, TypeOK, CallInv
  <2>2. \A d \in Calls : (at[d] # "ended" => outcome[d] = "none")'
    BY <1>m, <1>2, MissedKeeps DEF IInv, TypeOK, CallInv
  <2>3. \A d \in Calls : (at[d] \in {"idle", "follows"} => future[d] = "none")'
    BY <1>m, <1>2, MissedKeeps DEF IInv, TypeOK, CallInv
  <2>4. \A d \in Calls : (Live(d) => leader[d] = d /\ future[d] \in {"pending", "cancelled"})'
    BY <1>2, <1>4 DEF IInv, TypeOK, CallInv
  <2>5. \A d \in Calls : (future[d] = "pending" => Live(d))'
    BY <1>2, <1>4 DEF IInv, TypeOK, CallInv
  <2> QED
    BY <2>1, <2>2, <2>3, <2>4, <2>5 DEF CallInv
<1>6. FollowInv'
  BY <1>m, <1>2, MissedKeeps DEF IInv, TypeOK, FollowInv
<1>7. OneComputation'
  <2>1. \A d \in Calls : (Live(d) => inflight[key[d]] = d)'
    <3> SUFFICES ASSUME NEW d \in Calls, Live(d)'
                 PROVE  (inflight[key[d]] = d)'
      BY Zenon
    <3>1. CASE d = c
      BY <3>1, <1>m, <1>2, MissedKeeps DEF IInv, TypeOK
    <3>2. CASE d # c
      <4>1. Live(d) /\ inflight[key[d]] = d /\ key[d] \in Keys /\ key[d] # k
        BY <3>2, <1>m, <1>4, CacheAssumption DEF IInv, OneComputation, CallInv, Live
      <4> QED
        BY <3>2, <4>1, <1>m, <1>2, MissedKeeps DEF IInv, TypeOK
    <3> QED
      BY <3>1, <3>2
  <2>2. \A j \in Keys : (inflight[j] # None =>
              /\ Live(inflight[j]) /\ key[inflight[j]] = j
              /\ used[j] = 0)'
    <3> SUFFICES ASSUME NEW j \in Keys, (inflight[j] # None)'
                 PROVE  (Live(inflight[j]) /\ key[inflight[j]] = j /\ used[j] = 0)'
      BY Zenon
    <3>1. CASE j = k
      BY <3>1, <1>m, <1>2, <1>4, MissedKeeps DEF IInv, TypeOK, Live
    <3>2. CASE j # k
      <4>1. /\ inflight'[j] = inflight[j] /\ inflight[j] \in Calls \ {c}
            /\ Live(inflight[j]) /\ key[inflight[j]] = j /\ used[j] = 0
        BY <3>2, <1>m, <1>2, MissedKeeps DEF IInv, TypeOK, OneComputation, Live
      <4> QED
        BY <4>1, <1>m, <1>4, MissedKeeps DEF Live
    <3> QED
      BY <3>1, <3>2
  <2> QED
    BY <2>1, <2>2, Zenon DEF OneComputation
<1>8. AnswersAreFresh'
  BY <1>m, <1>2, MissedKeeps DEF IInv, TypeOK, AnswersAreFresh
<1> QED
  BY <1>m, <1>3, <1>5, <1>6, <1>7, <1>8, MissedKeeps DEF IInv

\* An embedding that starts is the one its leader was let through for.
LEMMA StartEmbeddingIInv ==
    ASSUME IInv, NEW c \in Calls, StartEmbedding(c) PROVE IInv'
<1>1. TypeOK'
  BY DEF IInv, TypeOK, StartEmbedding, States
<1>2. \A d \in Calls : Live(d)' <=> Live(d)
  BY DEF IInv, TypeOK, StartEmbedding, Live
<1>3. CallInv'
  BY <1>2 DEF IInv, TypeOK, CallInv, StartEmbedding, Live
<1>4. FollowInv' /\ BeganInv' /\ AnswersAreFresh'
  BY DEF IInv, TypeOK, FollowInv, BeganInv, AnswersAreFresh, StartEmbedding
<1>5. OneComputation'
  <2>1. \A d \in Calls : (Live(d) => inflight[key[d]] = d)'
    BY <1>2 DEF IInv, OneComputation, StartEmbedding, Live
  <2>2. \A k \in Keys : (inflight[k] # None =>
              /\ Live(inflight[k]) /\ key[inflight[k]] = k
              /\ used[k] = 0)'
    BY <1>2 DEF IInv, TypeOK, OneComputation, StartEmbedding, Live
  <2> QED
    BY <2>1, <2>2, Zenon DEF OneComputation
<1> QED
  BY <1>1, <1>3, <1>4, <1>5 DEF IInv

\* A value that comes back is stored and fanned out, or dropped.
LEMMA EmbeddingReturnsIInv ==
    ASSUME IInv, NEW c \in Calls, EmbeddingReturns(c) PROVE IInv'
<1>1. Live(c) /\ TypeOK /\ key[c] \in Keys
  BY DEF EmbeddingReturns, Live, IInv, CallInv
<1>2. /\ at' \in [Calls -> States] /\ at'[c] = "ended"
      /\ \A d \in Calls \ {c} :
            \/ at'[d] = at[d]
            \/ at[d] = "queued" /\ at'[d] = "permitted"
  BY <1>1, ReleaseEnds DEF EmbeddingReturns
<1>3. /\ used' \in [Keys -> Nat]
      /\ \A k \in Keys \ {key[c]} : used'[k] \in {0, used[k]}
      /\ uses' \in Nat
  <2> DEFINE stored == [used EXCEPT ![key[c]] = uses + 1]
  <2>1. stored \in [Keys -> Nat] /\ \A k \in Keys \ {key[c]} : stored[k] = used[k]
    BY <1>1 DEF TypeOK
  <2>2. CASE future[c] = "pending"
    <3>1. used' = Evicted(stored) /\ uses' = uses + 1
      BY <2>2 DEF EmbeddingReturns
    <3>2. \A k \in Keys : Evicted(stored)[k] \in {0, stored[k]}
      BY <2>1, EvictedRemoves
    <3>3. Evicted(stored) \in [Keys -> Nat]
      BY <2>1, EvictedRemoves
    <3> HIDE DEF stored
    <3> QED
      BY <2>1, <3>1, <3>2, <3>3, <1>1 DEF TypeOK
  <2>3. CASE future[c] # "pending"
    BY <2>3, <1>1 DEF EmbeddingReturns, TypeOK
  <2> QED
    BY <2>2, <2>3
<1>4. /\ stampedAt' \in [Calls -> Nat]
      /\ \A d \in Calls \ {c} : stampedAt'[d] = stampedAt[d]
      /\ future[c] = "pending" => stampedAt'[c] = now
      /\ insertedAt' \in [Keys -> Nat]
  BY <1>1 DEF EmbeddingReturns, TypeOK
<1>5. /\ Settle(c, "value") /\ threads' = threads \ {c}
      /\ UNCHANGED <<key, leader, asked, now, began>>
  BY DEF EmbeddingReturns
<1>6. /\ future' \in [Calls -> Futures] /\ outcome' \in [Calls -> Outcomes]
      /\ inflight' \in [Keys -> Calls \cup {None}]
      /\ CallInv' /\ FollowInv' /\ BeganInv' /\ OneComputation' /\ AnswersAreFresh'
  BY <1>1, <1>2, <1>3, <1>4, <1>5, LeaderEnds
<1>7. TypeOK'
  BY <1>1, <1>2, <1>3, <1>4, <1>5, <1>6 DEF TypeOK
<1> QED
  BY <1>6, <1>7 DEF IInv

\* A failure reaches the followers and leaves nothing in the cache.
LEMMA EmbeddingFailsIInv ==
    ASSUME IInv, NEW c \in Calls, EmbeddingFails(c) PROVE IInv'
<1>1. Live(c) /\ TypeOK
  BY DEF EmbeddingFails, Live, IInv
<1>2. /\ at' \in [Calls -> States] /\ at'[c] = "ended"
      /\ \A d \in Calls \ {c} :
            \/ at'[d] = at[d]
            \/ at[d] = "queued" /\ at'[d] = "permitted"
  BY <1>1, ReleaseEnds DEF EmbeddingFails
<1>3. /\ Settle(c, "failed") /\ threads' = threads \ {c}
      /\ UNCHANGED <<key, leader, asked, used, insertedAt, uses, now, began,
                     stampedAt>>
  BY DEF EmbeddingFails
<1>4. /\ used' \in [Keys -> Nat] /\ stampedAt' \in [Calls -> Nat]
      /\ \A k \in Keys \ {key[c]} : used'[k] \in {0, used[k]}
      /\ \A d \in Calls \ {c} : stampedAt'[d] = stampedAt[d]
  BY <1>1, <1>3 DEF TypeOK
<1>5. /\ future' \in [Calls -> Futures] /\ outcome' \in [Calls -> Outcomes]
      /\ inflight' \in [Keys -> Calls \cup {None}]
      /\ CallInv' /\ FollowInv' /\ BeganInv' /\ OneComputation' /\ AnswersAreFresh'
  BY <1>1, <1>2, <1>3, <1>4, LeaderEnds
<1>6. TypeOK'
  BY <1>1, <1>2, <1>3, <1>5 DEF TypeOK
<1> QED
  BY <1>5, <1>6 DEF IInv

\* A cancelled leader tells its followers, from the gate or from its embedding.
LEMMA LeaderCancelledIInv ==
    ASSUME IInv, NEW c \in Calls, LeaderCancelled(c) PROVE IInv'
<1>1. Live(c) /\ TypeOK
  BY DEF LeaderCancelled, IInv
<1>2. /\ at' \in [Calls -> States] /\ at'[c] = "ended"
      /\ \A d \in Calls \ {c} :
            \/ at'[d] = at[d]
            \/ at[d] = "queued" /\ at'[d] = "permitted"
  <2>1. CASE at[c] = "queued"
    BY <2>1, <1>1 DEF LeaderCancelled, TypeOK, States
  <2>2. CASE at[c] # "queued"
    BY <2>2, <1>1, ReleaseEnds DEF LeaderCancelled
  <2> QED
    BY <2>1, <2>2
<1>3. /\ Settle(c, "cancelled")
      /\ UNCHANGED <<key, leader, asked, used, insertedAt, uses, threads, now,
                     began, stampedAt>>
  BY DEF LeaderCancelled
<1>4. /\ used' \in [Keys -> Nat] /\ stampedAt' \in [Calls -> Nat]
      /\ \A k \in Keys \ {key[c]} : used'[k] \in {0, used[k]}
      /\ \A d \in Calls \ {c} : stampedAt'[d] = stampedAt[d]
  BY <1>1, <1>3 DEF TypeOK
<1>5. /\ future' \in [Calls -> Futures] /\ outcome' \in [Calls -> Outcomes]
      /\ inflight' \in [Keys -> Calls \cup {None}]
      /\ CallInv' /\ FollowInv' /\ BeganInv' /\ OneComputation' /\ AnswersAreFresh'
  BY <1>1, <1>2, <1>3, <1>4, LeaderEnds
<1>6. TypeOK'
  BY <1>1, <1>2, <1>3, <1>5 DEF TypeOK
<1> QED
  BY <1>5, <1>6 DEF IInv

\* A cancelled follower takes the future of its leader with it, no more.
LEMMA CancelFollowerIInv ==
    ASSUME IInv, NEW c \in Calls, CancelFollower(c) PROVE IInv'
<1>1. leader[c] \in Calls
  BY DEF IInv, FollowInv, CancelFollower
<1>2. TypeOK'
  BY <1>1 DEF IInv, TypeOK, CancelFollower, Futures
<1>3. \A d \in Calls : Live(d)' <=> Live(d)
  BY DEF CancelFollower, Live
<1>4. CallInv'
  <2>1. \A d \in Calls : (Live(d) => leader[d] = d /\ future[d] \in {"pending", "cancelled"})'
    BY <1>1, <1>3 DEF IInv, TypeOK, CallInv, CancelFollower
  <2>2. \A d \in Calls : (future[d] = "pending" => Live(d))'
    BY <1>1, <1>3 DEF IInv, TypeOK, CallInv, CancelFollower
  <2>3. \A d \in Calls : (at[d] \in {"idle", "follows"} => future[d] = "none")'
    BY <1>1 DEF IInv, TypeOK, CallInv, CancelFollower
  <2>4. \A d \in Calls : /\ (at[d] # "idle" => key[d] \in Keys)'
                         /\ (at[d] # "ended" => outcome[d] = "none")'
    BY DEF IInv, CallInv, CancelFollower
  <2> QED
    BY <2>1, <2>2, <2>3, <2>4 DEF CallInv
<1>5. FollowInv' /\ BeganInv' /\ AnswersAreFresh'
  BY <1>1 DEF IInv, TypeOK, FollowInv, BeganInv, AnswersAreFresh, CancelFollower
<1>6. OneComputation'
  <2>1. \A d \in Calls : (Live(d) => inflight[key[d]] = d)'
    BY <1>3 DEF IInv, OneComputation, CancelFollower
  <2>2. \A k \in Keys : (inflight[k] # None =>
              /\ Live(inflight[k]) /\ key[inflight[k]] = k
              /\ used[k] = 0)'
    BY <1>3 DEF IInv, TypeOK, OneComputation, CancelFollower, Live
  <2> QED
    BY <2>1, <2>2, Zenon DEF OneComputation
<1> QED
  BY <1>2, <1>4, <1>5, <1>6 DEF IInv

\* A follower takes what its leader left it.
LEMMA FollowerResumesIInv ==
    ASSUME IInv, NEW c \in Calls, FollowerResumes(c) PROVE IInv'
<1>1. /\ leader[c] \in Calls
      /\ future[leader[c]] \in {"value", "failed", "cancelled"}
      /\ future[leader[c]] = "value" => began[c] <= stampedAt[leader[c]]
  BY DEF IInv, TypeOK, FollowInv, FollowerResumes, Futures
<1>2. \A d \in Calls : at[d] = "follows" => leader[d] # c
  <2>1. ASSUME NEW d \in Calls, at[d] = "follows", leader[d] = c PROVE FALSE
    BY <2>1 DEF IInv, CallInv, FollowInv, FollowerResumes
  <2> QED
    BY <2>1
<1>3. TypeOK'
  BY <1>1 DEF IInv, TypeOK, FollowerResumes, States, Outcomes
<1>4. \A d \in Calls : Live(d)' <=> Live(d)
  BY DEF IInv, TypeOK, FollowerResumes, Live
<1>5. CallInv'
  BY <1>4 DEF IInv, TypeOK, CallInv, FollowerResumes
<1>6. FollowInv'
  BY <1>2 DEF IInv, TypeOK, FollowInv, FollowerResumes
<1>7. BeganInv'
  BY DEF IInv, BeganInv, FollowerResumes
<1>8. AnswersAreFresh'
  BY <1>1, CacheAssumption DEF IInv, TypeOK, AnswersAreFresh, FollowerResumes
<1>9. OneComputation'
  <2>1. \A d \in Calls : (Live(d) => inflight[key[d]] = d)'
    BY <1>4 DEF IInv, OneComputation, FollowerResumes
  <2>2. \A k \in Keys : (inflight[k] # None =>
              /\ Live(inflight[k]) /\ key[inflight[k]] = k
              /\ used[k] = 0)'
    BY <1>4 DEF IInv, TypeOK, OneComputation, FollowerResumes, Live
  <2> QED
    BY <2>1, <2>2, Zenon DEF OneComputation
<1> QED
  BY <1>3, <1>5, <1>6, <1>7, <1>8, <1>9 DEF IInv

\* Telling a leader, the end of a thread and the clock change no call.
LEMMA QuietStepIInv ==
    ASSUME IInv,
           Tick \/ \E c \in Calls : CancelLeader(c) \/ ThreadEnds(c)
    PROVE  IInv'
<1>1. UNCHANGED <<at, key, leader, future, outcome, inflight, used, insertedAt,
                  uses, began, stampedAt>>
  BY DEF Tick, CancelLeader, ThreadEnds
<1>2. asked' \subseteq Calls /\ threads' \subseteq Calls /\ now' \in Nat /\ now <= now'
  BY DEF Tick, CancelLeader, ThreadEnds, IInv, TypeOK
<1>3. TypeOK' /\ FollowInv' /\ AnswersAreFresh'
  BY <1>1, <1>2 DEF IInv, TypeOK, FollowInv, AnswersAreFresh
<1>4. CallInv'
  BY <1>1 DEF IInv, CallInv, Live
<1>5. OneComputation'
  BY <1>1 DEF IInv, OneComputation, Live
<1>6. BeganInv'
  BY <1>1, <1>2 DEF IInv, TypeOK, BeganInv
<1> QED
  BY <1>3, <1>4, <1>5, <1>6 DEF IInv

LEMMA StepIInv == IInv /\ [Next]_vars => IInv'
<1> SUFFICES ASSUME IInv, [Next]_vars PROVE IInv'
  OBVIOUS
<1>1. CASE UNCHANGED vars
  BY <1>1 DEF vars, IInv, TypeOK, CallInv, FollowInv, BeganInv, OneComputation,
              AnswersAreFresh, Live
<1>2. CASE \E c \in Calls, k \in Keys : Hit(c, k) \/ Join(c, k) \/ Lead(c, k)
  BY <1>2, HitIInv, JoinIInv, LeadIInv
<1>3. CASE \E c \in Calls : Runs(c)
  BY <1>3, StartEmbeddingIInv, EmbeddingReturnsIInv, EmbeddingFailsIInv,
     LeaderCancelledIInv, FollowerResumesIInv, QuietStepIInv DEF Runs
<1>4. CASE Tick \/ \E c \in Calls : CancelLeader(c) \/ CancelFollower(c)
  BY <1>4, CancelFollowerIInv, QuietStepIInv
<1> QED
  BY <1>1, <1>2, <1>3, <1>4 DEF Next

THEOREM CacheInvariant == Spec => []IInv
BY InitIInv, StepIInv, PTL DEF Spec

-----------------------------------------------------------------------------
(* What follows from it. *)

\* TypeCorrect: no call ends with a future that is still pending.
THEOREM TypeCorrect == Spec => []TypeOK
BY CacheInvariant, PTL DEF IInv

\* ComputedOnceAtATime: the reservation of get_or_compute holds through every
\* cancellation, failure, expiry and eviction.
THEOREM ComputedOnceAtATime == Spec => []OneComputation
BY CacheInvariant, PTL DEF IInv

\* NobodyIsLeftWaiting: a follower that waits has a leader that will settle
\* the future, for any calls and any cancellations.
THEOREM NobodyIsLeftWaiting == Spec => []FollowersAreHeard
<1>1. IInv => FollowersAreHeard
  BY DEF IInv, CallInv, FollowInv, FollowersAreHeard
<1> QED
  BY <1>1, CacheInvariant, PTL

\* NoStaleAnswer: a value is never past its age when the call that gets it
\* begins, from the cache or from the flight it joined.
THEOREM NoStaleAnswer == Spec => []AnswersAreFresh
BY CacheInvariant, PTL DEF IInv
=============================================================================
