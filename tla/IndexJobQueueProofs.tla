------------------------- MODULE IndexJobQueueProofs -------------------------
(***************************************************************************)
(* Proofs about IndexJobQueue for any keys, requests and number of drain   *)
(* loops: its invariants and that it implements PassRequests.              *)
(***************************************************************************)
EXTENDS IndexJobQueue, TLAPS

\* job is what the set R of requests asks for.
Summarises(job, R) ==
    /\ job.paths = Promise!PathsAsked(R)
    /\ job.refHead = Promise!HeadAsked(R)
    /\ \E r \in R : r.priority = job.priority
    /\ \A r \in R : job.priority <= r.priority
    /\ \E r \in R : r.sequence = job.sequence
    /\ \A r \in R : job.sequence <= r.sequence
    /\ \E r \in R : \A q \in R : q.sequence <= r.sequence

\* A pass runs exactly while its worker holds the lock.
LockInv ==
    /\ \A w \in Workers : worker[w] = "running" <=> lock = w
    /\ running # None <=> lock # None

\* A key waits in one of the two dictionaries only: parked behind its own
\* running pass, pending otherwise.
PlaceInv ==
    \A k \in Keys :
        /\ pending[k] # None => pending[k].key = k /\ ~RunningKey(k)
        /\ parked[k] # None => parked[k].key = k /\ RunningKey(k)

\* The waiting job of a key is what its requests ask for.
MergeInv ==
    \A k \in Keys :
        /\ asked[k] # {} <=> Target[k] # None
        /\ Target[k] # None => Summarises(Target[k], asked[k])

SequenceInv == \A k \in Keys : \A r \in asked[k] : r.sequence <= sequence

IdleInv == idle => ~Busy

IInv == /\ TypeOK
        /\ LockInv
        /\ PlaceInv
        /\ MergeInv
        /\ SequenceInv
        /\ IdleInv
        /\ NoLostWakeup

-----------------------------------------------------------------------------
(* What sets of requests ask for. *)

\* The library's Min of a set of integers is its only least element.
LEMMA MinOfSet ==
    ASSUME NEW S \in SUBSET Int, NEW x \in S, \A y \in S : x <= y
    PROVE  Promise!Min(S) = x
<1>1. \A z \in S : (\A y \in S : z <= y) => z = x
  BY SMT
<1> QED
  BY <1>1 DEF Promise!Min

\* One request alone.
LEMMA SummarisesOne ==
    ASSUME NEW job \in Job, NEW r \in AskedRequest,
           r.paths = job.paths, r.refHead = job.refHead,
           r.priority = job.priority, r.sequence = job.sequence
    PROVE  Summarises(job, {r})
<1>1. Promise!PathsAsked({r}) = r.paths
  BY DEF Promise!PathsAsked, AskedRequest
<1>2. Promise!HeadAsked({r}) = r.refHead
  BY DEF Promise!HeadAsked, AskedRequest
<1>3. r.priority \in Int /\ r.sequence \in Int
  BY DEF AskedRequest, Priorities
<1> QED
  BY <1>1, <1>2, <1>3 DEF Summarises

\* MergedWith keeps a job the summary of its requests when one more arrives.
LEMMA SummarisesMore ==
    ASSUME NEW prev \in Job, NEW R \in SUBSET AskedRequest, Summarises(prev, R),
           NEW job \in Job, NEW r \in AskedRequest,
           r.paths = job.paths, r.refHead = job.refHead,
           r.priority = job.priority, r.sequence = job.sequence,
           \A q \in R : q.sequence < r.sequence
    PROVE  Summarises(MergedWith(prev, job), R \cup {r})
<1> DEFINE m == MergedWith(prev, job)
<1>1. R # {}
  BY DEF Summarises
<1>2. m.paths = Promise!PathsAsked(R \cup {r})
  <2>1. m.paths = IF prev.paths # {} /\ job.paths # {} THEN prev.paths \cup job.paths ELSE {}
    BY DEF MergedWith, Job
  <2>2. prev.paths = IF \E q \in R : q.paths = {} THEN {} ELSE UNION {q.paths : q \in R}
    BY DEF Summarises, Promise!PathsAsked
  <2>3. (\E q \in R : q.paths = {}) => Promise!PathsAsked(R \cup {r}) = {} /\ m.paths = {}
    BY <2>1, <2>2 DEF Promise!PathsAsked
  <2>4. r.paths = {} => Promise!PathsAsked(R \cup {r}) = {} /\ m.paths = {}
    BY <2>1 DEF Promise!PathsAsked
  <2>5. ASSUME ~(\E q \in R : q.paths = {}), r.paths # {}
        PROVE  m.paths = Promise!PathsAsked(R \cup {r})
    <3>1. ~ \E q \in R \cup {r} : q.paths = {}
      BY <2>5
    <3>2. Promise!PathsAsked(R \cup {r}) = UNION {q.paths : q \in R \cup {r}}
      BY <3>1 DEF Promise!PathsAsked
    <3>3. UNION {q.paths : q \in R \cup {r}} = (UNION {q.paths : q \in R}) \cup r.paths
      OBVIOUS
    <3>4. prev.paths = UNION {q.paths : q \in R}
      BY <2>2, <2>5
    <3>5. prev.paths # {}
      BY <3>4, <1>1, <2>5
    <3> QED
      BY <2>1, <3>2, <3>3, <3>4, <3>5, <2>5
  <2> QED
    BY <2>3, <2>4, <2>5
<1>3. m.refHead = Promise!HeadAsked(R \cup {r})
  <2>1. m.refHead = IF prev.refHead = None THEN None ELSE job.refHead
    BY DEF MergedWith, Job
  <2>2. prev.refHead = None <=> \E q \in R : q.refHead = None
    <3>1. CASE \E q \in R : q.refHead = None
      BY <3>1 DEF Summarises, Promise!HeadAsked
    <3>2. CASE ~ \E q \in R : q.refHead = None
      <4> DEFINE newest == CHOOSE q \in R : \A p \in R : p.sequence <= q.sequence
      <4>1. prev.refHead = newest.refHead
        BY <3>2 DEF Summarises, Promise!HeadAsked
      <4>2. \E q \in R : \A p \in R : p.sequence <= q.sequence
        BY DEF Summarises
      <4>3. newest \in R
        BY <4>2
      <4> QED
        BY <4>1, <4>3, <3>2
    <3> QED
      BY <3>1, <3>2
  <2>3. CASE (\E q \in R : q.refHead = None) \/ r.refHead = None
    BY <2>1, <2>2, <2>3 DEF Promise!HeadAsked
  <2>4. CASE ~ ((\E q \in R : q.refHead = None) \/ r.refHead = None)
    <3> DEFINE newest == CHOOSE q \in R \cup {r} : \A p \in R \cup {r} : p.sequence <= q.sequence
    <3>1. \A q \in R \cup {r} : q.sequence \in Int
      BY DEF AskedRequest
    <3>2. \A p \in R \cup {r} : p.sequence <= r.sequence
      BY <3>1
    <3>3. \A q \in R \cup {r} : (\A p \in R \cup {r} : p.sequence <= q.sequence) => q = r
      BY <3>1
    <3>4. newest = r
      BY <3>2, <3>3
    <3>5. ~ \E q \in R \cup {r} : q.refHead = None
      BY <2>4
    <3>6. Promise!HeadAsked(R \cup {r}) = newest.refHead
      BY <3>5 DEF Promise!HeadAsked
    <3> QED
      BY <2>1, <2>2, <2>4, <3>4, <3>6
  <2> QED
    BY <2>3, <2>4
<1>4. /\ \E q \in R \cup {r} : q.priority = m.priority
      /\ \A q \in R \cup {r} : m.priority <= q.priority
  <2>1. m.priority = IF job.priority < prev.priority THEN job.priority ELSE prev.priority
    BY DEF MergedWith, Job
  <2>2. \A q \in R \cup {r} : q.priority \in Int
    BY DEF AskedRequest, Priorities
  <2> QED
    BY <2>1, <2>2 DEF Summarises, Job, Priorities
<1>5. /\ \E q \in R \cup {r} : q.sequence = m.sequence
      /\ \A q \in R \cup {r} : m.sequence <= q.sequence
  <2>1. m.sequence = prev.sequence
    BY DEF MergedWith, Job
  <2>2. \A q \in R \cup {r} : q.sequence \in Int
    BY DEF AskedRequest
  <2> QED
    BY <2>1, <2>2 DEF Summarises, Job
<1>6. \E q \in R \cup {r} : \A p \in R \cup {r} : p.sequence <= q.sequence
  <2>1. \A q \in R \cup {r} : q.sequence \in Int
    BY DEF AskedRequest
  <2> QED
    BY <2>1
<1> QED
  BY <1>2, <1>3, <1>4, <1>5, <1>6 DEF Summarises

-----------------------------------------------------------------------------
(* The invariant holds initially and every action preserves it. *)

\* The placeholder None is no key, no drain loop and no job.
LEMMA NoneIsNoData ==
    /\ \A k \in Keys : k # None
    /\ \A w \in Workers : w # None
    /\ \A j \in Job : j # None
  BY QueueAssumption

\* A fresh queue (IndexJobQueue.__init__) satisfies the invariant.
LEMMA InitIInv == Init => IInv
<1> SUFFICES ASSUME Init PROVE IInv
  OBVIOUS
<1>1. TypeOK
  <2>1. 0 \in 0..MaxSubmits
    BY QueueAssumption
  <2> QED
    BY <2>1 DEF Init, TypeOK, WorkerStates
<1>2. LockInv /\ PlaceInv /\ SequenceInv /\ IdleInv /\ NoLostWakeup
  BY NoneIsNoData DEF Init, LockInv, PlaceInv, SequenceInv, IdleInv, NoLostWakeup
<1>3. MergeInv
  BY DEF Init, MergeInv, Target, RunningKey
<1> QED
  BY <1>1, <1>2, <1>3 DEF IInv

\* merged_with returns a job of the same key.
LEMMA MergedWithType ==
    ASSUME NEW a \in Job, NEW b \in Job
    PROVE  MergedWith(a, b) \in Job /\ MergedWith(a, b).key = a.key
  BY DEF MergedWith, Job, Priorities

\* submit preserves the invariant, whichever dictionary it writes.
LEMMA SubmitIInv ==
    ASSUME IInv, NEW job \in Requests, Submit(job)
    PROVE  IInv'
<1> DEFINE k == job.key
           stamped == [job EXCEPT !.sequence = sequence + 1]
           queued == IF Target[k] = None THEN stamped ELSE MergedWith(Target[k], stamped)
           r == [paths    |-> stamped.paths,
                 priority |-> stamped.priority,
                 sequence |-> stamped.sequence,
                 refHead  |-> stamped.refHead]
<1>t. TypeOK /\ LockInv /\ PlaceInv /\ MergeInv /\ SequenceInv /\ IdleInv /\ NoLostWakeup
  BY DEF IInv
<1>j. job \in Job /\ k \in Keys
  BY QueueAssumption DEF Job
<1>s. /\ sequence < MaxSubmits
      /\ sequence' = sequence + 1
      /\ RunningKey(k) => parked' = [parked EXCEPT ![k] = queued] /\ pending' = pending
      /\ ~RunningKey(k) => pending' = [pending EXCEPT ![k] = queued] /\ parked' = parked
      /\ idle' = FALSE
      /\ worker' = Awakened
      /\ asked' = [asked EXCEPT ![k] = @ \cup {r}]
      /\ running' = running
      /\ lock' = lock
  BY Zenon DEF Submit, Enqueue
<1>n. sequence + 1 \in 1..MaxSubmits /\ sequence + 1 \in Nat
  BY <1>t, <1>s, QueueAssumption DEF TypeOK
<1>p. /\ stamped \in Job
      /\ stamped.key = k
      /\ r \in AskedRequest
      /\ stamped.sequence = sequence + 1
  BY <1>j, <1>n DEF Job, AskedRequest
<1>g. /\ Target[k] \in Job \cup {None}
      /\ Target[k] # None => Target[k].key = k
  BY <1>t, <1>j DEF TypeOK, Target, PlaceInv
<1>q. queued \in Job /\ queued.key = k /\ queued # None
  BY <1>p, <1>g, MergedWithType, NoneIsNoData
<1>a. \A w \in Workers : worker'[w] = IF worker[w] = "waiting" THEN "ready" ELSE worker[w]
  BY <1>s DEF Awakened
<1>1. TypeOK'
  <2>1. worker' \in [Workers -> WorkerStates]
    BY <1>t, <1>s DEF TypeOK, Awakened, WorkerStates
  <2>2. pending' \in [Keys -> Job \cup {None}] /\ parked' \in [Keys -> Job \cup {None}]
    BY <1>t, <1>s, <1>q DEF TypeOK
  <2>3. sequence' \in 0..MaxSubmits
    BY <1>n, <1>s
  <2>4. asked' \in [Keys -> SUBSET AskedRequest]
    BY <1>t, <1>s, <1>p DEF TypeOK, AskedRequest
  <2>5. running' \in Job \cup {None} /\ lock' \in Workers \cup {None} /\ idle' \in BOOLEAN
    BY <1>t, <1>s DEF TypeOK
  <2> QED
    BY <2>1, <2>2, <2>3, <2>4, <2>5 DEF TypeOK, AskedRequest
<1>2. LockInv'
  BY <1>t, <1>s, <1>a DEF LockInv
<1>3. PlaceInv'
  BY <1>t, <1>s, <1>j, <1>q DEF PlaceInv, RunningKey, TypeOK
<1>4. MergeInv'
  <2> SUFFICES ASSUME NEW i \in Keys
               PROVE  /\ asked'[i] # {} <=> Target'[i] # None
                      /\ Target'[i] # None => Summarises(Target'[i], asked'[i])
    BY DEF MergeInv
  <2>1. CASE i # k
    <3>1. asked'[i] = asked[i] /\ Target'[i] = Target[i]
      BY <2>1, <1>t, <1>s, <1>j DEF TypeOK, Target, RunningKey
    <3> QED
      BY <3>1, <1>t DEF MergeInv
  <2>2. CASE i = k
    <3>1. Target'[i] = queued
      BY <2>2, <1>t, <1>s, <1>j DEF TypeOK, Target, RunningKey
    <3>2. asked'[i] = asked[i] \cup {r} /\ asked[i] \in SUBSET AskedRequest
      BY <2>2, <1>t, <1>s, <1>j DEF TypeOK, AskedRequest
    <3>3. CASE Target[i] = None
      <4>1. asked'[i] = {r} /\ queued = stamped
        BY <3>2, <3>3, <2>2, <1>t DEF MergeInv
      <4>2. Summarises(stamped, {r})
        BY <1>p, SummarisesOne
      <4> QED
        BY <3>1, <4>1, <4>2, <1>q
    <3>4. CASE Target[i] # None
      <4>1. queued = MergedWith(Target[i], stamped) /\ Target[i] \in Job
        BY <3>4, <2>2, <1>g
      <4>2. Summarises(Target[i], asked[i])
        BY <3>4, <1>t DEF MergeInv
      <4>3. \A q \in asked[i] : q.sequence < r.sequence
        <5>1. \A q \in asked[i] : q.sequence <= sequence /\ q.sequence \in Int
          BY <3>2, <1>t DEF SequenceInv, AskedRequest
        <5>2. r.sequence = sequence + 1 /\ sequence \in Int
          BY <1>p, <1>t DEF TypeOK
        <5> QED
          BY <5>1, <5>2
      <4>4. Summarises(MergedWith(Target[i], stamped), asked[i] \cup {r})
        BY <4>1, <4>2, <4>3, <3>2, <1>p, SummarisesMore
      <4> QED
        BY <4>1, <4>4, <3>1, <3>2, <1>q
    <3> QED
      BY <3>3, <3>4
  <2> QED
    BY <2>1, <2>2
<1>5. SequenceInv'
  <2>1. \A i \in Keys : \A q \in asked'[i] : q \in asked[i] \/ q = r
    BY <1>t, <1>s, <1>j DEF TypeOK
  <2>2. \A i \in Keys : \A q \in asked[i] : q.sequence \in Int /\ q.sequence <= sequence
    BY <1>t DEF TypeOK, SequenceInv, AskedRequest
  <2>3. sequence \in Int
    BY <1>t DEF TypeOK
  <2> QED
    BY <2>1, <2>2, <2>3, <1>s, <1>p DEF SequenceInv
<1>6. IdleInv'
  BY <1>s DEF IdleInv
<1>7. NoLostWakeup'
  BY <1>a DEF NoLostWakeup
<1> QED
  BY <1>1, <1>2, <1>3, <1>4, <1>5, <1>6, <1>7 DEF IInv

\* Starting the most urgent pass preserves the invariant.
LEMMA RunNextIInv ==
    ASSUME IInv, NEW w \in Workers, RunNext(w)
    PROVE  IInv'
<1>t. TypeOK /\ LockInv /\ PlaceInv /\ MergeInv /\ SequenceInv /\ IdleInv /\ NoLostWakeup
  BY DEF IInv
<1>k. PICK k \in Keys : /\ IsNext(k)
                        /\ pending' = [pending EXCEPT ![k] = None]
                        /\ running' = pending[k]
                        /\ asked' = [asked EXCEPT ![k] = {}]
  BY DEF RunNext
<1>s. /\ worker[w] = "ready"
      /\ lock = None
      /\ lock' = w
      /\ worker' = [worker EXCEPT ![w] = "running"]
      /\ parked' = parked
      /\ idle' = idle
      /\ sequence' = sequence
  BY DEF RunNext
<1>n. running = None /\ \A i \in Keys : parked[i] = None
  BY <1>t, <1>s DEF LockInv, PlaceInv, RunningKey
<1>p. pending[k] \in Job /\ pending[k] # None /\ pending[k].key = k
  BY <1>t, <1>k DEF TypeOK, IsNext, PlaceInv
<1>1. TypeOK'
  BY <1>t, <1>k, <1>s, <1>p DEF TypeOK, WorkerStates
<1>2. LockInv'
  BY <1>t, <1>k, <1>s, <1>p, NoneIsNoData DEF LockInv, TypeOK
<1>3. PlaceInv'
  BY <1>t, <1>k, <1>s, <1>n, <1>p DEF PlaceInv, RunningKey, TypeOK
<1>4. MergeInv'
  <2> SUFFICES ASSUME NEW i \in Keys
               PROVE  /\ asked'[i] # {} <=> Target'[i] # None
                      /\ Target'[i] # None => Summarises(Target'[i], asked'[i])
    BY DEF MergeInv
  <2>1. CASE i # k
    <3>1. asked'[i] = asked[i] /\ Target'[i] = Target[i]
      BY <2>1, <1>t, <1>k, <1>s, <1>n, <1>p DEF TypeOK, Target, RunningKey
    <3> QED
      BY <3>1, <1>t DEF MergeInv
  <2>2. CASE i = k
    <3>1. asked'[i] = {} /\ Target'[i] = None
      BY <2>2, <1>t, <1>k, <1>s, <1>n, <1>p DEF TypeOK, Target, RunningKey
    <3> QED
      BY <3>1
  <2> QED
    BY <2>1, <2>2
<1>5. SequenceInv'
  BY <1>t, <1>k, <1>s DEF SequenceInv, TypeOK
<1>6. IdleInv'
  BY <1>t, <1>s, <1>p DEF IdleInv, Busy
<1>7. NoLostWakeup'
  BY <1>t, <1>k, <1>s, <1>p DEF NoLostWakeup, TypeOK
<1> QED
  BY <1>1, <1>2, <1>3, <1>4, <1>5, <1>6, <1>7 DEF IInv

\* Setting idle and going to sleep preserves the invariant.
LEMMA WaitForWorkIInv ==
    ASSUME IInv, NEW w \in Workers, WaitForWork(w)
    PROVE  IInv'
<1>t. TypeOK /\ LockInv /\ PlaceInv /\ MergeInv /\ SequenceInv /\ IdleInv /\ NoLostWakeup
  BY DEF IInv
<1>s. /\ worker[w] = "ready"
      /\ lock = None
      /\ \A k \in Keys : pending[k] = None
      /\ idle' = (idle \/ running = None)
      /\ worker' = [worker EXCEPT ![w] = "waiting"]
      /\ UNCHANGED <<pending, parked, running, lock, sequence, asked>>
  BY DEF WaitForWork
<1>1. TypeOK'
  BY <1>t, <1>s DEF TypeOK, WorkerStates
<1>2. LockInv'
  BY <1>t, <1>s, NoneIsNoData DEF LockInv, TypeOK
<1>3. PlaceInv' /\ MergeInv' /\ SequenceInv'
  BY <1>t, <1>s DEF PlaceInv, MergeInv, SequenceInv, RunningKey, Target, Summarises
<1>4. IdleInv'
  BY <1>t, <1>s DEF IdleInv, Busy, LockInv, PlaceInv, RunningKey
<1>5. NoLostWakeup'
  BY <1>s DEF NoLostWakeup
<1> QED
  BY <1>1, <1>2, <1>3, <1>4, <1>5 DEF IInv

\* The end of a pass (finished or cancelled) preserves the invariant: the
\* parked follow-up moves to the pending dictionary and wakes the loops.
LEMMA EndPassIInv ==
    ASSUME IInv, NEW w \in Workers, worker[w] = "running",
           NEW state \in {"ready", "stopped"}, EndPass(w, state)
    PROVE  IInv'
<1> DEFINE k == running.key
<1>t. TypeOK /\ LockInv /\ PlaceInv /\ MergeInv /\ SequenceInv /\ IdleInv /\ NoLostWakeup
  BY DEF IInv
<1>s. /\ running' = None
      /\ parked[k] = None => /\ worker' = [worker EXCEPT ![w] = state]
                             /\ pending' = pending /\ parked' = parked
      /\ parked[k] # None => /\ pending' = [pending EXCEPT ![k] = parked[k]]
                             /\ parked' = [parked EXCEPT ![k] = None]
                             /\ worker' = [Awakened EXCEPT ![w] = state]
      /\ lock' = None
      /\ idle' = idle
      /\ sequence' = sequence
      /\ asked' = asked
  BY Zenon DEF EndPass
<1>k. running # None /\ running \in Job /\ k \in Keys /\ lock = w
  BY <1>t, NoneIsNoData DEF TypeOK, LockInv, Job
<1>n. pending[k] = None /\ \A i \in Keys \ {k} : parked[i] = None
  BY <1>t, <1>k DEF PlaceInv, RunningKey
<1>w. \A v \in Workers : /\ v = w => worker'[v] = state
                         /\ v # w => worker'[v] \in {worker[v], "ready"} /\ worker[v] # "running"
                         /\ worker'[v] = "waiting" => worker[v] = "waiting"
  BY <1>t, <1>s, <1>k DEF TypeOK, LockInv, Awakened
<1>1. TypeOK'
  <2>1. worker' \in [Workers -> WorkerStates]
    <3>1. Awakened \in [Workers -> WorkerStates]
      BY <1>t DEF TypeOK, Awakened, WorkerStates
    <3> QED
      BY <3>1, <1>t, <1>s DEF TypeOK, WorkerStates
  <2>2. pending' \in [Keys -> Job \cup {None}] /\ parked' \in [Keys -> Job \cup {None}]
    BY <1>t, <1>s, <1>k DEF TypeOK
  <2> QED
    BY <2>1, <2>2, <1>t, <1>s DEF TypeOK
<1>2. LockInv'
  <2>1. \A v \in Workers : worker'[v] # "running" /\ v # None
    BY <1>w, NoneIsNoData
  <2>2. running' = None /\ lock' = None
    BY <1>s
  <2> QED
    BY <2>1, <2>2 DEF LockInv
<1>3. PlaceInv'
  BY <1>t, <1>s, <1>k, <1>n DEF PlaceInv, RunningKey, TypeOK
<1>4. MergeInv'
  <2>1. \A i \in Keys : Target'[i] = Target[i]
    BY <1>t, <1>s, <1>k, <1>n DEF TypeOK, Target, RunningKey, PlaceInv
  <2> QED
    BY <2>1, <1>t, <1>s DEF MergeInv
<1>5. SequenceInv'
  BY <1>t, <1>s DEF SequenceInv
<1>6. IdleInv'
  BY <1>t, <1>s, <1>k DEF IdleInv, Busy
<1>7. NoLostWakeup'
  <2>1. CASE parked[k] = None
    BY <2>1, <1>t, <1>s, <1>w DEF NoLostWakeup
  <2>2. CASE parked[k] # None
    BY <2>2, <1>t, <1>s, <1>w DEF NoLostWakeup, Awakened, TypeOK
  <2> QED
    BY <2>1, <2>2
<1> QED
  BY <1>1, <1>2, <1>3, <1>4, <1>5, <1>6, <1>7 DEF IInv

\* Shutdown preserves the invariant at every await of a drain loop.
LEMMA CancelIInv ==
    ASSUME IInv, NEW w \in Workers, Cancel(w)
    PROVE  IInv'
<1>1. CASE worker[w] = "running" /\ EndPass(w, "stopped")
  BY <1>1, EndPassIInv
<1>2. CASE /\ worker[w] \in {"ready", "waiting"}
           /\ worker' = [worker EXCEPT ![w] = "stopped"]
           /\ UNCHANGED <<pending, parked, running, lock, idle, sequence, asked>>
  <2>t. TypeOK /\ LockInv /\ PlaceInv /\ MergeInv /\ SequenceInv /\ IdleInv /\ NoLostWakeup
    BY DEF IInv
  <2>1. TypeOK'
    BY <1>2, <2>t DEF TypeOK, WorkerStates
  <2>2. LockInv'
    BY <1>2, <2>t DEF LockInv, TypeOK
  <2>3. PlaceInv' /\ MergeInv' /\ SequenceInv' /\ IdleInv'
    BY <1>2, <2>t DEF PlaceInv, MergeInv, SequenceInv, IdleInv, Busy, RunningKey, Target, Summarises
  <2>4. NoLostWakeup'
    BY <1>2, <2>t DEF NoLostWakeup, TypeOK
  <2> QED
    BY <2>1, <2>2, <2>3, <2>4 DEF IInv
<1> QED
  BY <1>1, <1>2 DEF Cancel

\* A step that changes no queue variable preserves the invariant.
LEMMA StutterIInv == ASSUME IInv, UNCHANGED queueVars PROVE IInv'
<1> USE DEF queueVars
<1>1. TypeOK' /\ LockInv' /\ SequenceInv' /\ IdleInv' /\ NoLostWakeup'
  BY DEF IInv, TypeOK, LockInv, SequenceInv, IdleInv, NoLostWakeup, Busy
<1>2. PlaceInv' /\ MergeInv'
  BY DEF IInv, PlaceInv, MergeInv, RunningKey, Target, Summarises
<1> QED
  BY <1>1, <1>2 DEF IInv

\* Every step of the queue preserves the invariant.
LEMMA NextIInv == ASSUME IInv, [Next]_queueVars PROVE IInv'
<1>1. CASE \E job \in Requests : Submit(job)
  BY <1>1, SubmitIInv
<1>2. ASSUME NEW w \in Workers, Drain(w) \/ Cancel(w)
      PROVE  IInv'
  BY <1>2, RunNextIInv, WaitForWorkIInv, EndPassIInv, CancelIInv DEF Drain, Finish
<1>3. CASE UNCHANGED queueVars
  BY <1>3, StutterIInv
<1> QED
  BY <1>1, <1>2, <1>3 DEF Next

-----------------------------------------------------------------------------
(* The theorems. *)

\* QueueInvariant: the inductive invariant holds in every reachable state.
THEOREM QueueInvariant == Spec => []IInv
  BY InitIInv, NextIInv, PTL DEF Spec

\* TypeCorrect: the queue's dictionaries hold jobs of the right shape.
THEOREM TypeCorrect == Spec => []TypeOK
<1>1. IInv => TypeOK
  BY DEF IInv
<1> QED
  BY <1>1, QueueInvariant, PTL

\* NoOverlap: for any number of drain loops, one pass runs at a time.
THEOREM NoOverlap == Spec => []PassesNeverOverlap
<1>1. IInv => PassesNeverOverlap
  BY DEF IInv, LockInv, PassesNeverOverlap
<1> QED
  BY <1>1, QueueInvariant, PTL

\* IdleMeansIdle: wait_idle lets nobody go while a job is anywhere.
THEOREM IdleMeansIdle == Spec => []IdleIsTruthful
<1>1. IInv => IdleIsTruthful
  BY DEF IInv, IdleInv, IdleIsTruthful, WaitIdleReturns
<1> QED
  BY <1>1, QueueInvariant, PTL

\* WakeupsAreKept: no drain loop sleeps beside a pending job.
THEOREM WakeupsAreKept == Spec => []NoLostWakeup
<1>1. IInv => NoLostWakeup
  BY DEF IInv
<1> QED
  BY <1>1, QueueInvariant, PTL

\* RequestsAreKept: every request since the last pass of its key started is in
\* a queued job, and every queued job stems from such a request.
THEOREM RequestsAreKept == Spec => []NothingForgotten
<1>1. IInv => NothingForgotten
  BY DEF IInv, MergeInv, PlaceInv, NothingForgotten, Target
<1> QED
  BY <1>1, QueueInvariant, PTL

-----------------------------------------------------------------------------
(* The queue implements PassRequests. *)

PassTold == IF running = None THEN None ELSE Told(running)

\* The priority and the sequence of a merged job are those PassRequests
\* compares: the most urgent request's and the oldest one's.
LEMMA SummaryIsUrgency ==
    ASSUME NEW job \in Job, NEW R \in SUBSET AskedRequest, Summarises(job, R)
    PROVE  Promise!PriorityAsked(R) = job.priority /\ Promise!FirstAsked(R) = job.sequence
<1>1. Promise!PriorityAsked(R) = job.priority
  <2> DEFINE S == {r.priority : r \in R}
  <2>1. S \in SUBSET Int
    BY DEF AskedRequest, Priorities
  <2>2. job.priority \in S /\ \A y \in S : job.priority <= y
    BY DEF Summarises
  <2>3. Promise!Min(S) = job.priority
    BY <2>1, <2>2, MinOfSet
  <2> QED
    BY <2>3 DEF Promise!PriorityAsked
<1>2. Promise!FirstAsked(R) = job.sequence
  <2> DEFINE S == {r.sequence : r \in R}
  <2>1. S \in SUBSET Int
    BY DEF AskedRequest
  <2>2. job.sequence \in S /\ \A y \in S : job.sequence <= y
    BY DEF Summarises
  <2>3. Promise!Min(S) = job.sequence
    BY <2>1, <2>2, MinOfSet
  <2> QED
    BY <2>3 DEF Promise!FirstAsked
<1> QED
  BY <1>1, <1>2

\* A submit is an Ask of the promise.
LEMMA SubmitAsks ==
    ASSUME IInv, NEW job \in Requests, Submit(job)
    PROVE  \E k \in Keys : \E r \in Promise!Request : Promise!Ask(k, r)
<1> DEFINE k == job.key
           r == [paths    |-> job.paths,
                 priority |-> job.priority,
                 sequence |-> sequence + 1,
                 refHead  |-> job.refHead]
<1>1. job \in Job /\ k \in Keys
  BY QueueAssumption DEF Job
<1>2. sequence \in 0..MaxSubmits /\ sequence < MaxSubmits
  BY DEF IInv, TypeOK, Submit, Enqueue
<1>3. r \in Promise!Request
  BY <1>1, <1>2, QueueAssumption DEF Promise!Request, Promise!Priorities, Job, Priorities
<1>4. asked' = [asked EXCEPT ![k] = @ \cup {r}] /\ running' = running
  BY <1>1 DEF Submit, Enqueue, Job
<1>5. \A j \in Keys : \A q \in asked[j] : q.sequence < r.sequence
  <2>1. \A j \in Keys : \A q \in asked[j] : q.sequence \in Int /\ q.sequence <= sequence
    BY DEF IInv, TypeOK, SequenceInv, AskedRequest
  <2> QED
    BY <2>1, <1>2
<1>6. Promise!Ask(k, r)
  BY <1>4, <1>5 DEF Promise!Ask, Told
<1> QED
  BY <1>1, <1>3, <1>6

\* The pass a drain loop starts is the Begin the promise allows: the most
\* urgent key, told what its requests ask for.
LEMMA RunNextBegins ==
    ASSUME IInv, NEW w \in Workers, RunNext(w)
    PROVE  \E k \in Keys : Promise!Begin(k)
<1>k. PICK k \in Keys : /\ IsNext(k)
                        /\ running' = pending[k]
                        /\ asked' = [asked EXCEPT ![k] = {}]
  BY DEF RunNext
<1>n. running = None
  BY DEF IInv, LockInv, RunNext
<1>s. \A j \in Keys : /\ asked[j] # {} <=> pending[j] # None
                      /\ pending[j] # None => /\ Summarises(pending[j], asked[j])
                                              /\ pending[j] \in Job
                                              /\ pending[j].key = j
                      /\ asked[j] \in SUBSET AskedRequest
  BY <1>n DEF IInv, TypeOK, MergeInv, PlaceInv, Target, RunningKey
<1>p. pending[k] # None /\ asked[k] # {}
  BY <1>k, <1>s DEF IsNext
<1>1. \A j \in Keys \ {k} : asked[j] # {} => Promise!MoreUrgent(asked[k], asked[j])
  <2> SUFFICES ASSUME NEW j \in Keys \ {k}, asked[j] # {}
               PROVE  Promise!MoreUrgent(asked[k], asked[j])
    OBVIOUS
  <2>1. Precedes(pending[k], pending[j])
    BY <1>k, <1>s DEF IsNext
  <2>2. /\ Promise!PriorityAsked(asked[k]) = pending[k].priority
        /\ Promise!FirstAsked(asked[k]) = pending[k].sequence
    BY <1>s, <1>p, SummaryIsUrgency
  <2>3. /\ Promise!PriorityAsked(asked[j]) = pending[j].priority
        /\ Promise!FirstAsked(asked[j]) = pending[j].sequence
    BY <1>s, SummaryIsUrgency
  <2> QED
    BY <2>1, <2>2, <2>3 DEF Precedes, Promise!MoreUrgent
<1>2. PassTold' = [key     |-> k,
                   paths   |-> Promise!PathsAsked(asked[k]),
                   refHead |-> Promise!HeadAsked(asked[k])]
  BY <1>k, <1>s, <1>p DEF PassTold, Told, Summarises
<1>3. PassTold = None
  BY <1>n DEF PassTold
<1>4. Promise!Begin(k)
  BY <1>k, <1>p, <1>1, <1>2, <1>3 DEF Promise!Begin, PassTold
<1> QED
  BY <1>4

\* The end of a pass is an End of the promise.
LEMMA EndPassEnds ==
    ASSUME IInv, NEW w \in Workers, worker[w] = "running",
           NEW state \in {"ready", "stopped"}, EndPass(w, state)
    PROVE  Promise!End
<1>1. running \in Job /\ running # None
  BY NoneIsNoData DEF IInv, TypeOK, LockInv
<1>2. PassTold # None
  BY <1>1, QueueAssumption DEF PassTold, Told, Job
<1>3. running' = None /\ asked' = asked
  BY Zenon DEF EndPass
<1> QED
  BY <1>2, <1>3 DEF Promise!End, PassTold

\* Every step of the queue is a step of the promise or a stutter.
LEMMA StepIsPromised ==
    ASSUME IInv, [Next]_queueVars
    PROVE  [Promise!Next]_<<asked, PassTold>>
<1>1. CASE \E job \in Requests : Submit(job)
  BY <1>1, SubmitAsks DEF Promise!Next
<1>2. ASSUME NEW w \in Workers, RunNext(w)
      PROVE  Promise!Next
  BY <1>2, RunNextBegins DEF Promise!Next
<1>3. ASSUME NEW w \in Workers, worker[w] = "running",
             NEW state \in {"ready", "stopped"}, EndPass(w, state)
      PROVE  Promise!Next
  BY <1>3, EndPassEnds DEF Promise!Next
<1>4. ASSUME NEW w \in Workers, WaitForWork(w)
      PROVE  UNCHANGED <<asked, PassTold>>
  BY <1>4 DEF WaitForWork, PassTold
<1>5. ASSUME NEW w \in Workers, Cancel(w)
      PROVE  [Promise!Next]_<<asked, PassTold>>
  <2>1. CASE worker[w] = "running" /\ EndPass(w, "stopped")
    BY <2>1, <1>3
  <2>2. CASE UNCHANGED <<pending, parked, running, lock, idle, sequence, asked>>
    BY <2>2 DEF PassTold
  <2> QED
    BY <1>5, <2>1, <2>2 DEF Cancel
<1>6. CASE UNCHANGED queueVars
  BY <1>6 DEF queueVars, PassTold
<1> QED
  BY <1>1, <1>2, <1>3, <1>4, <1>5, <1>6 DEF Next, Drain, Finish

\* QueueKeepsItsPromise: submit, the merging, the parking and the drain loop
\* together implement PassRequests, whatever the sources submit.
THEOREM QueueKeepsItsPromise == Spec => ImplementsPassRequests
<1>1. Init => Promise!Init
  BY DEF Init, Promise!Init
<1>2. IInv /\ [Next]_queueVars =>
         [Promise!Next]_<<asked, IF running = None THEN None ELSE Told(running)>>
  BY StepIsPromised DEF PassTold
<1> QED
  BY <1>1, <1>2, QueueInvariant, PTL DEF Spec, ImplementsPassRequests, Promise!Spec
=============================================================================
