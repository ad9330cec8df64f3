---------------------------- MODULE IndexJobQueue ----------------------------
(***************************************************************************)
(* serve/index_jobs.py: the coalescing queue that every refresh source     *)
(* submits to.                                                             *)
(*                                                                         *)
(* At most one pending job per key, one parked follow-up for the key that  *)
(* is running, passes one at a time under the lock, most urgent first.     *)
(* Every method runs on one event loop, so an action here is the code      *)
(* between two awaits.  A drain loop is one call of run_until_cancelled;   *)
(* the server starts one, and the lock is there for more (Workers).        *)
(*                                                                         *)
(* `asked` is a history variable: the requests that arrived since the last *)
(* pass of their key started.  No guard reads it.                          *)
(***************************************************************************)
EXTENDS Integers, FiniteSets

CONSTANTS Keys,       \* job keys (kind, branch)
          Paths,      \* changed paths a request may name
          Heads,      \* commits a ref event may report
          None,       \* no job, no head, no worker
          Workers,    \* drain loops over this queue
          Requests,   \* the jobs the refresh sources hand to submit
          MaxSubmits  \* bound: how many submits a behaviour may contain

Priorities == 0..3

Job == [key      : Keys,
        paths    : SUBSET Paths,
        priority : Priorities,
        sequence : Nat,
        refHead  : Heads \cup {None}]

\* What the runner is told of a job.
Told(job) == [key |-> job.key, paths |-> job.paths, refHead |-> job.refHead]

\* A submitted request, as the history variable keeps it.
AskedRequest == [paths    : SUBSET Paths,
                 priority : Priorities,
                 sequence : 1..MaxSubmits,
                 refHead  : Heads \cup {None}]

ASSUME QueueAssumption ==
    /\ None \notin Keys \cup Heads \cup Workers \cup Job
    /\ None \notin [key : Keys, paths : SUBSET Paths, refHead : Heads \cup {None}]
    /\ Requests \subseteq Job
    /\ MaxSubmits \in Nat

VARIABLES pending,   \* key |-> its pending job, or None
          parked,    \* key |-> the follow-up of the running job, or None
          running,   \* the job the runner was given, or None
          lock,      \* the worker that holds the queue's lock, or None
          worker,    \* worker |-> where its drain loop is
          idle,      \* the idle event
          sequence,  \* the last sequence number stamped
          asked      \* history: key |-> requests since its last pass started

queueVars == <<pending, parked, running, lock, worker, idle, sequence, asked>>

WorkerStates == {"ready", "running", "waiting", "stopped"}

-----------------------------------------------------------------------------
(* The jobs. *)

\* Mutant: a merge joins the paths and raises the urgency of the job.
RaisingMerge(self, other) ==
    [self EXCEPT !.paths = self.paths \cup other.paths, !.priority = @ - 1]

\* Mutant: the newer head always wins, also over a save that must run.
NewestHeadMerge(self, other) ==
    [self EXCEPT
       !.paths    = IF self.paths # {} /\ other.paths # {}
                    THEN self.paths \cup other.paths ELSE {},
       !.priority = IF other.priority < self.priority
                    THEN other.priority ELSE self.priority,
       !.refHead  = other.refHead]

MergedWith(self, other) ==
    [self EXCEPT
       !.paths    = IF self.paths # {} /\ other.paths # {}
                    THEN self.paths \cup other.paths ELSE {},
       !.priority = IF other.priority < self.priority
                    THEN other.priority ELSE self.priority,
       !.refHead  = IF self.refHead = None THEN None ELSE other.refHead]

Precedes(a, b) ==
    \/ a.priority < b.priority
    \/ a.priority = b.priority /\ a.sequence < b.sequence

RunningKey(k) == running # None /\ running.key = k

IsNext(k) ==
    /\ pending[k] # None
    /\ \A j \in Keys \ {k} : pending[j] # None => Precedes(pending[k], pending[j])

\* wake.set() resolves every waiting loop's future.
Awakened == [w \in Workers |-> IF worker[w] = "waiting" THEN "ready" ELSE worker[w]]

-----------------------------------------------------------------------------
Init ==
    /\ pending = [k \in Keys |-> None]
    /\ parked = [k \in Keys |-> None]
    /\ running = None
    /\ lock = None
    /\ worker = [w \in Workers |-> "ready"]
    /\ idle = FALSE
    /\ sequence = 0
    /\ asked = [k \in Keys |-> {}]

Target == [k \in Keys |-> IF RunningKey(k) THEN parked[k] ELSE pending[k]]

\* The first half of submit: the stamped job is merged into the pending or the
\* parked job of its key.
Enqueue(job) ==
    LET k       == job.key
        stamped == [job EXCEPT !.sequence = sequence + 1]
        queued  == IF Target[k] = None THEN stamped ELSE MergedWith(Target[k], stamped)
    IN  /\ sequence < MaxSubmits
        /\ sequence' = sequence + 1
        /\ IF RunningKey(k)
           THEN parked' = [parked EXCEPT ![k] = queued] /\ UNCHANGED pending
           ELSE pending' = [pending EXCEPT ![k] = queued] /\ UNCHANGED parked
        /\ asked' = [asked EXCEPT ![k] = @ \cup {[paths    |-> stamped.paths,
                                                  priority |-> stamped.priority,
                                                  sequence |-> stamped.sequence,
                                                  refHead  |-> stamped.refHead]}]
        /\ UNCHANGED <<running, lock>>

\* Mutant: the idle event stays set.
SubmitKeepingIdle(job) == Enqueue(job) /\ worker' = Awakened /\ UNCHANGED idle

\* Mutant: nobody is woken.
SilentSubmit(job) == Enqueue(job) /\ idle' = FALSE /\ UNCHANGED worker

Submit(job) == Enqueue(job) /\ idle' = FALSE /\ worker' = Awakened

\* _run_next with a pending job: the pass starts and keeps the lock.
RunNext(w) ==
    /\ worker[w] = "ready"
    /\ lock = None
    /\ \E k \in Keys :
          /\ IsNext(k)
          /\ pending' = [pending EXCEPT ![k] = None]
          /\ running' = pending[k]
          /\ asked' = [asked EXCEPT ![k] = {}]
    /\ lock' = w
    /\ worker' = [worker EXCEPT ![w] = "running"]
    /\ UNCHANGED <<parked, idle, sequence>>

\* Mutant: the idle event is never set.
WaitSilently(w) ==
    /\ worker[w] = "ready"
    /\ lock = None
    /\ \A k \in Keys : pending[k] = None
    /\ worker' = [worker EXCEPT ![w] = "waiting"]
    /\ UNCHANGED <<pending, parked, running, lock, idle, sequence, asked>>

\* _run_next found nothing, and _wait_for_work follows without an await.
WaitForWork(w) ==
    /\ worker[w] = "ready"
    /\ lock = None
    /\ \A k \in Keys : pending[k] = None
    /\ idle' = (idle \/ running = None)
    /\ worker' = [worker EXCEPT ![w] = "waiting"]
    /\ UNCHANGED <<pending, parked, running, lock, sequence, asked>>

\* The finally block of _run_one, then the release of the lock: the same after
\* a pass that returned, one that raised (swallowed) and one that is cancelled.
EndPass(w, state) ==
    LET k == running.key
    IN  /\ running' = None
        /\ IF parked[k] = None
           THEN /\ worker' = [worker EXCEPT ![w] = state]
                /\ UNCHANGED <<pending, parked>>
           ELSE /\ pending' = [pending EXCEPT ![k] = parked[k]]
                /\ parked' = [parked EXCEPT ![k] = None]
                /\ worker' = [Awakened EXCEPT ![w] = state]
        /\ lock' = None
        /\ UNCHANGED <<idle, sequence, asked>>

Finish(w) == worker[w] = "running" /\ EndPass(w, "ready")

\* Shutdown cancels a drain loop at whatever await it is in.
Cancel(w) ==
    \/ worker[w] = "running" /\ EndPass(w, "stopped")
    \/ /\ worker[w] \in {"ready", "waiting"}
       /\ worker' = [worker EXCEPT ![w] = "stopped"]
       /\ UNCHANGED <<pending, parked, running, lock, idle, sequence, asked>>

Drain(w) == RunNext(w) \/ WaitForWork(w) \/ Finish(w)

Next == \/ \E job \in Requests : Submit(job)
        \/ \E w \in Workers : Drain(w) \/ Cancel(w)

Spec == Init /\ [][Next]_queueVars

\* The event loop runs every task that can run, and a pass returns or raises.
FairSpec == Spec /\ \A w \in Workers : WF_queueVars(Drain(w))

\* What wait_idle tests first, and what lets its caller go.
Busy == \/ running # None
        \/ \E k \in Keys : pending[k] # None \/ parked[k] # None

WaitIdleReturns == Busy => idle

-----------------------------------------------------------------------------
(* Properties. *)

\* Every variable keeps its type: what is merged, parked and moved back stays a
\* well-formed IndexJob, urgency and arrival number included.
TypeOK ==
    /\ pending \in [Keys -> Job \cup {None}]
    /\ parked \in [Keys -> Job \cup {None}]
    /\ running \in Job \cup {None}
    /\ lock \in Workers \cup {None}
    /\ worker \in [Workers -> WorkerStates]
    /\ idle \in BOOLEAN
    /\ sequence \in 0..MaxSubmits
    /\ asked \in [Keys -> SUBSET AskedRequest]

\* PassesNeverOverlap: "passes never overlap" even with a second drain loop
\* (index_jobs.py:97): only the holder of the lock is inside a pass.
PassesNeverOverlap ==
    \A w, v \in Workers : worker[w] = "running" /\ worker[v] = "running" => w = v

\* IdleIsTruthful: the idle event is set, and so a wait_idle caller let go, only
\* while nothing is pending, parked or running, its docstring's promise.
IdleIsTruthful == WaitIdleReturns => ~Busy

\* NoLostWakeup: a drain loop sleeps only while there is nothing to run, so a
\* submit between its empty check and its wait cannot be slept through.
NoLostWakeup ==
    (\E w \in Workers : worker[w] = "waiting") => \A k \in Keys : pending[k] = None

\* NothingForgotten: a request that arrived after the last pass of its key
\* started is in that key's pending or parked job, and no job asks for a pass
\* nobody requested.
NothingForgotten ==
    \A k \in Keys : asked[k] # {} <=> (pending[k] # None \/ parked[k] # None)

\* The abstract promise: the running pass was told exactly what the set of its
\* requests asks for, and was the most urgent.
Promise == INSTANCE PassRequests WITH
    outstanding <- asked,
    Stamps <- 1..MaxSubmits,
    pass <- IF running = None THEN None ELSE Told(running)

\* ImplementsPassRequests: merging jobs one at a time, parking them and moving
\* them back loses, adds and reorders nothing (IndexJob.merged_with, submit,
\* _run_one against the queue's docstring).
ImplementsPassRequests == Promise!Spec

\* EveryRequestGetsAPass: a request is followed by the start of a pass of its
\* key, unless shutdown stops a drain loop.
EveryRequestGetsAPass ==
    \A k \in Keys : asked[k] # {} ~> (asked[k] = {} \/ \E w \in Workers : worker[w] = "stopped")

\* WaitIdleIsReleased: once submits stop, a wait_idle caller is let go, unless
\* shutdown stops a drain loop.
WaitIdleIsReleased == Busy ~> (idle \/ \E w \in Workers : worker[w] = "stopped")
=============================================================================
