----------------------------- MODULE FileWatcher -----------------------------
(***************************************************************************)
(* serve/watcher.py: from file-system events to calls of on_change.        *)
(*                                                                         *)
(* The observer's thread puts every event that passes the filter on the    *)
(* consumer's queue; the consumer collects a burst until a quiet period    *)
(* ends and spawns a trigger task for it; a trigger either runs on_change  *)
(* under the reindex lock and then drains what was deferred meanwhile, or, *)
(* when the lock is held, defers its paths to the holder.                  *)
(*                                                                         *)
(* Events are numbered in order of arrival; what lists of paths the code   *)
(* keeps are sets of events here (their order only reaches a log line).    *)
(* `covered` is a history variable: the events some call was started for.  *)
(***************************************************************************)
EXTENDS Naturals

CONSTANT MaxEvents  \* bound: how many events a behaviour may contain

ASSUME MaxEventsAssumption == MaxEvents \in Nat

VARIABLES reported,  \* how many events the observer has reported
          queue,     \* events on the consumer's queue
          consumer,  \* where _consume is
          burst,     \* pending_paths of the burst being collected
          triggers,  \* the bursts of spawned tasks that have not run yet
          draining,  \* the batches on_change is running for, one per task
          lock,      \* reindex_lock is held
          deferred,  \* deferred_paths
          covered    \* history

watcherVars == <<reported, queue, consumer, burst, triggers, draining, lock, deferred, covered>>

Events == 1..MaxEvents

WatchInit ==
    /\ reported = 0
    /\ queue = {}
    /\ consumer = "waiting"
    /\ burst = {}
    /\ triggers = {}
    /\ draining = {}
    /\ lock = FALSE
    /\ deferred = {}
    /\ covered = {}

-----------------------------------------------------------------------------
\* _Handler.dispatch: a matching event crosses to the event loop.
Dispatch ==
    /\ reported < MaxEvents
    /\ reported' = reported + 1
    /\ queue' = queue \cup {reported + 1}
    /\ UNCHANGED <<consumer, burst, triggers, draining, lock, deferred, covered>>

\* The consumer's two gets: the first opens a burst, the others join it.
Collect ==
    /\ consumer \in {"waiting", "collecting"}
    /\ \E e \in queue :
          /\ \A f \in queue : e <= f
          /\ queue' = queue \ {e}
          /\ burst' = burst \cup {e}
    /\ consumer' = "collecting"
    /\ UNCHANGED <<reported, triggers, draining, lock, deferred, covered>>

\* Mutant: the consumer awaits the trigger instead of spawning it.
QuietPeriodAwaits ==
    /\ consumer = "collecting"
    /\ triggers' = triggers \cup {burst}
    /\ burst' = {}
    /\ consumer' = "draining"
    /\ UNCHANGED <<reported, queue, draining, lock, deferred, covered>>

\* The debounce timer may fire although an event has just been queued: the
\* event then opens the next burst.
QuietPeriodEnds ==
    /\ consumer = "collecting"
    /\ triggers' = triggers \cup {burst}
    /\ burst' = {}
    /\ consumer' = "waiting"
    /\ UNCHANGED <<reported, queue, draining, lock, deferred, covered>>

\* The first step of _run_trigger: it tests the lock and takes it without an
\* await in between.
StartDrain(paths) ==
    /\ ~lock
    /\ lock' = TRUE
    /\ draining' = draining \cup {paths}
    /\ covered' = covered \cup paths
    /\ UNCHANGED deferred

\* Mutant: a trigger that meets the lock gives up.
GiveUp(paths) == lock /\ UNCHANGED <<draining, lock, deferred, covered>>

DeferToHolder(paths) ==
    /\ lock
    /\ deferred' = deferred \cup paths
    /\ UNCHANGED <<draining, lock, covered>>

RunTrigger(paths) ==
    /\ paths \in triggers
    /\ triggers' = triggers \ {paths}
    /\ StartDrain(paths) \/ DeferToHolder(paths)
    /\ UNCHANGED <<reported, queue, consumer, burst>>

\* Mutant: the holder releases the lock after its own batch.
ReturnsOnce(batch) ==
    /\ batch \in draining
    /\ draining' = draining \ {batch}
    /\ lock' = FALSE
    /\ UNCHANGED <<reported, queue, consumer, burst, triggers, deferred, covered>>

\* Mutant: and it takes what was deferred during its call as done.
ReturnsClearing(batch) ==
    /\ batch \in draining
    /\ draining' = draining \ {batch}
    /\ lock' = FALSE
    /\ deferred' = {}
    /\ UNCHANGED <<reported, queue, consumer, burst, triggers, covered>>

\* on_change returned, or raised (_drain_guarded swallows it): the while loop
\* of _run_trigger drains what was deferred, or the lock is released.
OnChangeReturns(batch) ==
    /\ batch \in draining
    /\ IF deferred = {}
       THEN /\ draining' = draining \ {batch}
            /\ lock' = FALSE
       ELSE /\ draining' = (draining \ {batch}) \cup {deferred}
            /\ UNCHANGED lock
    /\ deferred' = {}
    /\ covered' = covered \cup deferred
    /\ UNCHANGED <<reported, queue, consumer, burst, triggers>>

\* Cancellation of _consume: its finally block cancels and awaits every task.
\* A cancelled holder gives the lock back; deferred paths have nobody left.
Cancel ==
    /\ consumer # "stopped"
    /\ consumer' = "stopped"
    /\ burst' = {}
    /\ triggers' = {}
    /\ draining' = {}
    /\ lock' = FALSE
    /\ deferred' = {}
    /\ UNCHANGED <<reported, queue, covered>>

Consume == Collect \/ QuietPeriodEnds

Drain == \/ \E paths \in triggers : RunTrigger(paths)
         \/ \E batch \in draining : OnChangeReturns(batch)

WatchNext == Dispatch \/ Consume \/ Drain \/ Cancel

WatchSpec == WatchInit /\ [][WatchNext]_watcherVars

\* The loop runs every task that can run, timers fire, on_change returns.
FairWatchSpec ==
    /\ WatchSpec
    /\ WF_watcherVars(Collect)
    /\ WF_watcherVars(QuietPeriodEnds)
    /\ WF_watcherVars(Drain)

-----------------------------------------------------------------------------
(* Properties. *)

Uncovered == queue \cup burst \cup (UNION triggers) \cup deferred

\* Every variable keeps its type: only the triggers, never the consumer that
\* spawns them, are ever inside a call.
WatchTypeOK ==
    /\ reported \in 0..MaxEvents
    /\ queue \subseteq Events
    /\ consumer \in {"waiting", "collecting", "stopped"}
    /\ burst \subseteq Events
    /\ triggers \subseteq SUBSET Events
    /\ draining \subseteq SUBSET Events
    /\ lock \in BOOLEAN
    /\ deferred \subseteq Events
    /\ covered \subseteq Events

\* CallsNeverOverlap: only one on_change runs at a time (_consume's docstring),
\* however many trigger tasks were spawned.
CallsNeverOverlap == \A b, c \in draining : b = c

\* NothingStranded: deferred paths always have a running holder that will drain
\* them; the race of a deferral with the holder's last look at the list is the
\* case the while loop and _drain_guarded are written for.
NothingStranded == deferred # {} => draining # {}

\* NoEventLost: until shutdown, every reported event was covered by a call or
\* is still on its way to one.
NoEventLost == consumer # "stopped" => 1..reported \subseteq covered \cup Uncovered

\* The abstract promise.
Signal == INSTANCE ChangeSignal WITH
    unseen   <- Uncovered,
    late     <- deferred,
    covering <- UNION draining,
    stopped  <- consumer = "stopped"

\* ImplementsChangeSignal: bursts during a call coalesce into one follow-up
\* that covers them all, and no call covers a change reported after it started
\* or covered before (AC-5 in _consume's docstring).
ImplementsChangeSignal == Signal!Spec

\* EveryChangeIsCovered: every reported event is followed by a call that covers
\* it, unless shutdown comes first.
EveryChangeIsCovered ==
    \A e \in Events : (reported >= e) ~> (e \in covered \/ consumer = "stopped")
=============================================================================
