---------------------------- MODULE UpstreamSignal ----------------------------
(***************************************************************************)
(* serve/remote_sync.py, layer 1: how far each followed branch is behind   *)
(* its upstream, as the remote lane publishes it on the board the request  *)
(* path reads.                                                             *)
(*                                                                         *)
(* Two tasks of one event loop refresh the signal: the follower, after the *)
(* ref watcher flagged a move, and the lane, at start and after a fetch.   *)
(* A refresh runs on a worker thread under _refresh_lock; the lane also    *)
(* publishes on the loop when a check takes it offline or online, without  *)
(* the lock.  A status is the version of the refs it was computed from.    *)
(***************************************************************************)
EXTENDS Naturals

CONSTANTS Branches,            \* the followed branches
          MovesBeforeBaseline, \* refs may move before the watcher's baseline
          None,
          Bounds               \* how many moves, unreadable upstreams and failed checks

ASSUME SignalAssumption ==
    /\ MovesBeforeBaseline \in BOOLEAN
    /\ None \notin Nat
    /\ Bounds \in [{"moves", "unreadable", "failures"} -> Nat]

Tasks == {"follower", "lane"}

VARIABLES
    refs,      \* branch |-> the version of the refs its status is made of
    budget,    \* what is left of Bounds
    seen,      \* the watcher's last snapshot, or None
    handing,   \* the watcher has a move to hand off
    moved,     \* _upstream_moved
    phase,     \* task |-> where its refresh is
    left,      \* task |-> the branches its refresh has still to read
    rows,      \* task |-> the rows its refresh has read
    shown,     \* task |-> what it is about to put on the board
    statuses,  \* the lane's statuses
    board,     \* the board's statuses
    at,        \* the lane's next step
    fetched,   \* the check just made fetched a move
    state      \* "online" or "offline"

watcher == <<seen, handing, moved>>
refresh == <<phase, left, rows, shown, statuses, board>>
check == <<at, fetched, state>>
vars == <<refs, budget, watcher, refresh, check>>

Quiet == [b \in Branches |-> None]

Init ==
    /\ refs = [b \in Branches |-> 1]
    /\ budget = Bounds
    /\ seen = None /\ handing = FALSE /\ moved = FALSE
    /\ phase = [t \in Tasks |-> IF t = "lane" THEN "lock" ELSE "idle"]
    /\ left = [t \in Tasks |-> {}]
    /\ rows = [t \in Tasks |-> Quiet] /\ shown = [t \in Tasks |-> Quiet]
    /\ statuses = Quiet /\ board = Quiet
    /\ at = "start" /\ fetched = FALSE /\ state = "online"

Spend(what) == budget[what] > 0 /\ budget' = [budget EXCEPT ![what] = @ - 1]

\* A commit, a fetch of the user's or a checkout.
Move(b) ==
    /\ MovesBeforeBaseline \/ seen # None
    /\ Spend("moves")
    /\ refs' = [refs EXCEPT ![b] = @ + 1]
    /\ UNCHANGED <<watcher, refresh, check>>

-----------------------------------------------------------------------------
(* The ref watcher and its hand-off.  While the lane publishes on the loop no *)
(* other task of the loop takes a step; the worker threads do.                *)

LoopIsFree == at \notin {"publish", "store"}

\* The baseline's start report is no move of an upstream.
Snapshot ==
    /\ LoopIsFree /\ ~handing
    /\ seen # refs
    /\ handing' = (seen # None)
    /\ seen' = refs
    /\ UNCHANGED <<refs, budget, moved, refresh, check>>

HandOff ==
    /\ LoopIsFree /\ handing
    /\ moved' = TRUE
    /\ handing' = FALSE
    /\ UNCHANGED <<refs, budget, seen, refresh, check>>

\* The follower, created after the refresh at start, takes the flag before it
\* refreshes.
FollowerWakes ==
    /\ LoopIsFree /\ at # "start"
    /\ moved
    /\ phase["follower"] = "idle"
    /\ moved' = FALSE
    /\ phase' = [phase EXCEPT !["follower"] = "lock"]
    /\ UNCHANGED <<refs, budget, seen, handing, left, rows, shown, statuses, board, check>>

-----------------------------------------------------------------------------
(* A refresh. *)

Refreshing(t) == phase[t] \in {"reads", "evaluates", "stores"}

\* Mutant: no lock.
AcquireUnlocked(t) ==
    /\ LoopIsFree
    /\ phase[t] = "lock"
    /\ phase' = [phase EXCEPT ![t] = "reads"]
    /\ left' = [left EXCEPT ![t] = Branches]
    /\ rows' = [rows EXCEPT ![t] = Quiet]
    /\ UNCHANGED <<refs, budget, watcher, shown, statuses, board, check>>

Acquire(t) ==
    /\ LoopIsFree
    /\ phase[t] = "lock"
    /\ \A other \in Tasks : ~Refreshing(other)
    /\ phase' = [phase EXCEPT ![t] = "reads"]
    /\ left' = [left EXCEPT ![t] = Branches]
    /\ rows' = [rows EXCEPT ![t] = Quiet]
    /\ UNCHANGED <<refs, budget, watcher, shown, statuses, board, check>>

\* ahead_behind of one branch; an upstream git cannot read has no row.
ReadBranch(t, b) ==
    /\ phase[t] = "reads" /\ b \in left[t]
    /\ left' = [left EXCEPT ![t] = @ \ {b}]
    /\ \/ rows' = [rows EXCEPT ![t][b] = refs[b]] /\ UNCHANGED budget
       \/ Spend("unreadable") /\ UNCHANGED rows
    /\ UNCHANGED <<refs, watcher, phase, shown, statuses, board, check>>

KeepStatuses(t) ==
    /\ phase[t] = "reads" /\ left[t] = {}
    /\ statuses' = rows[t]
    /\ phase' = [phase EXCEPT ![t] = "evaluates"]
    /\ UNCHANGED <<refs, budget, watcher, left, rows, shown, board, check>>

\* _publish's argument, and then the store.
Published == IF state = "offline" THEN Quiet ELSE statuses

Evaluate(t) ==
    /\ phase[t] = "evaluates"
    /\ shown' = [shown EXCEPT ![t] = Published]
    /\ phase' = [phase EXCEPT ![t] = "stores"]
    /\ UNCHANGED <<refs, budget, watcher, left, rows, statuses, board, check>>

\* Mutant: the flag is taken after the refresh.
StoreAndTakeFlag(t) ==
    /\ phase[t] = "stores"
    /\ board' = shown[t]
    /\ phase' = [phase EXCEPT ![t] = "idle"]
    /\ at' = IF t = "lane" THEN "check" ELSE at
    /\ moved' = (moved /\ t = "lane")
    /\ UNCHANGED <<refs, budget, seen, handing, left, rows, shown, statuses, fetched, state>>

Store(t) ==
    /\ phase[t] = "stores"
    /\ board' = shown[t]
    /\ phase' = [phase EXCEPT ![t] = "idle"]
    /\ at' = IF t = "lane" THEN "check" ELSE at
    /\ UNCHANGED <<refs, budget, watcher, left, rows, shown, statuses, fetched, state>>

Refresh(t) ==
    \/ Acquire(t) \/ KeepStatuses(t) \/ Evaluate(t) \/ Store(t)
    \/ \E b \in Branches : ReadBranch(t, b)

-----------------------------------------------------------------------------
(* The lane's checks. *)

\* _after_fetch when there was one, or the next check.
AfterCheck ==
    IF fetched' THEN at' = "refresh" /\ phase' = [phase EXCEPT !["lane"] = "lock"]
                ELSE at' = "check" /\ UNCHANGED phase

\* A check that reaches the remote: _come_online publishes after an outage.
CheckSucceeds ==
    /\ at = "check"
    /\ \/ UNCHANGED <<refs, budget>> /\ fetched' = FALSE
       \/ \E b \in Branches : Spend("moves") /\ refs' = [refs EXCEPT ![b] = @ + 1] /\ fetched' = TRUE
    /\ state' = "online"
    /\ IF state = "offline" THEN at' = "publish" /\ UNCHANGED phase ELSE AfterCheck
    /\ UNCHANGED <<watcher, left, rows, shown, statuses, board>>

\* _go_offline publishes on the change only.
CheckFails ==
    /\ at = "check"
    /\ Spend("failures")
    /\ state' = "offline"
    /\ fetched' = FALSE
    /\ at' = IF state = "online" THEN "publish" ELSE "check"
    /\ UNCHANGED <<refs, watcher, refresh>>

PublishOnLoop ==
    /\ at = "publish"
    /\ shown' = [shown EXCEPT !["lane"] = Published]
    /\ at' = "store"
    /\ UNCHANGED <<refs, budget, watcher, phase, left, rows, statuses, board, fetched, state>>

StoreOnLoop ==
    /\ at = "store"
    /\ board' = shown["lane"]
    /\ fetched' = fetched
    /\ AfterCheck
    /\ UNCHANGED <<refs, budget, watcher, left, rows, shown, statuses, state>>

Checks == CheckSucceeds \/ CheckFails \/ PublishOnLoop \/ StoreOnLoop

Next == \/ \E b \in Branches : Move(b)
        \/ Snapshot \/ HandOff \/ FollowerWakes
        \/ \E t \in Tasks : Refresh(t)
        \/ Checks

Spec == Init /\ [][Next]_vars

\* The watcher's tick and hand-off, the git calls and a publication begun go on;
\* the lane need not check at all (auto_fetch is off by default).
FairSpec ==
    /\ Spec
    /\ WF_vars(Snapshot) /\ WF_vars(HandOff) /\ SF_vars(FollowerWakes)
    /\ \A t \in Tasks : SF_vars(Refresh(t))
    /\ WF_vars(PublishOnLoop) /\ WF_vars(StoreOnLoop)

-----------------------------------------------------------------------------
(* Properties. *)

Rows == [Branches -> Nat \cup {None}]

\* Every variable keeps its type, and one refresh runs at a time.
TypeOK ==
    /\ refs \in [Branches -> Nat]
    /\ seen \in Rows \cup {None}
    /\ handing \in BOOLEAN /\ moved \in BOOLEAN /\ fetched \in BOOLEAN
    /\ phase \in [Tasks -> {"idle", "lock", "reads", "evaluates", "stores"}]
    /\ left \in [Tasks -> SUBSET Branches]
    /\ rows \in [Tasks -> Rows] /\ shown \in [Tasks -> Rows]
    /\ statuses \in Rows /\ board \in Rows
    /\ at \in {"start", "check", "publish", "store", "refresh"}
    /\ state \in {"online", "offline"}
    /\ phase["lane"] # "idle" <=> at \in {"start", "refresh"}
    /\ ~(Refreshing("follower") /\ Refreshing("lane"))

AtRest == /\ seen = refs /\ ~handing /\ ~moved
          /\ at = "check" /\ \A t \in Tasks : phase[t] = "idle"

NoCheckFailed == budget["failures"] = Bounds["failures"]
AllReadable == budget["unreadable"] = Bounds["unreadable"]

\* BoardIsCurrent: once both tasks rest, a branch's status is that of its refs as
\* they are, or missing when git could not read it, and while the remote answers
\* the request path reads just these: a move during a refresh is not swallowed by
\* the flag of the move before it, nor the board left with what it showed before.
BoardIsCurrent ==
    AtRest => /\ \A b \in Branches : statuses[b] \in {refs[b], None}
              /\ NoCheckFailed => board = statuses

\* SignalNeverGoesBack: no refresh replaces a newer status by an older one
\* ("would otherwise race to publish", the comment on _refresh_lock).
SignalNeverGoesBack ==
    [][\A b \in Branches :
         statuses[b] # None /\ statuses'[b] # None => statuses'[b] >= statuses[b]]_vars

\* OfflineIsQuiet: "while the remote is unreachable no suggestion tells the agent
\* to pull" (the comment on _publish), once what was being published is on the board.
OfflineIsQuiet == AtRest /\ state = "offline" => board = Quiet

\* EveryMoveIsShown: a move of a branch or its upstream reaches the board, while
\* the remote answers and git reads the upstream.
EveryMoveIsShown ==
    \A b \in Branches : \A n \in 1..(1 + Bounds.moves) :
        refs[b] >= n ~> \/ board[b] # None /\ board[b] >= n
                        \/ ~NoCheckFailed \/ ~AllReadable
=============================================================================
