------------------------------ MODULE RemoteLane ------------------------------
(***************************************************************************)
(* serve/remote_sync.py, layers 2 to 4: the lane that looks at the remote  *)
(* on its own, fetches when a head moved, fast-forwards the branches no    *)
(* worktree holds, and asks the index queue for the tracked remote refs,   *)
(* whose passes may fail: nothing tries a failed pass again.               *)
(*                                                                         *)
(* The lane is one task whose git calls run off the event loop, so other   *)
(* people push, the user commits, checks out and fetches, and the ref      *)
(* watcher and the passes run between any two of them.  A restart keeps    *)
(* the repository and the index and nothing else.  A commit is the number  *)
(* of upstream commits it holds and of local ones on top of them.          *)
(***************************************************************************)
EXTENDS Integers, FiniteSets, FiniteSetsExt

CONSTANTS Branches,         \* branches of the remote, each followed locally
          TrackRefs,        \* git.remote.track_refs, by branch
          FastForward,      \* fast_forward_branches_without_worktree
          Interval,         \* interval_seconds
          Ceiling,          \* backoff_max_seconds
          CheckoutsAnyTime, \* a checkout may fall inside the fast-forwards
          None,
          Bounds            \* how many of each outside event: a record

Outside == {"pushes", "commits", "checkouts", "fetches", "failures", "restarts"}

Heads == [Branches -> Nat]
Commits == [base : Nat, own : Nat]
Targets == [branch : Branches, local : Commits, tip : Nat]
Readings == [ref : TrackRefs, sha : Nat]

ASSUME LaneAssumption ==
    /\ TrackRefs \subseteq Branches
    /\ None \notin Branches \cup Heads \cup Commits \cup Targets \cup Readings
    /\ FastForward \in BOOLEAN /\ CheckoutsAnyTime \in BOOLEAN
    /\ Interval \in Nat \ {0} /\ Ceiling \in Nat /\ Interval <= Ceiling
    /\ Bounds \in [Outside -> Nat]

VARIABLES
    (* the remote and the repository *)
    remote,     \* branch |-> its head at the remote
    tracking,   \* branch |-> its remote-tracking ref
    tips,       \* branch |-> its local ref
    worktree,   \* the branch the worktree is on, or None: another one
    tree,       \* the commit the worktree's files are at, or None
    budget,     \* what is left of Bounds
    (* the lane *)
    at,         \* the lane's next step
    heads,      \* what ls-remote answered
    moved,      \* the heads that moved, by this check
    left,       \* the branches still to fast-forward
    target,     \* the fast-forward being made, or None
    known,      \* _known_remote_heads
    state,      \* "online" or "offline"
    wait,       \* _backoff_seconds
    (* the ref watcher, the queue and the index *)
    seen,       \* the tracking refs in the watcher's last snapshot, or None
    requested,  \* the tracked refs with a pending or parked job
    reading,    \* the running pass: its ref and the commit it read, or None
    indexed,    \* tracked ref |-> the commit of its row
    (* history *)
    missed,     \* what this server's failed passes read
    streak,     \* failed checks since the last one that succeeded
    refused     \* one of them refused the credentials

repository == <<remote, tracking, tips, worktree, tree>>
lane == <<at, heads, moved, left, target, known, state, wait, streak, refused>>
passes == <<requested, reading, indexed, missed>>
vars == <<repository, budget, lane, seen, passes>>

Commit(base, own) == [base |-> base, own |-> own]

Reading(ref, sha) == [ref |-> ref, sha |-> sha]

\* merge-base --is-ancestor, for a local and an upstream commit.
IsAncestor(local, tip) == local.own = 0 /\ local.base <= tip

Init ==
    /\ remote = [b \in Branches |-> 1]
    /\ tracking \in [Branches -> 0..1]
    /\ tips = [b \in Branches |-> Commit(0, 0)]
    /\ worktree = None /\ tree = None
    /\ budget = Bounds
    /\ at = "start" /\ heads = None /\ moved = {} /\ left = {} /\ target = None
    /\ known = None /\ state = "online" /\ wait = 0
    /\ seen = None
    /\ requested = {} /\ reading = None
    /\ indexed = [r \in TrackRefs |-> 0]
    /\ missed = {}
    /\ streak = 0 /\ refused = FALSE

-----------------------------------------------------------------------------
(* Other people, the user and git. *)

Spend(what) == budget[what] > 0 /\ budget' = [budget EXCEPT ![what] = @ - 1]

Push(b) ==
    /\ Spend("pushes")
    /\ remote' = [remote EXCEPT ![b] = @ + 1]
    /\ UNCHANGED <<tracking, tips, worktree, tree, lane, seen, passes>>

UserCommits(b) ==
    /\ Spend("commits")
    /\ tips' = [tips EXCEPT ![b].own = @ + 1]
    /\ tree' = IF worktree = b THEN tips'[b] ELSE tree
    /\ UNCHANGED <<remote, tracking, worktree, lane, seen, passes>>

Checkout(b) ==
    /\ CheckoutsAnyTime \/ at \notin {"held", "target", "update"}
    /\ b # worktree
    /\ Spend("checkouts")
    /\ worktree' = b
    /\ tree' = tips[b]
    /\ UNCHANGED <<remote, tracking, tips, lane, seen, passes>>

\* Assumption: the user fetches once the watcher has its first snapshot.
UserFetches ==
    /\ seen # None
    /\ Spend("fetches")
    /\ tracking' = remote
    /\ UNCHANGED <<remote, tips, worktree, tree, lane, seen, passes>>

\* The server goes down and comes back.
Restart ==
    /\ Spend("restarts")
    /\ at' = "start" /\ heads' = None /\ moved' = {} /\ left' = {} /\ target' = None
    /\ known' = None /\ state' = "online" /\ wait' = 0
    /\ seen' = None
    /\ requested' = {} /\ reading' = None /\ missed' = {}
    /\ streak' = 0 /\ refused' = FALSE
    /\ UNCHANGED <<repository, indexed>>

User == \/ \E b \in Branches : Push(b) \/ UserCommits(b) \/ Checkout(b)
        \/ UserFetches \/ Restart

-----------------------------------------------------------------------------
(* The lane. *)

outside == <<repository, budget, seen>>
history == <<streak, refused>>

\* Mutant: nothing is asked for at start.
StartQuietly ==
    /\ at = "start"
    /\ at' = "check"
    /\ UNCHANGED <<outside, heads, moved, left, target, known, state, wait, history, passes>>

\* start_from_last_fetch: a job for every tracked ref.
Start ==
    /\ at = "start"
    /\ at' = "check"
    /\ requested' = TrackRefs
    /\ UNCHANGED <<outside, heads, moved, left, target, known, state, wait, history,
                   reading, indexed, missed>>

LsRemote ==
    /\ at = "check"
    /\ heads' = remote
    /\ at' = "compare"
    /\ UNCHANGED <<outside, moved, left, target, known, state, wait, history, passes>>

\* Mutant: the heads are known before they are fetched.
CompareAndKnow ==
    /\ at = "compare"
    /\ moved' = {b \in Branches : heads[b] # (IF known = None THEN tracking ELSE known)[b]}
    /\ known' = heads
    /\ at' = IF moved' = {} THEN "online" ELSE "fetch"
    /\ UNCHANGED <<outside, heads, left, target, state, wait, history, passes>>

\* Against the refs on disk the first time, the last check's heads later.
Compare ==
    /\ at = "compare"
    /\ moved' = {b \in Branches : heads[b] # (IF known = None THEN tracking ELSE known)[b]}
    /\ IF moved' = {}
       THEN at' = "online" /\ known' = heads
       ELSE at' = "fetch" /\ UNCHANGED known
    /\ UNCHANGED <<outside, heads, left, target, state, wait, history, passes>>

Fetch ==
    /\ at = "fetch"
    /\ tracking' = remote
    /\ known' = heads
    /\ at' = "online"
    /\ UNCHANGED <<remote, tips, worktree, tree, budget, seen, heads, moved, left, target,
                   state, wait, history, passes>>

\* Mutants: the wait of the last outage goes on; nothing caps the doubling.
DoubledFromTheLast == Min({Ceiling, IF wait = 0 THEN Interval ELSE wait * 2})
Doubled == IF state = "online" THEN Interval ELSE wait * 2

DoubledWait ==
    Min({Ceiling, IF state = "online" THEN Interval ELSE wait * 2})

\* ls-remote or fetch fails: _go_offline, then the longer wait.
CheckFails(authentication) ==
    /\ at \in {"check", "fetch"}
    /\ Spend("failures")
    /\ wait' = IF authentication THEN Ceiling ELSE DoubledWait
    /\ state' = "offline"
    /\ streak' = streak + 1
    /\ refused' = (refused \/ authentication)
    /\ at' = "sleep"
    /\ UNCHANGED <<repository, seen, heads, moved, left, target, known, passes>>

\* _come_online, then layers 4 and 2 when a fetch was made.
ComeOnline ==
    /\ at = "online"
    /\ state' = "online"
    /\ streak' = 0 /\ refused' = FALSE
    /\ at' = IF moved = {} THEN "sleep" ELSE IF FastForward THEN "held" ELSE "request"
    /\ UNCHANGED <<outside, heads, moved, left, target, known, wait, passes>>

\* _branches_held_by_a_worktree, read once for every candidate; without git's
\* listing no branch is moved.
FreeBranches ==
    /\ at = "held"
    /\ \/ left' = Branches \ {worktree} /\ at' = "target" /\ UNCHANGED budget
       \/ Spend("failures") /\ at' = "request" /\ UNCHANGED left
    /\ UNCHANGED <<repository, seen, heads, moved, target, known, state, wait, history, passes>>

\* _fast_forward_target: the two commits, which the swap compares again; or
\* nothing to do, a diverged branch left alone, a git command that failed.
FastForwardTarget(b) ==
    /\ at = "target" /\ b \in left
    /\ left' = left \ {b}
    /\ \/ /\ IsAncestor(tips[b], tracking[b]) /\ tips[b].base # tracking[b]
          /\ target' = [branch |-> b, local |-> tips[b], tip |-> tracking[b]]
          /\ at' = "update"
          /\ UNCHANGED budget
       \/ /\ ~IsAncestor(tips[b], tracking[b]) \/ tips[b].base = tracking[b]
          /\ UNCHANGED <<target, at, budget>>
       \/ Spend("failures") /\ UNCHANGED <<target, at>>
    /\ UNCHANGED <<repository, seen, heads, moved, known, state, wait, history, passes>>

\* Mutant: update-ref without the old value.
UpdateAnyway ==
    /\ at = "update"
    /\ tips' = [tips EXCEPT ![target.branch] = Commit(target.tip, 0)]
    /\ target' = None
    /\ at' = "target"
    /\ UNCHANGED <<remote, tracking, worktree, tree, budget, seen, heads, moved, left, known,
                   state, wait, history, passes>>

\* The compare-and-swap: a ref that moved meanwhile, or a refusal, leaves it.
UpdateRef ==
    /\ at = "update"
    /\ \/ /\ tips[target.branch] = target.local
          /\ tips' = [tips EXCEPT ![target.branch] = Commit(target.tip, 0)]
          /\ UNCHANGED budget
       \/ tips[target.branch] # target.local /\ UNCHANGED <<tips, budget>>
       \/ Spend("failures") /\ UNCHANGED tips
    /\ target' = None
    /\ at' = "target"
    /\ UNCHANGED <<remote, tracking, worktree, tree, seen, heads, moved, left, known,
                   state, wait, history, passes>>

FastForwardsEnd ==
    /\ at = "target" /\ left = {}
    /\ at' = "request"
    /\ UNCHANGED <<outside, heads, moved, left, target, known, state, wait, history, passes>>

\* _request_tracked_remote_refs: those whose remote head moved.
RequestMoved ==
    /\ at = "request"
    /\ requested' = requested \cup (TrackRefs \cap moved)
    /\ at' = "sleep"
    /\ UNCHANGED <<outside, heads, moved, left, target, known, state, wait, history,
                   reading, indexed, missed>>

Sleep ==
    /\ at = "sleep"
    /\ at' = "check" /\ heads' = None /\ moved' = {}
    /\ UNCHANGED <<outside, left, target, known, state, wait, history, passes>>

Check == LsRemote \/ Compare \/ Fetch \/ ComeOnline
AfterFetch ==
    \/ FreeBranches \/ UpdateRef \/ FastForwardsEnd \/ RequestMoved
    \/ \E b \in Branches : FastForwardTarget(b)

Lane == Start \/ Check \/ AfterFetch \/ Sleep

-----------------------------------------------------------------------------
(* The ref watcher's own job for a tracked ref, and its pass. *)

Snapshot ==
    /\ seen # tracking
    /\ seen' = tracking
    /\ requested' = IF seen = None THEN requested
                    ELSE requested \cup {r \in TrackRefs : seen[r] # tracking[r]}
    /\ UNCHANGED <<repository, budget, lane, reading, indexed, missed>>

\* remote_ref_pass_target: the commit of the ref; or nothing, when its row is at that
\* commit already or git failed, and the job is spent all the same.
PassReads(r) ==
    /\ reading = None
    /\ r \in requested
    /\ requested' = requested \ {r}
    /\ \/ /\ indexed[r] # tracking[r]
          /\ reading' = Reading(r, tracking[r])
          /\ UNCHANGED <<budget, missed>>
       \/ /\ indexed[r] = tracking[r]
          /\ UNCHANGED <<reading, budget, missed>>
       \/ /\ Spend("failures")
          /\ missed' = missed \cup {Reading(r, tracking[r])}
          /\ UNCHANGED reading
    /\ UNCHANGED <<repository, lane, seen, indexed>>

\* run_remote_ref_pass: the row is at the commit that was read; or the pass failed and
\* "the previous membership stands".
PassEnds ==
    /\ reading # None
    /\ reading' = None
    /\ \/ /\ indexed' = [indexed EXCEPT ![reading.ref] = reading.sha]
          /\ UNCHANGED <<budget, missed>>
       \/ /\ Spend("failures")
          /\ missed' = missed \cup {reading}
          /\ UNCHANGED indexed
    /\ UNCHANGED <<repository, lane, seen, requested>>

Index == PassEnds \/ \E r \in TrackRefs : PassReads(r)

Next == \/ User
        \/ Lane \/ CheckFails(FALSE) \/ CheckFails(TRUE)
        \/ Snapshot
        \/ Index

Spec == Init /\ [][Next]_vars

\* The lane's sleeps end and its git calls return, the watcher's tick comes, and
\* the queue drains; only finitely many git calls fail.
FairSpec == Spec /\ WF_vars(Lane) /\ WF_vars(Snapshot) /\ WF_vars(Index)

-----------------------------------------------------------------------------
(* Properties. *)

\* Every variable keeps its type: the step the lane is at and what it carries
\* there agree, whatever failed before.
TypeOK ==
    /\ remote \in Heads /\ tracking \in Heads
    /\ tips \in [Branches -> Commits]
    /\ worktree \in Branches \cup {None} /\ tree \in Commits \cup {None}
    /\ at \in {"start", "check", "compare", "fetch", "online", "held", "target", "update",
               "request", "sleep"}
    /\ heads \in Heads \cup {None} /\ known \in Heads \cup {None}
    /\ moved \subseteq Branches /\ left \subseteq Branches
    /\ at = "update" <=> target # None
    /\ target \in Targets \cup {None} /\ reading \in Readings \cup {None}
    /\ state \in {"online", "offline"} /\ wait \in 0..Ceiling
    /\ requested \subseteq TrackRefs
    /\ indexed \in [TrackRefs -> Nat] /\ missed \subseteq Readings

\* NoCommitIsLost: a local branch never loses a commit, whatever the user commits
\* between the fast-forward check and the update (layer 4's compare-and-swap).
Holds(new, old) == new.own >= old.own /\ new.base >= old.base

NoCommitIsLost == [][\A b \in Branches : Holds(tips'[b], tips[b])]_vars

\* WorktreeFollowsItsBranch: the files of a worktree are at the branch it is on:
\* "Never a branch a worktree holds" is fast-forwarded (the module's docstring).
WorktreeFollowsItsBranch == worktree # None => tree = tips[worktree]

\* KnownHeadsWereFetched: a head the lane takes as known has been fetched, so a
\* failed fetch is made again at the next check.
KnownHeadsWereFetched == known # None => \A b \in Branches : known[b] <= tracking[b]

\* BackoffFollowsTheOutage: the wait before the jitter doubles from the interval with each failed
\* check of this outage, up to the ceiling, and is the ceiling once the
\* credentials were refused: neither an earlier outage nor the order counts.
BackoffFollowsTheOutage ==
    state = "offline" =>
        wait = IF refused THEN Ceiling ELSE Min({Ceiling, Interval * 2^(streak - 1)})

\* Nothing is left to do before the next check, and what the lane knows is what
\* was fetched: a push between ls-remote and the fetch is the next check's, when
\* that fetch came before the watcher's first snapshot.
AtRest == /\ at \in {"check", "sleep"}
          /\ known = None \/ known = tracking
          /\ seen = tracking
          /\ requested = {} /\ reading = None

\* r is indexed at its commit n, or the pass of that very commit failed.
Tried(r, n) == indexed[r] = n \/ Reading(r, n) \in missed

\* TrackedRefsAreIndexed: once the lane sleeps and the queue is empty, a tracked
\* remote ref is indexed at the commit the last fetch left, whoever fetched and
\* however often the server was restarted meanwhile, unless its pass of that
\* commit failed: a failure at another commit, or before a restart, is no excuse.
TrackedRefsAreIndexed == AtRest => \A r \in TrackRefs : Tried(r, tracking[r])

\* EveryPushIsIndexed: in the end a tracked branch is and stays indexed at its head at
\* the remote, over failed checks, failed fetches and restarts, unless the pass
\* of that head failed, which is not made again.
EveryPushIsIndexed == <>[](\A r \in TrackRefs : Tried(r, remote[r]))
=============================================================================
