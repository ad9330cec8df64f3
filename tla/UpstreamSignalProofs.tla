------------------------- MODULE UpstreamSignalProofs -------------------------
(***************************************************************************)
(* Proofs about UpstreamSignal for any branches and bounds: one refresh    *)
(* runs at a time, no status is replaced by an older one, and once both    *)
(* tasks rest the statuses are those of the refs as they are.              *)
(***************************************************************************)
EXTENDS UpstreamSignal, TLAPS

Fresh(v, b) == v \in {refs[b], None}

\* The refresh of t will read b, or has read it as it is.
Covers(t, b) ==
    \/ phase[t] = "lock"
    \/ phase[t] = "reads" /\ (b \in left[t] \/ Fresh(rows[t][b], b))

\* Somebody has still to refresh b: the watcher has seen or will see a move, a
\* refresh is asked for, or has not read b yet, or the lane refreshes after its check.
Promised(b) ==
    \/ seen # None /\ seen # refs
    \/ handing \/ moved
    \/ \E t \in Tasks : Covers(t, b)
    \/ fetched /\ at \in {"publish", "store"}

\* What a snapshot, a row or a status says was true once.
AgeInv ==
    /\ budget \in [{"moves", "unreadable", "failures"} -> Nat]
    /\ budget.failures <= Bounds.failures
    /\ seen # None => seen \in [Branches -> Nat] /\ \A b \in Branches : seen[b] <= refs[b]
    /\ \A b \in Branches : statuses[b] # None => statuses[b] <= refs[b]

\* A refresh has read no row before its turn, none that never was, and none older
\* than the status.
ReadsInv ==
    \A t \in Tasks : phase[t] = "reads" =>
        \A b \in Branches :
            /\ b \in left[t] => rows[t][b] = None
            /\ rows[t][b] # None => rows[t][b] <= refs[b]
            /\ rows[t][b] # None /\ statuses[b] # None => rows[t][b] >= statuses[b]

\* A status, or a row on its way to be one, that is out of date will be refreshed.
CurrentInv ==
    ~MovesBeforeBaseline =>
       \A b \in Branches :
          /\ Fresh(statuses[b], b) \/ Promised(b)
          /\ \A t \in Tasks : phase[t] = "reads" =>
                b \in left[t] \/ Fresh(rows[t][b], b) \/ Promised(b)

\* While every check reaches the remote, only refreshes write the board.
BoardInv ==
    NoCheckFailed =>
       /\ state = "online" /\ at \notin {"publish", "store"}
       /\ \A t \in Tasks : phase[t] = "stores" => shown[t] = statuses
       /\ board = statuses \/ \E t \in Tasks : phase[t] \in {"evaluates", "stores"}

IInv == TypeOK /\ AgeInv /\ ReadsInv /\ CurrentInv /\ BoardInv

-----------------------------------------------------------------------------
(* Every action keeps the invariant. *)

LEMMA InitIInv == Init => IInv
<1> SUFFICES ASSUME Init PROVE IInv
  OBVIOUS
<1> USE SignalAssumption DEF Init, Quiet, Tasks
<1>1. TypeOK
  BY DEF TypeOK, Rows, Refreshing
<1>2. AgeInv
  BY DEF AgeInv
<1>3. ReadsInv
  BY DEF ReadsInv
<1>4. CurrentInv
  BY DEF CurrentInv, Fresh
<1>5. BoardInv
  BY DEF BoardInv
<1> QED  BY <1>1, <1>2, <1>3, <1>4, <1>5 DEF IInv

\* A move the watcher has not seen makes its snapshot differ.
LEMMA MoveStep ==
    ASSUME IInv, NEW b \in Branches, Move(b)
    PROVE  IInv'
<1> USE SignalAssumption DEF Move, watcher, refresh, check, Spend
<1>1. TypeOK'
  BY DEF IInv, TypeOK, Rows, Refreshing, Tasks
<1>2. AgeInv'
  BY DEF IInv, TypeOK, AgeInv, ReadsInv, Rows, Tasks
<1>3. ReadsInv'
  BY DEF IInv, TypeOK, AgeInv, ReadsInv, Rows, Refreshing, Tasks
<1>4. CurrentInv'
  BY DEF IInv, TypeOK, AgeInv, ReadsInv, CurrentInv, Promised, Covers, Fresh, Rows, Refreshing,
         Tasks
<1>5. BoardInv'
  BY DEF IInv, TypeOK, AgeInv, BoardInv, NoCheckFailed, Refreshing, Tasks, Rows
<1> QED  BY <1>1, <1>2, <1>3, <1>4, <1>5 DEF IInv

\* What the snapshot saw is handed off.
LEMMA SnapshotStep ==
    ASSUME IInv, Snapshot
    PROVE  IInv'
<1> USE SignalAssumption DEF Snapshot, watcher, refresh, check, LoopIsFree
<1>1. TypeOK'
  BY DEF IInv, TypeOK, Rows, Refreshing, Tasks
<1>2. AgeInv'
  BY DEF IInv, TypeOK, AgeInv, ReadsInv, Rows, Tasks
<1>3. ReadsInv'
  BY DEF IInv, TypeOK, AgeInv, ReadsInv, Rows, Refreshing, Tasks
<1>4. CurrentInv'
  BY DEF IInv, TypeOK, AgeInv, ReadsInv, CurrentInv, Promised, Covers, Fresh, Rows, Refreshing,
         Tasks
<1>5. BoardInv'
  BY DEF IInv, TypeOK, AgeInv, BoardInv, NoCheckFailed, Refreshing, Tasks, Rows
<1> QED  BY <1>1, <1>2, <1>3, <1>4, <1>5 DEF IInv

\* What is handed off sets the flag.
LEMMA HandOffStep ==
    ASSUME IInv, HandOff
    PROVE  IInv'
<1> USE SignalAssumption DEF HandOff, watcher, refresh, check, LoopIsFree
<1>1. TypeOK'
  BY DEF IInv, TypeOK, Rows, Refreshing, Tasks
<1>2. AgeInv'
  BY DEF IInv, TypeOK, AgeInv, ReadsInv, Rows, Tasks
<1>3. ReadsInv'
  BY DEF IInv, TypeOK, AgeInv, ReadsInv, Rows, Refreshing, Tasks
<1>4. CurrentInv'
  BY DEF IInv, TypeOK, AgeInv, ReadsInv, CurrentInv, Promised, Covers, Fresh, Rows, Refreshing,
         Tasks
<1>5. BoardInv'
  BY DEF IInv, TypeOK, AgeInv, BoardInv, NoCheckFailed, Refreshing, Tasks, Rows
<1> QED  BY <1>1, <1>2, <1>3, <1>4, <1>5 DEF IInv

\* The flag taken, the follower waits for the lock.
LEMMA FollowerWakesStep ==
    ASSUME IInv, FollowerWakes
    PROVE  IInv'
<1> USE SignalAssumption DEF FollowerWakes, watcher, refresh, check, LoopIsFree
<1>1. TypeOK'
  BY DEF IInv, TypeOK, Rows, Refreshing, Tasks
<1>2. AgeInv'
  BY DEF IInv, TypeOK, AgeInv, ReadsInv, Rows, Tasks
<1>3. ReadsInv'
  BY DEF IInv, TypeOK, AgeInv, ReadsInv, Rows, Refreshing, Tasks
<1>4. CurrentInv'
  BY DEF IInv, TypeOK, AgeInv, ReadsInv, CurrentInv, Promised, Covers, Fresh, Rows, Refreshing,
         Tasks
<1>5. BoardInv'
  BY DEF IInv, TypeOK, AgeInv, BoardInv, NoCheckFailed, Refreshing, Tasks, Rows
<1> QED  BY <1>1, <1>2, <1>3, <1>4, <1>5 DEF IInv

\* A refresh begins with every branch to read.
LEMMA AcquireStep ==
    ASSUME IInv, NEW t \in Tasks, Acquire(t)
    PROVE  IInv'
<1> USE SignalAssumption DEF Acquire, watcher, refresh, check, LoopIsFree, Quiet
<1>1. TypeOK'
  BY DEF IInv, TypeOK, Rows, Refreshing, Tasks
<1>2. AgeInv'
  BY DEF IInv, TypeOK, AgeInv, ReadsInv, Rows, Tasks
<1>3. ReadsInv'
  BY DEF IInv, TypeOK, AgeInv, ReadsInv, Rows, Refreshing, Tasks
<1>4. CurrentInv'
  BY DEF IInv, TypeOK, AgeInv, ReadsInv, CurrentInv, Promised, Covers, Fresh, Rows, Refreshing,
         Tasks
<1>5. BoardInv'
  BY DEF IInv, TypeOK, AgeInv, BoardInv, NoCheckFailed, Refreshing, Tasks, Rows
<1> QED  BY <1>1, <1>2, <1>3, <1>4, <1>5 DEF IInv

\* A row is the branch as it is.
LEMMA ReadBranchStep ==
    ASSUME IInv, NEW t \in Tasks, NEW b \in Branches, ReadBranch(t, b)
    PROVE  IInv'
<1> USE SignalAssumption DEF ReadBranch, watcher, refresh, check, Spend
<1>1. TypeOK'
  BY DEF IInv, TypeOK, Rows, Refreshing, Tasks
<1>2. AgeInv'
  BY DEF IInv, TypeOK, AgeInv, ReadsInv, Rows, Tasks
<1>3. ReadsInv'
  BY DEF IInv, TypeOK, AgeInv, ReadsInv, Rows, Refreshing, Tasks
<1>4. CurrentInv'
  BY DEF IInv, TypeOK, AgeInv, ReadsInv, CurrentInv, Promised, Covers, Fresh, Rows, Refreshing,
         Tasks
<1>5. BoardInv'
  BY DEF IInv, TypeOK, AgeInv, BoardInv, NoCheckFailed, Refreshing, Tasks, Rows
<1> QED  BY <1>1, <1>2, <1>3, <1>4, <1>5 DEF IInv

\* The rows are at least as new as the statuses they replace.
LEMMA KeepStatusesStep ==
    ASSUME IInv, NEW t \in Tasks, KeepStatuses(t)
    PROVE  IInv'
<1> USE SignalAssumption DEF KeepStatuses, watcher, refresh, check
<1>1. TypeOK'
  BY DEF IInv, TypeOK, Rows, Refreshing, Tasks
<1>2. AgeInv'
  BY DEF IInv, TypeOK, AgeInv, ReadsInv, Rows, Tasks
<1>3. ReadsInv'
  BY DEF IInv, TypeOK, AgeInv, ReadsInv, Rows, Refreshing, Tasks
<1>4. CurrentInv'
  BY DEF IInv, TypeOK, AgeInv, ReadsInv, CurrentInv, Promised, Covers, Fresh, Rows, Refreshing,
         Tasks
<1>5. BoardInv'
  BY DEF IInv, TypeOK, AgeInv, BoardInv, NoCheckFailed, Refreshing, Tasks, Rows
<1> QED  BY <1>1, <1>2, <1>3, <1>4, <1>5 DEF IInv

\* While no check has failed, the statuses are what is shown.
LEMMA EvaluateStep ==
    ASSUME IInv, NEW t \in Tasks, Evaluate(t)
    PROVE  IInv'
<1> USE SignalAssumption DEF Evaluate, watcher, refresh, check, Published
<1>1. TypeOK'
  <2>1. Published \in Rows
    BY DEF Published, Quiet, Rows, IInv, TypeOK
  <2>2. shown' \in [Tasks -> Rows]
    BY <2>1 DEF IInv, TypeOK
  <2>3. phase' \in [Tasks -> {"idle", "lock", "reads", "evaluates", "stores"}]
    BY DEF IInv, TypeOK
  <2> QED  BY <2>2, <2>3 DEF IInv, TypeOK, Refreshing, Tasks
<1>2. AgeInv'
  BY DEF IInv, TypeOK, AgeInv, ReadsInv, Rows, Tasks
<1>3. ReadsInv'
  BY DEF IInv, TypeOK, AgeInv, ReadsInv, Rows, Refreshing, Tasks
<1>4. CurrentInv'
  BY DEF IInv, TypeOK, AgeInv, ReadsInv, CurrentInv, Promised, Covers, Fresh, Rows, Refreshing,
         Tasks
<1>5. BoardInv'
  BY DEF IInv, TypeOK, AgeInv, BoardInv, NoCheckFailed, Refreshing, Tasks, Rows
<1> QED  BY <1>1, <1>2, <1>3, <1>4, <1>5 DEF IInv

\* What is shown reaches the board.
LEMMA StoreStep ==
    ASSUME IInv, NEW t \in Tasks, Store(t)
    PROVE  IInv'
<1> USE SignalAssumption DEF Store, watcher, refresh, check
<1>1. TypeOK'
  BY DEF IInv, TypeOK, Rows, Refreshing, Tasks
<1>2. AgeInv'
  BY DEF IInv, TypeOK, AgeInv, ReadsInv, Rows, Tasks
<1>3. ReadsInv'
  BY DEF IInv, TypeOK, AgeInv, ReadsInv, Rows, Refreshing, Tasks
<1>4. CurrentInv'
  BY DEF IInv, TypeOK, AgeInv, ReadsInv, CurrentInv, Promised, Covers, Fresh, Rows, Refreshing,
         Tasks
<1>5. BoardInv'
  BY DEF IInv, TypeOK, AgeInv, BoardInv, NoCheckFailed, Refreshing, Tasks, Rows
<1> QED  BY <1>1, <1>2, <1>3, <1>4, <1>5 DEF IInv

\* A fetch that moved a branch makes the lane refresh.
LEMMA CheckSucceedsStep ==
    ASSUME IInv, CheckSucceeds
    PROVE  IInv'
<1> USE SignalAssumption DEF CheckSucceeds, watcher, refresh, check, Spend, AfterCheck
<1>1. TypeOK'
  <2>1. refs' \in [Branches -> Nat] /\ fetched' \in BOOLEAN
    <3>1. refs' = refs \/ \E b \in Branches : refs' = [refs EXCEPT ![b] = @ + 1]
      OBVIOUS
    <3>2. \/ fetched' = FALSE
          \/ \E b \in Branches :
                Spend("moves") /\ refs' = [refs EXCEPT ![b] = @ + 1] /\ fetched' = TRUE
      BY Zenon DEF CheckSucceeds
    <3>3. fetched' \in BOOLEAN
      BY <3>2, Zenon
    <3> QED  BY <3>1, <3>3 DEF IInv, TypeOK
  <2>2. /\ at' \in {"publish", "refresh", "check"}
        /\ \/ at' = "refresh" /\ phase' = [phase EXCEPT !["lane"] = "lock"]
           \/ at' # "refresh" /\ phase' = phase
    <3>1. CASE state = "offline"
      BY <3>1
    <3>2. CASE state # "offline"
      BY <3>2
    <3> QED  BY <3>1, <3>2
  <2>3. phase' \in [Tasks -> {"idle", "lock", "reads", "evaluates", "stores"}]
    BY <2>2 DEF IInv, TypeOK
  <2>4. phase["lane"] = "idle"
    BY DEF IInv, TypeOK
  <2>5. /\ phase'["lane"] # "idle" <=> at' \in {"start", "refresh"}
        /\ phase'["follower"] = phase["follower"]
        /\ phase'["lane"] \in {"idle", "lock"}
    BY <2>2, <2>4 DEF IInv, TypeOK, Tasks
  <2> QED  BY <2>1, <2>2, <2>3, <2>5 DEF IInv, TypeOK, Refreshing
<1>2. AgeInv'
  <2>1. refs' \in [Branches -> Nat] /\ \A b \in Branches : refs'[b] >= refs[b]
    BY DEF IInv, TypeOK
  <2>2. /\ budget' \in [{"moves", "unreadable", "failures"} -> Nat]
        /\ budget'.failures = budget.failures
    BY DEF IInv, AgeInv
  <2>3. seen # None => \A b \in Branches : seen[b] <= refs'[b]
    BY <2>1 DEF IInv, AgeInv, TypeOK
  <2>4. \A b \in Branches : statuses[b] # None => statuses[b] <= refs'[b]
    BY <2>1 DEF IInv, AgeInv, TypeOK, Rows
  <2> QED  BY <2>2, <2>3, <2>4 DEF IInv, AgeInv
<1>3. ReadsInv'
  BY DEF IInv, TypeOK, AgeInv, ReadsInv, Rows, Refreshing, Tasks
<1>4. CurrentInv'
  BY DEF IInv, TypeOK, AgeInv, ReadsInv, CurrentInv, Promised, Covers, Fresh, Rows, Refreshing,
         Tasks
<1>5. BoardInv'
  BY DEF IInv, TypeOK, AgeInv, BoardInv, NoCheckFailed, Refreshing, Tasks, Rows
<1> QED  BY <1>1, <1>2, <1>3, <1>4, <1>5 DEF IInv

\* A failed check leaves the refs alone.
LEMMA CheckFailsStep ==
    ASSUME IInv, CheckFails
    PROVE  IInv'
<1> USE SignalAssumption DEF CheckFails, watcher, refresh, check, Spend
<1>1. TypeOK'
  BY DEF IInv, TypeOK, Rows, Refreshing, Tasks
<1>2. AgeInv'
  BY DEF IInv, TypeOK, AgeInv, ReadsInv, Rows, Tasks
<1>3. ReadsInv'
  BY DEF IInv, TypeOK, AgeInv, ReadsInv, Rows, Refreshing, Tasks
<1>4. CurrentInv'
  BY DEF IInv, TypeOK, AgeInv, ReadsInv, CurrentInv, Promised, Covers, Fresh, Rows, Refreshing,
         Tasks
<1>5. BoardInv'
  BY DEF IInv, TypeOK, AgeInv, BoardInv, NoCheckFailed, Refreshing, Tasks, Rows
<1> QED  BY <1>1, <1>2, <1>3, <1>4, <1>5 DEF IInv

\* Only a check that failed, or the one after, publishes on the loop.
LEMMA PublishOnLoopStep ==
    ASSUME IInv, PublishOnLoop
    PROVE  IInv'
<1> USE SignalAssumption DEF PublishOnLoop, watcher, refresh, check, Published
<1>1. TypeOK'
  <2>1. Published \in Rows
    BY DEF Published, Quiet, Rows, IInv, TypeOK
  <2>2. shown' \in [Tasks -> Rows]
    BY <2>1 DEF IInv, TypeOK
  <2> QED  BY <2>2 DEF IInv, TypeOK, Refreshing, Tasks
<1>2. AgeInv'
  BY DEF IInv, TypeOK, AgeInv, ReadsInv, Rows, Tasks
<1>3. ReadsInv'
  BY DEF IInv, TypeOK, AgeInv, ReadsInv, Rows, Refreshing, Tasks
<1>4. CurrentInv'
  BY DEF IInv, TypeOK, AgeInv, ReadsInv, CurrentInv, Promised, Covers, Fresh, Rows, Refreshing,
         Tasks
<1>5. BoardInv'
  BY DEF IInv, TypeOK, AgeInv, BoardInv, NoCheckFailed, Refreshing, Tasks, Rows
<1> QED  BY <1>1, <1>2, <1>3, <1>4, <1>5 DEF IInv

\* The lane goes on to the refresh its fetch asks for.
LEMMA StoreOnLoopStep ==
    ASSUME IInv, StoreOnLoop
    PROVE  IInv'
<1> USE SignalAssumption DEF StoreOnLoop, watcher, refresh, check, AfterCheck
<1>1. TypeOK'
  BY DEF IInv, TypeOK, Rows, Refreshing, Tasks
<1>2. AgeInv'
  BY DEF IInv, TypeOK, AgeInv, ReadsInv, Rows, Tasks
<1>3. ReadsInv'
  BY DEF IInv, TypeOK, AgeInv, ReadsInv, Rows, Refreshing, Tasks
<1>4. CurrentInv'
  BY DEF IInv, TypeOK, AgeInv, ReadsInv, CurrentInv, Promised, Covers, Fresh, Rows, Refreshing,
         Tasks
<1>5. BoardInv'
  BY DEF IInv, TypeOK, AgeInv, BoardInv, NoCheckFailed, Refreshing, Tasks, Rows
<1> QED  BY <1>1, <1>2, <1>3, <1>4, <1>5 DEF IInv

LEMMA NextIInv == IInv /\ [Next]_vars => IInv'
<1> SUFFICES ASSUME IInv, [Next]_vars PROVE IInv'
  OBVIOUS
<1>1. CASE UNCHANGED vars
  BY <1>1 DEF IInv, TypeOK, Rows, Refreshing, AgeInv, ReadsInv, CurrentInv, Fresh, Promised,
         Covers,
              BoardInv, NoCheckFailed, vars, watcher, refresh, check
<1>2. CASE \E b \in Branches : Move(b)
  BY <1>2, MoveStep
<1>3. CASE Snapshot \/ HandOff \/ FollowerWakes
  BY <1>3, SnapshotStep, HandOffStep, FollowerWakesStep
<1>4. ASSUME NEW t \in Tasks, Refresh(t)
      PROVE  IInv'
  BY <1>4, AcquireStep, ReadBranchStep, KeepStatusesStep, EvaluateStep, StoreStep DEF Refresh
<1>5. CASE Checks
  BY <1>5, CheckSucceedsStep, CheckFailsStep, PublishOnLoopStep, StoreOnLoopStep DEF Checks
<1> QED  BY <1>1, <1>2, <1>3, <1>4, <1>5 DEF Next

LEMMA Invariance == Spec => []IInv
<1>1. Init => IInv
  BY InitIInv
<1>2. IInv /\ [Next]_vars => IInv'
  BY NextIInv
<1> QED  BY <1>1, <1>2, PTL DEF Spec

-----------------------------------------------------------------------------
(* Theorems. *)

\* The type invariant; its last part says that one refresh runs at a time.
THEOREM TypeCorrect == Spec => []TypeOK
<1>1. IInv => TypeOK
  BY DEF IInv
<1> QED  BY <1>1, Invariance, PTL

\* Only the end of a refresh's reads changes the statuses, and by no older row.
LEMMA StepKeepsAge ==
    ASSUME IInv, [Next]_vars, NEW b \in Branches, statuses[b] # None, statuses'[b] # None
    PROVE  statuses'[b] >= statuses[b]
<1>1. CASE UNCHANGED statuses
  BY <1>1 DEF IInv, TypeOK, Rows
<1>2. ASSUME NEW t \in Tasks, KeepStatuses(t)
      PROVE  statuses'[b] >= statuses[b]
  BY <1>2 DEF KeepStatuses, IInv, ReadsInv
<1> QED  BY <1>1, <1>2 DEF Next, vars, watcher, refresh, check, Move, Snapshot, HandOff,
       FollowerWakes,
            Refresh, Acquire, ReadBranch, Evaluate, Store, Checks, CheckSucceeds, CheckFails,
            PublishOnLoop, StoreOnLoop

\* No refresh replaces a newer status by an older one, however the two tasks and the
\* worker threads interleave.
THEOREM NeverBack == Spec => SignalNeverGoesBack
<1>1. IInv /\ [Next]_vars =>
         [\A b \in Branches :
             statuses[b] # None /\ statuses'[b] # None => statuses'[b] >= statuses[b]]_vars
  BY StepKeepsAge
<1> QED  BY <1>1, Invariance, PTL DEF Spec, SignalNeverGoesBack

\* If no upstream moves before the watcher's baseline, no move is swallowed: at rest
\* the statuses are those of the refs as they are, and the board shows them while
\* every check has reached the remote.
THEOREM BoardCurrent ==
    ASSUME ~MovesBeforeBaseline
    PROVE  Spec => []BoardIsCurrent
<1>1. IInv => BoardIsCurrent
  <2> SUFFICES ASSUME IInv, AtRest
               PROVE  /\ \A b \in Branches : statuses[b] \in {refs[b], None}
                      /\ NoCheckFailed => board = statuses
    BY DEF BoardIsCurrent
  <2>1. \A b \in Branches : ~Promised(b)
    BY DEF AtRest, Promised, Covers
  <2>2. \A b \in Branches : statuses[b] \in {refs[b], None}
    BY <2>1 DEF IInv, CurrentInv, Fresh
  <2>3. NoCheckFailed => board = statuses
    BY DEF IInv, BoardInv, AtRest
  <2> QED  BY <2>2, <2>3
<1> QED  BY <1>1, Invariance, PTL
=============================================================================
