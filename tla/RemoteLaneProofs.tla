--------------------------- MODULE RemoteLaneProofs ---------------------------
(***************************************************************************)
(* Proofs about RemoteLane for any branches, waits and bounds: no local    *)
(* branch loses a commit, what the lane takes as known has been fetched,   *)
(* once it rests the tracked remote refs are indexed where the last fetch  *)
(* left them or their pass of that commit failed, and the wait follows the *)
(* outage.                                                                 *)
(***************************************************************************)
EXTENDS RemoteLane, TLAPS

\* Heads only advance, so what was read of them is behind what they are.
AgeInv ==
    /\ \A b \in Branches : tracking[b] <= remote[b]
    /\ seen \in Heads \cup {None}
    /\ seen # None => \A b \in Branches : seen[b] <= tracking[b]
    /\ known # None => \A b \in Branches : known[b] <= tracking[b]

\* What the lane carries from one step of a check to the next.
CarryInv ==
    /\ target # None => IsAncestor(target.local, target.tip)
    /\ at \in {"compare", "fetch"} => heads # None /\ \A b \in Branches : heads[b] <= remote[b]
    /\ at = "fetch" => \A b \in Branches \ moved :
                          IF known = None THEN heads[b] <= tracking[b] ELSE heads[b] = known[b]

\* Somebody will still ask for a pass of r: the lane at start, the watcher's next
\* snapshot, the lane's next check, or this one.
Asked(r) ==
    \/ at = "start"
    \/ r \in requested
    \/ seen # None /\ seen[r] # tracking[r]
    \/ known # None /\ known[r] # tracking[r]
    \/ r \in moved /\ at \in {"online", "held", "target", "update", "request"}

Reads(r) == reading # None /\ reading.ref = r

\* A tracked ref that is not indexed where it is, and whose pass of that commit has not
\* failed, is being indexed or will be; and so is one whose running pass read it before
\* it moved.
IndexInv ==
    \A r \in TrackRefs :
       /\ Tried(r, tracking[r]) \/ Asked(r) \/ (Reads(r) /\ reading.sha = tracking[r])
       /\ Reads(r) => reading.sha = tracking[r] \/ Asked(r)

IInv == TypeOK /\ AgeInv /\ CarryInv /\ IndexInv

-----------------------------------------------------------------------------
(* Every action keeps the invariant. *)

\* One of two numbers is the smaller one.
LEMMA MinOfTwo ==
    ASSUME NEW m \in Nat, NEW n \in Nat
    PROVE  Min({m, n}) \in {m, n} /\ Min({m, n}) <= m /\ Min({m, n}) <= n
<1>1. \E x \in {m, n} : \A y \in {m, n} : x <= y
  BY SMT
<1> QED  BY <1>1 DEF Min

LEMMA InitIInv == Init => IInv
<1> SUFFICES ASSUME Init PROVE IInv
  OBVIOUS
<1> USE LaneAssumption DEF Init
<1>1. TypeOK
  BY DEF TypeOK, Heads, Commits, Commit
<1>2. AgeInv
  BY DEF AgeInv
<1>3. CarryInv
  BY DEF CarryInv
<1>4. IndexInv
  BY DEF IndexInv, Asked, Tried, Reads
<1> QED  BY <1>1, <1>2, <1>3, <1>4 DEF IInv

\* A push moves no ref the lane has read.
LEMMA PushStep ==
    ASSUME IInv, NEW b \in Branches, Push(b)
    PROVE  IInv'
<1> USE LaneAssumption DEF Push, passes, Spend, repository, lane, history
<1>1. TypeOK'
  BY DEF IInv, TypeOK, Heads, Targets, Readings, Commits
<1>2. AgeInv'
  BY DEF IInv, TypeOK, AgeInv, CarryInv, Heads
<1>3. CarryInv'
  BY DEF IInv, TypeOK, AgeInv, CarryInv, Heads
<1>4. IndexInv'
  BY DEF IInv, TypeOK, AgeInv, CarryInv, IndexInv, Asked, Tried, Reads, Heads
<1> QED  BY <1>1, <1>2, <1>3, <1>4 DEF IInv

\* A commit of the user's touches no remote-tracking ref.
LEMMA UserCommitsStep ==
    ASSUME IInv, NEW b \in Branches, UserCommits(b)
    PROVE  IInv'
<1> USE LaneAssumption DEF UserCommits, passes, Spend, repository, lane, history
<1>1. TypeOK'
  BY DEF IInv, TypeOK, Heads, Targets, Readings, Commits
<1>2. AgeInv'
  BY DEF IInv, TypeOK, AgeInv, CarryInv, Heads
<1>3. CarryInv'
  BY DEF IInv, TypeOK, AgeInv, CarryInv, Heads
<1>4. IndexInv'
  BY DEF IInv, TypeOK, AgeInv, CarryInv, IndexInv, Asked, Tried, Reads, Heads
<1> QED  BY <1>1, <1>2, <1>3, <1>4 DEF IInv

\* Nor does a checkout.
LEMMA CheckoutStep ==
    ASSUME IInv, NEW b \in Branches, Checkout(b)
    PROVE  IInv'
<1> USE LaneAssumption DEF Checkout, passes, Spend, repository, lane, history
<1>1. TypeOK'
  BY DEF IInv, TypeOK, Heads, Targets, Readings, Commits
<1>2. AgeInv'
  BY DEF IInv, TypeOK, AgeInv, CarryInv, Heads
<1>3. CarryInv'
  BY DEF IInv, TypeOK, AgeInv, CarryInv, Heads
<1>4. IndexInv'
  BY DEF IInv, TypeOK, AgeInv, CarryInv, IndexInv, Asked, Tried, Reads, Heads
<1> QED  BY <1>1, <1>2, <1>3, <1>4 DEF IInv

\* What the user fetches makes the watcher's next snapshot differ.
LEMMA UserFetchesStep ==
    ASSUME IInv, UserFetches
    PROVE  IInv'
<1> USE LaneAssumption DEF UserFetches, passes, Spend, repository, lane, history
<1>1. TypeOK'
  BY DEF IInv, TypeOK, Heads, Targets, Readings, Commits
<1>2. AgeInv'
  BY DEF IInv, TypeOK, AgeInv, CarryInv, Heads
<1>3. CarryInv'
  BY DEF IInv, TypeOK, AgeInv, CarryInv, Heads
<1>4. IndexInv'
  BY DEF IInv, TypeOK, AgeInv, CarryInv, IndexInv, Asked, Tried, Reads, Heads
<1> QED  BY <1>1, <1>2, <1>3, <1>4 DEF IInv

\* A restart starts with a job for every tracked ref.
LEMMA RestartStep ==
    ASSUME IInv, Restart
    PROVE  IInv'
<1> USE LaneAssumption DEF Restart, passes, Spend, repository, lane, history
<1>1. TypeOK'
  BY DEF IInv, TypeOK, Heads, Targets, Readings, Commits
<1>2. AgeInv'
  BY DEF IInv, TypeOK, AgeInv, CarryInv, Heads
<1>3. CarryInv'
  BY DEF IInv, TypeOK, AgeInv, CarryInv, Heads
<1>4. IndexInv'
  BY DEF IInv, TypeOK, AgeInv, CarryInv, IndexInv, Asked, Tried, Reads, Heads
<1> QED  BY <1>1, <1>2, <1>3, <1>4 DEF IInv

\* The jobs asked for at start.
LEMMA StartStep ==
    ASSUME IInv, Start
    PROVE  IInv'
<1> USE LaneAssumption DEF Start, passes, outside, repository, history, lane
<1>1. TypeOK'
  BY DEF IInv, TypeOK, Heads, Targets, Readings, Commits
<1>2. AgeInv'
  BY DEF IInv, TypeOK, AgeInv, CarryInv, Heads
<1>3. CarryInv'
  BY DEF IInv, TypeOK, AgeInv, CarryInv, Heads
<1>4. IndexInv'
  BY DEF IInv, TypeOK, AgeInv, CarryInv, IndexInv, Asked, Tried, Reads, Heads
<1> QED  BY <1>1, <1>2, <1>3, <1>4 DEF IInv

\* The heads are the remote's, at this moment.
LEMMA LsRemoteStep ==
    ASSUME IInv, LsRemote
    PROVE  IInv'
<1> USE LaneAssumption DEF LsRemote, passes, outside, repository, history, lane
<1>1. TypeOK'
  BY DEF IInv, TypeOK, Heads, Targets, Readings, Commits
<1>2. AgeInv'
  BY DEF IInv, TypeOK, AgeInv, CarryInv, Heads
<1>3. CarryInv'
  BY DEF IInv, TypeOK, AgeInv, CarryInv, Heads
<1>4. IndexInv'
  BY DEF IInv, TypeOK, AgeInv, CarryInv, IndexInv, Asked, Tried, Reads, Heads
<1> QED  BY <1>1, <1>2, <1>3, <1>4 DEF IInv

\* A head that did not move is one the lane knows, or is on disk.
LEMMA CompareStep ==
    ASSUME IInv, Compare
    PROVE  IInv'
<1> USE LaneAssumption DEF Compare, passes, outside, repository, history, lane
<1>1. TypeOK'
  BY DEF IInv, TypeOK, Heads, Targets, Readings, Commits
<1>2. AgeInv'
  BY DEF IInv, TypeOK, AgeInv, CarryInv, Heads
<1>3. CarryInv'
  BY DEF IInv, TypeOK, AgeInv, CarryInv, Heads
<1>4. IndexInv'
  BY DEF IInv, TypeOK, AgeInv, CarryInv, IndexInv, Asked, Tried, Reads, Heads
<1> QED  BY <1>1, <1>2, <1>3, <1>4 DEF IInv

\* What the fetch moved is a head that moved, or differs from what is known now.
LEMMA FetchStep ==
    ASSUME IInv, Fetch
    PROVE  IInv'
<1> USE LaneAssumption DEF Fetch, passes, history, lane
<1>1. TypeOK'
  BY DEF IInv, TypeOK, Heads, Targets, Readings, Commits
<1>2. AgeInv'
  BY DEF IInv, TypeOK, AgeInv, CarryInv, Heads
<1>3. CarryInv'
  BY DEF IInv, TypeOK, AgeInv, CarryInv, Heads
<1>4. IndexInv'
  BY DEF IInv, TypeOK, AgeInv, CarryInv, IndexInv, Asked, Tried, Reads, Heads
<1> QED  BY <1>1, <1>2, <1>3, <1>4 DEF IInv

\* A failed check leaves what is known, and so the difference.
LEMMA CheckFailsStep ==
    ASSUME IInv, NEW authentication \in BOOLEAN, CheckFails(authentication)
    PROVE  IInv'
<1> USE LaneAssumption DEF CheckFails, passes, Spend, repository, lane, history
<1>1. TypeOK'
  <2>1. DoubledWait \in 0 .. Ceiling
    <3>1. /\ (IF state = "online" THEN Interval ELSE wait * 2) \in Nat
          /\ Ceiling \in Nat
      BY DEF IInv, TypeOK
    <3> QED  BY <3>1, MinOfTwo DEF DoubledWait
  <2>2. wait' \in 0 .. Ceiling
    BY <2>1
  <2> QED  BY <2>2 DEF IInv, TypeOK, Heads, Targets, Readings, Commits
<1>2. AgeInv'
  BY DEF IInv, TypeOK, AgeInv, CarryInv, Heads
<1>3. CarryInv'
  BY DEF IInv, TypeOK, AgeInv, CarryInv, Heads
<1>4. IndexInv'
  BY DEF IInv, TypeOK, AgeInv, CarryInv, IndexInv, Asked, Tried, Reads, Heads
<1> QED  BY <1>1, <1>2, <1>3, <1>4 DEF IInv

\* The moved heads are kept for the end of the check.
LEMMA ComeOnlineStep ==
    ASSUME IInv, ComeOnline
    PROVE  IInv'
<1> USE LaneAssumption DEF ComeOnline, passes, outside, repository, lane, history
<1>1. TypeOK'
  BY DEF IInv, TypeOK, Heads, Targets, Readings, Commits
<1>2. AgeInv'
  BY DEF IInv, TypeOK, AgeInv, CarryInv, Heads
<1>3. CarryInv'
  BY DEF IInv, TypeOK, AgeInv, CarryInv, Heads
<1>4. IndexInv'
  BY DEF IInv, TypeOK, AgeInv, CarryInv, IndexInv, Asked, Tried, Reads, Heads
<1> QED  BY <1>1, <1>2, <1>3, <1>4 DEF IInv

\* So they are while worktrees are listed,
LEMMA FreeBranchesStep ==
    ASSUME IInv, FreeBranches
    PROVE  IInv'
<1> USE LaneAssumption DEF FreeBranches, passes, Spend, repository, history, lane
<1>1. TypeOK'
  BY DEF IInv, TypeOK, Heads, Targets, Readings, Commits
<1>2. AgeInv'
  BY DEF IInv, TypeOK, AgeInv, CarryInv, Heads
<1>3. CarryInv'
  BY DEF IInv, TypeOK, AgeInv, CarryInv, Heads
<1>4. IndexInv'
  BY DEF IInv, TypeOK, AgeInv, CarryInv, IndexInv, Asked, Tried, Reads, Heads
<1> QED  BY <1>1, <1>2, <1>3, <1>4 DEF IInv

\* while a fast-forward is looked for,
LEMMA FastForwardTargetStep ==
    ASSUME IInv, NEW b \in Branches, FastForwardTarget(b)
    PROVE  IInv'
<1> USE LaneAssumption DEF FastForwardTarget, passes, Spend, repository, history, lane
<1>1. TypeOK'
  BY DEF IInv, TypeOK, Heads, Targets, Readings, Commits
<1>2. AgeInv'
  BY DEF IInv, TypeOK, AgeInv, CarryInv, Heads
<1>3. CarryInv'
  BY DEF IInv, TypeOK, AgeInv, CarryInv, Heads
<1>4. IndexInv'
  BY DEF IInv, TypeOK, AgeInv, CarryInv, IndexInv, Asked, Tried, Reads, Heads
<1> QED  BY <1>1, <1>2, <1>3, <1>4 DEF IInv

\* and made.
LEMMA UpdateRefStep ==
    ASSUME IInv, UpdateRef
    PROVE  IInv'
<1> USE LaneAssumption DEF UpdateRef, passes, Spend, history, lane
<1>1. TypeOK'
  <2>1. target \in Targets /\ target.branch \in Branches /\ target.tip \in Nat
    BY DEF IInv, TypeOK, Targets
  <2>2. Commit(target.tip, 0) \in Commits
    BY <2>1 DEF Commit, Commits
  <2>3. tips' = tips \/ tips' = [tips EXCEPT ![target.branch] = Commit(target.tip, 0)]
    OBVIOUS
  <2>4. tips' \in [Branches -> Commits]
    BY <2>1, <2>2, <2>3 DEF IInv, TypeOK
  <2>5. target' = None /\ at' = "target"
    OBVIOUS
  <2> QED  BY <2>4, <2>5 DEF IInv, TypeOK
<1>2. AgeInv'
  BY DEF IInv, TypeOK, AgeInv, CarryInv, Heads
<1>3. CarryInv'
  BY DEF IInv, TypeOK, AgeInv, CarryInv, Heads
<1>4. IndexInv'
  BY DEF IInv, TypeOK, AgeInv, CarryInv, IndexInv, Asked, Tried, Reads, Heads
<1> QED  BY <1>1, <1>2, <1>3, <1>4 DEF IInv

\* After the last one
LEMMA FastForwardsEndStep ==
    ASSUME IInv, FastForwardsEnd
    PROVE  IInv'
<1> USE LaneAssumption DEF FastForwardsEnd, passes, outside, repository, history, lane
<1>1. TypeOK'
  BY DEF IInv, TypeOK, Heads, Targets, Readings, Commits
<1>2. AgeInv'
  BY DEF IInv, TypeOK, AgeInv, CarryInv, Heads
<1>3. CarryInv'
  BY DEF IInv, TypeOK, AgeInv, CarryInv, Heads
<1>4. IndexInv'
  BY DEF IInv, TypeOK, AgeInv, CarryInv, IndexInv, Asked, Tried, Reads, Heads
<1> QED  BY <1>1, <1>2, <1>3, <1>4 DEF IInv

\* each has its job.
LEMMA RequestMovedStep ==
    ASSUME IInv, RequestMoved
    PROVE  IInv'
<1> USE LaneAssumption DEF RequestMoved, passes, outside, repository, history, lane
<1>1. TypeOK'
  BY DEF IInv, TypeOK, Heads, Targets, Readings, Commits
<1>2. AgeInv'
  BY DEF IInv, TypeOK, AgeInv, CarryInv, Heads
<1>3. CarryInv'
  BY DEF IInv, TypeOK, AgeInv, CarryInv, Heads
<1>4. IndexInv'
  BY DEF IInv, TypeOK, AgeInv, CarryInv, IndexInv, Asked, Tried, Reads, Heads
<1> QED  BY <1>1, <1>2, <1>3, <1>4 DEF IInv

\* Nothing is due when the lane sleeps.
LEMMA SleepStep ==
    ASSUME IInv, Sleep
    PROVE  IInv'
<1> USE LaneAssumption DEF Sleep, passes, outside, repository, history, lane
<1>1. TypeOK'
  BY DEF IInv, TypeOK, Heads, Targets, Readings, Commits
<1>2. AgeInv'
  BY DEF IInv, TypeOK, AgeInv, CarryInv, Heads
<1>3. CarryInv'
  BY DEF IInv, TypeOK, AgeInv, CarryInv, Heads
<1>4. IndexInv'
  BY DEF IInv, TypeOK, AgeInv, CarryInv, IndexInv, Asked, Tried, Reads, Heads
<1> QED  BY <1>1, <1>2, <1>3, <1>4 DEF IInv

\* A difference the watcher sees becomes a job.
LEMMA SnapshotStep ==
    ASSUME IInv, Snapshot
    PROVE  IInv'
<1> USE LaneAssumption DEF Snapshot, passes, repository, lane, history
<1>1. TypeOK'
  BY DEF IInv, TypeOK, Heads, Targets, Readings, Commits
<1>2. AgeInv'
  BY DEF IInv, TypeOK, AgeInv, CarryInv, Heads
<1>3. CarryInv'
  BY DEF IInv, TypeOK, AgeInv, CarryInv, Heads
<1>4. IndexInv'
  BY DEF IInv, TypeOK, AgeInv, CarryInv, IndexInv, Asked, Tried, Reads, Heads
<1> QED  BY <1>1, <1>2, <1>3, <1>4 DEF IInv

\* A reading is of its ref and its commit, and is no None.
LEMMA ReadingOfRef ==
    ASSUME NEW r \in TrackRefs, NEW n \in Nat
    PROVE  /\ Reading(r, n) \in Readings /\ Reading(r, n) # None
           /\ Reading(r, n).ref = r /\ Reading(r, n).sha = n
BY LaneAssumption DEF Reading, Readings

\* And there is one reading of a ref at a commit.
LEMMA ReadingIsItsFields ==
    ASSUME NEW p \in Readings
    PROVE  p = Reading(p.ref, p.sha) /\ p.ref \in TrackRefs /\ p.sha \in Nat
BY DEF Reading, Readings

\* The job becomes a pass that reads the ref as it is, unless the ref is indexed there,
\* or git failed to read it.
LEMMA PassReadsStep ==
    ASSUME IInv, NEW r \in TrackRefs, PassReads(r)
    PROVE  IInv'
<1> USE LaneAssumption DEF PassReads, passes, Spend, repository, lane, history
<1> DEFINE p == Reading(r, tracking[r])
<1>1. r \in Branches /\ tracking[r] \in Nat /\ p \in Readings
  <2>1. r \in Branches /\ tracking[r] \in Nat
    BY DEF IInv, TypeOK, Heads
  <2> QED  BY <2>1, ReadingOfRef
<1>2. p # None /\ p.ref = r /\ p.sha = tracking[r]
  BY <1>1, ReadingOfRef
<1>3. \/ reading' = p /\ missed' = missed
      \/ reading' = None /\ missed' = missed /\ indexed[r] = tracking[r]
      \/ reading' = None /\ missed' = missed \cup {p}
  OBVIOUS
<1> HIDE DEF p
<1>4. TypeOK'
  <2>1. /\ reading' \in Readings \cup {None} /\ missed' \subseteq Readings
        /\ requested' \subseteq TrackRefs
    BY <1>1, <1>3 DEF IInv, TypeOK
  <2> QED  BY <2>1 DEF IInv, TypeOK
<1>5. AgeInv'
  BY DEF IInv, TypeOK, AgeInv, CarryInv, Heads
<1>6. CarryInv'
  BY DEF IInv, TypeOK, AgeInv, CarryInv, Heads
<1>7. IndexInv'
  <2> SUFFICES ASSUME NEW q \in TrackRefs
               PROVE  (/\ Tried(q, tracking[q]) \/ Asked(q) \/ (Reads(q) /\ reading.sha = tracking[q])
                       /\ Reads(q) => reading.sha = tracking[q] \/ Asked(q))'
    BY DEF IndexInv
  <2>1. CASE q = r
    BY <1>2, <1>3, <2>1 DEF Reads, Tried, p
  <2>2. CASE q # r
    <3>1. Tried(q, tracking[q]) => Tried(q, tracking[q])'
      BY <1>3 DEF Tried
    <3>2. Asked(q) => Asked(q)'
      BY <2>2 DEF Asked
    <3>3. ~Reads(q) /\ ~Reads(q)'
      BY <1>2, <1>3, <2>2 DEF Reads
    <3> QED  BY <3>1, <3>2, <3>3 DEF IInv, IndexInv
  <2> QED  BY <2>1, <2>2
<1> QED  BY <1>4, <1>5, <1>6, <1>7 DEF IInv

\* It writes that or fails, or the ref has moved and is asked for again.
LEMMA PassEndsStep ==
    ASSUME IInv, PassEnds
    PROVE  IInv'
<1> USE LaneAssumption DEF PassEnds, passes, Spend, repository, lane, history
<1>1. reading \in Readings
  BY DEF IInv, TypeOK
<1>2. reading = Reading(reading.ref, reading.sha) /\ reading.ref \in TrackRefs
  BY <1>1, ReadingIsItsFields
<1>3. TypeOK'
  BY <1>1 DEF IInv, TypeOK, Heads, Targets, Readings, Commits
<1>4. AgeInv'
  BY DEF IInv, TypeOK, AgeInv, CarryInv, Heads
<1>5. CarryInv'
  BY DEF IInv, TypeOK, AgeInv, CarryInv, Heads
<1>6. IndexInv'
  <2> SUFFICES ASSUME NEW q \in TrackRefs
               PROVE  Tried(q, tracking[q])' \/ Asked(q)'
    BY DEF IndexInv, Reads
  <2>1. Asked(q) => Asked(q)'
    BY DEF Asked
  <2>2. CASE Reads(q) /\ reading.sha = tracking[q]
    <3>1. reading = Reading(q, tracking[q])
      BY <1>2, <2>2 DEF Reads
    <3>2. CASE indexed' = [indexed EXCEPT ![reading.ref] = reading.sha]
      BY <2>2, <3>2 DEF Reads, Tried, IInv, TypeOK
    <3>3. CASE missed' = missed \cup {reading}
      BY <3>1, <3>3 DEF Tried
    <3> QED  BY <3>2, <3>3
  <2>3. CASE ~Reads(q)
    <3>1. Tried(q, tracking[q]) => Tried(q, tracking[q])'
      BY <2>3 DEF Tried, Reads, IInv, TypeOK
    <3> QED  BY <2>1, <2>3, <3>1 DEF IInv, IndexInv
  <2> QED  BY <2>1, <2>2, <2>3 DEF IInv, IndexInv
<1> QED  BY <1>3, <1>4, <1>5, <1>6 DEF IInv

LEMMA NextIInv == IInv /\ [Next]_vars => IInv'
<1> SUFFICES ASSUME IInv, [Next]_vars PROVE IInv'
  OBVIOUS
<1>1. CASE UNCHANGED vars
  BY <1>1 DEF IInv, TypeOK, AgeInv, CarryInv, IndexInv, Asked, Tried, Reads, vars, repository,
         lane, passes
<1>2. CASE User
  BY <1>2, PushStep, UserCommitsStep, CheckoutStep, UserFetchesStep, RestartStep DEF User
<1>3. CASE Lane
  BY <1>3, StartStep, LsRemoteStep, CompareStep, FetchStep, ComeOnlineStep, FreeBranchesStep,
     FastForwardTargetStep, UpdateRefStep, FastForwardsEndStep, RequestMovedStep, SleepStep
     DEF Lane, Check, AfterFetch
<1>4. CASE CheckFails(FALSE) \/ CheckFails(TRUE)
  BY <1>4, CheckFailsStep
<1>5. CASE Snapshot
  BY <1>5, SnapshotStep
<1>6. CASE Index
  BY <1>6, PassReadsStep, PassEndsStep DEF Index
<1> QED  BY <1>1, <1>2, <1>3, <1>4, <1>5, <1>6 DEF Next

LEMMA Invariance == Spec => []IInv
<1>1. Init => IInv
  BY InitIInv
<1>2. IInv /\ [Next]_vars => IInv'
  BY NextIInv
<1> QED  BY <1>1, <1>2, PTL DEF Spec

-----------------------------------------------------------------------------
(* The wait. *)

\* The laws of powers of two, which the provers do not know.
PowersOfTwo == 2^0 = 1 /\ \A n \in Nat : 2^n \in Nat /\ 2^(n + 1) = 2 * 2^n

\* The failed checks of this outage, of which there is one as soon as it has begun.
BackoffInv ==
    /\ streak \in Nat /\ refused \in BOOLEAN
    /\ state = "online" => streak = 0 /\ ~refused
    /\ state = "offline" => streak > 0
    /\ BackoffFollowsTheOutage

\* Doubling after the ceiling was applied is applying it to the doubled.
LEMMA CeilingOfDouble ==
    ASSUME NEW m \in Nat, NEW n \in Nat
    PROVE  Min({m, Min({m, n}) * 2}) = Min({m, 2 * n})
<1>1. Min({m, n}) = IF m <= n THEN m ELSE n
  BY MinOfTwo
<1>2. Min({m, n}) * 2 \in Nat /\ 2 * n \in Nat
  BY <1>1
<1> DEFINE d == Min({m, n}) * 2
<1> HIDE DEF d
<1>3. /\ Min({m, d}) \in {m, d} /\ Min({m, d}) <= m /\ Min({m, d}) <= d
      /\ Min({m, 2 * n}) \in {m, 2 * n} /\ Min({m, 2 * n}) <= m /\ Min({m, 2 * n}) <= 2 * n
  BY <1>2, MinOfTwo DEF d
<1>4. d = IF m <= n THEN m * 2 ELSE n * 2
  BY <1>1 DEF d
<1> QED  BY <1>3, <1>4 DEF d

\* A failed check doubles the wait, or makes it the ceiling for good.
LEMMA FailureBacksOff ==
    ASSUME PowersOfTwo, IInv, BackoffInv, NEW authentication \in BOOLEAN,
           CheckFails(authentication)
    PROVE  BackoffInv'
<1> USE LaneAssumption DEF CheckFails
<1>1. /\ streak' = streak + 1 /\ streak \in Nat /\ state' = "offline"
      /\ refused' = (refused \/ authentication) /\ refused \in BOOLEAN
      /\ wait' = IF authentication THEN Ceiling ELSE DoubledWait
      /\ Ceiling \in Nat /\ Interval \in Nat /\ state \in {"online", "offline"}
  BY DEF BackoffInv, IInv, TypeOK
<1>2. wait' = IF refused' THEN Ceiling ELSE Min({Ceiling, Interval * 2^(streak' - 1)})
  <2>1. CASE authentication
    BY <1>1, <2>1
  <2>2. CASE ~authentication /\ state = "online"
    <3>1. streak' - 1 = 0 /\ ~refused'
      BY <1>1, <2>2 DEF BackoffInv
    <3>2. Interval * 2^(streak' - 1) = Interval
      BY <1>1, <3>1 DEF PowersOfTwo
    <3> QED  BY <1>1, <2>2, <3>1, <3>2 DEF DoubledWait
  <2>3. CASE ~authentication /\ state = "offline" /\ refused
    <3>1. wait' = Min({Ceiling, Ceiling * 2}) /\ refused'
      BY <1>1, <2>3 DEF DoubledWait, BackoffInv, BackoffFollowsTheOutage
    <3>2. Min({Ceiling, Ceiling * 2}) = Ceiling
      <4>1. Ceiling * 2 \in Nat /\ Ceiling <= Ceiling * 2
        BY <1>1
      <4> QED  BY <1>1, <4>1, MinOfTwo
    <3> QED  BY <3>1, <3>2
  <2>4. CASE ~authentication /\ state = "offline" /\ ~refused
    <3> DEFINE P == 2^(streak - 1)
               x == Interval * P
    <3>1. streak - 1 \in Nat /\ (streak - 1) + 1 = streak' - 1 /\ ~refused'
      BY <1>1, <2>4 DEF BackoffInv
    <3>2. P \in Nat /\ 2^(streak' - 1) = 2 * P
      BY <3>1 DEF PowersOfTwo
    <3>3. wait = Min({Ceiling, x})
      BY <2>4 DEF BackoffInv, BackoffFollowsTheOutage
    <3>4. wait' = Min({Ceiling, wait * 2})
      BY <1>1, <2>4 DEF DoubledWait
    <3> HIDE DEF P
    <3>5. x \in Nat /\ Interval * (2 * P) = 2 * x
      BY <1>1, <3>2
    <3>6. Interval * 2^(streak' - 1) = 2 * x
      BY <3>2, <3>5
    <3> HIDE DEF x
    <3>7. wait' = Min({Ceiling, 2 * x})
      BY <1>1, <3>3, <3>4, <3>5, CeilingOfDouble
    <3> QED  BY <3>1, <3>6, <3>7
  <2> QED  BY <1>1, <2>1, <2>2, <2>3, <2>4
<1> QED  BY <1>1, <1>2 DEF BackoffInv, BackoffFollowsTheOutage

\* A check that succeeds and a restart end the outage; no other step touches the wait.
LEMMA NextBacksOff ==
    ASSUME PowersOfTwo, IInv, BackoffInv, [Next]_vars
    PROVE  BackoffInv'
<1>1. CASE UNCHANGED <<state, wait, history>>
  BY <1>1 DEF BackoffInv, BackoffFollowsTheOutage, history
<1>2. CASE Restart \/ ComeOnline
  <2>1. state' = "online" /\ streak' = 0 /\ refused' = FALSE
    BY <1>2 DEF Restart, ComeOnline
  <2>2. BackoffFollowsTheOutage'
    BY <2>1 DEF BackoffFollowsTheOutage
  <2> QED  BY <2>1, <2>2 DEF BackoffInv
<1>3. ASSUME NEW authentication \in BOOLEAN, CheckFails(authentication)
      PROVE  BackoffInv'
  BY <1>3, FailureBacksOff
<1> QED  BY <1>1, <1>2, <1>3
         DEF Next, User, Push, UserCommits, Checkout, UserFetches, Lane, Start, Check, LsRemote,
             Compare, Fetch, AfterFetch, FreeBranches, FastForwardTarget, UpdateRef,
             FastForwardsEnd, RequestMoved, Sleep, Snapshot, Index, PassReads, PassEnds, vars,
             lane, outside, history

-----------------------------------------------------------------------------
(* Theorems. *)

\* The type invariant, with the wait never above the ceiling.
THEOREM TypeCorrect == Spec => []TypeOK
<1>1. IInv => TypeOK
  BY DEF IInv
<1> QED  BY <1>1, Invariance, PTL

\* A head the lane takes as known has been fetched: a fetch that fails is made again.
THEOREM KnownIsFetched == Spec => []KnownHeadsWereFetched
<1>1. IInv => KnownHeadsWereFetched
  BY DEF IInv, AgeInv, KnownHeadsWereFetched
<1> QED  BY <1>1, Invariance, PTL

\* At rest a tracked remote ref is indexed where the last fetch left it, whoever
\* fetched, and whatever failed or was restarted on the way, unless what failed since
\* the restart is the pass of that very commit.
THEOREM RefsAreIndexed == Spec => []TrackedRefsAreIndexed
<1>1. IInv => TrackedRefsAreIndexed
  <2> SUFFICES ASSUME IInv, AtRest, NEW r \in TrackRefs
               PROVE  Tried(r, tracking[r])
    BY DEF TrackedRefsAreIndexed
  <2>1. ~Asked(r) /\ ~Reads(r)
    BY DEF AtRest, Asked, Reads
  <2> QED  BY <2>1 DEF IInv, IndexInv
<1> QED  BY <1>1, Invariance, PTL

\* Only a commit of the user's and a fast-forward move a branch, both forward.
LEMMA StepLosesNoCommit ==
    ASSUME IInv, [Next]_vars, NEW b \in Branches
    PROVE  Holds(tips'[b], tips[b])
<1>1. tips \in [Branches -> Commits] /\ tips[b].own \in Nat /\ tips[b].base \in Nat
  BY DEF IInv, TypeOK, Commits
<1>2. CASE UNCHANGED tips
  BY <1>1, <1>2 DEF Holds
<1>3. ASSUME NEW c \in Branches, UserCommits(c)
      PROVE  Holds(tips'[b], tips[b])
  BY <1>1, <1>3 DEF UserCommits, Holds, Commits
<1>4. CASE UpdateRef
  <2>1. CASE UNCHANGED tips
    BY <2>1, <1>2
  <2>2. CASE /\ tips[target.branch] = target.local
             /\ tips' = [tips EXCEPT ![target.branch] = Commit(target.tip, 0)]
    <3>1. target # None /\ target.tip \in Nat
      BY <1>4, LaneAssumption DEF UpdateRef, IInv, TypeOK, Targets
    <3>2. IsAncestor(tips[target.branch], target.tip)
      BY <2>2, <3>1 DEF IInv, CarryInv
    <3>3. CASE b = target.branch
      BY <1>1, <2>2, <3>1, <3>2, <3>3 DEF Holds, IsAncestor, Commit
    <3>4. CASE b # target.branch
      BY <1>1, <2>2, <3>4 DEF Holds
    <3> QED  BY <3>3, <3>4
  <2> QED  BY <1>4, <2>1, <2>2 DEF UpdateRef
<1> QED  BY <1>2, <1>3, <1>4
         DEF Next, User, Push, Checkout, UserFetches, Restart, Lane, Start, Check, LsRemote, Compare,
             Fetch, ComeOnline, AfterFetch, FreeBranches, FastForwardTarget, FastForwardsEnd,
             RequestMoved, Sleep, CheckFails, Snapshot, Index, PassReads, PassEnds, vars,
             repository, outside

\* No local branch loses a commit: the tip that was looked at is the one replaced, and
\* it is an ancestor of the new one.
THEOREM CommitsAreKept == Spec => NoCommitIsLost
<1>1. IInv /\ [Next]_vars => [\A b \in Branches : Holds(tips'[b], tips[b])]_vars
  BY StepLosesNoCommit
<1> QED  BY <1>1, Invariance, PTL DEF Spec, NoCommitIsLost

\* The wait of an outage doubles from the interval with each failed check, up to the
\* ceiling, and is the ceiling once the credentials were refused, after any number of
\* failures and outages.
THEOREM WaitFollowsTheOutage ==
    ASSUME PowersOfTwo
    PROVE  Spec => []BackoffFollowsTheOutage
<1>1. Init => BackoffInv
  <2> SUFFICES ASSUME Init PROVE BackoffInv
    OBVIOUS
  <2>1. state = "online" /\ streak = 0 /\ refused = FALSE
    BY DEF Init
  <2>2. BackoffFollowsTheOutage
    BY <2>1 DEF BackoffFollowsTheOutage
  <2> QED  BY <2>1, <2>2 DEF BackoffInv
<1>2. BackoffInv /\ IInv /\ [Next]_vars => BackoffInv'
  BY NextBacksOff
<1>3. BackoffInv => BackoffFollowsTheOutage
  BY DEF BackoffInv
<1> QED  BY <1>1, <1>2, <1>3, Invariance, PTL DEF Spec
=============================================================================
