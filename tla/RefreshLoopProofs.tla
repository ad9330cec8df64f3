-------------------------- MODULE RefreshLoopProofs --------------------------
(***************************************************************************)
(* Proofs about RefreshLoop for any branches, tracked branches and         *)
(* situations: the types; the served row is this checkout's one stamp, and *)
(* what a working-tree pass read; once the loop rests, the rows of tracked *)
(* branches are at their tips, where nothing moves before the first        *)
(* snapshot (Quiet), the checked-out branch is served at its head, and     *)
(* under --watch with the content of its tree (FilesTell).                 *)
(*                                                                         *)
(* The last part is about FileWatcher, for any number of events: it        *)
(* implements ChangeSignal, whose promise the file watcher of RefreshLoop  *)
(* is.  The two share no variable.                                         *)
(***************************************************************************)
EXTENDS RefreshLoop, FileWatcher, FiniteSetTheorems, SequenceTheorems,
        WellFoundedInduction, TLAPS

-----------------------------------------------------------------------------
(* The types. *)

CommitsOf(c) == 1 .. Len(c)
Commits == CommitsOf(contentOf)
Drafts == [content : Int \cup {None}, name : RowNames \cup {None}, sha : Nat \cup {None}]
Jobs == [key : Branches, refHead : Commits, priority : 0 .. 1]

RepositoryTypes ==
    /\ head \in Branches /\ moving \in Branches \cup {None}
    /\ contentOf \in Seq(Int) /\ tips \in [Branches -> Commits] /\ tree \in Int
    /\ setup \in Setups
    /\ budget \in [{"saves", "commits", "checkouts", "advances", "failures", "hiccups"} -> Nat]

WatcherTypes ==
    /\ headRead \in Branches \cup {None} /\ keyRead \in Branches \cup {None}
    /\ edited \in BOOLEAN
    /\ seen = None \/ seen \in [head : Branches, tips : [Branches -> Commits]]
    /\ report = None \/ report \in [head : Branches \cup {None}, moved : SUBSET Branches,
                                    tips : [Branches -> Commits]]
    /\ jobs \in Seq(Jobs)

QueueTypes ==
    /\ DOMAIN outstanding = Branches
    /\ \A k \in Branches : \A r \in outstanding[k] : r.paths = {}
    /\ pass = None \/ (pass.key \in Branches /\ pass.paths = {})

\* What the running pass has read at each of its steps.
RunnerTypes ==
    /\ phase \in {"startup", "serving"}
    /\ at \in {"idle", "route", "check", "extract", "name", "sha", "write", "metadata",
               "refs", "objects"}
    /\ phase = "startup" => at \in {"extract", "name", "sha", "write", "metadata"}
    /\ phase = "serving" /\ at # "idle" => pass.key \in Branches
    /\ draft \in Drafts
    /\ at \in {"name", "sha", "write", "metadata"} => draft.content \in Int
    /\ at = "sha" => draft.name \in Branches
    /\ at \in {"write", "metadata"} =>
          \/ draft.name \in Branches /\ draft.sha \in Commits
          \/ draft.name = NonGit /\ draft.sha = None
    /\ at = "objects" => draft.sha \in Commits

IndexTypes ==
    /\ rows \in [RowNames -> {None} \cup StampedRow]
    /\ served \in RowNames \cup {None}
    /\ package \in Int \cup {None}
    /\ \A b \in Branches : rows[b] # None => rows[b].sha \in Commits
    /\ rows[NonGit] # None => rows[NonGit].sha = None
    /\ lost \subseteq RowNames

TypeInv == RepositoryTypes /\ WatcherTypes /\ QueueTypes /\ RunnerTypes /\ IndexTypes

\* What the types say of every variable implies the checked type invariant.
LEMMA TypeInvImpliesTypeOK == TypeInv => TypeOK
<1> SUFFICES ASSUME TypeInv PROVE TypeOK
  OBVIOUS
<1>1. \A i \in DOMAIN jobs : jobs[i].key \in Branches /\ jobs[i].refHead \in 1..Len(contentOf)
  <2>1. \A i \in DOMAIN jobs : jobs[i] \in Jobs
    BY DEF TypeInv, WatcherTypes
  <2> QED  BY <2>1 DEF Jobs, Commits, CommitsOf
<1> QED  BY <1>1 DEF TypeInv, RepositoryTypes, WatcherTypes, QueueTypes, RunnerTypes,
                     IndexTypes, TypeOK, Commits, CommitsOf

\* A branch is no None and no NonGit, and a row, a snapshot, a report is no None.
LEMMA NamesDiffer ==
    /\ None \notin RowNames /\ NonGit \notin Branches
    /\ None \notin Nat /\ None \notin StampedRow
    /\ \A b \in Branches : b # None /\ b # NonGit /\ b \in RowNames
BY RefreshAssumption DEF RowNames

\* A row is what it was made of, and no None.
LEMMA RowIs ==
    ASSUME NEW c \in Int, NEW s \in Nat \cup {None}, NEW w \in BOOLEAN
    PROVE  /\ Row(c, s, w) \in StampedRow /\ Row(c, s, w) # None
           /\ Row(c, s, w).content = c /\ Row(c, s, w).sha = s /\ Row(c, s, w).worktree = w
<1>1. Row(c, s, w) \in StampedRow
  BY DEF Row, StampedRow
<1> QED  BY <1>1, NamesDiffer DEF Row

\* The sequence of a finite set.
LEMMA SetToSeqIs ==
    ASSUME NEW S, IsFiniteSet(S)
    PROVE  SetToSeq(S) \in Seq(S) /\ \A x \in S : \E i \in DOMAIN SetToSeq(S) : SetToSeq(S)[i] = x
<1> DEFINE n == Cardinality(S)
           Fs == {f \in [1 .. n -> S] : IsInjective(f)}
<1>1. n \in Nat /\ IsFiniteSet(1 .. n) /\ Cardinality(1 .. n) = n
  BY FS_CardinalityType, FS_Interval
<1>2. PICK g : g \in Bijection(1 .. n, S)
  BY FS_CardinalityType DEF ExistsBijection
<1>3. g \in Fs
  BY <1>2 DEF Bijection, Injection
<1>4. SetToSeq(S) \in Fs
  <2>1. SetToSeq(S) = CHOOSE f \in [1 .. n -> S] : IsInjective(f)
    BY DEF SetToSeq
  <2> QED  BY <1>3, <2>1
<1> DEFINE s == SetToSeq(S)
<1>5. s \in Injection(1 .. n, S)
  BY <1>4 DEF Injection
<1> HIDE DEF n, s
<1>6. s \in Surjection(1 .. n, S)
  BY <1>1, <1>5, FS_Injection DEF n
<1>7. DOMAIN s = 1 .. n /\ s \in Seq(S)
  <2>1. s \in [1 .. n -> S]
    BY <1>5 DEF Injection
  <2> QED  BY <1>1, <2>1, IsASeq
<1> QED  BY <1>6, <1>7 DEF s, Surjection

\* A loop that starts, over a bundle of an earlier run or none, has the types.
LEMMA InitTypes == Init => TypeInv
<1> SUFFICES ASSUME Init PROVE TypeInv
  OBVIOUS
<1>1. contentOf \in Seq(Int) /\ Commits = 1 .. 2 /\ contentOf[1] = 1 /\ contentOf[2] = 2
  BY DEF Init, Commits, CommitsOf
<1>2. RepositoryTypes
  <2>1. budget \in [{"saves", "commits", "checkouts", "advances", "failures", "hiccups"} -> Nat]
    BY RefreshAssumption DEF Init
  <2> QED  BY <1>1, <2>1, RefreshAssumption DEF Init, RepositoryTypes
<1>3. WatcherTypes
  <2>1. <<>> \in Seq(Jobs)
    BY EmptySeq
  <2> QED  BY <2>1 DEF Init, WatcherTypes
<1>4. QueueTypes
  BY DEF Init, Queue!Init, QueueTypes
<1>5. RunnerTypes
  BY DEF Init, RunnerTypes, NoDraft, Drafts
<1>6. IndexTypes
  <2>0. InitIndex
    BY DEF Init
  <2>1. PICK b \in Branches \cup {None} : \E others \in SUBSET (Branches \ {b}) :
           /\ served = b
           /\ rows = [c \in RowNames |-> IF c = b THEN TipRow(c, TRUE)
                                         ELSE IF c \in others THEN TipRow(c, FALSE) ELSE None]
           /\ package = (IF b = None THEN None ELSE contentOf[tips[b]])
    BY <2>0 DEF InitIndex
  <2>2. \A c \in Branches : tips[c] \in 1 .. 2 /\ contentOf[tips[c]] \in Int
    BY <1>1 DEF Init
  <2>3. \A c \in Branches : \A w \in BOOLEAN :
           TipRow(c, w) \in StampedRow /\ TipRow(c, w).sha = tips[c]
    BY <2>2, RowIs DEF TipRow
  <2>4. \A c \in RowNames :
           \/ rows[c] = None
           \/ c \in Branches /\ \E w \in BOOLEAN : rows[c] = TipRow(c, w)
    BY <2>1, NamesDiffer DEF RowNames
  <2>5. rows \in [RowNames -> {None} \cup StampedRow]
    BY <2>1, <2>3, <2>4
  <2>6. \A c \in Branches : rows[c] # None => rows[c].sha \in Commits
    BY <1>1, <2>2, <2>3, <2>4 DEF RowNames
  <2>7. rows[NonGit] = None
    BY <2>4, NamesDiffer DEF RowNames
  <2>8. package \in Int \cup {None}
    BY <2>1, <2>2
  <2> QED  BY <2>1, <2>5, <2>6, <2>7, <2>8 DEF IndexTypes, Init, RowNames
<1> QED  BY <1>2, <1>3, <1>4, <1>5, <1>6 DEF TypeInv

\* A step that leaves the repository alone leaves its types.
LEMMA RepositoryKept ==
    ASSUME RepositoryTypes, UNCHANGED <<repository, budget>>
    PROVE  RepositoryTypes'
BY DEF RepositoryTypes, repository, Commits, CommitsOf

\* A step that leaves the watchers alone leaves their types.
LEMMA WatcherKept ==
    ASSUME WatcherTypes, UNCHANGED <<contentOf, refWatcher, fileWatcher>>
    PROVE  WatcherTypes'
BY DEF WatcherTypes, refWatcher, fileWatcher, Jobs, Commits, CommitsOf

\* A step that leaves the queue alone leaves its types.
LEMMA QueueKept == ASSUME QueueTypes, UNCHANGED jobQueue PROVE QueueTypes'
BY DEF QueueTypes, jobQueue

\* A step that leaves the pass alone leaves the types of what it read.
LEMMA RunnerKept ==
    ASSUME RunnerTypes, UNCHANGED <<contentOf, phase, at, draft>>, pass' = pass
    PROVE  RunnerTypes'
BY DEF RunnerTypes, Commits, CommitsOf

\* A step that leaves the index alone leaves its types.
LEMMA IndexKept ==
    ASSUME IndexTypes, UNCHANGED <<contentOf, index>>, lost' \subseteq RowNames
    PROVE  IndexTypes'
BY DEF IndexTypes, index, Commits, CommitsOf

\* What was a commit stays one.
LEMMA CommitsGrow ==
    ASSUME TypeInv, NEW c \in Int, contentOf' = Append(contentOf, c)
    PROVE  /\ contentOf' \in Seq(Int) /\ Commits \subseteq Commits'
           /\ Len(contentOf) + 1 \in Commits' /\ Len(contentOf) \in Nat
           /\ \A d \in Commits : contentOf'[d] = contentOf[d]
BY DEF TypeInv, RepositoryTypes, Commits, CommitsOf

\* A budget is spent down to zero.
LEMMA SpendTypes ==
    ASSUME RepositoryTypes,
           NEW what \in {"saves", "commits", "checkouts", "advances", "failures", "hiccups"},
           Spend(what)
    PROVE  budget' \in [{"saves", "commits", "checkouts", "advances", "failures", "hiccups"} -> Nat]
BY DEF RepositoryTypes, Spend

\* The user's steps keep the types.
LEMMA UserTypes == ASSUME TypeInv, User PROVE TypeInv'
<1> USE DEF jobQueue, TypeInv
<1>1. CASE Save
  <2>1. RepositoryTypes'
    <3>1. budget' \in [{"saves", "commits", "checkouts", "advances", "failures", "hiccups"} -> Nat]
      BY <1>1, SpendTypes DEF Save
    <3>2. setup.bounds.saves \in Nat /\ budget.saves \in Nat
      BY RefreshAssumption DEF RepositoryTypes
    <3>3. tree' \in Int
      BY <1>1, <3>2 DEF Save, TreeBecomes
    <3> QED  BY <1>1, <3>1, <3>3 DEF Save, RepositoryTypes, Commits, CommitsOf
  <2>2. WatcherTypes'
    BY <1>1, Zenon DEF Save, TreeBecomes, WatcherTypes, refWatcher, Jobs, Commits, CommitsOf
  <2> QED  BY <1>1, <2>1, <2>2, QueueKept, RunnerKept, IndexKept DEF Save, IndexTypes
<1>2. CASE Commit
  <2>1. /\ contentOf' \in Seq(Int) /\ Commits \subseteq Commits'
        /\ Len(contentOf) + 1 \in Commits'
    BY <1>2, CommitsGrow DEF Commit, RepositoryTypes
  <2>2. RepositoryTypes'
    <3>1. budget' \in [{"saves", "commits", "checkouts", "advances", "failures", "hiccups"} -> Nat]
      BY <1>2, SpendTypes DEF Commit
    <3>2. tips' \in [Branches -> Commits']
      BY <1>2, <2>1 DEF Commit, RepositoryTypes
    <3> QED  BY <1>2, <2>1, <3>1, <3>2 DEF Commit, RepositoryTypes
  <2>3. WatcherTypes'
    <3>1. Seq(Jobs) \subseteq Seq(Jobs')
      <4>1. Jobs \subseteq Jobs'
        BY <2>1 DEF Jobs
      <4> QED  BY <4>1, SeqMonotonic
    <3> QED  BY <1>2, <2>1, <3>1 DEF Commit, WatcherTypes, refWatcher, fileWatcher
  <2>4. QueueTypes'
    BY <1>2, QueueKept DEF Commit
  <2>5. RunnerTypes'
    BY <1>2, <2>1 DEF Commit, RunnerTypes
  <2>6. IndexTypes'
    BY <1>2, <2>1 DEF Commit, IndexTypes, index
  <2> QED  BY <2>2, <2>3, <2>4, <2>5, <2>6
<1>3. ASSUME NEW b \in Branches, Checkout(b)
      PROVE  TypeInv'
  <2>1. RepositoryTypes'
    <3>1. budget' \in [{"saves", "commits", "checkouts", "advances", "failures", "hiccups"} -> Nat]
      BY <1>3, SpendTypes DEF Checkout
    <3>2. tree' \in Int
      BY <1>3 DEF Checkout, TreeBecomes, RepositoryTypes, Commits, CommitsOf
    <3> QED  BY <1>3, <3>1, <3>2 DEF Checkout, RepositoryTypes, Commits, CommitsOf
  <2>2. WatcherTypes'
    BY <1>3, Zenon DEF Checkout, TreeBecomes, WatcherTypes, refWatcher, Jobs, Commits, CommitsOf
  <2> QED  BY <1>3, <2>1, <2>2, QueueKept, RunnerKept, IndexKept DEF Checkout, IndexTypes
<1>4. CASE CheckoutEnds
  <2>1. RepositoryTypes'
    BY <1>4 DEF CheckoutEnds, RepositoryTypes, Commits, CommitsOf
  <2> QED  BY <1>4, <2>1, WatcherKept, QueueKept, RunnerKept, IndexKept
           DEF CheckoutEnds, IndexTypes
<1>5. ASSUME NEW b \in Branches, Advance(b)
      PROVE  TypeInv'
  <2>1. RepositoryTypes'
    <3>1. budget' \in [{"saves", "commits", "checkouts", "advances", "failures", "hiccups"} -> Nat]
      BY <1>5, SpendTypes DEF Advance
    <3> QED  BY <1>5, <3>1 DEF Advance, RepositoryTypes, Commits, CommitsOf
  <2> QED  BY <1>5, <2>1, WatcherKept, QueueKept, RunnerKept, IndexKept DEF Advance, IndexTypes
<1> QED  BY <1>1, <1>2, <1>3, <1>4, <1>5 DEF User

\* A submitted job asks for the whole branch.
LEMMA AskTypes ==
    ASSUME QueueTypes, NEW k \in Branches, NEW r, r.paths = {}, Queue!Ask(k, r)
    PROVE  QueueTypes' /\ pass' = pass
BY DEF QueueTypes, Queue!Ask

\* The jobs of a delivery name branches and the commits their report saw.
LEMMA JobsForTypes ==
    ASSUME NEW events \in [head : Branches \cup {None}, moved : SUBSET Branches,
                           tips : [Branches -> Commits]],
           NEW b \in Branches
    PROVE  JobsFor(events, b) \in Seq(Jobs)
<1> DEFINE Job(c, p) == [key |-> c, refHead |-> events.tips[c], priority |-> p]
           followed == events.moved \cap (Tracked \cup {b})
           headJob == IF events.head = None THEN <<>> ELSE <<Job(events.head, 0)>>
           branchJob == [c \in followed |-> Job(c, IF c = b THEN 0 ELSE 1)]
           others == {branchJob[c] : c \in followed \ {events.head}}
<1>1. \A c \in Branches : \A p \in 0 .. 1 : Job(c, p) \in Jobs
  BY DEF Jobs
<1>2. followed \subseteq Branches
  OBVIOUS
<1>3. headJob \in Seq(Jobs)
  <2>1. CASE events.head = None
    BY <2>1
  <2>2. CASE events.head # None
    <3>1. events.head \in Branches
      BY <2>2
    <3>2. Job(events.head, 0) \in Jobs
      BY <3>1 DEF Jobs
    <3> HIDE DEF Job
    <3> QED  BY <2>2, <3>2
  <2> QED  BY <2>1, <2>2
<1>4. others \subseteq Jobs
  <2>1. \A c \in followed : branchJob[c] = Job(c, IF c = b THEN 0 ELSE 1)
    OBVIOUS
  <2>2. \A c \in followed : Job(c, 0) \in Jobs /\ Job(c, 1) \in Jobs
    BY <1>2 DEF Jobs
  <2>3. \A c \in followed : branchJob[c] \in Jobs
    <3> HIDE DEF branchJob, Job, followed
    <3> QED  BY <2>1, <2>2
  <2> HIDE DEF branchJob, followed
  <2> QED  BY <2>3
<1>5. IsFiniteSet(others)
  <2> DEFINE S == followed \ {events.head}
             f == [c \in S |-> branchJob[c]]
  <2>1. IsFiniteSet(S)
    BY <1>2, RefreshAssumption, FS_Subset
  <2>2. f \in Surjection(S, others)
    BY DEF Surjection
  <2> HIDE DEF S, f, others
  <2> QED  BY <2>1, <2>2, FS_Surjection
<1>6. SetToSeq(others) \in Seq(Jobs)
  <2> HIDE DEF others
  <2>1. SetToSeq(others) \in Seq(others)
    BY <1>5, SetToSeqIs
  <2> QED  BY <1>4, <2>1, SeqMonotonic
<1>7. JobsFor(events, b) = headJob \o SetToSeq(others)
  BY DEF JobsFor
<1> HIDE DEF headJob, others
<1> QED  BY <1>3, <1>6, <1>7, ConcatProperties

\* The watchers' steps keep the types.
LEMMA WatchersTypes == ASSUME TypeInv, RefWatcher \/ FileCallback PROVE TypeInv'
<1> USE DEF TypeInv
<1>1. CASE ReadHead
  <2>1. WatcherTypes'
    BY <1>1 DEF ReadHead, repository, WatcherTypes, RepositoryTypes, fileWatcher, Jobs, Commits,
                CommitsOf
  <2> QED  BY <1>1, <2>1, RepositoryKept, QueueKept, RunnerKept, IndexKept
           DEF ReadHead, jobQueue, repository, IndexTypes
<1>2. CASE ReadRefs
  <2> DEFINE current == [head |-> headRead, tips |-> tips]
  <2>1. /\ current \in [head : Branches, tips : [Branches -> Commits]]
        /\ Diff(current) \in [head : Branches \cup {None}, moved : SUBSET Branches,
                              tips : [Branches -> Commits]]
    BY <1>2 DEF ReadRefs, Diff, WatcherTypes, RepositoryTypes
  <2>2. WatcherTypes'
    BY <1>2, <2>1 DEF ReadRefs, repository, WatcherTypes, fileWatcher, Jobs, Commits, CommitsOf
  <2> QED  BY <1>2, <2>2, RepositoryKept, QueueKept, RunnerKept, IndexKept
           DEF ReadRefs, jobQueue, repository, IndexTypes
<1>3. CASE Deliver
  <2>1. JobsFor(report, head) \in Seq(Jobs)
    BY <1>3, JobsForTypes DEF Deliver, WatcherTypes, RepositoryTypes
  <2>2. WatcherTypes'
    BY <1>3, <2>1 DEF Deliver, repository, WatcherTypes, fileWatcher, Jobs, Commits, CommitsOf
  <2> QED  BY <1>3, <2>2, RepositoryKept, QueueKept, RunnerKept, IndexKept
           DEF Deliver, jobQueue, repository, IndexTypes
<1>4. CASE SubmitRefJob
  <2>1. Head(jobs) \in Jobs /\ Tail(jobs) \in Seq(Jobs)
    BY <1>4 DEF SubmitRefJob, WatcherTypes
  <2>2. QueueTypes' /\ pass' = pass
    BY <1>4, <2>1, AskTypes DEF SubmitRefJob, Submit, Jobs
  <2>3. WatcherTypes'
    BY <1>4, <2>1 DEF SubmitRefJob, repository, WatcherTypes, fileWatcher, Jobs, Commits,
           CommitsOf
  <2> QED  BY <1>4, <2>2, <2>3, RepositoryKept, RunnerKept, IndexKept
           DEF SubmitRefJob, repository, IndexTypes
<1>5. CASE ReadKey
  <2>1. WatcherTypes'
    BY <1>5 DEF ReadKey, repository, WatcherTypes, RepositoryTypes, refWatcher, Jobs, Commits,
                CommitsOf
  <2> QED  BY <1>5, <2>1, RepositoryKept, QueueKept, RunnerKept, IndexKept
           DEF ReadKey, jobQueue, repository, IndexTypes
<1>6. CASE SubmitFileJob
  <2>1. QueueTypes' /\ pass' = pass
    BY <1>6, AskTypes DEF SubmitFileJob, Submit, WatcherTypes
  <2>2. WatcherTypes'
    BY <1>6 DEF SubmitFileJob, repository, WatcherTypes, refWatcher, Jobs, Commits, CommitsOf
  <2> QED  BY <1>6, <2>1, <2>2, RepositoryKept, RunnerKept, IndexKept
           DEF SubmitFileJob, repository, IndexTypes
<1> QED  BY <1>1, <1>2, <1>3, <1>4, <1>5, <1>6 DEF RefWatcher, FileCallback

\* The steps of a pass leave the repository and the watchers alone.
LEMMA OutsideKept ==
    ASSUME TypeInv, UNCHANGED outside
    PROVE  RepositoryTypes' /\ WatcherTypes' /\ Commits' = Commits /\ contentOf' = contentOf
BY RepositoryKept, WatcherKept DEF outside, repository, TypeInv, Commits, CommitsOf

\* Commits are numbers, each with a content; a tip is one.
LEMMA CommitsAre ==
    ASSUME RepositoryTypes
    PROVE  /\ Commits \subseteq Nat /\ \A c \in Commits : contentOf[c] \in Int
           /\ \A b \in Branches : tips[b] \in Commits
<1>1. Len(contentOf) \in Nat
  BY DEF RepositoryTypes
<1> QED  BY <1>1 DEF RepositoryTypes, Commits, CommitsOf

\* A pass that is over leaves nothing read and no pass.
LEMMA EndPassTypes ==
    ASSUME TypeInv, EndPass
    PROVE  QueueTypes' /\ RunnerTypes'
<1>1. QueueTypes'
  BY DEF EndPass, TypeInv, QueueTypes, jobQueue, Queue!End
<1>2. RunnerTypes'
  BY DEF EndPass, RunnerTypes, NoDraft, Drafts
<1> QED  BY <1>1, <1>2

\* The steps of the passes keep the types.
LEMMA PassTypes == ASSUME TypeInv, Pass PROVE TypeInv'
<1> USE DEF TypeInv
<1>1. CASE Begin
  <2>1. PICK k \in Branches : Queue!Begin(k)
    BY <1>1 DEF Begin
  <2>2. QueueTypes' /\ pass'.key = k
    BY <2>1 DEF Queue!Begin, Queue!PathsAsked, QueueTypes
  <2>3. RunnerTypes'
    BY <1>1, <2>2, OutsideKept DEF Begin, RunnerTypes
  <2> QED  BY <1>1, <2>2, <2>3, OutsideKept, IndexKept DEF Begin, IndexTypes
<1>2. CASE Route
  <2>1. QueueTypes' /\ RunnerTypes'
    <3>1. CASE EndPass
      BY <3>1, EndPassTypes
    <3>2. CASE pass.key = head /\ StepTo("check") /\ UNCHANGED draft
      BY <1>2, <3>2, OutsideKept DEF Route, StepTo, jobQueue, QueueTypes, RunnerTypes
    <3>3. CASE StepTo("refs") /\ UNCHANGED draft
      BY <1>2, <3>3, OutsideKept DEF Route, StepTo, jobQueue, QueueTypes, RunnerTypes
    <3> QED  BY <1>2, <3>1, <3>2, <3>3 DEF Route
  <2> QED  BY <1>2, <2>1, OutsideKept, IndexKept DEF Route, IndexTypes
<1>3. CASE Check
  <2>1. QueueTypes' /\ RunnerTypes'
    <3>1. CASE EndPass
      BY <3>1, EndPassTypes
    <3>2. CASE StepTo("extract") /\ UNCHANGED draft
      BY <1>3, <3>2, OutsideKept DEF Check, StepTo, jobQueue, QueueTypes, RunnerTypes
    <3> QED  BY <1>3, <3>1, <3>2 DEF Check
  <2> QED  BY <1>3, <2>1, OutsideKept, IndexKept DEF Check, IndexTypes
<1>4. CASE Extract
  <2>1. draft' \in Drafts /\ draft'.content \in Int
    BY <1>4 DEF Extract, RepositoryTypes, RunnerTypes, Drafts
  <2>2. QueueTypes' /\ RunnerTypes'
    BY <1>4, <2>1 DEF Extract, StepTo, jobQueue, QueueTypes, RunnerTypes
  <2> QED  BY <1>4, <2>2, OutsideKept, IndexKept DEF Extract, IndexTypes
<1>5. CASE ReadName
  <2>1. draft' \in Drafts /\ draft'.content \in Int /\ draft'.name \in Branches
    BY <1>5 DEF ReadName, RepositoryTypes, RunnerTypes, Drafts, RowNames
  <2>2. QueueTypes' /\ RunnerTypes'
    BY <1>5, <2>1 DEF ReadName, StepTo, jobQueue, QueueTypes, RunnerTypes
  <2> QED  BY <1>5, <2>2, OutsideKept, IndexKept DEF ReadName, IndexTypes
<1>6. CASE ReadSha
  <2>1. /\ draft' \in Drafts /\ draft'.content \in Int /\ draft'.name \in Branches
        /\ draft'.sha \in Commits
    BY <1>6, CommitsAre DEF ReadSha, RepositoryTypes, RunnerTypes, Drafts
  <2>2. Commits' = Commits
    BY <1>6, OutsideKept DEF ReadSha
  <2>3. QueueTypes' /\ RunnerTypes'
    BY <1>6, <2>1, <2>2 DEF ReadSha, StepTo, jobQueue, QueueTypes, RunnerTypes
  <2> QED  BY <1>6, <2>3, OutsideKept, IndexKept DEF ReadSha, IndexTypes
<1>7. CASE Write
  <2>1. QueueTypes' /\ RunnerTypes'
    BY <1>7, OutsideKept DEF Write, StepTo, jobQueue, QueueTypes, RunnerTypes
  <2>2. CASE Cached /\ UNCHANGED <<rows, served, package>>
    <3>1. IndexTypes'
      BY <1>7, <2>2, OutsideKept DEF Write, IndexTypes
    <3> QED  BY <1>7, <2>1, <3>1, OutsideKept DEF Write
  <2>3. CASE ~Cached
    <3> DEFINE new == Row(draft.content, draft.sha, TRUE)
    <3>1. /\ draft.content \in Int /\ draft.name \in RowNames
          /\ draft.sha \in Nat \cup {None}
          /\ draft.name \in Branches => draft.sha \in Commits
          /\ draft.name = NonGit => draft.sha = None
      BY <1>7, NamesDiffer DEF Write, RunnerTypes, Drafts, RowNames
    <3>2. new \in StampedRow /\ new.sha = draft.sha
      BY <3>1, RowIs
    <3> HIDE DEF new
    <3>3. /\ rows' = [b \in RowNames |->
                        IF b = draft.name THEN new
                        ELSE IF rows[b] # None /\ rows[b].worktree THEN None
                        ELSE rows[b]]
          /\ served' = draft.name /\ package' = draft.content /\ lost' = lost \ {draft.name}
      BY <1>7, <2>3 DEF Write, new
    <3>4. rows' \in [RowNames -> {None} \cup StampedRow]
      BY <3>2, <3>3 DEF IndexTypes
    <3>5. \A b \in Branches : rows'[b] # None => rows'[b].sha \in Commits
      BY <3>1, <3>2, <3>3, NamesDiffer DEF IndexTypes
    <3>6. rows'[NonGit] # None => rows'[NonGit].sha = None
      BY <3>1, <3>2, <3>3 DEF IndexTypes, RowNames
    <3>7. IndexTypes'
      BY <1>7, <3>1, <3>3, <3>4, <3>5, <3>6, OutsideKept DEF Write, IndexTypes
    <3> QED  BY <1>7, <2>1, <3>7, OutsideKept DEF Write
  <2> QED  BY <1>7, <2>2, <2>3 DEF Write
<1>8. CASE StampMetadata
  <2>1. IndexTypes'
    BY <1>8, OutsideKept DEF StampMetadata, IndexTypes
  <2> QED  BY <1>8, <2>1, OutsideKept, EndPassTypes DEF StampMetadata
<1>9. CASE ReadBranch
  <2>1. CASE EndPass
    BY <1>9, <2>1, OutsideKept, IndexKept, EndPassTypes DEF ReadBranch, IndexTypes
  <2>2. CASE draft' = [draft EXCEPT !.sha = tips[pass.key]] /\ StepTo("objects")
    <3>1. draft' \in Drafts /\ draft'.sha \in Commits
      BY <1>9, <2>2, CommitsAre DEF ReadBranch, RepositoryTypes, RunnerTypes, Drafts
    <3>2. Commits' = Commits
      BY <1>9, OutsideKept DEF ReadBranch
    <3>3. QueueTypes' /\ RunnerTypes'
      BY <1>9, <2>2, <3>1, <3>2 DEF ReadBranch, StepTo, jobQueue, QueueTypes, RunnerTypes
    <3> QED  BY <1>9, <3>3, OutsideKept, IndexKept DEF ReadBranch, IndexTypes
  <2> QED  BY <1>9, <2>1, <2>2 DEF ReadBranch
<1>10. CASE WriteBranch
  <2> DEFINE new == Row(contentOf[draft.sha], draft.sha, FALSE)
  <2>1. pass.key \in Branches /\ draft.sha \in Commits
    BY <1>10 DEF WriteBranch, RunnerTypes
  <2>2. new \in StampedRow /\ new.sha = draft.sha
    <3>1. contentOf[draft.sha] \in Int /\ draft.sha \in Nat \cup {None}
      BY <2>1, CommitsAre
    <3> QED  BY <3>1, RowIs
  <2>3. rows' = [rows EXCEPT ![pass.key] = new] /\ lost' = lost \ {pass.key}
    BY <1>10 DEF WriteBranch
  <2> HIDE DEF new
  <2>4. rows' \in [RowNames -> {None} \cup StampedRow]
    BY <2>2, <2>3 DEF IndexTypes
  <2>5. \A b \in Branches : rows'[b] # None => rows'[b].sha \in Commits
    BY <2>1, <2>2, <2>3, NamesDiffer DEF IndexTypes
  <2>6. rows'[NonGit] # None => rows'[NonGit].sha = None
    BY <2>1, <2>3, NamesDiffer DEF IndexTypes, RowNames
  <2>7. IndexTypes'
    BY <1>10, <2>3, <2>4, <2>5, <2>6, OutsideKept DEF WriteBranch, IndexTypes
  <2> QED  BY <1>10, <2>7, OutsideKept, EndPassTypes DEF WriteBranch
<1> QED  BY <1>1, <1>2, <1>3, <1>4, <1>5, <1>6, <1>7, <1>8, <1>9, <1>10 DEF Pass

\* So do a failing git command and a failing pass.
LEMMA FailuresTypes == ASSUME TypeInv, ReadFails \/ Fail PROVE TypeInv'
<1> USE DEF TypeInv
<1>1. CASE ReadFails
  <2>1. RepositoryTypes'
    <3>1. budget' \in [{"saves", "commits", "checkouts", "advances", "failures", "hiccups"} -> Nat]
      BY <1>1, SpendTypes DEF ReadFails
    <3> QED  BY <1>1, <3>1 DEF ReadFails, repository, RepositoryTypes, Commits, CommitsOf
  <2>2. WatcherTypes' /\ Commits' = Commits
    BY <1>1, WatcherKept DEF ReadFails, repository, Commits, CommitsOf
  <2>3. draft' \in Drafts /\ draft'.content = draft.content /\ draft'.name = NonGit
        /\ draft'.sha = None
    BY <1>1 DEF ReadFails, RunnerTypes, Drafts, RowNames
  <2>4. QueueTypes' /\ RunnerTypes'
    BY <1>1, <2>2, <2>3 DEF ReadFails, StepTo, jobQueue, QueueTypes, RunnerTypes
  <2>5. lost' \subseteq RowNames
    BY <1>1, NamesDiffer DEF ReadFails, RunnerTypes, IndexTypes
  <2>6. IndexTypes'
    BY <1>1, <2>5, IndexKept DEF ReadFails, repository
  <2> QED  BY <2>1, <2>2, <2>4, <2>6
<1>2. CASE Fail
  <2>1. RepositoryTypes'
    <3>1. budget' \in [{"saves", "commits", "checkouts", "advances", "failures", "hiccups"} -> Nat]
      BY <1>2, SpendTypes DEF Fail
    <3> QED  BY <1>2, <3>1 DEF Fail, repository, RepositoryTypes, Commits, CommitsOf
  <2>2. WatcherTypes' /\ contentOf' = contentOf
    BY <1>2, WatcherKept DEF Fail, repository
  <2>3. QueueTypes' /\ RunnerTypes'
    BY <1>2, EndPassTypes DEF Fail
  <2>4. lost' \subseteq RowNames
    BY <1>2, NamesDiffer DEF Fail, RunnerTypes, IndexTypes, Drafts
  <2>5. IndexTypes'
    BY <1>2, <2>2, <2>4, IndexKept DEF Fail
  <2> QED  BY <2>1, <2>2, <2>3, <2>5
<1> QED  BY <1>1, <1>2

\* Every step keeps the types.
LEMMA NextTypes == ASSUME TypeInv, [Next]_vars PROVE TypeInv'
<1>1. CASE UNCHANGED vars
  <2>1. /\ UNCHANGED <<repository, budget>> /\ UNCHANGED <<contentOf, refWatcher, fileWatcher>>
        /\ UNCHANGED jobQueue /\ UNCHANGED <<contentOf, phase, at, draft>>
        /\ UNCHANGED <<contentOf, index>> /\ lost' = lost /\ pass' = pass
    BY <1>1 DEF vars, repository, jobQueue
  <2> QED  BY <2>1, RepositoryKept, WatcherKept, QueueKept, RunnerKept, IndexKept
           DEF TypeInv, IndexTypes
<1> QED  BY <1>1, UserTypes, WatchersTypes, PassTypes, FailuresTypes DEF Next

\* TypesHold: what the types say of every variable, and of what the running pass has
\* read at each of its steps, holds throughout.
THEOREM TypesHold == Spec => []TypeInv
BY InitTypes, NextTypes, PTL DEF Spec

\* TypeCorrect: every variable of the loop keeps its type; a job names a branch and
\* a commit, a stamped row the commit its pass resolved.
THEOREM TypeCorrect == Spec => []TypeOK
BY TypesHold, TypeInvImpliesTypeOK, PTL

-----------------------------------------------------------------------------
(* The index. *)

\* The served row is this checkout's only stamp and has the package's content; the branch
\* of a git-objects pass that writes is not the served one; a working-tree pass serves
\* what it read.
IndexInv ==
    /\ \A b \in RowNames : b = served <=> (rows[b] # None /\ rows[b].worktree)
    /\ served # None => rows[served].content = package
    /\ at = "objects" => pass.key # served
    /\ PassServesWhatItRead

\* An index of an earlier run serves one stamp of this checkout, or nothing.
LEMMA InitIndexInv == ASSUME Init PROVE IndexInv
<1>1. PICK b \in Branches \cup {None} : \E others \in SUBSET (Branches \ {b}) :
         /\ served = b
         /\ rows = [c \in RowNames |-> IF c = b THEN TipRow(c, TRUE)
                                       ELSE IF c \in others THEN TipRow(c, FALSE) ELSE None]
         /\ package = (IF b = None THEN None ELSE contentOf[tips[b]])
  BY DEF Init, InitIndex
<1>2. at = "extract"
  BY DEF Init
<1>3. \A c \in Branches : tips[c] \in Nat /\ contentOf[tips[c]] \in Int
  BY InitTypes, CommitsAre DEF TypeInv
<1>4. \A c \in Branches : \A w \in BOOLEAN :
         /\ TipRow(c, w) # None /\ TipRow(c, w).worktree = w
         /\ TipRow(c, w).content = contentOf[tips[c]]
  BY <1>3, RowIs DEF TipRow
<1>5. \A c \in RowNames : c = served <=> (rows[c] # None /\ rows[c].worktree)
  BY <1>1, <1>4, NamesDiffer DEF RowNames
<1>6. served # None => rows[served].content = package
  BY <1>1, <1>4, NamesDiffer DEF RowNames
<1> QED  BY <1>2, <1>5, <1>6 DEF IndexInv, PassServesWhatItRead

\* Every step keeps it: a working-tree pass retires what this checkout stamped, a cached one
\* finds its own stamp served, a git-objects pass does not touch the served row.
LEMMA NextIndexInv == ASSUME TypeInv, IndexInv, [Next]_vars PROVE IndexInv'
<1>a. ASSUME UNCHANGED index, at' = at, draft' = draft, at = "objects" => pass'.key = pass.key
      PROVE  IndexInv'
  BY <1>a DEF IndexInv, index, PassServesWhatItRead
<1>b. ASSUME UNCHANGED index, at' \notin {"objects", "metadata"}
      PROVE  IndexInv'
  BY <1>b DEF IndexInv, index, PassServesWhatItRead
<1>1. CASE UNCHANGED vars
  BY <1>1, <1>a DEF vars, jobQueue
<1>2. CASE User
  <2>1. UNCHANGED index /\ at' = at /\ draft' = draft /\ pass' = pass
    BY <1>2 DEF User, Save, Commit, CheckoutEnds, Checkout, Advance, jobQueue
  <2> QED  BY <2>1, <1>a
<1>3. CASE RefWatcher \/ FileCallback
  <2>1. UNCHANGED index /\ at' = at /\ draft' = draft /\ pass' = pass
    BY <1>3 DEF RefWatcher, FileCallback, ReadHead, ReadRefs, Deliver, SubmitRefJob, ReadKey,
                SubmitFileJob, Submit, Queue!Ask, jobQueue
  <2> QED  BY <2>1, <1>a
<1>4. CASE Begin \/ Route \/ Check \/ Extract \/ ReadName \/ ReadSha
  <2>1. UNCHANGED index /\ at' \notin {"objects", "metadata"}
    BY <1>4 DEF Begin, Route, Check, Extract, ReadName, ReadSha, EndPass, StepTo
  <2> QED  BY <2>1, <1>b
<1>5. CASE Write
  <2>1. /\ at' = "metadata" /\ UNCHANGED draft
        /\ draft.content \in Int /\ draft.name \in RowNames /\ draft.sha \in Nat \cup {None}
    BY <1>5, CommitsAre DEF Write, StepTo, TypeInv, RunnerTypes, RowNames
  <2>2. Row(draft.content, draft.sha, TRUE)'= Row(draft.content, draft.sha, TRUE)
    BY <2>1 DEF Row
  <2>3. CASE Cached /\ UNCHANGED <<rows, served, package>>
    <3>1. served = draft.name
      BY <2>1, <2>3 DEF IndexInv, Cached
    <3>2. /\ rows[served] \in StampedRow /\ rows[served].content = draft.content
          /\ rows[served].sha = draft.sha /\ rows[served].worktree
      BY <2>1, <2>3, <3>1, NamesDiffer DEF IndexInv, Cached, TypeInv, IndexTypes
    <3>3. rows[served] = Row(draft.content, draft.sha, TRUE)
      BY <3>2 DEF Row, StampedRow
    <3> QED  BY <2>1, <2>2, <2>3, <3>1, <3>3 DEF IndexInv, PassServesWhatItRead
  <2>4. CASE ~Cached
    <3> DEFINE new == Row(draft.content, draft.sha, TRUE)
    <3>1. /\ rows' = [b \in RowNames |->
                        IF b = draft.name THEN new
                        ELSE IF rows[b] # None /\ rows[b].worktree THEN None
                        ELSE rows[b]]
          /\ served' = draft.name /\ package' = draft.content
      BY <1>5, <2>4 DEF Write
    <3>2. new # None /\ new.worktree /\ new.content = draft.content
      BY <2>1, RowIs
    <3>3. new' = new
      BY <2>2
    <3> HIDE DEF new
    <3>4. \A b \in RowNames : b = served' <=> (rows'[b] # None /\ rows'[b].worktree)
      BY <3>1, <3>2
    <3>5. rows'[served'] = new
      BY <2>1, <3>1
    <3>6. PassServesWhatItRead'
      BY <2>1, <3>1, <3>3, <3>5 DEF PassServesWhatItRead, new
    <3> QED  BY <2>1, <3>1, <3>2, <3>4, <3>5, <3>6 DEF IndexInv
  <2> QED  BY <1>5, <2>3, <2>4 DEF Write
<1>6. CASE StampMetadata
  BY <1>6 DEF StampMetadata, EndPass, IndexInv, PassServesWhatItRead
<1>7. CASE ReadBranch
  <2>1. CASE EndPass
    BY <1>7, <2>1, <1>b DEF ReadBranch, EndPass
  <2>2. CASE ~Skipped /\ StepTo("objects")
    BY <1>7, <2>2 DEF ReadBranch, Skipped, StepTo, jobQueue, index, IndexInv,
           PassServesWhatItRead
  <2> QED  BY <1>7, <2>1, <2>2 DEF ReadBranch
<1>8. CASE WriteBranch
  <2> DEFINE new == Row(contentOf[draft.sha], draft.sha, FALSE)
  <2>1. pass.key \in Branches /\ pass.key # served /\ draft.sha \in Commits
    BY <1>8 DEF WriteBranch, TypeInv, RunnerTypes, IndexInv
  <2>2. new # None /\ ~new.worktree
    <3>1. contentOf[draft.sha] \in Int /\ draft.sha \in Nat \cup {None}
      BY <2>1, CommitsAre DEF TypeInv
    <3> QED  BY <3>1, RowIs
  <2> HIDE DEF new
  <2>3. /\ rows' = [rows EXCEPT ![pass.key] = new] /\ UNCHANGED <<served, package>>
        /\ at' = "idle"
    BY <1>8 DEF WriteBranch, EndPass, new
  <2>4. DOMAIN rows = RowNames /\ pass.key \in RowNames
    BY <2>1, NamesDiffer DEF TypeInv, IndexTypes
  <2>5. \A b \in RowNames : b = served' <=> (rows'[b] # None /\ rows'[b].worktree)
    BY <2>1, <2>2, <2>3, <2>4 DEF IndexInv
  <2>6. served' # None => rows'[served'].content = package'
    BY <2>1, <2>3, <2>4 DEF IndexInv
  <2> QED  BY <2>3, <2>5, <2>6 DEF IndexInv, PassServesWhatItRead
<1>9. CASE ReadFails \/ Fail
  BY <1>9, <1>b DEF ReadFails, Fail, EndPass, StepTo
<1> QED  BY <1>1, <1>2, <1>3, <1>4, <1>5, <1>6, <1>7, <1>8, <1>9 DEF Next, Pass

\* LoopInv: the index serves one stamp of this checkout, and after a working-tree
\* pass wrote, the stamp is what that pass read.
THEOREM LoopInv == Spec => [](TypeInv /\ IndexInv)
<1>1. Init => TypeInv /\ IndexInv
  BY InitTypes, InitIndexInv
<1>2. TypeInv /\ IndexInv /\ [Next]_vars => (TypeInv /\ IndexInv)'
  BY NextTypes, NextIndexInv
<1> QED  BY <1>1, <1>2, PTL DEF Spec

\* OneServed: the served row exists once the loop serves, and is the only stamp of
\* this checkout, whatever pass ran, failed or read no git.
THEOREM OneServed == Spec => []OneServedCheckout
<1>1. IndexInv => OneServedCheckout
  BY DEF IndexInv, OneServedCheckout
<1> QED  BY <1>1, LoopInv, PTL

\* PassServes: after a working-tree pass, a cached one too, the served row has the
\* name, the head and the content the pass read.
THEOREM PassServes == Spec => []PassServesWhatItRead
<1>1. IndexInv => PassServesWhatItRead
  BY DEF IndexInv
<1> QED  BY <1>1, LoopInv, PTL

-----------------------------------------------------------------------------
(* What is on its way to the queue. *)

\* An event for branch b is still in front of the queue: unseen, reported or a job.
Ahead(b) ==
    \/ head = b /\ (seen = None \/ seen.head # b)
    \/ seen # None /\ seen.tips[b] # tips[b]
    \/ report # None /\ (report.head = b \/ b \in report.moved)
    \/ \E i \in DOMAIN jobs : jobs[i].key = b

\* A request for branch b is queued, or on its way to the queue.
Coming(b) == Ahead(b) \/ outstanding[b] # {}

\* HEAD leaves Main at most once.
CheckoutInv ==
    /\ budget.checkouts <= 1
    /\ moving # None => head = Main /\ moving # Main
    /\ moving # None \/ head # Main => budget.checkouts = 0
    /\ head = Main => /\ seen # None => seen.head = Main
                      /\ headRead # None => headRead = Main

\* One snapshot's events are on their way at a time, and name its tips.
WatchInv ==
    /\ phase = "startup" => seen = None /\ headRead = None
    /\ headRead # None => report = None /\ jobs = <<>>
    /\ report # None => jobs = <<>> /\ seen # None /\ report.tips = seen.tips
    /\ \A i \in DOMAIN jobs : seen # None /\ jobs[i].refHead = seen.tips[jobs[i].key]
    /\ seen # None => \A b \in Branches : seen.tips[b] <= tips[b]

BaseInv == CheckoutInv /\ WatchInv

\* The user moves one tip up, or HEAD away from Main, and nothing of the loop.
LEMMA UserMoves ==
    ASSUME TypeInv, BaseInv, User
    PROVE  /\ UNCHANGED <<setup, refWatcher, jobQueue, phase, at, draft, index, lost>>
           /\ budget'.hiccups = budget.hiccups
           /\ \A b \in Branches :
                 /\ tips[b] \in Nat /\ tips'[b] \in Nat /\ tips[b] <= tips'[b]
                 /\ tips'[b] # tips[b] =>
                       head' = head /\ (head = b \/ seen # None \/ setup.moves # {})
           /\ tips'[head] # tips[head] => tips'[head] \notin Commits
           /\ head' # head => head = Main /\ moving # None /\ head' # Main /\ head' \in Branches
           /\ CheckoutInv'
           /\ moving' # None => moving # None \/ phase = "serving" \/ setup.moves # {}
<1> USE DEF BaseInv
<1>1. /\ \A b \in Branches : tips[b] \in Nat /\ tips[b] <= Len(contentOf)
      /\ Len(contentOf) \in Nat /\ DOMAIN tips = Branches /\ head \in Branches
      /\ budget.checkouts \in Nat
  BY DEF TypeInv, RepositoryTypes, Commits, CommitsOf
<1>2. ASSUME NEW what \in {"saves", "commits", "advances"}, Spend(what)
      PROVE  budget'.hiccups = budget.hiccups /\ budget'.checkouts = budget.checkouts
  BY <1>2 DEF Spend, TypeInv, RepositoryTypes
<1>3. CASE Save
  <2>1. budget'.hiccups = budget.hiccups /\ budget'.checkouts = budget.checkouts
    BY <1>2, <1>3 DEF Save
  <2> QED  BY <1>1, <1>3, <2>1 DEF Save, CheckoutInv, refWatcher, jobQueue, index
<1>4. CASE Commit
  <2>1. budget'.hiccups = budget.hiccups /\ budget'.checkouts = budget.checkouts
    BY <1>2, <1>4 DEF Commit
  <2>2. tips' = [tips EXCEPT ![head] = Len(contentOf) + 1]
    BY <1>4 DEF Commit
  <2>3. \A b \in Branches : tips'[b] = IF b = head THEN Len(contentOf) + 1 ELSE tips[b]
    BY <1>1, <2>2
  <2>4. \A b \in Branches :
                 /\ tips[b] \in Nat /\ tips'[b] \in Nat /\ tips[b] <= tips'[b]
                 /\ tips'[b] # tips[b] => b = head
    BY <1>1, <2>3
  <2>5. tips'[head] \notin Commits
    BY <1>1, <2>3 DEF Commits, CommitsOf
  <2> QED  BY <1>4, <2>1, <2>4, <2>5 DEF Commit, CheckoutInv, refWatcher, jobQueue, index
<1>5. ASSUME NEW b \in Branches, Checkout(b)
      PROVE  /\ UNCHANGED <<setup, refWatcher, jobQueue, phase, at, draft, index, lost>>
             /\ UNCHANGED <<head, tips>> /\ CheckoutInv' /\ budget'.hiccups = budget.hiccups
             /\ phase = "serving" \/ setup.moves # {}
  <2>1. budget'.hiccups = budget.hiccups /\ budget'.checkouts = budget.checkouts - 1
        /\ budget.checkouts > 0
    BY <1>5 DEF Checkout, Spend, TypeInv, RepositoryTypes
  <2>2. b # None /\ moving' = b /\ b # head /\ moving = None
        /\ (phase = "serving" \/ setup.moves # {})
    BY <1>5, NamesDiffer DEF Checkout, EditsAllowed, TypeInv, RunnerTypes
  <2>3. head = Main /\ budget'.checkouts = 0
    BY <1>1, <2>1 DEF CheckoutInv
  <2>4. UNCHANGED <<setup, head, tips, refWatcher, jobQueue, phase, at, draft, index, lost>>
    BY <1>5 DEF Checkout
  <2>5. CheckoutInv'
    <3>1. /\ budget'.checkouts = 0
          /\ head' = Main /\ moving' # Main
          /\ seen' # None => seen'.head = Main
          /\ headRead' # None => headRead' = Main
      BY <2>1, <2>2, <2>3, <2>4 DEF CheckoutInv, refWatcher
    <3> QED  BY <3>1 DEF CheckoutInv
  <2> QED  BY <2>1, <2>2, <2>4, <2>5
<1>6. CASE CheckoutEnds
  <2>1. head' = moving /\ moving # None /\ moving' = None /\ head = Main /\ moving # Main
    BY <1>6 DEF CheckoutEnds, CheckoutInv
  <2>2. moving \in Branches
    BY <2>1 DEF TypeInv, RepositoryTypes
  <2> QED  BY <1>1, <1>6, <2>1, <2>2 DEF CheckoutEnds, CheckoutInv, jobQueue, index
<1>7. ASSUME NEW b \in Branches, Advance(b)
      PROVE  /\ UNCHANGED <<setup, head, moving, refWatcher, jobQueue, phase, at, draft, index,
                             lost>>
             /\ \A c \in Branches : tips'[c] \in Nat /\ tips[c] <= tips'[c]
             /\ tips'[head] = tips[head] /\ budget'.hiccups = budget.hiccups
             /\ seen # None \/ setup.moves # {}
             /\ CheckoutInv'
  <2>1. budget'.hiccups = budget.hiccups /\ budget'.checkouts = budget.checkouts
    BY <1>2, <1>7 DEF Advance
  <2>2. PICK c \in 1 .. Len(contentOf) : c > tips[b] /\ tips' = [tips EXCEPT ![b] = c]
    BY <1>7 DEF Advance
  <2>3. \A d \in Branches : tips'[d] = IF d = b THEN c ELSE tips[d]
    BY <1>1, <2>2
  <2>4. \A d \in Branches : tips'[d] \in Nat /\ tips[d] <= tips'[d]
    BY <1>1, <2>2, <2>3
  <2>5. /\ UNCHANGED <<setup, head, moving, refWatcher, jobQueue, phase, at, draft, index, lost>>
        /\ seen # None \/ setup.moves # {}
        /\ b # head
    BY <1>7 DEF Advance
  <2>6. CheckoutInv'
    BY <2>1, <2>5 DEF CheckoutInv, refWatcher
  <2> QED  BY <1>1, <2>1, <2>3, <2>4, <2>5, <2>6
<1>8. CASE \E b \in Branches : Checkout(b)
  BY <1>1, <1>5, <1>8
<1>9. CASE \E b \in Branches : Advance(b)
  BY <1>1, <1>7, <1>9
<1> QED  BY <1>3, <1>4, <1>6, <1>8, <1>9 DEF User

\* The user's steps keep the base of the invariants.
LEMMA UserBase == ASSUME TypeInv, BaseInv, User PROVE BaseInv'
<1>1. /\ CheckoutInv' /\ UNCHANGED <<refWatcher, phase>>
      /\ \A b \in Branches : tips[b] \in Nat /\ tips'[b] \in Nat /\ tips[b] <= tips'[b]
  BY UserMoves
<1>2. seen # None => \A b \in Branches : seen.tips[b] \in Nat /\ seen.tips[b] <= tips'[b]
  <2>1. seen # None => \A b \in Branches : seen.tips[b] \in Nat /\ seen.tips[b] <= tips[b]
    BY DEF BaseInv, WatchInv, TypeInv, WatcherTypes, Commits, CommitsOf
  <2> QED  BY <1>1, <2>1
<1> QED  BY <1>1, <1>2 DEF BaseInv, WatchInv, refWatcher

\* An event on its way stays on its way; a tip or HEAD that moves has one.
LEMMA UserAhead ==
    ASSUME TypeInv, BaseInv, User, NEW b \in Branches
    PROVE  /\ Ahead(b) /\ (head' = head \/ b # Main) => Ahead(b)'
           /\ tips'[b] # tips[b] /\ (setup.moves = {} \/ b = head) => Ahead(b)'
           /\ head' = b /\ head' # head => Ahead(b)'
<1>1. UNCHANGED <<seen, headRead, report, jobs>>
  BY UserMoves DEF refWatcher
<1>2. /\ tips[b] \in Nat /\ tips'[b] \in Nat /\ tips[b] <= tips'[b]
      /\ tips'[b] # tips[b] => head' = head /\ (head = b \/ seen # None \/ setup.moves # {})
      /\ head' # head => head = Main
  BY UserMoves
<1>3. seen # None => seen.tips[b] <= tips[b] /\ seen.tips[b] \in Nat
  BY DEF BaseInv, WatchInv, TypeInv, WatcherTypes, Commits, CommitsOf
<1>4. head = Main /\ seen # None => seen.head = Main
  BY DEF BaseInv, CheckoutInv
<1>5. tips'[b] # tips[b] /\ (setup.moves = {} \/ b = head) => Ahead(b)'
  <2> SUFFICES ASSUME tips'[b] # tips[b], setup.moves = {} \/ b = head PROVE Ahead(b)'
    OBVIOUS
  <2>1. CASE seen = None
    BY <1>1, <1>2, <2>1 DEF Ahead
  <2>2. CASE seen # None
    BY <1>1, <1>2, <1>3, <2>2 DEF Ahead
  <2> QED  BY <2>1, <2>2
<1>6. Ahead(b) /\ (head' = head \/ b # Main) => Ahead(b)'
  <2> SUFFICES ASSUME Ahead(b), head' = head \/ b # Main PROVE Ahead(b)'
    OBVIOUS
  <2>1. CASE seen # None /\ seen.tips[b] # tips[b]
    BY <1>1, <1>2, <1>3, <2>1 DEF Ahead
  <2>2. CASE ~(seen # None /\ seen.tips[b] # tips[b])
    BY <1>1, <1>2, <2>2 DEF Ahead
  <2> QED  BY <2>1, <2>2
<1>7. head' = b /\ head' # head => Ahead(b)'
  BY <1>1, <1>2, <1>4 DEF Ahead
<1> QED  BY <1>5, <1>6, <1>7

\* Every tracked branch of a report gets a job.
LEMMA JobsForHas ==
    ASSUME NEW events \in [head : Branches \cup {None}, moved : SUBSET Branches,
                           tips : [Branches -> Commits]],
           NEW wtb \in Branches, NEW b \in Branches,
           events.head = b \/ b \in events.moved \cap (Tracked \cup {wtb})
    PROVE  \E i \in DOMAIN JobsFor(events, wtb) : JobsFor(events, wtb)[i].key = b
<1> DEFINE Job(c, p) == [key |-> c, refHead |-> events.tips[c], priority |-> p]
           followed == events.moved \cap (Tracked \cup {wtb})
           headJob == IF events.head = None THEN <<>> ELSE <<Job(events.head, 0)>>
           branchJob == [c \in followed |-> Job(c, IF c = wtb THEN 0 ELSE 1)]
           others == {branchJob[c] : c \in followed \ {events.head}}
<1>1. JobsFor(events, wtb) = headJob \o SetToSeq(others)
  BY DEF JobsFor
<1>2. IsFiniteSet(others)
  <2> DEFINE S == followed \ {events.head}
             f == [c \in S |-> branchJob[c]]
  <2>1. IsFiniteSet(S)
    BY RefreshAssumption, FS_Subset
  <2>2. f \in Surjection(S, others)
    BY DEF Surjection
  <2> HIDE DEF S, f, others
  <2> QED  BY <2>1, <2>2, FS_Surjection
<1>3. CASE events.head = b
  <2>1. headJob = <<Job(b, 0)>>
    BY <1>3, NamesDiffer
  <2>2. SetToSeq(others) \in Seq(others)
    <3> HIDE DEF others
    <3> QED  BY <1>2, SetToSeqIs
  <2> HIDE DEF others, headJob, Job
  <2>3. (<<Job(b, 0)>> \o SetToSeq(others))[1] = Job(b, 0)
        /\ 1 \in DOMAIN (<<Job(b, 0)>> \o SetToSeq(others))
    BY <2>2
  <2>4. Job(b, 0).key = b
    BY DEF Job
  <2> QED  BY <1>1, <2>1, <2>3, <2>4
<1>4. CASE events.head # b
  <2>1. b \in followed \ {events.head}
    BY <1>4
  <2>2. branchJob[b] \in others
    <3> HIDE DEF followed
    <3> QED  BY <2>1
  <2>3. branchJob[b].key = b
    BY <2>1
  <2>4. headJob \in Seq({headJob[1]})
    <3>1. CASE events.head = None
      BY <3>1
    <3>2. CASE events.head # None
      <4>1. headJob = <<Job(events.head, 0)>>
        BY <3>2
      <4> HIDE DEF Job, headJob
      <4> QED  BY <4>1
    <3> QED  BY <3>1, <3>2
  <2> HIDE DEF others, branchJob, headJob
  <2>5. /\ SetToSeq(others) \in Seq(others)
        /\ \E i \in DOMAIN SetToSeq(others) : SetToSeq(others)[i] = branchJob[b]
    BY <1>2, <2>2, SetToSeqIs
  <2>6. PICK i \in DOMAIN SetToSeq(others) : SetToSeq(others)[i] = branchJob[b]
    BY <2>5
  <2> DEFINE q == SetToSeq(others)
  <2>7. q \in Seq(others) /\ i \in DOMAIN q /\ q[i] = branchJob[b]
    BY <2>5, <2>6
  <2> HIDE DEF q
  <2>8. /\ Len(headJob) + i \in DOMAIN (headJob \o q)
        /\ (headJob \o q)[Len(headJob) + i] = branchJob[b]
    <3>1. Len(headJob) \in Nat /\ Len(q) \in Nat /\ i \in 1 .. Len(q)
      BY <2>4, <2>7
    <3>2. Len(headJob \o q) = Len(headJob) + Len(q)
      BY <2>4, <2>7, ConcatProperties
    <3> QED  BY <2>4, <2>7, <3>1, <3>2
  <2> QED  BY <1>1, <2>3, <2>8 DEF q
<1> QED  BY <1>3, <1>4

\* A submitted job is an outstanding request of its key; the others stay.
LEMMA SubmitKeeps ==
    ASSUME QueueTypes, NEW job, job.key \in Branches, Submit(job)
    PROVE  /\ pass' = pass /\ outstanding'[job.key] # {}
           /\ \A k \in Branches : outstanding[k] # {} => outstanding'[k] # {}
BY DEF QueueTypes, Submit, Queue!Ask

\* A delivered job carries the tip its report saw.
LEMMA JobsForTips ==
    ASSUME NEW events \in [head : Branches \cup {None}, moved : SUBSET Branches,
                           tips : [Branches -> Commits]],
           NEW wtb \in Branches
    PROVE  \A i \in DOMAIN JobsFor(events, wtb) :
              JobsFor(events, wtb)[i].refHead = events.tips[JobsFor(events, wtb)[i].key]
<1> DEFINE Job(c, p) == [key |-> c, refHead |-> events.tips[c], priority |-> p]
           followed == events.moved \cap (Tracked \cup {wtb})
           headJob == IF events.head = None THEN <<>> ELSE <<Job(events.head, 0)>>
           branchJob == [c \in followed |-> Job(c, IF c = wtb THEN 0 ELSE 1)]
           others == {branchJob[c] : c \in followed \ {events.head}}
           Right == {job \in Jobs : job.refHead = events.tips[job.key]}
<1>1. \A c \in Branches : \A p \in 0 .. 1 : Job(c, p) \in Right
  <2> SUFFICES ASSUME NEW c \in Branches, NEW p \in 0 .. 1 PROVE Job(c, p) \in Right
    OBVIOUS
  <2>1. Job(c, p) \in Jobs
    BY DEF Jobs
  <2>2. Job(c, p).key = c /\ Job(c, p).refHead = events.tips[c]
    OBVIOUS
  <2> HIDE DEF Job
  <2> QED  BY <2>1, <2>2
<1>2. headJob \in Seq(Right)
  <2>1. CASE events.head = None
    BY <2>1
  <2>2. CASE events.head # None
    <3>1. events.head \in Branches /\ 0 \in 0 .. 1
      BY <2>2
    <3> HIDE DEF Job, Right
    <3>2. Job(events.head, 0) \in Right
      BY <1>1, <3>1
    <3> QED  BY <2>2, <3>2
  <2> QED  BY <2>1, <2>2
<1>3. others \subseteq Right
  <2>1. \A c \in followed : branchJob[c] = Job(c, IF c = wtb THEN 0 ELSE 1) /\ c \in Branches
    OBVIOUS
  <2>2. \A c \in followed : branchJob[c] \in Right
    <3> HIDE DEF branchJob, Job, followed, Right
    <3> QED  BY <1>1, <2>1
  <2> HIDE DEF branchJob, followed, Right
  <2> QED  BY <2>2
<1>4. IsFiniteSet(others)
  <2> DEFINE S == followed \ {events.head}
             f == [c \in S |-> branchJob[c]]
  <2>1. IsFiniteSet(S)
    BY RefreshAssumption, FS_Subset
  <2>2. f \in Surjection(S, others)
    BY DEF Surjection
  <2> HIDE DEF S, f, others
  <2> QED  BY <2>1, <2>2, FS_Surjection
<1>5. SetToSeq(others) \in Seq(Right)
  <2> HIDE DEF others, Right
  <2>1. SetToSeq(others) \in Seq(others)
    BY <1>4, SetToSeqIs
  <2> QED  BY <1>3, <2>1, SeqMonotonic
<1>6. JobsFor(events, wtb) = headJob \o SetToSeq(others)
  BY DEF JobsFor
<1>7. JobsFor(events, wtb) \in Seq(Right)
  <2> HIDE DEF headJob, others, Right
  <2> QED  BY <1>2, <1>5, <1>6
<1> HIDE DEF Right
<1>8. \A i \in DOMAIN JobsFor(events, wtb) : JobsFor(events, wtb)[i] \in Right
  BY <1>7
<1> QED  BY <1>8 DEF Right

\* The watchers move no row, keep the base, and carry an event one place on.
LEMMA WatchersMove ==
    ASSUME TypeInv, BaseInv, RefWatcher \/ FileCallback
    PROVE  /\ UNCHANGED <<repository, budget, phase, at, draft, index, lost>> /\ pass' = pass
           /\ BaseInv'
           /\ \A k \in Branches : outstanding[k] # {} => outstanding'[k] # {}
           /\ \A b \in Tracked \cup {head} : Ahead(b) =>
                 Ahead(b)' \/ (SubmitRefJob /\ jobs[1].key = b /\ outstanding'[b] # {})
<1> USE DEF BaseInv, TypeInv
<1>0. /\ Tracked \subseteq Branches /\ None \notin Branches
      /\ \A b \in Branches : tips[b] \in Nat
      /\ head \in Branches
  BY RefreshAssumption, CommitsAre DEF RepositoryTypes
<1>1. CASE ReadHead
  <2>1. /\ UNCHANGED <<repository, budget, phase, at, draft, index, lost, seen, report, jobs>>
        /\ UNCHANGED jobQueue /\ phase = "serving"
        /\ headRead' = head /\ report = None /\ jobs = <<>>
    BY <1>1 DEF ReadHead
  <2>2. BaseInv'
    BY <2>1 DEF CheckoutInv, WatchInv, repository
  <2>3. \A b \in Tracked \cup {head} : Ahead(b) => Ahead(b)'
    BY <2>1 DEF Ahead, repository
  <2> QED  BY <2>1, <2>2, <2>3 DEF jobQueue
<1>2. CASE ReadRefs
  <2> DEFINE current == [head |-> headRead, tips |-> tips]
             diff == Diff(current)
  <2>1. /\ UNCHANGED <<repository, budget, phase, at, draft, index, lost, jobs>>
        /\ UNCHANGED jobQueue /\ headRead # None /\ headRead' = None
        /\ seen' = current
        /\ report' = IF diff.head = None /\ diff.moved = {} THEN None ELSE diff
    BY <1>2 DEF ReadRefs
  <2>2. report = None /\ jobs = <<>> /\ phase # "startup"
    BY <2>1 DEF WatchInv
  <2>3. /\ current \in Snapshot /\ current # None
        /\ diff \in Report /\ diff # None
        /\ headRead \in Branches
    <3>1. current \in Snapshot
      BY <1>0, <2>1 DEF Snapshot, RepositoryTypes, WatcherTypes
    <3>2. diff \in Report
      BY <1>0, <2>1 DEF Report, Diff, RepositoryTypes, WatcherTypes
    <3> QED  BY <2>1, <3>1, <3>2, RefreshAssumption DEF WatcherTypes
  <2>4. /\ current.head = headRead /\ current.tips = tips /\ diff.tips = tips
        /\ diff.head = IF seen = None \/ seen.head # headRead THEN headRead ELSE None
        /\ diff.moved = IF seen = None THEN {} ELSE {b \in Branches : seen.tips[b] # tips[b]}
    BY DEF Diff
  <2> HIDE DEF current, diff
  <2>5. BaseInv'
    BY <1>0, <2>1, <2>2, <2>3, <2>4 DEF CheckoutInv, WatchInv, repository
  <2>6. ASSUME NEW b \in Tracked \cup {head}, Ahead(b) PROVE Ahead(b)'
    <3>1. b \in Branches
      BY <1>0
    <3>2. CASE seen # None /\ seen.tips[b] # tips[b]
      <4>1. b \in diff.moved
        BY <2>4, <3>1, <3>2
      <4> QED  BY <2>1, <2>3, <4>1 DEF Ahead
    <3>3. CASE head = b /\ (seen = None \/ seen.head # b)
      <4>1. CASE headRead = b
        <5>1. diff.head = b
          BY <2>4, <3>3, <4>1
        <5> QED  BY <1>0, <2>1, <2>3, <3>1, <5>1 DEF Ahead
      <4>2. CASE headRead # b
        <5>1. head' = b /\ seen'.head # b
          BY <2>1, <2>4, <3>3, <4>2 DEF repository
        <5> QED  BY <5>1 DEF Ahead
      <4> QED  BY <4>1, <4>2
    <3> QED  BY <2>2, <2>6, <3>2, <3>3 DEF Ahead
  <2> QED  BY <2>1, <2>5, <2>6 DEF jobQueue
<1>3. CASE Deliver
  <2>1. /\ UNCHANGED <<repository, budget, phase, at, draft, index, lost, seen, headRead>>
        /\ UNCHANGED jobQueue /\ report # None /\ report' = None
        /\ jobs' = JobsFor(report, head)
    BY <1>3 DEF Deliver
  <2>2. jobs = <<>> /\ seen # None /\ report.tips = seen.tips
    BY <2>1 DEF WatchInv
  <2>3. \A i \in DOMAIN jobs' : jobs'[i].refHead = seen.tips[jobs'[i].key]
    BY <1>0, <2>1, <2>2, JobsForTips DEF WatcherTypes
  <2>4. BaseInv'
    BY <2>1, <2>2, <2>3 DEF CheckoutInv, WatchInv, repository
  <2>5. ASSUME NEW b \in Tracked \cup {head}, Ahead(b) PROVE Ahead(b)'
    <3>1. b \in Branches
      BY <1>0
    <3>2. CASE report.head = b \/ b \in report.moved
      <4>1. \E i \in DOMAIN jobs' : jobs'[i].key = b
        BY <1>0, <2>1, <3>1, <3>2, JobsForHas DEF WatcherTypes
      <4> QED  BY <4>1 DEF Ahead
    <3>3. CASE (head = b /\ (seen = None \/ seen.head # b))
               \/ (seen # None /\ seen.tips[b] # tips[b])
      BY <2>1, <3>3 DEF Ahead, repository
    <3> QED  BY <2>2, <2>5, <3>2, <3>3 DEF Ahead
  <2> QED  BY <2>1, <2>4, <2>5 DEF jobQueue
<1>4. CASE SubmitRefJob
  <2>1. /\ UNCHANGED <<repository, budget, phase, at, draft, index, lost, seen, headRead, report>>
        /\ jobs # <<>> /\ Submit(Head(jobs)) /\ jobs' = Tail(jobs)
    BY <1>4 DEF SubmitRefJob
  <2>2. jobs \in Seq(Jobs) /\ Head(jobs) = jobs[1] /\ jobs[1].key \in Branches
    <3>1. jobs \in Seq(Jobs) /\ Head(jobs) = jobs[1] /\ jobs[1] \in Jobs
      BY <2>1 DEF WatcherTypes
    <3> QED  BY <3>1 DEF Jobs
  <2>3. /\ pass' = pass /\ outstanding'[jobs[1].key] # {}
        /\ \A k \in Branches : outstanding[k] # {} => outstanding'[k] # {}
    BY <2>1, <2>2, SubmitKeeps
  <2>4. \A i \in DOMAIN jobs' : i + 1 \in DOMAIN jobs /\ jobs'[i] = jobs[i + 1]
    BY <2>1, <2>2
  <2>5. BaseInv'
    BY <2>1, <2>2, <2>4 DEF CheckoutInv, WatchInv, repository
  <2>6. ASSUME NEW b \in Tracked \cup {head}, Ahead(b), jobs[1].key # b PROVE Ahead(b)'
    <3>1. CASE \E i \in DOMAIN jobs : jobs[i].key = b
      <4>1. PICK i \in DOMAIN jobs : jobs[i].key = b
        BY <3>1
      <4>2. i - 1 \in DOMAIN jobs' /\ jobs'[i - 1] = jobs[i]
        BY <2>1, <2>2, <2>6, <4>1
      <4> QED  BY <4>1, <4>2 DEF Ahead
    <3>2. CASE ~\E i \in DOMAIN jobs : jobs[i].key = b
      BY <2>1, <2>6, <3>2 DEF Ahead, repository
    <3> QED  BY <3>1, <3>2
  <2> QED  BY <1>4, <2>1, <2>3, <2>5, <2>6
<1>5. CASE FileCallback
  <2>1. /\ UNCHANGED <<repository, budget, phase, at, draft, index, lost, refWatcher>>
        /\ pass' = pass
        /\ \A k \in Branches : outstanding[k] # {} => outstanding'[k] # {}
    <3>1. CASE ReadKey
      BY <3>1 DEF ReadKey, jobQueue
    <3>2. CASE SubmitFileJob
      <4>1. keyRead \in Branches
        BY <3>2 DEF SubmitFileJob, WatcherTypes
      <4> QED  BY <3>2, <4>1, SubmitKeeps DEF SubmitFileJob
    <3> QED  BY <1>5, <3>1, <3>2 DEF FileCallback
  <2>2. BaseInv'
    BY <2>1 DEF CheckoutInv, WatchInv, repository, refWatcher
  <2>3. \A b \in Tracked \cup {head} : Ahead(b) => Ahead(b)'
    BY <2>1 DEF Ahead, repository, refWatcher
  <2> QED  BY <2>1, <2>2, <2>3
<1> QED  BY <1>1, <1>2, <1>3, <1>4, <1>5 DEF RefWatcher

\* So no request is taken off its way.
LEMMA WatchersComing ==
    ASSUME TypeInv, BaseInv, RefWatcher \/ FileCallback
    PROVE  \A b \in Tracked \cup {head} : Coming(b) => Coming(b)'
<1>1. Tracked \cup {head} \subseteq Branches
  BY RefreshAssumption DEF TypeInv, RepositoryTypes
<1> QED  BY <1>1, WatchersMove DEF Coming

\* A pass moves nothing of the repository and of the watchers.
LEMMA RunnerMoves ==
    ASSUME TypeInv, BaseInv, Pass \/ ReadFails \/ Fail
    PROVE  /\ UNCHANGED <<head, tips, moving, setup, contentOf, refWatcher>>
           /\ BaseInv'
           /\ \A b : Ahead(b)' <=> Ahead(b)
<1>1. /\ UNCHANGED <<repository, refWatcher>>
      /\ budget'.checkouts = budget.checkouts
      /\ phase' = "startup" => phase = "startup"
  <2>1. CASE ReadFails \/ Fail
    BY <2>1 DEF ReadFails, Fail, Spend, EndPass, StepTo, TypeInv, RepositoryTypes
  <2>2. CASE Pass
    BY <2>2 DEF Pass, Begin, Route, Check, Extract, ReadName, ReadSha, Write, StampMetadata,
                ReadBranch, WriteBranch, outside, EndPass, StepTo
  <2> QED  BY <2>1, <2>2
<1>2. BaseInv'
  BY <1>1 DEF BaseInv, CheckoutInv, WatchInv, repository, refWatcher
<1>3. \A b : Ahead(b)' <=> Ahead(b)
  BY <1>1 DEF Ahead, repository, refWatcher
<1> QED  BY <1>1, <1>2, <1>3 DEF repository

\* Every step keeps the base of the invariants.
LEMMA NextBase == ASSUME TypeInv, BaseInv, [Next]_vars PROVE BaseInv'
<1>1. CASE UNCHANGED vars
  BY <1>1 DEF BaseInv, CheckoutInv, WatchInv, vars, repository, refWatcher
<1> QED  BY <1>1, UserBase, WatchersMove, RunnerMoves DEF Next

-----------------------------------------------------------------------------
(* The rows of the tracked branches. *)

\* Before the first report nothing but the startup pass moves a row, in the situations
\* without moves before the watchers run.
Quiet == \A s \in Setups : s.moves = {} => s.bounds.checkouts <= 1 /\ s.bounds.hiccups = 0

Stale(b) == rows[b] # None /\ ~rows[b].worktree /\ rows[b].sha # tips[b]

\* The running pass will stamp branch b at its tip.
Running(b) ==
    /\ pass.key = b
    /\ \/ at \in {"route", "refs"}
       \/ at = "objects" /\ draft.sha = tips[b]
       \/ at \in {"check", "extract", "name"} /\ head = b /\ b # Main
       \/ at \in {"sha", "write"} /\ draft.name = b

\* The startup pass is Main's; while HEAD is Main, Main is served.
StartInv ==
    /\ budget.hiccups = 0
    /\ phase = "startup" => /\ head = Main /\ moving = None
                            /\ \A b \in Branches \ {Main} : ~Stale(b)
    /\ phase = "serving" /\ head = Main => served = Main

\* What a pass has read is true, or a request for its branch is on its way.
PassInv ==
    /\ at \in {"sha", "write", "metadata"} =>
          draft.name \in Branches /\ (head = Main => draft.name = Main)
    /\ phase = "serving" /\ at \in {"check", "extract", "name", "sha", "write"} =>
          (pass.key = Main => served = Main)
    /\ at \in {"refs", "objects"} => pass.key \in Tracked
    /\ \A b \in Tracked : pass.key = b =>
          /\ at = "refs" /\ head = b => Coming(b)
          /\ at = "objects" /\ draft.sha # tips[b] => Coming(b)

\* A stale row of a tracked branch has a request on its way, or a pass that runs.
StaleInv == phase = "serving" => \A b \in Tracked \ lost : Stale(b) => Coming(b) \/ Running(b)

TipParts == StartInv /\ PassInv /\ StaleInv

TipInv == setup.moves = {} => BaseInv /\ TipParts

\* What a step starts from.
Good == setup.moves = {} /\ TypeInv /\ IndexInv /\ BaseInv /\ TipParts

\* A stale row is not the served one.
LEMMA StaleIsNotServed ==
    ASSUME IndexInv, NEW b \in RowNames, Stale(b)
    PROVE  b # served
BY DEF IndexInv, Stale

\* The user's steps keep it: a tip that moves has a request on its way.
LEMMA UserTips == ASSUME Good, User PROVE TipParts'
<1> USE DEF Good
<1>0. Tracked \subseteq Branches /\ Branches \subseteq RowNames
  BY RefreshAssumption DEF RowNames
<1>1. /\ UNCHANGED <<setup, refWatcher, jobQueue, phase, at, draft, index, lost>>
      /\ budget'.hiccups = budget.hiccups
      /\ head' # head => head = Main /\ moving # None /\ head' # Main
      /\ phase = "startup" => moving' = None
      /\ \A b \in Branches : tips'[b] # tips[b] => head' = head /\ (head = b \/ seen # None)
  BY UserMoves DEF TipParts, StartInv, TypeInv, RunnerTypes
<1>2. \A b \in Branches :
         /\ Coming(b) /\ (head' = head \/ b # Main) => Coming(b)'
         /\ tips'[b] # tips[b] => Coming(b)'
         /\ head' = b /\ head' # head => Coming(b)'
  BY <1>1, UserAhead DEF Coming, jobQueue
<1>3. phase = "serving" /\ head = Main => ~Stale(Main)
  BY <1>0, StaleIsNotServed, RefreshAssumption DEF TipParts, StartInv
<1>4. \A b \in Branches : tips'[b] = tips[b] => (Stale(b)' <=> Stale(b))
  BY <1>1 DEF Stale, index
<1>5. StartInv'
  <2>1. CASE phase = "startup"
    <3>1. head' = Main /\ moving' = None /\ seen = None
      BY <1>1, <2>1 DEF TipParts, StartInv, BaseInv, WatchInv
    <3>2. \A b \in Branches \ {Main} : tips'[b] = tips[b]
      BY <1>1, <2>1, <3>1 DEF TipParts, StartInv
    <3> QED  BY <1>1, <1>4, <2>1, <3>1, <3>2 DEF TipParts, StartInv
  <2>2. CASE phase # "startup"
    BY <1>1, <2>2 DEF TipParts, StartInv, index
  <2> QED  BY <2>1, <2>2
<1>6. PassInv'
  <2>1. at \in {"refs", "objects"} => pass.key \in Tracked /\ phase = "serving"
    BY DEF TipParts, PassInv, TypeInv, RunnerTypes
  <2>2. ASSUME NEW b \in Tracked, pass.key = b, at = "refs", head' = b PROVE Coming(b)'
    <3>1. CASE head' = head
      BY <1>0, <1>2, <2>2, <3>1 DEF TipParts, PassInv
    <3>2. CASE head' # head
      BY <1>0, <1>2, <2>2, <3>2
    <3> QED  BY <3>1, <3>2
  <2>3. ASSUME NEW b \in Tracked, pass.key = b, at = "objects", draft.sha # tips'[b]
        PROVE  Coming(b)'
    <3>1. CASE tips'[b] # tips[b]
      BY <1>0, <1>2, <2>3, <3>1
    <3>2. CASE tips'[b] = tips[b]
      <4>1. Coming(b)
        BY <2>3, <3>2 DEF TipParts, PassInv
      <4>2. head = Main => b # Main
        BY <2>1, <2>3 DEF TipParts, StartInv, IndexInv
      <4> QED  BY <1>0, <1>1, <1>2, <4>1, <4>2
    <3> QED  BY <3>1, <3>2
  <2>4. pass' = pass
    BY <1>1 DEF jobQueue
  <2>5. at \in {"sha", "write", "metadata"} =>
          draft.name \in Branches /\ (head' = Main => draft.name = Main)
    BY <1>1 DEF TipParts, PassInv
  <2> QED  BY <1>1, <2>1, <2>2, <2>3, <2>4, <2>5 DEF TipParts, PassInv, index
<1>7. StaleInv'
  <2> SUFFICES ASSUME phase = "serving", NEW b \in Tracked \ lost, Stale(b)'
               PROVE  Coming(b)' \/ Running(b)'
    BY <1>1 DEF StaleInv
  <2>1. CASE tips'[b] # tips[b]
    BY <1>0, <1>2, <2>1
  <2>2. CASE tips'[b] = tips[b]
    <3>1. Stale(b) /\ b \in Branches
      BY <1>0, <1>4, <2>2
    <3>2. head = Main => b # Main
      BY <1>3, <3>1
    <3>3. CASE Coming(b)
      BY <1>1, <1>2, <3>1, <3>2, <3>3
    <3>4. CASE Running(b)
      BY <1>1, <2>2, <3>4 DEF Running, jobQueue
    <3> QED  BY <3>1, <3>3, <3>4 DEF TipParts, StaleInv
  <2> QED  BY <2>1, <2>2
<1> QED  BY <1>5, <1>6, <1>7 DEF TipParts

\* So do the watchers': they carry a request one place on.
LEMMA WatcherTips == ASSUME Good, RefWatcher \/ FileCallback PROVE TipParts'
<1> USE DEF Good
<1>1. /\ UNCHANGED <<repository, budget, phase, at, draft, index, lost>> /\ pass' = pass
      /\ \A b \in Tracked : Coming(b) => Coming(b)'
  BY WatchersMove, WatchersComing
<1>2. \A b : (Stale(b)' <=> Stale(b)) /\ (Running(b) => Running(b)')
  BY <1>1 DEF Stale, Running, index, repository
<1>3. StartInv'
  BY <1>1, <1>2 DEF TipParts, StartInv, index, repository
<1>4. PassInv'
  <2>1. at \in {"refs", "objects"} => pass.key \in Tracked
    BY DEF TipParts, PassInv
  <2>2. \A b \in Tracked : pass.key = b =>
          /\ at = "refs" /\ head = b => Coming(b)'
          /\ at = "objects" /\ draft.sha # tips[b] => Coming(b)'
    BY <1>1 DEF TipParts, PassInv
  <2> QED  BY <1>1, <2>1, <2>2 DEF TipParts, PassInv, index, repository
<1>5. StaleInv'
  BY <1>1, <1>2 DEF TipParts, StaleInv
<1> QED  BY <1>3, <1>4, <1>5 DEF TipParts

\* A pass that goes on or ends changes nothing on the way to the queue.
LEMMA ComingKept ==
    ASSUME UNCHANGED <<head, tips, refWatcher, outstanding>>
    PROVE  \A b : Coming(b)' <=> Coming(b)
BY DEF Coming, Ahead, refWatcher

\* A step inside a pass keeps it if what runs for a stale row goes on.
LEMMA StepKeeps ==
    ASSUME Good, UNCHANGED <<outside, rows, served, lost>>, phase' = phase,
           UNCHANGED jobQueue, PassInv',
           \A b \in Tracked \ lost : Stale(b) /\ Running(b) => Running(b)'
    PROVE  TipParts'
<1> USE DEF Good
<1>1. /\ UNCHANGED <<head, tips, moving, budget, refWatcher, outstanding, pass>>
  BY DEF outside, repository, jobQueue
<1>2. \A b : (Coming(b)' <=> Coming(b)) /\ (Stale(b)' <=> Stale(b))
  BY <1>1, ComingKept DEF Stale
<1>3. StartInv'
  BY <1>1, <1>2 DEF TipParts, StartInv
<1>4. StaleInv'
  BY <1>2 DEF TipParts, StaleInv
<1> QED  BY <1>3, <1>4 DEF TipParts

\* The end of a pass keeps it if a row left stale has another request.
LEMMA EndKeeps ==
    ASSUME Good, EndPass, phase = "serving",
           UNCHANGED <<head, tips, refWatcher, rows, served>>, budget'.hiccups = budget.hiccups,
           lost \subseteq lost', \A b \in Tracked \ lost' : Stale(b) /\ Running(b) => Coming(b)
    PROVE  TipParts'
<1> USE DEF Good
<1>1. at' = "idle" /\ phase' = "serving" /\ UNCHANGED outstanding
  BY DEF EndPass, Queue!End
<1>2. \A b : (Coming(b)' <=> Coming(b)) /\ (Stale(b)' <=> Stale(b))
  BY <1>1, ComingKept DEF Stale
<1>3. PassInv' /\ StartInv'
  BY <1>1 DEF TipParts, PassInv, StartInv
<1>4. StaleInv'
  BY <1>1, <1>2 DEF TipParts, StaleInv
<1> QED  BY <1>3, <1>4 DEF TipParts

\* A pass that begins takes the requests of its key along.
LEMMA BeginTips == ASSUME Good, Begin PROVE TipParts'
<1> USE DEF Good
<1>0. Tracked \subseteq Branches
  BY RefreshAssumption
<1>1. PICK k \in Branches : Queue!Begin(k)
  BY DEF Begin
<1>2. /\ UNCHANGED <<head, tips, moving, budget, refWatcher>> /\ phase = "serving"
      /\ UNCHANGED <<phase, draft, rows, served, lost>> /\ at = "idle" /\ at' = "route"
  BY DEF Begin, outside, repository, index
<1>3. /\ pass'.key = k
      /\ \A b \in Branches : b # k => outstanding'[b] = outstanding[b]
  BY <1>1 DEF Queue!Begin, TypeInv, QueueTypes
<1>4. \A b \in Branches : b # k /\ Coming(b) => Coming(b)'
  BY <1>2, <1>3 DEF Coming, Ahead, refWatcher
<1>5. PassInv'
  BY <1>2 DEF TipParts, PassInv
<1>6. StartInv'
  BY <1>2 DEF TipParts, StartInv
<1>7. StaleInv'
  <2> SUFFICES ASSUME NEW b \in Tracked \ lost, Stale(b)' PROVE Coming(b)' \/ Running(b)'
    BY <1>2 DEF StaleInv
  <2>1. CASE b = k
    BY <1>2, <1>3, <2>1 DEF Running
  <2>2. CASE b # k
    <3>1. Stale(b) /\ ~Running(b)
      BY <1>2 DEF Stale, Running
    <3> QED  BY <1>0, <1>2, <1>4, <2>2, <3>1 DEF TipParts, StaleInv
  <2> QED  BY <2>1, <2>2
<1> QED  BY <1>5, <1>6, <1>7 DEF TipParts

\* What an unchanged environment leaves of it.
LEMMA EnvironmentKept ==
    ASSUME UNCHANGED outside
    PROVE  UNCHANGED <<head, tips, moving, budget, refWatcher>>
BY DEF outside, repository

\* Routing: a tracked key that HEAD does not name goes to a git-objects pass.
LEMMA RouteTips == ASSUME Good, Route PROVE TipParts'
<1> USE DEF Good
<1>0. Tracked \subseteq Branches /\ Branches \subseteq RowNames
  BY RefreshAssumption DEF RowNames
<1>1. /\ UNCHANGED <<head, tips, moving, budget, refWatcher>>
      /\ UNCHANGED <<rows, served, lost>> /\ at = "route"
  BY EnvironmentKept DEF Route, index
<1>2. phase = "serving"
  BY <1>1 DEF TypeInv, RunnerTypes
<1>3. CASE pass.key = head /\ StepTo("check") /\ UNCHANGED draft
  <2>1. PassInv'
    <3>1. pass.key = Main => served = Main
      BY <1>2, <1>3 DEF TipParts, StartInv
    <3> QED  BY <1>1, <1>3, <3>1 DEF TipParts, PassInv, StepTo, jobQueue
  <2>2. \A b \in Tracked \ lost : Stale(b) /\ Running(b) => Running(b)'
    <3> SUFFICES ASSUME NEW b \in Tracked \ lost, Stale(b), Running(b) PROVE Running(b)'
      OBVIOUS
    <3>1. b # Main
      BY <1>0, <1>2, <1>3, StaleIsNotServed DEF TipParts, StartInv, Running
    <3> QED  BY <1>1, <1>3, <3>1 DEF Running, StepTo, jobQueue
  <2> QED  BY <1>3, <2>1, <2>2, StepKeeps DEF Route, StepTo, index
<1>4. CASE pass.key # head /\ pass.key \in Tracked /\ StepTo("refs") /\ UNCHANGED draft
  <2>1. PassInv'
    BY <1>1, <1>4 DEF TipParts, PassInv, StepTo, jobQueue
  <2>2. \A b \in Tracked \ lost : Stale(b) /\ Running(b) => Running(b)'
    BY <1>1, <1>4 DEF Running, StepTo, jobQueue
  <2> QED  BY <1>4, <2>1, <2>2, StepKeeps DEF Route, StepTo, index
<1>5. CASE pass.key \notin Tracked /\ EndPass
  BY <1>1, <1>2, <1>5, EndKeeps DEF Running
<1> QED  BY <1>3, <1>4, <1>5 DEF Route

\* A pass skipped as served is one of the served row, which is not stale.
LEMMA CheckTips == ASSUME Good, Check PROVE TipParts'
<1> USE DEF Good
<1>0. Tracked \subseteq Branches /\ Branches \subseteq RowNames
  BY RefreshAssumption DEF RowNames
<1>1. /\ UNCHANGED <<head, tips, moving, budget, refWatcher>>
      /\ UNCHANGED <<rows, served, lost>> /\ at = "check"
  BY EnvironmentKept DEF Check, index
<1>2. phase = "serving"
  BY <1>1 DEF TypeInv, RunnerTypes
<1>3. CASE AlreadyServed /\ EndPass
  <2>1. \A b \in Tracked : ~(Stale(b) /\ Running(b))
    BY <1>0, <1>3, StaleIsNotServed DEF AlreadyServed, Running
  <2> QED  BY <1>1, <1>2, <1>3, <2>1, EndKeeps
<1>4. CASE StepTo("extract") /\ UNCHANGED draft
  <2>1. PassInv'
    BY <1>1, <1>4 DEF TipParts, PassInv, StepTo, jobQueue
  <2>2. \A b \in Tracked \ lost : Stale(b) /\ Running(b) => Running(b)'
    BY <1>1, <1>4 DEF Running, StepTo, jobQueue
  <2> QED  BY <1>4, <2>1, <2>2, StepKeeps DEF Check, StepTo, index
<1> QED  BY <1>3, <1>4 DEF Check

\* A working-tree pass reads: HEAD that moved since names a branch not seen yet.
LEMMA ReadsTips == ASSUME Good, Extract \/ ReadName \/ ReadSha PROVE TipParts'
<1> USE DEF Good
<1>1. /\ UNCHANGED <<head, tips, moving, budget, refWatcher>>
      /\ UNCHANGED outside /\ UNCHANGED <<rows, served, lost>> /\ UNCHANGED <<jobQueue, phase>>
  BY EnvironmentKept DEF Extract, ReadName, ReadSha, StepTo, index
<1>2. CASE Extract
  <2>1. PassInv'
    BY <1>1, <1>2 DEF Extract, TipParts, PassInv, StepTo, jobQueue
  <2>2. \A b \in Tracked \ lost : Stale(b) /\ Running(b) => Running(b)'
    BY <1>1, <1>2 DEF Extract, Running, StepTo, jobQueue
  <2> QED  BY <1>1, <2>1, <2>2, StepKeeps
<1>3. CASE ReadName
  <2>1. draft'.name = head /\ head \in Branches
    BY <1>3 DEF ReadName, TypeInv, RunnerTypes, Drafts, RepositoryTypes
  <2>2. PassInv'
    BY <1>1, <1>3, <2>1 DEF ReadName, TipParts, PassInv, StepTo, jobQueue
  <2>3. \A b \in Tracked \ lost : Stale(b) /\ Running(b) => Running(b)'
    BY <1>1, <1>3, <2>1 DEF ReadName, Running, StepTo, jobQueue
  <2> QED  BY <1>1, <2>2, <2>3, StepKeeps
<1>4. CASE ReadSha
  <2>1. draft'.name = draft.name
    BY <1>4 DEF ReadSha, TypeInv, RunnerTypes, Drafts
  <2>2. PassInv'
    BY <1>1, <1>4, <2>1 DEF ReadSha, TipParts, PassInv, StepTo, jobQueue
  <2>3. \A b \in Tracked \ lost : Stale(b) /\ Running(b) => Running(b)'
    BY <1>1, <1>4, <2>1 DEF ReadSha, Running, StepTo, jobQueue
  <2> QED  BY <1>1, <2>2, <2>3, StepKeeps
<1> QED  BY <1>2, <1>3, <1>4

\* A working-tree pass writes a stamp, and retires stamps only.
LEMMA WriteTips == ASSUME Good, IndexInv', Write PROVE TipParts'
<1> USE DEF Good
<1>0. Tracked \subseteq Branches /\ Branches \subseteq RowNames
  BY RefreshAssumption DEF RowNames
<1>1. /\ UNCHANGED <<head, tips, moving, budget, refWatcher, outstanding, pass, phase, draft>>
      /\ at = "write" /\ at' = "metadata" /\ lost' = lost \ {draft.name}
  BY EnvironmentKept DEF Write, StepTo, jobQueue
<1>2. budget'.hiccups = 0
  BY <1>1 DEF TipParts, StartInv
<1>3. PassInv'
  BY <1>1 DEF TipParts, PassInv
<1>4. draft.name \in Branches /\ (head = Main => draft.name = Main)
  BY <1>1 DEF TipParts, PassInv
<1>5. served' = draft.name
  BY <1>1, <1>3 DEF IndexInv, PassServesWhatItRead
<1>6. \A b \in Branches : Stale(b)' => Stale(b) /\ b # draft.name
  <2> SUFFICES ASSUME NEW b \in Branches, Stale(b)' PROVE Stale(b) /\ b # draft.name
    OBVIOUS
  <2>1. b # draft.name
    BY <1>0, <1>1, <1>5 DEF Stale, IndexInv
  <2>2. rows'[b] = rows[b] \/ rows'[b] = None
    BY <1>0, <2>1 DEF Write
  <2> QED  BY <1>1, <2>1, <2>2 DEF Stale
<1>7. StartInv'
  BY <1>1, <1>2, <1>4, <1>5, <1>6 DEF TipParts, StartInv
<1>8. StaleInv'
  <2> SUFFICES ASSUME phase = "serving", NEW b \in Tracked \ lost', Stale(b)'
               PROVE  Coming(b)'
    BY <1>1 DEF StaleInv
  <2>1. Stale(b) /\ b # draft.name /\ b \notin lost
    BY <1>0, <1>1, <1>6
  <2>2. ~Running(b)
    BY <1>1, <2>1 DEF Running
  <2>3. Coming(b)
    BY <2>1, <2>2 DEF TipParts, StaleInv
  <2> QED  BY <1>1, <2>3, ComingKept
<1> QED  BY <1>3, <1>7, <1>8 DEF TipParts

\* The metadata: no row moves.
LEMMA MetadataTips == ASSUME Good, StampMetadata PROVE TipParts'
<1> USE DEF Good
<1>0. Tracked \subseteq Branches /\ Branches \subseteq RowNames
  BY RefreshAssumption DEF RowNames
<1>1. /\ UNCHANGED <<head, tips, moving, budget, refWatcher, rows, served, lost>>
      /\ at = "metadata" /\ EndPass
  BY EnvironmentKept DEF StampMetadata
<1>2. CASE phase = "serving"
  BY <1>1, <1>2, EndKeeps DEF Running
<1>3. CASE phase = "startup"
  <2>1. head = Main /\ served = Main
    BY <1>1, <1>3 DEF TipParts, StartInv, PassInv, IndexInv, PassServesWhatItRead
  <2>2. \A b \in Branches : ~Stale(b)'
    <3>1. \A b \in Branches : ~Stale(b)
      BY <1>0, <1>3, <2>1, StaleIsNotServed DEF TipParts, StartInv
    <3> QED  BY <1>1, <3>1 DEF Stale
  <2>3. at' = "idle" /\ phase' = "serving"
    BY <1>1 DEF EndPass
  <2>4. StartInv' /\ StaleInv' /\ PassInv'
    BY <1>0, <1>1, <2>1, <2>2, <2>3 DEF TipParts, StartInv, StaleInv, PassInv
  <2> QED  BY <2>4 DEF TipParts
<1> QED  BY <1>2, <1>3 DEF TypeInv, RunnerTypes

\* A git-objects pass leaves the tip it read; one that moved since is on its way.
LEMMA BranchTips == ASSUME Good, ReadBranch \/ WriteBranch PROVE TipParts'
<1> USE DEF Good
<1>0. Tracked \subseteq Branches /\ Branches \subseteq RowNames
  BY RefreshAssumption DEF RowNames
<1>1. /\ UNCHANGED <<head, tips, moving, budget, refWatcher, served>>
      /\ UNCHANGED outside /\ phase = "serving" /\ pass.key \in Branches
  <2>1. UNCHANGED outside /\ UNCHANGED served /\ at \in {"refs", "objects"}
    BY DEF ReadBranch, WriteBranch, index
  <2> QED  BY <2>1, EnvironmentKept DEF TypeInv, RunnerTypes
<1>2. CASE ReadBranch
  <2>1. UNCHANGED <<rows, lost>> /\ at = "refs"
    BY <1>2 DEF ReadBranch, index
  <2>2. CASE Skipped /\ EndPass
    <3>1. \A b \in Tracked : Stale(b) /\ Running(b) => Coming(b)
      BY <1>0, <2>1, <2>2, StaleIsNotServed DEF Skipped, Running, TipParts, PassInv
    <3> QED  BY <1>1, <2>1, <2>2, <3>1, EndKeeps
  <2>3. CASE draft' = [draft EXCEPT !.sha = tips[pass.key]] /\ StepTo("objects")
    <3>1. draft'.sha = tips[pass.key] /\ pass' = pass /\ at' = "objects"
      BY <2>3 DEF StepTo, jobQueue, TypeInv, RunnerTypes, Drafts
    <3>2. PassInv'
      BY <1>1, <2>1, <3>1 DEF TipParts, PassInv
    <3>3. \A b \in Tracked \ lost : Stale(b) /\ Running(b) => Running(b)'
      BY <1>1, <3>1 DEF Running
    <3> QED  BY <1>1, <2>1, <2>3, <3>2, <3>3, StepKeeps DEF StepTo
  <2> QED  BY <1>2, <2>2, <2>3 DEF ReadBranch
<1>3. CASE WriteBranch
  <2>1. /\ at = "objects" /\ at' = "idle" /\ phase' = "serving" /\ UNCHANGED outstanding
        /\ rows' = [rows EXCEPT ![pass.key] = Row(contentOf[draft.sha], draft.sha, FALSE)]
        /\ lost' = lost \ {pass.key}
    BY <1>1, <1>3 DEF WriteBranch, EndPass, Queue!End
  <2>2. PassInv' /\ StartInv'
    BY <1>1, <2>1 DEF TipParts, PassInv, StartInv
  <2>3. ASSUME NEW b \in Tracked \ lost', Stale(b)' PROVE Coming(b)
    <3>1. CASE b = pass.key
      <4>1. rows'[b].sha = draft.sha
        BY <1>0, <1>1, <2>1, <3>1 DEF TypeInv, IndexTypes, Row
      <4> QED  BY <1>1, <2>1, <2>3, <3>1, <4>1 DEF Stale, TipParts, PassInv
    <3>2. CASE b # pass.key
      <4>1. Stale(b) /\ b \notin lost /\ ~Running(b)
        BY <1>0, <1>1, <2>1, <2>3, <3>2 DEF Stale, Running, TypeInv, IndexTypes
      <4> QED  BY <1>1, <4>1 DEF TipParts, StaleInv
    <3> QED  BY <3>1, <3>2
  <2>4. StaleInv'
    BY <1>1, <2>1, <2>3, ComingKept DEF StaleInv
  <2> QED  BY <1>1, <2>2, <2>4 DEF TipParts
<1> QED  BY <1>2, <1>3

\* A pass that fails leaves its branch lost; no git command fails.
LEMMA FailTips == ASSUME Good, ReadFails \/ Fail PROVE TipParts'
<1> USE DEF Good
<1>1. ~ReadFails
  BY DEF ReadFails, Spend, TipParts, StartInv
<1>2. CASE Fail
  <2>1. budget'.hiccups = budget.hiccups
    BY <1>2 DEF Fail, Spend, TypeInv, RepositoryTypes
  <2>2. /\ UNCHANGED <<head, tips, moving, refWatcher, rows, served>> /\ phase = "serving"
        /\ EndPass /\ lost' = lost \cup ({pass.key, draft.name} \ {None})
    BY <1>2 DEF Fail, repository, index
  <2>3. \A b \in Tracked \ lost' : ~Running(b)
    BY <2>2, RefreshAssumption DEF Running
  <2> QED  BY <2>1, <2>2, <2>3, EndKeeps
<1> QED  BY <1>1, <1>2

\* A loop that starts has seen nothing and spent nothing.
LEMMA InitBase == ASSUME Init, setup.bounds.checkouts <= 1 PROVE BaseInv
<1>1. /\ head = Main /\ moving = None /\ seen = None /\ headRead = None /\ report = None
      /\ jobs = <<>> /\ budget = setup.bounds
  BY DEF Init
<1> QED  BY <1>1 DEF BaseInv, CheckoutInv, WatchInv

\* A loop that starts has stamps and rows at their tips only.
LEMMA InitTips == ASSUME Init, Quiet, setup.moves = {} PROVE BaseInv /\ TipParts
<1>0. /\ head = Main /\ moving = None /\ phase = "startup" /\ at = "extract"
      /\ budget = setup.bounds /\ setup \in Setups
  BY DEF Init
<1>1. budget.hiccups = 0 /\ setup.bounds.checkouts <= 1
  BY <1>0 DEF Quiet
<1>2. BaseInv
  BY <1>1, InitBase
<1>3. \A b \in Branches : ~Stale(b)
  <2>1. PICK b \in Branches \cup {None} : \E others \in SUBSET (Branches \ {b}) :
           rows = [c \in RowNames |-> IF c = b THEN TipRow(c, TRUE)
                                      ELSE IF c \in others THEN TipRow(c, FALSE) ELSE None]
    BY DEF Init, InitIndex
  <2>2. \A c \in Branches : \A w \in BOOLEAN : TipRow(c, w).sha = tips[c]
    BY DEF TipRow, Row
  <2>3. \A c \in Branches : rows[c] # None => rows[c].sha = tips[c]
    BY <2>1, <2>2, NamesDiffer
  <2> QED  BY <2>3 DEF Stale
<1> QED  BY <1>0, <1>1, <1>2, <1>3 DEF TipParts, StartInv, PassInv, StaleInv

\* Every step keeps it.
LEMMA NextTips ==
    ASSUME Good, TypeInv', IndexInv', [Next]_vars
    PROVE  TipParts'
<1>1. CASE UNCHANGED vars
  <2>1. UNCHANGED <<outside, rows, served, lost, at, draft>> /\ phase' = phase
        /\ UNCHANGED jobQueue
    BY <1>1 DEF vars, outside, index
  <2>2. PassInv'
    BY <2>1 DEF Good, TipParts, PassInv, Coming, Ahead, outside, repository, refWatcher,
           jobQueue
  <2>3. \A b \in Tracked \ lost : Stale(b) /\ Running(b) => Running(b)'
    BY <2>1 DEF Running, outside, repository, jobQueue
  <2> QED  BY <2>1, <2>2, <2>3, StepKeeps
<1> QED  BY <1>1, UserTips, WatcherTips, BeginTips, RouteTips, CheckTips, ReadsTips, WriteTips,
            MetadataTips, BranchTips, FailTips DEF Next, Pass

\* The situation never changes.
LEMMA SetupStays == ASSUME [Next]_vars PROVE setup' = setup
BY DEF vars, repository, outside, Next, User, Save, Commit, CheckoutEnds, Checkout, Advance,
       RefWatcher, ReadHead, ReadRefs, Deliver, SubmitRefJob, FileCallback, ReadKey,
       SubmitFileJob, Pass, Begin, Route, Check, Extract, ReadName, ReadSha, Write,
       StampMetadata, ReadBranch, WriteBranch, ReadFails, Fail

\* A loop at rest has a snapshot, and it is the repository.
LEMMA AtRestIs ==
    ASSUME TypeInv, AtRest
    PROVE  seen # None /\ seen.head = head /\ seen.tips = tips
<1>1. [head |-> head, tips |-> tips] \in Snapshot
  BY CommitsAre DEF Snapshot, TypeInv, RepositoryTypes
<1> QED  BY <1>1, RefreshAssumption DEF AtRest

\* BranchRowsCurrent: once the loop rests, the row of a tracked branch is at its tip,
\* if there is at most one checkout and no failing git command: before the first
\* snapshot a second one, or a startup pass that read no git, would leave a tip that
\* moved without an event.
THEOREM BranchRowsCurrent ==
    ASSUME Quiet
    PROVE  Spec => []BranchRowsAreCurrent
<1> DEFINE Inv == TypeInv /\ IndexInv /\ TipInv
<1>1. Init => Inv
  BY InitTypes, InitIndexInv, InitTips DEF TipInv
<1>2. Inv /\ [Next]_vars => Inv'
  <2> SUFFICES ASSUME Inv, [Next]_vars PROVE Inv'
    OBVIOUS
  <2>1. TypeInv' /\ IndexInv' /\ setup' = setup
    BY NextTypes, NextIndexInv, SetupStays
  <2>2. setup.moves = {} => BaseInv' /\ TipParts'
    BY <2>1, NextBase, NextTips DEF Good, TipInv
  <2> QED  BY <2>1, <2>2 DEF TipInv
<1>3. Inv => BranchRowsAreCurrent
  <2> SUFFICES ASSUME Inv, AtRest, setup.moves = {}, NEW b \in Tracked \ lost, rows[b] # None,
                      ~rows[b].worktree
               PROVE  rows[b].sha = tips[b]
    BY DEF BranchRowsAreCurrent
  <2>1. b \in Branches
    BY RefreshAssumption
  <2>2. ~Coming(b) /\ ~Running(b)
    BY <2>1, AtRestIs DEF AtRest, Coming, Ahead, Running
  <2> QED  BY <2>2 DEF AtRest, Stale, TipInv, TipParts, StaleInv
<1> QED  BY <1>1, <1>2, <1>3, PTL DEF Spec

-----------------------------------------------------------------------------
(* The checked-out branch. *)

\* The requests of a key are finitely many and have numbers.
QueueNumbers ==
    \A k \in Branches : /\ IsFiniteSet(outstanding[k])
                        /\ \A r \in outstanding[k] : r.sequence \in Nat

\* What is asked of the checked-out branch is its tip or must always run, or an event of
\* it is on its way.
AskedInv ==
    outstanding[head] # {} =>
        Ahead(head) \/ Queue!HeadAsked(outstanding[head]) \in {None, tips[head]}

\* A finite set of numbers that is not empty has a greatest one: strict inclusion of
\* finite sets is well-founded.
LEMMA GreatestIs ==
    ASSUME NEW S \in SUBSET Nat, IsFiniteSet(S), S # {}
    PROVE  \E m \in S : \A i \in S : i <= m
<1> DEFINE Above(x) == {y \in S : y > x}
           Aboves == {Above(x) : x \in S}
<1>1. Aboves # {} /\ Aboves \subseteq FiniteSubsetsOf(Nat)
  <2>1. Aboves # {}
    OBVIOUS
  <2>2. ASSUME NEW x \in S PROVE Above(x) \in FiniteSubsetsOf(Nat)
    <3>1. Above(x) \subseteq S
      OBVIOUS
    <3> HIDE DEF Above
    <3>2. IsFiniteSet(Above(x))
      BY <3>1, FS_Subset
    <3> QED  BY <3>1, <3>2 DEF FiniteSubsetsOf
  <2> HIDE DEF Above
  <2> QED  BY <2>1, <2>2
<1>2. PICK A \in Aboves : \A B \in Aboves : <<B, A>> \notin StrictSubsetOrdering(Nat)
  <2> HIDE DEF Aboves, StrictSubsetOrdering, FiniteSubsetsOf
  <2> QED  BY <1>1, FS_StrictSubsetOrderingWellFounded, WFMin
<1>3. PICK m \in S : A = Above(m)
  OBVIOUS
<1>4. ASSUME NEW i \in S, i > m PROVE FALSE
  <2>1. Above(i) \subseteq Above(m) /\ i \in Above(m) /\ i \notin Above(i)
    <3>1. i \in Nat /\ m \in Nat /\ \A y \in S : y \in Nat
      BY <1>4
    <3>2. \A y \in S : y > i => y > m
      BY <1>4, <3>1
    <3>3. ~ (i > i)
      BY <3>1
    <3> QED  BY <1>4, <3>2, <3>3
  <2>2. Above(i) \in Aboves /\ Above(i) \in FiniteSubsetsOf(Nat) /\ A \in FiniteSubsetsOf(Nat)
    BY <1>1
  <2> HIDE DEF Above, Aboves
  <2>3. <<Above(i), A>> \in StrictSubsetOrdering(Nat)
    BY <1>3, <2>1, <2>2 DEF StrictSubsetOrdering, FiniteSubsetsOf
  <2> QED  BY <1>2, <2>2, <2>3
<1> QED  BY <1>4

\* The next number is one.
LEMMA NextStampIs == ASSUME QueueTypes, QueueNumbers PROVE NextStamp \in Nat
<1> DEFINE All == UNION {outstanding[k] : k \in Branches}
           Sequences == {r.sequence : r \in All}
           f == [k \in Branches |-> outstanding[k]]
           g == [r \in All |-> r.sequence]
<1>1. IsFiniteSet({outstanding[k] : k \in Branches})
  <2>1. f \in Surjection(Branches, {outstanding[k] : k \in Branches})
    BY DEF Surjection
  <2> HIDE DEF f
  <2> QED  BY <2>1, RefreshAssumption, FS_Surjection
<1>2. IsFiniteSet(All)
  BY <1>1, FS_UNION DEF QueueNumbers
<1>3. IsFiniteSet(Sequences)
  <2>1. g \in Surjection(All, Sequences)
    BY DEF Surjection
  <2> HIDE DEF g, All, Sequences
  <2> QED  BY <1>2, <2>1, FS_Surjection
<1>4. Sequences \subseteq Nat
  BY DEF QueueNumbers
<1>5. IsFiniteSet({0} \cup Sequences)
  <2> HIDE DEF Sequences
  <2> QED  BY <1>3, FS_AddElement
<1>6. PICK m \in {0} \cup Sequences : \A i \in {0} \cup Sequences : i <= m
  <2> HIDE DEF Sequences
  <2> QED  BY <1>4, <1>5, GreatestIs
<1>7. Max({0} \cup Sequences) \in {0} \cup Sequences
  <2> HIDE DEF Sequences
  <2> QED  BY <1>6 DEF Max
<1>8. NextStamp = 1 + Max({0} \cup Sequences)
  BY DEF NextStamp
<1>9. \A i \in {0} \cup Sequences : 1 + i \in Nat
  <2> HIDE DEF Sequences
  <2> QED  BY <1>4
<1> HIDE DEF Sequences
<1> QED  BY <1>7, <1>8, <1>9

\* A submitted job is the newest request of its key, and decides the head that is asked.
LEMMA SubmitAsks ==
    ASSUME QueueTypes, QueueNumbers, NEW job, job.key \in Branches, Submit(job)
    PROVE  /\ QueueNumbers'
           /\ \A k \in Branches : k # job.key => outstanding'[k] = outstanding[k]
           /\ Queue!HeadAsked(outstanding'[job.key]) \in {None, job.refHead}
<1> DEFINE r == [paths |-> {}, priority |-> job.priority, sequence |-> NextStamp,
                 refHead |-> job.refHead]
           R == outstanding[job.key]
<1>1. /\ \A j \in Branches : \A q \in outstanding[j] : q.sequence < r.sequence
      /\ outstanding' = [outstanding EXCEPT ![job.key] = @ \cup {r}]
  BY DEF Submit, Queue!Ask
<1>2. r.sequence \in Nat /\ r.refHead = job.refHead
  BY NextStampIs
<1> HIDE DEF r
<1>3. \A k \in Branches : outstanding'[k] = IF k = job.key THEN R \cup {r} ELSE outstanding[k]
  BY <1>1 DEF QueueTypes
<1>4. QueueNumbers'
  <2> SUFFICES ASSUME NEW k \in Branches
               PROVE  IsFiniteSet(outstanding'[k]) /\ \A q \in outstanding'[k] : q.sequence \in Nat
    BY DEF QueueNumbers
  <2>1. IsFiniteSet(R \cup {r})
    BY FS_AddElement DEF QueueNumbers
  <2> QED  BY <1>2, <1>3, <2>1 DEF QueueNumbers
<1>5. (CHOOSE p \in R \cup {r} : \A q \in R \cup {r} : q.sequence <= p.sequence) = r
  <2>1. \A q \in R \cup {r} : q.sequence \in Nat /\ q.sequence <= r.sequence
    BY <1>1, <1>2 DEF QueueNumbers
  <2>2. \A p \in R \cup {r} : (\A q \in R \cup {r} : q.sequence <= p.sequence) => p = r
    BY <1>1, <1>2 DEF QueueNumbers
  <2> QED  BY <2>1, <2>2
<1>6. Queue!HeadAsked(R \cup {r}) \in {None, job.refHead}
  BY <1>2, <1>5 DEF Queue!HeadAsked
<1> QED  BY <1>3, <1>4, <1>6

\* The watchers ask for the tips they saw.
LEMMA WatchersAsk ==
    ASSUME TypeInv, BaseInv, QueueNumbers, AskedInv, RefWatcher \/ FileCallback
    PROVE  QueueNumbers' /\ AskedInv'
<1>0. head \in Branches /\ None \notin Branches
  BY RefreshAssumption DEF TypeInv, RepositoryTypes
<1>1. /\ UNCHANGED <<head, tips>>
      /\ Ahead(head) => Ahead(head)' \/ (SubmitRefJob /\ jobs[1].key = head)
  BY WatchersMove DEF repository
<1>2. CASE UNCHANGED outstanding /\ ~SubmitRefJob
  BY <1>1, <1>2 DEF QueueNumbers, AskedInv
<1>3. CASE SubmitRefJob
  <2>1. /\ jobs # <<>> /\ Submit(Head(jobs)) /\ UNCHANGED <<seen, headRead, report>>
    BY <1>3 DEF SubmitRefJob
  <2>2. Head(jobs) = jobs[1] /\ jobs[1].key \in Branches /\ 1 \in DOMAIN jobs
    <3>1. jobs \in Seq(Jobs) /\ Head(jobs) = jobs[1] /\ jobs[1] \in Jobs /\ 1 \in DOMAIN jobs
      BY <2>1 DEF TypeInv, WatcherTypes
    <3> QED  BY <3>1 DEF Jobs
  <2>3. /\ QueueNumbers'
        /\ \A k \in Branches : k # jobs[1].key => outstanding'[k] = outstanding[k]
        /\ Queue!HeadAsked(outstanding'[jobs[1].key]) \in {None, jobs[1].refHead}
    BY <2>1, <2>2, SubmitAsks DEF TypeInv
  <2>4. CASE jobs[1].key = head
    <3>1. seen # None /\ jobs[1].refHead = seen.tips[head]
      BY <2>2, <2>4 DEF BaseInv, WatchInv
    <3>2. CASE seen.tips[head] = tips[head]
      BY <1>1, <2>3, <2>4, <3>1, <3>2 DEF AskedInv
    <3>3. CASE seen.tips[head] # tips[head]
      <4>1. Ahead(head)'
        BY <1>1, <2>1, <3>1, <3>3 DEF Ahead
      <4> QED  BY <2>3, <4>1 DEF AskedInv
    <3> QED  BY <3>2, <3>3
  <2>5. CASE jobs[1].key # head
    <3>1. outstanding'[head] = outstanding[head]
      BY <1>0, <2>3, <2>5
    <3> QED  BY <1>1, <2>3, <2>5, <3>1 DEF AskedInv
  <2> QED  BY <2>4, <2>5
<1>4. CASE SubmitFileJob
  <2> DEFINE job == [key |-> keyRead, refHead |-> None, priority |-> 0]
  <2>1. keyRead \in Branches /\ Submit(job)
    BY <1>4 DEF SubmitFileJob, TypeInv, WatcherTypes
  <2>2. job.key = keyRead /\ job.refHead = None
    OBVIOUS
  <2> HIDE DEF job
  <2>3. /\ QueueNumbers'
        /\ \A k \in Branches : k # keyRead => outstanding'[k] = outstanding[k]
        /\ Queue!HeadAsked(outstanding'[keyRead]) = None
    BY <2>1, <2>2, SubmitAsks DEF TypeInv
  <2>4. Ahead(head) => Ahead(head)'
    BY <1>1, <1>4 DEF SubmitFileJob, Ahead, repository, refWatcher
  <2>5. CASE keyRead = head
    BY <1>1, <2>3, <2>5 DEF AskedInv
  <2>6. CASE keyRead # head
    <3>1. outstanding'[head] = outstanding[head]
      BY <1>0, <2>3, <2>6
    <3> QED  BY <1>1, <2>3, <2>4, <3>1 DEF AskedInv
  <2> QED  BY <2>5, <2>6
<1>5. CASE ReadHead \/ ReadRefs \/ Deliver \/ ReadKey
  <2>1. UNCHANGED outstanding
    BY <1>5 DEF ReadHead, ReadRefs, Deliver, ReadKey, jobQueue
  <2> QED  BY <1>2, <1>3, <2>1
<1> QED  BY <1>3, <1>4, <1>5 DEF RefWatcher, FileCallback

\* The other steps ask for nothing; a tip that moves, and HEAD, have an event.
LEMMA OthersAsk ==
    ASSUME TypeInv, BaseInv, QueueNumbers, AskedInv, User \/ Pass \/ ReadFails \/ Fail
    PROVE  QueueNumbers' /\ AskedInv'
<1>0. head \in Branches /\ head' \in Branches
  BY NextTypes DEF TypeInv, RepositoryTypes, Next
<1>1. CASE User
  <2>1. /\ UNCHANGED outstanding
        /\ head' # head => head = Main /\ head' # Main
    BY <1>1, UserMoves DEF jobQueue
  <2>2. CASE head' = head
    BY <1>0, <1>1, <2>1, <2>2, UserAhead DEF QueueNumbers, AskedInv
  <2>3. CASE head' # head
    <3>1. PICK b \in Branches : head' = b
      BY <1>0
    <3>2. Ahead(b)'
      BY <1>1, <2>3, <3>1, UserAhead
    <3>3. Ahead(head)' <=> Ahead(b)'
      BY <3>1 DEF Ahead
    <3> QED  BY <2>1, <3>2, <3>3 DEF QueueNumbers, AskedInv
  <2> QED  BY <2>2, <2>3
<1>2. CASE Pass \/ ReadFails \/ Fail
  <2>1. /\ UNCHANGED <<head, tips>>
        /\ Ahead(head)' <=> Ahead(head)
    BY <1>2, RunnerMoves DEF Ahead
  <2>2. CASE Begin
    <3>1. PICK k \in Branches : outstanding' = [outstanding EXCEPT ![k] = {}]
      BY <2>2 DEF Begin, Queue!Begin
    <3>2. \A b \in Branches : outstanding'[b] = IF b = k THEN {} ELSE outstanding[b]
      BY <3>1 DEF TypeInv, QueueTypes
    <3>3. QueueNumbers'
      BY <3>2, FS_EmptySet DEF QueueNumbers
    <3> QED  BY <1>0, <2>1, <3>2, <3>3 DEF AskedInv
  <2>3. CASE ~Begin
    <3>1. UNCHANGED outstanding
      BY <1>2, <2>3 DEF Pass, Route, Check, Extract, ReadName, ReadSha, Write, StampMetadata,
                        ReadBranch, WriteBranch, ReadFails, Fail, StepTo, EndPass, Queue!End,
                        jobQueue
    <3> QED  BY <2>1, <3>1 DEF QueueNumbers, AskedInv
  <2> QED  BY <2>2, <2>3
<1> QED  BY <1>1, <1>2

\* At the steps of a working-tree pass of the queue.
TreePass == phase = "serving" /\ at \in {"check", "extract", "name", "sha", "write", "metadata"}

\* While HEAD is Main every working-tree pass is Main's; a git-objects pass whose branch
\* is checked out meanwhile has a request behind it.
RouteInv ==
    /\ phase = "serving" /\ head = Main => served \in {Main, NonGit}
    /\ at \in {"sha", "write", "metadata"} /\ head = Main => draft.name \in {Main, NonGit}
    /\ TreePass /\ head = Main => pass.key = Main
    /\ at \in {"refs", "objects"} /\ pass.key = head => Coming(head)

\* A served row at its branch's tip has the freshness stamp of that tip.
StampInv ==
    /\ phase = "startup" /\ at # "metadata" =>
          \A b \in Branches : rows[b] # None => rows[b].sha <= tips[b]
    /\ at # "metadata" /\ served \in Branches \ lost /\ (phase = "startup" \/ head = served) =>
          (rows[served].sha = tips[served] => gitHead = tips[served])

\* What a working-tree pass reads is HEAD and its tip, or a request of HEAD is coming.
ReadInv ==
    /\ TreePass /\ pass.key # head => Coming(head)
    /\ TreePass /\ at \in {"sha", "write", "metadata"} /\ pass.key = head =>
          draft.name = head \/ (draft.name = NonGit /\ head \in lost)
    /\ at \in {"write", "metadata"} /\ draft.name = head => draft.sha = tips[head] \/ Coming(head)

\* The running pass is HEAD's and will not be dropped, or is past the drop.
Going ==
    /\ pass.key = head
    /\ \/ at \in {"route", "check"} /\ pass.refHead \in {None, tips[head]}
       \/ at \in {"extract", "name", "sha"}

\* HEAD is served, or will be.
HeadInv ==
    phase = "serving" /\ at \notin {"write", "metadata"} /\ head \notin lost =>
        ServesHead \/ Coming(head) \/ Going

HeadParts == RouteInv /\ StampInv /\ ReadInv /\ HeadInv

\* What a step starts from.
Sound == TypeInv /\ IndexInv /\ BaseInv /\ QueueNumbers /\ AskedInv /\ HeadParts

\* The user's steps keep it: a tip that moves, and a branch checked out, has an event.
LEMMA UserHead == ASSUME Sound, User PROVE HeadParts'
<1> USE DEF Sound
<1>0. head \in Branches /\ head' \in Branches
  BY NextTypes DEF TypeInv, RepositoryTypes, Next
<1>1. /\ UNCHANGED <<refWatcher, jobQueue, phase, at, draft, index, lost>>
      /\ head' # head => head = Main /\ head' # Main
      /\ \A b \in Branches : /\ tips[b] \in Nat /\ tips'[b] \in Nat /\ tips[b] <= tips'[b]
                             /\ tips'[b] # tips[b] => head' = head
      /\ tips'[head] # tips[head] => tips'[head] \notin Commits
  BY UserMoves
<1>2. /\ head' = head /\ Coming(head) => Coming(head)'
      /\ head' # head => Coming(head)'
      /\ tips'[head] # tips[head] => Coming(head)'
  <2>1. PICK b \in Branches : head' = b
    BY <1>0
  <2>2. Coming(head)' <=> Coming(b)'
    BY <2>1 DEF Coming, Ahead
  <2>3. /\ Ahead(b) /\ (head' = head \/ b # Main) => Ahead(b)'
        /\ tips'[b] # tips[b] /\ b = head => Ahead(b)'
        /\ head' = b /\ head' # head => Ahead(b)'
    BY UserAhead
  <2>4. Coming(b) /\ (head' = head \/ b # Main) => Coming(b)'
    BY <1>1, <2>3 DEF Coming, jobQueue
  <2>5. Ahead(b)' => Coming(b)'
    BY DEF Coming
  <2> QED  BY <1>0, <1>1, <2>1, <2>2, <2>3, <2>4, <2>5
<1>3. RouteInv'
  BY <1>1, <1>2 DEF HeadParts, RouteInv, TreePass, index, jobQueue
<1>4. StampInv'
  <2>1. \A b \in Branches : rows[b] # None => rows[b].sha \in Commits /\ rows[b].sha \in Nat
    BY CommitsAre DEF TypeInv, IndexTypes
  <2>2. phase = "startup" /\ at # "metadata" =>
           \A b \in Branches : rows[b] # None => rows[b].sha <= tips'[b]
    BY <1>1, <2>1 DEF HeadParts, StampInv
  <2>3. ASSUME at # "metadata", served \in Branches \ lost, phase = "startup" \/ head' = served,
               rows[served].sha = tips'[served]
        PROVE  gitHead = tips'[served]
    <3>1. rows[served] # None
      BY <2>3 DEF IndexInv, RowNames
    <3>2. phase = "startup" \/ phase = "serving"
      BY DEF TypeInv, RunnerTypes
    <3>3. served # NonGit
      BY <2>3, NamesDiffer
    <3>4. phase = "startup" \/ head = served
      BY <1>1, <2>3, <3>2, <3>3 DEF HeadParts, RouteInv
    <3>5. tips'[served] = tips[served]
      <4>1. CASE phase = "startup"
        <5>1. rows[served].sha <= tips[served]
          BY <2>3, <3>1, <4>1 DEF HeadParts, StampInv
        <5> QED  BY <1>1, <2>1, <2>3, <3>1, <5>1
      <4>2. CASE head = served
        BY <1>1, <2>1, <2>3, <3>1, <4>2
      <4> QED  BY <3>4, <4>1, <4>2
    <3> QED  BY <2>3, <3>4, <3>5 DEF HeadParts, StampInv
  <2> QED  BY <1>1, <2>2, <2>3 DEF StampInv, index
<1>5. ReadInv'
  <2>1. CASE head' = head
    BY <1>1, <1>2, <2>1 DEF HeadParts, ReadInv, TreePass, jobQueue
  <2>2. CASE head' # head
    BY <1>1, <1>2, <2>2 DEF HeadParts, RouteInv, ReadInv, TreePass, jobQueue
  <2> QED  BY <2>1, <2>2
<1>6. HeadInv'
  BY <1>1, <1>2 DEF HeadParts, HeadInv, ServesHead, Going, index, jobQueue
<1> QED  BY <1>3, <1>4, <1>5, <1>6 DEF HeadParts

\* So do the watchers': they carry a request one place on.
LEMMA WatchersHead == ASSUME Sound, RefWatcher \/ FileCallback PROVE HeadParts'
<1> USE DEF Sound
<1>1. /\ UNCHANGED <<head, tips, phase, at, draft, index, lost>> /\ pass' = pass
  BY WatchersMove DEF repository
<1>2. Coming(head) => Coming(head)'
  <2>1. PICK b \in Branches : head = b
    BY DEF TypeInv, RepositoryTypes
  <2>2. Coming(b) => Coming(b)'
    BY <2>1, WatchersComing
  <2>3. (Coming(head) <=> Coming(b)) /\ (Coming(head)' <=> Coming(b)')
    BY <1>1, <2>1 DEF Coming, Ahead
  <2> QED  BY <2>2, <2>3
<1>3. RouteInv' /\ StampInv'
  BY <1>1, <1>2 DEF HeadParts, RouteInv, StampInv, TreePass, index
<1>4. ReadInv' /\ HeadInv'
  BY <1>1, <1>2 DEF HeadParts, ReadInv, TreePass, HeadInv, ServesHead, Going, index
<1> QED  BY <1>3, <1>4 DEF HeadParts

\* A pass that begins takes the requests of its branch, with the head they ask for.
LEMMA BeginHead == ASSUME Sound, Begin PROVE HeadParts'
<1> USE DEF Sound
<1>1. /\ UNCHANGED <<head, tips, draft, index, lost, phase>> /\ phase = "serving"
      /\ at = "idle" /\ at' = "route"
      /\ \A b : Ahead(b)' <=> Ahead(b)
  BY RunnerMoves DEF Begin, Pass, outside, repository
<1>2. PICK k \in Branches : Queue!Begin(k)
  BY DEF Begin
<1>3. /\ pass'.key = k /\ pass'.refHead = Queue!HeadAsked(outstanding[k])
      /\ outstanding[k] # {}
      /\ \A b \in Branches : b # k => outstanding'[b] = outstanding[b]
  BY <1>2 DEF Queue!Begin, TypeInv, QueueTypes
<1>4. RouteInv' /\ StampInv' /\ ReadInv'
  BY <1>1 DEF HeadParts, RouteInv, StampInv, ReadInv, TreePass, index
<1>5. HeadInv'
  <2>0. head \in Branches
    BY DEF TypeInv, RepositoryTypes
  <2>1. Ahead(head)' <=> Ahead(head)
    BY <1>1 DEF Ahead
  <2>2. CASE k = head
    <3>1. Ahead(head) \/ pass'.refHead \in {None, tips[head]}
      BY <1>3, <2>2 DEF AskedInv
    <3> QED  BY <1>1, <1>3, <2>1, <2>2, <3>1 DEF HeadInv, Going, Coming
  <2>3. CASE k # head
    <3>1. Coming(head)' <=> Coming(head)
      BY <1>1, <1>3, <2>0, <2>1, <2>3 DEF Coming
    <3>2. ~Going
      BY <1>1 DEF Going
    <3> QED  BY <1>1, <3>1, <3>2 DEF HeadParts, HeadInv, ServesHead, index
  <2> QED  BY <2>2, <2>3
<1> QED  BY <1>4, <1>5 DEF HeadParts

\* A pass that goes on changes nothing on the way to the queue.
LEMMA PassEnvironment ==
    ASSUME TypeInv, BaseInv, Pass \/ ReadFails \/ Fail, UNCHANGED outstanding
    PROVE  UNCHANGED <<head, tips>> /\ (Coming(head)' <=> Coming(head))
<1>1. UNCHANGED <<head, tips, refWatcher>>
  BY RunnerMoves
<1> QED  BY <1>1 DEF Coming, Ahead, refWatcher

\* A dropped pass was of a HEAD that is served; a routed one goes on.
LEMMA RouteHead == ASSUME Sound, Route \/ Check PROVE HeadParts'
<1> USE DEF Sound
<1>1. /\ UNCHANGED <<outstanding, index, lost>>
      /\ phase = "serving" /\ phase' = "serving"
  BY DEF Route, Check, StepTo, EndPass, Queue!End, jobQueue, TypeInv, RunnerTypes
<1>2. UNCHANGED <<head, tips>> /\ (Coming(head)' <=> Coming(head))
  BY <1>1, PassEnvironment DEF Pass
<1>3. StampInv'
  <2>1. at # "metadata" /\ at' # "metadata"
    BY DEF Route, Check, StepTo, EndPass
  <2> QED  BY <1>1, <1>2, <2>1 DEF HeadParts, StampInv, index
<1>4. CASE Route
  <2>1. CASE pass.key = head /\ StepTo("check")
    BY <1>1, <1>2, <1>3, <1>4, <2>1
    DEF Route, StepTo, HeadParts, RouteInv, ReadInv, HeadInv, ServesHead, Going, TreePass, index,
        jobQueue
  <2>2. CASE pass.key # head /\ StepTo("refs")
    BY <1>1, <1>2, <1>3, <1>4, <2>2
    DEF Route, StepTo, HeadParts, RouteInv, ReadInv, HeadInv, ServesHead, Going, TreePass, index,
        jobQueue
  <2>3. CASE pass.key # head /\ EndPass
    BY <1>1, <1>2, <1>3, <1>4, <2>3
    DEF Route, EndPass, HeadParts, RouteInv, ReadInv, HeadInv, ServesHead, Going, TreePass, index
  <2> QED  BY <1>4, <2>1, <2>2, <2>3 DEF Route
<1>5. CASE Check
  <2>1. CASE AlreadyServed /\ EndPass
    <3>1. Going /\ head \notin lost => ServesHead
      <4>1. pass.key \in Branches
        BY <1>1, <1>5 DEF Check, TypeInv, RunnerTypes
      <4> QED  BY <1>1, <1>5, <2>1, <4>1
               DEF Check, AlreadyServed, Going, ServesHead, HeadParts, StampInv
    <3> QED  BY <1>1, <1>2, <1>3, <1>5, <2>1, <3>1
             DEF Check, EndPass, HeadParts, RouteInv, ReadInv, HeadInv, ServesHead, TreePass, index
  <2>2. CASE StepTo("extract")
    BY <1>1, <1>2, <1>3, <1>5, <2>2
    DEF Check, StepTo, HeadParts, RouteInv, ReadInv, HeadInv, ServesHead, Going, TreePass, index,
        jobQueue
  <2> QED  BY <1>5, <2>1, <2>2 DEF Check
<1> QED  BY <1>4, <1>5

\* A working-tree pass reads HEAD and its tip as they are.
LEMMA ReadsHead == ASSUME Sound, Extract \/ ReadName \/ ReadSha PROVE HeadParts'
<1> USE DEF Sound
<1>1. UNCHANGED <<outstanding, pass, phase, index, lost>> /\ draft \in Drafts
  BY DEF Extract, ReadName, ReadSha, StepTo, jobQueue, TypeInv, RunnerTypes
<1>2. UNCHANGED <<head, tips>> /\ (Coming(head)' <=> Coming(head))
  BY <1>1, PassEnvironment DEF Pass
<1>3. StampInv'
  <2>1. at # "metadata" /\ at' # "metadata"
    BY DEF Extract, ReadName, ReadSha, StepTo
  <2> QED  BY <1>1, <1>2, <2>1 DEF HeadParts, StampInv, index
<1>4. CASE Extract
  BY <1>1, <1>2, <1>3, <1>4
  DEF Extract, StepTo, HeadParts, RouteInv, ReadInv, HeadInv, ServesHead, Going, TreePass, index
<1>5. CASE ReadName
  <2>1. draft'.name = head
    BY <1>1, <1>5 DEF ReadName, Drafts
  <2> QED  BY <1>1, <1>2, <1>3, <1>5, <2>1
           DEF ReadName, StepTo, HeadParts, RouteInv, ReadInv, HeadInv, ServesHead, Going,
               TreePass, index
<1>6. CASE ReadSha
  <2>1. draft'.name = draft.name /\ draft'.sha = tips[head]
    BY <1>1, <1>6 DEF ReadSha, Drafts
  <2> QED  BY <1>1, <1>2, <1>3, <1>6, <2>1
           DEF ReadSha, StepTo, HeadParts, RouteInv, ReadInv, HeadInv, TreePass, index
<1> QED  BY <1>4, <1>5, <1>6

\* A pass that writes serves what it read.
LEMMA WriteHead == ASSUME Sound, IndexInv', Write PROVE HeadParts'
<1> USE DEF Sound
<1>1. /\ UNCHANGED <<outstanding, pass, phase, draft>>
      /\ at = "write" /\ at' = "metadata" /\ lost' = lost \ {draft.name}
  BY DEF Write, StepTo, jobQueue
<1>2. UNCHANGED <<head, tips>> /\ (Coming(head)' <=> Coming(head))
  BY <1>1, PassEnvironment DEF Pass
<1>3. served' = draft.name
  BY <1>1 DEF IndexInv, PassServesWhatItRead
<1>4. RouteInv'
  BY <1>1, <1>2, <1>3 DEF HeadParts, RouteInv, TreePass
<1>5. head # NonGit
  BY NamesDiffer DEF TypeInv, RepositoryTypes
<1>6. ReadInv'
  BY <1>1, <1>2, <1>5 DEF HeadParts, ReadInv, TreePass
<1> QED  BY <1>1, <1>4, <1>6 DEF HeadParts, StampInv, HeadInv

\* A pass that ends has the stamp of HEAD's tip.
LEMMA MetadataHead == ASSUME Sound, StampMetadata PROVE HeadParts'
<1> USE DEF Sound
<1>1. /\ UNCHANGED <<outstanding, rows, served, lost>> /\ gitHead' = tips[head]
      /\ at = "metadata" /\ at' = "idle" /\ phase' = "serving"
  BY DEF StampMetadata, EndPass, Queue!End, jobQueue
<1>2. UNCHANGED <<head, tips>> /\ (Coming(head)' <=> Coming(head))
  BY <1>1, PassEnvironment DEF Pass
<1>3. served = draft.name /\ rows[served] = Row(draft.content, draft.sha, TRUE)
  BY <1>1 DEF IndexInv, PassServesWhatItRead
<1>4. rows[served].sha = draft.sha
  BY <1>3 DEF Row
<1>5. RouteInv'
  BY <1>1, <1>2, <1>3 DEF HeadParts, RouteInv, TreePass
<1>6. StampInv' /\ ReadInv'
  BY <1>1, <1>2 DEF StampInv, ReadInv, TreePass
<1>7. HeadInv'
  <2>1. CASE phase = "startup"
    <3>1. Coming(head)
      BY <2>1 DEF BaseInv, WatchInv, Coming, Ahead
    <3> QED  BY <1>2, <3>1 DEF HeadInv
  <2>2. CASE phase = "serving"
    <3>1. head \notin lost => Coming(head) \/ (draft.name = head /\ draft.sha = tips[head])
      BY <1>1, <2>2 DEF HeadParts, ReadInv, TreePass
    <3> QED  BY <1>1, <1>2, <1>3, <1>4, <3>1 DEF HeadInv, ServesHead
  <2> QED  BY <2>1, <2>2 DEF TypeInv, RunnerTypes
<1> QED  BY <1>5, <1>6, <1>7 DEF HeadParts

\* A git-objects pass is not HEAD's, or has a request behind it, and leaves the served row.
LEMMA BranchHead == ASSUME Sound, ReadBranch \/ WriteBranch PROVE HeadParts'
<1> USE DEF Sound
<1>1. /\ UNCHANGED <<outstanding, served, gitHead>>
      /\ phase = "serving" /\ phase' = "serving"
      /\ at \in {"refs", "objects"} /\ at' \in {"objects", "idle"}
      /\ at' = "objects" => pass.key # head /\ pass' = pass
  BY DEF ReadBranch, WriteBranch, StepTo, EndPass, Queue!End, jobQueue, index, Skipped, TypeInv,
         RunnerTypes
<1>2. UNCHANGED <<head, tips>> /\ (Coming(head)' <=> Coming(head))
  BY <1>1, PassEnvironment DEF Pass
<1>3. ~Going
  BY <1>1 DEF Going
<1>4. RouteInv' /\ ReadInv'
  BY <1>1, <1>2 DEF HeadParts, RouteInv, ReadInv, TreePass
<1>5. CASE ReadBranch
  <2>1. UNCHANGED <<rows, lost>>
    BY <1>5 DEF ReadBranch, index
  <2> QED  BY <1>1, <1>2, <1>3, <1>4, <2>1 DEF HeadParts, StampInv, HeadInv, ServesHead
<1>6. CASE WriteBranch
  <2>1. /\ \A b \in RowNames \ {pass.key} : rows'[b] = rows[b]
        /\ lost' = lost \ {pass.key}
        /\ pass.key # served /\ pass.key \in Branches
        /\ pass.key = head => Coming(head)
    BY <1>1, <1>6 DEF WriteBranch, TypeInv, IndexTypes, RunnerTypes, IndexInv, HeadParts,
           RouteInv
  <2>2. Branches \subseteq RowNames /\ head \in Branches
    BY DEF RowNames, TypeInv, RepositoryTypes
  <2>3. StampInv' /\ HeadInv'
    BY <1>1, <1>2, <1>3, <2>1, <2>2 DEF HeadParts, StampInv, HeadInv, ServesHead
  <2> QED  BY <1>4, <2>3 DEF HeadParts
<1> QED  BY <1>5, <1>6

\* A pass that fails is recorded as lost.
LEMMA FailHead == ASSUME Sound, ReadFails \/ Fail PROVE HeadParts'
<1> USE DEF Sound
<1>1. UNCHANGED <<outstanding, index>> /\ lost \subseteq lost'
  BY DEF ReadFails, Fail, StepTo, EndPass, Queue!End, jobQueue
<1>2. UNCHANGED <<head, tips>> /\ (Coming(head)' <=> Coming(head))
  BY <1>1, PassEnvironment
<1>3. CASE ReadFails
  <2>1. /\ draft'.name = NonGit /\ at \in {"name", "sha"} /\ at' = "write"
        /\ UNCHANGED <<phase, pass>>
        /\ phase = "serving" => pass.key \in lost'
    BY <1>3 DEF ReadFails, StepTo, jobQueue, TypeInv, RunnerTypes, Drafts
  <2>2. head # NonGit
    BY NamesDiffer DEF TypeInv, RepositoryTypes
  <2> QED  BY <1>1, <1>2, <2>1, <2>2
           DEF HeadParts, RouteInv, StampInv, ReadInv, HeadInv, TreePass, index
<1>4. CASE Fail
  <2>1. /\ phase = "serving" /\ phase' = "serving" /\ at # "idle" /\ at' = "idle"
        /\ pass.key \in Branches /\ pass.key \in lost'
        /\ draft.name # None => draft.name \in lost'
    BY <1>4, NamesDiffer DEF Fail, EndPass, TypeInv, RunnerTypes
  <2>2. RouteInv' /\ ReadInv'
    BY <1>1, <1>2, <2>1 DEF HeadParts, RouteInv, ReadInv, TreePass, index
  <2>3. StampInv'
    <3>1. ASSUME served \in Branches \ lost' PROVE at # "metadata"
      BY <2>1, <3>1, NamesDiffer DEF IndexInv, PassServesWhatItRead
    <3> QED  BY <1>1, <1>2, <2>1, <3>1 DEF HeadParts, StampInv, index
  <2>4. HeadInv'
    <3>1. head \notin lost' => pass.key # head /\ ~Going
      BY <2>1 DEF Going
    <3>2. at \in {"write", "metadata"} /\ pass.key # head => Coming(head)
      BY <2>1 DEF HeadParts, ReadInv, TreePass
    <3> QED  BY <1>1, <1>2, <2>1, <3>1, <3>2 DEF HeadParts, HeadInv, ServesHead, index
  <2> QED  BY <2>2, <2>3, <2>4 DEF HeadParts
<1> QED  BY <1>3, <1>4

\* A loop that starts has a stamp of the tip it serves, and has asked for nothing.
LEMMA InitHead ==
    ASSUME Init
    PROVE  QueueNumbers /\ AskedInv /\ HeadParts
<1>1. /\ \A k \in Branches : outstanding[k] = {}
      /\ phase = "startup" /\ at = "extract" /\ head = Main
  BY DEF Init, Queue!Init
<1>2. QueueNumbers /\ AskedInv
  BY <1>1, FS_EmptySet, RefreshAssumption DEF QueueNumbers, AskedInv
<1>3. RouteInv /\ ReadInv /\ HeadInv
  BY <1>1 DEF RouteInv, ReadInv, HeadInv, TreePass
<1>4. StampInv
  <2>1. PICK b \in Branches \cup {None} : \E others \in SUBSET (Branches \ {b}) :
           /\ served = b
           /\ rows = [c \in RowNames |-> IF c = b THEN TipRow(c, TRUE)
                                         ELSE IF c \in others THEN TipRow(c, FALSE) ELSE None]
           /\ gitHead = (IF b = None THEN None ELSE tips[b])
    BY DEF Init, InitIndex
  <2>2. \A c \in Branches : tips[c] \in Nat
    BY DEF Init
  <2>3. \A c \in Branches : \A w \in BOOLEAN : TipRow(c, w).sha = tips[c]
    BY DEF TipRow, Row
  <2>4. \A c \in Branches : rows[c] # None => rows[c].sha = tips[c]
    BY <2>1, <2>3 DEF RowNames
  <2>5. served \in Branches => gitHead = tips[served]
    BY <2>1, RefreshAssumption
  <2> QED  BY <2>2, <2>4, <2>5 DEF StampInv
<1> QED  BY <1>2, <1>3, <1>4 DEF HeadParts

\* Every step keeps it.
LEMMA NextHead ==
    ASSUME Sound, IndexInv', [Next]_vars
    PROVE  QueueNumbers' /\ AskedInv' /\ HeadParts'
<1>1. CASE UNCHANGED vars
  BY <1>1 DEF Sound, vars, repository, refWatcher, jobQueue, index, QueueNumbers, AskedInv,
         Ahead,
              Coming, HeadParts, RouteInv, StampInv, ReadInv, HeadInv, ServesHead, Going, TreePass
<1>2. CASE Next
  <2>1. QueueNumbers' /\ AskedInv'
    BY <1>2, WatchersAsk, OthersAsk DEF Next, Sound
  <2>2. HeadParts'
    BY <1>2, UserHead, WatchersHead, BeginHead, RouteHead, ReadsHead, WriteHead, MetadataHead,
       BranchHead, FailHead DEF Next, Pass
  <2> QED  BY <2>1, <2>2
<1> QED  BY <1>1, <1>2

\* HeadServed: once the loop rests, the served row names the checked-out branch at its
\* head and the freshness stamp agrees, if HEAD leaves Main at most once: a second
\* checkout, back to the branch a pass began with, can leave the other one served.
THEOREM HeadServed ==
    ASSUME \A s \in Setups : s.bounds.checkouts <= 1
    PROVE  Spec => []HeadIsServed
<1>1. Init => Sound
  <2>1. ASSUME Init PROVE setup.bounds.checkouts <= 1
    BY <2>1 DEF Init
  <2> QED  BY <2>1, InitTypes, InitIndexInv, InitBase, InitHead DEF Sound
<1>2. Sound /\ [Next]_vars => Sound'
  BY NextTypes, NextIndexInv, NextBase, NextHead DEF Sound
<1>3. Sound => HeadIsServed
  <2> SUFFICES ASSUME Sound, AtRest, head \notin lost PROVE ServesHead
    BY DEF HeadIsServed
  <2>1. head \in Branches
    BY DEF Sound, TypeInv, RepositoryTypes
  <2>2. ~Coming(head) /\ ~Going
    BY <2>1, AtRestIs DEF Sound, AtRest, Coming, Ahead, Going
  <2> QED  BY <2>2 DEF AtRest, Sound, HeadParts, HeadInv
<1> QED  BY <1>1, <1>2, <1>3, PTL DEF Spec

-----------------------------------------------------------------------------
(* The working tree. *)

\* Under --watch nothing moves before the observer runs, HEAD leaves Main at most once,
\* and one of the four ways to move the repository stays unused: with all of them a
\* branch can be fast-forwarded to a saved and committed tree and be checked out, with
\* no file changed, between a pass's reading of the files and of HEAD.
FilesTell ==
    \A s \in Setups : s.watch =>
        /\ s.moves = {} /\ s.bounds.checkouts <= 1
        /\ 0 \in {s.bounds.saves, s.bounds.commits, s.bounds.advances, s.bounds.checkouts}

\* A save, or a checkout that changed the tree, has a request on its way that must run.
FileAsked ==
    \/ edited
    \/ keyRead = head
    \/ \E r \in outstanding[head] : r.refHead = None

\* The tree and all that is read of it and served are what the loop started from.
Untouched ==
    /\ tree = 1
    /\ at \in {"name", "sha", "write", "metadata"} => draft.content = 1
    /\ phase = "serving" => ServesTree

\* The running pass is HEAD's and will read the tree.
Reading ==
    /\ pass.key = head
    /\ \/ at \in {"route", "check"} /\ pass.refHead = None
       \/ at \in {"extract", "name", "sha", "write"}

\* What the user has left to do, and where another branch may stand: a branch whose
\* tree is a saved one would be checked out without a changed file.
SpentInv ==
    /\ \A what \in DOMAIN budget : budget[what] <= setup.bounds[what]
    /\ setup.bounds.commits = 0 => contentOf = <<1, 2>>
    /\ setup.bounds.checkouts # 0 /\ setup.bounds.saves # 0 /\ head = Main =>
          \A b \in Branches \ {Main} : contentOf[tips[b]] <= 2

TreeInv ==
    /\ phase = "startup" => head = Main /\ moving = None /\ Untouched
    /\ head = Main /\ moving = None => Untouched \/ (tree >= 3 /\ setup.bounds.saves # 0)
    /\ moving # None => edited \/ Untouched

\* What a pass has read of the tree is the tree, or a request is on its way; so is
\* what is served, unless the pass that runs will read it.
EditInv ==
    /\ phase = "serving" => served # None
    /\ at \in {"name", "sha", "write"} /\ draft.content # tree => FileAsked
    /\ at \in {"refs", "objects"} /\ pass.key = head => FileAsked \/ Untouched
    /\ phase = "serving" /\ head \notin lost => ServesTree \/ FileAsked \/ Reading

EditParts == SpentInv /\ TreeInv /\ EditInv

\* What a step starts from.
Watched ==
    /\ FilesTell /\ setup.watch
    /\ TypeInv /\ IndexInv /\ BaseInv /\ EditParts

\* The user spends, and a branch not checked out stays where no save is.
LEMMA UserSpends == ASSUME Watched, User PROVE SpentInv'
<1> USE DEF Watched, EditParts
<1> DEFINE W == {"saves", "commits", "checkouts", "advances", "failures", "hiccups"}
<1>0. /\ budget \in [W -> Nat] /\ budget' \in [W -> Nat] /\ setup \in Setups
      /\ setup.bounds \in [W -> Nat] /\ setup' = setup
      /\ head \in Branches /\ Main \in Branches
      /\ \A b \in Branches : tips[b] \in Commits /\ DOMAIN tips = Branches
  BY UserTypes, UserMoves, RefreshAssumption DEF TypeInv, RepositoryTypes
<1>1. \A what \in W : budget'[what] <= budget[what]
  <2>1. ASSUME NEW w \in W, Spend(w) PROVE \A what \in W : budget'[what] <= budget[what]
    BY <1>0, <2>1 DEF Spend
  <2>2. budget' = budget \/ \E w \in W : Spend(w)
    BY DEF User, Save, Commit, Checkout, CheckoutEnds, Advance
  <2> HIDE DEF W
  <2> QED  BY <1>0, <2>1, <2>2
<1>2. \A what \in W : budget'[what] <= setup.bounds[what]
  BY <1>0, <1>1 DEF SpentInv
<1>3. \A what \in W : setup.bounds[what] = 0 => ~Spend(what)
  BY <1>0 DEF SpentInv, Spend
<1>4. setup.bounds.commits = 0 => contentOf' = <<1, 2>>
  BY <1>3 DEF SpentInv, User, Save, Commit, Checkout, CheckoutEnds, Advance
<1>5. ASSUME setup.bounds.checkouts # 0, setup.bounds.saves # 0, head' = Main,
             NEW b \in Branches \ {Main}
      PROVE  contentOf'[tips'[b]] <= 2
  <2>1. head = Main
    BY <1>5, UserMoves
  <2>2. contentOf[tips[b]] <= 2
    BY <1>5, <2>1 DEF SpentInv
  <2>3. CASE Commit
    <3>1. tips'[b] = tips[b]
      BY <1>0, <1>5, <2>1, <2>3 DEF Commit
    <3>2. contentOf'[tips[b]] = contentOf[tips[b]]
      BY <1>0, <2>3, CommitsGrow DEF Commit, TypeInv, RepositoryTypes
    <3> QED  BY <2>2, <3>1, <3>2
  <2>4. CASE UNCHANGED contentOf /\ ~UNCHANGED tips
    <3>1. setup.bounds.advances # 0
      BY <1>3, <2>4 DEF User, Save, Commit, Checkout, CheckoutEnds, Advance
    <3>2. contentOf' = <<1, 2>>
      BY <1>0, <1>4, <1>5, <3>1 DEF FilesTell
    <3>3. tips'[b] \in 1 .. 2
      BY <1>5, <3>2, UserTypes DEF TypeInv, RepositoryTypes, Commits, CommitsOf
    <3> QED  BY <3>2, <3>3
  <2>5. CASE UNCHANGED <<contentOf, tips>>
    BY <2>2, <2>5
  <2> QED  BY <2>3, <2>4, <2>5 DEF User, Save, Checkout, CheckoutEnds, Advance
<1> QED  BY <1>0, <1>2, <1>4, <1>5 DEF SpentInv

\* The user's steps keep it: a file that changes has a request on its way.
LEMMA UserEdits == ASSUME Watched, User PROVE EditParts'
<1> USE DEF Watched, EditParts
<1>1. /\ UNCHANGED <<jobQueue, phase, at, draft, index, lost>> /\ keyRead' = keyRead
      /\ head' # head => head = Main /\ head' # Main /\ moving # None
      /\ phase \in {"startup", "serving"} /\ tree \in Int
  <2>1. keyRead' = keyRead
    BY DEF User, Save, Commit, Checkout, CheckoutEnds, Advance, fileWatcher
  <2> QED  BY <2>1, UserMoves DEF TypeInv, RunnerTypes, RepositoryTypes
<1>2. /\ edited => edited'
      /\ tree' # tree => edited' /\ phase = "serving"
  <2>1. setup.moves = {}
    BY DEF FilesTell, TypeInv, RepositoryTypes
  <2>2. CASE UNCHANGED <<tree, fileWatcher>>
    BY <2>2 DEF fileWatcher
  <2>3. ASSUME EditsAllowed, NEW c \in Int, TreeBecomes(c)
        PROVE  (edited => edited') /\ (tree' # tree => edited' /\ phase = "serving")
    BY <2>1, <2>3 DEF EditsAllowed, TreeBecomes
  <2>4. CASE Save
    <3>1. 3 + setup.bounds.saves - budget.saves \in Int
      BY RefreshAssumption DEF TypeInv, RepositoryTypes
    <3> QED  BY <2>3, <2>4, <3>1 DEF Save
  <2>5. ASSUME NEW b \in Branches, Checkout(b)
        PROVE  (edited => edited') /\ (tree' # tree => edited' /\ phase = "serving")
    <3>1. contentOf[tips[b]] \in Int
      BY CommitsAre DEF TypeInv
    <3> QED  BY <2>3, <2>5, <3>1 DEF Checkout
  <2> QED  BY <2>2, <2>4, <2>5 DEF User, Commit, CheckoutEnds, Advance
<1>3. /\ edited' => FileAsked'
      /\ FileAsked /\ head' = head => FileAsked'
  BY <1>1, <1>2 DEF FileAsked, jobQueue
<1>4. /\ Untouched /\ tree' = tree => Untouched'
      /\ ServesTree /\ tree' = tree => ServesTree'
  BY <1>1 DEF Untouched, ServesTree, index
<1>5. head' # head => FileAsked' \/ (Untouched /\ tree' = tree)
  <2>1. head' # head => edited \/ Untouched
    BY <1>1 DEF TreeInv
  <2> QED  BY <1>2, <1>3, <2>1
<1>6. TreeInv'
  <2>1. phase = "startup" => head' = Main /\ moving' = None /\ Untouched'
    <3>1. phase = "startup" => moving' = None
      BY UserMoves DEF TreeInv, FilesTell, TypeInv, RepositoryTypes
    <3> QED  BY <1>1, <1>2, <1>4, <3>1 DEF TreeInv
  <2>2. ASSUME head' = Main, moving' = None
        PROVE  Untouched' \/ (tree' >= 3 /\ setup.bounds.saves # 0)
    <3>1. head = Main /\ moving = None
      BY <1>1, <2>2, RefreshAssumption DEF BaseInv, CheckoutInv, User, Save, Commit, Checkout,
         CheckoutEnds, Advance
    <3>2. CASE Save
      <4>1. budget.saves \in Nat /\ setup.bounds.saves \in Nat
            /\ budget.saves <= setup.bounds.saves /\ budget.saves > 0
        BY <3>2, RefreshAssumption DEF Save, Spend, SpentInv, TypeInv, RepositoryTypes
      <4> QED  BY <3>2, <4>1 DEF Save, TreeBecomes
    <3>3. CASE ~Save
      <4>1. tree' = tree
        BY <2>2, <3>1, <3>3, RefreshAssumption
        DEF User, Commit, Checkout, CheckoutEnds, Advance
      <4> QED  BY <1>4, <3>1, <4>1 DEF TreeInv
    <3> QED  BY <3>2, <3>3
  <2>3. ASSUME moving' # None PROVE edited' \/ Untouched'
    <3>1. CASE moving # None
      BY <1>2, <1>4, <3>1 DEF TreeInv
    <3>2. CASE moving = None
      <4>1. PICK b \in Branches : Checkout(b)
        BY <2>3, <3>2 DEF User, Save, Commit, CheckoutEnds, Advance
      <4>2. b # Main /\ head = Main /\ tree' = contentOf[tips[b]]
        BY <4>1 DEF Checkout, TreeBecomes, Spend, BaseInv, CheckoutInv
      <4>3. setup.bounds.checkouts # 0
        BY <4>1, RefreshAssumption DEF Checkout, Spend, SpentInv, TypeInv, RepositoryTypes
      <4>4. setup.bounds.saves # 0 => tree' <= 2
        BY <4>2, <4>3 DEF SpentInv
      <4>5. tree' = tree => Untouched
        BY <1>1, <3>2, <4>2, <4>4 DEF TreeInv
      <4> QED  BY <1>2, <1>4, <4>5
    <3> QED  BY <3>1, <3>2
  <2>4. setup' = setup
    BY UserMoves
  <2> QED  BY <1>1, <2>1, <2>2, <2>3, <2>4 DEF TreeInv
<1>7. EditInv'
  <2>1. at \in {"name", "sha", "write"} /\ draft.content # tree' => FileAsked'
    BY <1>2, <1>3, <1>5 DEF EditInv, Untouched
  <2>2. at \in {"refs", "objects"} /\ pass.key = head' => FileAsked' \/ Untouched'
    BY <1>2, <1>3, <1>4, <1>5 DEF EditInv
  <2>3. ASSUME phase = "serving", head' \notin lost PROVE ServesTree' \/ FileAsked' \/ Reading'
    <3>1. CASE head' # head
      BY <1>4, <1>5, <2>3, <3>1 DEF Untouched
    <3>2. CASE head' = head
      <4>1. Reading => Reading'
        BY <1>1, <3>2 DEF Reading, jobQueue
      <4> QED  BY <1>2, <1>3, <1>4, <2>3, <3>2, <4>1 DEF EditInv
    <3> QED  BY <3>1, <3>2
  <2> QED  BY <1>1, <2>1, <2>2, <2>3 DEF EditInv, jobQueue, index
<1> QED  BY <1>6, <1>7, UserSpends

\* What no step but the user's moves stays.
LEMMA TreeStays ==
    ASSUME Watched, UNCHANGED <<repository, phase>>,
           TypeInv', \A what \in DOMAIN budget : budget'[what] <= budget[what],
           Untouched => Untouched', edited /\ moving # None => edited'
    PROVE  SpentInv' /\ TreeInv'
<1> USE DEF Watched, EditParts
<1>1. SpentInv'
  <2> DEFINE W == {"saves", "commits", "checkouts", "advances", "failures", "hiccups"}
  <2>1. /\ budget \in [W -> Nat] /\ budget' \in [W -> Nat] /\ setup.bounds \in [W -> Nat]
        /\ UNCHANGED <<setup, contentOf, tips, head>>
    BY RefreshAssumption DEF TypeInv, RepositoryTypes, repository
  <2> HIDE DEF W
  <2>2. \A what \in W : budget'[what] <= setup.bounds[what]
    BY <2>1 DEF SpentInv
  <2> QED  BY <2>1, <2>2 DEF SpentInv
<1>2. TreeInv'
  BY DEF TreeInv, repository
<1> QED  BY <1>1, <1>2

\* The watchers keep it: they carry a save one place on.
LEMMA WatchersEdits == ASSUME Watched, RefWatcher \/ FileCallback PROVE EditParts'
<1> USE DEF Watched, EditParts
<1>1. /\ UNCHANGED <<repository, budget, phase, at, draft, index, lost>> /\ pass' = pass
      /\ head \in Branches /\ head' = head /\ tree' = tree
  BY WatchersMove DEF TypeInv, RepositoryTypes, repository
<1>2. /\ Untouched => Untouched'
      /\ ServesTree => ServesTree'
      /\ Reading => Reading'
  BY <1>1 DEF Untouched, ServesTree, Reading, index
<1>3. ASSUME NEW job, job.key \in Branches, Submit(job)
      PROVE  /\ \A r \in outstanding[head] : r \in outstanding'[head]
             /\ job.key = head /\ job.refHead = None =>
                   \E r \in outstanding'[head] : r.refHead = None
  <2>1. PICK r : /\ r.refHead = job.refHead
                 /\ outstanding' = [outstanding EXCEPT ![job.key] = @ \cup {r}]
    BY <1>3 DEF Submit, Queue!Ask
  <2>2. \A b \in Branches : outstanding'[b] = IF b = job.key THEN outstanding[b] \cup {r}
                                               ELSE outstanding[b]
    BY <1>3, <2>1 DEF TypeInv, QueueTypes
  <2> QED  BY <1>1, <2>1, <2>2
<1>4. FileAsked => FileAsked'
  <2>1. CASE ReadHead \/ ReadRefs \/ Deliver
    <3>1. UNCHANGED <<edited, keyRead, outstanding>>
      BY <2>1 DEF ReadHead, ReadRefs, Deliver, fileWatcher, jobQueue
    <3> QED  BY <1>1, <3>1 DEF FileAsked
  <2>2. CASE SubmitRefJob
    <3>1. Head(jobs) \in Jobs /\ Submit(Head(jobs)) /\ UNCHANGED <<edited, keyRead>>
      BY <2>2 DEF SubmitRefJob, TypeInv, WatcherTypes, fileWatcher
    <3>2. \A r \in outstanding[head] : r \in outstanding'[head]
      BY <1>3, <3>1 DEF Jobs
    <3> QED  BY <1>1, <3>1, <3>2 DEF FileAsked
  <2>3. CASE ReadKey
    <3>1. keyRead = None /\ keyRead' = head /\ outstanding' = outstanding
      BY <2>3 DEF ReadKey, jobQueue
    <3> QED  BY <1>1, <3>1 DEF FileAsked
  <2>4. CASE SubmitFileJob
    <3> DEFINE job == [key |-> keyRead, refHead |-> None, priority |-> 0]
    <3>1. keyRead \in Branches /\ Submit(job) /\ edited' = edited
      BY <2>4 DEF SubmitFileJob, TypeInv, WatcherTypes
    <3>2. job.key = keyRead /\ job.refHead = None
      OBVIOUS
    <3> HIDE DEF job
    <3>3. /\ \A r \in outstanding[head] : r \in outstanding'[head]
          /\ keyRead = head => \E r \in outstanding'[head] : r.refHead = None
      BY <1>3, <3>1, <3>2
    <3> QED  BY <1>1, <3>1, <3>3 DEF FileAsked
  <2> QED  BY <2>1, <2>2, <2>3, <2>4 DEF RefWatcher, FileCallback
<1>5. edited /\ moving # None => edited'
  BY DEF RefWatcher, FileCallback, ReadHead, ReadRefs, Deliver, SubmitRefJob, ReadKey,
         SubmitFileJob, fileWatcher
<1>6. SpentInv' /\ TreeInv'
  <2>1. \A what \in DOMAIN budget : budget'[what] <= budget[what]
    BY <1>1 DEF TypeInv, RepositoryTypes
  <2> QED  BY <1>1, <1>2, <1>5, <2>1, WatchersTypes, TreeStays
<1>7. EditInv'
  BY <1>1, <1>2, <1>4 DEF EditInv, index
<1> QED  BY <1>6, <1>7

\* A step of a pass that leaves the repository, the watchers and what is asked alone
\* keeps it if what is served, or read, is the tree again.
LEMMA PassKeeps ==
    ASSUME Watched, UNCHANGED <<repository, fileWatcher, outstanding, phase>>,
           TypeInv', \A what \in DOMAIN budget : budget'[what] <= budget[what],
           Untouched => Untouched',
           at' \in {"name", "sha", "write"} =>
              draft'.content = tree
              \/ (at \in {"name", "sha", "write"} /\ draft'.content = draft.content),
           at' \in {"refs", "objects"} =>
              pass' = pass /\ (pass.key # head \/ at \in {"refs", "objects"}),
           phase = "serving" => served' # None,
           phase = "serving" /\ head \notin lost' /\ ~FileAsked => ServesTree' \/ Reading'
    PROVE  EditParts'
<1> USE DEF Watched, EditParts
<1>1. (FileAsked' <=> FileAsked) /\ UNCHANGED <<head, tree, edited>>
  BY DEF FileAsked, fileWatcher, repository
<1>2. SpentInv' /\ TreeInv'
  BY <1>1, TreeStays
<1>3. EditInv'
  BY <1>1 DEF EditInv
<1> QED  BY <1>2, <1>3

\* The steps of a pass of the queue that read or move nothing of the tree.
LEMMA RouteEdits == ASSUME Watched, Route \/ Check \/ ReadBranch \/ WriteBranch PROVE EditParts'
<1> USE DEF Watched, EditParts
<1>1. /\ UNCHANGED <<repository, budget, fileWatcher, outstanding, phase, served>>
      /\ phase = "serving" /\ head' = head /\ tree' = tree
      /\ served # None => rows'[served] = rows[served]
  <2>1. phase = "serving"
    BY DEF Route, Check, ReadBranch, WriteBranch, TypeInv, RunnerTypes
  <2>2. /\ UNCHANGED <<repository, budget, fileWatcher, outstanding, phase, served>>
        /\ UNCHANGED rows \/ WriteBranch
    BY <2>1 DEF Route, Check, ReadBranch, WriteBranch, StepTo, EndPass, Queue!End, jobQueue,
                outside, index
  <2>3. CASE WriteBranch
    <3>1. served # pass.key
      BY <2>3 DEF WriteBranch, IndexInv
    <3>2. served # None => served \in RowNames
      BY DEF TypeInv, IndexTypes
    <3> QED  BY <2>1, <2>2, <2>3, <3>1, <3>2 DEF WriteBranch, TypeInv, IndexTypes, repository
  <2> QED  BY <2>1, <2>2, <2>3 DEF repository
<1>2. /\ served # None
      /\ (ServesTree' <=> ServesTree)
  BY <1>1 DEF EditInv, ServesTree
<1>3. /\ at' \notin {"name", "sha", "write", "metadata"}
      /\ at' \in {"refs", "objects"} => pass' = pass /\ pass.key # head
      /\ UNCHANGED lost \/ (WriteBranch /\ lost' = lost \ {pass.key})
      /\ Reading => Reading'
  BY DEF Route, Check, ReadBranch, WriteBranch, StepTo, EndPass, jobQueue, Skipped,
         AlreadyServed,
         Reading, outside, repository
<1>4. Untouched => Untouched'
  BY <1>1, <1>2, <1>3 DEF Untouched
<1>5. ASSUME head \notin lost', ~FileAsked PROVE ServesTree' \/ Reading'
  <2>1. CASE head \notin lost
    BY <1>1, <1>2, <1>3, <1>5, <2>1 DEF EditInv
  <2>2. CASE head \in lost
    <3>1. at = "objects" /\ pass.key = head
      BY <1>3, <1>5, <2>2 DEF WriteBranch
    <3> QED  BY <1>1, <1>2, <1>5, <3>1 DEF EditInv, Untouched
  <2> QED  BY <2>1, <2>2
<1>6. \A what \in DOMAIN budget : budget'[what] <= budget[what]
  BY <1>1 DEF TypeInv, RepositoryTypes
<1> QED  BY <1>1, <1>2, <1>3, <1>4, <1>5, <1>6, PassTypes, PassKeeps DEF Pass

\* A pass that begins for a save must run.
LEMMA BeginEdits == ASSUME Watched, Begin PROVE EditParts'
<1> USE DEF Watched, EditParts
<1>1. /\ UNCHANGED <<repository, budget, fileWatcher, index, lost, phase, draft>>
      /\ head' = head /\ tree' = tree /\ head \in Branches
      /\ phase = "serving" /\ at = "idle" /\ at' = "route"
  BY DEF Begin, outside, repository, TypeInv, RepositoryTypes
<1>2. PICK k \in Branches : Queue!Begin(k)
  BY DEF Begin
<1>3. /\ pass'.key = k /\ pass'.refHead = Queue!HeadAsked(outstanding[k])
      /\ \A b \in Branches : b # k => outstanding'[b] = outstanding[b]
  BY <1>2 DEF Queue!Begin, TypeInv, QueueTypes
<1>4. FileAsked => FileAsked' \/ Reading'
  <2>1. (\E r \in outstanding[k] : r.refHead = None) => pass'.refHead = None
    BY <1>3 DEF Queue!HeadAsked
  <2> QED  BY <1>1, <1>3, <2>1 DEF FileAsked, Reading, fileWatcher
<1>5. SpentInv' /\ TreeInv'
  <2>1. /\ \A what \in DOMAIN budget : budget'[what] <= budget[what]
        /\ Untouched => Untouched'
        /\ edited' = edited
    BY <1>1 DEF TypeInv, RepositoryTypes, Untouched, ServesTree, index, fileWatcher
  <2> QED  BY <1>1, <2>1, PassTypes, TreeStays DEF Pass
<1>6. EditInv'
  <2>1. (ServesTree' <=> ServesTree) /\ ~Reading
    BY <1>1 DEF ServesTree, Reading, index
  <2> QED  BY <1>1, <1>4, <2>1 DEF EditInv, index
<1> QED  BY <1>5, <1>6

\* A working-tree pass reads the tree; what changes after that has a request behind it.
LEMMA ReadsEdits == ASSUME Watched, Extract \/ ReadName \/ ReadSha \/ ReadFails PROVE EditParts'
<1> USE DEF Watched, EditParts
<1>1. /\ UNCHANGED <<repository, fileWatcher, outstanding, pass, phase, index>>
      /\ head' = head /\ tree' = tree
      /\ lost \subseteq lost'
      /\ at \in {"extract", "name", "sha"} /\ at' \in {"name", "sha", "write"}
      /\ draft'.content = tree \/ (at # "extract" /\ draft'.content = draft.content)
  BY DEF Extract, ReadName, ReadSha, ReadFails, StepTo, jobQueue, outside, repository, TypeInv,
         RunnerTypes, Drafts
<1>2. TypeInv' /\ \A what \in DOMAIN budget : budget'[what] <= budget[what]
  <2>1. TypeInv'
    BY PassTypes, FailuresTypes DEF Pass
  <2>2. budget' = budget \/ Spend("hiccups")
    BY DEF Extract, ReadName, ReadSha, ReadFails, outside
  <2> QED  BY <2>1, <2>2 DEF TypeInv, RepositoryTypes, Spend
<1>3. (ServesTree' <=> ServesTree) /\ (Untouched => Untouched') /\ (Reading => Reading')
  BY <1>1 DEF ServesTree, Untouched, Reading, index
<1>4. served' = served
  BY <1>1 DEF index
<1>5. phase = "serving" /\ head \notin lost' /\ ~FileAsked => ServesTree' \/ Reading'
  BY <1>1, <1>3 DEF EditInv
<1>6. phase = "serving" => served' # None
  BY <1>4 DEF EditInv
<1> QED  BY <1>1, <1>2, <1>3, <1>5, <1>6, PassKeeps

\* It serves what it read.
LEMMA WriteEdits == ASSUME Watched, IndexInv', Write PROVE EditParts'
<1> USE DEF Watched, EditParts
<1>1. /\ UNCHANGED <<repository, budget, fileWatcher, outstanding, pass, phase, draft>>
      /\ head' = head /\ tree' = tree
      /\ at = "write" /\ at' = "metadata"
  BY DEF Write, StepTo, jobQueue, outside, repository
<1>2. served' = draft.name /\ rows'[served'].content = draft.content /\ draft.name # None
  <2>1. draft.name # None
    BY <1>1, RefreshAssumption DEF TypeInv, RunnerTypes
  <2>2. served' = draft.name /\ rows'[served'] = Row(draft.content, draft.sha, TRUE)
    BY <1>1 DEF IndexInv, PassServesWhatItRead, Row
  <2> QED  BY <2>1, <2>2 DEF Row
<1>3. TypeInv' /\ \A what \in DOMAIN budget : budget'[what] <= budget[what]
  BY <1>1, PassTypes DEF Pass, TypeInv, RepositoryTypes
<1>4. Untouched => Untouched'
  BY <1>1, <1>2 DEF Untouched, ServesTree
<1>5. ~FileAsked => ServesTree'
  BY <1>1, <1>2 DEF EditInv, ServesTree
<1> QED  BY <1>1, <1>2, <1>3, <1>4, <1>5, PassKeeps

\* A pass that ends, the first one too, leaves the tree it read served.
LEMMA MetadataEdits == ASSUME Watched, StampMetadata PROVE EditParts'
<1> USE DEF Watched, EditParts
<1>1. /\ UNCHANGED <<repository, budget, fileWatcher, outstanding, rows, served, lost>>
      /\ head' = head /\ tree' = tree
      /\ at = "metadata" /\ at' = "idle" /\ phase' = "serving"
      /\ phase \in {"startup", "serving"}
  BY DEF StampMetadata, EndPass, Queue!End, jobQueue, outside, repository, TypeInv, RunnerTypes
<1>2. served = draft.name /\ rows[served].content = draft.content /\ draft.name # None
  <2>1. draft.name # None
    BY <1>1, RefreshAssumption DEF TypeInv, RunnerTypes
  <2>2. served = draft.name /\ rows[served] = Row(draft.content, draft.sha, TRUE)
    BY <1>1 DEF IndexInv, PassServesWhatItRead
  <2> QED  BY <2>1, <2>2 DEF Row
<1>3. TypeInv' /\ \A what \in DOMAIN budget : budget'[what] <= budget[what]
  BY <1>1, PassTypes DEF Pass, TypeInv, RepositoryTypes
<1>4. /\ ServesTree' <=> ServesTree
      /\ Untouched => Untouched' /\ ServesTree'
  BY <1>1, <1>2 DEF Untouched, ServesTree
<1>5. CASE phase = "serving"
  <2>1. head \notin lost' /\ ~FileAsked => ServesTree'
    BY <1>1, <1>4, <1>5 DEF EditInv, Reading
  <2> QED  BY <1>1, <1>2, <1>3, <1>4, <1>5, <2>1, PassKeeps
<1>6. CASE phase = "startup"
  <2>1. head = Main /\ moving = None /\ Untouched
    BY <1>6 DEF TreeInv
  <2>2. SpentInv'
    BY <1>1 DEF SpentInv, repository
  <2>3. TreeInv' /\ EditInv'
    BY <1>1, <1>2, <1>4, <2>1 DEF TreeInv, EditInv, repository
  <2> QED  BY <2>2, <2>3
<1> QED  BY <1>1, <1>5, <1>6

\* A pass that fails leaves its branch lost.
LEMMA FailEdits == ASSUME Watched, Fail PROVE EditParts'
<1> USE DEF Watched, EditParts
<1>1. /\ UNCHANGED <<repository, fileWatcher, outstanding, phase, index>>
      /\ head' = head /\ tree' = tree /\ phase = "serving"
      /\ at' = "idle" /\ lost \subseteq lost' /\ pass.key \in lost'
  BY NamesDiffer DEF Fail, EndPass, Queue!End, repository, TypeInv, RunnerTypes
<1>2. TypeInv' /\ \A what \in DOMAIN budget : budget'[what] <= budget[what]
  BY FailuresTypes DEF Fail, TypeInv, RepositoryTypes, Spend
<1>3. (ServesTree' <=> ServesTree) /\ (Untouched => Untouched') /\ served' = served
  BY <1>1 DEF ServesTree, Untouched, index
<1>4. head \notin lost' /\ ~FileAsked => ServesTree'
  BY <1>1, <1>3 DEF EditInv, Reading
<1>5. served' # None
  BY <1>1, <1>3 DEF EditInv
<1> QED  BY <1>1, <1>2, <1>3, <1>4, <1>5, PassKeeps

\* A loop that starts has read nothing.
LEMMA InitEdits == ASSUME Init PROVE EditParts
<1>1. /\ phase = "startup" /\ at = "extract" /\ head = Main /\ moving = None /\ tree = 1
      /\ contentOf = <<1, 2>> /\ tips \in [Branches -> 1 .. 2]
      /\ budget = setup.bounds /\ setup \in Setups
  BY DEF Init
<1>2. SpentInv
  <2>1. budget \in [{"saves", "commits", "checkouts", "advances", "failures", "hiccups"} -> Nat]
    BY <1>1, RefreshAssumption
  <2>2. \A b \in Branches : contentOf[tips[b]] <= 2
    BY <1>1
  <2> QED  BY <1>1, <2>1, <2>2 DEF SpentInv
<1>3. TreeInv /\ EditInv
  BY <1>1 DEF TreeInv, EditInv, Untouched
<1> QED  BY <1>2, <1>3 DEF EditParts

\* Every step keeps it.
LEMMA NextEdits == ASSUME Watched, IndexInv', [Next]_vars PROVE EditParts'
<1>1. CASE UNCHANGED vars
  BY <1>1 DEF Watched, vars, repository, fileWatcher, jobQueue, index, EditParts, SpentInv,
              TreeInv, EditInv, FileAsked, Untouched, Reading, ServesTree
<1>2. CASE Next
  BY <1>2, UserEdits, WatchersEdits, BeginEdits, RouteEdits, ReadsEdits, WriteEdits,
     MetadataEdits, FailEdits DEF Next, Pass
<1> QED  BY <1>1, <1>2

\* EditsServed: under --watch, once the loop rests, the served row has the content of
\* the working tree, uncommitted edits included, in every situation where the files
\* tell what HEAD does (FilesTell).
THEOREM EditsServed ==
    ASSUME FilesTell
    PROVE  Spec => []EditsAreServed
<1> DEFINE Inv == TypeInv /\ IndexInv /\ (setup.watch => BaseInv /\ EditParts)
<1>1. Init => Inv
  <2> SUFFICES ASSUME Init PROVE Inv
    OBVIOUS
  <2>1. setup.watch => setup.bounds.checkouts <= 1
    BY DEF Init, FilesTell
  <2> QED  BY <2>1, InitTypes, InitIndexInv, InitBase, InitEdits
<1>2. Inv /\ [Next]_vars => Inv'
  <2> SUFFICES ASSUME Inv, [Next]_vars PROVE Inv'
    OBVIOUS
  <2>1. TypeInv' /\ IndexInv' /\ setup' = setup
    BY NextTypes, NextIndexInv, SetupStays
  <2>2. setup.watch => BaseInv' /\ EditParts'
    BY <2>1, NextBase, NextEdits DEF Watched
  <2> QED  BY <2>1, <2>2
<1>3. Inv => EditsAreServed
  <2> SUFFICES ASSUME Inv, setup.watch, AtRest, head \notin lost PROVE ServesTree
    BY DEF EditsAreServed
  <2>1. head \in Branches /\ None \notin Branches
    BY NamesDiffer DEF TypeInv, RepositoryTypes
  <2>2. ~FileAsked /\ ~Reading
    BY <2>1 DEF AtRest, FileAsked, Reading
  <2> QED  BY <2>2 DEF AtRest, EditParts, EditInv
<1> QED  BY <1>1, <1>2, <1>3, PTL DEF Spec

-----------------------------------------------------------------------------
(* The file watcher. *)

\* One task drains while the lock is held, and only then is anything deferred.
HolderInv ==
    /\ lock <=> draining # {}
    /\ \A b, c \in draining : b = c
    /\ deferred # {} => lock

\* Bursts are never empty, and shutdown leaves none.
BurstInv ==
    /\ {} \notin triggers
    /\ {} \notin draining
    /\ consumer = "collecting" => burst # {}
    /\ consumer = "stopped" => triggers = {} /\ draining = {}

\* An event is in one place only.
PlaceInv ==
    /\ queue \cap burst = {}
    /\ deferred \cap (queue \cup burst) = {}
    /\ \A t \in triggers : t \cap (queue \cup burst \cup deferred) = {}
    /\ \A t, u \in triggers : t # u => t \cap u = {}

\* Only reported events are anywhere.
ReportedInv == Uncovered \cup UNION draining \subseteq 1..reported

WatcherInv ==
    /\ WatchTypeOK
    /\ HolderInv
    /\ BurstInv
    /\ PlaceInv
    /\ ReportedInv
    /\ NoEventLost

-----------------------------------------------------------------------------
(* The invariant. *)

\* A watch that has just started satisfies the invariant.
LEMMA WatcherInitInv == WatchInit => WatcherInv
<1> SUFFICES ASSUME WatchInit PROVE WatcherInv
  OBVIOUS
<1>1. 0 \in 0..MaxEvents
  BY MaxEventsAssumption
<1>2. WatchTypeOK
  BY <1>1, Zenon DEF WatchInit, WatchTypeOK
<1>3. HolderInv /\ BurstInv /\ PlaceInv
  BY DEF WatchInit, HolderInv, BurstInv, PlaceInv
<1>4. Uncovered \cup UNION draining = {} /\ 1..reported = {}
  BY DEF WatchInit, Uncovered
<1>5. ReportedInv /\ NoEventLost
  BY <1>4 DEF ReportedInv, NoEventLost
<1> QED
  BY <1>2, <1>3, <1>5 DEF WatcherInv

\* A reported event reaches the queue and is new everywhere.
LEMMA DispatchInv == ASSUME WatcherInv, Dispatch PROVE WatcherInv'
<1>1. reported + 1 \in Events /\ reported + 1 \notin 1..reported /\ reported' \in 0..MaxEvents
  BY MaxEventsAssumption DEF WatcherInv, WatchTypeOK, Dispatch, Events
<1>2. 1..(reported + 1) = (1..reported) \cup {reported + 1}
  BY DEF WatcherInv, WatchTypeOK
<1>3. WatchTypeOK' /\ HolderInv' /\ BurstInv'
  BY <1>1 DEF WatcherInv, WatchTypeOK, HolderInv, BurstInv, Dispatch
<1>4. PlaceInv'
  BY <1>1 DEF WatcherInv, PlaceInv, ReportedInv, Uncovered, Dispatch
<1>5. ReportedInv' /\ NoEventLost'
  BY <1>2 DEF WatcherInv, ReportedInv, NoEventLost, Uncovered, Dispatch
<1> QED
  BY <1>3, <1>4, <1>5 DEF WatcherInv

\* The consumer moves an event from the queue to the burst.
LEMMA CollectInv == ASSUME WatcherInv, Collect PROVE WatcherInv'
<1>1. PICK e \in queue : queue' = queue \ {e} /\ burst' = burst \cup {e}
  BY DEF Collect
<1>2. WatchTypeOK' /\ HolderInv' /\ BurstInv'
  BY <1>1 DEF WatcherInv, WatchTypeOK, HolderInv, BurstInv, Collect
<1>3. PlaceInv'
  BY <1>1 DEF WatcherInv, PlaceInv, Collect
<1>4. Uncovered' = Uncovered
  BY <1>1 DEF Uncovered, Collect
<1>5. ReportedInv' /\ NoEventLost'
  BY <1>4 DEF WatcherInv, ReportedInv, NoEventLost, Collect
<1> QED
  BY <1>2, <1>3, <1>5 DEF WatcherInv

\* The burst becomes a trigger task.
LEMMA QuietPeriodEndsInv == ASSUME WatcherInv, QuietPeriodEnds PROVE WatcherInv'
<1>1. WatchTypeOK' /\ HolderInv' /\ BurstInv'
  BY DEF WatcherInv, WatchTypeOK, HolderInv, BurstInv, QuietPeriodEnds
<1>2. PlaceInv'
  BY DEF WatcherInv, PlaceInv, QuietPeriodEnds
<1>3. Uncovered' = Uncovered
  BY DEF Uncovered, QuietPeriodEnds
<1>4. ReportedInv' /\ NoEventLost'
  BY <1>3 DEF WatcherInv, ReportedInv, NoEventLost, QuietPeriodEnds
<1> QED
  BY <1>1, <1>2, <1>4 DEF WatcherInv

\* A trigger starts the only drain, or hands its paths to the running one.
LEMMA RunTriggerInv ==
    ASSUME WatcherInv, NEW paths \in triggers, RunTrigger(paths)
    PROVE  WatcherInv'
<1>s. /\ triggers' = triggers \ {paths}
      /\ UNCHANGED <<reported, queue, consumer, burst>>
      /\ paths # {} /\ paths \subseteq Events
  BY DEF RunTrigger, WatcherInv, BurstInv, WatchTypeOK
<1>1. CASE StartDrain(paths)
  <2>1. draining = {} /\ deferred = {} /\ draining' = {paths} /\ deferred' = {}
    BY <1>1 DEF WatcherInv, HolderInv, StartDrain
  <2>2. WatchTypeOK' /\ HolderInv' /\ BurstInv'
    BY <1>1, <1>s, <2>1 DEF WatcherInv, WatchTypeOK, HolderInv, BurstInv, StartDrain
  <2>3. PlaceInv'
    BY <1>s, <2>1 DEF WatcherInv, PlaceInv
  <2>4. Uncovered \subseteq Uncovered' \cup paths /\ Uncovered' \cup paths \subseteq Uncovered
    BY <1>s, <2>1 DEF Uncovered
  <2>5. ReportedInv' /\ NoEventLost'
    BY <1>1, <1>s, <2>1, <2>4 DEF WatcherInv, ReportedInv, NoEventLost, StartDrain
  <2> QED
    BY <2>2, <2>3, <2>5 DEF WatcherInv
<1>2. CASE DeferToHolder(paths)
  <2>1. WatchTypeOK' /\ HolderInv' /\ BurstInv'
    BY <1>2, <1>s DEF WatcherInv, WatchTypeOK, HolderInv, BurstInv, DeferToHolder
  <2>2. PlaceInv'
    BY <1>2, <1>s DEF WatcherInv, PlaceInv, DeferToHolder
  <2>3. Uncovered' = Uncovered
    BY <1>2, <1>s DEF Uncovered, DeferToHolder
  <2>4. ReportedInv' /\ NoEventLost'
    BY <1>2, <1>s, <2>3 DEF WatcherInv, ReportedInv, NoEventLost, DeferToHolder
  <2> QED
    BY <2>1, <2>2, <2>4 DEF WatcherInv
<1> QED
  BY <1>1, <1>2 DEF RunTrigger

\* The holder covers what was deferred, or gives the lock back.
LEMMA OnChangeReturnsInv ==
    ASSUME WatcherInv, NEW batch \in draining, OnChangeReturns(batch)
    PROVE  WatcherInv'
<1>s. /\ deferred' = {}
      /\ covered' = covered \cup deferred
      /\ UNCHANGED <<reported, queue, consumer, burst, triggers>>
      /\ draining = {batch}
  BY DEF OnChangeReturns, WatcherInv, HolderInv
<1>1. draining' = (IF deferred = {} THEN {} ELSE {deferred}) /\ (lock' <=> deferred # {})
  BY <1>s DEF OnChangeReturns, WatcherInv, HolderInv, WatchTypeOK
<1>2. WatchTypeOK'
  BY <1>s, <1>1 DEF WatcherInv, WatchTypeOK, OnChangeReturns
<1>3. HolderInv' /\ BurstInv' /\ PlaceInv'
  BY <1>s, <1>1 DEF WatcherInv, HolderInv, BurstInv, PlaceInv
<1>4. Uncovered = Uncovered' \cup deferred
  BY <1>s DEF Uncovered
<1>5. UNION draining' = deferred
  BY <1>1
<1>6. ReportedInv' /\ NoEventLost'
  BY <1>s, <1>4, <1>5 DEF WatcherInv, ReportedInv, NoEventLost
<1> QED
  BY <1>2, <1>3, <1>6 DEF WatcherInv

\* Shutdown leaves no task, no holder and nothing deferred.
LEMMA CancelInv == ASSUME WatcherInv, Cancel PROVE WatcherInv'
<1>1. Uncovered' = queue
  BY DEF Cancel, Uncovered
<1>2. ReportedInv'
  BY <1>1 DEF WatcherInv, ReportedInv, Uncovered, Cancel
<1> QED
  BY <1>2 DEF WatcherInv, WatchTypeOK, HolderInv, BurstInv, PlaceInv, NoEventLost, Cancel

\* Every step of the watcher preserves the invariant.
LEMMA WatcherNextInv == ASSUME WatcherInv, [WatchNext]_watcherVars PROVE WatcherInv'
<1>1. CASE UNCHANGED watcherVars
  BY <1>1 DEF watcherVars, WatcherInv, WatchTypeOK, HolderInv, BurstInv, PlaceInv, ReportedInv,
              NoEventLost, Uncovered
<1>2. CASE Drain
  BY <1>2, RunTriggerInv, OnChangeReturnsInv DEF Drain
<1> QED
  BY <1>1, <1>2, DispatchInv, CollectInv, QuietPeriodEndsInv, CancelInv DEF WatchNext, Consume

-----------------------------------------------------------------------------
(* The theorems. *)

\* WatcherInvHolds: the inductive invariant holds in every reachable state.
THEOREM WatcherInvHolds == WatchSpec => []WatcherInv
  BY WatcherInitInv, WatcherNextInv, PTL DEF WatchSpec

\* WatchTypeCorrect: what the consumer and its tasks share has the right shape.
THEOREM WatchTypeCorrect == WatchSpec => []WatchTypeOK
<1>1. WatcherInv => WatchTypeOK
  BY DEF WatcherInv
<1> QED
  BY <1>1, WatcherInvHolds, PTL

\* CallsDoNotOverlap: on_change never runs twice at once.
THEOREM CallsDoNotOverlap == WatchSpec => []CallsNeverOverlap
<1>1. WatcherInv => CallsNeverOverlap
  BY DEF WatcherInv, HolderInv, CallsNeverOverlap
<1> QED
  BY <1>1, WatcherInvHolds, PTL

\* NothingIsStranded: deferred paths always have a holder that drains them.
THEOREM NothingIsStranded == WatchSpec => []NothingStranded
<1>1. WatcherInv => NothingStranded
  BY DEF WatcherInv, HolderInv, NothingStranded
<1> QED
  BY <1>1, WatcherInvHolds, PTL

\* NoEventIsLost: until shutdown every reported event is covered or on its way.
THEOREM NoEventIsLost == WatchSpec => []NoEventLost
<1>1. WatcherInv => NoEventLost
  BY DEF WatcherInv
<1> QED
  BY <1>1, WatcherInvHolds, PTL

-----------------------------------------------------------------------------
(* The watcher implements ChangeSignal. *)

\* A reported event is a change no call covers.
LEMMA DispatchIsChange == ASSUME WatcherInv, Dispatch PROVE Signal!Next
<1> DEFINE e == reported + 1
<1>1. e \in Events /\ e \notin 1..reported
  BY MaxEventsAssumption DEF WatcherInv, WatchTypeOK, Dispatch, Events
<1>2. e \notin Uncovered \cup UNION draining
  BY <1>1 DEF WatcherInv, ReportedInv
<1>3. Uncovered' = Uncovered \cup {e}
  BY DEF Uncovered, Dispatch
<1>4. Signal!Change(e)
  BY <1>2, <1>3 DEF Signal!Change, Dispatch
<1> QED
  BY <1>1, <1>4 DEF Signal!Next

\* The consumer's own steps change nothing the promise speaks of.
LEMMA ConsumeIsSilent ==
    ASSUME WatcherInv, Consume
    PROVE  UNCHANGED Signal!signalVars
<1>1. consumer # "stopped" /\ consumer' # "stopped" /\ UNCHANGED <<deferred, draining>>
  BY DEF Consume, Collect, QuietPeriodEnds
<1>2. Uncovered' = Uncovered
  BY DEF Consume, Collect, QuietPeriodEnds, Uncovered
<1> QED
  BY <1>1, <1>2 DEF Signal!signalVars

\* A trigger is a call, or a deferral while a call runs.
LEMMA RunTriggerIsPromised ==
    ASSUME WatcherInv, NEW paths \in triggers, RunTrigger(paths)
    PROVE  Signal!Next
<1>s. /\ triggers' = triggers \ {paths}
      /\ UNCHANGED <<reported, queue, consumer, burst>>
      /\ consumer # "stopped" /\ paths # {}
  BY DEF RunTrigger, WatcherInv, BurstInv
<1>p. paths \subseteq Uncovered
  BY DEF Uncovered
<1>1. CASE StartDrain(paths)
  <2>1. draining = {} /\ deferred = {} /\ draining' = {paths} /\ deferred' = {}
    BY <1>1 DEF WatcherInv, HolderInv, StartDrain
  <2>2. UNION draining = {} /\ UNION draining' = paths
    BY <2>1
  <2>3. Uncovered' = Uncovered \ paths
    BY <1>s, <2>1 DEF WatcherInv, PlaceInv, Uncovered
  <2>4. Signal!Call(paths)
    BY <1>s, <1>p, <2>1, <2>2, <2>3 DEF Signal!Call
  <2> QED
    BY <1>p, <2>4 DEF Signal!Next
<1>2. CASE DeferToHolder(paths)
  <2>1. UNION draining # {}
    BY <1>2 DEF WatcherInv, HolderInv, BurstInv, DeferToHolder
  <2>2. Uncovered' = Uncovered
    BY <1>2, <1>s DEF Uncovered, DeferToHolder
  <2>3. paths \subseteq Uncovered \ deferred
    BY <1>p DEF WatcherInv, PlaceInv
  <2>4. Signal!Defer(paths)
    BY <1>2, <1>s, <2>1, <2>2, <2>3 DEF Signal!Defer, DeferToHolder
  <2> QED
    BY <1>p, <2>4 DEF Signal!Next
<1> QED
  BY <1>1, <1>2 DEF RunTrigger

\* The end of a call starts the one follow-up, or nothing was late.
LEMMA OnChangeReturnsIsReturn ==
    ASSUME WatcherInv, NEW batch \in draining, OnChangeReturns(batch)
    PROVE  Signal!Return
<1>1. draining = {batch} /\ batch # {}
  BY DEF WatcherInv, HolderInv, BurstInv
<1>2. draining' = (IF deferred = {} THEN {} ELSE {deferred})
  BY <1>1 DEF OnChangeReturns
<1>3. UNION draining # {} /\ UNION draining' = deferred
  BY <1>1, <1>2
<1>4. Uncovered' = Uncovered \ deferred
  BY DEF OnChangeReturns, WatcherInv, PlaceInv, Uncovered
<1> QED
  BY <1>3, <1>4 DEF Signal!Return, OnChangeReturns

\* Shutdown stops the watch.
LEMMA CancelIsStop == ASSUME WatcherInv, Cancel PROVE Signal!Stop
<1>1. Uncovered' \subseteq Uncovered
  BY DEF Cancel, Uncovered
<1>2. UNION draining' = {}
  BY DEF Cancel
<1> QED
  BY <1>1, <1>2 DEF Cancel, Signal!Stop

\* Every step of the watcher is a step of the promise, or none.
LEMMA StepIsPromised ==
    ASSUME WatcherInv, [WatchNext]_watcherVars
    PROVE  [Signal!Next]_(Signal!signalVars)
<1>1. CASE UNCHANGED watcherVars
  BY <1>1 DEF watcherVars, Signal!signalVars, Uncovered
<1>2. CASE Drain
  BY <1>2, RunTriggerIsPromised, OnChangeReturnsIsReturn DEF Drain, Signal!Next
<1>3. CASE Cancel
  BY <1>3, CancelIsStop DEF Signal!Next
<1> QED
  BY <1>1, <1>2, <1>3, DispatchIsChange, ConsumeIsSilent DEF WatchNext

\* WatcherKeepsItsPromise: the queue, the debounce timer, the tasks and the
\* deferral of the watcher implement the one follow-up that ChangeSignal states.
THEOREM WatcherKeepsItsPromise == WatchSpec => ImplementsChangeSignal
<1>1. WatchInit => Signal!Init
  BY DEF WatchInit, Signal!Init, Uncovered
<1> QED
  BY <1>1, StepIsPromised, WatcherInvHolds, PTL DEF WatchSpec, Signal!Spec,
         ImplementsChangeSignal
=============================================================================
