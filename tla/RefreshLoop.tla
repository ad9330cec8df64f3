----------------------------- MODULE RefreshLoop -----------------------------
(***************************************************************************)
(* serve/refresh_loop.py and what it wires: the repository, the two        *)
(* watchers, the queue, the runner and the branch rows its passes stamp.   *)
(*                                                                         *)
(* The user saves, commits and checks out at any time.  The ref watcher    *)
(* turns snapshot differences into jobs, the file watcher (only under      *)
(* --watch) turns edits into jobs, the runner routes each job to a         *)
(* working-tree pass or a git-objects pass, or skips it.  Both watchers    *)
(* and the passes read the repository in several steps, so anything may    *)
(* move in between.                                                        *)
(*                                                                         *)
(* The queue is PassRequests, the promise IndexJobQueue implements; the    *)
(* file watcher is ChangeSignal, the one FileWatcher implements, with one  *)
(* event.  A content stands for all the files of a tree.                   *)
(***************************************************************************)
EXTENDS Integers, Sequences, SequencesExt

CONSTANTS Branches,         \* the local branches
          Main,             \* the one checked out at first
          Tracked,          \* those git.branches.track names
          None,
          NonGit,           \* the row of a pass that could not read git
          Setups            \* the situations: records of
                            \*   watch   serve --watch or watch, not plain serve
                            \*   moves   what may move before the watchers run: the
                            \*           "tree", the "branches" not checked out
                            \*   bounds  how many of each user action, failed pass
                            \*           and failed git command

\* The records that stand where None may: a stamped row, a snapshot, a report.
StampedRow == [content : Int, sha : Nat \cup {None}, worktree : BOOLEAN]
Snapshot == [head : Branches, tips : [Branches -> Nat]]
Report == [head : Branches \cup {None}, moved : SUBSET Branches, tips : [Branches -> Nat]]

ASSUME RefreshAssumption ==
    /\ Main \in Branches /\ Tracked \subseteq Branches /\ {None, NonGit} \cap Branches = {}
    /\ IsFiniteSet(Branches)
    /\ None # NonGit
    /\ None \notin Nat \cup StampedRow \cup Snapshot \cup Report
    /\ Setups \subseteq
         [watch : BOOLEAN, moves : SUBSET {"tree", "branches"},
          bounds : [{"saves", "commits", "checkouts", "advances", "failures", "hiccups"} -> Nat]]

VARIABLES
    (* the repository *)
    head,       \* the branch HEAD names
    tips,       \* branch |-> commit, a number
    contentOf,  \* commit |-> content, a sequence
    tree,       \* the content of the working tree
    moving,     \* the branch a checkout is moving to: files are out, HEAD is not
    setup,      \* the situation, one of Setups
    budget,     \* what is left of its bounds
    (* the ref watcher *)
    seen,       \* its previous snapshot, or None
    headRead,   \* the first half of a snapshot being read, or None
    report,     \* the events being delivered, or None
    jobs,       \* the jobs of a delivery, not yet submitted
    (* the file watcher *)
    edited,     \* a change is unseen
    keyRead,    \* the branch name on_file_change has read, or None
    (* the queue *)
    outstanding, pass,
    (* the runner and the index *)
    phase,      \* "startup", then "serving"
    at,         \* the step of the running pass
    draft,      \* what the pass has read so far
    rows,       \* branch, or NonGit |-> its stamped row, or None
    served,     \* the default row's name, or None
    package,    \* the content the project's package row was hashed from
    gitHead,    \* index_metadata.git_head
    lost        \* history: branches whose last pass failed or could not read git

repository == <<head, tips, contentOf, tree, moving, setup>>
refWatcher == <<seen, headRead, report, jobs>>
fileWatcher == <<edited, keyRead>>
jobQueue == <<outstanding, pass>>
index == <<rows, served, package, gitHead>>
vars == <<repository, budget, refWatcher, fileWatcher, jobQueue, phase, at, draft, index, lost>>

Queue == INSTANCE PassRequests WITH
    Keys <- Branches, Paths <- {}, Heads <- Nat, Stamps <- Nat

RowNames == Branches \cup {NonGit}

NoDraft == [content |-> None, name |-> None, sha |-> None]

Row(content, sha, worktree) == [content |-> content, sha |-> sha, worktree |-> worktree]

TipRow(b, worktree) == Row(contentOf[tips[b]], tips[b], worktree)

\* A bundle of an earlier run serves some branch, or there is none; a branch
\* not served may have a row a git-objects pass left.
InitIndex ==
    \E b \in Branches \cup {None} : \E others \in SUBSET (Branches \ {b}) :
        /\ served = b
        /\ rows = [c \in RowNames |-> IF c = b THEN TipRow(c, TRUE)
                                      ELSE IF c \in others THEN TipRow(c, FALSE) ELSE None]
        /\ package = (IF b = None THEN None ELSE contentOf[tips[b]])
        /\ gitHead = (IF b = None THEN None ELSE tips[b])

Init ==
    /\ head = Main
    /\ contentOf = <<1, 2>>
    /\ tips \in {t \in [Branches -> 1..2] : t[Main] = 1}
    /\ tree = 1
    /\ moving = None
    /\ setup \in Setups
    /\ budget = setup.bounds
    /\ seen = None /\ headRead = None /\ report = None /\ jobs = <<>>
    /\ edited = FALSE /\ keyRead = None
    /\ Queue!Init
    /\ phase = "startup"
    /\ at = "extract"
    /\ draft = NoDraft
    /\ InitIndex
    /\ lost = {}

-----------------------------------------------------------------------------
(* The user and git. *)

Spend(what) == /\ budget[what] > 0
               /\ budget' = [budget EXCEPT ![what] = @ - 1]

Clean == tree = contentOf[tips[head]]

EditsAllowed == moving = None /\ (phase = "serving" \/ "tree" \in setup.moves)

\* The observer sees a change of the tree once the watchers run.
TreeBecomes(content) ==
    /\ tree' = content
    /\ edited' = (edited \/ (setup.watch /\ phase = "serving" /\ content # tree))

Save ==
    /\ EditsAllowed
    /\ Spend("saves")
    /\ TreeBecomes(3 + setup.bounds.saves - budget.saves)
    /\ UNCHANGED <<setup, head, tips, contentOf, moving, refWatcher, keyRead, jobQueue, phase,
                   at, draft, index, lost>>

Commit ==
    /\ moving = None
    /\ Spend("commits")
    /\ contentOf' = Append(contentOf, tree)
    /\ tips' = [tips EXCEPT ![head] = Len(contentOf) + 1]
    /\ UNCHANGED <<setup, head, tree, moving, refWatcher, fileWatcher, jobQueue, phase, at,
                   draft, index, lost>>

\* git checkout rewrites the files first and HEAD last.
Checkout(b) ==
    /\ EditsAllowed
    /\ Clean
    /\ b # head
    /\ Spend("checkouts")
    /\ moving' = b
    /\ TreeBecomes(contentOf[tips[b]])
    /\ UNCHANGED <<setup, head, tips, contentOf, refWatcher, keyRead, jobQueue, phase, at,
                   draft, index, lost>>

CheckoutEnds ==
    /\ moving # None
    /\ head' = moving
    /\ moving' = None
    /\ UNCHANGED <<setup, tips, contentOf, tree, budget, refWatcher, fileWatcher, jobQueue,
                   phase, at, draft, index, lost>>

\* A branch that is not checked out is pointed at a later commit, by a
\* fast-forward or from another worktree.
Advance(b) ==
    /\ b \notin {head, moving}
    /\ seen # None \/ "branches" \in setup.moves
    /\ Spend("advances")
    /\ \E c \in 1..Len(contentOf) : c > tips[b] /\ tips' = [tips EXCEPT ![b] = c]
    /\ UNCHANGED <<setup, head, contentOf, tree, moving, refWatcher, fileWatcher, jobQueue,
                   phase, at, draft, index, lost>>

User == Save \/ Commit \/ CheckoutEnds \/ \E b \in Branches : Checkout(b) \/ Advance(b)

-----------------------------------------------------------------------------
(* Submitting. *)

\* Only the order of the outstanding requests matters, not their numbers.
NextStamp ==
    1 + Max({0} \cup {r.sequence : r \in UNION {outstanding[k] : k \in Branches}})

Submit(job) ==
    Queue!Ask(job.key, [paths |-> {}, priority |-> job.priority, sequence |-> NextStamp,
                        refHead |-> job.refHead])

(* The ref watcher: a snapshot in two reads, its diff, its delivery. *)

ReadHead ==
    /\ phase = "serving"
    /\ headRead = None /\ report = None /\ jobs = <<>>
    /\ headRead' = head
    /\ UNCHANGED <<repository, budget, seen, report, jobs, fileWatcher, jobQueue, phase, at,
                   draft, index, lost>>

\* Mutant: a diff in which HEAD moved leaves the tips out.
HeadOnlyDiff(current) ==
    LET headMoved == seen = None \/ seen.head # current.head
    IN  [head  |-> IF headMoved THEN current.head ELSE None,
         moved |-> IF headMoved THEN {} ELSE {b \in Branches : seen.tips[b] # current.tips[b]},
         tips  |-> current.tips]

\* Without a previous snapshot the report is HEAD_AT_START, else the diff:
\* HEAD_MOVED and a BRANCH_MOVED for every tip that differs.
Diff(current) ==
    [head  |-> IF seen = None \/ seen.head # current.head THEN current.head ELSE None,
     moved |-> IF seen = None THEN {} ELSE {b \in Branches : seen.tips[b] # current.tips[b]},
     tips  |-> current.tips]

ReadRefs ==
    /\ headRead # None
    /\ LET current == [head |-> headRead, tips |-> tips]
           diff    == Diff(current)
       IN  /\ seen' = current
           /\ report' = IF diff.head = None /\ diff.moved = {} THEN None ELSE diff
    /\ headRead' = None
    /\ UNCHANGED <<repository, budget, jobs, fileWatcher, jobQueue, phase, at, draft, index,
                   lost>>

\* events_to_jobs: the HEAD event's job first, then the followed branches'.
JobsFor(events, workingTreeBranch) ==
    LET Job(b, p)   == [key |-> b, refHead |-> events.tips[b], priority |-> p]
        followed    == events.moved \cap (Tracked \cup {workingTreeBranch})
        headJob     == IF events.head = None THEN <<>> ELSE <<Job(events.head, 0)>>
        branchJob   == [b \in followed |-> Job(b, IF b = workingTreeBranch THEN 0 ELSE 1)]
    IN  headJob \o SetToSeq({branchJob[b] : b \in followed \ {events.head}})

\* on_ref_events reads the tracked refs now, not when the snapshot was taken.
Deliver ==
    /\ report # None
    /\ jobs' = JobsFor(report, head)
    /\ report' = None
    /\ UNCHANGED <<repository, budget, seen, headRead, fileWatcher, jobQueue, phase, at, draft,
                   index, lost>>

SubmitRefJob ==
    /\ jobs # <<>>
    /\ Submit(Head(jobs))
    /\ jobs' = Tail(jobs)
    /\ UNCHANGED <<repository, budget, seen, headRead, report, fileWatcher, phase, at, draft,
                   index, lost>>

(* The file watcher's callback, on_file_change. *)

\* Assumption: the quiet period outlasts the gap between a checkout's last file
\* and its HEAD, so a call does not start inside that gap.
ReadKey ==
    /\ edited /\ keyRead = None
    /\ moving = None
    /\ edited' = FALSE
    /\ keyRead' = head
    /\ UNCHANGED <<repository, budget, refWatcher, jobQueue, phase, at, draft, index, lost>>

\* Mutant: a save's job carries the head, as a ref event's does.
SubmitFileJobWithHead ==
    /\ keyRead # None
    /\ Submit([key |-> keyRead, refHead |-> tips[keyRead], priority |-> 0])
    /\ keyRead' = None
    /\ UNCHANGED <<repository, budget, refWatcher, edited, phase, at, draft, index, lost>>

SubmitFileJob ==
    /\ keyRead # None
    /\ Submit([key |-> keyRead, refHead |-> None, priority |-> 0])
    /\ keyRead' = None
    /\ UNCHANGED <<repository, budget, refWatcher, edited, phase, at, draft, index, lost>>

\* Two tasks, each with one step to take at a time.
RefWatcher == ReadHead \/ ReadRefs \/ Deliver \/ SubmitRefJob
FileCallback == ReadKey \/ SubmitFileJob

-----------------------------------------------------------------------------
(* The runner. *)

outside == <<repository, budget, refWatcher, fileWatcher>>

StepTo(step) == at' = step /\ UNCHANGED <<jobQueue, phase>>

\* The pass is over: the queue's, or the startup pass, after which the loop
\* starts its sources.
EndPass ==
    /\ at' = "idle"
    /\ draft' = NoDraft
    /\ phase' = "serving"
    /\ IF phase = "startup" THEN UNCHANGED jobQueue ELSE Queue!End

Begin ==
    /\ phase = "serving" /\ at = "idle"
    /\ \E k \in Branches : Queue!Begin(k)
    /\ at' = "route"
    /\ UNCHANGED <<outside, phase, draft, index, lost>>

\* IndexJobRunner._index_branch: re-read the tracked refs, then pick the pass.
Route ==
    /\ at = "route"
    /\ \/ pass.key = head /\ StepTo("check") /\ UNCHANGED draft
       \/ pass.key # head /\ pass.key \in Tracked /\ StepTo("refs") /\ UNCHANGED draft
       \/ pass.key # head /\ pass.key \notin Tracked /\ EndPass
    /\ UNCHANGED <<outside, index, lost>>

\* Mutants: the head is not compared; a save is compared by its absent head.
ServedByName == pass.refHead # None /\ served = pass.key
ServedUnlessMoved == served = pass.key /\ pass.refHead \in {None, rows[served].sha}

\* _already_served: only ref events asked and the served row has their head.
AlreadyServed ==
    /\ pass.refHead # None
    /\ served = pass.key
    /\ rows[served].sha = pass.refHead

Check ==
    /\ at = "check"
    /\ \/ AlreadyServed /\ EndPass
       \/ ~AlreadyServed /\ StepTo("extract") /\ UNCHANGED draft
    /\ UNCHANGED <<outside, index, lost>>

(* The working-tree pass: _index_project_source. *)

Extract ==
    /\ at = "extract"
    /\ draft' = [draft EXCEPT !.content = tree]
    /\ StepTo("name")
    /\ UNCHANGED <<outside, index, lost>>

\* _read_identity: two git commands.
ReadName ==
    /\ at = "name"
    /\ draft' = [draft EXCEPT !.name = head]
    /\ StepTo("sha")
    /\ UNCHANGED <<outside, index, lost>>

\* Mutant: the second git command fails and the pass goes on.
ReadNoSha == at = "sha" /\ StepTo("write") /\ UNCHANGED <<outside, draft, index, lost>>

ReadSha ==
    /\ at = "sha"
    /\ draft' = [draft EXCEPT !.sha = tips[head]]
    /\ StepTo("write")
    /\ UNCHANGED <<outside, index, lost>>

\* A git command of the manifest fails (a timeout): the pass goes on without
\* name, head and blobs, as if there were no repository, and nothing retries it.
ReadFails ==
    /\ at \in {"name", "sha"}
    /\ Spend("hiccups")
    /\ draft' = [draft EXCEPT !.name = NonGit, !.sha = None]
    /\ lost' = IF phase = "startup" THEN lost ELSE lost \cup {pass.key}
    /\ StepTo("write")
    /\ UNCHANGED <<repository, refWatcher, fileWatcher, index>>

\* Mutant: the package hash alone decides.
CachedByContent == package = draft.content

\* _project_is_cached: the package hash and this checkout's own stamp agree.
Cached ==
    /\ package = draft.content
    /\ rows[draft.name] # None
    /\ rows[draft.name].sha = draft.sha
    /\ rows[draft.name].worktree

\* Mutant: the rows of earlier checkouts stay.
WriteRetiringNothing ==
    /\ at = "write"
    /\ \/ Cached /\ UNCHANGED <<rows, served, package>>
       \/ /\ ~Cached
          /\ rows' = [rows EXCEPT ![draft.name] = Row(draft.content, draft.sha, TRUE)]
          /\ served' = draft.name
          /\ package' = draft.content
    /\ lost' = lost \ {draft.name}
    /\ StepTo("metadata")
    /\ UNCHANGED <<outside, draft, gitHead>>

\* write_branch_membership: the rows this checkout stamped before are retired,
\* the branch is stamped and served; one transaction.
Write ==
    /\ at = "write"
    /\ \/ Cached /\ UNCHANGED <<rows, served, package>>
       \/ /\ ~Cached
          /\ rows' = [b \in RowNames |->
                        IF b = draft.name THEN Row(draft.content, draft.sha, TRUE)
                        ELSE IF rows[b] # None /\ rows[b].worktree THEN None
                        ELSE rows[b]]
          /\ served' = draft.name
          /\ package' = draft.content
    /\ lost' = lost \ {draft.name}
    /\ StepTo("metadata")
    /\ UNCHANGED <<outside, draft, gitHead>>

\* stamp_metadata re-reads HEAD at the end of the pass.
StampMetadata ==
    /\ at = "metadata"
    /\ gitHead' = tips[head]
    /\ EndPass
    /\ UNCHANGED <<outside, rows, served, package, lost>>

(* The git-objects pass: run_watched_branch_pass. *)

Skipped == pass.key \in {head, served}

ReadBranch ==
    /\ at = "refs"
    /\ \/ Skipped /\ EndPass
       \/ ~Skipped /\ draft' = [draft EXCEPT !.sha = tips[pass.key]] /\ StepTo("objects")
    /\ UNCHANGED <<outside, index, lost>>

\* stamp_git_objects_branch: never the default, retires nothing.
WriteBranch ==
    /\ at = "objects"
    /\ rows' = [rows EXCEPT ![pass.key] = Row(contentOf[draft.sha], draft.sha, FALSE)]
    /\ lost' = lost \ {pass.key}
    /\ EndPass
    /\ UNCHANGED <<outside, served, package, gitHead>>

\* The pass raises at any step (a busy database), or a git-objects pass cannot
\* read its refs or objects: the callback, the pass or the queue swallows it and
\* nothing retries it.
Fail ==
    /\ phase = "serving" /\ at # "idle"
    /\ Spend("failures")
    /\ lost' = lost \cup ({pass.key, draft.name} \ {None})
    /\ EndPass
    /\ UNCHANGED <<repository, refWatcher, fileWatcher, index>>

Pass == \/ Begin \/ Route \/ Check
        \/ Extract \/ ReadName \/ ReadSha \/ Write \/ StampMetadata
        \/ ReadBranch \/ WriteBranch

Next == User \/ RefWatcher \/ FileCallback \/ Pass \/ ReadFails \/ Fail

Spec == Init /\ [][Next]_vars

\* Timers fire, the tasks of the loop run, a checkout ends.
FairSpec == /\ Spec
            /\ WF_vars(CheckoutEnds)
            /\ WF_vars(RefWatcher)
            /\ WF_vars(FileCallback)
            /\ WF_vars(Pass)

-----------------------------------------------------------------------------
(* Properties. *)

\* Every variable keeps its type: a job names a branch and the commit its event
\* saw, and a stamped row names the commit its pass resolved.
TypeOK ==
    /\ head \in Branches /\ moving \in Branches \cup {None}
    /\ tips \in [Branches -> 1..Len(contentOf)]
    /\ headRead \in Branches \cup {None} /\ keyRead \in Branches \cup {None}
    /\ seen = None \/ (seen.head \in Branches /\ seen.tips \in [Branches -> 1..Len(contentOf)])
    /\ \A i \in DOMAIN jobs : jobs[i].key \in Branches /\ jobs[i].refHead \in 1..Len(contentOf)
    /\ edited \in BOOLEAN
    /\ setup \in Setups
    /\ pass # None => pass.key \in Branches /\ pass.paths = {}
    /\ phase \in {"startup", "serving"}
    /\ at \in {"idle", "route", "check", "extract", "name", "sha", "write", "metadata",
               "refs", "objects"}
    /\ served \in RowNames \cup {None}
    /\ \A b \in Branches : rows[b] # None => rows[b].sha \in 1..Len(contentOf)
    /\ rows[NonGit] # None => rows[NonGit].sha = None
    /\ lost \subseteq RowNames

\* Nothing is on its way: every watcher has caught up with the repository, no
\* job is queued and no pass runs.
AtRest ==
    /\ phase = "serving" /\ at = "idle" /\ moving = None
    /\ seen = [head |-> head, tips |-> tips]
    /\ headRead = None /\ report = None /\ jobs = <<>>
    /\ ~edited /\ keyRead = None
    /\ \A k \in Branches : outstanding[k] = {}

ServesHead ==
    /\ served = head
    /\ rows[head].sha = tips[head]
    /\ gitHead = tips[head]

ServesTree == rows[served].content = tree

\* HeadIsServed: once the loop rests, the served row names the checked-out
\* branch at its head, and the freshness stamp agrees (AC-7 of the design):
\* whatever moved while a snapshot was read, an event delivered, a job queued,
\* routed or checked against the served row, and in the startup pass.
HeadIsServed == AtRest /\ head \notin lost => ServesHead

\* TreeIsServed: once the loop rests on a clean tree, the served row's content
\* is the working tree's, also under plain serve: "a request sees the previous
\* branch state until the job commits and the new one after, never a mix" (the
\* design, 6.8c), and a ref job is dropped only when its head was indexed.
TreeIsServed == AtRest /\ Clean /\ head \notin lost => ServesTree

\* EditsAreServed: under --watch the same holds of uncommitted edits.
EditsAreServed == setup.watch /\ AtRest /\ head \notin lost => ServesTree

\* BranchRowsAreCurrent: once the loop rests, the row a git-objects pass left for
\* a tracked branch is at that branch's tip: its moves were neither lost nor
\* routed to the wrong pass.  What moved before the watchers ran has no event.
BranchRowsAreCurrent ==
    AtRest /\ setup.moves = {} => \A b \in Tracked \ lost :
                 rows[b] # None /\ ~rows[b].worktree => rows[b].sha = tips[b]

\* OneServedCheckout: the served row exists once the loop serves, is this
\* checkout's stamp, and no other row is: no pass of another branch takes its
\* place, no retirement leaves two.
OneServedCheckout ==
    phase = "serving" => \A b \in RowNames : b = served <=> (rows[b] # None /\ rows[b].worktree)

\* BranchKeepsItsRow: once the loop rests, the checked-out branch has a row, also
\* when a pass could not read git: "blob-less rows still give the branch its
\* membership" (_log_manifest_unavailable's docstring).
BranchKeepsItsRow == AtRest => rows[head] # None

\* PassServesWhatItRead: after a working-tree pass, a cached one too, the branch
\* it read is the served one, at the head and with the content it read
\* (_project_is_cached's reason for comparing more than the package hash).
PassServesWhatItRead ==
    at = "metadata" => /\ served = draft.name
                       /\ rows[served] = Row(draft.content, draft.sha, TRUE)

\* EventuallyServed: when the user stops, the index ends up serving HEAD.
EventuallyServed == <>[](head \in lost \/ (ServesHead /\ (setup.watch => ServesTree)))
=============================================================================
