------------------------------ MODULE BundleOpen ------------------------------
(***************************************************************************)
(* Opening a bundle: several processes bring its schema to the current     *)
(* version, or rebuild it, while others index into it.                     *)
(*                                                                         *)
(* A stamp that is not current is read again under the write lock, and the *)
(* upgrade is one transaction.  A bundle no upgrade knows, or one that     *)
(* lost a core table, is rebuilt: the script that creates the tables first *)
(* commits what is pending, so it runs without the lock, each of its       *)
(* statements a transaction of its own.  A crash may come at any point, an *)
(* error of the environment at any step.                                   *)
(***************************************************************************)
EXTENDS Integers, Sequences, FiniteSets, SequencesExt

CONSTANTS Processes,
          Situations,  \* the bundles met: records
                       \*   version  its stamp, 0 for a new file
                       \*   missing  the tables it lost
                       \*   corrupt  it is no database
          Before,      \* what was indexed into it before
          Failures, Crashes,  \* bound the errors of the environment, the crashes
          None

Current == 18
Upgradable == {2, 3, 4} \cup 6 .. 17

\* In the order in which they are dropped, and created.  The sweeps need the core
\* tables and create the other one.
Tables == <<"chunks", "module_members", "branches">>
Core == {"chunks", "module_members"}

ASSUME OpenAssumption ==
    /\ Failures \in Nat /\ Crashes \in Nat
    /\ Before \notin Processes /\ None \notin Processes
    /\ \A s \in Situations :
          s.version \in Nat /\ s.missing \subseteq Range(Tables) /\ s.corrupt \in BOOLEAN

VARIABLES
    (* the bundle *)
    stamp,      \* PRAGMA user_version
    tables,     \* those there are
    keyed,      \* the tree tier has the branch key
    rows,       \* who indexed into it: Before and processes
    hashed,     \* the packages whose content hash is set
    filled,     \* the branch tables have the project's rows
    flagged,    \* chunks.embedded says what has a vector
    corrupt,
    lock,       \* the process in a write transaction, or None
    (* the processes *)
    at,         \* process |-> "closed", "connected", "lock", "migrate", "repair",
                \* "drop", "create", "stamp", "open" or "failed"
    read,       \* process |-> the stamp it read
    next,       \* process |-> the table it drops or creates next
    retry,      \* process |-> the rebuild is that of the error handler
    left,       \* what is left of the bounds
    situation,
    raced       \* history: two processes were rebuilding it at once

bundle == <<stamp, tables, keyed, rows, hashed, filled, flagged, corrupt>>
vars == <<bundle, lock, at, read, next, retry, left, situation, raced>>

Init ==
    /\ situation \in Situations
    /\ LET v == situation.version
       IN  /\ stamp = v
           /\ tables = IF v = 0 THEN {}
                       ELSE (IF v < 16 THEN Core ELSE Range(Tables)) \ situation.missing
           /\ keyed = (v = Current)
           /\ rows = IF Core \subseteq tables THEN {Before} ELSE {}
           /\ hashed = IF rows = {} THEN {} ELSE {"project", "dependency"}
           /\ filled = (v >= 16)
           /\ flagged = (v >= 12)
    /\ corrupt = situation.corrupt
    /\ lock = None
    /\ at = [p \in Processes |-> "closed"]
    /\ read = [p \in Processes |-> 0] /\ next = [p \in Processes |-> 1]
    /\ retry = [p \in Processes |-> FALSE]
    /\ left = [failures |-> Failures, crashes |-> Crashes]
    /\ raced = FALSE

Goes(p, step) == at' = [at EXCEPT ![p] = step]

\* The call ends, its local variables with it.
Returns(p, step) ==
    /\ Goes(p, step)
    /\ read' = [read EXCEPT ![p] = 0]
    /\ next' = [next EXCEPT ![p] = 1]
    /\ retry' = [retry EXCEPT ![p] = FALSE]

Opening(p) == at[p] \notin {"closed", "open", "failed"}
Rebuilding(p) == at[p] \in {"drop", "create", "stamp"}
Races(p) == raced' = (raced \/ \E q \in Processes \ {p} : Rebuilding(q))

\* A table is dropped with what it holds; the rest goes with it.
Emptied == rows' = {} /\ hashed' = {} /\ filled' = FALSE /\ flagged' = TRUE /\ keyed' = TRUE

Kept == UNCHANGED <<rows, hashed, filled, flagged, keyed>>

-----------------------------------------------------------------------------
(* open_index_database. *)

\* _connect_or_recreate: a file that is no database is deleted.
Connect(p) ==
    /\ at[p] = "closed"
    /\ Goes(p, "connected")
    /\ corrupt' = FALSE
    /\ IF corrupt THEN stamp' = 0 /\ tables' = {} /\ Emptied
                  ELSE UNCHANGED <<stamp, tables>> /\ Kept
    /\ UNCHANGED <<lock, read, next, retry, left, situation, raced>>

\* An up-to-date bundle is opened without the lock.
ReadStamp(p) ==
    /\ at[p] = "connected"
    /\ read' = [read EXCEPT ![p] = stamp]
    /\ Goes(p, IF stamp = Current THEN "repair" ELSE "lock")
    /\ UNCHANGED <<bundle, lock, next, retry, left, situation, raced>>

\* lock_bundle_for_migration: BEGIN IMMEDIATE, and the stamp again.
Lock(p) ==
    /\ at[p] = "lock" /\ lock = None
    /\ lock' = p
    /\ read' = [read EXCEPT ![p] = stamp]
    /\ Goes(p, "migrate")
    /\ UNCHANGED <<bundle, next, retry, left, situation, raced>>

\* Mutant: the upgrade that adds the branch tables clears no hash.
HashesKept(v) == IF v < 9 THEN {} ELSE hashed

\* The package hashes an upgrade from v leaves: the branch tables are filled by
\* an extraction of the project, the oldest trees are rewritten by one of each.
HashesAfter(v) ==
    IF v < 9 THEN {} ELSE IF v < 16 THEN hashed \ {"project"} ELSE hashed

\* _migrate_in_place up to the commit: the sweeps, then the version's own steps.
Upgrade(p) ==
    /\ at[p] = "migrate" /\ read[p] \in Upgradable
    /\ Core \subseteq tables
    /\ tables' = Range(Tables)
    /\ keyed' = TRUE
    /\ hashed' = HashesAfter(read[p])
    /\ flagged' = (flagged \/ read[p] < 12)
    /\ stamp' = Current
    /\ lock' = None
    /\ Returns(p, "open")
    /\ UNCHANGED <<rows, filled, corrupt, left, situation, raced>>

\* The sweeps over a current bundle, with the lock if it was waited for.
Repair(p) ==
    /\ \/ at[p] = "repair"
       \/ at[p] = "migrate" /\ read[p] = Current
    /\ lock \in {p, None} \/ tables = Range(Tables)
    /\ Core \subseteq tables
    /\ tables' = Range(Tables)
    /\ lock' = IF lock = p THEN None ELSE lock
    /\ Returns(p, "open")
    /\ UNCHANGED <<stamp, corrupt, left, situation, raced>> /\ Kept

\* A sweep finds no core table: rolled back, then rebuilt, without the lock.
Drifted(p) ==
    /\ \/ at[p] = "repair"
       \/ at[p] = "migrate" /\ read[p] \in Upgradable \cup {Current}
    /\ ~(Core \subseteq tables)
    /\ lock' = IF lock = p THEN None ELSE lock
    /\ Races(p)
    /\ next' = [next EXCEPT ![p] = 1]
    /\ retry' = [retry EXCEPT ![p] = TRUE]
    /\ Goes(p, "drop")
    /\ UNCHANGED <<bundle, read, left, situation>>

-----------------------------------------------------------------------------
(* _rebuild_from_scratch. *)

\* In the transaction that took the lock: the script's implicit commit makes the
\* drops final, and lets the lock go.
Wipe(p) ==
    /\ at[p] = "migrate" /\ read[p] \notin Upgradable \cup {Current}
    /\ tables' = {} /\ Emptied
    /\ lock' = None
    /\ Races(p)
    /\ next' = [next EXCEPT ![p] = 1]
    /\ retry' = [retry EXCEPT ![p] = FALSE]
    /\ Goes(p, "create")
    /\ UNCHANGED <<stamp, corrupt, read, left, situation>>

\* From the error handler: no transaction, each table on its own.
Drop(p) ==
    /\ at[p] = "drop" /\ lock = None
    /\ tables' = tables \ {Tables[next[p]]}
    /\ IF Tables[next[p]] = "chunks" THEN Emptied ELSE Kept
    /\ IF next[p] = Len(Tables)
       THEN next' = [next EXCEPT ![p] = 1] /\ Goes(p, "create")
       ELSE next' = [next EXCEPT ![p] = @ + 1] /\ UNCHANGED at
    /\ UNCHANGED <<stamp, corrupt, lock, read, retry, left, situation, raced>>

Create(p) ==
    /\ at[p] = "create" /\ lock = None
    /\ Tables[next[p]] \notin tables
    /\ tables' = tables \cup {Tables[next[p]]}
    /\ IF next[p] = Len(Tables) THEN Goes(p, "stamp") /\ UNCHANGED next
       ELSE next' = [next EXCEPT ![p] = @ + 1] /\ UNCHANGED at
    /\ UNCHANGED <<stamp, corrupt, lock, read, retry, left, situation, raced>> /\ Kept

\* "table ... already exists", which is not the environment's fault: the handler
\* rebuilds once more; its own error escapes.
Exists(p) ==
    /\ at[p] = "create" /\ lock = None
    /\ Tables[next[p]] \in tables
    /\ raced' = TRUE
    /\ IF retry[p] THEN Returns(p, "failed")
       ELSE /\ Goes(p, "drop")
            /\ next' = [next EXCEPT ![p] = 1]
            /\ retry' = [retry EXCEPT ![p] = TRUE]
            /\ UNCHANGED read
    /\ UNCHANGED <<bundle, lock, left, situation>>

Stamp(p) ==
    /\ at[p] = "stamp" /\ lock = None
    /\ stamp' = Current
    /\ Returns(p, "open")
    /\ UNCHANGED <<tables, corrupt, lock, left, situation, raced>> /\ Kept

-----------------------------------------------------------------------------
(* Around it. *)

\* An index pass of a process that has the bundle open.
Index(p) ==
    /\ at[p] = "open" /\ lock = None
    /\ tables = Range(Tables)
    /\ rows' = rows \cup {p}
    /\ hashed' = {"project", "dependency"}
    /\ filled' = TRUE
    /\ UNCHANGED <<stamp, tables, keyed, flagged, corrupt, lock, at, read, next, retry, left,
                   situation, raced>>

Close(p) ==
    /\ at[p] \in {"open", "failed"}
    /\ Goes(p, "closed")
    /\ UNCHANGED <<bundle, lock, read, next, retry, left, situation, raced>>

Release(p) == lock' = IF lock = p THEN None ELSE lock

\* Mutant: the error leaves the transaction open.
FailInTransaction(p) ==
    /\ Opening(p) /\ left.failures > 0
    /\ left' = [left EXCEPT !.failures = @ - 1]
    /\ Goes(p, "failed")
    /\ UNCHANGED <<bundle, lock, read, next, retry, situation, raced>>

\* Mutant: an error of the environment in the upgrade is taken for drift.
FailIsDrift(p) ==
    /\ Opening(p) /\ left.failures > 0
    /\ left' = [left EXCEPT !.failures = @ - 1]
    /\ Release(p)
    /\ IF at[p] = "migrate"
       THEN Goes(p, "drop") /\ next' = [next EXCEPT ![p] = 1] ELSE Goes(p, "failed") /\ UNCHANGED next
    /\ UNCHANGED <<bundle, read, retry, situation, raced>>

\* The lock is not had in time, the disk is full, an I/O error: raised, the
\* transaction rolled back.
Fail(p) ==
    /\ Opening(p) /\ left.failures > 0
    /\ left' = [left EXCEPT !.failures = @ - 1]
    /\ Release(p)
    /\ Returns(p, "failed")
    /\ UNCHANGED <<bundle, situation, raced>>

Crash(p) ==
    /\ at[p] # "closed" /\ left.crashes > 0
    /\ left' = [left EXCEPT !.crashes = @ - 1]
    /\ Release(p)
    /\ Returns(p, "closed")
    /\ UNCHANGED <<bundle, situation, raced>>

Open(p) == Connect(p) \/ ReadStamp(p) \/ Lock(p) \/ Upgrade(p) \/ Repair(p) \/ Drifted(p)

Rebuild(p) == Wipe(p) \/ Drop(p) \/ Create(p) \/ Exists(p) \/ Stamp(p)

Next == \E p \in Processes :
            Open(p) \/ Rebuild(p) \/ Index(p) \/ Close(p) \/ Fail(p) \/ Crash(p)

Spec == Init /\ [][Next]_vars

-----------------------------------------------------------------------------
(* Properties. *)

TypeOK ==
    /\ stamp \in Nat /\ tables \subseteq Range(Tables) /\ rows \subseteq Processes \cup {Before}
    /\ hashed \subseteq {"project", "dependency"}
    /\ keyed \in BOOLEAN /\ filled \in BOOLEAN /\ flagged \in BOOLEAN /\ corrupt \in BOOLEAN
    /\ lock \in Processes \cup {None}
    /\ \A p \in Processes : lock = p <=> at[p] = "migrate"
    /\ next \in [Processes -> 1 .. Len(Tables)] /\ retry \in [Processes -> BOOLEAN]

Whole == stamp = Current /\ tables = Range(Tables) /\ keyed

\* OpenBundlesAreWhole: a process that has the bundle open has every table in the
\* current shape, whoever opened, upgraded, crashed or failed before it; a project
\* whose hash is set, which no pass extracts again, is in the branch tables, and
\* the embedded flags can be compared with the vectors.  Unless two rebuilt it.
OpenBundlesAreWhole ==
    \A p \in Processes : at[p] = "open" /\ ~raced =>
        Whole /\ flagged /\ ("project" \in hashed => filled)

Unupgradable == corrupt \/ stamp \notin Upgradable \cup {Current}

\* RowsSurviveOpens: no open drops rows of a version it can upgrade, whatever
\* other opens, crashes and errors of the environment it meets: those are never
\* "repaired by a wipe".  Unless two processes rebuild at once.
RowsSurviveOpens == [][rows \subseteq rows' \/ Unupgradable \/ raced]_vars

\* RowsSurviveEveryOpen: the same without exception: "a second process opening the
\* bundle mid-migration waits, then finds it current and runs only the repair
\* sweep".
RowsSurviveEveryOpen == [][rows \subseteq rows' \/ Unupgradable]_vars
=============================================================================
