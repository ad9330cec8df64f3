----------------------------- MODULE BundleWrite -----------------------------
(***************************************************************************)
(* The dependency lane of an index pass: how a bundle's two files, the     *)
(* SQLite database and the vector file, are written together.              *)
(*                                                                         *)
(* A pass counts both sides, clears the package hashes if they differ,     *)
(* wipes everything under --force, then its workers re-index the packages  *)
(* whose hash changed.  A unit of work loads the whole vector file, takes  *)
(* an SQLite snapshot, merges its chunks (a row that stays keeps its       *)
(* vector) and commits SQLite first, the file second.  Any step may fail,  *)
(* the process may die between any two, the file may be damaged.           *)
(*                                                                         *)
(* A text stands for a chunk's content hash; a package repeats a text when *)
(* it holds equal chunks.  The vector of a text is the text.               *)
(***************************************************************************)
EXTENDS Integers, FiniteSets, Functions

CONSTANTS Packages,
          Texts,
          EmbeddedTexts,  \* those the embed policy gives a vector
          Readings,       \* what a package's files may hold: copies of each text
          Workers,        \* the concurrent units of work of a pass (--workers)
          None,
          Bounds          \* how many edits, passes, forced passes, failures, crashes and
                          \* damaged files: some records, one of which applies

ASSUME BundleAssumption ==
    /\ EmbeddedTexts \subseteq Texts /\ None \notin Readings \cup Packages
    /\ IsFiniteSet(Texts) /\ Readings \subseteq [Texts -> Nat]
    /\ Bounds \subseteq [{"edits", "passes", "forced", "failures", "crashes", "damages"} -> Nat]

VARIABLES
    (* on disk *)
    source,    \* package |-> what its files hold
    rows,      \* the chunks table: rowid |-> [package, text]
    hash,      \* package |-> what its row was hashed from, or None
    file,      \* the vector file: rowid |-> text
    temp,      \* its .tmp, one for all units of work, or None
    budget,    \* what is left of the bounds
    (* the pass *)
    pass,      \* "off", "clearing" or "clearing file" (--force), "working"
    todo,      \* the packages no worker has taken yet
    unit,      \* worker |-> its unit of work:
               \*   step     where it is, or "idle"
               \*   package  its package, and
               \*   reading  what it extracted from it
               \*   vectors  the vector file as it loaded and changed it
               \*   rows     what its transaction makes of the rows
               \*   dirty    whether the file must be replaced
               \*   behind   which of "rows" and "file" were replaced since it took its
               \*            snapshot, loaded its copy
    (* history *)
    torn,      \* the file was not replaced by its own next version
    repaired   \* the check found drift and the pass has not failed since

disk == <<source, rows, hash, file, temp>>
history == <<torn, repaired>>
vars == <<disk, budget, pass, todo, unit, history>>

Empty == [i \in {} |-> None]   \* the empty table, the empty index

NoUnit == [step |-> "idle", package |-> None, reading |-> None, vectors |-> Empty,
           rows |-> Empty, dirty |-> FALSE, behind |-> {}]

Init ==
    /\ source \in [Packages -> Readings]
    /\ rows = Empty /\ file = Empty /\ temp = None
    /\ hash = [p \in Packages |-> None]
    /\ budget \in Bounds
    /\ pass = "off" /\ todo = {}
    /\ unit = [w \in Workers |-> NoUnit]
    /\ torn = FALSE /\ repaired = FALSE

Spend(what) == /\ budget[what] > 0
               /\ budget' = [budget EXCEPT ![what] = @ - 1]

\* Something went wrong: for the two files as well if only the rows are in.
Goes(wrong) == torn' = (torn \/ wrong) /\ repaired' = FALSE

-----------------------------------------------------------------------------
(* The merge: diff_chunks_by_content_hash and the writes it asks for. *)

RowsOf(p, t) == {i \in DOMAIN rows : rows[i] = [package |-> p, text |-> t]}

\* Mutant: a set difference, blind to how often a text is repeated.
RemovedAsSet(p, wanted) == UNION {RowsOf(p, t) : t \in {u \in Texts : wanted[u] = 0}}

\* Per text the first existing rows stay, as many as are wanted.
Removed(p, wanted) ==
    UNION {{i \in RowsOf(p, t) : Cardinality({j \in RowsOf(p, t) : j < i}) >= wanted[t]}
              : t \in Texts}

Added(p, wanted) ==
    UNION {{t} \X (Cardinality(RowsOf(p, t)) + 1 .. wanted[t]) : t \in Texts}

\* SQLite reuses the rowids above the highest one left.
NextRowid(table) ==
    1 + CHOOSE i \in {0} \cup DOMAIN table : \A j \in DOMAIN table : j <= i

\* The new rows, in any order the incoming chunks may have.
Inserts(p, wanted, kept) ==
    LET added == Added(p, wanted)
        first == NextRowid(kept)
        ids   == first .. first + Cardinality(added) - 1
    IN  {[i \in ids |-> [package |-> p, text |-> chunk[i][1]]] : chunk \in Bijection(ids, added)}

Without(f, ids) == Restrict(f, DOMAIN f \ ids)

With(f, g) == [i \in DOMAIN f \cup DOMAIN g |-> IF i \in DOMAIN g THEN g[i] ELSE f[i]]

\* chunks.embedded = 1: the rows the embed policy gave a vector, and the vectors.
Embedded(table) == {i \in DOMAIN table : table[i].text \in EmbeddedTexts}
VectorsOf(table) == [i \in Embedded(table) |-> table[i].text]

-----------------------------------------------------------------------------
(* The pass. *)

Edit(p) ==
    /\ Spend("edits")
    /\ \E r \in Readings \ {source[p]} : source' = [source EXCEPT ![p] = r]
    /\ UNCHANGED <<rows, hash, file, temp, pass, todo, unit, history>>

\* check_integrity_and_repair compares the counts alone.
Drift == Cardinality(Embedded(rows)) # Cardinality(DOMAIN file)

StartPass(force) ==
    /\ pass = "off"
    /\ IF force THEN budget.forced > 0 ELSE budget.passes > 0
    /\ budget' = [budget EXCEPT ![IF force THEN "forced" ELSE "passes"] = @ - 1]
    /\ hash' = [p \in Packages |-> IF Drift THEN None ELSE hash[p]]
    /\ repaired' = Drift
    /\ pass' = (IF force THEN "clearing" ELSE "working")
    /\ todo' = Packages
    /\ UNCHANGED <<source, rows, file, temp, unit, torn>>

\* clear_all, a unit of work of its own: the tables, then the file.
ClearRows ==
    /\ pass = "clearing"
    /\ rows' = Empty
    /\ hash' = [p \in Packages |-> None]
    /\ pass' = "clearing file"
    /\ UNCHANGED <<source, file, temp, budget, todo, unit, history>>

ClearFile ==
    /\ pass = "clearing file"
    /\ file' = Empty
    /\ temp' = None
    /\ torn' = FALSE
    /\ pass' = "working"
    /\ UNCHANGED <<source, rows, hash, budget, todo, unit, repaired>>

\* Mutant: the pass does not wait for its workers.
EndPassEarly ==
    /\ pass = "working" /\ todo = {}
    /\ pass' = "off"
    /\ UNCHANGED <<disk, budget, todo, unit, history>>

EndPass ==
    /\ pass = "working" /\ todo = {}
    /\ \A w \in Workers : unit[w] = NoUnit
    /\ pass' = "off"
    /\ UNCHANGED <<disk, budget, todo, unit, history>>

-----------------------------------------------------------------------------
(* A unit of work: _index_one_dependency, reindex_package, the two commits. *)

Step(w) == unit[w].step

Does(w, changes) == unit' = [unit EXCEPT ![w] = With(@, changes)]

Ends(w) == unit' = [unit EXCEPT ![w] = NoUnit]

\* The others that took something from disk before it was replaced.
LeftBehind(w, what, steps) ==
    [v \in Workers |->
        IF v # w /\ Step(v) \in steps THEN [unit[v] EXCEPT !.behind = @ \cup {what}] ELSE unit[v]]

\* The package hash decides whether there is anything to do.
Extract(w, p) ==
    /\ pass = "working" /\ p \in todo /\ Step(w) = "idle"
    /\ todo' = todo \ {p}
    /\ IF hash[p] = source[p]
       THEN UNCHANGED unit
       ELSE Does(w, [step |-> "open", package |-> p, reading |-> source[p]])
    /\ UNCHANGED <<disk, budget, pass, history>>

\* BEGIN is deferred: the file is loaded before the snapshot is taken.
Open(w) ==
    /\ Step(w) = "open"
    /\ Does(w, [step |-> "read", vectors |-> file])
    /\ UNCHANGED <<disk, budget, pass, todo, history>>

Read(w) ==
    /\ Step(w) = "read"
    /\ Does(w, [step |-> "write"])
    /\ UNCHANGED <<disk, budget, pass, todo, history>>

\* From its first write to its commit a transaction keeps the others out.
Locked == \E w \in Workers : Step(w) = "commit"

\* What w deletes, what may be left then, and what it may insert.
Gone(w) == Removed(unit[w].package, unit[w].reading)
Kept(w) == Without(rows, Gone(w))
Fresh(w) == Inserts(unit[w].package, unit[w].reading, Kept(w))

\* Mutant: a removal does not mark the index as changed.
DirtyIfAdded(w, new) == Embedded(new) # {}

Dirty(w, new) == Gone(w) # {} \/ Embedded(new) # {}

\* Mutant: the vectors of the deleted rows are removed after the add.
CollidesBeforeRemoval(w, new) == Embedded(new) \cap DOMAIN unit[w].vectors # {}

\* add_with_ids raises on an id the index already holds.
Collides(w, new) == Embedded(new) \cap (DOMAIN unit[w].vectors \ Gone(w)) # {}

Write(w) ==
    /\ Step(w) = "write" /\ ~Locked /\ "rows" \notin unit[w].behind
    /\ \E new \in Fresh(w) :
          /\ ~Collides(w, new)
          /\ Does(w, [step    |-> "commit",
                      rows    |-> With(Kept(w), new),
                      dirty   |-> Dirty(w, new),
                      vectors |-> With(Without(unit[w].vectors, Gone(w)), VectorsOf(new))])
    /\ UNCHANGED <<disk, budget, pass, todo, history>>

\* A snapshot that is no longer the latest cannot be written from, a taken id
\* cannot be added: the dependency counts as failed.
Refused(w) ==
    /\ Step(w) = "write" /\ ~Locked
    /\ "rows" \in unit[w].behind \/ \E new \in Fresh(w) : Collides(w, new)
    /\ Ends(w)
    /\ Goes(FALSE)
    /\ UNCHANGED <<disk, budget, pass, todo>>

CommitRows(w) ==
    /\ Step(w) = "commit"
    /\ rows' = unit[w].rows
    /\ hash' = [hash EXCEPT ![unit[w].package] = unit[w].reading]
    /\ unit' = [LeftBehind(w, "rows", {"write"}) EXCEPT
                   ![w] = IF unit[w].dirty THEN [@ EXCEPT !.step = "dump"] ELSE NoUnit]
    /\ UNCHANGED <<source, file, temp, budget, pass, todo, history>>

\* The index goes to the temporary file; two at once leave one of them, or
\* something that opens as empty.
Dump(w) ==
    /\ Step(w) = "dump"
    /\ temp' \in {unit[w].vectors}
                 \cup IF \E v \in Workers : Step(v) = "replace" THEN {Empty} ELSE {}
    /\ Does(w, [step |-> "replace"])
    /\ UNCHANGED <<source, rows, hash, file, budget, pass, todo, history>>

Replace(w) ==
    /\ Step(w) = "replace" /\ temp # None
    /\ file' = temp
    /\ temp' = None
    /\ LET intended == "file" \notin unit[w].behind /\ temp = unit[w].vectors
       IN  torn' = (torn \/ ~intended) /\ repaired' = (repaired /\ intended)
    /\ unit' = [LeftBehind(w, "file", {"read", "write", "commit", "dump", "replace"})
                   EXCEPT ![w] = NoUnit]
    /\ UNCHANGED <<source, rows, hash, budget, pass, todo>>

\* Another unit of work has moved the temporary file away.
ReplaceFails(w) ==
    /\ Step(w) = "replace" /\ temp = None
    /\ Ends(w)
    /\ Goes(TRUE)
    /\ UNCHANGED <<disk, budget, pass, todo>>

Work(w) == \/ \E p \in Packages : Extract(w, p)
           \/ Open(w) \/ Read(w) \/ Write(w) \/ Refused(w)
           \/ CommitRows(w) \/ Dump(w) \/ Replace(w) \/ ReplaceFails(w)

-----------------------------------------------------------------------------
(* What goes wrong. *)

FileIsDue(w) == Step(w) \in {"dump", "replace"}

\* Any step raises: both children roll back, but what SQLite committed stays.
Fail(w) ==
    /\ Step(w) # "idle"
    /\ Spend("failures")
    /\ Ends(w)
    /\ Goes(FileIsDue(w))
    /\ UNCHANGED <<disk, pass, todo>>

ClearFails ==
    /\ pass \in {"clearing", "clearing file"}
    /\ Spend("failures")
    /\ pass' = "off" /\ todo' = {}
    /\ Goes(pass = "clearing file")
    /\ UNCHANGED <<disk, unit>>

Crash ==
    /\ pass # "off"
    /\ Spend("crashes")
    /\ pass' = "off" /\ todo' = {}
    /\ unit' = [w \in Workers |-> NoUnit]
    /\ Goes(pass = "clearing file" \/ \E w \in Workers : FileIsDue(w))
    /\ UNCHANGED disk

\* The file is truncated or of another version: it opens as an empty index.
Damage ==
    /\ pass = "off" /\ file # Empty
    /\ Spend("damages")
    /\ file' = Empty
    /\ Goes(TRUE)
    /\ UNCHANGED <<source, rows, hash, temp, pass, todo, unit>>

Trouble == ClearFails \/ Crash \/ Damage \/ \E w \in Workers : Fail(w)

Next == \/ \E p \in Packages : Edit(p)
        \/ \E force \in BOOLEAN : StartPass(force)
        \/ ClearRows \/ ClearFile \/ EndPass
        \/ \E w \in Workers : Work(w)
        \/ Trouble

Spec == Init /\ [][Next]_vars

-----------------------------------------------------------------------------
(* Properties. *)

IsTable(t) == /\ IsFiniteSet(DOMAIN t) /\ DOMAIN t \subseteq Nat \ {0}
              /\ t \in [DOMAIN t -> [package : Packages, text : Texts]]
IsIndex(f) == /\ DOMAIN f \subseteq Nat \ {0}
              /\ f \in [DOMAIN f -> EmbeddedTexts]
IsUnit(u) == /\ DOMAIN u = DOMAIN NoUnit
             /\ u.step \in {"open", "read", "write", "commit", "dump", "replace"}
             /\ u.package \in Packages /\ u.reading \in Readings
             /\ IsIndex(u.vectors) /\ IsTable(u.rows)
             /\ u.dirty \in BOOLEAN /\ u.behind \subseteq {"rows", "file"}

TypeOK ==
    /\ source \in [Packages -> Readings]
    /\ IsTable(rows) /\ IsIndex(file) /\ (temp = None \/ IsIndex(temp))
    /\ hash \in [Packages -> Readings \cup {None}]
    /\ pass \in {"off", "clearing", "clearing file", "working"}
    /\ todo \subseteq Packages
    /\ torn \in BOOLEAN /\ repaired \in BOOLEAN
    /\ DOMAIN unit = Workers
    /\ \A w \in Workers : unit[w] = NoUnit \/ (pass = "working" /\ IsUnit(unit[w]))

\* Nobody is between the two commits.
Settled == pass # "clearing file" /\ \A w \in Workers : ~FileIsDue(w)

\* StoresAgree: between units of work the vector file holds the vector of every
\* embedded row and nothing else ("the flag mirrors the .tq exactly"), whatever
\* failed and was rolled back, was refused, merged, deleted or given a rowid
\* again: unless the file was damaged, or a unit of work stopped between its two
\* commits, or overlapped another one's.
StoresAgree == Settled /\ ~torn => file = VectorsOf(rows)

\* RowsAreOneReading: a package with a hash holds exactly the chunks of the
\* reading that hash was taken from, repeated ones too: no partial merge is ever
\* committed, none is skipped on the next pass.
RowsAreOneReading ==
    \A p \in Packages : hash[p] # None => \A t \in Texts : Cardinality(RowsOf(p, t)) = hash[p][t]

\* WritesAreNotRefused: a reused rowid never meets a vector of its former row: the
\* add is not refused, unless the file lost the removal.
WritesAreNotRefused ==
    \A w \in Workers :
        Step(w) = "write" /\ ~Locked /\ unit[w].behind = {} /\ Settled /\ ~torn =>
           \A new \in Fresh(w) : ~Collides(w, new)

\* RepairRestoresVectors: a pass whose check found drift, and which nothing
\* disturbed, leaves every embedded row with its vector: the check clears the
\* hashes "so the next indexing sweep treats them as stale and re-extracts
\* (re-embedding the chunks in the process)".
RepairRestoresVectors == pass = "off" /\ repaired => Embedded(rows) = DOMAIN file
=============================================================================
