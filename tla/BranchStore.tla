----------------------------- MODULE BranchStore -----------------------------
(***************************************************************************)
(* The branches one bundle holds: chunk rows shared between branches, the  *)
(* extraction cache they are reused through, and their life cycle.         *)
(*                                                                         *)
(* A branch's membership names chunk rows; a row whose hash a pass needs   *)
(* is kept whichever branch wrote it, and freed, with its vector and every *)
(* cache row that names it, when the last branch lets go.  The checked-out *)
(* branch is indexed from its files, the others from git objects, file by  *)
(* file through the cache.  Branches are retired, pinned, purged by the    *)
(* operator's commands, or by the maintenance after each pass.             *)
(*                                                                         *)
(* A tree is path |-> [blob, module]: a file's module depends on the       *)
(* package markers around it as well as on its path, and two files may     *)
(* have the same one.  Every operation below is one SQLite transaction.    *)
(***************************************************************************)
EXTENDS Integers, FiniteSets, Functions

CONSTANTS Branches,
          Situations,  \* which trees there are, and what else may happen: records
                       \*   trees     the trees a branch may have
                       \*   keys      the extraction keys the settings may give
                       \*   between   another process may purge during a pass
          Copies,      \* blob |-> text |-> how many chunks of that text it gives
          MaxRowid,    \* bounds the rowids, and so the passes
          None

NoFiles == [p \in {} |-> None]

\* A branch's row, as far as its life cycle goes.
Records == [status : {"active", "inactive", "merged", "deleted"},
            served : BOOLEAN, pinned : BOOLEAN, due : {"never", "later", "now"}]

ASSUME BranchAssumption ==
    /\ IsFiniteSet(Branches) /\ None \notin Branches \cup Records /\ MaxRowid \in Nat
    /\ \A s \in Situations :
          /\ None \notin s.keys /\ s.between \in BOOLEAN
          /\ \A t \in s.trees :
                /\ IsFiniteSet(DOMAIN t)
                /\ \A p \in DOMAIN t : t[p].blob \in DOMAIN Copies /\ t[p].module # None
    /\ \A blob \in DOMAIN Copies :
          IsFiniteSet(DOMAIN Copies[blob]) /\ Copies[blob] \in [DOMAIN Copies[blob] -> Nat]

VARIABLES
    rows,       \* the project's chunks: rowid |-> [key, module, text], its hash
    vectors,    \* the rowids with a vector
    cache,      \* file_extractions: [path, blob, key, ids, module], the module its
                \* tree has, None without one
    record,     \* branch |-> one of Records, or None
    held,       \* branch_chunks: branch |-> {[id, path]}
    manifest,   \* branch_files: branch |-> its tree, with the key it was read under
    key,        \* the current extraction key
    reading,    \* the git-objects pass between its two transactions, or None
    situation

bundle == <<rows, vectors, cache, held, manifest>>
vars == <<bundle, record, key, reading, situation>>

NotIndexed == [files |-> NoFiles, key |-> None]

Init ==
    /\ rows = [i \in {} |-> None] /\ vectors = {} /\ cache = {}
    /\ record = [b \in Branches |-> None]
    /\ held = [b \in Branches |-> {}]
    /\ manifest = [b \in Branches |-> NotIndexed]
    /\ situation \in Situations
    /\ key \in situation.keys
    /\ reading = None

Without(f, ids) == Restrict(f, DOMAIN f \ ids)
With(f, g) == [i \in DOMAIN f \cup DOMAIN g |-> IF i \in DOMAIN g THEN g[i] ELSE f[i]]

Is(b, status) == record[b] # None /\ record[b].status = status
Served(b) == record[b] # None /\ record[b].served
Pinned(b) == record[b] # None /\ record[b].pinned

-----------------------------------------------------------------------------
(* Chunks and rows: diff_chunks_by_content_hash over the rows a pass may use. *)

\* The chunks of some files: the n-th of each text.
ChunksOf(t, paths) ==
    UNION {UNION {{<<p, x, n>> : n \in 1 .. Copies[t[p].blob][x]} : x \in DOMAIN Copies[t[p].blob]}
              : p \in paths}

Hash(t, k, chunk) == [key |-> k, module |-> t[chunk[1]].module, text |-> chunk[2]]

NextRowid == 1 + CHOOSE i \in {0} \cup DOMAIN rows : \A j \in DOMAIN rows : j <= i

\* Every way to pair the chunks with rows: per hash the first rows of the pool,
\* as many as there are chunks, then new ones.
Assignments(pool, t, k, paths) ==
    LET chunks == ChunksOf(t, paths)
        Wanted(h) == Cardinality({c \in chunks : Hash(t, k, c) = h})
        kept   == {i \in pool : Cardinality({j \in pool : rows[j] = rows[i] /\ j < i})
                                   < Wanted(rows[i])}
        added  == Cardinality(chunks) - Cardinality(kept)
    IN  {a \in Bijection(chunks, kept \cup NextRowid .. NextRowid + added - 1) :
            \A c \in chunks : a[c] \in kept => rows[a[c]] = Hash(t, k, c)}

\* The rows an assignment inserts.
Inserted(a, t, k) ==
    LET ids == Range(a) \ DOMAIN rows
    IN  [i \in ids |-> Hash(t, k, CHOOSE c \in DOMAIN a : a[c] = i)]

\* The extraction embeds the chunks of a hash beyond the rows that have it,
\* claimed or not: an insert for want of a claimed row gets no vector.
Embedded(new, claimed) ==
    {i \in DOMAIN new : Cardinality({j \in DOMAIN new : new[j] = new[i] /\ j < i})
                           >= Cardinality({c \in claimed \cap DOMAIN rows : rows[c] = new[i]})}

\* branch_chunks rows of an assignment.
MembershipRows(a) == {[id |-> a[c], path |-> c[1]] : c \in DOMAIN a}

-----------------------------------------------------------------------------
(* The extraction cache. *)

\* Two files of one module: neither gets artifacts of its own.
Shared(t, p) == \E q \in DOMAIN t \ {p} : t[q].module = t[p].module

\* Mutant: the row that was there stays beside the new one.
UpsertedBeside(a, t, k, paths) ==
    cache \cup {[path |-> p, blob |-> t[p].blob, key |-> k,
                 module |-> IF Shared(t, p) THEN None ELSE t[p].module,
                 ids |-> {a[c] : c \in {d \in DOMAIN a : d[1] = p}}] : p \in paths}

\* upsert_many: a file without artifacts leaves the tree the row had.
Upserted(a, t, k, paths) ==
    LET At(p, c) == c.path = p /\ c.blob = t[p].blob /\ c.key = k
        Tree(p)  == IF ~Shared(t, p) THEN t[p].module
                    ELSE LET before == {c \in cache : At(p, c)}
                         IN  IF before = {} THEN None ELSE (CHOOSE c \in before : TRUE).module
    IN  {c \in cache : \A p \in paths : ~At(p, c)}
        \cup {[path |-> p, blob |-> t[p].blob, key |-> k, module |-> Tree(p),
               ids |-> {a[c] : c \in {d \in DOMAIN a : d[1] = p}}] : p \in paths}

\* Mutant: a hit is kept beside another file of the same module.
ReusableIfModuleHolds(t, p, c) ==
    c.path = p /\ c.blob = t[p].blob /\ c.key = key /\ c.module = t[p].module

\* Mutant: the row's module is not compared with the one the branch gives.
ReusableAnyModule(t, p, c) ==
    /\ c.path = p /\ c.blob = t[p].blob /\ c.key = key
    /\ c.module # None /\ ~Shared(t, p)

\* split_cache_hits, then split_hits_by_module_id.
Reusable(t, p, c) ==
    /\ c.path = p /\ c.blob = t[p].blob /\ c.key = key
    /\ c.module = t[p].module /\ ~Shared(t, p)

\* path |-> the rows the cache names for it.
Hits(t) ==
    LET Row(p) == {c \in cache : Reusable(t, p, c)}
    IN  [p \in {q \in DOMAIN t : Row(q) # {}} |-> (CHOOSE c \in Row(p) : TRUE).ids]

-----------------------------------------------------------------------------
(* What ends every transaction that lets rows go. *)

\* collect_project_garbage, after held' and manifest': the rows no branch holds,
\* their vectors, the cache rows that name them, those of another key (a purge
\* knows none) and those of no manifest.
Collect(table, indexed, cached, k) ==
    LET freed == DOMAIN table \ UNION {{m.id : m \in held'[b]} : b \in Branches}
    IN  /\ rows' = Without(table, freed)
        /\ vectors' = indexed \ freed
        /\ cache' = {c \in cached :
                        /\ c.ids \cap freed = {}
                        /\ k \in {None, c.key}
                        /\ \E b \in Branches : LET files == manifest'[b].files
                              IN c.path \in DOMAIN files /\ files[c.path].blob = c.blob}

-----------------------------------------------------------------------------
(* The two passes. *)

\* Mutant: a pass writes the pin as it writes every other column.
StampUnpinned(b, served) ==
    [status |-> "active", served |-> served, pinned |-> FALSE, due |-> "never"]

\* An indexed branch is active again; only the operator's pin is kept.
Stamp(b, served) ==
    [status |-> "active", served |-> served, pinned |-> Pinned(b), due |-> "never"]

\* The rows bound: a pass that would need more of them is not started.
Fits(t) == NextRowid + Cardinality(ChunksOf(t, DOMAIN t)) <= MaxRowid + 1

\* branches_retired_by: the checkout's previous branch.
Previous(b) == {o \in Branches \ {b} : Served(o)}

\* reindex_package with the working tree's manifest, b checked out.
WorkingTreePass(b, t) ==
    /\ reading = None /\ t \in situation.trees /\ Fits(t)
    /\ \E a \in Assignments(DOMAIN rows, t, key, DOMAIN t) :
          LET new == Inserted(a, t, key)
          IN  /\ held' = [o \in Branches |->
                            IF o = b THEN MembershipRows(a)
                            ELSE IF o \in Previous(b) THEN {} ELSE held[o]]
              /\ manifest' = [o \in Branches |->
                            IF o = b THEN [files |-> t, key |-> key]
                            ELSE IF o \in Previous(b) THEN NotIndexed ELSE manifest[o]]
              /\ record' = [o \in Branches |->
                            IF o = b THEN Stamp(b, TRUE)
                            ELSE IF o \in Previous(b) THEN None ELSE record[o]]
              /\ Collect(With(rows, new), vectors \cup Embedded(new, {}),
                         Upserted(a, t, key, DOMAIN t), key)
    /\ UNCHANGED <<key, reading, situation>>

\* index_ref: what the cache has for the branch's tree is read in one
\* transaction.  The served branch is skipped.
ReadHits(b, t) ==
    /\ reading = None /\ t \in situation.trees /\ Fits(t)
    /\ ~Served(b)
    /\ reading' = [branch |-> b, tree |-> t, key |-> key, hits |-> Hits(t)]
    /\ UNCHANGED <<bundle, record, key, situation>>

\* run_branch_pass: the hits keep their rows, the other files' chunks take what
\* is left of everybody's, and the branch is stamped.
GitObjectsPass ==
    /\ reading # None
    /\ LET b == reading.branch
           t == reading.tree
           k == reading.key
           hits    == UNION {{[id |-> i, path |-> p] : i \in reading.hits[p]}
                                : p \in DOMAIN reading.hits}
           claimed == {m.id : m \in hits}
           misses  == DOMAIN t \ DOMAIN reading.hits
       IN  /\ ~Served(b)
           /\ \E a \in Assignments(DOMAIN rows \ claimed, t, k, misses) :
                 LET new == Inserted(a, t, k)
                 IN  \* branch_chunks has one row for each branch and id
                     /\ claimed \cap Range(a) = {}
                     /\ \A m, n \in hits : m.id = n.id => m = n
                     /\ held' = [held EXCEPT ![b] = hits \cup MembershipRows(a)]
                     /\ manifest' = [manifest EXCEPT ![b] = [files |-> t, key |-> k]]
                     /\ record' = [record EXCEPT ![b] = Stamp(b, FALSE)]
                     /\ Collect(With(rows, new), vectors \cup Embedded(new, claimed),
                                Upserted(a, t, k, misses), k)
    /\ reading' = None
    /\ UNCHANGED <<key, situation>>

\* git fails, a path is refused, a write raises: nothing was written.
AbandonPass ==
    /\ reading # None
    /\ reading' = None
    /\ UNCHANGED <<bundle, record, key, situation>>

\* The settings or a grammar change, the process starts again.
ChangeKey ==
    /\ \E k \in situation.keys \ {key} : key' = k
    /\ reading' = None
    /\ UNCHANGED <<bundle, record, situation>>

-----------------------------------------------------------------------------
(* The life cycle: the operator's verbs, from a process of their own, and the *)
(* maintenance, which runs between passes.                                  *)

Retired(b, status, due) ==
    record' = [record EXCEPT ![b].status = status, ![b].due = due]

SetPinned(b, pinned) ==
    /\ record[b] # None
    /\ record' = [record EXCEPT ![b].pinned = pinned]
    /\ UNCHANGED <<bundle, key, reading, situation>>

ManualStatus(b) == IF Is(b, "active") THEN "inactive" ELSE record[b].status

Retire(b) ==
    /\ record[b] # None /\ ~Served(b)
    /\ Retired(b, ManualStatus(b), "later")
    /\ UNCHANGED <<bundle, key, reading, situation>>

\* purge_branch_rows: the rows go, the record stays.
Emptied(purged) ==
    /\ held' = [b \in Branches |-> IF b \in purged THEN {} ELSE held[b]]
    /\ manifest' = [b \in Branches |-> IF b \in purged THEN NotIndexed ELSE manifest[b]]
    /\ Collect(rows, vectors, cache, None)
    /\ UNCHANGED <<key, reading, situation>>

Purge(b) ==
    /\ reading = None \/ situation.between
    /\ record[b] # None /\ ~Served(b)
    /\ IF Is(b, "active") THEN Retired(b, "inactive", "now") ELSE UNCHANGED record
    /\ Emptied({b})

\* apply_merge_verdicts, retire_deleted: git decides which, but never the served
\* branch, never a pinned one.
RetireAutomatically(b, status) ==
    /\ reading = None
    /\ Is(b, "active") \/ Is(b, "inactive")
    /\ ~Pinned(b) /\ ~Served(b)
    /\ Retired(b, status, "later")
    /\ UNCHANGED <<bundle, key, reading, situation>>

GraceEnds(b) ==
    /\ record[b] # None /\ record[b].due = "later"
    /\ record' = [record EXCEPT ![b].due = "now"]
    /\ UNCHANGED <<bundle, key, reading, situation>>

IsPurgeDue(b) ==
    /\ record[b] # None /\ record[b].due = "now"
    /\ record[b].status \in {"inactive", "merged", "deleted"}
    /\ ~Pinned(b) /\ ~Served(b)
    /\ held[b] # {} \/ manifest[b] # NotIndexed

\* purge_due; spared is checked out, for git, but not served yet.
PurgeDue(spared) ==
    /\ reading = None
    /\ LET due == {b \in Branches \ spared : IsPurgeDue(b)}
       IN  due # {} /\ Emptied(due)
    /\ UNCHANGED record

Lifecycle ==
    \/ \E b \in Branches, pinned \in BOOLEAN : SetPinned(b, pinned)
    \/ \E b \in Branches : Retire(b) \/ Purge(b) \/ GraceEnds(b)
    \/ \E b \in Branches, status \in {"merged", "deleted"} : RetireAutomatically(b, status)
    \/ \E spared \in SUBSET Branches : PurgeDue(spared)

Next ==
    \/ \E b \in Branches, t \in situation.trees : WorkingTreePass(b, t) \/ ReadHits(b, t)
    \/ GitObjectsPass \/ AbandonPass \/ ChangeKey
    \/ Lifecycle

Spec == Init /\ [][Next]_vars

-----------------------------------------------------------------------------
(* Properties. *)

Keys == UNION {s.keys : s \in Situations}
Trees == UNION {s.trees : s \in Situations}
Paths == UNION {DOMAIN t : t \in Trees}

TypeOK ==
    /\ situation \in Situations /\ key \in situation.keys
    /\ DOMAIN rows \subseteq 1 .. MaxRowid /\ vectors \subseteq 1 .. MaxRowid
    /\ \A i \in DOMAIN rows : rows[i].key \in Keys
    /\ \A c \in cache : /\ c.path \in Paths /\ c.blob \in DOMAIN Copies /\ c.key \in Keys
                        /\ c.ids \subseteq 1 .. MaxRowid
    /\ \A c, d \in cache : <<c.path, c.blob, c.key>> = <<d.path, d.blob, d.key>> => c = d
    /\ record \in [Branches -> {None} \cup Records]
    /\ held \in [Branches -> SUBSET [id : 1 .. MaxRowid, path : Paths]]
    /\ manifest \in [Branches -> {NotIndexed} \cup [files : Trees, key : Keys]]
    /\ reading # None => reading.branch \in Branches /\ reading.tree \in situation.trees

\* The chunks of one file, by what they are hashed from.
IsFile(ids, t, k, p) ==
    /\ ids \subseteq DOMAIN rows
    /\ Cardinality(ids) = Cardinality(ChunksOf(t, {p}))
    /\ \A c \in ChunksOf(t, {p}) :
          Cardinality({i \in ids : rows[i] = Hash(t, k, c)}) = Copies[t[p].blob][c[2]]

\* BranchesHoldTheirTrees: whatever passes, purges and reused rowids came before,
\* and whichever branch wrote them, a branch holds exactly the chunks of the tree
\* it was indexed at, each file its own.
BranchesHoldTheirTrees ==
    \A b \in Branches :
        LET t == manifest[b].files
        IN  /\ \A p \in DOMAIN t :
                  IsFile({m.id : m \in {n \in held[b] : n.path = p}}, t, manifest[b].key, p)
            /\ Cardinality({m.id : m \in held[b]}) = Cardinality(ChunksOf(t, DOMAIN t))
            /\ Cardinality(held[b]) = Cardinality(ChunksOf(t, DOMAIN t))

HeldIds == UNION {{m.id : m \in held[b]} : b \in Branches}

\* NothingLeaks: a chunk row is there while a branch holds it and no longer, and
\* has its vector all that time.
NothingLeaks == DOMAIN rows = HeldIds /\ vectors = DOMAIN rows

\* HitsAreRight: what the cache has for a file is that file, at the module this
\* branch gives it: "a file whose module id another file shares gets no artifacts
\* ..., so it stays a miss rather than a wrong hit".
HitsAreRight ==
    reading # None =>
       \A p \in DOMAIN reading.hits : IsFile(reading.hits[p], reading.tree, reading.key, p)

\* PinnedSurvives: "exempt from every automatic removal": no pass and no
\* maintenance unpins, retires or empties a pinned branch; only the operator's own
\* unpinning, retirement or purge of it does, or leaving it for another checkout.
PinnedSurvives ==
    [][\A b \in Branches : Pinned(b) =>
          \/ /\ Pinned(b)'
             /\ record'[b].status \in {"active", record[b].status}
             /\ manifest'[b] = NotIndexed => manifest[b] = NotIndexed
          \/ SetPinned(b, FALSE) \/ Retire(b) \/ Purge(b)
          \/ Served(b) /\ \E o \in Branches \ {b} : Served(o)']_vars
=============================================================================
