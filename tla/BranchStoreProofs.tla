-------------------------- MODULE BranchStoreProofs --------------------------
(***************************************************************************)
(* Proofs about BranchStore for any branches, trees, extraction keys and   *)
(* bounds: the types; a pinned branch outlives every pass and every        *)
(* maintenance; as long as nobody purges while a git-objects pass runs,    *)
(* nothing names a row that garbage collection has freed; and then, where  *)
(* a file that shares its module has it in every tree, each branch holds   *)
(* the chunks of its tree, no row and no vector more, and each hit is the  *)
(* file it is taken for.                                                   *)
(***************************************************************************)
EXTENDS BranchStore, FiniteSetTheorems, FunctionTheorems, TLAPS

\* What the actions take for granted of the branches' rows and of a pass.
LifeInv ==
    /\ record \in [Branches -> {None} \cup Records]
    /\ DOMAIN held = Branches /\ DOMAIN manifest = Branches
    /\ situation \in Situations /\ key \in situation.keys
    /\ reading # None => reading.branch \in Branches /\ reading.key \in situation.keys

\* The rows are those a branch holds; vectors, cache rows and what a pass has read
\* of the cache name no other.
OnlyHeldRows ==
    /\ DOMAIN rows = HeldIds
    /\ vectors \subseteq DOMAIN rows
    /\ \A c \in cache : c.ids \subseteq DOMAIN rows
    /\ reading # None =>
          \A p \in DOMAIN reading.hits : reading.hits[p] \subseteq DOMAIN rows

RowsInv == ~situation.between => OnlyHeldRows

IInv == LifeInv /\ RowsInv

-----------------------------------------------------------------------------
(* Lemmas about the operators. *)

\* Garbage collection leaves the held rows and nothing that names another.
LEMMA CollectKeepsHeld ==
    ASSUME NEW table, NEW indexed, NEW cached, NEW k,
           Collect(table, indexed, cached, k),
           HeldIds' \subseteq DOMAIN table,
           indexed \subseteq DOMAIN table,
           \A c \in cached : c.ids \subseteq DOMAIN table
    PROVE  /\ DOMAIN rows' = HeldIds'
           /\ vectors' \subseteq DOMAIN rows'
           /\ \A c \in cache' : c.ids \subseteq DOMAIN rows'
<1> DEFINE freed == DOMAIN table \ HeldIds'
<1>1. /\ rows' = Without(table, freed)
      /\ vectors' = indexed \ freed
      /\ \A c \in cache' : c \in cached /\ c.ids \cap freed = {}
  BY DEF Collect, HeldIds
<1>2. DOMAIN rows' = DOMAIN table \ freed
  BY <1>1 DEF Without, Restrict
<1> QED  BY <1>1, <1>2

\* What a pass writes names rows that were there or that it inserts.
LEMMA AssignedRows ==
    ASSUME NEW a, NEW t, NEW k, NEW claimed
    PROVE  LET table == With(rows, Inserted(a, t, k))
           IN  /\ DOMAIN table = DOMAIN rows \cup Range(a)
               /\ {m.id : m \in MembershipRows(a)} = Range(a)
               /\ Embedded(Inserted(a, t, k), claimed) \subseteq DOMAIN table
<1>1. DOMAIN Inserted(a, t, k) = Range(a) \ DOMAIN rows
  BY DEF Inserted
<1>2. DOMAIN With(rows, Inserted(a, t, k)) = DOMAIN rows \cup Range(a)
  BY <1>1 DEF With
<1>3. {m.id : m \in MembershipRows(a)} = Range(a)
  <2>1. \A m \in MembershipRows(a) : m.id \in Range(a)
    BY DEF MembershipRows, Range
  <2>2. ASSUME NEW i \in Range(a)
        PROVE  \E m \in MembershipRows(a) : m.id = i
    <3>1. PICK c \in DOMAIN a : a[c] = i
      BY DEF Range
    <3>2. [id |-> a[c], path |-> c[1]] \in MembershipRows(a)
      BY DEF MembershipRows
    <3> QED  BY <3>1, <3>2
  <2> QED  BY <2>1, <2>2
<1>4. Embedded(Inserted(a, t, k), claimed) \subseteq DOMAIN Inserted(a, t, k)
  BY DEF Embedded
<1> QED  BY <1>1, <1>2, <1>3, <1>4

\* So do the cache rows it upserts.
LEMMA UpsertedRows ==
    ASSUME NEW a, NEW t, NEW k, NEW paths, NEW c \in Upserted(a, t, k, paths)
    PROVE  c \in cache \/ c.ids \subseteq Range(a)
BY DEF Upserted, Range

\* A hit is what a cache row names.
LEMMA HitsAreCached ==
    ASSUME NEW t, NEW p \in DOMAIN Hits(t)
    PROVE  \E c \in cache : Hits(t)[p] = c.ids
<1> DEFINE Row(q) == {c \in cache : Reusable(t, q, c)}
<1>1. Hits(t) = [q \in {r \in DOMAIN t : Row(r) # {}} |-> (CHOOSE c \in Row(q) : TRUE).ids]
  BY DEF Hits
<1>2. Row(p) # {} /\ Hits(t)[p] = (CHOOSE c \in Row(p) : TRUE).ids
  BY <1>1
<1>3. (CHOOSE c \in Row(p) : TRUE) \in Row(p)
  BY <1>2
<1> QED  BY <1>2, <1>3

-----------------------------------------------------------------------------
(* The life cycle of the branches' rows. *)

LEMMA StampIsRecord ==
    ASSUME LifeInv, NEW b \in Branches, NEW served \in BOOLEAN
    PROVE  /\ Stamp(b, served) \in Records /\ Stamp(b, served) # None
           /\ Stamp(b, served).status = "active" /\ Stamp(b, served).served = served
           /\ Stamp(b, served).pinned = Pinned(b)
<1>1. Pinned(b) \in BOOLEAN
  BY Zenon DEF Pinned
<1>2. Stamp(b, served) \in Records
  BY <1>1 DEF Stamp, Records
<1> QED  BY <1>2, BranchAssumption DEF Stamp

\* What remains of a row when its status, its due date or its pin changes.
LEMMA ChangedRecord ==
    ASSUME LifeInv, NEW b \in Branches, record[b] # None,
           NEW status \in {"active", "inactive", "merged", "deleted"},
           NEW due \in {"never", "later", "now"}, NEW pinned \in BOOLEAN
    PROVE  /\ [record EXCEPT ![b].status = status, ![b].due = due]
                 \in [Branches -> {None} \cup Records]
           /\ [record EXCEPT ![b].due = due] \in [Branches -> {None} \cup Records]
           /\ [record EXCEPT ![b].pinned = pinned] \in [Branches -> {None} \cup Records]
<1>1. record[b] \in Records
  BY DEF LifeInv
<1> QED  BY <1>1 DEF LifeInv, Records

LEMMA InitLife == Init => LifeInv
BY DEF Init, LifeInv

LEMMA NextLife ==
    ASSUME LifeInv, [Next]_vars
    PROVE  LifeInv'
<1> USE DEF bundle
<1>1. CASE UNCHANGED vars
  BY <1>1 DEF LifeInv, vars
<1>2. ASSUME NEW b \in Branches, NEW t, WorkingTreePass(b, t)
      PROVE  LifeInv'
  BY <1>2, StampIsRecord DEF LifeInv, WorkingTreePass
<1>3. ASSUME NEW b \in Branches, NEW t, ReadHits(b, t)
      PROVE  LifeInv'
  BY <1>3 DEF LifeInv, ReadHits
<1>4. CASE GitObjectsPass
  <2> DEFINE b == reading.branch
  <2>1. /\ b \in Branches /\ reading' = None
        /\ record' = [record EXCEPT ![b] = Stamp(b, FALSE)]
        /\ UNCHANGED <<key, situation>>
        /\ DOMAIN held' = DOMAIN held /\ DOMAIN manifest' = DOMAIN manifest
    BY <1>4 DEF GitObjectsPass, LifeInv
  <2>2. Stamp(b, FALSE) \in Records
    BY <2>1, StampIsRecord
  <2> QED  BY <2>1, <2>2 DEF LifeInv
<1>5. CASE AbandonPass
  BY <1>5 DEF LifeInv, AbandonPass
<1>6. CASE ChangeKey
  BY <1>6 DEF LifeInv, ChangeKey
<1>7. ASSUME NEW b \in Branches, NEW pinned \in BOOLEAN, SetPinned(b, pinned)
      PROVE  LifeInv'
  BY <1>7, ChangedRecord DEF LifeInv, SetPinned
<1>8. ASSUME NEW b \in Branches, Retire(b)
      PROVE  LifeInv'
  <2>1. ManualStatus(b) \in {"active", "inactive", "merged", "deleted"}
    BY <1>8 DEF Retire, ManualStatus, LifeInv, Records
  <2> QED  BY <1>8, <2>1, ChangedRecord DEF LifeInv, Retire, Retired
<1>9. ASSUME NEW b \in Branches, Purge(b)
      PROVE  LifeInv'
  <2>1. record' \in [Branches -> {None} \cup Records]
    <3>1. CASE Is(b, "active")
      <4>1. record' = [record EXCEPT ![b].status = "inactive", ![b].due = "now"]
        BY <1>9, <3>1 DEF Purge, Retired
      <4> QED  BY <1>9, <4>1, ChangedRecord DEF Purge
    <3>2. CASE ~Is(b, "active")
      BY <1>9, <3>2 DEF LifeInv, Purge
    <3> QED  BY <3>1, <3>2
  <2> QED  BY <1>9, <2>1 DEF LifeInv, Purge, Emptied
<1>10. ASSUME NEW b \in Branches, GraceEnds(b)
      PROVE  LifeInv'
  BY <1>10, ChangedRecord DEF LifeInv, GraceEnds
<1>11. ASSUME NEW b \in Branches, NEW status \in {"merged", "deleted"},
              RetireAutomatically(b, status)
      PROVE  LifeInv'
  <2>1. record[b] # None
    BY <1>11 DEF RetireAutomatically, Is
  <2> QED  BY <1>11, <2>1, ChangedRecord DEF LifeInv, RetireAutomatically, Retired
<1>12. ASSUME NEW spared, PurgeDue(spared)
      PROVE  LifeInv'
  BY <1>12 DEF LifeInv, PurgeDue, Emptied
<1> QED  BY <1>1, <1>2, <1>3, <1>4, <1>5, <1>6, <1>7, <1>8, <1>9, <1>10, <1>11, <1>12
         DEF Next, Lifecycle

-----------------------------------------------------------------------------
(* No name outlives its row. *)

LEMMA InitRows == Init => RowsInv
BY DEF Init, RowsInv, OnlyHeldRows, HeldIds

\* A pass: the rows it inserts are held by its branch.
LEMMA PassKeepsRows ==
    ASSUME OnlyHeldRows, NEW b \in Branches, NEW t, NEW k, NEW a, NEW paths,
           NEW claimed,
           \A m \in held'[b] : m.id \in DOMAIN rows \cup Range(a),
           \A o \in Branches \ {b} : held'[o] \subseteq held[o],
           Collect(With(rows, Inserted(a, t, k)),
                   vectors \cup Embedded(Inserted(a, t, k), claimed),
                   Upserted(a, t, k, paths), k)
    PROVE  /\ DOMAIN rows' = HeldIds'
           /\ vectors' \subseteq DOMAIN rows'
           /\ \A c \in cache' : c.ids \subseteq DOMAIN rows'
<1> DEFINE table == With(rows, Inserted(a, t, k))
           indexed == vectors \cup Embedded(Inserted(a, t, k), claimed)
<1>1. DOMAIN table = DOMAIN rows \cup Range(a)
  BY AssignedRows
<1>2. indexed \subseteq DOMAIN table
  BY <1>1, AssignedRows DEF OnlyHeldRows
<1>3. \A c \in Upserted(a, t, k, paths) : c.ids \subseteq DOMAIN table
  BY <1>1, UpsertedRows DEF OnlyHeldRows
<1>4. HeldIds' \subseteq DOMAIN table
  <2>1. \A m \in held'[b] : m.id \in DOMAIN table
    BY <1>1, AssignedRows
  <2>2. \A o \in Branches \ {b} : \A m \in held'[o] : m.id \in DOMAIN table
    BY <1>1 DEF OnlyHeldRows, HeldIds
  <2> QED  BY <2>1, <2>2 DEF HeldIds
<1> QED  BY <1>2, <1>3, <1>4, CollectKeepsHeld

\* A purge: what it empties lets its rows go.
LEMMA PurgeKeepsRows ==
    ASSUME LifeInv, OnlyHeldRows, NEW purged, Emptied(purged),
           reading = None
    PROVE  OnlyHeldRows'
<1>1. HeldIds' \subseteq DOMAIN rows
  BY DEF Emptied, OnlyHeldRows, HeldIds
<1>2. Collect(rows, vectors, cache, None)
  BY DEF Emptied
<1>3. /\ DOMAIN rows' = HeldIds'
      /\ vectors' \subseteq DOMAIN rows'
      /\ \A c \in cache' : c.ids \subseteq DOMAIN rows'
  BY <1>1, <1>2, CollectKeepsHeld DEF OnlyHeldRows
<1>4. reading' = None
  BY DEF Emptied
<1> QED  BY <1>3, <1>4 DEF OnlyHeldRows

LEMMA NextRows ==
    ASSUME LifeInv, RowsInv, [Next]_vars
    PROVE  RowsInv'
<1> SUFFICES ASSUME ~situation'.between PROVE OnlyHeldRows'
  BY DEF RowsInv
<1> USE DEF bundle
<1>1. situation' = situation
  BY DEF Next, vars, WorkingTreePass, ReadHits, GitObjectsPass, AbandonPass, ChangeKey,
         Lifecycle,
         SetPinned, Retire, Purge, GraceEnds, RetireAutomatically, PurgeDue, Emptied
<1>2. OnlyHeldRows
  BY <1>1 DEF RowsInv
<1>3. CASE UNCHANGED <<bundle, reading>>
  BY <1>2, <1>3 DEF OnlyHeldRows, HeldIds
<1>4. CASE UNCHANGED bundle /\ reading' = None
  BY <1>2, <1>4 DEF OnlyHeldRows, HeldIds
<1>5. ASSUME NEW b \in Branches, NEW t, ReadHits(b, t)
      PROVE  OnlyHeldRows'
  <2>1. UNCHANGED bundle /\ reading'.hits = Hits(t)
    BY <1>5 DEF ReadHits
  <2>2. \A p \in DOMAIN Hits(t) : Hits(t)[p] \subseteq DOMAIN rows
    BY <1>2, HitsAreCached DEF OnlyHeldRows
  <2> QED  BY <1>2, <2>1, <2>2 DEF OnlyHeldRows, HeldIds
<1>6. ASSUME NEW b \in Branches, NEW t, WorkingTreePass(b, t)
      PROVE  OnlyHeldRows'
  <2>1. PICK a : /\ held' = [o \in Branches |->
                               IF o = b THEN MembershipRows(a)
                               ELSE IF o \in Previous(b) THEN {} ELSE held[o]]
                 /\ Collect(With(rows, Inserted(a, t, key)),
                            vectors \cup Embedded(Inserted(a, t, key), {}),
                            Upserted(a, t, key, DOMAIN t), key)
    BY <1>6 DEF WorkingTreePass
  <2>2. /\ \A m \in held'[b] : m.id \in DOMAIN rows \cup Range(a)
        /\ \A o \in Branches \ {b} : held'[o] \subseteq held[o]
    BY <2>1, AssignedRows
  <2>3. /\ DOMAIN rows' = HeldIds'
        /\ vectors' \subseteq DOMAIN rows'
        /\ \A c \in cache' : c.ids \subseteq DOMAIN rows'
    BY <1>2, <2>1, <2>2, PassKeepsRows
  <2>4. reading' = None
    BY <1>6 DEF WorkingTreePass
  <2> QED  BY <2>3, <2>4 DEF OnlyHeldRows
<1>7. CASE GitObjectsPass
  <2> DEFINE b == reading.branch
             t == reading.tree
             k == reading.key
             hits == UNION {{[id |-> i, path |-> p] : i \in reading.hits[p]}
                               : p \in DOMAIN reading.hits}
             claimed == {m.id : m \in hits}
             misses == DOMAIN t \ DOMAIN reading.hits
  <2>1. PICK a : /\ held' = [held EXCEPT ![b] = hits \cup MembershipRows(a)]
                 /\ Collect(With(rows, Inserted(a, t, k)),
                            vectors \cup Embedded(Inserted(a, t, k), claimed),
                            Upserted(a, t, k, misses), k)
    BY <1>7 DEF GitObjectsPass
  <2>2. b \in Branches
    BY <1>7 DEF GitObjectsPass, LifeInv
  <2>3. \A m \in hits : m.id \in DOMAIN rows
    BY <1>2, <1>7 DEF OnlyHeldRows, GitObjectsPass
  <2>4. /\ \A m \in held'[b] : m.id \in DOMAIN rows \cup Range(a)
        /\ \A o \in Branches \ {b} : held'[o] \subseteq held[o]
    BY <2>1, <2>2, <2>3, AssignedRows DEF LifeInv
  <2>5. /\ DOMAIN rows' = HeldIds'
        /\ vectors' \subseteq DOMAIN rows'
        /\ \A c \in cache' : c.ids \subseteq DOMAIN rows'
    BY <1>2, <2>1, <2>2, <2>4, PassKeepsRows
  <2>6. reading' = None
    BY <1>7 DEF GitObjectsPass
  <2> QED  BY <2>5, <2>6 DEF OnlyHeldRows
<1>8. ASSUME NEW b \in Branches, Purge(b)
      PROVE  OnlyHeldRows'
  BY <1>1, <1>2, <1>8, PurgeKeepsRows DEF Purge
<1>9. ASSUME NEW spared, PurgeDue(spared)
      PROVE  OnlyHeldRows'
  <2>1. reading = None /\ \E due : Emptied(due)
    BY <1>9 DEF PurgeDue
  <2> QED  BY <1>2, <2>1, PurgeKeepsRows
<1> QED  BY <1>3, <1>4, <1>5, <1>6, <1>7, <1>8, <1>9
         DEF Next, vars, Lifecycle, AbandonPass, ChangeKey, SetPinned, Retire, GraceEnds,
             RetireAutomatically

LEMMA Invariance == Spec => []IInv
<1>1. Init => IInv
  BY InitLife, InitRows DEF IInv
<1>2. IInv /\ [Next]_vars => IInv'
  BY NextLife, NextRows DEF IInv
<1> QED  BY <1>1, <1>2, PTL DEF Spec

-----------------------------------------------------------------------------
(* A pin holds. *)

\* What a step leaves of a pinned branch, unless the operator asks for it.
Survives(b) ==
    /\ Pinned(b)'
    /\ record'[b].status \in {"active", record[b].status}
    /\ manifest'[b] = NotIndexed => manifest[b] = NotIndexed

LEMMA KeptSurvives ==
    ASSUME NEW b, Pinned(b), record'[b] = record[b], manifest'[b] = manifest[b]
    PROVE  Survives(b)
BY DEF Survives, Pinned

LEMMA StampedSurvives ==
    ASSUME LifeInv, NEW b \in Branches, NEW served \in BOOLEAN, NEW t, NEW k \in situation.keys,
           Pinned(b), record'[b] = Stamp(b, served), manifest'[b] = [files |-> t, key |-> k]
    PROVE  Survives(b)
<1>1. /\ record'[b] # None /\ record'[b].status = "active"
      /\ record'[b].pinned = Pinned(b)
  BY StampIsRecord
<1>2. k # None
  BY BranchAssumption DEF LifeInv
<1>3. manifest'[b] # NotIndexed
  BY <1>2 DEF NotIndexed
<1> QED  BY <1>1, <1>3 DEF Survives, Pinned

LEMMA StepKeepsPins ==
    ASSUME LifeInv, [Next]_vars, NEW b \in Branches, Pinned(b)
    PROVE  \/ Survives(b)
           \/ SetPinned(b, FALSE) \/ Retire(b) \/ Purge(b)
           \/ Served(b) /\ \E o \in Branches \ {b} : Served(o)'
<1> USE DEF bundle
<1>1. CASE UNCHANGED <<record, manifest>>
  BY <1>1, KeptSurvives
<1>2. ASSUME NEW c \in Branches, NEW t, WorkingTreePass(c, t)
      PROVE  Survives(b) \/ (Served(b) /\ \E o \in Branches \ {b} : Served(o)')
  <2>1. CASE b = c
    <3>1. record'[b] = Stamp(b, TRUE) /\ manifest'[b] = [files |-> t, key |-> key]
      BY <1>2, <2>1 DEF WorkingTreePass
    <3> QED  BY <3>1, StampedSurvives DEF LifeInv
  <2>2. CASE b # c /\ b \in Previous(c)
    <3>1. record'[c] = Stamp(c, TRUE)
      BY <1>2 DEF WorkingTreePass
    <3>2. Served(c)'
      BY <3>1, StampIsRecord DEF Served
    <3> QED  BY <2>2, <3>2 DEF Previous
  <2>3. CASE b # c /\ b \notin Previous(c)
    BY <1>2, <2>3, KeptSurvives DEF WorkingTreePass
  <2> QED  BY <2>1, <2>2, <2>3
<1>3. CASE GitObjectsPass
  <2> DEFINE c == reading.branch
  <2>1. /\ record' = [record EXCEPT ![c] = Stamp(c, FALSE)]
        /\ manifest' = [manifest EXCEPT ![c] = [files |-> reading.tree, key |-> reading.key]]
        /\ reading.key \in situation.keys
    BY <1>3 DEF GitObjectsPass, LifeInv
  <2>2. CASE b = c
    BY <2>1, <2>2, StampedSurvives DEF LifeInv
  <2>3. CASE b # c
    BY <2>1, <2>3, KeptSurvives DEF LifeInv
  <2> QED  BY <2>2, <2>3
<1>4. ASSUME NEW c \in Branches, NEW pinned \in BOOLEAN, SetPinned(c, pinned)
      PROVE  Survives(b) \/ SetPinned(b, FALSE)
  <2>1. CASE b = c /\ pinned
    <3>1. record[b] \in Records
      BY DEF LifeInv, Pinned
    <3>2. record'[b] = [record[b] EXCEPT !.pinned = pinned] /\ UNCHANGED manifest
      BY <1>4, <2>1 DEF SetPinned, LifeInv
    <3>3. record'[b] \in Records /\ record'[b].pinned /\ record'[b].status = record[b].status
      BY <2>1, <3>1, <3>2 DEF Records
    <3> QED  BY <3>2, <3>3, BranchAssumption DEF Survives, Pinned
  <2>2. CASE b # c
    BY <1>4, <2>2, KeptSurvives DEF SetPinned, LifeInv
  <2> QED  BY <1>4, <2>1, <2>2
<1>5. ASSUME NEW c \in Branches \ {b}, Retire(c) \/ Purge(c)
      PROVE  Survives(b)
  <2>1. record'[b] = record[b]
    BY <1>5 DEF Retire, Purge, Retired, LifeInv
  <2>2. manifest'[b] = manifest[b]
    BY <1>5 DEF Retire, Purge, Emptied, LifeInv
  <2> QED  BY <2>1, <2>2, KeptSurvives
<1>6. ASSUME NEW c \in Branches, GraceEnds(c)
      PROVE  Survives(b)
  BY <1>6, BranchAssumption DEF GraceEnds, Survives, Pinned, LifeInv, Records
<1>7. ASSUME NEW c \in Branches, NEW status \in {"merged", "deleted"},
             RetireAutomatically(c, status)
      PROVE  Survives(b)
  <2>1. c # b
    BY <1>7 DEF RetireAutomatically
  <2> QED  BY <1>7, <2>1, KeptSurvives DEF RetireAutomatically, Retired, LifeInv
<1>8. ASSUME NEW spared, PurgeDue(spared)
      PROVE  Survives(b)
  BY <1>8, KeptSurvives DEF PurgeDue, Emptied, IsPurgeDue
<1> QED  BY <1>1, <1>2, <1>3, <1>4, <1>5, <1>6, <1>7, <1>8
         DEF Next, vars, Lifecycle, ReadHits, AbandonPass, ChangeKey

-----------------------------------------------------------------------------
(* Trees, their chunks, and the rowids. *)

IsTree(t) == \E s \in Situations : t \in s.trees

\* The finitely many chunks of some files.
LEMMA UnionOfImage ==
    ASSUME NEW S, IsFiniteSet(S), NEW f, DOMAIN f = S, \A x \in S : IsFiniteSet(f[x])
    PROVE  IsFiniteSet(UNION {f[x] : x \in S})
<1> DEFINE All == {f[x] : x \in S}
<1>1. [x \in S |-> f[x]] \in Surjection(S, All)
  BY DEF Surjection
<1>2. IsFiniteSet(All)
  <2> HIDE DEF All
  <2> QED  BY <1>1, FS_Surjection
<1>3. \A T \in All : IsFiniteSet(T)
  OBVIOUS
<1> HIDE DEF All
<1>4. IsFiniteSet(UNION All)
  BY <1>2, <1>3, FS_UNION
<1> QED  BY <1>4 DEF All

\* The copies of one text.
LEMMA CopiesAre ==
    ASSUME NEW p, NEW x, NEW n \in Nat, NEW T, T = {<<p, x, i>> : i \in 1 .. n}
    PROVE  IsFiniteSet(T) /\ Cardinality(T) = n
<1> DEFINE f == [i \in 1 .. n |-> <<p, x, i>>]
<1>1. f \in Bijection(1 .. n, T)
  BY DEF Bijection, Injection, Surjection, IsInjective
<1>2. IsFiniteSet(1 .. n) /\ Cardinality(1 .. n) = n
  BY FS_Interval
<1>3. ExistsBijection(1 .. n, T)
  <2> HIDE DEF f
  <2> QED  BY <1>1 DEF ExistsBijection
<1> QED  BY <1>2, <1>3, FS_Bijection

\* What BranchAssumption says of a tree.
LEMMA TreeIs ==
    ASSUME NEW t, IsTree(t)
    PROVE  /\ IsFiniteSet(DOMAIN t)
           /\ \A p \in DOMAIN t :
                 /\ t[p].blob \in DOMAIN Copies /\ t[p].module # None
                 /\ IsFiniteSet(DOMAIN Copies[t[p].blob])
                 /\ \A x \in DOMAIN Copies[t[p].blob] : Copies[t[p].blob][x] \in Nat
BY BranchAssumption DEF IsTree

\* The chunks of some files are those of each.
LEMMA ChunksAre ==
    ASSUME NEW t, NEW paths
    PROVE  /\ \A c : c \in ChunksOf(t, paths) <=>
                 \E p \in paths : \E x \in DOMAIN Copies[t[p].blob] :
                    \E n \in 1 .. Copies[t[p].blob][x] : c = <<p, x, n>>
           /\ \A c \in ChunksOf(t, paths) : c[1] \in paths /\ c \in ChunksOf(t, {c[1]})
           /\ \A p \in paths : ChunksOf(t, {p}) = {c \in ChunksOf(t, paths) : c[1] = p}
<1>1. \A c : c \in ChunksOf(t, paths) <=>
                 \E p \in paths : \E x \in DOMAIN Copies[t[p].blob] :
                    \E n \in 1 .. Copies[t[p].blob][x] : c = <<p, x, n>>
  BY DEF ChunksOf
<1>2. \A p : \A c : c \in ChunksOf(t, {p}) <=>
                 \E x \in DOMAIN Copies[t[p].blob] :
                    \E n \in 1 .. Copies[t[p].blob][x] : c = <<p, x, n>>
  BY DEF ChunksOf
<1>3. \A c \in ChunksOf(t, paths) : c[1] \in paths /\ c \in ChunksOf(t, {c[1]})
  <2> TAKE c \in ChunksOf(t, paths)
  <2>1. PICK p \in paths : \E x \in DOMAIN Copies[t[p].blob] :
                 \E n \in 1 .. Copies[t[p].blob][x] : c = <<p, x, n>>
    BY <1>1
  <2>2. c[1] = p
    BY <2>1
  <2> QED  BY <2>1, <2>2, <1>2
<1>4. \A p \in paths : ChunksOf(t, {p}) = {c \in ChunksOf(t, paths) : c[1] = p}
  <2> TAKE p \in paths
  <2>1. ASSUME NEW c \in ChunksOf(t, {p})
        PROVE  c \in ChunksOf(t, paths) /\ c[1] = p
    <3>1. PICK x \in DOMAIN Copies[t[p].blob] :
             \E n \in 1 .. Copies[t[p].blob][x] : c = <<p, x, n>>
      BY <1>2
    <3> QED  BY <3>1, <1>1
  <2> QED  BY <2>1, <1>3
<1> QED  BY <1>1, <1>3, <1>4

LEMMA ChunksAreFinite ==
    ASSUME NEW t, IsTree(t), NEW paths \in SUBSET DOMAIN t
    PROVE  /\ IsFiniteSet(ChunksOf(t, paths)) /\ Cardinality(ChunksOf(t, paths)) \in Nat
           /\ Cardinality(ChunksOf(t, paths)) <= Cardinality(ChunksOf(t, DOMAIN t))
<1>1. ASSUME NEW S \in SUBSET DOMAIN t
      PROVE  IsFiniteSet(ChunksOf(t, S))
  <2> DEFINE Of(p, x) == {<<p, x, n>> : n \in 1 .. Copies[t[p].blob][x]}
             Texts(p) == UNION {Of(p, x) : x \in DOMAIN Copies[t[p].blob]}
  <2>1. ASSUME NEW p \in S, NEW x \in DOMAIN Copies[t[p].blob]
        PROVE  IsFiniteSet(Of(p, x))
    BY TreeIs, CopiesAre
  <2>2. ASSUME NEW p \in S
        PROVE  IsFiniteSet(Texts(p))
    <3> DEFINE f == [x \in DOMAIN Copies[t[p].blob] |-> Of(p, x)]
    <3>1. \A x \in DOMAIN Copies[t[p].blob] : IsFiniteSet(f[x]) /\ f[x] = Of(p, x)
      BY <2>1
    <3>2. IsFiniteSet(DOMAIN Copies[t[p].blob]) /\ DOMAIN f = DOMAIN Copies[t[p].blob]
      BY TreeIs
    <3>3. {f[x] : x \in DOMAIN Copies[t[p].blob]} = {Of(p, x) : x \in DOMAIN Copies[t[p].blob]}
      <4> HIDE DEF f, Of
      <4> QED  BY <3>1
    <3>4. Texts(p) = UNION {f[x] : x \in DOMAIN Copies[t[p].blob]}
      <4> HIDE DEF f, Of
      <4> QED  BY <3>3
    <3> HIDE DEF f, Texts
    <3> QED  BY <3>1, <3>2, <3>4, UnionOfImage
  <2> DEFINE g == [p \in S |-> Texts(p)]
  <2>3. \A p \in S : IsFiniteSet(g[p])
    <3> HIDE DEF Texts
    <3> QED  BY <2>2
  <2>4. IsFiniteSet(S) /\ DOMAIN g = S
    BY TreeIs, FS_Subset
  <2>5. ChunksOf(t, S) = UNION {g[p] : p \in S}
    BY DEF ChunksOf
  <2> HIDE DEF g
  <2> QED  BY <2>3, <2>4, <2>5, UnionOfImage
<1>2. ChunksOf(t, paths) \subseteq ChunksOf(t, DOMAIN t)
  BY DEF ChunksOf
<1> QED  BY <1>1, <1>2, FS_Subset, FS_CardinalityType

\* Among rowids there is a greatest.
LEMMA GreatestIs ==
    ASSUME NEW ids \in SUBSET (1 .. MaxRowid)
    PROVE  LET top == CHOOSE i \in {0} \cup ids : \A j \in ids : j <= i
           IN  top \in {0} \cup ids /\ \A j \in ids : j <= top
<1> DEFINE S == {0} \cup ids
           Bounds == {n \in Nat : \A i \in S : i <= n}
           Greatest(i) == \A j \in ids : j <= i
<1>1. S \subseteq Nat /\ MaxRowid \in Bounds
  BY BranchAssumption
<1>2. PICK n \in Bounds : \A m \in Bounds : ~(m < n)
  <2>1. Bounds \subseteq Nat /\ Bounds # {}
    BY <1>1
  <2> HIDE DEF Bounds
  <2>2. \E n \in Bounds : \A m \in Bounds : <<m, n>> \notin OpToRel(<, Nat)
    BY <2>1, WFMin, NatLessThanWellFounded
  <2> QED  BY <2>1, <2>2 DEF OpToRel
<1>3. n \in S
  <2> SUFFICES ASSUME n \notin S PROVE FALSE
    OBVIOUS
  <2>1. n - 1 \in Nat /\ \A i \in S : i <= n - 1
    BY <1>1, <1>2
  <2> QED  BY <2>1, <1>2
<1>4. \E i \in S : Greatest(i)
  BY <1>2, <1>3
<1> HIDE DEF S, Greatest
<1>5. (CHOOSE i \in S : Greatest(i)) \in S /\ Greatest(CHOOSE i \in S : Greatest(i))
  BY <1>4
<1> QED  BY <1>5 DEF S, Greatest

\* The next rowid is above every row's, by the least upper bound of the rowids.
LEMMA NextRowidIsFree ==
    ASSUME DOMAIN rows \subseteq 1 .. MaxRowid
    PROVE  /\ NextRowid \in Nat \ {0}
           /\ \A i \in DOMAIN rows : i < NextRowid
<1>1. PICK top : /\ top = CHOOSE i \in {0} \cup DOMAIN rows : \A j \in DOMAIN rows : j <= i
                 /\ top \in {0} \cup DOMAIN rows /\ \A j \in DOMAIN rows : j <= top
  BY GreatestIs
<1>2. NextRowid = 1 + top
  BY <1>1 DEF NextRowid
<1> QED  BY <1>1, <1>2

\* It falls when rows go.
LEMMA NextRowidFalls ==
    ASSUME DOMAIN rows \subseteq 1 .. MaxRowid, DOMAIN rows' \subseteq DOMAIN rows
    PROVE  NextRowid' \in Nat /\ NextRowid' <= NextRowid
<1>1. PICK top : /\ top = CHOOSE i \in {0} \cup DOMAIN rows' : \A j \in DOMAIN rows' : j <= i
                 /\ top \in {0} \cup DOMAIN rows'
  BY GreatestIs
<1>2. NextRowid' = 1 + top
  BY <1>1 DEF NextRowid
<1>3. NextRowid \in Nat \ {0} /\ \A i \in DOMAIN rows : i < NextRowid
  BY NextRowidIsFree
<1>4. top \in Nat /\ 1 + top <= NextRowid
  <2>1. CASE top = 0
    BY <1>3, <2>1
  <2>2. CASE top \in DOMAIN rows
    BY <1>3, <2>2, BranchAssumption
  <2> QED  BY <1>1, <2>1, <2>2
<1> QED  BY <1>2, <1>4

-----------------------------------------------------------------------------
(* Assignments, and what a branch or a cache row holds of a file. *)

\* What an assignment pairs, and the rows it inserts.
Assigned(a, pool, t, k, paths) ==
    /\ DOMAIN a = ChunksOf(t, paths)
    /\ \A c, d \in DOMAIN a : a[c] = a[d] => c = d
    /\ \A c \in DOMAIN a :
          \/ a[c] \in pool
          \/ a[c] \in NextRowid .. NextRowid + Cardinality(ChunksOf(t, paths)) - 1
    /\ DOMAIN Inserted(a, t, k) \cap DOMAIN rows = {}
    /\ \A i \in DOMAIN Inserted(a, t, k) :
          \E c \in DOMAIN a : a[c] = i /\ Inserted(a, t, k)[i] = Hash(t, k, c)
    /\ \A c \in DOMAIN a : With(rows, Inserted(a, t, k))[a[c]] = Hash(t, k, c)

LEMMA AssignmentIs ==
    ASSUME DOMAIN rows \subseteq 1 .. MaxRowid, NEW pool \in SUBSET DOMAIN rows,
           NEW t, IsTree(t), NEW paths \in SUBSET DOMAIN t, NEW k,
           NEW a \in Assignments(pool, t, k, paths)
    PROVE  Assigned(a, pool, t, k, paths)
<1> DEFINE chunks == ChunksOf(t, paths)
           Wanted(h) == Cardinality({c \in chunks : Hash(t, k, c) = h})
           kept == {i \in pool : Cardinality({j \in pool : rows[j] = rows[i] /\ j < i})
                                   < Wanted(rows[i])}
           added == Cardinality(chunks) - Cardinality(kept)
           fresh == NextRowid .. NextRowid + added - 1
           new == Inserted(a, t, k)
<1>1. /\ a \in Bijection(chunks, kept \cup fresh)
      /\ \A c \in chunks : a[c] \in kept => rows[a[c]] = Hash(t, k, c)
  BY DEF Assignments
<1>2. kept \subseteq pool
  OBVIOUS
<1> HIDE DEF chunks, kept
<1>3. /\ DOMAIN a = chunks
      /\ \A c \in chunks : a[c] \in kept \cup fresh
      /\ \A c, d \in chunks : a[c] = a[d] => c = d
  BY <1>1 DEF Bijection, Injection, IsInjective
<1>4. IsFiniteSet(kept) /\ Cardinality(kept) \in Nat /\ Cardinality(chunks) \in Nat
  <2>1. IsFiniteSet(1 .. MaxRowid)
    BY BranchAssumption, FS_Interval
  <2>2. kept \subseteq 1 .. MaxRowid
    BY <1>2
  <2> QED  BY <2>1, <2>2, FS_Subset, FS_CardinalityType, ChunksAreFinite DEF chunks
<1>5. NextRowid \in Nat /\ \A i \in DOMAIN rows : i < NextRowid
  BY NextRowidIsFree
<1>6. fresh \subseteq NextRowid .. NextRowid + Cardinality(chunks) - 1
  BY <1>4, <1>5
<1>7. fresh \cap DOMAIN rows = {}
  BY <1>5, <1>4
<1>8. \A c \in chunks : a[c] \in kept \/ (a[c] \in fresh /\ a[c] \notin DOMAIN rows)
  BY <1>3, <1>7
<1> HIDE DEF fresh
<1>9. /\ DOMAIN new = Range(a) \ DOMAIN rows
      /\ \A i \in DOMAIN new : new[i] = Hash(t, k, CHOOSE c \in DOMAIN a : a[c] = i)
  BY DEF Inserted
<1> HIDE DEF new
<1>10. ASSUME NEW c \in DOMAIN a, a[c] \notin DOMAIN rows
       PROVE  a[c] \in DOMAIN new /\ new[a[c]] = Hash(t, k, c)
  <2>1. a[c] \in DOMAIN new
    BY <1>9, <1>10 DEF Range
  <2>2. (CHOOSE d \in DOMAIN a : a[d] = a[c]) = c
    BY <1>3
  <2> QED  BY <2>1, <2>2, <1>9
<1>11. \A i \in DOMAIN new : \E c \in DOMAIN a : a[c] = i /\ new[i] = Hash(t, k, c)
  <2> TAKE i \in DOMAIN new
  <2>1. PICK c \in DOMAIN a : a[c] = i
    BY <1>9 DEF Range
  <2> QED  BY <2>1, <1>9, <1>10
<1>12. ASSUME NEW c \in DOMAIN a
       PROVE  With(rows, new)[a[c]] = Hash(t, k, c)
  <2>1. CASE a[c] \in kept
    <3>1. a[c] \in DOMAIN rows /\ a[c] \notin DOMAIN new /\ rows[a[c]] = Hash(t, k, c)
      BY <2>1, <1>1, <1>2, <1>3, <1>9
    <3> QED  BY <3>1 DEF With
  <2>2. CASE a[c] \notin DOMAIN rows
    BY <2>2, <1>10 DEF With
  <2> QED  BY <2>1, <2>2, <1>3, <1>8
<1>13. DOMAIN new \cap DOMAIN rows = {}
  BY <1>9
<1>14. \A c \in DOMAIN a :
          a[c] \in pool \/ a[c] \in NextRowid .. NextRowid + Cardinality(chunks) - 1
  BY <1>2, <1>3, <1>6, <1>8
<1> QED  BY <1>3, <1>11, <1>12, <1>13, <1>14 DEF chunks, new, Assigned

\* The rows of a file: one for each chunk, with its hash.
Holds(table, ids, t, k, p) ==
    /\ ids \subseteq DOMAIN table
    /\ \E f \in Bijection(ChunksOf(t, {p}), ids) :
          \A c \in ChunksOf(t, {p}) : table[f[c]] = Hash(t, k, c)

LEMMA HoldsStays ==
    ASSUME NEW old, NEW table, NEW ids, NEW t, NEW k, NEW p, Holds(old, ids, t, k, p),
           ids \subseteq DOMAIN table, \A i \in ids : table[i] = old[i]
    PROVE  Holds(table, ids, t, k, p)
<1>1. PICK f \in Bijection(ChunksOf(t, {p}), ids) :
          \A c \in ChunksOf(t, {p}) : old[f[c]] = Hash(t, k, c)
  BY DEF Holds
<1>2. \A c \in ChunksOf(t, {p}) : f[c] \in ids
  BY DEF Bijection, Injection
<1>3. \A c \in ChunksOf(t, {p}) : table[f[c]] = Hash(t, k, c)
  BY <1>1, <1>2
<1> QED  BY <1>3 DEF Holds

\* Only the blob and the module of a file matter.
LEMMA HoldsElsewhere ==
    ASSUME NEW table, NEW ids, NEW t, NEW u, NEW k, NEW p, Holds(table, ids, u, k, p),
           u[p].blob = t[p].blob, u[p].module = t[p].module
    PROVE  Holds(table, ids, t, k, p)
<1>1. ChunksOf(t, {p}) = ChunksOf(u, {p})
  BY DEF ChunksOf
<1>2. \A c \in ChunksOf(t, {p}) : Hash(t, k, c) = Hash(u, k, c)
  BY ChunksAre DEF Hash
<1> QED  BY <1>1, <1>2 DEF Holds

\* Every row of a file has the file's module.
LEMMA HoldsModule ==
    ASSUME NEW table, NEW ids, NEW t, NEW k, NEW p, Holds(table, ids, t, k, p), NEW i \in ids
    PROVE  table[i].module = t[p].module
<1>1. PICK f \in Bijection(ChunksOf(t, {p}), ids) :
          \A c \in ChunksOf(t, {p}) : table[f[c]] = Hash(t, k, c)
  BY DEF Holds
<1>2. PICK c \in ChunksOf(t, {p}) : f[c] = i
  BY DEF Bijection, Surjection
<1>3. c[1] = p
  BY ChunksAre
<1>4. table[i] = Hash(t, k, c)
  BY <1>1, <1>2
<1> QED  BY <1>3, <1>4 DEF Hash

\* Such rows are the file: as many of each hash as it has chunks of the text.
LEMMA HoldsIsFile ==
    ASSUME NEW ids, NEW t, NEW k, NEW p, IsTree(t), p \in DOMAIN t, Holds(rows, ids, t, k, p)
    PROVE  IsFile(ids, t, k, p)
<1> DEFINE chunks == ChunksOf(t, {p})
<1>1. PICK f \in Bijection(chunks, ids) : \A c \in chunks : rows[f[c]] = Hash(t, k, c)
  BY DEF Holds
<1>2. IsFiniteSet(chunks)
  BY ChunksAreFinite
<1>3. Cardinality(ids) = Cardinality(chunks)
  BY <1>1, <1>2, FS_Bijection DEF ExistsBijection
<1>4. ASSUME NEW c \in chunks
      PROVE  Cardinality({i \in ids : rows[i] = Hash(t, k, c)}) = Copies[t[p].blob][c[2]]
  <2> DEFINE x == c[2]
             n == Copies[t[p].blob][x]
             D == {<<p, x, i>> : i \in 1 .. n}
             T == {i \in ids : rows[i] = Hash(t, k, c)}
             g == [d \in D |-> f[d]]
  <2>1. x \in DOMAIN Copies[t[p].blob] /\ c[1] = p
    BY ChunksAre
  <2>2. n \in Nat
    BY <2>1, TreeIs
  <2>3. D = {d \in chunks : Hash(t, k, d) = Hash(t, k, c)}
    <3>1. \A d \in D : d \in chunks /\ d[1] = p /\ d[2] = x
      BY <2>1, ChunksAre
    <3>2. \A d \in D : Hash(t, k, d) = Hash(t, k, c)
      BY <2>1, <3>1 DEF Hash
    <3>3. ASSUME NEW d \in chunks, Hash(t, k, d) = Hash(t, k, c)
          PROVE  d \in D
      <4>1. d[2] = x
        BY <3>3 DEF Hash
      <4>2. PICK y \in DOMAIN Copies[t[p].blob] :
               \E i \in 1 .. Copies[t[p].blob][y] : d = <<p, y, i>>
        BY ChunksAre
      <4> QED  BY <4>1, <4>2
    <3> QED  BY <3>1, <3>2, <3>3
  <2>4. g \in Bijection(D, T)
    <3>1. \A d \in D : f[d] \in T
      BY <2>3, <1>1 DEF Bijection, Injection
    <3>2. \A d, e \in D : f[d] = f[e] => d = e
      BY <2>3, <1>1 DEF Bijection, Injection, IsInjective
    <3>3. \A i \in T : \E d \in D : f[d] = i
      BY <2>3, <1>1 DEF Bijection, Surjection
    <3> HIDE DEF D, T
    <3> QED  BY <3>1, <3>2, <3>3 DEF Bijection, Injection, Surjection, IsInjective
  <2>5. IsFiniteSet(D) /\ Cardinality(D) = n
    <3>1. D = {<<p, x, i>> : i \in 1 .. n}
      OBVIOUS
    <3> HIDE DEF n, x, chunks, D
    <3> QED  BY <2>2, <3>1, CopiesAre
  <2> HIDE DEF D, T, g
  <2>6. Cardinality(T) = n
    BY <2>4, <2>5, FS_Bijection DEF ExistsBijection
  <2> QED  BY <2>6 DEF T
<1> QED  BY <1>3, <1>4 DEF IsFile, Holds

\* A branch's files, each with its own rows, have as many rows as the tree chunks.
LEMMA FilesAreTree ==
    ASSUME NEW t, IsTree(t), NEW M,
           \A m \in M : m.path \in DOMAIN t,
           \A m, n \in M : m.id = n.id => m = n,
           \A p \in DOMAIN t :
              ExistsBijection(ChunksOf(t, {p}), {m.id : m \in {n \in M : n.path = p}})
    PROVE  /\ Cardinality({m.id : m \in M}) = Cardinality(ChunksOf(t, DOMAIN t))
           /\ Cardinality(M) = Cardinality(ChunksOf(t, DOMAIN t))
<1> DEFINE chunks == ChunksOf(t, DOMAIN t)
           Ids(p) == {m.id : m \in {n \in M : n.path = p}}
           All == {m.id : m \in M}
           g == [p \in DOMAIN t |-> CHOOSE f : f \in Bijection(ChunksOf(t, {p}), Ids(p))]
           F == [c \in chunks |-> g[c[1]][c]]
           h == [m \in M |-> m.id]
<1>1. \A p \in DOMAIN t : g[p] \in Bijection(ChunksOf(t, {p}), Ids(p))
  BY DEF ExistsBijection
<1>2. IsFiniteSet(chunks)
  BY ChunksAreFinite
<1>3. \A c \in chunks : c[1] \in DOMAIN t /\ c \in ChunksOf(t, {c[1]})
  BY ChunksAre
<1>4. \A p \in DOMAIN t : ChunksOf(t, {p}) \subseteq chunks
  <2> TAKE p \in DOMAIN t
  <2>1. ChunksOf(t, {p}) = {c \in ChunksOf(t, DOMAIN t) : c[1] = p}
    BY ChunksAre
  <2> QED  BY <2>1
<1> HIDE DEF chunks, g
<1>5. \A c \in chunks : F[c] \in Ids(c[1])
  BY <1>1, <1>3 DEF Bijection, Injection
<1>6. \A p, q \in DOMAIN t : \A i : i \in Ids(p) /\ i \in Ids(q) => p = q
  OBVIOUS
<1>7. F \in Bijection(chunks, All)
  <2>1. \A c \in chunks : F[c] \in All
    BY <1>5
  <2>2. ASSUME NEW c \in chunks, NEW d \in chunks, F[c] = F[d]
        PROVE  c = d
    <3>1. c[1] = d[1]
      <4> HIDE DEF F, Ids
      <4> QED  BY <1>3, <1>5, <1>6, <2>2
    <3>2. g[c[1]][c] = g[c[1]][d]
      BY <2>2, <3>1
    <3> QED  BY <1>1, <1>3, <3>1, <3>2 DEF Bijection, Injection, IsInjective
  <2>3. ASSUME NEW i \in All
        PROVE  \E c \in chunks : F[c] = i
    <3>1. PICK m \in M : m.id = i
      OBVIOUS
    <3>2. m.path \in DOMAIN t /\ i \in Ids(m.path)
      BY <3>1
    <3>3. PICK c \in ChunksOf(t, {m.path}) : g[m.path][c] = i
      BY <1>1, <3>2 DEF Bijection, Surjection
    <3>4. c \in chunks /\ c[1] = m.path
      BY <1>4, <3>2, <3>3, ChunksAre
    <3> QED  BY <3>3, <3>4
  <2> HIDE DEF All
  <2>4. F \in [chunks -> All]
    BY <2>1
  <2> HIDE DEF F
  <2> QED  BY <2>2, <2>3, <2>4 DEF Bijection, Injection, Surjection, IsInjective
<1>8. h \in Bijection(M, All)
  BY DEF Bijection, Injection, Surjection, IsInjective
<1> HIDE DEF F, h, All
<1>9. IsFiniteSet(All) /\ Cardinality(All) = Cardinality(chunks)
  BY <1>2, <1>7, FS_Bijection DEF ExistsBijection
<1>10. Cardinality(M) = Cardinality(All)
  BY <1>8, <1>9, Fun_BijInverse, FS_Bijection DEF ExistsBijection
<1> QED  BY <1>9, <1>10 DEF All, chunks

-----------------------------------------------------------------------------
(* Types. *)

ReadInv ==
    reading # None =>
       /\ DOMAIN reading.hits \subseteq DOMAIN reading.tree
       /\ \A p \in DOMAIN reading.hits : reading.hits[p] \subseteq 1 .. MaxRowid
       /\ Fits(reading.tree)

TypeInv == TypeOK /\ ReadInv

LEMMA TreesAre ==
    ASSUME situation \in Situations, NEW t \in situation.trees
    PROVE  IsTree(t) /\ t \in Trees /\ DOMAIN t \subseteq Paths
BY DEF IsTree, Trees, Paths

LEMMA InitTypes == Init => TypeInv
<1> SUFFICES ASSUME Init PROVE TypeInv
  OBVIOUS
<1>1. rows = [i \in {} |-> None] /\ DOMAIN rows = {}
  BY DEF Init
<1> QED  BY <1>1 DEF Init, TypeInv, TypeOK, ReadInv

\* A collection removes, and changes no row it leaves.
LEMMA CollectIs ==
    ASSUME NEW table, NEW indexed, NEW cached, NEW k, Collect(table, indexed, cached, k)
    PROVE  /\ DOMAIN rows' \subseteq DOMAIN table
           /\ \A i \in DOMAIN rows' : rows'[i] = table[i]
           /\ vectors' \subseteq indexed
           /\ indexed = DOMAIN table => vectors' = DOMAIN rows'
           /\ cache' \subseteq cached
<1> DEFINE freed == DOMAIN table \ UNION {{m.id : m \in held'[b]} : b \in Branches}
<1>1. /\ rows' = Without(table, freed) /\ vectors' = indexed \ freed /\ cache' \subseteq cached
  BY DEF Collect
<1> HIDE DEF freed
<1>2. DOMAIN rows' = DOMAIN table \ freed /\ \A i \in DOMAIN rows' : rows'[i] = table[i]
  BY <1>1 DEF Without, Restrict
<1> QED  BY <1>1, <1>2

\* What an upsert leaves of the cache, and what it adds.
LEMMA UpsertedIs ==
    ASSUME NEW a, NEW t, NEW k, NEW paths
    PROVE  \A c \in Upserted(a, t, k, paths) :
              \/ /\ c \in cache
                 /\ \A p \in paths : ~(c.path = p /\ c.blob = t[p].blob /\ c.key = k)
              \/ \E p \in paths :
                    /\ c.path = p /\ c.blob = t[p].blob /\ c.key = k
                    /\ c.ids = {a[d] : d \in {e \in DOMAIN a : e[1] = p}}
                    /\ \/ c.module = None \/ c.module = t[p].module
                       \/ Shared(t, p) /\ \E o \in cache : o.path = p /\ o.blob = t[p].blob
                                                       /\ o.key = k /\ o.module = c.module
<1> DEFINE At(p, c) == c.path = p /\ c.blob = t[p].blob /\ c.key = k
           Before(p) == {c \in cache : At(p, c)}
           Tree(p)  == IF ~Shared(t, p) THEN t[p].module
                       ELSE IF Before(p) = {} THEN None ELSE (CHOOSE c \in Before(p) : TRUE).module
           New(p) == [path |-> p, blob |-> t[p].blob, key |-> k, module |-> Tree(p),
                      ids |-> {a[d] : d \in {e \in DOMAIN a : e[1] = p}}]
<1>1. Upserted(a, t, k, paths) = {c \in cache : \A p \in paths : ~At(p, c)}
                                 \cup {New(p) : p \in paths}
  BY DEF Upserted
<1>2. ASSUME NEW p \in paths
      PROVE  \/ Tree(p) = None \/ Tree(p) = t[p].module
             \/ Shared(t, p) /\ \E o \in cache : At(p, o) /\ o.module = Tree(p)
  <2>1. CASE Shared(t, p) /\ Before(p) # {}
    <3>1. (CHOOSE c \in Before(p) : TRUE) \in Before(p)
      BY <2>1
    <3> QED  BY <2>1, <3>1
  <2> QED  BY <2>1
<1> HIDE DEF Tree
<1> QED  BY <1>1, <1>2

\* What a pass writes, in the bounds Fits gives it.
LEMMA PassTypes ==
    ASSUME TypeOK, NEW t \in situation.trees, Fits(t), NEW k \in situation.keys,
           NEW paths \in SUBSET DOMAIN t, NEW pool \in SUBSET DOMAIN rows, NEW claimed,
           NEW a \in Assignments(pool, t, k, paths),
           Collect(With(rows, Inserted(a, t, k)),
                   vectors \cup Embedded(Inserted(a, t, k), claimed),
                   Upserted(a, t, k, paths), k)
    PROVE  /\ DOMAIN rows' \subseteq 1 .. MaxRowid /\ vectors' \subseteq 1 .. MaxRowid
           /\ \A i \in DOMAIN rows' : rows'[i].key \in Keys
           /\ \A c \in cache' : /\ c.path \in Paths /\ c.blob \in DOMAIN Copies /\ c.key \in Keys
                                /\ c.ids \subseteq 1 .. MaxRowid
           /\ \A c, d \in cache' :
                 <<c.path, c.blob, c.key>> = <<d.path, d.blob, d.key>> => c = d
           /\ MembershipRows(a) \subseteq [id : 1 .. MaxRowid, path : Paths]
<1> DEFINE new == Inserted(a, t, k)
           cached == Upserted(a, t, k, paths)
           chunks == ChunksOf(t, paths)
<1>1. IsTree(t) /\ DOMAIN t \subseteq Paths /\ k \in Keys
  BY TreesAre DEF TypeOK, Keys
<1>2. DOMAIN rows \subseteq 1 .. MaxRowid
  BY DEF TypeOK
<1>3. /\ DOMAIN a = ChunksOf(t, paths)
      /\ \A c \in DOMAIN a :
            \/ a[c] \in pool
            \/ a[c] \in NextRowid .. NextRowid + Cardinality(ChunksOf(t, paths)) - 1
      /\ \A i \in DOMAIN Inserted(a, t, k) :
            \E c \in DOMAIN a : a[c] = i /\ Inserted(a, t, k)[i] = Hash(t, k, c)
  <2> HIDE DEF new, chunks, cached
  <2>1. Assigned(a, pool, t, k, paths)
    BY <1>1, <1>2, AssignmentIs
  <2> QED  BY <2>1 DEF Assigned
<1>4. \A c \in DOMAIN a : a[c] \in 1 .. MaxRowid
  <2>1. NextRowid \in Nat \ {0}
    BY <1>2, NextRowidIsFree
  <2>2. /\ Cardinality(chunks) \in Nat /\ Cardinality(ChunksOf(t, DOMAIN t)) \in Nat
        /\ Cardinality(chunks) <= Cardinality(ChunksOf(t, DOMAIN t))
    BY <1>1, ChunksAreFinite
  <2>3. NextRowid + Cardinality(ChunksOf(t, DOMAIN t)) <= MaxRowid + 1
    BY DEF Fits
  <2>4. \A c \in DOMAIN a :
           a[c] \in pool \/ a[c] \in NextRowid .. NextRowid + Cardinality(chunks) - 1
    BY <1>3
  <2> HIDE DEF chunks
  <2> QED  BY <1>2, <2>1, <2>2, <2>3, <2>4, BranchAssumption
<1>5. DOMAIN new \subseteq 1 .. MaxRowid /\ \A i \in DOMAIN new : new[i].key = k
  BY <1>3, <1>4 DEF Hash
<1>6. /\ DOMAIN With(rows, new) = DOMAIN rows \cup DOMAIN new
      /\ \A i \in DOMAIN With(rows, new) : With(rows, new)[i] \in {rows[i], new[i]}
      /\ \A i \in DOMAIN With(rows, new) : i \in DOMAIN new => With(rows, new)[i] = new[i]
      /\ \A i \in DOMAIN With(rows, new) : i \notin DOMAIN new => With(rows, new)[i] = rows[i]
  BY DEF With
<1>7. Embedded(new, claimed) \subseteq DOMAIN new
  BY DEF Embedded
<1> HIDE DEF new
<1>8. /\ DOMAIN rows' \subseteq DOMAIN With(rows, new)
      /\ \A i \in DOMAIN rows' : rows'[i] = With(rows, new)[i]
      /\ vectors' \subseteq vectors \cup Embedded(new, claimed)
      /\ cache' \subseteq cached
  BY CollectIs DEF new
<1>9. DOMAIN rows' \subseteq 1 .. MaxRowid /\ \A i \in DOMAIN rows' : rows'[i].key \in Keys
  <2>1. \A i \in DOMAIN rows : rows[i].key \in Keys
    BY DEF TypeOK
  <2> QED  BY <1>1, <1>2, <1>5, <1>6, <1>8, <2>1
<1>10. vectors' \subseteq 1 .. MaxRowid
  BY <1>5, <1>7, <1>8 DEF TypeOK
<1>11. ASSUME NEW c \in cached
       PROVE  /\ c.path \in Paths /\ c.blob \in DOMAIN Copies /\ c.key \in Keys
              /\ c.ids \subseteq 1 .. MaxRowid
  <2>1. CASE c \in cache
    BY <2>1 DEF TypeOK
  <2>2. ASSUME NEW p \in paths, c.path = p, c.blob = t[p].blob, c.key = k,
               c.ids = {a[d] : d \in {e \in DOMAIN a : e[1] = p}}
        PROVE  /\ c.path \in Paths /\ c.blob \in DOMAIN Copies /\ c.key \in Keys
               /\ c.ids \subseteq 1 .. MaxRowid
    BY <1>1, <1>4, <2>2, TreeIs
  <2> QED  BY <2>1, <2>2, UpsertedIs
<1>12. ASSUME NEW c \in cached, NEW d \in cached,
              c.path = d.path, c.blob = d.blob, c.key = d.key
       PROVE  c = d
  <2> DEFINE Old == {o \in cache : \A p \in paths :
                        ~(o.path = p /\ o.blob = t[p].blob /\ o.key = k)}
             Module(p) == IF ~Shared(t, p) THEN t[p].module
                          ELSE LET before == {o \in cache : o.path = p /\ o.blob = t[p].blob
                                                                       /\ o.key = k}
                               IN  IF before = {} THEN None
                                   ELSE (CHOOSE o \in before : TRUE).module
             New(p) == [path |-> p, blob |-> t[p].blob, key |-> k, module |-> Module(p),
                        ids |-> {a[e] : e \in {f \in DOMAIN a : f[1] = p}}]
  <2>1. cached = Old \cup {New(p) : p \in paths}
    BY DEF Upserted
  <2>2. \A p \in paths : New(p).path = p /\ New(p).blob = t[p].blob /\ New(p).key = k
    OBVIOUS
  <2>3. \A e \in Old : e \in cache /\ \A p \in paths :
                          ~(e.path = p /\ e.blob = t[p].blob /\ e.key = k)
    OBVIOUS
  <2> HIDE DEF New, Old, cached
  <2>4. CASE c \in Old /\ d \in Old
    BY <2>3, <2>4, <1>12 DEF TypeOK
  <2>5. CASE c \notin Old /\ d \notin Old
    <3>1. PICK p \in paths : c = New(p)
      BY <2>1, <2>5
    <3>2. PICK q \in paths : d = New(q)
      BY <2>1, <2>5
    <3> QED  BY <3>1, <3>2, <2>2, <1>12
  <2>6. ASSUME NEW e \in Old, NEW p \in paths
        PROVE  ~(e.path = New(p).path /\ e.blob = New(p).blob /\ e.key = New(p).key)
    BY <2>2, <2>3
  <2> QED  BY <2>1, <2>4, <2>5, <2>6, <1>12
<1>13. MembershipRows(a) \subseteq [id : 1 .. MaxRowid, path : Paths]
  <2>1. \A c \in DOMAIN a : c[1] \in Paths
    BY <1>1, <1>3, ChunksAre
  <2> QED  BY <1>4, <2>1 DEF MembershipRows
<1> HIDE DEF cached
<1> QED  BY <1>8, <1>9, <1>10, <1>11, <1>12, <1>13

\* The steps that leave the bundle alone.
LEMMA SameBundle ==
    ASSUME TypeInv, LifeInv', UNCHANGED <<bundle, situation>>,
           reading' = reading \/ reading' = None
    PROVE  TypeInv'
<1> USE DEF bundle
<1>1. TypeOK'
  BY DEF TypeInv, TypeOK, LifeInv
<1>2. ReadInv'
  BY DEF TypeInv, ReadInv, Fits, NextRowid
<1> QED  BY <1>1, <1>2 DEF TypeInv

\* A purge: fewer rows, so a pass under way still fits.
LEMMA EmptiedTypes ==
    ASSUME TypeInv, LifeInv', NEW purged, Emptied(purged)
    PROVE  TypeInv'
<1>1. /\ DOMAIN rows' \subseteq DOMAIN rows
      /\ \A i \in DOMAIN rows' : rows'[i] = rows[i]
      /\ vectors' \subseteq vectors /\ cache' \subseteq cache
  BY CollectIs DEF Emptied
<1>2. /\ held' = [b \in Branches |-> IF b \in purged THEN {} ELSE held[b]]
      /\ manifest' = [b \in Branches |-> IF b \in purged THEN NotIndexed ELSE manifest[b]]
      /\ UNCHANGED <<key, reading, situation>>
  BY DEF Emptied
<1>3. held' \in [Branches -> SUBSET [id : 1 .. MaxRowid, path : Paths]]
  BY <1>2 DEF TypeInv, TypeOK
<1>4. manifest' \in [Branches -> {NotIndexed} \cup [files : Trees, key : Keys]]
  BY <1>2 DEF TypeInv, TypeOK
<1>5. TypeOK'
  BY <1>1, <1>2, <1>3, <1>4 DEF TypeInv, TypeOK, LifeInv
<1>6. ASSUME reading # None
      PROVE  Fits(reading.tree)'
  <2>1. DOMAIN rows \subseteq 1 .. MaxRowid /\ DOMAIN rows' \subseteq 1 .. MaxRowid
    BY <1>1 DEF TypeInv, TypeOK
  <2>2. NextRowid \in Nat \ {0} /\ \A i \in DOMAIN rows : i < NextRowid
    BY <2>1, NextRowidIsFree
  <2>3. NextRowid' \in Nat /\ NextRowid' <= NextRowid
    BY <1>1, <2>1, NextRowidFalls
  <2>5. NextRowid + Cardinality(ChunksOf(reading.tree, DOMAIN reading.tree)) <= MaxRowid + 1
    BY <1>6 DEF TypeInv, ReadInv, Fits
  <2>6. Cardinality(ChunksOf(reading.tree, DOMAIN reading.tree)) \in Nat
    BY <1>6, TreesAre, ChunksAreFinite DEF TypeInv, TypeOK
  <2>7. reading' = reading
    BY <1>2
  <2> QED  BY <2>2, <2>3, <2>5, <2>6, <2>7, BranchAssumption DEF Fits
<1>7. ReadInv'
  BY <1>2, <1>6 DEF TypeInv, ReadInv
<1> QED  BY <1>5, <1>7 DEF TypeInv

LEMMA NextTypes ==
    ASSUME LifeInv, TypeInv, [Next]_vars
    PROVE  TypeInv'
<1>1. LifeInv'
  BY NextLife
<1>2. CASE UNCHANGED vars
  <2>1. UNCHANGED <<bundle, situation>> /\ reading' = reading
    BY <1>2 DEF vars
  <2> QED  BY <1>1, <2>1, SameBundle
<1>3. ASSUME NEW b \in Branches, NEW t \in situation.trees, WorkingTreePass(b, t)
      PROVE  TypeInv'
  <2>1. PICK a \in Assignments(DOMAIN rows, t, key, DOMAIN t) :
           /\ held' = [o \in Branches |->
                         IF o = b THEN MembershipRows(a)
                         ELSE IF o \in Previous(b) THEN {} ELSE held[o]]
           /\ manifest' = [o \in Branches |->
                         IF o = b THEN [files |-> t, key |-> key]
                         ELSE IF o \in Previous(b) THEN NotIndexed ELSE manifest[o]]
           /\ Collect(With(rows, Inserted(a, t, key)),
                      vectors \cup Embedded(Inserted(a, t, key), {}),
                      Upserted(a, t, key, DOMAIN t), key)
    BY <1>3 DEF WorkingTreePass
  <2>2. Fits(t) /\ reading' = None /\ UNCHANGED <<key, situation>>
    BY <1>3 DEF WorkingTreePass
  <2>3. /\ TypeOK /\ key \in situation.keys /\ key \in Keys /\ t \in Trees
        /\ DOMAIN t \in SUBSET DOMAIN t /\ DOMAIN rows \in SUBSET DOMAIN rows
    BY TreesAre DEF TypeInv, TypeOK, Keys
  <2>4. /\ DOMAIN rows' \subseteq 1 .. MaxRowid /\ vectors' \subseteq 1 .. MaxRowid
        /\ \A i \in DOMAIN rows' : rows'[i].key \in Keys
        /\ \A c \in cache' : /\ c.path \in Paths /\ c.blob \in DOMAIN Copies /\ c.key \in Keys
                             /\ c.ids \subseteq 1 .. MaxRowid
        /\ \A c, d \in cache' :
              <<c.path, c.blob, c.key>> = <<d.path, d.blob, d.key>> => c = d
        /\ MembershipRows(a) \subseteq [id : 1 .. MaxRowid, path : Paths]
    BY <2>1, <2>2, <2>3, PassTypes
  <2>5. held' \in [Branches -> SUBSET [id : 1 .. MaxRowid, path : Paths]]
    BY <2>1, <2>3, <2>4 DEF TypeOK
  <2>6. manifest' \in [Branches -> {NotIndexed} \cup [files : Trees, key : Keys]]
    BY <2>1, <2>3 DEF TypeOK
  <2>7. TypeOK'
    BY <1>1, <2>2, <2>4, <2>5, <2>6 DEF TypeOK, LifeInv
  <2> QED  BY <2>2, <2>7 DEF TypeInv, ReadInv
<1>4. ASSUME NEW b \in Branches, NEW t \in situation.trees, ReadHits(b, t)
      PROVE  TypeInv'
  <2>1. /\ UNCHANGED <<bundle, record, key, situation>> /\ Fits(t)
        /\ reading' = [branch |-> b, tree |-> t, key |-> key, hits |-> Hits(t)]
    BY <1>4 DEF ReadHits
  <2>2. \A p \in DOMAIN Hits(t) : Hits(t)[p] \subseteq 1 .. MaxRowid
    BY HitsAreCached DEF TypeInv, TypeOK
  <2>3. DOMAIN Hits(t) \subseteq DOMAIN t
    BY DEF Hits
  <2>4. TypeOK'
    BY <2>1 DEF bundle, TypeInv, TypeOK
  <2>5. ReadInv'
    BY <2>1, <2>2, <2>3 DEF bundle, ReadInv, Fits, NextRowid
  <2> QED  BY <2>4, <2>5 DEF TypeInv
<1>5. CASE GitObjectsPass
  <2> DEFINE hits == UNION {{[id |-> i, path |-> p] : i \in reading.hits[p]}
                               : p \in DOMAIN reading.hits}
             claimed == {m.id : m \in hits}
  <2>0. PICK b, t, k, misses :
           /\ b = reading.branch /\ t = reading.tree /\ k = reading.key
           /\ misses = DOMAIN t \ DOMAIN reading.hits
    OBVIOUS
  <2>1. PICK a \in Assignments(DOMAIN rows \ claimed, t, k, misses) :
           /\ held' = [held EXCEPT ![b] = hits \cup MembershipRows(a)]
           /\ manifest' = [manifest EXCEPT ![b] = [files |-> t, key |-> k]]
           /\ Collect(With(rows, Inserted(a, t, k)),
                      vectors \cup Embedded(Inserted(a, t, k), claimed),
                      Upserted(a, t, k, misses), k)
    BY <1>5, <2>0 DEF GitObjectsPass
  <2>2. reading # None /\ reading' = None /\ UNCHANGED <<key, situation>>
    BY <1>5 DEF GitObjectsPass
  <2>3. /\ TypeOK /\ b \in Branches /\ t \in situation.trees /\ k \in situation.keys
        /\ k \in Keys /\ t \in Trees /\ Fits(t) /\ DOMAIN t \subseteq Paths
        /\ misses \in SUBSET DOMAIN t
    BY <2>0, <2>2, TreesAre DEF TypeInv, TypeOK, ReadInv, LifeInv, Keys
  <2>4. hits \subseteq [id : 1 .. MaxRowid, path : Paths]
    <3>1. \A p \in DOMAIN reading.hits : p \in Paths /\ reading.hits[p] \subseteq 1 .. MaxRowid
      BY <2>0, <2>2, <2>3 DEF TypeInv, ReadInv
    <3> QED  BY <3>1
  <2>5. DOMAIN rows \ claimed \in SUBSET DOMAIN rows
    OBVIOUS
  <2> HIDE DEF hits, claimed
  <2>6. /\ DOMAIN rows' \subseteq 1 .. MaxRowid /\ vectors' \subseteq 1 .. MaxRowid
        /\ \A i \in DOMAIN rows' : rows'[i].key \in Keys
        /\ \A c \in cache' : /\ c.path \in Paths /\ c.blob \in DOMAIN Copies /\ c.key \in Keys
                             /\ c.ids \subseteq 1 .. MaxRowid
        /\ \A c, d \in cache' :
              <<c.path, c.blob, c.key>> = <<d.path, d.blob, d.key>> => c = d
        /\ MembershipRows(a) \subseteq [id : 1 .. MaxRowid, path : Paths]
    BY <2>1, <2>3, <2>5, PassTypes
  <2>7. held' \in [Branches -> SUBSET [id : 1 .. MaxRowid, path : Paths]]
    BY <2>1, <2>3, <2>4, <2>6 DEF TypeOK
  <2>8. manifest' \in [Branches -> {NotIndexed} \cup [files : Trees, key : Keys]]
    BY <2>1, <2>3 DEF TypeOK
  <2>9. TypeOK'
    BY <1>1, <2>2, <2>6, <2>7, <2>8 DEF TypeOK, LifeInv
  <2> QED  BY <2>2, <2>9 DEF TypeInv, ReadInv
<1>6. CASE AbandonPass
  BY <1>1, <1>6, SameBundle DEF AbandonPass
<1>7. CASE ChangeKey
  BY <1>1, <1>7, SameBundle DEF ChangeKey
<1>8. ASSUME NEW b \in Branches, NEW pinned \in BOOLEAN, SetPinned(b, pinned)
      PROVE  TypeInv'
  BY <1>1, <1>8, SameBundle DEF SetPinned
<1>9. ASSUME NEW b \in Branches, Retire(b) \/ GraceEnds(b)
      PROVE  TypeInv'
  BY <1>1, <1>9, SameBundle DEF Retire, GraceEnds
<1>10. ASSUME NEW b \in Branches, NEW status, RetireAutomatically(b, status)
       PROVE  TypeInv'
  BY <1>1, <1>10, SameBundle DEF RetireAutomatically
<1>11. ASSUME NEW b \in Branches, Purge(b)
       PROVE  TypeInv'
  BY <1>1, <1>11, EmptiedTypes DEF Purge
<1>12. ASSUME NEW spared, PurgeDue(spared)
       PROVE  TypeInv'
  <2>1. PICK due : Emptied(due)
    BY <1>12 DEF PurgeDue
  <2> QED  BY <1>1, <2>1, EmptiedTypes
<1> QED  BY <1>2, <1>3, <1>4, <1>5, <1>6, <1>7, <1>8, <1>9, <1>10, <1>11, <1>12
         DEF Next, Lifecycle

-----------------------------------------------------------------------------
(* What rows are of. *)

\* Nobody purges during a pass, a path has one content, and a file that shares its
\* module in one tree has that module in the others.
Apart ==
    /\ ~situation.between
    /\ \A t, u \in situation.trees : \A p \in DOMAIN t \cap DOMAIN u :
          t[p].blob = u[p].blob /\ Shared(t, p) => t[p].module = u[p].module

\* A branch's membership of a tree: each file its own rows.
IdsOf(own, p) == {m.id : m \in {n \in own : n.path = p}}

HasFiles(table, own, t, k) ==
    /\ \A m \in own : m.path \in DOMAIN t
    /\ \A m, n \in own : m.id = n.id => m = n
    /\ \A p \in DOMAIN t : Holds(table, IdsOf(own, p), t, k, p)

BranchesHave ==
    \A b \in Branches : HasFiles(rows, held[b], manifest[b].files, manifest[b].key)

\* A cache row with a tree names the rows of a file that has its module somewhere.
Right(table, c) ==
    \E u \in situation.trees :
       /\ c.path \in DOMAIN u /\ u[c.path].blob = c.blob /\ u[c.path].module = c.module
       /\ Holds(table, c.ids, u, c.key, c.path)

CacheIsRight == \A c \in cache : c.module # None => Right(rows, c)

ReadIsRight ==
    reading # None =>
       \A p \in DOMAIN reading.hits :
          /\ p \in DOMAIN reading.tree /\ ~Shared(reading.tree, p)
          /\ Holds(rows, reading.hits[p], reading.tree, reading.key, p)

FilesInv ==
    Apart => BranchesHave /\ CacheIsRight /\ ReadIsRight /\ vectors = DOMAIN rows

\* The rows that stay are as they were.
Stays == \A i \in DOMAIN rows \cap DOMAIN rows' : rows'[i] = rows[i]

\* A branch keeps its files while it keeps its rows.
LEMMA HasFilesStays ==
    ASSUME Stays, NEW own, NEW t, NEW k, HasFiles(rows, own, t, k),
           \A m \in own : m.id \in DOMAIN rows'
    PROVE  HasFiles(rows', own, t, k)
<1>1. ASSUME NEW p \in DOMAIN t
      PROVE  Holds(rows', IdsOf(own, p), t, k, p)
  <2>1. IdsOf(own, p) \subseteq DOMAIN rows'
    BY DEF IdsOf
  <2>2. Holds(rows, IdsOf(own, p), t, k, p)
    BY DEF HasFiles
  <2>3. \A i \in IdsOf(own, p) : rows'[i] = rows[i]
    BY <2>1, <2>2 DEF Holds, Stays
  <2> QED  BY <2>1, <2>2, <2>3, HoldsStays
<1> QED  BY <1>1 DEF HasFiles

\* The rows an assignment gives a file.
LEMMA AssignedFile ==
    ASSUME NEW a, NEW pool, NEW t, NEW k, NEW paths, Assigned(a, pool, t, k, paths),
           NEW p \in paths, NEW ids, ids = {a[c] : c \in {d \in DOMAIN a : d[1] = p}},
           NEW table, ids \subseteq DOMAIN table,
           \A i \in ids : table[i] = With(rows, Inserted(a, t, k))[i]
    PROVE  Holds(table, ids, t, k, p)
<1> DEFINE chunks == ChunksOf(t, {p})
           f == [c \in chunks |-> a[c]]
<1>1. \A c : c \in chunks <=> c \in DOMAIN a /\ c[1] = p
  BY ChunksAre DEF Assigned
<1>2. \A c \in chunks : a[c] \in ids
  BY <1>1
<1>3. \A c, d \in chunks : a[c] = a[d] => c = d
  BY <1>1 DEF Assigned
<1>4. \A i \in ids : \E c \in chunks : a[c] = i
  BY <1>1
<1>5. \A c \in chunks : table[a[c]] = Hash(t, k, c)
  BY <1>1, <1>2 DEF Assigned
<1> HIDE DEF chunks
<1>6. f \in Bijection(chunks, ids) /\ \A c \in chunks : f[c] = a[c]
  BY <1>2, <1>3, <1>4 DEF Bijection, Injection, Surjection, IsInjective
<1> HIDE DEF f
<1>7. \A c \in chunks : table[f[c]] = Hash(t, k, c)
  BY <1>5, <1>6
<1> QED  BY <1>6, <1>7 DEF Holds, chunks

\* The membership a pass writes.
LEMMA PassHasFiles ==
    ASSUME NEW t, IsTree(t), NEW k, NEW a, NEW pool, NEW paths, NEW H,
           DOMAIN H \subseteq DOMAIN t, paths = DOMAIN t \ DOMAIN H,
           Assigned(a, pool, t, k, paths),
           NEW hits, hits = UNION {{[id |-> i, path |-> p] : i \in H[p]} : p \in DOMAIN H},
           \A m, n \in hits : m.id = n.id => m = n,
           {m.id : m \in hits} \cap Range(a) = {},
           NEW table,
           \A m \in hits \cup MembershipRows(a) : m.id \in DOMAIN table,
           \A i \in DOMAIN table : table[i] = With(rows, Inserted(a, t, k))[i],
           \A p \in DOMAIN H : Holds(table, H[p], t, k, p)
    PROVE  HasFiles(table, hits \cup MembershipRows(a), t, k)
<1> DEFINE own == hits \cup MembershipRows(a)
<1>1. \A m \in hits : m.path \in DOMAIN H /\ m.id \in H[m.path]
                      /\ m = [id |-> m.id, path |-> m.path]
  OBVIOUS
<1>2. \A p \in DOMAIN H : \A i \in H[p] : [id |-> i, path |-> p] \in hits
  OBVIOUS
<1>3. \A m \in MembershipRows(a) :
         \E c \in DOMAIN a : m = [id |-> a[c], path |-> c[1]] /\ c[1] \in paths
  BY ChunksAre DEF MembershipRows, Assigned
<1>4. \A c \in DOMAIN a : [id |-> a[c], path |-> c[1]] \in MembershipRows(a)
  BY DEF MembershipRows
<1>5. \A m \in MembershipRows(a) : m.id \in Range(a) /\ m.path \in paths
  BY <1>3 DEF Range
<1>6. \A m \in own : m.path \in DOMAIN t
  BY <1>1, <1>5
<1>7. ASSUME NEW m \in own, NEW n \in own, m.id = n.id
      PROVE  m = n
  <2>1. CASE m \in hits /\ n \in hits
    BY <1>7, <2>1
  <2>2. CASE m \in MembershipRows(a) /\ n \in MembershipRows(a)
    <3>1. PICK c \in DOMAIN a : m = [id |-> a[c], path |-> c[1]]
      BY <1>3, <2>2
    <3>2. PICK d \in DOMAIN a : n = [id |-> a[d], path |-> d[1]]
      BY <1>3, <2>2
    <3>3. c = d
      BY <1>7, <3>1, <3>2 DEF Assigned
    <3> QED  BY <3>1, <3>2, <3>3
  <2>3. \A x \in hits : \A y \in MembershipRows(a) : x.id # y.id
    BY <1>5
  <2> QED  BY <1>7, <2>1, <2>2, <2>3
<1>8. ASSUME NEW p \in DOMAIN H
      PROVE  Holds(table, IdsOf(own, p), t, k, p)
  <2>1. IdsOf(own, p) = H[p]
    <3>1. ASSUME NEW i \in H[p]
          PROVE  i \in IdsOf(own, p)
      <4> DEFINE m == [id |-> i, path |-> p]
      <4>1. m \in own /\ m.id = i /\ m.path = p
        BY <1>2, <3>1
      <4> HIDE DEF m
      <4> HIDE DEF own
      <4> QED  BY <4>1 DEF IdsOf
    <3>2. ASSUME NEW m \in own, m.path = p
          PROVE  m.id \in H[p]
      BY <1>1, <1>5, <3>2
    <3> HIDE DEF own
    <3> QED  BY <3>1, <3>2 DEF IdsOf
  <2> QED  BY <2>1
<1>9. ASSUME NEW p \in paths
      PROVE  Holds(table, IdsOf(own, p), t, k, p)
  <2> DEFINE ids == {a[c] : c \in {d \in DOMAIN a : d[1] = p}}
  <2>1. IdsOf(own, p) = ids
    <3>1. ASSUME NEW i \in ids
          PROVE  i \in IdsOf(own, p)
      <4>1. PICK c \in DOMAIN a : c[1] = p /\ a[c] = i
        OBVIOUS
      <4>2. PICK m \in own : m.id = i /\ m.path = p
        BY <1>4, <4>1
      <4> HIDE DEF own
      <4> QED  BY <4>2 DEF IdsOf
    <3>2. ASSUME NEW m \in own, m.path = p
          PROVE  m.id \in ids
      <4>1. m \in MembershipRows(a)
        BY <1>1, <3>2
      <4> QED  BY <1>3, <3>2, <4>1
    <3> HIDE DEF own, ids
    <3> QED  BY <3>1, <3>2 DEF IdsOf
  <2>2. ids \subseteq DOMAIN table
    <3>1. \A c \in DOMAIN a : a[c] \in DOMAIN table
      BY <1>4
    <3> QED  BY <3>1
  <2>3. \A i \in ids : table[i] = With(rows, Inserted(a, t, k))[i]
    BY <2>2
  <2>4. ids = {a[c] : c \in {d \in DOMAIN a : d[1] = p}}
    OBVIOUS
  <2> HIDE DEF ids
  <2> QED  BY <2>1, <2>2, <2>3, <2>4, AssignedFile
<1> QED  BY <1>6, <1>7, <1>8, <1>9 DEF HasFiles

\* What a transaction leaves of the rows: those it inserts are new.
LEMMA CollectStays ==
    ASSUME NEW a, NEW pool, NEW t, NEW k, NEW paths, Assigned(a, pool, t, k, paths),
           NEW indexed, NEW cached,
           Collect(With(rows, Inserted(a, t, k)), indexed, cached, k)
    PROVE  /\ Stays
           /\ \A i \in DOMAIN rows' : rows'[i] = With(rows, Inserted(a, t, k))[i]
<1>1. \A i \in DOMAIN rows' : rows'[i] = With(rows, Inserted(a, t, k))[i]
  BY CollectIs
<1>2. \A i \in DOMAIN rows : With(rows, Inserted(a, t, k))[i] = rows[i]
  BY DEF Assigned, With
<1> QED  BY <1>1, <1>2 DEF Stays

\* What a pass has written.
Written(a, pool, t, k, paths) ==
    /\ Assigned(a, pool, t, k, paths)
    /\ Stays
    /\ \A i \in DOMAIN rows' : rows'[i] = With(rows, Inserted(a, t, k))[i]
    /\ \A c \in cache' : c \in Upserted(a, t, k, paths) /\ c.ids \subseteq DOMAIN rows'

\* The cache after a pass: a tree that an upsert leaves is that of a file with the
\* module it is for.
LEMMA PassCacheIsRight ==
    ASSUME Apart, CacheIsRight, OnlyHeldRows, situation' = situation,
           NEW t \in situation.trees, NEW k, NEW a, NEW pool, NEW paths \in SUBSET DOMAIN t,
           Written(a, pool, t, k, paths)
    PROVE  CacheIsRight'
<1> SUFFICES ASSUME NEW c \in cache', c.module # None
             PROVE  Right(rows', c)
  BY DEF CacheIsRight, Right
<1>1. /\ Assigned(a, pool, t, k, paths) /\ Stays
      /\ c.ids \subseteq DOMAIN rows' /\ c \in Upserted(a, t, k, paths)
      /\ \A i \in DOMAIN rows' : rows'[i] = With(rows, Inserted(a, t, k))[i]
  BY DEF Written
<1>2. CASE c \in cache
  <2>1. PICK u \in situation.trees :
           /\ c.path \in DOMAIN u /\ u[c.path].blob = c.blob /\ u[c.path].module = c.module
           /\ Holds(rows, c.ids, u, c.key, c.path)
    BY <1>2 DEF CacheIsRight, Right
  <2>2. \A i \in c.ids : rows'[i] = rows[i]
    BY <1>1, <1>2 DEF OnlyHeldRows, Stays
  <2>3. Holds(rows', c.ids, u, c.key, c.path)
    BY <1>1, <2>1, <2>2, HoldsStays
  <2> QED  BY <2>1, <2>3 DEF Right
<1>3. ASSUME NEW p \in paths,
             c.path = p, c.blob = t[p].blob, c.key = k,
             c.ids = {a[d] : d \in {e \in DOMAIN a : e[1] = p}},
             \/ c.module = None \/ c.module = t[p].module
             \/ Shared(t, p) /\ \E o \in cache : o.path = p /\ o.blob = t[p].blob
                                                 /\ o.key = k /\ o.module = c.module
      PROVE  Right(rows', c)
  <2>1. c.module = t[p].module
    <3>1. ASSUME Shared(t, p), NEW o \in cache, o.path = p, o.blob = t[p].blob,
                 o.module = c.module
          PROVE  c.module = t[p].module
      <4>1. PICK u \in situation.trees :
               o.path \in DOMAIN u /\ u[o.path].blob = o.blob /\ u[o.path].module = o.module
        BY <3>1 DEF CacheIsRight, Right
      <4> QED  BY <3>1, <4>1 DEF Apart
    <3> QED  BY <1>3, <3>1
  <2>2. \A i \in c.ids : rows'[i] = With(rows, Inserted(a, t, k))[i]
    BY <1>1
  <2>3. Holds(rows', c.ids, t, k, p)
    BY <1>1, <1>3, <2>2, AssignedFile
  <2> QED  BY <1>3, <2>1, <2>3 DEF Right
<1> QED  BY <1>1, <1>2, <1>3, UpsertedIs

\* Every row a pass inserts gets a vector, unless a claimed one has its hash.
LEMMA AllEmbedded ==
    ASSUME NEW new, IsFiniteSet(DOMAIN new), NEW claimed,
           \A i \in DOMAIN new : \A c \in claimed \cap DOMAIN rows : rows[c] # new[i]
    PROVE  Embedded(new, claimed) = DOMAIN new
<1> SUFFICES ASSUME NEW i \in DOMAIN new
             PROVE  i \in Embedded(new, claimed)
  BY DEF Embedded
<1> DEFINE Before == {j \in DOMAIN new : new[j] = new[i] /\ j < i}
           Same == {c \in claimed \cap DOMAIN rows : rows[c] = new[i]}
<1>1. Same = {} /\ Cardinality(Same) = 0
  BY FS_EmptySet
<1>2. IsFiniteSet(Before) /\ Cardinality(Before) \in Nat
  BY FS_Subset, FS_CardinalityType
<1>3. Cardinality(Before) >= Cardinality(Same)
  BY <1>1, <1>2
<1> QED  BY <1>3 DEF Embedded

LEMMA ApartStays == ASSUME situation' = situation, Apart' PROVE Apart
BY DEF Apart, Shared

-----------------------------------------------------------------------------
(* Every step keeps each file its rows. *)

LEMMA InitFiles == Init => FilesInv
<1> SUFFICES ASSUME Init PROVE BranchesHave /\ CacheIsRight /\ ReadIsRight /\ vectors = DOMAIN rows
  BY DEF FilesInv
<1>1. \A b \in Branches : held[b] = {} /\ manifest[b] = NotIndexed
  BY DEF Init
<1>2. DOMAIN NotIndexed.files = {}
  BY DEF NotIndexed, NoFiles
<1>3. BranchesHave
  BY <1>1, <1>2 DEF BranchesHave, HasFiles
<1> QED  BY <1>3 DEF Init, CacheIsRight, ReadIsRight

LEMMA SameFiles ==
    ASSUME FilesInv, UNCHANGED <<bundle, situation>>, reading' = reading \/ reading' = None
    PROVE  FilesInv'
<1> USE DEF bundle
<1>1. SUFFICES ASSUME Apart'
               PROVE  (BranchesHave /\ CacheIsRight /\ ReadIsRight /\ vectors = DOMAIN rows)'
  BY DEF FilesInv
<1>2. BranchesHave /\ CacheIsRight /\ ReadIsRight /\ vectors = DOMAIN rows
  BY <1>1, ApartStays DEF FilesInv
<1>3. BranchesHave'
  BY <1>2 DEF BranchesHave
<1>4. CacheIsRight'
  BY <1>2 DEF CacheIsRight, Right
<1>5. ReadIsRight'
  BY <1>2 DEF ReadIsRight
<1> QED  BY <1>2, <1>3, <1>4, <1>5

\* The other branches of a pass, and of a purge.
LEMMA OthersHave ==
    ASSUME BranchesHave, Stays, DOMAIN rows' = HeldIds', NEW b \in Branches,
           \/ held'[b] = held[b] /\ manifest'[b] = manifest[b]
           \/ held'[b] = {} /\ manifest'[b] = NotIndexed
    PROVE  HasFiles(rows', held'[b], manifest'[b].files, manifest'[b].key)
<1>1. CASE held'[b] = held[b] /\ manifest'[b] = manifest[b]
  <2>1. \A m \in held[b] : m.id \in DOMAIN rows'
    BY <1>1 DEF HeldIds
  <2>2. HasFiles(rows, held[b], manifest[b].files, manifest[b].key)
    BY DEF BranchesHave
  <2>3. HasFiles(rows', held[b], manifest[b].files, manifest[b].key)
    BY <2>1, <2>2, HasFilesStays
  <2> QED  BY <1>1, <2>3
<1>2. CASE held'[b] = {} /\ manifest'[b] = NotIndexed
  BY <1>2 DEF HasFiles, NotIndexed, NoFiles
<1> QED  BY <1>1, <1>2

\* A purge leaves the other branches their files.
LEMMA EmptiedFiles ==
    ASSUME Apart, BranchesHave, CacheIsRight, vectors = DOMAIN rows, OnlyHeldRows, OnlyHeldRows',
           NEW purged, Emptied(purged), reading = None
    PROVE  (BranchesHave /\ CacheIsRight /\ ReadIsRight /\ vectors = DOMAIN rows)'
<1>1. /\ DOMAIN rows' \subseteq DOMAIN rows
      /\ \A i \in DOMAIN rows' : rows'[i] = rows[i]
      /\ vectors' = DOMAIN rows' /\ cache' \subseteq cache
  BY CollectIs DEF Emptied
<1>2. /\ held' = [b \in Branches |-> IF b \in purged THEN {} ELSE held[b]]
      /\ manifest' = [b \in Branches |-> IF b \in purged THEN NotIndexed ELSE manifest[b]]
      /\ UNCHANGED <<key, reading, situation>>
  BY DEF Emptied
<1>3. Stays
  BY <1>1 DEF Stays
<1>4. DOMAIN rows' = HeldIds'
  BY DEF OnlyHeldRows
<1>5. BranchesHave'
  <2> SUFFICES ASSUME NEW b \in Branches
               PROVE  HasFiles(rows', held'[b], manifest'[b].files, manifest'[b].key)
    BY DEF BranchesHave
  <2> QED  BY <1>2, <1>3, <1>4, OthersHave
<1>6. ASSUME NEW c \in cache', c.module # None
      PROVE  Right(rows', c)
  <2>1. PICK u \in situation.trees :
           /\ c.path \in DOMAIN u /\ u[c.path].blob = c.blob /\ u[c.path].module = c.module
           /\ Holds(rows, c.ids, u, c.key, c.path)
    BY <1>1, <1>6 DEF CacheIsRight, Right
  <2>2. c.ids \subseteq DOMAIN rows'
    BY DEF OnlyHeldRows
  <2>3. \A i \in c.ids : rows'[i] = rows[i]
    BY <1>1, <2>2
  <2>4. Holds(rows', c.ids, u, c.key, c.path)
    BY <2>1, <2>2, <2>3, HoldsStays
  <2> QED  BY <2>1, <2>4 DEF Right
<1>7. CacheIsRight'
  BY <1>2, <1>6 DEF CacheIsRight, Right
<1>8. ReadIsRight'
  BY <1>2 DEF ReadIsRight
<1> QED  BY <1>1, <1>5, <1>7, <1>8

\* A row that is a hit is that file's rows.
LEMMA HitIsRight ==
    ASSUME CacheIsRight, NEW t \in situation.trees, IsTree(t), NEW p \in DOMAIN Hits(t)
    PROVE  p \in DOMAIN t /\ ~Shared(t, p) /\ Holds(rows, Hits(t)[p], t, key, p)
<1> DEFINE Row(q) == {c \in cache : Reusable(t, q, c)}
<1>1. Hits(t) = [q \in {r \in DOMAIN t : Row(r) # {}} |-> (CHOOSE c \in Row(q) : TRUE).ids]
  BY DEF Hits
<1>2. p \in DOMAIN t /\ Row(p) # {} /\ Hits(t)[p] = (CHOOSE c \in Row(p) : TRUE).ids
  BY <1>1
<1>3. PICK c \in cache : Reusable(t, p, c) /\ Hits(t)[p] = c.ids
  BY <1>2
<1>4. /\ c.path = p /\ c.blob = t[p].blob /\ c.key = key
      /\ c.module = t[p].module /\ ~Shared(t, p)
  BY <1>3 DEF Reusable
<1>5. c.module # None
  BY <1>2, <1>4, TreeIs
<1>6. PICK u \in situation.trees :
         /\ c.path \in DOMAIN u /\ u[c.path].blob = c.blob /\ u[c.path].module = c.module
         /\ Holds(rows, c.ids, u, c.key, c.path)
  BY <1>5 DEF CacheIsRight, Right
<1>7. Holds(rows, c.ids, t, key, p)
  <2>1. Holds(rows, c.ids, u, key, p) /\ u[p].blob = t[p].blob /\ u[p].module = t[p].module
    BY <1>4, <1>6
  <2> QED  BY <2>1, HoldsElsewhere
<1> QED  BY <1>2, <1>3, <1>4, <1>7

\* A pass inserts finitely many rows.
LEMMA InsertedAreFinite ==
    ASSUME DOMAIN rows \subseteq 1 .. MaxRowid, NEW pool \in SUBSET DOMAIN rows,
           NEW t, IsTree(t), NEW paths \in SUBSET DOMAIN t, NEW k, NEW a,
           Assigned(a, pool, t, k, paths)
    PROVE  IsFiniteSet(DOMAIN Inserted(a, t, k))
<1> DEFINE n == Cardinality(ChunksOf(t, paths))
<1>1. NextRowid \in Nat /\ n \in Nat
  BY NextRowidIsFree, ChunksAreFinite
<1>2. DOMAIN Inserted(a, t, k) \subseteq NextRowid .. NextRowid + n - 1
  <2> SUFFICES ASSUME NEW i \in DOMAIN Inserted(a, t, k)
               PROVE  i \in NextRowid .. NextRowid + n - 1
    OBVIOUS
  <2>1. PICK c \in DOMAIN a : a[c] = i
    BY DEF Assigned
  <2>2. i \notin DOMAIN rows
    BY DEF Assigned
  <2> QED  BY <2>1, <2>2 DEF Assigned
<1>3. IsFiniteSet(NextRowid .. NextRowid + n - 1)
  BY <1>1, FS_Interval
<1> QED  BY <1>2, <1>3, FS_Subset

\* A claimed row has the module of its file, which no file the pass writes has.
LEMMA ClaimedAreOthers ==
    ASSUME NEW t, NEW k, NEW H, NEW a, NEW pool, NEW paths, paths = DOMAIN t \ DOMAIN H,
           DOMAIN H \subseteq DOMAIN t,
           Assigned(a, pool, t, k, paths),
           \A p \in DOMAIN H : ~Shared(t, p) /\ Holds(rows, H[p], t, k, p),
           NEW p \in DOMAIN H, NEW c \in H[p], NEW i \in DOMAIN Inserted(a, t, k)
    PROVE  rows[c] # Inserted(a, t, k)[i]
<1>1. PICK d \in DOMAIN a : Inserted(a, t, k)[i] = Hash(t, k, d)
  BY DEF Assigned
<1>2. d[1] \in paths
  BY ChunksAre DEF Assigned
<1>3. Inserted(a, t, k)[i].module = t[d[1]].module
  BY <1>1 DEF Hash
<1>4. rows[c].module = t[p].module
  BY HoldsModule
<1>5. t[d[1]].module # t[p].module
  BY <1>2 DEF Shared
<1> QED  BY <1>3, <1>4, <1>5

\* One pass, with the hits H it keeps.
Passes(b, t, k, H, hits, pool, a) ==
    /\ DOMAIN H \subseteq DOMAIN t
    /\ \A p \in DOMAIN H : ~Shared(t, p) /\ Holds(rows, H[p], t, k, p)
    /\ hits = UNION {{[id |-> i, path |-> p] : i \in H[p]} : p \in DOMAIN H}
    /\ {m.id : m \in hits} \cap Range(a) = {}
    /\ \A m, n \in hits : m.id = n.id => m = n
    /\ pool \in SUBSET DOMAIN rows
    /\ a \in Assignments(pool, t, k, DOMAIN t \ DOMAIN H)
    /\ held'[b] = hits \cup MembershipRows(a)
    /\ manifest'[b] = [files |-> t, key |-> k]
    /\ \A o \in Branches \ {b} : \/ held'[o] = held[o] /\ manifest'[o] = manifest[o]
                                 \/ held'[o] = {} /\ manifest'[o] = NotIndexed
    /\ Collect(With(rows, Inserted(a, t, k)),
               vectors \cup Embedded(Inserted(a, t, k), {m.id : m \in hits}),
               Upserted(a, t, k, DOMAIN t \ DOMAIN H), k)

LEMMA PassFiles ==
    ASSUME TypeOK, Apart, BranchesHave, CacheIsRight, vectors = DOMAIN rows,
           OnlyHeldRows, OnlyHeldRows', situation' = situation,
           NEW b \in Branches, NEW t \in situation.trees, NEW k, NEW H, NEW hits, NEW pool, NEW a,
           Passes(b, t, k, H, hits, pool, a)
    PROVE  (BranchesHave /\ CacheIsRight /\ vectors = DOMAIN rows)'
<1> PICK paths, claimed : paths = DOMAIN t \ DOMAIN H /\ claimed = {m.id : m \in hits}
  OBVIOUS
<1>0. /\ DOMAIN H \subseteq DOMAIN t /\ claimed \cap Range(a) = {}
      /\ \A p \in DOMAIN H : ~Shared(t, p) /\ Holds(rows, H[p], t, k, p)
      /\ hits = UNION {{[id |-> i, path |-> p] : i \in H[p]} : p \in DOMAIN H}
      /\ \A m, n \in hits : m.id = n.id => m = n
      /\ pool \in SUBSET DOMAIN rows /\ a \in Assignments(pool, t, k, paths)
      /\ held'[b] = hits \cup MembershipRows(a) /\ manifest'[b] = [files |-> t, key |-> k]
      /\ \A o \in Branches \ {b} : \/ held'[o] = held[o] /\ manifest'[o] = manifest[o]
                                   \/ held'[o] = {} /\ manifest'[o] = NotIndexed
      /\ Collect(With(rows, Inserted(a, t, k)),
                 vectors \cup Embedded(Inserted(a, t, k), claimed),
                 Upserted(a, t, k, paths), k)
  BY DEF Passes
<1> DEFINE new == Inserted(a, t, k)
           indexed == vectors \cup Embedded(new, claimed)
           cached == Upserted(a, t, k, paths)
<1> HIDE DEF new, indexed, cached
<1>1. IsTree(t) /\ paths \in SUBSET DOMAIN t /\ DOMAIN rows \subseteq 1 .. MaxRowid
  BY TreesAre DEF TypeOK
<1>2. Assigned(a, pool, t, k, paths)
  BY <1>0, <1>1, AssignmentIs
<1>3. Collect(With(rows, new), indexed, cached, k)
  BY <1>0 DEF new, indexed, cached
<1>4. Stays /\ \A i \in DOMAIN rows' : rows'[i] = With(rows, new)[i]
  BY <1>2, <1>3, CollectStays DEF new
<1>5. DOMAIN rows' = HeldIds' /\ \A c \in cache' : c.ids \subseteq DOMAIN rows'
  BY DEF OnlyHeldRows
<1>6. vectors' = DOMAIN rows'
  <2>1. IsFiniteSet(DOMAIN new)
    BY <1>0, <1>1, <1>2, InsertedAreFinite DEF new
  <2>2. \A i \in DOMAIN new : \A c \in claimed \cap DOMAIN rows : rows[c] # new[i]
    <3> SUFFICES ASSUME NEW i \in DOMAIN new, NEW c \in claimed
                 PROVE  rows[c] # new[i]
      OBVIOUS
    <3>1. PICK p \in DOMAIN H : c \in H[p]
      BY <1>0
    <3> QED  BY <1>0, <1>2, <3>1, ClaimedAreOthers DEF new
  <2>3. Embedded(new, claimed) = DOMAIN new
    BY <2>1, <2>2, AllEmbedded
  <2>4. indexed = DOMAIN With(rows, new)
    BY <2>3 DEF indexed, With
  <2> QED  BY <1>3, <2>4, CollectIs
<1>7. CacheIsRight'
  <2>1. cache' \subseteq cached
    BY <1>3, CollectIs
  <2>2. cache' \subseteq Upserted(a, t, k, paths)
    BY <2>1 DEF cached
  <2>3. \A i \in DOMAIN rows' : rows'[i] = With(rows, Inserted(a, t, k))[i]
    BY <1>4 DEF new
  <2>4. Written(a, pool, t, k, paths)
    BY <1>2, <1>4, <1>5, <2>2, <2>3 DEF Written
  <2> QED  BY <1>1, <2>4, PassCacheIsRight
<1>8. HasFiles(rows', held'[b], t, k)
  <2>1. \A m \in hits \cup MembershipRows(a) : m.id \in DOMAIN rows'
    BY <1>0, <1>5 DEF HeldIds
  <2>2. ASSUME NEW p \in DOMAIN H
        PROVE  Holds(rows', H[p], t, k, p)
    <3>1. \A i \in H[p] : [id |-> i, path |-> p] \in hits
      BY <1>0
    <3>2. H[p] \subseteq DOMAIN rows'
      <4> SUFFICES ASSUME NEW i \in H[p] PROVE i \in DOMAIN rows'
        OBVIOUS
      <4> DEFINE m == [id |-> i, path |-> p]
      <4>1. m \in hits /\ m.id = i
        BY <3>1
      <4> HIDE DEF m
      <4> QED  BY <2>1, <4>1
    <3>3. Holds(rows, H[p], t, k, p)
      BY <1>0
    <3>4. \A i \in H[p] : rows'[i] = rows[i]
      BY <1>4, <3>2, <3>3 DEF Holds, Stays
    <3> QED  BY <3>2, <3>3, <3>4, HoldsStays
  <2>3. \A i \in DOMAIN rows' : rows'[i] = With(rows, Inserted(a, t, k))[i]
    BY <1>4 DEF new
  <2>4. {m.id : m \in hits} \cap Range(a) = {}
    BY <1>0
  <2> HIDE DEF Inserted
  <2>5. HasFiles(rows', hits \cup MembershipRows(a), t, k)
    BY <1>0, <1>1, <1>2, <2>1, <2>2, <2>3, <2>4, PassHasFiles
  <2> QED  BY <1>0, <2>5
<1>9. BranchesHave'
  <2> SUFFICES ASSUME NEW o \in Branches
               PROVE  HasFiles(rows', held'[o], manifest'[o].files, manifest'[o].key)
    BY DEF BranchesHave
  <2>1. CASE o = b
    <3>1. manifest'[b].files = t /\ manifest'[b].key = k
      BY <1>0
    <3> QED  BY <1>8, <2>1, <3>1, Zenon
  <2>2. CASE o # b
    BY <1>0, <1>4, <1>5, <2>2, OthersHave
  <2> QED  BY <2>1, <2>2
<1> QED  BY <1>6, <1>7, <1>9

LEMMA NextFiles ==
    ASSUME LifeInv, RowsInv, TypeInv, FilesInv, [Next]_vars
    PROVE  FilesInv'
<1>1. situation' = situation
  BY DEF bundle, Next, vars, WorkingTreePass, ReadHits, GitObjectsPass, AbandonPass, ChangeKey,
         Lifecycle, SetPinned, Retire, Purge, GraceEnds, RetireAutomatically, PurgeDue, Emptied
<1>2. SUFFICES ASSUME Apart'
               PROVE  FilesInv'
  BY DEF FilesInv
<1>3. /\ Apart /\ BranchesHave /\ CacheIsRight /\ ReadIsRight /\ vectors = DOMAIN rows
      /\ TypeOK /\ OnlyHeldRows
  BY <1>1, <1>2, ApartStays DEF FilesInv, TypeInv, RowsInv, Apart
<1>4. OnlyHeldRows'
  <2>1. RowsInv'
    BY NextRows
  <2> QED  BY <1>2, <2>1 DEF RowsInv, Apart
<1>5. CASE UNCHANGED bundle /\ (reading' = reading \/ reading' = None)
  BY <1>1, <1>5, SameFiles
<1>6. ASSUME NEW b \in Branches, NEW t \in situation.trees, ReadHits(b, t)
      PROVE  FilesInv'
  <2>1. /\ UNCHANGED bundle
        /\ reading' = [branch |-> b, tree |-> t, key |-> key, hits |-> Hits(t)]
    BY <1>6 DEF ReadHits
  <2>2. BranchesHave' /\ vectors' = DOMAIN rows'
    BY <1>3, <2>1 DEF bundle, BranchesHave
  <2>3. CacheIsRight'
    BY <1>1, <1>3, <2>1 DEF bundle, CacheIsRight, Right
  <2>4. \A p \in DOMAIN Hits(t) :
           p \in DOMAIN t /\ ~Shared(t, p) /\ Holds(rows, Hits(t)[p], t, key, p)
    BY <1>3, TreesAre, HitIsRight DEF TypeOK
  <2>5. rows' = rows
    BY <2>1 DEF bundle
  <2>6. ReadIsRight'
    BY <2>1, <2>4, <2>5 DEF ReadIsRight
  <2> QED  BY <2>2, <2>3, <2>6 DEF FilesInv
<1>7. ASSUME NEW b \in Branches, NEW t \in situation.trees, WorkingTreePass(b, t)
      PROVE  FilesInv'
  <2> DEFINE H == [p \in {} |-> None]
  <2>1. PICK a \in Assignments(DOMAIN rows, t, key, DOMAIN t) :
           /\ held' = [o \in Branches |->
                         IF o = b THEN MembershipRows(a)
                         ELSE IF o \in Previous(b) THEN {} ELSE held[o]]
           /\ manifest' = [o \in Branches |->
                         IF o = b THEN [files |-> t, key |-> key]
                         ELSE IF o \in Previous(b) THEN NotIndexed ELSE manifest[o]]
           /\ Collect(With(rows, Inserted(a, t, key)),
                      vectors \cup Embedded(Inserted(a, t, key), {}),
                      Upserted(a, t, key, DOMAIN t), key)
    BY <1>7 DEF WorkingTreePass
  <2>2. DOMAIN H = {} /\ {} = UNION {{[id |-> i, path |-> p] : i \in H[p]} : p \in DOMAIN H}
    OBVIOUS
  <2> HIDE DEF H
  <2>3. /\ held'[b] = {} \cup MembershipRows(a)
        /\ manifest'[b] = [files |-> t, key |-> key]
        /\ \A o \in Branches \ {b} : \/ held'[o] = held[o] /\ manifest'[o] = manifest[o]
                                     \/ held'[o] = {} /\ manifest'[o] = NotIndexed
    BY <2>1
  <2>4. {m.id : m \in {}} = {} /\ DOMAIN t \ DOMAIN H = DOMAIN t
    BY <2>2
  <2>5. Collect(With(rows, Inserted(a, t, key)),
                vectors \cup Embedded(Inserted(a, t, key), {m.id : m \in {}}),
                Upserted(a, t, key, DOMAIN t \ DOMAIN H), key)
    BY <2>1, <2>4
  <2>6. Passes(b, t, key, H, {}, DOMAIN rows, a)
    BY <2>1, <2>2, <2>3, <2>4, <2>5 DEF Passes
  <2>7. (BranchesHave /\ CacheIsRight /\ vectors = DOMAIN rows)'
    BY <1>1, <1>3, <1>4, <2>6, PassFiles
  <2>8. ReadIsRight'
    BY <1>7 DEF WorkingTreePass, ReadIsRight
  <2> QED  BY <2>7, <2>8 DEF FilesInv
<1>8. CASE GitObjectsPass
  <2> DEFINE hits == UNION {{[id |-> i, path |-> p] : i \in reading.hits[p]}
                               : p \in DOMAIN reading.hits}
             claimed == {m.id : m \in hits}
  <2>1. PICK b, t, k, misses :
           /\ b = reading.branch /\ t = reading.tree /\ k = reading.key
           /\ misses = DOMAIN t \ DOMAIN reading.hits
    OBVIOUS
  <2>2. PICK a \in Assignments(DOMAIN rows \ claimed, t, k, misses) :
           /\ claimed \cap Range(a) = {}
           /\ \A m, n \in hits : m.id = n.id => m = n
           /\ held' = [held EXCEPT ![b] = hits \cup MembershipRows(a)]
           /\ manifest' = [manifest EXCEPT ![b] = [files |-> t, key |-> k]]
           /\ Collect(With(rows, Inserted(a, t, k)),
                      vectors \cup Embedded(Inserted(a, t, k), claimed),
                      Upserted(a, t, k, misses), k)
    BY <1>8, <2>1 DEF GitObjectsPass
  <2>3. hits = UNION {{[id |-> i, path |-> p] : i \in reading.hits[p]}
                         : p \in DOMAIN reading.hits}
    OBVIOUS
  <2> HIDE DEF hits
  <2>4. reading # None /\ reading' = None
    BY <1>8 DEF GitObjectsPass
  <2>5. /\ b \in Branches /\ t \in situation.trees /\ DOMAIN reading.hits \subseteq DOMAIN t
        /\ \A p \in DOMAIN reading.hits :
              ~Shared(t, p) /\ Holds(rows, reading.hits[p], t, k, p)
    BY <1>3, <2>1, <2>4 DEF TypeInv, TypeOK, ReadInv, ReadIsRight
  <2>6. /\ held'[b] = hits \cup MembershipRows(a)
        /\ manifest'[b] = [files |-> t, key |-> k]
        /\ \A o \in Branches \ {b} : \/ held'[o] = held[o] /\ manifest'[o] = manifest[o]
                                     \/ held'[o] = {} /\ manifest'[o] = NotIndexed
    BY <2>2, <2>5 DEF LifeInv
  <2>7. Passes(b, t, k, reading.hits, hits, DOMAIN rows \ claimed, a)
    BY <2>1, <2>2, <2>3, <2>5, <2>6 DEF Passes
  <2>8. (BranchesHave /\ CacheIsRight /\ vectors = DOMAIN rows)'
    BY <1>1, <1>3, <1>4, <2>5, <2>7, PassFiles
  <2>9. ReadIsRight'
    BY <2>4 DEF ReadIsRight
  <2> QED  BY <2>8, <2>9 DEF FilesInv
<1>9. ASSUME NEW purged, Emptied(purged), reading = None
      PROVE  FilesInv'
  BY <1>3, <1>4, <1>9, EmptiedFiles DEF FilesInv
<1>10. ASSUME NEW b \in Branches, Purge(b)
       PROVE  FilesInv'
  <2>1. reading = None /\ Emptied({b})
    BY <1>3, <1>10 DEF Purge, Apart
  <2> QED  BY <1>9, <2>1
<1>11. ASSUME NEW spared, PurgeDue(spared)
       PROVE  FilesInv'
  <2>1. reading = None /\ \E due : Emptied(due)
    BY <1>11 DEF PurgeDue
  <2> QED  BY <1>9, <2>1
<1>12. ASSUME AbandonPass \/ ChangeKey \/ UNCHANGED vars
       PROVE  FilesInv'
  BY <1>5, <1>12 DEF AbandonPass, ChangeKey, vars
<1>13. ASSUME NEW b \in Branches, Retire(b) \/ GraceEnds(b)
       PROVE  FilesInv'
  BY <1>5, <1>13 DEF Retire, GraceEnds
<1>14. ASSUME NEW b \in Branches, NEW pinned, SetPinned(b, pinned)
       PROVE  FilesInv'
  BY <1>5, <1>14 DEF SetPinned
<1>15. ASSUME NEW b \in Branches, NEW status, RetireAutomatically(b, status)
       PROVE  FilesInv'
  BY <1>5, <1>15 DEF RetireAutomatically
<1> QED  BY <1>6, <1>7, <1>8, <1>10, <1>11, <1>12, <1>13, <1>14, <1>15 DEF Next, Lifecycle

\* Each file its own rows: a branch has the rows of its tree.
LEMMA FilesHold ==
    ASSUME TypeInv, FilesInv, Apart
    PROVE  BranchesHoldTheirTrees
<1> SUFFICES ASSUME NEW b \in Branches, NEW t, t = manifest[b].files
             PROVE  /\ \A p \in DOMAIN t :
                          IsFile({m.id : m \in {n \in held[b] : n.path = p}}, t, manifest[b].key, p)
                    /\ Cardinality({m.id : m \in held[b]}) = Cardinality(ChunksOf(t, DOMAIN t))
                    /\ Cardinality(held[b]) = Cardinality(ChunksOf(t, DOMAIN t))
  BY DEF BranchesHoldTheirTrees
<1>1. HasFiles(rows, held[b], t, manifest[b].key)
  BY DEF FilesInv, BranchesHave
<1>2. CASE manifest[b] = NotIndexed
  <2>1. DOMAIN t = {}
    BY <1>2 DEF NotIndexed, NoFiles
  <2>2. held[b] = {}
    BY <1>1, <2>1 DEF HasFiles
  <2>3. ChunksOf(t, DOMAIN t) = {}
    BY <2>1 DEF ChunksOf
  <2>4. {m.id : m \in held[b]} = {}
    BY <2>2
  <2> QED  BY <2>1, <2>2, <2>3, <2>4
<1>3. CASE manifest[b] # NotIndexed
  <2>1. IsTree(t)
    BY <1>3 DEF TypeInv, TypeOK, Trees, IsTree
  <2>2. \A p \in DOMAIN t :
           IsFile({m.id : m \in {n \in held[b] : n.path = p}}, t, manifest[b].key, p)
    BY <1>1, <2>1, HoldsIsFile DEF HasFiles, IdsOf
  <2>3. \A p \in DOMAIN t : ExistsBijection(ChunksOf(t, {p}),
                                            {m.id : m \in {n \in held[b] : n.path = p}})
    BY <1>1 DEF HasFiles, IdsOf, Holds, ExistsBijection
  <2>4. /\ \A m \in held[b] : m.path \in DOMAIN t
        /\ \A m, n \in held[b] : m.id = n.id => m = n
    BY <1>1 DEF HasFiles
  <2> QED  BY <2>1, <2>2, <2>3, <2>4, FilesAreTree
<1> QED  BY <1>2, <1>3

LEMMA FullInvariance == Spec => [](IInv /\ TypeInv /\ FilesInv)
<1>1. Init => IInv /\ TypeInv /\ FilesInv
  BY InitLife, InitRows, InitTypes, InitFiles DEF IInv
<1>2. IInv /\ TypeInv /\ FilesInv /\ [Next]_vars => (IInv /\ TypeInv /\ FilesInv)'
  BY NextLife, NextRows, NextTypes, NextFiles DEF IInv
<1> QED  BY <1>1, <1>2, PTL DEF Spec

-----------------------------------------------------------------------------
(* Theorems. *)

\* Whatever order passes, retirements and purges come in, a rowid that a branch, a
\* vector, a cache row or a pass's hits name is that of a row: none is freed, and so
\* given to another chunk, while it is named; none is kept that no branch holds.
\* Unless another process purges between a pass's two transactions.
THEOREM NoNameOutlivesItsRow == Spec => []RowsInv
<1>1. IInv => RowsInv
  BY DEF IInv
<1> QED  BY <1>1, Invariance, PTL

\* No pass and no maintenance unpins, retires or empties a pinned branch; the operator's
\* own unpinning, retirement or purge of it may, and leaving it for another checkout.
THEOREM PinsHold == Spec => PinnedSurvives
<1> DEFINE Kept == \A b \in Branches : Pinned(b) =>
                      \/ /\ Pinned(b)'
                         /\ record'[b].status \in {"active", record[b].status}
                         /\ manifest'[b] = NotIndexed => manifest[b] = NotIndexed
                      \/ SetPinned(b, FALSE) \/ Retire(b) \/ Purge(b)
                      \/ Served(b) /\ \E o \in Branches \ {b} : Served(o)'
<1>1. IInv /\ [Next]_vars => [Kept]_vars
  BY StepKeepsPins DEF IInv, Survives
<1> QED  BY <1>1, Invariance, PTL DEF Spec, PinnedSurvives

\* The rows, the cache, the branches' records and what a pass has read keep their
\* types, and the cache has one row for a path, a blob and a key.
THEOREM TypeCorrect == Spec => []TypeOK
<1>1. IInv /\ TypeInv /\ FilesInv => TypeOK
  BY DEF TypeInv
<1> QED  BY <1>1, FullInvariance, PTL

\* Whatever passes, purges and reused rowids came before, a branch holds exactly the
\* chunks of the tree it was indexed at, each file its own.
THEOREM BranchesHold == Spec => [](Apart => BranchesHoldTheirTrees)
<1>1. IInv /\ TypeInv /\ FilesInv => (Apart => BranchesHoldTheirTrees)
  BY FilesHold
<1> QED  BY <1>1, FullInvariance, PTL

\* A chunk row, and its vector, is there while a branch holds it and no longer.
THEOREM NothingLeaked == Spec => [](Apart => NothingLeaks)
<1>1. IInv /\ TypeInv /\ FilesInv => (Apart => NothingLeaks)
  BY DEF IInv, RowsInv, OnlyHeldRows, FilesInv, NothingLeaks, Apart
<1> QED  BY <1>1, FullInvariance, PTL

\* What the cache has for a file is that file, at the module this branch gives it.
THEOREM HitsRight == Spec => [](Apart => HitsAreRight)
<1>1. IInv /\ TypeInv /\ FilesInv => (Apart => HitsAreRight)
  <2> SUFFICES ASSUME TypeInv, FilesInv, Apart, reading # None,
                      NEW p \in DOMAIN reading.hits
               PROVE  IsFile(reading.hits[p], reading.tree, reading.key, p)
    BY DEF HitsAreRight
  <2>1. IsTree(reading.tree)
    BY TreesAre DEF TypeInv, TypeOK
  <2>2. /\ p \in DOMAIN reading.tree
        /\ Holds(rows, reading.hits[p], reading.tree, reading.key, p)
    BY DEF FilesInv, ReadIsRight
  <2> QED  BY <2>1, <2>2, HoldsIsFile
<1> QED  BY <1>1, FullInvariance, PTL
=============================================================================
