-------------------------- MODULE BundleWriteProofs --------------------------
(***************************************************************************)
(* Proofs about BundleWrite for any packages, texts, readings, workers and *)
(* bounds: while every replaced vector file was the next version of the    *)
(* last, it is that of the rows; a package's hash stands for its rows; no  *)
(* reused rowid meets a vector.                                            *)
(*                                                                         *)
(* The first lemmas count the rows a merge keeps, deletes and inserts, by  *)
(* induction over finite sets: of the counterexamples one has no smaller.  *)
(***************************************************************************)
EXTENDS BundleWrite, FiniteSetTheorems, TLAPS

\* The induction over finite sets, on the set of the counterexamples: among them
\* one of which no part is another.
LEMMA SmallestOne ==
    ASSUME NEW U, NEW Bad \in SUBSET FiniteSubsetsOf(U), Bad # {}
    PROVE  \E S \in Bad : \A e \in S : S \ {e} \notin Bad
<1>1. PICK S \in Bad : \A T \in Bad : <<T, S>> \notin StrictSubsetOrdering(U)
  <2> HIDE DEF StrictSubsetOrdering, FiniteSubsetsOf
  <2> QED  BY FS_StrictSubsetOrderingWellFounded, WFMin
<1>2. ASSUME NEW e \in S, S \ {e} \in Bad
      PROVE  FALSE
  BY <1>1, <1>2 DEF StrictSubsetOrdering, FiniteSubsetsOf
<1> QED  BY <1>1, <1>2

\* A finite set of numbers that is not empty has a greatest one.
LEMMA Greatest ==
    ASSUME NEW S \in SUBSET Nat, IsFiniteSet(S), S # {}
    PROVE  \E m \in S : \A i \in S : i <= m
<1> DEFINE Bad == {T \in FiniteSubsetsOf(Nat) : T # {} /\ ~ \E m \in T : \A i \in T : i <= m}
<1> SUFFICES ASSUME Bad # {} PROVE FALSE
  BY DEF FiniteSubsetsOf
<1>1. PICK T \in Bad : \A e \in T : T \ {e} \notin Bad
  <2> HIDE DEF Bad
  <2>1. Bad \in SUBSET FiniteSubsetsOf(Nat)
    BY DEF Bad
  <2> QED  BY <2>1, SmallestOne
<1>2. PICK e \in T : TRUE
  OBVIOUS
<1>3. T \ {e} \in FiniteSubsetsOf(Nat)
  BY FS_RemoveElement DEF FiniteSubsetsOf
<1>4. CASE T \ {e} = {}
  BY <1>4, <1>2 DEF FiniteSubsetsOf
<1>5. CASE T \ {e} # {}
  <2>1. PICK m \in T \ {e} : \A i \in T \ {e} : i <= m
    BY <1>1, <1>2, <1>3, <1>5
  <2>2. e \in Nat /\ m \in Nat /\ T \subseteq Nat
    BY DEF FiniteSubsetsOf
  <2>3. CASE e <= m
    BY <2>1, <2>2, <2>3
  <2>4. CASE m <= e
    BY <2>1, <2>2, <2>4
  <2> QED  BY <2>2, <2>3, <2>4
<1> QED  BY <1>4, <1>5

\* The first k of a set of numbers are k, if there are as many.
LEMMA FirstOnes ==
    ASSUME NEW S \in SUBSET Nat, IsFiniteSet(S), NEW k \in Nat
    PROVE  LET First == {i \in S : Cardinality({j \in S : j < i}) < k}
           IN  Cardinality(First) = IF Cardinality(S) <= k THEN Cardinality(S) ELSE k
<1> DEFINE First(T) == {i \in T : Cardinality({j \in T : j < i}) < k}
           Right(T) == Cardinality(First(T)) = IF Cardinality(T) <= k THEN Cardinality(T) ELSE k
           Bad == {T \in FiniteSubsetsOf(Nat) : ~Right(T)}
<1> SUFFICES ASSUME Bad # {} PROVE FALSE
  BY DEF FiniteSubsetsOf
<1>1. PICK T \in Bad : \A e \in T : T \ {e} \notin Bad
  <2> HIDE DEF Bad
  <2>1. Bad \in SUBSET FiniteSubsetsOf(Nat)
    BY DEF Bad
  <2> QED  BY <2>1, SmallestOne
<1>a. T \in SUBSET Nat /\ IsFiniteSet(T) /\ ~Right(T)
  BY <1>1 DEF FiniteSubsetsOf
<1>2. T # {}
  <2> SUFFICES ASSUME T = {} PROVE FALSE
    OBVIOUS
  <2>1. First(T) = {}
    OBVIOUS
  <2> QED  BY <2>1, <1>a, FS_EmptySet
<1>3. PICK m \in T : \A i \in T : i <= m
  BY <1>2, <1>a, Greatest
<1> DEFINE R == T \ {m}
<1>4. /\ IsFiniteSet(R) /\ Cardinality(R) = Cardinality(T) - 1
      /\ Cardinality(T) \in Nat /\ Cardinality(R) \in Nat
  BY <1>a, FS_RemoveElement, FS_CardinalityType
<1>5. Right(R)
  <2>1. R \in FiniteSubsetsOf(Nat) /\ R \notin Bad
    BY <1>1, <1>a, <1>4 DEF FiniteSubsetsOf
  <2> QED  BY <2>1
<1>6. \A i \in R : {j \in T : j < i} = {j \in R : j < i}
  BY <1>3, <1>a
<1>7. {j \in T : j < m} = R
  <2>1. \A j \in T : j < m <=> j # m
    BY <1>3, <1>a
  <2> QED  BY <2>1
<1>8. First(T) = First(R) \cup IF Cardinality(R) < k THEN {m} ELSE {}
  BY <1>6, <1>7, <1>3
<1>9. IsFiniteSet(First(R)) /\ m \notin First(R) /\ Cardinality(First(R)) \in Nat
  BY <1>4, FS_Subset, FS_CardinalityType
<1>10. Cardinality(First(T)) = Cardinality(First(R)) + IF Cardinality(R) < k THEN 1 ELSE 0
  <2> HIDE DEF R, First
  <2>1. CASE Cardinality(R) < k
    BY <2>1, <1>8, <1>9, FS_AddElement
  <2>2. CASE ~(Cardinality(R) < k)
    BY <2>2, <1>8, <1>9
  <2> QED  BY <2>1, <2>2
<1> HIDE DEF R, First
<1> QED  BY <1>10, <1>5, <1>a, <1>4

-----------------------------------------------------------------------------
(* The merge. *)

Having(table, p, t) == {i \in DOMAIN table : table[i] = [package |-> p, text |-> t]}

\* A new row's id is above those of the rows that stay.
LEMMA NextRowidIsFree ==
    ASSUME NEW table, IsTable(table)
    PROVE  /\ NextRowid(table) \in Nat \ {0}
           /\ \A i \in DOMAIN table : i < NextRowid(table)
<1> DEFINE S == {0} \cup DOMAIN table
<1>1. S \in SUBSET Nat /\ IsFiniteSet(S) /\ S # {}
  <2>1. IsFiniteSet(DOMAIN table)
    BY DEF IsTable
  <2>2. IsFiniteSet({0})
    BY FS_Singleton
  <2>3. IsFiniteSet(S)
    BY <2>1, <2>2, FS_Union
  <2>4. DOMAIN table \subseteq Nat
    BY DEF IsTable
  <2> QED  BY <2>3, <2>4
<1>2. \E m \in S : \A i \in S : i <= m
  <2> HIDE DEF S
  <2> QED  BY <1>1, Greatest
<1> DEFINE m == CHOOSE i \in S : \A j \in DOMAIN table : j <= i
<1>3. m \in S /\ \A j \in DOMAIN table : j <= m
  BY <1>2
<1>4. NextRowid(table) = 1 + m
  BY DEF NextRowid
<1>5. m \in Nat
  BY <1>1, <1>3
<1> HIDE DEF m
<1> QED  BY <1>3, <1>4, <1>5, <1>1

LEMMA HavingIsFinite ==
    ASSUME NEW table, IsTable(table), NEW p, NEW t
    PROVE  /\ Having(table, p, t) \in SUBSET Nat /\ IsFiniteSet(Having(table, p, t))
           /\ Cardinality(Having(table, p, t)) \in Nat
<1>1. Having(table, p, t) \in SUBSET DOMAIN table
  BY DEF Having
<1>2. IsFiniteSet(DOMAIN table) /\ DOMAIN table \subseteq Nat
  BY DEF IsTable
<1> QED  BY <1>1, <1>2, FS_Subset, FS_CardinalityType

\* The chunks to add are finitely many.
LEMMA AddedIsFinite ==
    ASSUME IsTable(rows), NEW p, NEW wanted \in [Texts -> Nat]
    PROVE  IsFiniteSet(Added(p, wanted)) /\ Cardinality(Added(p, wanted)) \in Nat
<1> DEFINE Copies(t) == {t} \X (Cardinality(RowsOf(p, t)) + 1 .. wanted[t])
           f == [t \in Texts |-> Copies(t)]
           All == {Copies(t) : t \in Texts}
<1>1. \A t \in Texts : IsFiniteSet(Copies(t))
  <2> TAKE t \in Texts
  <2>1. Cardinality(RowsOf(p, t)) \in Nat
    BY HavingIsFinite DEF Having, RowsOf
  <2>2. IsFiniteSet(Cardinality(RowsOf(p, t)) + 1 .. wanted[t])
    BY <2>1, FS_Interval
  <2>3. IsFiniteSet({t})
    BY FS_Singleton
  <2> QED  BY <2>2, <2>3, FS_Product
<1>2. IsFiniteSet(Texts)
  BY BundleAssumption
<1>3. f \in Surjection(Texts, All)
  BY DEF Surjection
<1>4. IsFiniteSet(All)
  <2> HIDE DEF f, All
  <2> QED  BY <1>2, <1>3, FS_Surjection
<1>5. IsFiniteSet(UNION All)
  <2>1. \A T \in All : IsFiniteSet(T)
    BY <1>1
  <2> HIDE DEF All
  <2> QED  BY <1>4, <2>1, FS_UNION
<1>6. Added(p, wanted) = UNION All
  BY DEF Added
<1> QED  BY <1>5, <1>6, FS_CardinalityType

\* What an assignment inserts: rows of free ids, as many of each text as are added.
LEMMA InsertsAre ==
    ASSUME IsTable(rows), NEW p \in Packages, NEW wanted \in [Texts -> Nat],
           NEW kept, IsTable(kept), NEW new \in Inserts(p, wanted, kept)
    PROVE  /\ IsTable(new)
           /\ DOMAIN new \cap DOMAIN kept = {}
           /\ \A i \in DOMAIN new : new[i].package = p
           /\ \A t \in Texts : Cardinality(Having(new, p, t)) =
                                 Cardinality(Cardinality(RowsOf(p, t)) + 1 .. wanted[t])
<1> DEFINE added == Added(p, wanted)
           first == NextRowid(kept)
           ids   == first .. first + Cardinality(added) - 1
<1>1. first \in Nat \ {0} /\ \A i \in DOMAIN kept : i < first
  BY NextRowidIsFree
<1>2. Cardinality(added) \in Nat
  BY AddedIsFinite
<1>3. PICK chunk \in Bijection(ids, added) :
         new = [i \in ids |-> [package |-> p, text |-> chunk[i][1]]]
  BY DEF Inserts
<1> HIDE DEF first
<1>4. ids \subseteq Nat \ {0} /\ IsFiniteSet(ids) /\ \A i \in ids : first <= i
  <2>1. first \in Int /\ first + Cardinality(added) - 1 \in Int
    BY <1>1, <1>2
  <2>2. IsFiniteSet(ids)
    BY <2>1, FS_Interval
  <2> QED  BY <2>1, <2>2, <1>1
<1>5. \A i \in ids : chunk[i] \in added
  BY <1>3 DEF Bijection, Injection
<1>6. \A i \in ids : chunk[i][1] \in Texts
  BY <1>5 DEF Added
<1>7. IsTable(new)
  BY <1>3, <1>4, <1>6 DEF IsTable
<1>8. DOMAIN new \cap DOMAIN kept = {}
  <2>1. DOMAIN new = ids
    BY <1>3
  <2>2. \A i \in ids : i \notin DOMAIN kept
    <3> TAKE i \in ids
    <3> HIDE DEF ids
    <3>1. i \in Nat /\ first \in Nat /\ first <= i
      BY <1>4, <1>1
    <3>2. DOMAIN kept \subseteq Nat
      BY DEF IsTable
    <3> QED  BY <3>1, <3>2, <1>1
  <2> HIDE DEF ids
  <2> QED  BY <2>1, <2>2
<1>9. \A i \in DOMAIN new : new[i].package = p
  BY <1>3
<1>10. ASSUME NEW t \in Texts
       PROVE  Cardinality(Having(new, p, t)) =
                Cardinality(Cardinality(RowsOf(p, t)) + 1 .. wanted[t])
  <2> DEFINE H == Having(new, p, t)
             range == Cardinality(RowsOf(p, t)) + 1 .. wanted[t]
             f == [i \in H |-> chunk[i][2]]
  <2>1. H = {i \in ids : chunk[i][1] = t}
    BY <1>3 DEF Having
  <2>2. \A c \in added : c[1] = t => c = <<t, c[2]>> /\ c[2] \in range
    BY DEF Added
  <2>3. f \in [H -> range]
    BY <2>1, <2>2, <1>5
  <2>4. \A i, j \in H : f[i] = f[j] => i = j
    <3> SUFFICES ASSUME NEW i \in H, NEW j \in H, f[i] = f[j] PROVE i = j
      OBVIOUS
    <3>1. chunk[i] = chunk[j]
      BY <2>1, <2>2, <1>5
    <3> QED  BY <3>1, <2>1, <1>3 DEF Bijection, Injection, IsInjective
  <2>5. \A n \in range : \E i \in H : f[i] = n
    <3> TAKE n \in range
    <3>1. <<t, n>> \in added
      BY DEF Added
    <3>2. PICK i \in ids : chunk[i] = <<t, n>>
      BY <3>1, <1>3 DEF Bijection, Surjection
    <3> QED  BY <3>2, <2>1
  <2>6. f \in Bijection(H, range)
    <3> HIDE DEF H, range, f
    <3> QED  BY <2>3, <2>4, <2>5 DEF Bijection, Injection, Surjection, IsInjective
  <2>7. IsFiniteSet(H)
    BY <1>7, HavingIsFinite
  <2> HIDE DEF H, range, f
  <2>8. ExistsBijection(H, range)
    BY <2>6 DEF ExistsBijection
  <2>9. Cardinality(range) = Cardinality(H)
    BY <2>7, <2>8, FS_Bijection
  <2> QED  BY <2>9 DEF H, range
<1> QED  BY <1>7, <1>8, <1>9, <1>10

LEMMA KeptIsTable ==
    ASSUME NEW table, IsTable(table), NEW ids
    PROVE  IsTable(Without(table, ids))
<1>1. IsFiniteSet(DOMAIN table \ ids)
  BY FS_Difference DEF IsTable
<1> QED  BY <1>1 DEF IsTable, Without, Restrict

LEMMA JoinIsTable ==
    ASSUME NEW s, IsTable(s), NEW t, IsTable(t)
    PROVE  IsTable(With(s, t))
<1>1. IsFiniteSet(DOMAIN s \cup DOMAIN t)
  BY FS_Union DEF IsTable
<1> QED  BY <1>1 DEF IsTable, With

LEMMA RemovedAre ==
    ASSUME NEW p, NEW wanted, NEW i
    PROVE  i \in Removed(p, wanted) <=>
              \E t \in Texts : /\ i \in RowsOf(p, t)
                               /\ Cardinality({j \in RowsOf(p, t) : j < i}) >= wanted[t]
BY DEF Removed

\* After the merge a package has as many rows of each text as it has chunks, and the
\* other packages have the rows they had.
THEOREM MergeIsTheReading ==
    ASSUME IsTable(rows), NEW p \in Packages, NEW wanted \in [Texts -> Nat],
           NEW kept, kept = Without(rows, Removed(p, wanted)),
           NEW new \in Inserts(p, wanted, kept)
    PROVE  /\ IsTable(kept) /\ IsTable(new) /\ IsTable(With(kept, new))
           /\ DOMAIN new \cap DOMAIN kept = {}
           /\ \A t \in Texts : Cardinality(Having(With(kept, new), p, t)) = wanted[t]
           /\ \A q \in Packages \ {p}, t \in Texts :
                 Having(With(kept, new), q, t) = RowsOf(q, t)
<1> DEFINE merged == With(kept, new)
<1>1. IsTable(kept)
  BY KeptIsTable
<1>2. /\ IsTable(new)
      /\ DOMAIN new \cap DOMAIN kept = {}
      /\ \A i \in DOMAIN new : new[i].package = p
      /\ \A t \in Texts : Cardinality(Having(new, p, t)) =
                            Cardinality(Cardinality(RowsOf(p, t)) + 1 .. wanted[t])
  BY <1>1, InsertsAre
<1>3. IsTable(merged)
  BY <1>1, <1>2, JoinIsTable
<1>4. \A q, t : Having(merged, q, t) = Having(kept, q, t) \cup Having(new, q, t)
  <2> TAKE q, t
  <2>1. Having(merged, q, t) \subseteq Having(kept, q, t) \cup Having(new, q, t)
    BY <1>2 DEF Having, With
  <2>2. Having(new, q, t) \subseteq Having(merged, q, t)
    BY DEF Having, With
  <2>3. Having(kept, q, t) \subseteq Having(merged, q, t)
    BY <1>2 DEF Having, With
  <2> QED  BY <2>1, <2>2, <2>3
<1>5. ASSUME NEW t \in Texts
      PROVE  Having(kept, p, t) = {i \in RowsOf(p, t) :
                                     Cardinality({j \in RowsOf(p, t) : j < i}) < wanted[t]}
  <2>1. ASSUME NEW i \in RowsOf(p, t)
        PROVE  i \in Removed(p, wanted) <=>
                   Cardinality({j \in RowsOf(p, t) : j < i}) >= wanted[t]
    <3>1. \A u \in Texts : i \in RowsOf(p, u) => u = t
      BY DEF RowsOf
    <3> QED  BY <3>1, RemovedAre
  <2>2. ASSUME NEW i \in RowsOf(p, t)
        PROVE  /\ Cardinality({j \in RowsOf(p, t) : j < i}) \in Nat
               /\ wanted[t] \in Nat
    <3>1. IsFiniteSet(RowsOf(p, t))
      BY HavingIsFinite DEF Having, RowsOf
    <3> QED  BY <3>1, FS_Subset, FS_CardinalityType
  <2>3. Having(kept, p, t) = RowsOf(p, t) \ Removed(p, wanted)
    BY DEF Having, RowsOf, Without, Restrict
  <2>4. \A i \in RowsOf(p, t) : i \notin Removed(p, wanted) <=>
                                  Cardinality({j \in RowsOf(p, t) : j < i}) < wanted[t]
    BY <2>1, <2>2
  <2> QED  BY <2>3, <2>4
<1>6. ASSUME NEW t \in Texts
      PROVE  Cardinality(Having(merged, p, t)) = wanted[t]
  <2> DEFINE c == Cardinality(RowsOf(p, t))
             k == Having(kept, p, t)
             n == Having(new, p, t)
  <2>1. RowsOf(p, t) \in SUBSET Nat /\ IsFiniteSet(RowsOf(p, t)) /\ c \in Nat
    BY HavingIsFinite DEF Having, RowsOf
  <2>2. Cardinality(k) = IF c <= wanted[t] THEN c ELSE wanted[t]
    <3>1. wanted[t] \in Nat
      OBVIOUS
    <3> QED  BY <2>1, <3>1, <1>5, FirstOnes
  <2>3. Cardinality(n) = IF c + 1 > wanted[t] THEN 0 ELSE wanted[t] - c
    <3>1. Cardinality(n) = Cardinality(c + 1 .. wanted[t])
      BY <1>2
    <3>2. c + 1 \in Int /\ wanted[t] \in Int
      BY <2>1
    <3>3. Cardinality(c + 1 .. wanted[t]) =
             IF c + 1 > wanted[t] THEN 0 ELSE wanted[t] - (c + 1) + 1
      <4> HIDE DEF c
      <4> QED  BY <3>2, FS_Interval
    <3> HIDE DEF c, n
    <3> QED  BY <3>1, <3>2, <3>3, <2>1
  <2>4. k \cap n = {}
    BY <1>2 DEF Having
  <2>5. IsFiniteSet(k) /\ IsFiniteSet(n)
    BY <1>1, <1>2, HavingIsFinite
  <2>6. Cardinality(k \cup n) = Cardinality(k) + Cardinality(n)
    <3> HIDE DEF k, n
    <3>1. Cardinality(k) \in Nat /\ Cardinality(n) \in Nat
      BY <2>5, FS_CardinalityType
    <3> QED  BY <2>4, <2>5, <3>1, FS_Union, FS_EmptySet
  <2>7. wanted[t] \in Nat
    OBVIOUS
  <2>8. Having(merged, p, t) = k \cup n
    BY <1>4
  <2> HIDE DEF c, k, n, merged
  <2> QED  BY <2>1, <2>2, <2>3, <2>6, <2>7, <2>8
<1>7. ASSUME NEW q \in Packages \ {p}, NEW t \in Texts
      PROVE  Having(merged, q, t) = RowsOf(q, t)
  <2>1. Having(new, q, t) = {}
    BY <1>2 DEF Having
  <2>2. RowsOf(q, t) \cap Removed(p, wanted) = {}
    <3> SUFFICES ASSUME NEW i \in RowsOf(q, t), i \in Removed(p, wanted) PROVE FALSE
      OBVIOUS
    <3>1. PICK u \in Texts : i \in RowsOf(p, u)
      BY RemovedAre
    <3> QED  BY <3>1 DEF RowsOf
  <2>3. Having(kept, q, t) = RowsOf(q, t)
    BY <2>2 DEF Having, RowsOf, Without, Restrict
  <2> QED  BY <2>1, <2>3, <1>4
<1> QED  BY <1>1, <1>2, <1>3, <1>6, <1>7

-----------------------------------------------------------------------------
(* The vectors. *)

LEMMA VectorsAreIndex ==
    ASSUME NEW table, IsTable(table)
    PROVE  IsIndex(VectorsOf(table))
BY DEF IsTable, IsIndex, VectorsOf, Embedded

\* The vectors of the merged rows are those of the rows, without the removed ones',
\* and the new ones'.
LEMMA MergedVectors ==
    ASSUME NEW table, NEW ids, NEW new, DOMAIN new \cap DOMAIN Without(table, ids) = {}
    PROVE  With(Without(VectorsOf(table), ids), VectorsOf(new)) =
             VectorsOf(With(Without(table, ids), new))
<1> DEFINE kept == Without(table, ids)
           left == With(Without(VectorsOf(table), ids), VectorsOf(new))
           merged == With(kept, new)
<1>1. Embedded(merged) = (Embedded(table) \ ids) \cup Embedded(new)
  BY DEF Embedded, With, Without, Restrict
<1>2. DOMAIN left = Embedded(merged)
  BY <1>1 DEF With, Without, Restrict, VectorsOf
<1>3. ASSUME NEW i \in Embedded(merged)
      PROVE  left[i] = merged[i].text
  <2>1. CASE i \in Embedded(new)
    BY <2>1 DEF Embedded, With, VectorsOf
  <2>2. CASE i \notin Embedded(new)
    <3>1. i \in Embedded(table) \ ids /\ i \in DOMAIN kept /\ i \notin DOMAIN new
      BY <2>2, <1>1 DEF Embedded, Without, Restrict
    <3>2. merged[i] = table[i]
      BY <3>1 DEF With, Without, Restrict
    <3>3. left[i] = Without(VectorsOf(table), ids)[i]
      BY <3>1, <2>2 DEF With, Without, Restrict, VectorsOf
    <3>4. Without(VectorsOf(table), ids)[i] = table[i].text
      BY <3>1 DEF Without, Restrict, VectorsOf
    <3> QED  BY <3>2, <3>3, <3>4
  <2> QED  BY <2>1, <2>2
<1>4. left = [i \in DOMAIN left |-> left[i]]
  BY DEF With
<1> HIDE DEF left, merged
<1> QED  BY <1>2, <1>3, <1>4 DEF VectorsOf, left, merged

-----------------------------------------------------------------------------
(* The invariant. *)

\* One unit of work writes at a time, and its transaction holds the merge of its
\* reading with the rows as they are.
WriterInv ==
    /\ \A v, w \in Workers : Step(v) = "commit" /\ Step(w) = "commit" => v = w
    /\ \A w \in Workers : Step(w) = "commit" =>
          /\ \A t \in Texts :
                Cardinality(Having(unit[w].rows, unit[w].package, t)) = unit[w].reading[t]
          /\ \A p \in Packages \ {unit[w].package}, t \in Texts :
                Having(unit[w].rows, p, t) = RowsOf(p, t)
          /\ ~unit[w].dirty => VectorsOf(unit[w].rows) = VectorsOf(rows)

\* The vectors of a unit of work that no other has overtaken: those of the file it
\* loaded, then those of the rows it will commit, then those of the rows.
LoadedInv(w) ==
    "file" \notin unit[w].behind =>
       /\ Step(w) \in {"read", "write"} => unit[w].vectors = file
       /\ Step(w) = "commit" /\ Settled => unit[w].vectors = VectorsOf(unit[w].rows)
       /\ FileIsDue(w) /\ (\A v \in Workers \ {w} : ~FileIsDue(v)) =>
             unit[w].vectors = VectorsOf(rows)

\* While every replaced file was the next version of the last.
FileInv == ~torn => StoresAgree /\ \A w \in Workers : LoadedInv(w)

ClearInv == pass = "clearing file" => rows = Empty

IInv == TypeOK /\ RowsAreOneReading /\ WriterInv /\ FileInv /\ ClearInv

-----------------------------------------------------------------------------
(* Every action keeps it. *)

LEMMA NoUnitIs ==
    /\ DOMAIN NoUnit = {"step", "package", "reading", "vectors", "rows", "dirty", "behind"}
    /\ NoUnit.step = "idle" /\ NoUnit.vectors = Empty /\ NoUnit.rows = Empty
    /\ NoUnit.behind = {} /\ NoUnit.dirty = FALSE
BY DEF NoUnit

LEMMA EmptyIs ==
    /\ IsTable(Empty) /\ IsIndex(Empty) /\ VectorsOf(Empty) = Empty
    /\ \A p, t : Having(Empty, p, t) = {}
<1>1. IsFiniteSet(DOMAIN Empty)
  BY FS_EmptySet DEF Empty
<1>2. IsTable(Empty) /\ IsIndex(Empty)
  BY <1>1 DEF IsTable, IsIndex, Empty
<1>3. VectorsOf(Empty) = Empty
  BY DEF VectorsOf, Embedded, Empty
<1>4. \A p, t : Having(Empty, p, t) = {}
  BY DEF Having, Empty
<1> QED  BY <1>2, <1>3, <1>4

LEMMA DoesAt ==
    ASSUME DOMAIN unit = Workers, NEW w \in Workers, NEW changes, Does(w, changes)
    PROVE  /\ DOMAIN unit' = Workers
           /\ unit'[w] = With(unit[w], changes)
           /\ \A v \in Workers \ {w} : unit'[v] = unit[v]
BY DEF Does

LEMMA EndsAt ==
    ASSUME DOMAIN unit = Workers, NEW w \in Workers, Ends(w)
    PROVE  /\ DOMAIN unit' = Workers
           /\ unit'[w] = NoUnit
           /\ \A v \in Workers \ {w} : unit'[v] = unit[v]
BY DEF Ends

LEMMA InitIInv == Init => IInv
<1> SUFFICES ASSUME Init PROVE IInv
  OBVIOUS
<1>0. \A w \in Workers : unit[w] = NoUnit /\ Step(w) = "idle" /\ ~FileIsDue(w)
  BY NoUnitIs DEF Init, Step, FileIsDue
<1>1. TypeOK
  BY EmptyIs DEF Init, TypeOK
<1>2. RowsAreOneReading
  BY DEF Init, RowsAreOneReading
<1>3. WriterInv
  BY <1>0 DEF WriterInv
<1>4. FileInv
  <2>1. file = VectorsOf(rows)
    BY EmptyIs DEF Init
  <2>2. \A w \in Workers : LoadedInv(w)
    BY <1>0 DEF LoadedInv
  <2> QED  BY <2>1, <2>2 DEF FileInv, StoresAgree
<1>5. ClearInv
  BY DEF Init, ClearInv
<1> QED  BY <1>1, <1>2, <1>3, <1>4, <1>5 DEF IInv

\* What an action leaves alone that touches neither the files, nor the units of work.
LEMMA QuietStep ==
    ASSUME IInv, UNCHANGED <<rows, file, unit, torn>>,
           pass' = "clearing file" <=> pass = "clearing file"
    PROVE  WriterInv' /\ FileInv' /\ ClearInv'
<1>0. \A p, t : RowsOf(p, t)' = RowsOf(p, t)
  BY DEF RowsOf
<1>1. WriterInv'
  BY <1>0 DEF IInv, WriterInv, Step
<1>2. Settled' <=> Settled
  BY DEF Settled, FileIsDue, Step
<1>3. FileInv'
  BY <1>2 DEF IInv, FileInv, StoresAgree, LoadedInv, FileIsDue, Step
<1>4. ClearInv'
  BY DEF IInv, ClearInv
<1> QED  BY <1>1, <1>3, <1>4

LEMMA EditStep ==
    ASSUME IInv, NEW p \in Packages, Edit(p)
    PROVE  IInv'
<1>1. WriterInv' /\ FileInv' /\ ClearInv'
  BY QuietStep DEF Edit, history
<1>2. TypeOK'
  BY DEF IInv, TypeOK, Edit, history
<1>3. RowsAreOneReading'
  BY DEF IInv, RowsAreOneReading, RowsOf, Edit
<1> QED  BY <1>1, <1>2, <1>3 DEF IInv

LEMMA StartPassStep ==
    ASSUME IInv, NEW force \in BOOLEAN, StartPass(force)
    PROVE  IInv'
<1>1. WriterInv' /\ FileInv' /\ ClearInv'
  BY QuietStep DEF StartPass
<1>2. TypeOK'
  <2>1. hash' \in [Packages -> Readings \cup {None}]
    BY DEF IInv, TypeOK, StartPass
  <2>2. repaired' \in BOOLEAN
    BY DEF StartPass, Drift
  <2>3. pass' \in {"clearing", "working"} /\ todo' = Packages
    BY DEF StartPass
  <2>4. \A w \in Workers : unit[w] = NoUnit
    BY DEF IInv, TypeOK, StartPass
  <2> QED  BY <2>1, <2>2, <2>3, <2>4 DEF IInv, TypeOK, StartPass
<1>3. RowsAreOneReading'
  BY DEF IInv, RowsAreOneReading, RowsOf, StartPass, TypeOK
<1> QED  BY <1>1, <1>2, <1>3 DEF IInv

LEMMA EndPassStep == ASSUME IInv, EndPass PROVE IInv'
<1>1. WriterInv' /\ FileInv' /\ ClearInv'
  BY QuietStep DEF EndPass, history, disk
<1>2. TypeOK'
  BY DEF IInv, TypeOK, EndPass, history, disk
<1>3. RowsAreOneReading'
  BY DEF IInv, RowsAreOneReading, RowsOf, EndPass, disk
<1> QED  BY <1>1, <1>2, <1>3 DEF IInv

\* Outside a pass's work nobody is at work.
LEMMA NobodyAtWork ==
    ASSUME IInv, pass # "working"
    PROVE  \A w \in Workers : unit[w] = NoUnit /\ Step(w) = "idle" /\ ~FileIsDue(w)
BY NoUnitIs DEF IInv, TypeOK, Step, FileIsDue

\* What holds when no unit of work is left.
LEMMA NobodyLeft ==
    ASSUME \A w \in Workers : (unit[w] = NoUnit)'
    PROVE  /\ WriterInv'
           /\ (torn' \/ file' = VectorsOf(rows)' \/ pass' = "clearing file") => FileInv'
<1>1. \A w \in Workers : Step(w)' = "idle" /\ ~FileIsDue(w)'
  BY NoUnitIs DEF Step, FileIsDue
<1>2. WriterInv'
  BY <1>1 DEF WriterInv
<1>3. \A w \in Workers : LoadedInv(w)'
  BY <1>1 DEF LoadedInv
<1>4. ASSUME torn' \/ file' = VectorsOf(rows)' \/ pass' = "clearing file"
      PROVE  FileInv'
  BY <1>3, <1>4 DEF FileInv, StoresAgree, Settled
<1> QED  BY <1>2, <1>4

LEMMA ClearRowsStep == ASSUME IInv, ClearRows PROVE IInv'
<1>0. \A w \in Workers : unit[w] = NoUnit /\ unit'[w] = NoUnit
  BY NobodyAtWork DEF ClearRows
<1>1. WriterInv' /\ FileInv'
  BY <1>0, NobodyLeft DEF ClearRows
<1>2. TypeOK'
  BY <1>0, EmptyIs DEF IInv, TypeOK, ClearRows, history
<1>3. RowsAreOneReading'
  BY DEF RowsAreOneReading, ClearRows
<1>4. ClearInv'
  BY DEF ClearInv, ClearRows
<1> QED  BY <1>1, <1>2, <1>3, <1>4 DEF IInv

LEMMA ClearFileStep == ASSUME IInv, ClearFile PROVE IInv'
<1>0. \A w \in Workers : unit[w] = NoUnit /\ unit'[w] = NoUnit
  BY NobodyAtWork DEF ClearFile
<1>1. WriterInv' /\ FileInv'
  <2>1. rows' = Empty /\ file' = Empty
    BY DEF IInv, ClearInv, ClearFile
  <2>2. file' = VectorsOf(rows)'
    BY <2>1, EmptyIs DEF VectorsOf, Embedded
  <2> QED  BY <1>0, <2>2, NobodyLeft
<1>2. TypeOK'
  BY <1>0, EmptyIs DEF IInv, TypeOK, ClearFile
<1>3. RowsAreOneReading'
  BY DEF IInv, RowsAreOneReading, RowsOf, ClearFile
<1>4. ClearInv'
  BY DEF ClearInv, ClearFile
<1> QED  BY <1>1, <1>2, <1>3, <1>4 DEF IInv

\* A unit of work moves that is not, and does not come, between writing and the end.
LEMMA AloneStep ==
    ASSUME IInv, NEW w \in Workers,
           \A v \in Workers \ {w} : unit'[v] = unit[v],
           UNCHANGED <<rows, file, pass, torn>>,
           ~FileIsDue(w), ~FileIsDue(w)', Step(w)' # "commit", ~torn => LoadedInv(w)'
    PROVE  WriterInv' /\ FileInv' /\ ClearInv'
<1>0. \A p, t : RowsOf(p, t)' = RowsOf(p, t)
  BY DEF RowsOf
<1>1. WriterInv'
  BY <1>0 DEF IInv, WriterInv, Step
<1>2. \A v \in Workers : FileIsDue(v)' <=> FileIsDue(v)
  BY DEF FileIsDue, Step
<1>3. Settled' <=> Settled
  BY <1>2 DEF Settled
<1>4. ASSUME NEW v \in Workers \ {w}, ~torn
      PROVE  LoadedInv(v)'
  BY <1>2, <1>3, <1>4 DEF IInv, FileInv, LoadedInv, Step
<1>5. FileInv'
  BY <1>3, <1>4 DEF IInv, FileInv, StoresAgree
<1>6. ClearInv'
  BY DEF IInv, ClearInv
<1> QED  BY <1>1, <1>5, <1>6

\* A unit of work ends that is not between its commits.
LEMMA EndsQuietly ==
    ASSUME IInv, NEW w \in Workers, Ends(w), ~FileIsDue(w),
           UNCHANGED <<disk, pass, todo, torn>>, repaired' \in BOOLEAN
    PROVE  IInv'
<1> USE NoUnitIs
<1>1. DOMAIN unit' = Workers /\ unit'[w] = NoUnit /\ \A v \in Workers \ {w} : unit'[v] = unit[v]
  BY EndsAt DEF IInv, TypeOK
<1>2. TypeOK'
  BY <1>1 DEF IInv, TypeOK, disk
<1>3. Step(w)' = "idle" /\ ~FileIsDue(w)' /\ LoadedInv(w)'
  BY <1>1 DEF Step, FileIsDue, LoadedInv
<1>4. WriterInv' /\ FileInv' /\ ClearInv'
  BY <1>1, <1>3, AloneStep DEF disk
<1>5. RowsAreOneReading'
  BY DEF IInv, RowsAreOneReading, RowsOf, disk
<1> QED  BY <1>2, <1>4, <1>5 DEF IInv

\* A unit of work ends between its commits: the file is not what it should be.
LEMMA EndsTorn ==
    ASSUME IInv, NEW w \in Workers, Ends(w), torn' = TRUE,
           UNCHANGED <<disk, pass, todo>>, repaired' \in BOOLEAN
    PROVE  IInv'
<1> USE NoUnitIs
<1>1. DOMAIN unit' = Workers /\ unit'[w] = NoUnit /\ \A v \in Workers \ {w} : unit'[v] = unit[v]
  BY EndsAt DEF IInv, TypeOK
<1>2. TypeOK'
  BY <1>1 DEF IInv, TypeOK, disk
<1>3. \A p, t : RowsOf(p, t)' = RowsOf(p, t)
  BY DEF RowsOf, disk
<1>4. WriterInv'
  BY <1>1, <1>3 DEF IInv, WriterInv, Step, disk
<1>5. RowsAreOneReading'
  BY DEF IInv, RowsAreOneReading, RowsOf, disk
<1>6. FileInv' /\ ClearInv'
  BY DEF IInv, FileInv, ClearInv, disk
<1> QED  BY <1>2, <1>4, <1>5, <1>6 DEF IInv

LEMMA RefusedStep ==
    ASSUME IInv, NEW w \in Workers, Refused(w)
    PROVE  IInv'
<1>1. ~FileIsDue(w) /\ torn' = torn /\ repaired' = FALSE
  BY DEF Refused, FileIsDue, Goes, IInv, TypeOK
<1> QED  BY <1>1, EndsQuietly DEF Refused

LEMMA FailStep ==
    ASSUME IInv, NEW w \in Workers, Fail(w)
    PROVE  IInv'
<1>1. repaired' = FALSE
  BY DEF Fail, Goes
<1>2. CASE FileIsDue(w)
  <2>1. torn' = TRUE
    BY <1>2 DEF Fail, Goes
  <2> QED  BY <1>1, <2>1, EndsTorn DEF Fail
<1>3. CASE ~FileIsDue(w)
  <2>1. torn' = torn
    BY <1>3 DEF Fail, Goes, IInv, TypeOK
  <2> QED  BY <1>1, <1>3, <2>1, EndsQuietly DEF Fail
<1> QED  BY <1>2, <1>3

LEMMA ReplaceFailsStep ==
    ASSUME IInv, NEW w \in Workers, ReplaceFails(w)
    PROVE  IInv'
<1>1. torn' = TRUE /\ repaired' = FALSE
  BY DEF ReplaceFails, Goes
<1> QED  BY <1>1, EndsTorn DEF ReplaceFails

\* The pass is given up: nobody is at work.
LEMMA GivenUp ==
    ASSUME IInv, DOMAIN unit' = Workers, \A w \in Workers : unit'[w] = NoUnit,
           pass' = "off", todo' = {}, repaired' = FALSE, torn' \in BOOLEAN,
           UNCHANGED disk,
           torn' \/ (pass # "clearing file" /\ ~torn /\ \A w \in Workers : ~FileIsDue(w))
    PROVE  IInv'
<1>1. TypeOK'
  BY DEF IInv, TypeOK, disk
<1>2. torn' \/ file' = VectorsOf(rows)'
  <2>1. ASSUME ~torn' PROVE file = VectorsOf(rows)
    BY <2>1 DEF IInv, FileInv, StoresAgree, Settled
  <2> QED  BY <2>1 DEF disk, VectorsOf, Embedded
<1>3. WriterInv' /\ FileInv'
  BY <1>2, NobodyLeft
<1>4. RowsAreOneReading'
  BY DEF IInv, RowsAreOneReading, RowsOf, disk
<1>5. ClearInv'
  BY DEF ClearInv
<1> QED  BY <1>1, <1>3, <1>4, <1>5 DEF IInv

LEMMA ClearFailsStep == ASSUME IInv, ClearFails PROVE IInv'
<1>1. \A w \in Workers : unit[w] = NoUnit /\ unit'[w] = NoUnit /\ ~FileIsDue(w)
  BY NobodyAtWork DEF ClearFails
<1>2. /\ torn' = (torn \/ pass = "clearing file") /\ repaired' = FALSE
      /\ pass' = "off" /\ todo' = {} /\ UNCHANGED disk
  BY DEF ClearFails, Goes
<1>3. torn \in BOOLEAN /\ DOMAIN unit' = Workers
  BY DEF IInv, TypeOK, ClearFails
<1> QED  BY <1>1, <1>2, <1>3, GivenUp

LEMMA CrashStep == ASSUME IInv, Crash PROVE IInv'
<1>1. DOMAIN unit' = Workers /\ \A w \in Workers : unit'[w] = NoUnit
  BY DEF Crash
<1>2. /\ torn' = (torn \/ (pass = "clearing file" \/ \E w \in Workers : FileIsDue(w)))
      /\ repaired' = FALSE /\ pass' = "off" /\ todo' = {} /\ UNCHANGED disk
  BY DEF Crash, Goes
<1>3. torn \in BOOLEAN
  BY DEF IInv, TypeOK
<1> QED  BY <1>1, <1>2, <1>3, GivenUp

LEMMA DamageStep == ASSUME IInv, Damage PROVE IInv'
<1>1. \A w \in Workers : unit[w] = NoUnit /\ unit'[w] = NoUnit
  BY NobodyAtWork DEF Damage
<1>2. torn' = TRUE /\ repaired' = FALSE
  BY DEF Damage, Goes
<1>3. TypeOK'
  BY <1>1, <1>2, EmptyIs DEF IInv, TypeOK, Damage
<1>4. WriterInv' /\ FileInv'
  BY <1>1, <1>2, NobodyLeft
<1>5. RowsAreOneReading' /\ ClearInv'
  BY DEF IInv, RowsAreOneReading, RowsOf, ClearInv, Damage
<1> QED  BY <1>3, <1>4, <1>5 DEF IInv

LEMMA ExtractStep ==
    ASSUME IInv, NEW w \in Workers, NEW p \in Packages, Extract(w, p)
    PROVE  IInv'
<1> DEFINE c == [step |-> "open", package |-> p, reading |-> source[p]]
<1> USE NoUnitIs
<1>1. RowsAreOneReading'
  BY DEF IInv, RowsAreOneReading, RowsOf, Extract, disk
<1>2. CASE UNCHANGED unit
  <2>1. TypeOK'
    BY <1>2 DEF IInv, TypeOK, Extract, disk, history
  <2>2. WriterInv' /\ FileInv' /\ ClearInv'
    BY <1>2, QuietStep DEF Extract, disk, history
  <2> QED  BY <1>1, <2>1, <2>2 DEF IInv
<1>3. CASE Does(w, c)
  <2>1. /\ DOMAIN unit' = Workers /\ unit'[w] = With(unit[w], c)
        /\ \A v \in Workers \ {w} : unit'[v] = unit[v]
    BY <1>3, DoesAt DEF IInv, TypeOK
  <2>2. unit[w] = NoUnit
    BY DEF Extract, Step, IInv, TypeOK, IsUnit
  <2>3. DOMAIN c = {"step", "package", "reading"}
        /\ c.step = "open" /\ c.package = p /\ c.reading = source[p]
    OBVIOUS
  <2> HIDE DEF c
  <2>4. IsUnit(unit'[w]) /\ unit'[w].step = "open"
    <3>1. source[p] \in Readings
      BY DEF IInv, TypeOK
    <3> QED  BY <2>1, <2>2, <2>3, <3>1, EmptyIs DEF IsUnit, With
  <2>5. TypeOK'
    BY <2>1, <2>4 DEF IInv, TypeOK, Extract, disk, history
  <2>6. ~FileIsDue(w) /\ ~FileIsDue(w)' /\ Step(w)' = "open" /\ LoadedInv(w)'
    BY <2>2, <2>4 DEF FileIsDue, Step, LoadedInv
  <2>7. WriterInv' /\ FileInv' /\ ClearInv'
    BY <2>1, <2>6, AloneStep DEF Extract, disk, history
  <2> QED  BY <1>1, <2>5, <2>7 DEF IInv
<1> QED  BY <1>2, <1>3 DEF Extract

LEMMA OpenStep ==
    ASSUME IInv, NEW w \in Workers, Open(w)
    PROVE  IInv'
<1> DEFINE c == [step |-> "read", vectors |-> file]
<1> USE NoUnitIs
<1>1. /\ DOMAIN unit' = Workers /\ unit'[w] = With(unit[w], c)
      /\ \A v \in Workers \ {w} : unit'[v] = unit[v]
  BY DoesAt DEF IInv, TypeOK, Open
<1>2. IsUnit(unit[w]) /\ pass = "working"
  BY DEF IInv, TypeOK, Open, Step
<1>3. DOMAIN c = {"step", "vectors"} /\ c.step = "read" /\ c.vectors = file
  OBVIOUS
<1> HIDE DEF c
<1>4. IsUnit(unit'[w]) /\ unit'[w].step = "read" /\ unit'[w].vectors = file
  BY <1>1, <1>2, <1>3 DEF IsUnit, With, IInv, TypeOK
<1>5. TypeOK'
  BY <1>1, <1>2, <1>4 DEF IInv, TypeOK, Open, disk, history
<1>6. ~FileIsDue(w) /\ ~FileIsDue(w)' /\ Step(w)' = "read" /\ LoadedInv(w)'
  BY <1>4 DEF FileIsDue, Step, LoadedInv, Open, disk
<1>7. WriterInv' /\ FileInv' /\ ClearInv'
  BY <1>1, <1>6, AloneStep DEF Open, disk, history
<1>8. RowsAreOneReading'
  BY DEF IInv, RowsAreOneReading, RowsOf, Open, disk
<1> QED  BY <1>5, <1>7, <1>8 DEF IInv

LEMMA ReadStep ==
    ASSUME IInv, NEW w \in Workers, Read(w)
    PROVE  IInv'
<1> DEFINE c == [step |-> "write"]
<1> USE NoUnitIs
<1>1. /\ DOMAIN unit' = Workers /\ unit'[w] = With(unit[w], c)
      /\ \A v \in Workers \ {w} : unit'[v] = unit[v]
  BY DoesAt DEF IInv, TypeOK, Read
<1>2. IsUnit(unit[w]) /\ pass = "working"
  BY DEF IInv, TypeOK, Read, Step
<1>3. DOMAIN c = {"step"} /\ c.step = "write"
  OBVIOUS
<1> HIDE DEF c
<1>4. /\ IsUnit(unit'[w]) /\ unit'[w].step = "write"
      /\ unit'[w].vectors = unit[w].vectors /\ unit'[w].behind = unit[w].behind
  BY <1>1, <1>2, <1>3 DEF IsUnit, With, IInv, TypeOK
<1>5. TypeOK'
  BY <1>1, <1>2, <1>4 DEF IInv, TypeOK, Read, disk, history
<1>6. ~FileIsDue(w) /\ ~FileIsDue(w)' /\ Step(w)' = "write"
  BY <1>4 DEF FileIsDue, Step, Read
<1>7. ~torn => LoadedInv(w)'
  BY <1>4, <1>6 DEF IInv, FileInv, LoadedInv, Read, Step, disk
<1>8. WriterInv' /\ FileInv' /\ ClearInv'
  BY <1>1, <1>6, <1>7, AloneStep DEF Read, disk, history
<1>9. RowsAreOneReading'
  BY DEF IInv, RowsAreOneReading, RowsOf, Read, disk
<1> QED  BY <1>5, <1>8, <1>9 DEF IInv

\* A merge that is not dirty changes no vector.
LEMMA CleanMerge ==
    ASSUME NEW new, Embedded(new) = {}, DOMAIN new \cap DOMAIN rows = {}
    PROVE  VectorsOf(With(Without(rows, {}), new)) = VectorsOf(rows)
<1> DEFINE merged == With(Without(rows, {}), new)
<1>1. Embedded(merged) = Embedded(rows)
  BY DEF Embedded, With, Without, Restrict
<1>2. \A i \in Embedded(rows) : merged[i] = rows[i]
  BY DEF Embedded, With, Without, Restrict
<1> HIDE DEF merged
<1> QED  BY <1>1, <1>2 DEF VectorsOf, merged

LEMMA WriteStep ==
    ASSUME IInv, NEW w \in Workers, Write(w)
    PROVE  IInv'
<1> USE NoUnitIs
<1>1. PICK new \in Fresh(w) :
         Does(w, [step    |-> "commit",
                  rows    |-> With(Kept(w), new),
                  dirty   |-> Dirty(w, new),
                  vectors |-> With(Without(unit[w].vectors, Gone(w)), VectorsOf(new))])
  BY DEF Write
<1> DEFINE p == unit[w].package
           r == unit[w].reading
           merged == With(Kept(w), new)
           loaded == With(Without(unit[w].vectors, Gone(w)), VectorsOf(new))
           c == [step |-> "commit", rows |-> merged, dirty |-> Dirty(w, new), vectors |-> loaded]
<1>2. /\ DOMAIN unit' = Workers /\ unit'[w] = With(unit[w], c)
      /\ \A v \in Workers \ {w} : unit'[v] = unit[v]
  BY <1>1, DoesAt DEF IInv, TypeOK
<1>3. IsUnit(unit[w]) /\ pass = "working" /\ IsTable(rows) /\ torn' = torn
  BY DEF IInv, TypeOK, Write, Step, history
<1>4. p \in Packages /\ r \in [Texts -> Nat]
  BY <1>3, BundleAssumption DEF IsUnit
<1>5. /\ IsTable(Kept(w)) /\ IsTable(new) /\ IsTable(merged)
      /\ DOMAIN new \cap DOMAIN Kept(w) = {}
      /\ \A t \in Texts : Cardinality(Having(merged, p, t)) = r[t]
      /\ \A q \in Packages \ {p}, t \in Texts : Having(merged, q, t) = RowsOf(q, t)
  BY <1>3, <1>4, MergeIsTheReading DEF Kept, Gone, Fresh
<1>6. /\ DOMAIN c = {"step", "rows", "dirty", "vectors"}
      /\ c.step = "commit" /\ c.rows = merged /\ c.dirty = Dirty(w, new) /\ c.vectors = loaded
  OBVIOUS
<1>7. IsIndex(loaded)
  <2>1. IsIndex(VectorsOf(new))
    BY <1>5, VectorsAreIndex
  <2> QED  BY <1>3, <2>1 DEF IsUnit, IsIndex, With, Without, Restrict
<1>8. ~Dirty(w, new) => VectorsOf(merged) = VectorsOf(rows)
  <2> SUFFICES ASSUME ~Dirty(w, new) PROVE VectorsOf(merged) = VectorsOf(rows)
    OBVIOUS
  <2>1. Gone(w) = {} /\ Embedded(new) = {}
    BY DEF Dirty
  <2>2. Kept(w) = Without(rows, {})
    BY <2>1 DEF Kept
  <2>3. DOMAIN new \cap DOMAIN rows = {}
    BY <1>5, <2>2 DEF Without, Restrict
  <2> QED  BY <2>1, <2>2, <2>3, CleanMerge
<1>9. ASSUME unit[w].vectors = VectorsOf(rows)
      PROVE  loaded = VectorsOf(merged)
  BY <1>5, <1>9, MergedVectors DEF Kept
<1>10. Dirty(w, new) \in BOOLEAN
  BY DEF Dirty
<1> HIDE DEF c, merged, loaded, p, r
<1>11. /\ IsUnit(unit'[w]) /\ unit'[w].step = "commit" /\ unit'[w].rows = merged
       /\ unit'[w].dirty = Dirty(w, new) /\ unit'[w].vectors = loaded
       /\ unit'[w].package = p /\ unit'[w].reading = r /\ unit'[w].behind = unit[w].behind
  BY <1>2, <1>3, <1>5, <1>6, <1>7, <1>10 DEF IsUnit, With, p, r
<1>12. TypeOK'
  BY <1>2, <1>3, <1>11 DEF IInv, TypeOK, Write, disk, history
<1>13. UNCHANGED <<rows, file, pass, torn>> /\ \A q, t : RowsOf(q, t)' = RowsOf(q, t)
  BY DEF Write, disk, history, RowsOf
<1>14. \A v \in Workers : FileIsDue(v)' <=> FileIsDue(v)
  BY <1>2, <1>11 DEF FileIsDue, Step, Write
<1>15. Settled' <=> Settled
  BY <1>13, <1>14 DEF Settled
<1>16. WriterInv'
  <2>1. \A v \in Workers \ {w} : Step(v)' # "commit"
    BY <1>2 DEF Write, Locked, Step
  <2>2. Step(w)' = "commit"
    BY <1>11 DEF Step
  <2>3. /\ \A t \in Texts : Cardinality(Having(unit'[w].rows, unit'[w].package, t)) =
                              unit'[w].reading[t]
        /\ \A q \in Packages \ {unit'[w].package}, t \in Texts :
              Having(unit'[w].rows, q, t) = RowsOf(q, t)'
        /\ ~unit'[w].dirty => VectorsOf(unit'[w].rows) = VectorsOf(rows')
    BY <1>5, <1>8, <1>11, <1>13
  <2> QED  BY <2>1, <2>2, <2>3 DEF WriterInv
<1>17. ASSUME ~torn
       PROVE  LoadedInv(w)'
  <2> SUFFICES ASSUME "file" \notin unit[w].behind, Settled
               PROVE  loaded = VectorsOf(merged)
    BY <1>11, <1>14, <1>15 DEF LoadedInv, Step, FileIsDue
  <2>1. unit[w].vectors = file /\ file = VectorsOf(rows)
    BY <1>17 DEF IInv, FileInv, StoresAgree, LoadedInv, Write
  <2> QED  BY <2>1, <1>9
<1>18. ASSUME NEW v \in Workers \ {w}, ~torn
       PROVE  LoadedInv(v)'
  BY <1>2, <1>13, <1>14, <1>15, <1>18 DEF IInv, FileInv, LoadedInv, Step
<1>19. FileInv'
  BY <1>13, <1>15, <1>17, <1>18 DEF IInv, FileInv, StoresAgree
<1>20. RowsAreOneReading' /\ ClearInv'
  BY <1>13 DEF IInv, RowsAreOneReading, ClearInv, Write, disk
<1> QED  BY <1>12, <1>16, <1>19, <1>20 DEF IInv

\* What replacing a file leaves of the other units of work.
LEMMA LeftBehindIs ==
    ASSUME DOMAIN unit = Workers, NEW w \in Workers, NEW what, NEW steps, NEW u,
           unit' = [LeftBehind(w, what, steps) EXCEPT ![w] = u]
    PROVE  /\ DOMAIN unit' = Workers /\ unit'[w] = u
           /\ \A v \in Workers \ {w} :
                 unit'[v] = IF Step(v) \in steps
                            THEN [unit[v] EXCEPT !.behind = @ \cup {what}] ELSE unit[v]
BY DEF LeftBehind

LEMMA OthersLeftBehind ==
    ASSUME TypeOK, NEW w \in Workers, NEW what \in {"rows", "file"}, NEW steps, NEW u,
           unit' = [LeftBehind(w, what, steps) EXCEPT ![w] = u],
           steps \subseteq {"read", "write", "commit", "dump", "replace"},
           NEW v \in Workers \ {w}
    PROVE  /\ Step(v)' = Step(v) /\ (FileIsDue(v)' <=> FileIsDue(v))
           /\ unit'[v].package = unit[v].package /\ unit'[v].reading = unit[v].reading
           /\ unit'[v].vectors = unit[v].vectors /\ unit'[v].rows = unit[v].rows
           /\ unit'[v].dirty = unit[v].dirty
           /\ unit'[v].behind = IF Step(v) \in steps THEN unit[v].behind \cup {what}
                                ELSE unit[v].behind
           /\ unit'[v] = NoUnit \/ (pass = "working" /\ IsUnit(unit'[v]))
<1> USE NoUnitIs
<1>1. unit'[v] = IF Step(v) \in steps
                 THEN [unit[v] EXCEPT !.behind = @ \cup {what}] ELSE unit[v]
  BY LeftBehindIs DEF TypeOK
<1>2. unit[v] = NoUnit \/ (pass = "working" /\ IsUnit(unit[v]))
  BY DEF TypeOK
<1>3. CASE Step(v) \in steps
  <2>1. IsUnit(unit[v]) /\ pass = "working"
    BY <1>2, <1>3 DEF Step
  <2>2. unit'[v] = [unit[v] EXCEPT !.behind = @ \cup {what}]
    BY <1>1, <1>3
  <2> QED  BY <2>1, <2>2, <1>3 DEF IsUnit, Step, FileIsDue
<1>4. CASE Step(v) \notin steps
  BY <1>1, <1>2, <1>4 DEF Step, FileIsDue
<1> QED  BY <1>3, <1>4

LEMMA CommitRowsStep ==
    ASSUME IInv, NEW w \in Workers, CommitRows(w)
    PROVE  IInv'
<1> USE NoUnitIs
<1> DEFINE u == IF unit[w].dirty THEN [unit[w] EXCEPT !.step = "dump"] ELSE NoUnit
<1>1. unit' = [LeftBehind(w, "rows", {"write"}) EXCEPT ![w] = u]
  <2>1. LeftBehind(w, "rows", {"write"})[w] = unit[w]
    BY DEF LeftBehind
  <2> QED  BY <2>1 DEF CommitRows
<1>2. DOMAIN unit' = Workers /\ unit'[w] = u
  BY <1>1, LeftBehindIs DEF IInv, TypeOK
<1>3. \A v \in Workers \ {w} :
           /\ Step(v)' = Step(v) /\ (FileIsDue(v)' <=> FileIsDue(v))
           /\ unit'[v].package = unit[v].package /\ unit'[v].reading = unit[v].reading
           /\ unit'[v].vectors = unit[v].vectors /\ unit'[v].rows = unit[v].rows
           /\ unit'[v].dirty = unit[v].dirty
           /\ unit'[v].behind = IF Step(v) = "write" THEN unit[v].behind \cup {"rows"}
                                ELSE unit[v].behind
           /\ unit'[v] = NoUnit \/ (pass = "working" /\ IsUnit(unit'[v]))
  <2> HIDE DEF u
  <2> TAKE v \in Workers \ {w}
  <2>1. unit'[v] = IF Step(v) = "write"
                   THEN [unit[v] EXCEPT !.behind = @ \cup {"rows"}] ELSE unit[v]
    BY <1>1 DEF LeftBehind
  <2>2. unit[v] = NoUnit \/ (pass = "working" /\ IsUnit(unit[v]))
    BY DEF IInv, TypeOK
  <2>3. CASE Step(v) = "write"
    <3>1. IsUnit(unit[v]) /\ pass = "working"
      BY <2>2, <2>3 DEF Step
    <3> QED  BY <2>1, <2>3, <3>1 DEF IsUnit, Step, FileIsDue
  <2>4. CASE Step(v) # "write"
    BY <2>1, <2>2, <2>4 DEF Step, FileIsDue
  <2> QED  BY <2>3, <2>4
<1>4. /\ IsUnit(unit[w]) /\ pass = "working" /\ Step(w) = "commit" /\ ~FileIsDue(w)
      /\ rows' = unit[w].rows /\ hash' = [hash EXCEPT ![unit[w].package] = unit[w].reading]
      /\ UNCHANGED <<source, file, temp, pass, todo, torn, repaired>>
  BY DEF IInv, TypeOK, CommitRows, Step, FileIsDue, history
<1>5. \A v \in Workers \ {w} : Step(v) # "commit"
  BY <1>4 DEF IInv, WriterInv
<1>6. u = NoUnit \/ IsUnit(u)
  BY <1>4 DEF IsUnit
<1>7. TypeOK'
  <2>1. hash' \in [Packages -> Readings \cup {None}] /\ IsTable(rows')
    BY <1>4 DEF IInv, TypeOK, IsUnit
  <2>2. \A v \in Workers : unit'[v] = NoUnit \/ (pass' = "working" /\ IsUnit(unit'[v]))
    <3> SUFFICES ASSUME NEW v \in Workers
                 PROVE  unit'[v] = NoUnit \/ (pass' = "working" /\ IsUnit(unit'[v]))
      OBVIOUS
    <3> HIDE DEF u
    <3>1. CASE v = w
      BY <1>2, <1>4, <1>6, <3>1
    <3>2. CASE v # w
      BY <1>3, <1>4, <3>2
    <3> QED  BY <3>1, <3>2
  <2> HIDE DEF u
  <2> QED  BY <1>2, <1>4, <2>1, <2>2 DEF IInv, TypeOK
<1>8. \A p, t : RowsOf(p, t)' = Having(unit[w].rows, p, t)
  BY <1>4 DEF RowsOf, Having
<1>9. RowsAreOneReading'
  <2> SUFFICES ASSUME NEW p \in Packages, hash'[p] # None, NEW t \in Texts
               PROVE  Cardinality(RowsOf(p, t)') = hash'[p][t]
    BY DEF RowsAreOneReading
  <2>1. hash \in [Packages -> Readings \cup {None}]
    BY DEF IInv, TypeOK
  <2>2. CASE p = unit[w].package
    BY <1>4, <1>8, <2>1, <2>2 DEF IInv, WriterInv
  <2>3. CASE p # unit[w].package
    <3>1. RowsOf(p, t)' = RowsOf(p, t) /\ hash'[p] = hash[p]
      BY <1>4, <1>8, <2>1, <2>3 DEF IInv, WriterInv
    <3> QED  BY <3>1 DEF IInv, RowsAreOneReading
  <2> QED  BY <2>2, <2>3
<1>10. Step(w)' # "commit"
  BY <1>2, <1>4 DEF Step, IsUnit
<1>11. WriterInv'
  <2> HIDE DEF u
  <2>1. \A v \in Workers \ {w} : Step(v)' # "commit"
    BY <1>3, <1>5
  <2>2. \A v \in Workers : Step(v)' # "commit"
    BY <1>10, <2>1
  <2> QED  BY <2>2 DEF WriterInv
<1>12. ClearInv'
  BY <1>4 DEF ClearInv
<1>13. CASE unit[w].dirty
  <2>1. /\ unit'[w].step = "dump" /\ unit'[w].vectors = unit[w].vectors
        /\ unit'[w].behind = unit[w].behind /\ FileIsDue(w)'
    BY <1>2, <1>4, <1>13 DEF IsUnit, FileIsDue, Step
  <2>2. StoresAgree'
    BY <2>1 DEF StoresAgree, Settled
  <2>3. ASSUME ~torn
        PROVE  LoadedInv(w)'
    <3> SUFFICES ASSUME "file" \notin unit[w].behind,
                        \A v \in Workers \ {w} : ~FileIsDue(v)'
                 PROVE  unit[w].vectors = VectorsOf(unit[w].rows)
      BY <2>1, <1>4 DEF LoadedInv, Step
    <3>1. Settled
      BY <1>3, <1>4 DEF Settled
    <3> QED  BY <2>3, <3>1, <1>4 DEF IInv, FileInv, LoadedInv
  <2>4. ASSUME NEW v \in Workers \ {w}, ~torn
        PROVE  LoadedInv(v)'
    BY <2>1, <2>4, <1>3, <1>4, <1>5 DEF IInv, FileInv, LoadedInv
  <2>5. FileInv'
    BY <1>4, <2>2, <2>3, <2>4 DEF FileInv
  <2> QED  BY <1>7, <1>9, <1>11, <1>12, <2>5 DEF IInv
<1>14. CASE ~unit[w].dirty
  <2>1. unit'[w] = NoUnit /\ Step(w)' = "idle" /\ ~FileIsDue(w)'
    BY <1>2, <1>14 DEF Step, FileIsDue
  <2>2. VectorsOf(rows') = VectorsOf(rows)
    BY <1>4, <1>14 DEF IInv, WriterInv
  <2>3. \A v \in Workers : FileIsDue(v)' <=> FileIsDue(v)
    BY <1>3, <1>4, <2>1
  <2>4. Settled' <=> Settled
    BY <1>4, <2>3 DEF Settled
  <2>5. ASSUME NEW v \in Workers, ~torn
        PROVE  LoadedInv(v)'
    <3>1. CASE v = w
      BY <2>1, <3>1 DEF LoadedInv
    <3>2. CASE v # w
      BY <1>3, <1>4, <1>5, <2>2, <2>3, <2>4, <2>5, <3>2 DEF IInv, FileInv, LoadedInv
    <3> QED  BY <3>1, <3>2
  <2>6. FileInv'
    BY <1>4, <2>2, <2>4, <2>5 DEF IInv, FileInv, StoresAgree
  <2> QED  BY <1>7, <1>9, <1>11, <1>12, <2>6 DEF IInv
<1> QED  BY <1>13, <1>14

LEMMA DumpStep ==
    ASSUME IInv, NEW w \in Workers, Dump(w)
    PROVE  IInv'
<1> USE NoUnitIs
<1> DEFINE c == [step |-> "replace"]
<1>1. /\ DOMAIN unit' = Workers /\ unit'[w] = With(unit[w], c)
      /\ \A v \in Workers \ {w} : unit'[v] = unit[v]
  BY DoesAt DEF IInv, TypeOK, Dump
<1>2. IsUnit(unit[w]) /\ pass = "working"
  BY DEF IInv, TypeOK, Dump, Step
<1>3. DOMAIN c = {"step"} /\ c.step = "replace"
  OBVIOUS
<1> HIDE DEF c
<1>4. /\ IsUnit(unit'[w]) /\ unit'[w].step = "replace"
      /\ unit'[w].vectors = unit[w].vectors /\ unit'[w].behind = unit[w].behind
  BY <1>1, <1>2, <1>3 DEF IsUnit, With
<1>5. IsIndex(temp')
  BY <1>2, EmptyIs DEF Dump, IsUnit
<1>6. UNCHANGED <<source, rows, hash, file, pass, todo, torn, repaired>>
  BY DEF Dump, history
<1>7. TypeOK'
  BY <1>1, <1>2, <1>4, <1>5, <1>6 DEF IInv, TypeOK
<1>8. FileIsDue(w) /\ Step(w)' = "replace" /\ \A v \in Workers : FileIsDue(v)' <=> FileIsDue(v)
  BY <1>1, <1>4 DEF FileIsDue, Step, Dump
<1>9. \A p, t : RowsOf(p, t)' = RowsOf(p, t)
  BY <1>6 DEF RowsOf
<1>10. WriterInv'
  BY <1>1, <1>6, <1>8, <1>9 DEF IInv, WriterInv, Step
<1>11. StoresAgree'
  BY <1>8 DEF StoresAgree, Settled
<1>12. ASSUME ~torn
       PROVE  LoadedInv(w)'
  BY <1>4, <1>6, <1>8, <1>12 DEF IInv, FileInv, LoadedInv
<1>13. ASSUME NEW v \in Workers \ {w}, ~torn
       PROVE  LoadedInv(v)'
  BY <1>1, <1>6, <1>8, <1>13 DEF IInv, FileInv, LoadedInv, Settled, Step
<1>14. FileInv'
  BY <1>6, <1>11, <1>12, <1>13 DEF FileInv
<1>15. RowsAreOneReading' /\ ClearInv'
  BY <1>6, <1>9 DEF IInv, RowsAreOneReading, ClearInv
<1> QED  BY <1>7, <1>10, <1>14, <1>15 DEF IInv

LEMMA ReplaceStep ==
    ASSUME IInv, NEW w \in Workers, Replace(w)
    PROVE  IInv'
<1> USE NoUnitIs
<1> DEFINE steps == {"read", "write", "commit", "dump", "replace"}
<1>1. unit' = [LeftBehind(w, "file", steps) EXCEPT ![w] = NoUnit]
  BY DEF Replace
<1>2. DOMAIN unit' = Workers /\ unit'[w] = NoUnit
  BY <1>1, LeftBehindIs DEF IInv, TypeOK
<1>3. \A v \in Workers \ {w} :
           /\ Step(v)' = Step(v) /\ (FileIsDue(v)' <=> FileIsDue(v))
           /\ unit'[v].package = unit[v].package /\ unit'[v].reading = unit[v].reading
           /\ unit'[v].vectors = unit[v].vectors /\ unit'[v].rows = unit[v].rows
           /\ unit'[v].dirty = unit[v].dirty
           /\ unit'[v].behind = IF Step(v) \in steps THEN unit[v].behind \cup {"file"}
                                ELSE unit[v].behind
           /\ unit'[v] = NoUnit \/ (pass = "working" /\ IsUnit(unit'[v]))
  BY <1>1, OthersLeftBehind DEF IInv
<1>4. /\ FileIsDue(w) /\ temp # None /\ file' = temp /\ temp' = None
      /\ UNCHANGED <<source, rows, hash, pass, todo>>
      /\ torn' \in BOOLEAN /\ repaired' \in BOOLEAN
      /\ ~torn' => ~torn /\ "file" \notin unit[w].behind /\ temp = unit[w].vectors
  BY DEF Replace, FileIsDue, IInv, TypeOK
<1>5. TypeOK'
  BY <1>2, <1>3, <1>4 DEF IInv, TypeOK
<1>6. Step(w)' = "idle" /\ ~FileIsDue(w)'
  BY <1>2 DEF Step, FileIsDue
<1>7. \A p, t : RowsOf(p, t)' = RowsOf(p, t)
  BY <1>4 DEF RowsOf
<1>8. WriterInv'
  <2>1. \A v \in Workers : Step(v)' = "commit" => v # w /\ Step(v) = "commit"
    BY <1>3, <1>6
  <2>2. ASSUME NEW v \in Workers, Step(v)' = "commit"
        PROVE  /\ unit'[v].package = unit[v].package /\ unit'[v].reading = unit[v].reading
               /\ unit'[v].rows = unit[v].rows /\ unit'[v].dirty = unit[v].dirty
               /\ rows' = rows
    BY <1>3, <1>4, <2>1, <2>2
  <2> QED  BY <1>7, <2>1, <2>2 DEF IInv, WriterInv, RowsOf
<1>9. ASSUME ~torn', Settled'
      PROVE  file' = VectorsOf(rows')
  <2>1. \A v \in Workers \ {w} : ~FileIsDue(v)
    BY <1>3, <1>9 DEF Settled
  <2> QED  BY <1>4, <1>9, <2>1 DEF IInv, FileInv, LoadedInv
<1>10. ASSUME NEW v \in Workers
       PROVE  LoadedInv(v)'
  BY <1>3, <1>6 DEF LoadedInv, FileIsDue
<1>11. FileInv'
  BY <1>9, <1>10 DEF FileInv, StoresAgree
<1>12. RowsAreOneReading' /\ ClearInv'
  BY <1>4, <1>7 DEF IInv, RowsAreOneReading, ClearInv
<1> QED  BY <1>5, <1>8, <1>11, <1>12 DEF IInv

LEMMA NextIInv == IInv /\ [Next]_vars => IInv'
<1> SUFFICES ASSUME IInv, [Next]_vars PROVE IInv'
  OBVIOUS
<1>1. CASE UNCHANGED vars
  <2>1. UNCHANGED <<source, rows, hash, file, temp, pass, todo, unit, torn, repaired>>
    BY <1>1 DEF vars, disk, history
  <2>2. WriterInv' /\ FileInv' /\ ClearInv'
    BY <2>1, QuietStep
  <2> QED  BY <2>1, <2>2 DEF IInv, TypeOK, RowsAreOneReading, RowsOf
<1>2. CASE \E p \in Packages : Edit(p)
  BY <1>2, EditStep
<1>3. CASE \E force \in BOOLEAN : StartPass(force)
  BY <1>3, StartPassStep
<1>4. CASE ClearRows \/ ClearFile \/ EndPass
  BY <1>4, ClearRowsStep, ClearFileStep, EndPassStep
<1>5. CASE \E w \in Workers : Work(w)
  BY <1>5, ExtractStep, OpenStep, ReadStep, WriteStep, RefusedStep, CommitRowsStep, DumpStep,
     ReplaceStep, ReplaceFailsStep DEF Work
<1>6. CASE Trouble
  BY <1>6, ClearFailsStep, CrashStep, DamageStep, FailStep DEF Trouble
<1> QED  BY <1>1, <1>2, <1>3, <1>4, <1>5, <1>6 DEF Next

LEMMA Invariance == Spec => []IInv
<1>1. Init => IInv
  BY InitIInv
<1>2. IInv /\ [Next]_vars => IInv'
  BY NextIInv
<1> QED  BY <1>1, <1>2, PTL DEF Spec

-----------------------------------------------------------------------------
(* Theorems. *)

\* The type invariant; its last part says that only a pass's workers have units of
\* work.
THEOREM TypeCorrect == Spec => []TypeOK
<1>1. IInv => TypeOK
  BY DEF IInv
<1> QED  BY <1>1, Invariance, PTL

\* Between units of work the vector file is that of the rows, unless it was damaged,
\* or a unit of work stopped between its commits or was overtaken.
THEOREM FileIsTheRows == Spec => []StoresAgree
<1>1. IInv => StoresAgree
  BY DEF IInv, FileInv, StoresAgree
<1> QED  BY <1>1, Invariance, PTL

\* A package with a hash has exactly the chunks of the reading it was taken from,
\* whatever workers, failures and crashes come between.
THEOREM HashesAreTrue == Spec => []RowsAreOneReading
<1>1. IInv => RowsAreOneReading
  BY DEF IInv
<1> QED  BY <1>1, Invariance, PTL

\* No add meets the vector of a rowid's former row.
THEOREM AddsAreNotRefused == Spec => []WritesAreNotRefused
<1>1. IInv => WritesAreNotRefused
  <2> SUFFICES ASSUME IInv, NEW w \in Workers, Step(w) = "write", unit[w].behind = {}, Settled,
                      ~torn, NEW new \in Fresh(w)
               PROVE  ~Collides(w, new)
    BY DEF WritesAreNotRefused
  <2>1. unit[w].vectors = VectorsOf(rows)
    BY DEF IInv, FileInv, StoresAgree, LoadedInv
  <2>2. IsTable(rows) /\ unit[w].package \in Packages /\ unit[w].reading \in [Texts -> Nat]
    BY NoUnitIs, BundleAssumption DEF IInv, TypeOK, IsUnit, Step
  <2>3. DOMAIN new \cap DOMAIN Kept(w) = {}
    BY <2>2, MergeIsTheReading DEF Kept, Gone, Fresh
  <2> QED  BY <2>1, <2>3 DEF Collides, Kept, VectorsOf, Embedded, Without, Restrict
<1> QED  BY <1>1, Invariance, PTL
==============================================================================
