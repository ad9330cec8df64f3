--------------------------- MODULE BundleOpenProofs ---------------------------
(***************************************************************************)
(* Proofs about BundleOpen for any processes, bundles, errors and crashes: *)
(* an open bundle is whole, and no open drops the rows of a bundle it can  *)
(* upgrade, unless two rebuild it at once.                                 *)
(***************************************************************************)
EXTENDS BundleOpen, TLAPS

\* The tables a rebuild has created before the k-th.
Built(k) == {Tables[i] : i \in 1 .. k - 1}

Steps == {"closed", "connected", "lock", "migrate", "repair", "drop", "create", "stamp",
          "open", "failed"}

\* A damaged file is met by the first open; the stamp read under the lock is the
\* bundle's until the lock is let go.
OpenInv ==
    /\ at \in [Processes -> Steps]
    /\ read \in [Processes -> Nat]
    /\ raced \in BOOLEAN
    /\ corrupt => \A p \in Processes : at[p] = "closed"
    /\ \A p \in Processes : at[p] = "migrate" => read[p] = stamp
    /\ \A p \in Processes : at[p] = "repair" => stamp = Current

\* What the stamp says of the rest, and what a rebuild has put right before it
\* writes the stamp.
Sound == keyed /\ flagged /\ ("project" \in hashed => filled)

StampInv ==
    /\ stamp = Current => keyed
    /\ stamp >= 12 => flagged
    /\ stamp >= 16 => ("project" \in hashed => filled)
    /\ \A p \in Processes : at[p] \in {"create", "stamp"} => Sound
    /\ \A p \in Processes : at[p] = "drop" /\ next[p] > 1 => Sound
    /\ rows # {} => Core \subseteq tables \/ raced

\* One process rebuilds: what it has dropped is gone, what it has created is there.
OneRebuilds == \A p, q \in Processes : Rebuilding(p) /\ Rebuilding(q) => p = q

Dropping == \A p \in Processes : at[p] = "drop" => ~(Core \subseteq tables)

Creating == \A p \in Processes : at[p] = "create" => Built(next[p]) \subseteq tables

Complete == \A p \in Processes : at[p] = "stamp" => tables = Range(Tables)

RebuildInv == ~raced => OneRebuilds /\ Dropping /\ Creating /\ Complete

IInv == TypeOK /\ OpenInv /\ StampInv /\ RebuildInv /\ OpenBundlesAreWhole

-----------------------------------------------------------------------------
(* Facts used by every step. *)

\* The three tables.
LEMMA TableFacts ==
    /\ Len(Tables) = 3
    /\ Tables[1] = "chunks" /\ Tables[2] = "module_members" /\ Tables[3] = "branches"
    /\ Range(Tables) = {"chunks", "module_members", "branches"}
    /\ Core \subseteq Range(Tables)
BY DEF Tables, Range, Core

\* What a rebuild has created grows by one table at a time.
LEMMA BuiltGrows ==
    /\ Built(1) = {}
    /\ \A k \in 1 .. 3 : Built(k) \subseteq Range(Tables)
    /\ \A k \in 1 .. 3 : Built(k + 1) = Built(k) \cup {Tables[k]}
    /\ Built(3) \cup {Tables[3]} = Range(Tables)
<1>1. Built(1) = {}
  BY DEF Built
<1>2. \A k \in 1 .. 3 : Built(k) \subseteq Range(Tables)
  BY TableFacts DEF Built, Tables, Range
<1>3. \A k \in 1 .. 3 : Built(k + 1) = Built(k) \cup {Tables[k]}
  BY DEF Built
<1>4. Built(3) \cup {Tables[3]} = Range(Tables)
  BY TableFacts DEF Built
<1> QED  BY <1>1, <1>2, <1>3, <1>4

\* The situations met are the ones of the initial states.
LEMMA InitIInv == Init => IInv
<1> SUFFICES ASSUME Init PROVE IInv
  OBVIOUS
<1> USE OpenAssumption, TableFacts
<1>1. stamp \in Nat /\ tables \subseteq Range(Tables)
  BY DEF Init
<1>2. /\ at = [p \in Processes |-> "closed"]
      /\ lock = None /\ read = [p \in Processes |-> 0] /\ next = [p \in Processes |-> 1]
      /\ retry = [p \in Processes |-> FALSE] /\ raced = FALSE
  BY DEF Init
<1>3. /\ rows \subseteq {Before} /\ (rows # {} => Core \subseteq tables)
      /\ hashed \subseteq {"project", "dependency"}
  BY DEF Init
<1>4. keyed = (stamp = Current) /\ filled = (stamp >= 16) /\ flagged = (stamp >= 12)
  BY DEF Init
<1>5. TypeOK
  <2>1. corrupt \in BOOLEAN
    BY DEF Init
  <2> QED  BY <1>1, <1>2, <1>3, <1>4, <2>1 DEF TypeOK
<1>6. OpenInv
  BY <1>1, <1>2 DEF OpenInv, Steps
<1>7. StampInv
  BY <1>1, <1>2, <1>3, <1>4 DEF StampInv, Sound, Current
<1>8. RebuildInv
  BY <1>2 DEF RebuildInv, OneRebuilds, Dropping, Creating, Complete, Rebuilding
<1>9. OpenBundlesAreWhole
  BY <1>2 DEF OpenBundlesAreWhole
<1> QED  BY <1>5, <1>6, <1>7, <1>8, <1>9 DEF IInv

\* The file is deleted before anything is read of it.
LEMMA ConnectStep ==
    ASSUME IInv, NEW p \in Processes, Connect(p)
    PROVE  IInv'
<1> USE OpenAssumption, TableFacts DEF Connect, Goes, Returns, bundle, Emptied, Kept
<1>1. TypeOK'
  <2>1. /\ stamp' \in Nat /\ tables' \subseteq Range(Tables)
        /\ rows' \subseteq Processes \cup {Before} /\ hashed' \subseteq {"project", "dependency"}
    <3>1. CASE corrupt
      BY <3>1 DEF IInv, TypeOK
    <3>2. CASE ~corrupt
      BY <3>2 DEF IInv, TypeOK
    <3> QED  BY <3>1, <3>2 DEF IInv, TypeOK
  <2>2. keyed' \in BOOLEAN /\ filled' \in BOOLEAN /\ flagged' \in BOOLEAN /\ corrupt' \in BOOLEAN
    BY Zenon DEF IInv, TypeOK
  <2>3. lock' \in Processes \cup {None} /\ \A q \in Processes : lock' = q <=> at'[q] = "migrate"
    BY DEF IInv, TypeOK, OpenInv, Steps
  <2>4. next' \in [Processes -> 1 .. Len(Tables)] /\ retry' \in [Processes -> BOOLEAN]
    BY DEF IInv, TypeOK
  <2> QED  BY <2>1, <2>2, <2>3, <2>4 DEF TypeOK
<1>2. OpenInv'
  BY DEF IInv, TypeOK, OpenInv, Steps
<1>3. StampInv'
  BY DEF IInv, TypeOK, OpenInv, StampInv, RebuildInv, OneRebuilds, Dropping, Creating, Complete,
       Rebuilding, Sound, Current, Core
<1>4. RebuildInv'
  BY DEF IInv, TypeOK, OpenInv, RebuildInv, OneRebuilds, Dropping, Creating, Complete,
       Rebuilding, Steps
<1>5. OpenBundlesAreWhole'
  BY DEF IInv, TypeOK, OpenInv, StampInv, RebuildInv, OneRebuilds, Dropping, Creating, Complete,
       Rebuilding, OpenBundlesAreWhole, Whole, Sound, Current, Core
<1> QED  BY <1>1, <1>2, <1>3, <1>4, <1>5 DEF IInv

\* A current stamp stays current.
LEMMA ReadStampStep ==
    ASSUME IInv, NEW p \in Processes, ReadStamp(p)
    PROVE  IInv'
<1> USE OpenAssumption, TableFacts DEF ReadStamp, Goes, Returns, bundle
<1>1. TypeOK'
  BY DEF IInv, TypeOK, OpenInv, Steps
<1>2. OpenInv'
  BY DEF IInv, TypeOK, OpenInv, Steps
<1>3. StampInv'
  BY DEF IInv, TypeOK, OpenInv, StampInv, RebuildInv, OneRebuilds, Dropping, Creating, Complete,
       Rebuilding, Sound, Current, Core
<1>4. RebuildInv'
  BY DEF IInv, TypeOK, OpenInv, RebuildInv, OneRebuilds, Dropping, Creating, Complete,
       Rebuilding, Steps
<1>5. OpenBundlesAreWhole'
  BY DEF IInv, TypeOK, OpenInv, StampInv, RebuildInv, OneRebuilds, Dropping, Creating, Complete,
       Rebuilding, OpenBundlesAreWhole, Whole, Sound, Current, Core
<1> QED  BY <1>1, <1>2, <1>3, <1>4, <1>5 DEF IInv

\* The stamp is read again once nobody else can change it.
LEMMA LockStep ==
    ASSUME IInv, NEW p \in Processes, Lock(p)
    PROVE  IInv'
<1> USE OpenAssumption, TableFacts DEF Lock, Goes, Returns, bundle
<1>1. TypeOK'
  BY DEF IInv, TypeOK, OpenInv, Steps
<1>2. OpenInv'
  BY DEF IInv, TypeOK, OpenInv, Steps
<1>3. StampInv'
  BY DEF IInv, TypeOK, OpenInv, StampInv, RebuildInv, OneRebuilds, Dropping, Creating, Complete,
       Rebuilding, Sound, Current, Core
<1>4. RebuildInv'
  BY DEF IInv, TypeOK, OpenInv, RebuildInv, OneRebuilds, Dropping, Creating, Complete,
       Rebuilding, Steps
<1>5. OpenBundlesAreWhole'
  BY DEF IInv, TypeOK, OpenInv, StampInv, RebuildInv, OneRebuilds, Dropping, Creating, Complete,
       Rebuilding, OpenBundlesAreWhole, Whole, Sound, Current, Core
<1> QED  BY <1>1, <1>2, <1>3, <1>4, <1>5 DEF IInv

\* The lock makes the stamp the one that was read: what the upgrade leaves out is
\* there already.
LEMMA UpgradeStep ==
    ASSUME IInv, NEW p \in Processes, Upgrade(p)
    PROVE  IInv'
<1> USE OpenAssumption, TableFacts DEF Upgrade, Goes, Returns, bundle, HashesAfter, Upgradable
<1>1. TypeOK'
  <2>1. /\ stamp' \in Nat /\ tables' \subseteq Range(Tables)
        /\ rows' \subseteq Processes \cup {Before} /\ hashed' \subseteq {"project", "dependency"}
    BY DEF IInv, TypeOK, OpenInv, Current
  <2>2. keyed' \in BOOLEAN /\ filled' \in BOOLEAN /\ flagged' \in BOOLEAN /\ corrupt' \in BOOLEAN
    BY Zenon DEF IInv, TypeOK
  <2>3. lock' \in Processes \cup {None} /\ \A q \in Processes : lock' = q <=> at'[q] = "migrate"
    BY DEF IInv, TypeOK, OpenInv, Steps
  <2>4. next' \in [Processes -> 1 .. Len(Tables)] /\ retry' \in [Processes -> BOOLEAN]
    BY DEF IInv, TypeOK
  <2> QED  BY <2>1, <2>2, <2>3, <2>4 DEF TypeOK
<1>2. OpenInv'
  BY DEF IInv, TypeOK, OpenInv, Steps
<1>3. StampInv'
  <2>1. stamp' = Current /\ keyed' /\ read[p] = stamp /\ Core \subseteq tables'
    BY DEF IInv, OpenInv
  <2>2. flagged'
    <3>1. CASE read[p] < 12
      BY <3>1
    <3>2. CASE read[p] >= 12
      BY <3>2, <2>1 DEF IInv, StampInv
    <3> QED  BY <3>1, <3>2, <2>1 DEF IInv, TypeOK
  <2>3. "project" \in hashed' => filled'
    BY <2>1 DEF IInv, TypeOK, StampInv
  <2> QED  BY <2>1, <2>2, <2>3 DEF StampInv, Sound
<1>4. RebuildInv'
  BY DEF IInv, TypeOK, OpenInv, RebuildInv, OneRebuilds, Dropping, Creating, Complete,
       Rebuilding, Steps
<1>5. OpenBundlesAreWhole'
  <2>1. Whole' /\ flagged' /\ ("project" \in hashed' => filled')
    BY <1>3 DEF StampInv, Whole, Current
  <2> QED  BY <2>1 DEF OpenBundlesAreWhole
<1> QED  BY <1>1, <1>2, <1>3, <1>4, <1>5 DEF IInv

\* A core table that is there when another process rebuilds means a race.
LEMMA RepairStep ==
    ASSUME IInv, NEW p \in Processes, Repair(p)
    PROVE  IInv'
<1> USE OpenAssumption, TableFacts DEF Repair, Goes, Returns, bundle, Kept
<1>1. TypeOK'
  BY DEF IInv, TypeOK, OpenInv, Steps
<1>2. OpenInv'
  BY DEF IInv, TypeOK, OpenInv, Steps
<1>3. StampInv'
  BY DEF IInv, TypeOK, OpenInv, StampInv, RebuildInv, OneRebuilds, Dropping, Creating, Complete,
       Rebuilding, Sound, Current, Core
<1>4. RebuildInv'
  BY DEF IInv, TypeOK, OpenInv, RebuildInv, OneRebuilds, Dropping, Creating, Complete,
       Rebuilding, Steps
<1>5. OpenBundlesAreWhole'
  BY DEF IInv, TypeOK, OpenInv, StampInv, RebuildInv, OneRebuilds, Dropping, Creating, Complete,
       Rebuilding, OpenBundlesAreWhole, Whole, Sound, Current, Core
<1> QED  BY <1>1, <1>2, <1>3, <1>4, <1>5 DEF IInv

\* A second rebuild is a race.
LEMMA DriftedStep ==
    ASSUME IInv, NEW p \in Processes, Drifted(p)
    PROVE  IInv'
<1> USE OpenAssumption, TableFacts DEF Drifted, Goes, Returns, bundle, Races
<1>1. TypeOK'
  BY DEF IInv, TypeOK, OpenInv, Steps
<1>2. OpenInv'
  BY DEF IInv, TypeOK, OpenInv, Steps
<1>3. StampInv'
  BY DEF IInv, TypeOK, OpenInv, StampInv, RebuildInv, OneRebuilds, Dropping, Creating, Complete,
       Rebuilding, Sound, Current, Core
<1>4. RebuildInv'
  <2> SUFFICES ASSUME ~raced' PROVE (OneRebuilds /\ Dropping /\ Creating /\ Complete)'
    BY DEF RebuildInv
  <2>1. ~raced /\ \A q \in Processes \ {p} : ~Rebuilding(q)
    BY DEF IInv, TypeOK, OpenInv, Steps, RebuildInv, OneRebuilds, Dropping, Creating, Complete,
         Rebuilding
  <2>2. \A q \in Processes \ {p} : at'[q] = at[q] /\ ~Rebuilding(q)'
    BY <2>1 DEF IInv, TypeOK, OpenInv, Steps, RebuildInv, OneRebuilds, Dropping, Creating,
         Complete, Rebuilding
  <2>3. OneRebuilds'
    BY <2>2 DEF OneRebuilds
  <2>4. Dropping'
    BY <2>1, <2>2 DEF IInv, TypeOK, OpenInv, Steps, RebuildInv, OneRebuilds, Dropping, Creating,
         Complete, Rebuilding
  <2>5. Creating'
    BY <2>1, <2>2, BuiltGrows DEF IInv, TypeOK, OpenInv, Steps, RebuildInv, OneRebuilds,
         Dropping, Creating, Complete, Rebuilding
  <2>6. Complete'
    BY <2>1, <2>2, BuiltGrows DEF IInv, TypeOK, OpenInv, Steps, RebuildInv, OneRebuilds,
         Dropping, Creating, Complete, Rebuilding
  <2> QED  BY <2>3, <2>4, <2>5, <2>6
<1>5. OpenBundlesAreWhole'
  BY DEF IInv, TypeOK, OpenInv, StampInv, RebuildInv, OneRebuilds, Dropping, Creating, Complete,
       Rebuilding, OpenBundlesAreWhole, Whole, Sound, Current, Core
<1> QED  BY <1>1, <1>2, <1>3, <1>4, <1>5 DEF IInv

\* A bundle no upgrade knows is open nowhere.
LEMMA WipeStep ==
    ASSUME IInv, NEW p \in Processes, Wipe(p)
    PROVE  IInv'
<1> USE OpenAssumption, TableFacts DEF Wipe, Goes, Returns, bundle, Races, Emptied, Upgradable
<1>1. TypeOK'
  <2>1. /\ stamp' \in Nat /\ tables' \subseteq Range(Tables)
        /\ rows' \subseteq Processes \cup {Before} /\ hashed' \subseteq {"project", "dependency"}
    BY DEF IInv, TypeOK, OpenInv, Current
  <2>2. keyed' \in BOOLEAN /\ filled' \in BOOLEAN /\ flagged' \in BOOLEAN /\ corrupt' \in BOOLEAN
    BY Zenon DEF IInv, TypeOK
  <2>3. lock' \in Processes \cup {None} /\ \A q \in Processes : lock' = q <=> at'[q] = "migrate"
    BY DEF IInv, TypeOK, OpenInv, Steps
  <2>4. next' \in [Processes -> 1 .. Len(Tables)] /\ retry' \in [Processes -> BOOLEAN]
    BY DEF IInv, TypeOK
  <2> QED  BY <2>1, <2>2, <2>3, <2>4 DEF TypeOK
<1>2. OpenInv'
  BY DEF IInv, TypeOK, OpenInv, Steps
<1>3. StampInv'
  BY DEF IInv, TypeOK, OpenInv, StampInv, RebuildInv, OneRebuilds, Dropping, Creating, Complete,
       Rebuilding, Sound, Current, Core
<1>4. RebuildInv'
  <2> SUFFICES ASSUME ~raced' PROVE (OneRebuilds /\ Dropping /\ Creating /\ Complete)'
    BY DEF RebuildInv
  <2>1. ~raced /\ \A q \in Processes \ {p} : ~Rebuilding(q)
    BY DEF IInv, TypeOK, OpenInv, Steps, RebuildInv, OneRebuilds, Dropping, Creating, Complete,
         Rebuilding
  <2>2. \A q \in Processes \ {p} : at'[q] = at[q] /\ ~Rebuilding(q)'
    BY <2>1 DEF IInv, TypeOK, OpenInv, Steps, RebuildInv, OneRebuilds, Dropping, Creating,
         Complete, Rebuilding
  <2>3. OneRebuilds'
    BY <2>2 DEF OneRebuilds
  <2>4. Dropping'
    BY <2>1, <2>2 DEF IInv, TypeOK, OpenInv, Steps, RebuildInv, OneRebuilds, Dropping, Creating,
         Complete, Rebuilding
  <2>5. Creating'
    BY <2>1, <2>2, BuiltGrows DEF IInv, TypeOK, OpenInv, Steps, RebuildInv, OneRebuilds,
         Dropping, Creating, Complete, Rebuilding
  <2>6. Complete'
    BY <2>1, <2>2, BuiltGrows DEF IInv, TypeOK, OpenInv, Steps, RebuildInv, OneRebuilds,
         Dropping, Creating, Complete, Rebuilding
  <2> QED  BY <2>3, <2>4, <2>5, <2>6
<1>5. OpenBundlesAreWhole'
  BY DEF IInv, TypeOK, OpenInv, StampInv, RebuildInv, OneRebuilds, Dropping, Creating, Complete,
       Rebuilding, OpenBundlesAreWhole, Whole, Sound, Current, Core
<1> QED  BY <1>1, <1>2, <1>3, <1>4, <1>5 DEF IInv

\* The chunks go first, and with them everything the stamp speaks of.
LEMMA DropStep ==
    ASSUME IInv, NEW p \in Processes, Drop(p)
    PROVE  IInv'
<1> USE OpenAssumption, TableFacts DEF Drop, Goes, Returns, bundle, Emptied, Kept
<1>1. TypeOK'
  <2>1. /\ stamp' \in Nat /\ tables' \subseteq Range(Tables)
        /\ rows' \subseteq Processes \cup {Before} /\ hashed' \subseteq {"project", "dependency"}
    BY DEF IInv, TypeOK, OpenInv, Current
  <2>2. keyed' \in BOOLEAN /\ filled' \in BOOLEAN /\ flagged' \in BOOLEAN /\ corrupt' \in BOOLEAN
    BY Zenon DEF IInv, TypeOK
  <2>3. lock' \in Processes \cup {None} /\ \A q \in Processes : lock' = q <=> at'[q] = "migrate"
    BY DEF IInv, TypeOK, OpenInv, Steps
  <2>4. next' \in [Processes -> 1 .. Len(Tables)] /\ retry' \in [Processes -> BOOLEAN]
    BY DEF IInv, TypeOK
  <2> QED  BY <2>1, <2>2, <2>3, <2>4 DEF TypeOK
<1>2. OpenInv'
  BY DEF IInv, TypeOK, OpenInv, Steps
<1>3. StampInv'
  BY DEF IInv, TypeOK, OpenInv, StampInv, RebuildInv, OneRebuilds, Dropping, Creating, Complete,
       Rebuilding, Sound, Current, Core
<1>4. RebuildInv'
  <2> SUFFICES ASSUME ~raced' PROVE (OneRebuilds /\ Dropping /\ Creating /\ Complete)'
    BY DEF RebuildInv
  <2>1. ~raced /\ \A q \in Processes \ {p} : ~Rebuilding(q)
    BY DEF IInv, TypeOK, OpenInv, Steps, RebuildInv, OneRebuilds, Dropping, Creating, Complete,
         Rebuilding
  <2>2. \A q \in Processes \ {p} : at'[q] = at[q] /\ ~Rebuilding(q)'
    BY <2>1 DEF IInv, TypeOK, OpenInv, Steps, RebuildInv, OneRebuilds, Dropping, Creating,
         Complete, Rebuilding
  <2>3. OneRebuilds'
    BY <2>2 DEF OneRebuilds
  <2>4. Dropping'
    BY <2>1, <2>2 DEF IInv, TypeOK, OpenInv, Steps, RebuildInv, OneRebuilds, Dropping, Creating,
         Complete, Rebuilding
  <2>5. Creating'
    BY <2>1, <2>2, BuiltGrows DEF IInv, TypeOK, OpenInv, Steps, RebuildInv, OneRebuilds,
         Dropping, Creating, Complete, Rebuilding
  <2>6. Complete'
    BY <2>1, <2>2, BuiltGrows DEF IInv, TypeOK, OpenInv, Steps, RebuildInv, OneRebuilds,
         Dropping, Creating, Complete, Rebuilding
  <2> QED  BY <2>3, <2>4, <2>5, <2>6
<1>5. OpenBundlesAreWhole'
  BY DEF IInv, TypeOK, OpenInv, StampInv, RebuildInv, OneRebuilds, Dropping, Creating, Complete,
       Rebuilding, OpenBundlesAreWhole, Whole, Sound, Current, Core
<1> QED  BY <1>1, <1>2, <1>3, <1>4, <1>5 DEF IInv

\* The tables come back in order, and the stamp after the last one.
LEMMA CreateStep ==
    ASSUME IInv, NEW p \in Processes, Create(p)
    PROVE  IInv'
<1> USE OpenAssumption, TableFacts DEF Create, Goes, Returns, bundle, Kept
<1>1. TypeOK'
  BY DEF IInv, TypeOK, OpenInv, Steps
<1>2. OpenInv'
  BY DEF IInv, TypeOK, OpenInv, Steps
<1>3. StampInv'
  BY DEF IInv, TypeOK, OpenInv, StampInv, RebuildInv, OneRebuilds, Dropping, Creating, Complete,
       Rebuilding, Sound, Current, Core
<1>4. RebuildInv'
  <2> SUFFICES ASSUME ~raced' PROVE (OneRebuilds /\ Dropping /\ Creating /\ Complete)'
    BY DEF RebuildInv
  <2>1. ~raced /\ \A q \in Processes \ {p} : ~Rebuilding(q)
    BY DEF IInv, TypeOK, OpenInv, Steps, RebuildInv, OneRebuilds, Dropping, Creating, Complete,
         Rebuilding
  <2>2. \A q \in Processes \ {p} : at'[q] = at[q] /\ ~Rebuilding(q)'
    BY <2>1 DEF IInv, TypeOK, OpenInv, Steps, RebuildInv, OneRebuilds, Dropping, Creating,
         Complete, Rebuilding
  <2>3. OneRebuilds'
    BY <2>2 DEF OneRebuilds
  <2>4. Dropping'
    BY <2>1, <2>2 DEF IInv, TypeOK, OpenInv, Steps, RebuildInv, OneRebuilds, Dropping, Creating,
         Complete, Rebuilding
  <2>5. Creating'
    BY <2>1, <2>2, BuiltGrows DEF IInv, TypeOK, OpenInv, Steps, RebuildInv, OneRebuilds,
         Dropping, Creating, Complete, Rebuilding
  <2>6. Complete'
    BY <2>1, <2>2, BuiltGrows DEF IInv, TypeOK, OpenInv, Steps, RebuildInv, OneRebuilds,
         Dropping, Creating, Complete, Rebuilding
  <2> QED  BY <2>3, <2>4, <2>5, <2>6
<1>5. OpenBundlesAreWhole'
  BY DEF IInv, TypeOK, OpenInv, StampInv, RebuildInv, OneRebuilds, Dropping, Creating, Complete,
       Rebuilding, OpenBundlesAreWhole, Whole, Sound, Current, Core
<1> QED  BY <1>1, <1>2, <1>3, <1>4, <1>5 DEF IInv

\* A table that is there was not created by this rebuild alone.
LEMMA ExistsStep ==
    ASSUME IInv, NEW p \in Processes, Exists(p)
    PROVE  IInv'
<1> USE OpenAssumption, TableFacts DEF Exists, Goes, Returns, bundle
<1>1. TypeOK'
  <2>1. /\ at' \in [Processes -> Steps] /\ at'[p] \in {"failed", "drop"}
        /\ \A q \in Processes \ {p} : at'[q] = at[q]
    BY DEF IInv, OpenInv, Steps
  <2>2. lock' = lock /\ at[p] # "migrate"
    OBVIOUS
  <2>3. \A q \in Processes : lock' = q <=> at'[q] = "migrate"
    BY <2>1, <2>2 DEF IInv, TypeOK
  <2>4. next' \in [Processes -> 1 .. Len(Tables)]
    BY DEF IInv, TypeOK
  <2>5. retry' = [retry EXCEPT ![p] = FALSE] \/ retry' = [retry EXCEPT ![p] = TRUE]
    BY Zenon
  <2>6. retry' \in [Processes -> BOOLEAN]
    BY <2>5, Zenon DEF IInv, TypeOK
  <2>7. UNCHANGED bundle /\ UNCHANGED lock
    BY Zenon
  <2> QED  BY <2>3, <2>4, <2>6, <2>7, Zenon DEF IInv, TypeOK
<1>2. OpenInv'
  BY DEF IInv, TypeOK, OpenInv, Steps
<1>3. StampInv'
  BY DEF IInv, TypeOK, OpenInv, StampInv, RebuildInv, OneRebuilds, Dropping, Creating, Complete,
       Rebuilding, Sound, Current, Core
<1>4. RebuildInv'
  BY DEF IInv, TypeOK, OpenInv, RebuildInv, OneRebuilds, Dropping, Creating, Complete,
       Rebuilding, Steps
<1>5. OpenBundlesAreWhole'
  BY DEF IInv, TypeOK, OpenInv, StampInv, RebuildInv, OneRebuilds, Dropping, Creating, Complete,
       Rebuilding, OpenBundlesAreWhole, Whole, Sound, Current, Core
<1> QED  BY <1>1, <1>2, <1>3, <1>4, <1>5 DEF IInv

\* What was rebuilt is whole.
LEMMA StampStep ==
    ASSUME IInv, NEW p \in Processes, Stamp(p)
    PROVE  IInv'
<1> USE OpenAssumption, TableFacts DEF Stamp, Goes, Returns, bundle, Kept
<1>1. TypeOK'
  <2>1. /\ stamp' \in Nat /\ tables' \subseteq Range(Tables)
        /\ rows' \subseteq Processes \cup {Before} /\ hashed' \subseteq {"project", "dependency"}
    BY DEF IInv, TypeOK, OpenInv, Current
  <2>2. keyed' \in BOOLEAN /\ filled' \in BOOLEAN /\ flagged' \in BOOLEAN /\ corrupt' \in BOOLEAN
    BY Zenon DEF IInv, TypeOK
  <2>3. lock' \in Processes \cup {None} /\ \A q \in Processes : lock' = q <=> at'[q] = "migrate"
    BY DEF IInv, TypeOK, OpenInv, Steps
  <2>4. next' \in [Processes -> 1 .. Len(Tables)] /\ retry' \in [Processes -> BOOLEAN]
    BY DEF IInv, TypeOK
  <2> QED  BY <2>1, <2>2, <2>3, <2>4 DEF TypeOK
<1>2. OpenInv'
  BY DEF IInv, TypeOK, OpenInv, Steps
<1>3. StampInv'
  BY DEF IInv, TypeOK, OpenInv, StampInv, RebuildInv, OneRebuilds, Dropping, Creating, Complete,
       Rebuilding, Sound, Current, Core
<1>4. RebuildInv'
  BY DEF IInv, TypeOK, OpenInv, RebuildInv, OneRebuilds, Dropping, Creating, Complete,
       Rebuilding, Steps
<1>5. OpenBundlesAreWhole'
  BY DEF IInv, TypeOK, OpenInv, StampInv, RebuildInv, OneRebuilds, Dropping, Creating, Complete,
       Rebuilding, OpenBundlesAreWhole, Whole, Sound, Current, Core
<1> QED  BY <1>1, <1>2, <1>3, <1>4, <1>5 DEF IInv

\* A pass leaves the schema alone.
LEMMA IndexStep ==
    ASSUME IInv, NEW p \in Processes, Index(p)
    PROVE  IInv'
<1> USE OpenAssumption, TableFacts DEF Index, Goes, Returns, bundle
<1>1. TypeOK'
  BY DEF IInv, TypeOK, OpenInv, Steps
<1>2. OpenInv'
  BY DEF IInv, TypeOK, OpenInv, Steps
<1>3. StampInv'
  BY DEF IInv, TypeOK, OpenInv, StampInv, RebuildInv, OneRebuilds, Dropping, Creating, Complete,
       Rebuilding, Sound, Current, Core
<1>4. RebuildInv'
  BY DEF IInv, TypeOK, OpenInv, RebuildInv, OneRebuilds, Dropping, Creating, Complete,
       Rebuilding, Steps
<1>5. OpenBundlesAreWhole'
  BY DEF IInv, TypeOK, OpenInv, StampInv, RebuildInv, OneRebuilds, Dropping, Creating, Complete,
       Rebuilding, OpenBundlesAreWhole, Whole, Sound, Current, Core
<1> QED  BY <1>1, <1>2, <1>3, <1>4, <1>5 DEF IInv

\* Nothing of the bundle changes.
LEMMA CloseStep ==
    ASSUME IInv, NEW p \in Processes, Close(p)
    PROVE  IInv'
<1> USE OpenAssumption, TableFacts DEF Close, Goes, Returns, bundle
<1>1. TypeOK'
  BY DEF IInv, TypeOK, OpenInv, Steps
<1>2. OpenInv'
  BY DEF IInv, TypeOK, OpenInv, Steps
<1>3. StampInv'
  BY DEF IInv, TypeOK, OpenInv, StampInv, RebuildInv, OneRebuilds, Dropping, Creating, Complete,
       Rebuilding, Sound, Current, Core
<1>4. RebuildInv'
  BY DEF IInv, TypeOK, OpenInv, RebuildInv, OneRebuilds, Dropping, Creating, Complete,
       Rebuilding, Steps
<1>5. OpenBundlesAreWhole'
  BY DEF IInv, TypeOK, OpenInv, StampInv, RebuildInv, OneRebuilds, Dropping, Creating, Complete,
       Rebuilding, OpenBundlesAreWhole, Whole, Sound, Current, Core
<1> QED  BY <1>1, <1>2, <1>3, <1>4, <1>5 DEF IInv

\* The transaction is rolled back.
LEMMA FailStep ==
    ASSUME IInv, NEW p \in Processes, Fail(p)
    PROVE  IInv'
<1> USE OpenAssumption, TableFacts DEF Fail, Goes, Returns, bundle, Release, Opening
<1>1. TypeOK'
  BY DEF IInv, TypeOK, OpenInv, Steps
<1>2. OpenInv'
  BY DEF IInv, TypeOK, OpenInv, Steps
<1>3. StampInv'
  BY DEF IInv, TypeOK, OpenInv, StampInv, RebuildInv, OneRebuilds, Dropping, Creating, Complete,
       Rebuilding, Sound, Current, Core
<1>4. RebuildInv'
  BY DEF IInv, TypeOK, OpenInv, RebuildInv, OneRebuilds, Dropping, Creating, Complete,
       Rebuilding, Steps
<1>5. OpenBundlesAreWhole'
  BY DEF IInv, TypeOK, OpenInv, StampInv, RebuildInv, OneRebuilds, Dropping, Creating, Complete,
       Rebuilding, OpenBundlesAreWhole, Whole, Sound, Current, Core
<1> QED  BY <1>1, <1>2, <1>3, <1>4, <1>5 DEF IInv

\* So it is when the process dies.
LEMMA CrashStep ==
    ASSUME IInv, NEW p \in Processes, Crash(p)
    PROVE  IInv'
<1> USE OpenAssumption, TableFacts DEF Crash, Goes, Returns, bundle, Release
<1>1. TypeOK'
  BY DEF IInv, TypeOK, OpenInv, Steps
<1>2. OpenInv'
  BY DEF IInv, TypeOK, OpenInv, Steps
<1>3. StampInv'
  BY DEF IInv, TypeOK, OpenInv, StampInv, RebuildInv, OneRebuilds, Dropping, Creating, Complete,
       Rebuilding, Sound, Current, Core
<1>4. RebuildInv'
  BY DEF IInv, TypeOK, OpenInv, RebuildInv, OneRebuilds, Dropping, Creating, Complete,
       Rebuilding, Steps
<1>5. OpenBundlesAreWhole'
  BY DEF IInv, TypeOK, OpenInv, StampInv, RebuildInv, OneRebuilds, Dropping, Creating, Complete,
       Rebuilding, OpenBundlesAreWhole, Whole, Sound, Current, Core
<1> QED  BY <1>1, <1>2, <1>3, <1>4, <1>5 DEF IInv

\* Every step of every process, and the stutter.
LEMMA NextIInv == IInv /\ [Next]_vars => IInv'
<1> SUFFICES ASSUME IInv, [Next]_vars PROVE IInv'
  OBVIOUS
<1>1. CASE UNCHANGED vars
  BY <1>1 DEF IInv, TypeOK, OpenInv, StampInv, Sound, RebuildInv, OneRebuilds, Dropping,
       Creating,
             Complete, Rebuilding, OpenBundlesAreWhole, Whole, vars, bundle
<1>2. ASSUME NEW p \in Processes, Open(p) \/ Rebuild(p) \/ Index(p) \/ Close(p) \/ Fail(p) \/ Crash(p)
      PROVE  IInv'
  <2>1. CASE Connect(p)
    BY <1>2, <2>1, ConnectStep
  <2>2. CASE ReadStamp(p)
    BY <1>2, <2>2, ReadStampStep
  <2>3. CASE Lock(p)
    BY <1>2, <2>3, LockStep
  <2>4. CASE Upgrade(p)
    BY <1>2, <2>4, UpgradeStep
  <2>5. CASE Repair(p)
    BY <1>2, <2>5, RepairStep
  <2>6. CASE Drifted(p)
    BY <1>2, <2>6, DriftedStep
  <2>7. CASE Wipe(p)
    BY <1>2, <2>7, WipeStep
  <2>8. CASE Drop(p)
    BY <1>2, <2>8, DropStep
  <2>9. CASE Create(p)
    BY <1>2, <2>9, CreateStep
  <2>10. CASE Exists(p)
    BY <1>2, <2>10, ExistsStep
  <2>11. CASE Stamp(p)
    BY <1>2, <2>11, StampStep
  <2>12. CASE Index(p)
    BY <1>2, <2>12, IndexStep
  <2>13. CASE Close(p)
    BY <1>2, <2>13, CloseStep
  <2>14. CASE Fail(p)
    BY <1>2, <2>14, FailStep
  <2>15. CASE Crash(p)
    BY <1>2, <2>15, CrashStep
  <2> QED  BY <1>2, <2>1, <2>2, <2>3, <2>4, <2>5, <2>6, <2>7, <2>8, <2>9, <2>10, <2>11, <2>12,
       <2>13, <2>14, <2>15 DEF Open, Rebuild
<1> QED  BY <1>1, <1>2 DEF Next

LEMMA Invariance == Spec => []IInv
<1>1. Init => IInv
  BY InitIInv
<1>2. IInv /\ [Next]_vars => IInv'
  BY NextIInv
<1> QED  BY <1>1, <1>2, PTL DEF Spec

-----------------------------------------------------------------------------
(* Theorems. *)

\* The type invariant; its last part says that the write lock is held exactly by the
\* process that upgrades.
THEOREM TypeCorrect == Spec => []TypeOK
<1>1. IInv => TypeOK
  BY DEF IInv
<1> QED  BY <1>1, Invariance, PTL

\* Whoever opens, fails or dies first, a process that has the bundle open has it
\* whole, unless two have rebuilt it at once.
THEOREM OpenIsWhole == Spec => []OpenBundlesAreWhole
<1>1. IInv => OpenBundlesAreWhole
  BY DEF IInv
<1> QED  BY <1>1, Invariance, PTL

\* A step drops rows only of a bundle no upgrade knows.
LEMMA StepKeepsRows ==
    ASSUME IInv, [Next]_vars
    PROVE  rows \subseteq rows' \/ Unupgradable \/ raced
<1>1. CASE UNCHANGED vars
  BY <1>1 DEF vars, bundle
<1>2. ASSUME NEW p \in Processes, Connect(p)
      PROVE  rows \subseteq rows' \/ Unupgradable
  BY <1>2 DEF Connect, Kept, Unupgradable
<1>3. ASSUME NEW p \in Processes, Wipe(p)
      PROVE  Unupgradable
  BY <1>3 DEF Wipe, Unupgradable, IInv, OpenInv
<1>4. ASSUME NEW p \in Processes, Drop(p)
      PROVE  rows \subseteq rows' \/ raced
  <2>1. rows = {} \/ raced
    BY <1>4 DEF Drop, IInv, StampInv, RebuildInv, Dropping
  <2> QED  BY <2>1
<1>5. ASSUME NEW p \in Processes,
             \/ ReadStamp(p) \/ Lock(p) \/ Upgrade(p) \/ Repair(p) \/ Drifted(p)
             \/ Create(p) \/ Exists(p) \/ Stamp(p) \/ Index(p) \/ Close(p) \/ Fail(p) \/ Crash(p)
      PROVE  rows \subseteq rows'
  BY <1>5 DEF ReadStamp, Lock, Upgrade, Repair, Drifted, Create, Exists, Stamp, Index, Close,
       Fail,
              Crash, Kept, bundle
<1> QED  BY <1>1, <1>2, <1>3, <1>4, <1>5 DEF Next, Open, Rebuild

\* No open drops the rows of a bundle it can upgrade, unless two rebuild it at once.
THEOREM OpensKeepRows == Spec => RowsSurviveOpens
<1>1. IInv /\ [Next]_vars => [rows \subseteq rows' \/ Unupgradable \/ raced]_vars
  BY StepKeepsRows
<1> QED  BY <1>1, Invariance, PTL DEF Spec, RowsSurviveOpens
=============================================================================
