------------------------- MODULE DossierLocksProofs -------------------------
(***************************************************************************)
(* The lock table excludes, keeps its counts and implements a mutex per    *)
(* id, for any finite number of requests and any ids.                      *)
(*                                                                         *)
(* Exclusion rests on everybody who wants an id having the same entry, and *)
(* that rests on the count: an entry is dropped by its last user only.  So *)
(* the inductive invariant is about entries and counts, and exclusion is a *)
(* consequence.                                                            *)
(***************************************************************************)
EXTENDS DossierLocks, FiniteSetTheorems, TLAPS

\* A goroutine has an id and an entry from joining to departing.
HasEntry ==
  \A g \in Goroutines :
    /\ pc[g] = "outside" => ref[g] = NoRef
    /\ pc[g] # "outside" => ref[g] \in Refs /\ id[g] \in Ids

\* Whoever has a foot in the door keeps the entry in the table: those who come
\* later wait for the same mutex.
EntryIsShared ==
  \A g \in Goroutines : pc[g] # "outside" => items[id[g]] = ref[g]

\* No entry serves two ids.
EntriesDiffer ==
  \A i, j \in Ids : items[i] # NoRef /\ items[i] = items[j] => i = j

\* The mutex of an entry is held by the goroutine inside, and by no other.
OwnerIsInside ==
  /\ \A g \in Goroutines : pc[g] = "inside" => owner[ref[g]] = g
  /\ \A r \in Refs : owner[r] # Nobody =>
       ref[owner[r]] = r /\ pc[owner[r]] = "inside"

Counted == \A r \in Refs : users[r] = Cardinality(Users(r))

Populated ==
  \A i \in Ids : items[i] # NoRef => \E g \in Goroutines : ref[g] = items[i]

LocksInv ==
  /\ TypeOK
  /\ HasEntry
  /\ EntryIsShared
  /\ EntriesDiffer
  /\ OwnerIsInside
  /\ Counted
  /\ Populated

-----------------------------------------------------------------------------
\* The users of an entry are finitely many, so they can be counted in and out.
LEMMA UsersFinite ==
  ASSUME NEW r \in Refs
  PROVE  IsFiniteSet(Users(r)) /\ Cardinality(Users(r)) \in Nat
<1>1. Users(r) \subseteq Goroutines
  BY DEF Users
<1>2. IsFiniteSet(Goroutines)
  BY LocksAssumption
<1>3. IsFiniteSet(Users(r))
  BY <1>1, <1>2, FS_Subset
<1> QED
  BY <1>3, FS_CardinalityType

LEMMA LocksInit == Init => LocksInv
<1> SUFFICES ASSUME Init PROVE LocksInv
  OBVIOUS
<1>1. \A r \in Refs : Users(r) = {}
  BY LocksAssumption DEF Init, Users
<1>2. Counted
  BY <1>1, FS_EmptySet DEF Init, Counted
<1> QED
  BY <1>2, LocksAssumption
  DEF Init, LocksInv, TypeOK, HasEntry, EntryIsShared, EntriesDiffer,
      OwnerIsInside, Populated

\* Counting in: a new entry has no other user.
LEMMA JoinInv ==
  ASSUME LocksInv, NEW g \in Goroutines, NEW i \in Ids, Join(g, i)
  PROVE  LocksInv'
<1> USE DEF LocksInv
<1>1. PICK r \in Refs :
        /\ IF items[i] = NoRef THEN IsGarbage(r) ELSE r = items[i]
        /\ items' = [items EXCEPT ![i] = r]
        /\ users' = UsersJoined(r, items[i] = NoRef)
        /\ ref' = [ref EXCEPT ![g] = r]
  BY DEF Join
<1>2. /\ pc[g] = "outside"
      /\ id' = [id EXCEPT ![g] = i]
      /\ pc' = [pc EXCEPT ![g] = "waiting"]
      /\ owner' = owner
  BY DEF Join
<1>3. ref[g] = NoRef
  BY <1>2 DEF HasEntry
<1>4. g \notin Users(r)
  BY <1>3, LocksAssumption DEF Users
<1>5. Users(r)' = Users(r) \cup {g}
  BY <1>1 DEF Users, TypeOK
<1>6. \A q \in Refs : q # r => Users(q)' = Users(q)
  BY <1>1, <1>3, LocksAssumption DEF Users, TypeOK
<1>7. TypeOK'
  BY <1>1, <1>2 DEF TypeOK, UsersJoined
<1>8. HasEntry'
  BY <1>1, <1>2 DEF TypeOK, HasEntry
<1>9. EntryIsShared'
  <2> SUFFICES ASSUME NEW h \in Goroutines, pc'[h] # "outside"
               PROVE  items'[id'[h]] = ref'[h]
    BY DEF EntryIsShared
  <2>1. CASE h = g
    BY <2>1, <1>1, <1>2 DEF TypeOK
  <2>2. CASE h # g
    <3>1. /\ pc[h] # "outside" /\ id'[h] = id[h] /\ ref'[h] = ref[h]
          /\ id[h] \in Ids /\ items[id[h]] = ref[h] /\ ref[h] \in Refs
      BY <2>2, <1>1, <1>2 DEF TypeOK, HasEntry, EntryIsShared
    <3>2. CASE id[h] = i
      BY <3>1, <3>2, <1>1, LocksAssumption DEF TypeOK
    <3>3. CASE id[h] # i
      BY <3>1, <3>3, <1>1 DEF TypeOK
    <3> QED
      BY <3>2, <3>3
  <2> QED
    BY <2>1, <2>2
<1>10. EntriesDiffer'
  <2> SUFFICES ASSUME NEW j \in Ids, NEW k \in Ids,
                      items'[j] # NoRef, items'[j] = items'[k]
               PROVE  j = k
    BY DEF EntriesDiffer
  <2>1. \A j1 \in Ids : j1 # i => items'[j1] = items[j1]
    BY <1>1 DEF TypeOK
  <2>2. \A j1 \in Ids : j1 # i => items[j1] # r
    BY <1>1, LocksAssumption DEF IsGarbage, EntriesDiffer, TypeOK
  <2>3. items'[i] = r
    BY <1>1 DEF TypeOK
  <2> QED
    BY <2>1, <2>2, <2>3 DEF EntriesDiffer
<1>11. OwnerIsInside'
  <2>1. \A h \in Goroutines : h # g => ref'[h] = ref[h] /\ pc'[h] = pc[h]
    BY <1>1, <1>2 DEF TypeOK
  <2>2. pc'[g] = "waiting"
    BY <1>2 DEF TypeOK
  <2>3. \A q \in Refs : owner[q] # g
    BY <1>2, LocksAssumption DEF OwnerIsInside
  <2> QED
    BY <2>1, <2>2, <2>3, <1>2 DEF OwnerIsInside, TypeOK
<1>12. Counted'
  <2>1. Cardinality(Users(r)') = Cardinality(Users(r)) + 1
    BY <1>4, <1>5, UsersFinite, FS_AddElement
  <2>2. users'[r] = users[r] + 1
    <3>1. CASE items[i] = NoRef
      <4>1. Users(r) = {}
        BY <1>1, <3>1 DEF IsGarbage, Users
      <4>2. users[r] = 0
        BY <4>1, FS_EmptySet DEF Counted
      <4> QED
        BY <4>2, <3>1, <1>1 DEF UsersJoined, TypeOK
    <3>2. CASE items[i] # NoRef
      BY <3>2, <1>1 DEF UsersJoined, TypeOK
    <3> QED
      BY <3>1, <3>2
  <2>3. \A q \in Refs : q # r => users'[q] = users[q]
    BY <1>1 DEF UsersJoined, TypeOK
  <2> QED
    BY <2>1, <2>2, <2>3, <1>6 DEF Counted
<1>13. Populated'
  <2> SUFFICES ASSUME NEW j \in Ids, items'[j] # NoRef
               PROVE  \E h \in Goroutines : ref'[h] = items'[j]
    BY DEF Populated
  <2>1. CASE items'[j] = r
    BY <2>1, <1>1 DEF TypeOK
  <2>2. CASE items'[j] # r
    <3>1. items'[j] = items[j]
      BY <2>2, <1>1 DEF TypeOK
    <3>2. PICK h \in Goroutines : ref[h] = items[j]
      BY <3>1 DEF Populated
    <3>3. ref'[h] = ref[h]
      BY <3>1, <3>2, <1>1, <1>3 DEF TypeOK
    <3> QED
      BY <3>1, <3>2, <3>3
  <2> QED
    BY <2>1, <2>2
<1> QED
  BY <1>7, <1>8, <1>9, <1>10, <1>11, <1>12, <1>13

LEMMA EnterInv ==
  ASSUME LocksInv, NEW g \in Goroutines, Enter(g)
  PROVE  LocksInv'
<1> USE DEF LocksInv
<1>1. /\ pc[g] = "waiting" /\ owner[ref[g]] = Nobody
      /\ owner' = [owner EXCEPT ![ref[g]] = g]
      /\ pc' = [pc EXCEPT ![g] = "inside"]
      /\ items' = items /\ users' = users /\ id' = id /\ ref' = ref
  BY DEF Enter
<1>2. ref[g] \in Refs
  BY <1>1 DEF HasEntry
<1>3. TypeOK'
  BY <1>1, <1>2 DEF TypeOK
<1>4. HasEntry' /\ EntryIsShared' /\ EntriesDiffer'
  BY <1>1 DEF HasEntry, EntryIsShared, EntriesDiffer, TypeOK
<1>5. OwnerIsInside'
  BY <1>1, <1>2, LocksAssumption DEF OwnerIsInside, TypeOK, HasEntry
<1>6. Counted' /\ Populated'
  BY <1>1 DEF Counted, Populated, Users
<1> QED
  BY <1>3, <1>4, <1>5, <1>6

LEMMA LeaveInv ==
  ASSUME LocksInv, NEW g \in Goroutines, Leave(g)
  PROVE  LocksInv'
<1> USE DEF LocksInv
<1>1. /\ pc[g] = "inside"
      /\ owner' = [owner EXCEPT ![ref[g]] = Nobody]
      /\ pc' = [pc EXCEPT ![g] = "leaving"]
      /\ items' = items /\ users' = users /\ id' = id /\ ref' = ref
  BY DEF Leave
<1>2. ref[g] \in Refs /\ owner[ref[g]] = g
  BY <1>1 DEF HasEntry, OwnerIsInside
<1>3. TypeOK'
  BY <1>1, <1>2 DEF TypeOK
<1>4. HasEntry' /\ EntryIsShared' /\ EntriesDiffer'
  BY <1>1 DEF HasEntry, EntryIsShared, EntriesDiffer, TypeOK
<1>5. OwnerIsInside'
  BY <1>1, <1>2, LocksAssumption DEF OwnerIsInside, TypeOK, HasEntry
<1>6. Counted' /\ Populated'
  BY <1>1 DEF Counted, Populated, Users
<1> QED
  BY <1>3, <1>4, <1>5, <1>6

\* Counting out: the entry is dropped only when nobody else has it.
LEMMA DepartInv ==
  ASSUME LocksInv, NEW g \in Goroutines, Depart(g)
  PROVE  LocksInv'
<1> USE DEF LocksInv
<1>a. PICK r \in Refs : r = ref[g]
  BY DEF Depart, HasEntry
<1> DEFINE n == users[r] - 1
<1>1. /\ pc[g] = "leaving"
      /\ users' = [users EXCEPT ![r] = n]
      /\ items' = [items EXCEPT ![id[g]] = IF n = 0 THEN NoRef ELSE @]
      /\ ref' = [ref EXCEPT ![g] = NoRef]
      /\ id' = [id EXCEPT ![g] = NoId]
      /\ pc' = [pc EXCEPT ![g] = "outside"]
      /\ owner' = owner
  BY <1>a DEF Depart, IsUnused
<1>2. r \in Refs /\ id[g] \in Ids /\ items[id[g]] = r
  BY <1>1, <1>a DEF HasEntry, EntryIsShared
<1>3. g \in Users(r)
  BY <1>a DEF Users
<1>4. Users(r)' = Users(r) \ {g}
  BY <1>1, <1>2, LocksAssumption DEF Users, TypeOK
<1>5. \A q \in Refs : q # r => Users(q)' = Users(q)
  BY <1>1, <1>a, LocksAssumption DEF Users, TypeOK
<1>6. Cardinality(Users(r)') = Cardinality(Users(r)) - 1
  BY <1>2, <1>3, <1>4, UsersFinite, FS_RemoveElement
<1>7. n = Cardinality(Users(r)') /\ n \in Nat
  <2>1. users[r] = Cardinality(Users(r))
    BY <1>2 DEF Counted
  <2>2. IsFiniteSet(Users(r)')
    BY <1>2, <1>4, UsersFinite, FS_RemoveElement
  <2> QED
    BY <2>1, <2>2, <1>6, FS_CardinalityType
<1>8. n = 0 <=> Users(r)' = {}
  <2>1. IsFiniteSet(Users(r)')
    BY <1>2, <1>4, UsersFinite, FS_RemoveElement
  <2> QED
    BY <2>1, <1>7, FS_EmptySet
<1>9. TypeOK'
  BY <1>1, <1>2, <1>7 DEF TypeOK
<1>10. HasEntry'
  BY <1>1 DEF HasEntry, TypeOK
<1>11. \A h \in Goroutines : pc'[h] # "outside" =>
         h # g /\ pc[h] # "outside" /\ id'[h] = id[h] /\ ref'[h] = ref[h]
  BY <1>1 DEF TypeOK
<1>12. EntryIsShared'
  <2> SUFFICES ASSUME NEW h \in Goroutines, pc'[h] # "outside"
               PROVE  items'[id'[h]] = ref'[h]
    BY DEF EntryIsShared
  <2>1. /\ h # g /\ id'[h] = id[h] /\ ref'[h] = ref[h]
        /\ id[h] \in Ids /\ items[id[h]] = ref[h]
    BY <1>11 DEF HasEntry, EntryIsShared
  <2>2. CASE id[h] = id[g]
    <3>1. h \in Users(r)'
      BY <2>1, <2>2, <1>2 DEF Users
    <3>2. n # 0
      BY <3>1, <1>8
    <3> QED
      BY <3>2, <2>1, <1>1, <1>2 DEF TypeOK
  <2>3. CASE id[h] # id[g]
    BY <2>1, <2>3, <1>1 DEF TypeOK
  <2> QED
    BY <2>2, <2>3
<1>13. \A i \in Ids : items'[i] # NoRef => items'[i] = items[i]
  BY <1>1 DEF TypeOK
<1>14. EntriesDiffer'
  BY <1>13 DEF EntriesDiffer
<1>15. OwnerIsInside'
  <2>1. \A h \in Goroutines : h # g => pc'[h] = pc[h] /\ ref'[h] = ref[h]
    BY <1>1 DEF TypeOK
  <2>2. \A q \in Refs : owner[q] # g
    BY <1>1, LocksAssumption DEF OwnerIsInside
  <2>3. pc'[g] = "outside"
    BY <1>1 DEF TypeOK
  <2> QED
    BY <2>1, <2>2, <2>3, <1>1 DEF OwnerIsInside, TypeOK
<1>16. Counted'
  <2>1. users'[r] = n /\ \A q \in Refs : q # r => users'[q] = users[q]
    BY <1>1, <1>2 DEF TypeOK
  <2> QED
    BY <2>1, <1>5, <1>7 DEF Counted
<1>17. Populated'
  <2> SUFFICES ASSUME NEW j \in Ids, items'[j] # NoRef
               PROVE  \E h \in Goroutines : ref'[h] = items'[j]
    BY DEF Populated
  <2>1. items'[j] = items[j] /\ items[j] # NoRef
    BY <1>13
  <2>2. CASE items[j] = r
    <3>1. j = id[g]
      BY <2>1, <2>2, <1>2, LocksAssumption DEF EntriesDiffer
    <3>2. n # 0
      BY <3>1, <1>1, <1>2 DEF TypeOK
    <3>3. PICK h \in Users(r)' : TRUE
      BY <3>2, <1>8
    <3>4. h \in Users(r) /\ h # g
      BY <3>3, <1>4
    <3> QED
      BY <3>4, <2>1, <2>2, <1>1 DEF Users, TypeOK
  <2>3. CASE items[j] # r
    <3>1. PICK h \in Goroutines : ref[h] = items[j]
      BY <2>1 DEF Populated
    <3> QED
      BY <3>1, <2>1, <2>3, <1>1, <1>a DEF TypeOK
  <2> QED
    BY <2>2, <2>3
<1> QED
  BY <1>9, <1>10, <1>12, <1>14, <1>15, <1>16, <1>17

LEMMA LocksStutter ==
  ASSUME LocksInv, UNCHANGED lockVars
  PROVE  LocksInv'
BY DEF LocksInv, lockVars, TypeOK, HasEntry, EntryIsShared, EntriesDiffer,
       OwnerIsInside, Counted, Populated, Users

LEMMA LocksInvariant == Safety => []LocksInv
<1>1. Init => LocksInv
  BY LocksInit
<1>2. LocksInv /\ [Next]_lockVars => LocksInv'
  BY JoinInv, EnterInv, LeaveInv, DepartInv, LocksStutter DEF Next
<1> QED
  BY <1>1, <1>2, PTL DEF Safety

-----------------------------------------------------------------------------
LEMMA InvExcludes == LocksInv => MutualExclusion
<1> SUFFICES ASSUME LocksInv, NEW g \in Goroutines, NEW h \in Goroutines,
                    pc[g] = "inside", pc[h] = "inside", id[g] = id[h]
             PROVE  g = h
  BY DEF MutualExclusion
<1>1. ref[g] = ref[h]
  BY DEF LocksInv, EntryIsShared
<1> QED
  BY <1>1 DEF LocksInv, OwnerIsInside

\* No two requests work on the same dossier at once, however many there are
\* and however they are interleaved with the dropping of entries.
THEOREM Exclusion == Safety => []MutualExclusion
BY LocksInvariant, InvExcludes, PTL

\* The table has an entry exactly for those ids that have users, and counts
\* them right.
THEOREM TableIsExact == Safety => []TableHoldsUsersOnly
<1>1. LocksInv => TableHoldsUsersOnly
  BY DEF LocksInv, TypeOK, Counted, Populated, TableHoldsUsersOnly, Users
<1> QED
  BY <1>1, LocksInvariant, PTL

\* Every part of the lock table keeps its type; no count goes below zero.
THEOREM LocksTypeCorrect == Safety => []TypeOK
<1>1. LocksInv => TypeOK
  BY DEF LocksInv
<1> QED
  BY <1>1, LocksInvariant, PTL

-----------------------------------------------------------------------------
LEMMA OneOfSingleton == \A g : OneOf({g}) = g
BY DEF OneOf

LEMMA OneOfNone == OneOf({}) = Nobody
BY DEF OneOf

\* The goroutine inside is the holder of its id.
LEMMA HolderIsInside ==
  ASSUME LocksInv, NEW g \in Goroutines, pc[g] = "inside"
  PROVE  HolderOf(id[g]) = g
<1>1. MutualExclusion
  BY InvExcludes
<1>2. Holders(id[g]) = {g}
  BY <1>1 DEF MutualExclusion, Holders
<1> QED
  BY <1>2, OneOfSingleton DEF HolderOf

\* Nobody is the holder of an id whose mutex is free.
LEMMA FreeHasNoHolder ==
  ASSUME LocksInv, NEW g \in Goroutines, pc[g] = "waiting", owner[ref[g]] = Nobody
  PROVE  Holders(id[g]) = {}
<1> SUFFICES ASSUME NEW h \in Goroutines, pc[h] = "inside", id[h] = id[g]
             PROVE  FALSE
  BY DEF Holders
<1>1. ref[h] = ref[g]
  BY DEF LocksInv, EntryIsShared
<1>2. owner[ref[h]] = h
  BY DEF LocksInv, OwnerIsInside
<1> QED
  BY <1>1, <1>2, LocksAssumption

\* Every step of the table is a step of the mutexes or leaves them alone.
LEMMA LocksStep ==
  ASSUME LocksInv, [Next]_lockVars
  PROVE  [M!Next]_([i \in Ids |-> HolderOf(i)])
<1> DEFINE bar == [i \in Ids |-> HolderOf(i)]
<1>1. ASSUME NEW g \in Goroutines, NEW i \in Ids, Join(g, i)
      PROVE  bar' = bar
  <2>1. \A j \in Ids : Holders(j)' = Holders(j)
    BY <1>1 DEF Join, Holders, LocksInv, TypeOK
  <2> QED
    BY <2>1 DEF HolderOf
<1>2. ASSUME NEW g \in Goroutines, Depart(g)
      PROVE  bar' = bar
  <2>1. \A j \in Ids : Holders(j)' = Holders(j)
    BY <1>2 DEF Depart, Holders, LocksInv, TypeOK
  <2> QED
    BY <2>1 DEF HolderOf
<1>3. ASSUME NEW g \in Goroutines, Enter(g)
      PROVE  M!Next
  <2>1. PICK i \in Ids : i = id[g]
    BY <1>3 DEF Enter, LocksInv, HasEntry
  <2>2. Holders(i) = {}
    BY <1>3, <2>1, FreeHasNoHolder DEF Enter
  <2>3. Holders(i)' = {g}
    BY <1>3, <2>1, <2>2 DEF Enter, Holders, LocksInv, TypeOK
  <2>4. \A j \in Ids : j # i => Holders(j)' = Holders(j)
    BY <1>3, <2>1 DEF Enter, Holders, LocksInv, TypeOK
  <2>5. bar[i] = Nobody
    BY <2>2, OneOfNone DEF HolderOf
  <2>6. HolderOf(i)' = g /\ \A j \in Ids : j # i => HolderOf(j)' = HolderOf(j)
    BY <2>3, <2>4, OneOfSingleton DEF HolderOf
  <2>7. bar' = [bar EXCEPT ![i] = g]
    BY <2>6
  <2> QED
    BY <2>5, <2>7 DEF M!Next, M!Acquire, M!Free
<1>4. ASSUME NEW g \in Goroutines, Leave(g)
      PROVE  M!Next
  <2>1. PICK i \in Ids : i = id[g]
    BY <1>4 DEF Leave, LocksInv, HasEntry
  <2>2. Holders(i) = {g}
    BY <1>4, <2>1, InvExcludes DEF Leave, Holders, MutualExclusion
  <2>3. Holders(i)' = {}
    BY <1>4, <2>1, <2>2 DEF Leave, Holders, LocksInv, TypeOK
  <2>4. \A j \in Ids : j # i => Holders(j)' = Holders(j)
    BY <1>4, <2>1 DEF Leave, Holders, LocksInv, TypeOK
  <2>5. bar[i] = g
    BY <1>4, <2>1, HolderIsInside DEF Leave
  <2>6. HolderOf(i)' = Nobody /\ \A j \in Ids : j # i => HolderOf(j)' = HolderOf(j)
    BY <2>3, <2>4, OneOfNone DEF HolderOf
  <2>7. bar' = [bar EXCEPT ![i] = Nobody]
    BY <2>6
  <2> QED
    BY <2>5, <2>7 DEF M!Next, M!Release
<1>5. ASSUME UNCHANGED lockVars
      PROVE  bar' = bar
  BY <1>5 DEF lockVars, HolderOf, Holders
<1> QED
  BY <1>1, <1>2, <1>3, <1>4, <1>5 DEF Next

\* The lock table is a mutex per id: what Service assumes of it.
THEOREM TableIsKeyedMutex == Safety => ImplementsKeyedMutex
<1>1. Init => M!Init
  <2> SUFFICES ASSUME Init PROVE M!Init
    OBVIOUS
  <2>1. \A i \in Ids : Holders(i) = {}
    BY DEF Init, Holders
  <2> QED
    BY <2>1, OneOfNone DEF M!Init, HolderOf
<1>2. LocksInv /\ [Next]_lockVars => [M!Next]_([i \in Ids |-> HolderOf(i)])
  BY LocksStep
<1> QED
  BY <1>1, <1>2, LocksInvariant, PTL DEF Safety, ImplementsKeyedMutex, M!Spec
=============================================================================
