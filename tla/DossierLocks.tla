---------------------------- MODULE DossierLocks ----------------------------
(***************************************************************************)
(* The lock table of one process (internal/application/locks.go): a mutex  *)
(* per dossier id, made when it is first wanted and dropped when nobody    *)
(* holds it or waits for it, which a count of its users tells.             *)
(*                                                                         *)
(* What runs under l.mu is one step; taking and releasing the mutex of an  *)
(* entry are steps of their own.  An entry (lockRef) is a member of Refs;  *)
(* one that nothing refers to any more is garbage and may be made again.   *)
(* D_Fault is D with a fault, as in Dossier.                               *)
(***************************************************************************)
EXTENDS Naturals, FiniteSets

CONSTANTS Ids,         \* what is locked
          Goroutines,  \* requests being served
          Refs,        \* entries the heap has room for
          NoId, NoRef, Nobody

ASSUME LocksAssumption ==
  /\ IsFiniteSet(Goroutines)
  /\ NoId \notin Ids /\ NoRef \notin Refs /\ Nobody \notin Goroutines

VARIABLES items,  \* l.items: the entry of an id
          users,  \* ref.users
          owner,  \* who holds ref.mu
          pc,     \* where a goroutine is
          id,     \* the id it locks
          ref     \* the entry it got

lockVars == <<items, users, owner, pc, id, ref>>

-----------------------------------------------------------------------------
Init ==
  /\ items = [i \in Ids |-> NoRef]
  /\ users = [r \in Refs |-> 0]
  /\ owner = [r \in Refs |-> Nobody]
  /\ pc = [g \in Goroutines |-> "outside"]
  /\ id = [g \in Goroutines |-> NoId]
  /\ ref = [g \in Goroutines |-> NoRef]

\* Nothing refers to the entry.
IsGarbage(r) == /\ \A i \in Ids : items[i] # r
                /\ \A g \in Goroutines : ref[g] # r

\* The users once a goroutine has joined; a new entry starts at zero.
UsersJoined(r, isNew) ==
  [users EXCEPT ![r] = IF isNew THEN 1 ELSE @ + 1]

\* lock, under l.mu: find the entry of the id or make it, and count in.
Join(g, i) ==
  /\ pc[g] = "outside"
  /\ \E r \in Refs :
       LET isNew == items[i] = NoRef
       IN  /\ IF isNew THEN IsGarbage(r) ELSE r = items[i]
           /\ items' = [items EXCEPT ![i] = r]
           /\ users' = UsersJoined(r, isNew)
           /\ ref' = [ref EXCEPT ![g] = r]
  /\ id' = [id EXCEPT ![g] = i]
  /\ pc' = [pc EXCEPT ![g] = "waiting"]
  /\ UNCHANGED owner

\* ref.mu.Lock, which blocks while somebody holds it.
Enter(g) ==
  /\ pc[g] = "waiting"
  /\ owner[ref[g]] = Nobody
  /\ owner' = [owner EXCEPT ![ref[g]] = g]
  /\ pc' = [pc EXCEPT ![g] = "inside"]
  /\ UNCHANGED <<items, users, id, ref>>

\* ref.mu.Unlock, the first thing the returned function does.
Leave(g) ==
  /\ pc[g] = "inside"
  /\ owner' = [owner EXCEPT ![ref[g]] = Nobody]
  /\ pc' = [pc EXCEPT ![g] = "leaving"]
  /\ UNCHANGED <<items, users, id, ref>>

\* Whether the last user drops the entry.
IsUnused_Always(n) == n \in Nat
IsUnused_Never(n) == n < 0
IsUnused(n) == n = 0

\* The rest of it, under l.mu: count out and drop the entry when unused.
Depart(g) ==
  LET n == users[ref[g]] - 1
  IN  /\ pc[g] = "leaving"
      /\ users' = [users EXCEPT ![ref[g]] = n]
      /\ items' = [items EXCEPT ![id[g]] = IF IsUnused(n) THEN NoRef ELSE @]
      /\ ref' = [ref EXCEPT ![g] = NoRef]
      /\ id' = [id EXCEPT ![g] = NoId]
      /\ pc' = [pc EXCEPT ![g] = "outside"]
      /\ UNCHANGED owner

Next == \E g \in Goroutines : \/ \E i \in Ids : Join(g, i)
                              \/ Enter(g) \/ Leave(g) \/ Depart(g)

Safety == Init /\ [][Next]_lockVars

\* The work done under a lock ends (Service!Work), and sync.Mutex hands over to
\* a goroutine that has waited long (its starvation mode).
Fairness_TryLock == \A g \in Goroutines : /\ WF_lockVars(Enter(g))
                                          /\ WF_lockVars(Leave(g))
                                          /\ WF_lockVars(Depart(g))
Fairness == \A g \in Goroutines : /\ SF_lockVars(Enter(g))
                                  /\ WF_lockVars(Leave(g))
                                  /\ WF_lockVars(Depart(g))

Spec == Safety /\ Fairness

-----------------------------------------------------------------------------
(***************************************************************************)
(* Properties.                                                             *)
(***************************************************************************)
\* The shape of every part of the state.
TypeOK ==
  /\ items \in [Ids -> Refs \cup {NoRef}]
  /\ users \in [Refs -> Nat]
  /\ owner \in [Refs -> Goroutines \cup {Nobody}]
  /\ pc \in [Goroutines -> {"outside", "waiting", "inside", "leaving"}]
  /\ id \in [Goroutines -> Ids \cup {NoId}]
  /\ ref \in [Goroutines -> Refs \cup {NoRef}]

\* Two requests for one dossier are never worked on at once, although entries
\* are dropped and made again between the lookup and the locking.
MutualExclusion ==
  \A g, h \in Goroutines :
    pc[g] = "inside" /\ pc[h] = "inside" /\ id[g] = id[h] => g = h

Users(r) == {g \in Goroutines : ref[g] = r}

\* The count tells the users exactly, so that an entry is in the table as long
\* as it has a user and not longer: the table does not grow with the ids.
TableHoldsUsersOnly ==
  \A i \in Ids : items[i] # NoRef =>
    /\ Users(items[i]) # {}
    /\ users[items[i]] = Cardinality(Users(items[i]))

\* Whoever wants a lock gets it.
EveryoneEnters ==
  \A g \in Goroutines : pc[g] = "waiting" ~> pc[g] = "inside"

Holders(i) == {g \in Goroutines : pc[g] = "inside" /\ id[g] = i}

OneOf(S) == IF S = {} THEN Nobody ELSE CHOOSE g \in S : TRUE

HolderOf(i) == OneOf(Holders(i))

M == INSTANCE KeyedMutex WITH Keys <- Ids,
                              Clients <- Goroutines,
                              holder <- [i \in Ids |-> HolderOf(i)]

\* The table is a mutex per id.
ImplementsKeyedMutex == M!Spec
=============================================================================
