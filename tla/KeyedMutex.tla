----------------------------- MODULE KeyedMutex -----------------------------
(***************************************************************************)
(* What the lock table of the service promises (internal/application/      *)
(* locks.go): one mutex per key.  DossierLocks implements it; Service      *)
(* relies on it.                                                           *)
(***************************************************************************)
CONSTANTS Keys,     \* what can be locked
          Clients,  \* who can hold a lock
          Nobody    \* the holder of a free lock

VARIABLE holder     \* who holds the lock of each key

Init == holder = [k \in Keys |-> Nobody]

Free_Any(k) == holder[k] \in Clients \cup {Nobody}
Free(k) == holder[k] = Nobody

Acquire(c, k) ==
  /\ Free(k)
  /\ holder' = [holder EXCEPT ![k] = c]

Release(c, k) ==
  /\ holder[k] = c
  /\ holder' = [holder EXCEPT ![k] = Nobody]

Next == \E c \in Clients, k \in Keys : Acquire(c, k) \/ Release(c, k)

Spec == Init /\ [][Next]_holder
=============================================================================
