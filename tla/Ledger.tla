------------------------------- MODULE Ledger -------------------------------
(***************************************************************************)
(* What the service promises its clients about the requests that change a  *)
(* dossier, whatever is concurrent, retried, lost or restarted: a request  *)
(* takes effect at once or not at all, at most once under its id, on       *)
(* exactly the revision its client named, never on a sealed dossier; and   *)
(* only requests that took effect are acknowledged.                        *)
(***************************************************************************)
EXTENDS Naturals, Sequences

CONSTANTS Dossiers,   \* ids of dossiers
          Requests,   \* [dossier, rid, input, expected]
          Seals       \* the inputs that seal a dossier

VARIABLES log,        \* the requests that took effect, by dossier
          answered    \* the acknowledgements given: request and revision

ledgerVars == <<log, answered>>

Init ==
  /\ log = [d \in Dossiers |-> <<>>]
  /\ answered = {}

IsSealed(d) == \E n \in DOMAIN log[d] : log[d][n].input \in Seals

IsUsed(rid) == \E d \in Dossiers : \E n \in DOMAIN log[d] : log[d][n].rid = rid

Apply(r) ==
  /\ r.expected = Len(log[r.dossier])
  /\ ~IsSealed(r.dossier)
  /\ ~IsUsed(r.rid)
  /\ log' = [log EXCEPT ![r.dossier] = Append(@, [rid |-> r.rid, input |-> r.input])]
  /\ UNCHANGED answered

Acknowledge(r, n) ==
  /\ n \in DOMAIN log[r.dossier]
  /\ log[r.dossier][n] = [rid |-> r.rid, input |-> r.input]
  /\ n = r.expected + 1
  /\ answered' = answered \cup {[request |-> r, revision |-> n]}
  /\ UNCHANGED log

Next == \E r \in Requests : \/ Apply(r)
                            \/ \E n \in DOMAIN log[r.dossier] : Acknowledge(r, n)

Spec == Init /\ [][Next]_ledgerVars
=============================================================================
