------------------------------ MODULE MCService ------------------------------
(***************************************************************************)
(* Instances of Service for model checking.                                *)
(***************************************************************************)
EXTENDS Service

CONSTANTS d1, d2,      \* dossiers
          d1spelled,   \* d1 as a client types it, with a blank
          r1, r2, r3, r4,
          h1, h2, h3,
          p1, p2       \* processes

MCDossiers == {d1, d2}
MCKeys == {d1, d2, d1spelled}
MCCleaned == [k \in MCKeys |-> IF k = d1spelled THEN d1 ELSE k]

Req(key, rid, input, expected) ==
  [key |-> key, rid |-> rid, input |-> input, expected |-> expected]

\* Two creations of d1 under two spellings; an edit; its id again for
\* another revision; a seal and a rival edit, under the id of a creation; an edit
\* that comes after them; a request without an id and one for
\* a spelling that is not stored.
DistinctCalls ==
  {Req(d1, r1, "create", 0),
   Req(d1spelled, r2, "create", 0),
   Req(d1, r3, "edit", 1),
   Req(d1, r3, "edit", 2),
   Req(d1, r4, "seal", 2),
   Req(d1, r2, "edit", 2),
   Req(d1, r2, "edit", 3),
   Req(d1, NoRequestId, "edit", 1),
   Req(d1spelled, r3, "edit", 1)}

\* A short life of one dossier, for three handlers that contend for it.
ShortLifeCalls ==
  {Req(d1, r1, "create", 0),
   Req(d1spelled, r2, "create", 0),
   Req(d1, r3, "seal", 1)}

\* The same action on two dossiers under one id.
ReusedCalls ==
  {Req(d1, r1, "create", 0),
   Req(d2, r2, "create", 0),
   Req(d1, r3, "edit", 1),
   Req(d2, r3, "edit", 1)}

OneProcess == [h \in Handlers |-> p1]
TwoProcesses == [h \in Handlers |-> IF h = h2 THEN p2 ELSE p1]
=============================================================================
