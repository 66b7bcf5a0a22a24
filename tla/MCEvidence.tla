----------------------------- MODULE MCEvidence -----------------------------
(***************************************************************************)
(* Instances of Evidence.                                                  *)
(***************************************************************************)
EXTENDS Evidence

CONSTANTS v, w

\* A text the subject told, and another.
MCContents == {[part \in Parts |-> v], [part \in Parts |-> IF part = "candidate"
                                                            THEN w ELSE v]}

\* Two approvals; a fault can write what either has.
MCApprovals == {[reviewer |-> v, stamp |-> v, review |-> v],
                [reviewer |-> v, stamp |-> w, review |-> w]}
=============================================================================
