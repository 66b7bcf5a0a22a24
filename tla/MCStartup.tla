----------------------------- MODULE MCStartup -----------------------------
(***************************************************************************)
(* Instances of Startup.                                                   *)
(***************************************************************************)
EXTENDS Startup

CONSTANTS p1, p2

\* All are told the default address.
MCAddress == [p \in Processes |-> "127.0.0.1:19091"]
=============================================================================
