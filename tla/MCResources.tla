------------------------------ MODULE MCResources ------------------------------
(***************************************************************************)
(* An instance of module Resources for TLC.                                *)
(***************************************************************************)
EXTENDS Resources

EveryKind == AllKinds

\* The default backend, and one left from an earlier configuration.
TwoBackends == <<"default", "earlier">>
=============================================================================
