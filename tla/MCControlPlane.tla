---------------------------- MODULE MCControlPlane ----------------------------
(***************************************************************************)
(* Instances of module ControlPlane for TLC.                               *)
(***************************************************************************)
EXTENDS ControlPlane, TLC

CreateAndDelete == {"create", "delete"}
CreateAndProxy == {"create", "proxy"}
Running == {"running"}
Nothing == {}
IssueAndRotate == {"issue", "rotate"}
Agents == {[status |-> "active", role |-> "agent"]}

Symmetry == Permutations(Requests) \cup Permutations(Subjects)
            \cup Permutations(CredIds)
=============================================================================
