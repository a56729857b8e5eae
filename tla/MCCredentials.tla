---------------------------- MODULE MCCredentials ----------------------------
(***************************************************************************)
(* Instances of module Credentials for TLC.                                *)
(***************************************************************************)
EXTENDS Credentials, TLC

EveryOp == AllOps
IssueDisableRotate == {"issue", "disable", "rotate"}
IssueAndDisable == {"issue", "disable"}
IssueOnly == {"issue"}

Word(status, role) == [status |-> status, role |-> role]
AgentsOnly == {Word("active", "agent")}
RoleWithdrawn == {Word("active", "none"), Word("active", "agent")}
Dismissals == {Word("active", "agent"), Word("disabled", "agent")}
AdminDismissals == {Word("active", "admin"), Word("disabled", "admin")}

Symmetry == Permutations(Requests) \cup Permutations(Subjects)
            \cup Permutations(CredIds) \cup Permutations(Names)
=============================================================================
