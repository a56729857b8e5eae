----------------------------- MODULE MCSandboxes -----------------------------
(***************************************************************************)
(* Instances of module Sandboxes for TLC: the operations the clients call, *)
(* and what the backend's sandboxes do by themselves.                      *)
(***************************************************************************)
EXTENDS Sandboxes, TLC

Nothing == {}
CreateDelete == {"create", "delete"}
RevivingOps == {"create", "delete", "patch"}
OwnershipOps == {"create", "delete", "stray"}
EveryOp == AllOps

RunningOnly == {"running"}
PendingOrRunning == {"pending", "running"}

\* A running sandbox expires, a stopping one stops; the record of a sandbox
\* may vanish later, or at once.
Stops == {<<"stopping", "terminated">>}
Expires == Stops \cup {<<"running", "terminated">>}
Vanishes == {<<"running", "gone">>, <<"stopping", "gone">>}
StartsAndExpires == Expires \cup {<<"pending", "running">>, <<"pending", "failed">>,
                                 <<"pausing", "paused">>, <<"resuming", "running">>,
                                 <<"terminated", "gone">>}

Symmetry == Permutations(Requests) \cup Permutations(Subjects)
            \cup Permutations(SandboxIds)
=============================================================================
