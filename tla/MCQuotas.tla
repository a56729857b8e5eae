------------------------------- MODULE MCQuotas -------------------------------
(***************************************************************************)
(* An instance of module Quotas for TLC.                                   *)
(***************************************************************************)
EXTENDS Quotas, TLC

CONSTANT alice

Rule(scope, running, timeout, rate) ==
  [scope |-> scope, running |-> running, timeout |-> timeout, rate |-> rate]

\* The global rule can be tightened, to no creates at all too, without a
\* limit on running sandboxes; alice's own rule inherits the rate, sets the
\* rest, and allows less time than the seeded global rule.
SomeRules == {Rule("*", NoLimit, 1, 0), Rule(alice, 1, 1, NoLimit)}

SomeTimeouts == {NoTimeout, 0, 2}

Symmetry == Permutations(Requests)
=============================================================================
