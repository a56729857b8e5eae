-------------------------------- MODULE Registry --------------------------------
(***************************************************************************)
(* What the sandbox index and its audit trail promise to those who read    *)
(* them, whatever goes on around them: an id is claimed once and for all,  *)
(* what ended has ended for good, and the trail reports only claims and    *)
(* ends that happened, by the subject they happened to.  Each changes in   *)
(* a step of its own, one id at a time.  Module Sandboxes implements this. *)
(***************************************************************************)
CONSTANTS Subjects, SandboxIds, NoOne

VARIABLES
  owner,  \* the subject each id belongs to, or NoOne
  ended,  \* the ids with a terminated_at
  log     \* the events of successful creates and deletes

vars == <<owner, ended, log>>

Claim(s, u) ==
  /\ owner[s] = NoOne
  /\ owner' = [owner EXCEPT ![s] = u]
  /\ UNCHANGED <<ended, log>>

End(s) ==
  /\ owner[s] # NoOne
  /\ ended' = ended \cup {s}
  /\ UNCHANGED <<owner, log>>

Happened(e) == /\ owner[e.sb] = e.who
               /\ e.op = "delete" => e.sb \in ended

Report(e) ==
  /\ Happened(e)
  /\ log' = log \cup {e}
  /\ UNCHANGED <<owner, ended>>

Events == [who : Subjects, op : {"create", "delete"}, sb : SandboxIds]

Init ==
  /\ owner = [s \in SandboxIds |-> NoOne]
  /\ ended = {}
  /\ log = {}

Next ==
  \/ \E s \in SandboxIds, u \in Subjects : Claim(s, u)
  \/ \E s \in SandboxIds : End(s)
  \/ \E e \in Events : Report(e)

Spec == Init /\ [][Next]_vars
=============================================================================
