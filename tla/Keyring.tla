-------------------------------- MODULE Keyring --------------------------------
(***************************************************************************)
(* What cloud sandbox keys promise to those who hold them, whatever goes   *)
(* on around them: a key is shown to one user and never to another, it     *)
(* opens calls of that user only and only while it works, and once it has  *)
(* stopped working it never works again; each change is of one key, or     *)
(* puts one in the place of another.  Module Credentials implements this.  *)
(***************************************************************************)
CONSTANTS Requests, Subjects, Secrets, NoOne

VARIABLES
  holder,   \* the user each key was shown to, or NoOne
  working,  \* the keys that open calls
  caller    \* whose call each request is, or NoOne

vars == <<holder, working, caller>>

(* The keys nobody has been shown: a new key is one of them.              *)
Fresh == {k \in Secrets : holder[k] = NoOne}
ShowTo(u, k) == holder' = [holder EXCEPT ![k] = u]

Issue(u, k) ==
  /\ ShowTo(u, k)
  /\ working' = working \cup {k}
  /\ UNCHANGED caller

(* The new key takes the place of the old one, whether that worked or not; *)
(* of an expired credential it does not work either.                       *)
Replace(old, new) ==
  /\ old \notin Fresh
  /\ ShowTo(holder[old], new)
  /\ working' \in {working \ {old}, (working \ {old}) \cup {new}}
  /\ UNCHANGED caller

Withdraw ==
  \E k \in working :
    /\ working' = working \ {k}
    /\ UNCHANGED <<holder, caller>>

Open(r) ==
  \E k \in working :
    /\ caller[r] = NoOne
    /\ caller' = [caller EXCEPT ![r] = holder[k]]
    /\ UNCHANGED <<holder, working>>

Close(r) ==
  /\ caller[r] # NoOne
  /\ caller' = [caller EXCEPT ![r] = NoOne]
  /\ UNCHANGED <<holder, working>>

Init ==
  /\ holder = [k \in Secrets |-> NoOne]
  /\ working = {}
  /\ caller = [r \in Requests |-> NoOne]

Next ==
  \/ \E k \in Fresh : \/ \E u \in Subjects : Issue(u, k)
                      \/ \E old \in Secrets : Replace(old, k)
  \/ Withdraw
  \/ \E r \in Requests : Open(r)
  \/ \E r \in Requests : Close(r)

Spec == Init /\ [][Next]_vars
=============================================================================
