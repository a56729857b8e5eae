----------------------------- MODULE ControlPlane -----------------------------
(***************************************************************************)
(* The control plane as its clients meet it: module Credentials decides    *)
(* who calls, module Sandboxes what the call does.                         *)
(*                                                                         *)
(* A native request is one coroutine.  get_cloud_sandbox_principal         *)
(* (api/dependencies.py) turns its key into a subject, in a transaction of *)
(* its own; the handler (api/native/sandboxes.py) then works for that      *)
(* subject until it answers, and looks at the key no more, while the       *)
(* management API changes credentials and identities around it.            *)
(***************************************************************************)
EXTENDS Naturals, FiniteSets

CONSTANTS
  Requests, Subjects, NoOne,                           \* of both modules
  SandboxIds, NoId, MaxRunning, NativeOps, BirthStates, BackendMoves,
  ReuseIds, MaxLate, KeptOps,                          \* of module Sandboxes
  CredIds, Names, NoCredId, MaxKeys, MaxSecret, KeyOps,
  Words                                                \* of module Credentials

VARIABLES
  row, call, backend, maker, late, events, revived,    \* of module Sandboxes
  tokens, identity, cred, req, holder, trail, refused  \* of module Credentials

Sb == INSTANCE Sandboxes WITH req <- call, audit <- events, Ops <- NativeOps
Cr == INSTANCE Credentials WITH audit <- trail, Ops <- KeyOps

(* What either module assumes of its constants.                            *)
ASSUME PartsAssumption ==
  /\ NoOne \notin Subjects
  /\ NoId \notin SandboxIds /\ NoCredId \notin CredIds
  /\ MaxRunning \in Nat /\ MaxLate \in Nat
  /\ MaxKeys \in Nat /\ MaxSecret \in Nat
  /\ NativeOps \subseteq Sb!AllOps /\ KeyOps \subseteq Cr!AllOps
  /\ ReuseIds \in BOOLEAN
  /\ KeptOps \subseteq {"create", "delete"}
  /\ Words \subseteq Cr!AllWords
  /\ BirthStates \subseteq Sb!LiveStates
  /\ BackendMoves \subseteq Sb!RawStates \X (Sb!RawStates \cup {"gone"})
  /\ \A m \in BackendMoves :
       /\ m[2] \in Sb!LiveStates => m[1] \in Sb!LiveStates
       /\ m[2] \in Sb!RunnableStates => m[1] \in Sb!RunnableStates

sandboxVars == <<row, call, backend, maker, late, events, revived>>
keyVars == <<tokens, identity, cred, req, holder, trail, refused>>
vars == <<row, call, backend, maker, late, events, revived,
          tokens, identity, cred, req, holder, trail, refused>>

-----------------------------------------------------------------------------
(* A native request.                                                       *)

(* Mutant: keys that were good once are remembered.                        *)
Verify_Cached(r, k) ==
  /\ req[r] = Cr!Idle
  /\ \E c \in CredIds :
       /\ cred[c].owner = holder[k] /\ holder[k] # NoOne
       /\ req' = [req EXCEPT ![r] = [Cr!Idle EXCEPT !.pc = "native", !.key = k,
                                          !.who = holder[k], !.on = c]]
  /\ UNCHANGED <<row, call, backend, maker, late, events, revived>>
  /\ UNCHANGED <<tokens, identity, cred, holder, trail, refused>>

Verify(r, k) == /\ Cr!VerifyKey(r, k)
                /\ UNCHANGED sandboxVars

Handling(r) == call[r] # Sb!Idle

(* The subject the handler works for.                                      *)
Caller(r) == req[r].who

(* The handler starts: it forwards the call, or concludes that it may not. *)
Start(r) ==
  /\ req[r].pc = "native" /\ ~Handling(r)
  /\ \/ Sb!EnforceQuota(r, Caller(r))
     \/ \E op \in NativeOps, s \in SandboxIds : Sb!EnsureOwned(r, Caller(r), op, s)
  /\ UNCHANGED keyVars

(* Mutant: the handler of a client that is gone dropped, its call with it. *)
Leave_DropsCall(r) ==
  /\ Cr!Serve(r)
  /\ call' = [call EXCEPT ![r] = Sb!Idle]
  /\ UNCHANGED <<row, backend, maker, late, events, revived>>

(* A refusal that leaves no trace, or a client or process that is gone.    *)
Leave(r) == /\ ~Handling(r)
            /\ Cr!Serve(r)
            /\ UNCHANGED sandboxVars

HandlerStep(r) ==
  \/ Sb!BackendCreates(r)
  \/ Sb!BackendServes(r)
  \/ Sb!BackendRefuses(r)
  \/ Sb!CallFails(r)
  \/ Sb!RecordCreated(r)
  \/ Sb!RecordDeleted(r)
  \/ Sb!RecordState(r)
  \/ Sb!RecordPayload(r)
  \/ Sb!PassOn(r)
  \/ Sb!RecordAudit(r)
  \/ Sb!Abort(r)

(* A step of the handler; the last one answers the request.                *)
Handle(r) == /\ HandlerStep(r)
             /\ IF Handling(r)' THEN UNCHANGED keyVars ELSE Cr!Serve(r)

-----------------------------------------------------------------------------
(* The backend, and the management API.                                    *)

BackendStep ==
  /\ \/ \E r \in Requests : Sb!LateCallLands(r) \/ Sb!LateCallDropped(r)
     \/ \E s \in SandboxIds : Sb!BackendMove(s)
  /\ UNCHANGED keyVars

ManagementStep ==
  /\ \/ \E u \in Subjects, w \in Words :
          \/ Cr!CasdoorSays(u, w)
          \/ Cr!TokenExpires(u, w)
          \/ Cr!RefuseToken(u, w)
          \/ \E r \in Requests, op \in KeyOps, c \in CredIds, name \in Names :
               Cr!AcceptToken(r, u, w, op, c, name)
     \/ \E r \in Requests :
          \/ Cr!CountCredentials(r)
          \/ Cr!CreateCredential(r)
          \/ Cr!RotateCredential(r)
          \/ Cr!SetStatus(r)
          \/ Cr!AdminDisable(r)
          \/ Cr!RecordAudit(r)
          \/ Cr!Abort(r)
     \/ \E c \in CredIds : Cr!CredentialExpires(c)
  /\ UNCHANGED sandboxVars

-----------------------------------------------------------------------------
Init == Sb!Init /\ Cr!Init

Next ==
  \/ \E r \in Requests :
       \/ \E k \in Cr!Secrets : Verify(r, k)
       \/ Start(r)
       \/ Leave(r)
       \/ Handle(r)
  \/ BackendStep
  \/ ManagementStep

Spec == Init /\ [][Next]_vars

(* The event loop resumes a handler whose await is over, and a call that   *)
(* is not proxied ends: the backend answers, or httpx gives up 60 s after  *)
(* the last byte.  Nothing makes a client or an administrator call.        *)
Fairness ==
  \A r \in Requests :
    /\ WF_vars(Start(r) \/ Leave(r))
    /\ WF_vars(Handle(r) /\ Sb!Record(r))
    /\ WF_vars(Handle(r) /\ Sb!RecordAudit(r))
    /\ WF_vars(call[r].op \notin Sb!ProxyOps /\ Handle(r) /\ Sb!CallEnds(r))
    /\ WF_vars(/\ Sb!LateCallLands(r) \/ Sb!LateCallDropped(r)
               /\ UNCHANGED keyVars)

FairSpec == Spec /\ Fairness

-----------------------------------------------------------------------------
(* Properties.                                                             *)

(* A native call works for the user its key was shown to, through every    *)
(* rotation of the key; and one that stays on the sandbox it was checked   *)
(* for is on a sandbox made by a create of that user.  (Stray calls are    *)
(* not confined: see CallsStayOnOwnSandboxes in module Sandboxes.)         *)
KeysReachOwnSandboxes ==
  \A r \in Requests :
    /\ req[r].pc = "native" => call[r].who \in {NoOne, holder[req[r].key]}
    /\ call[r].pc \in {"call", "reply"} /\ call[r].op \notin {"create", "stray"} =>
         maker[call[r].sb] = holder[req[r].key]

(* A key that was rotated away, disabled, revoked or expired is out of use *)
(* once the requests that were under way are answered, a proxied one       *)
(* excepted: a disabled key stops at some point for good, also in the      *)
(* coroutines that verified it before.                                     *)
InUse(k) == \E r \in Requests : req[r].key = k /\ call[r].op \notin Sb!ProxyOps
DeadKeysFadeOut ==
  \A k \in Cr!Secrets : holder[k] # NoOne /\ ~Cr!Works(k) ~> ~InUse(k)

(* The composition is a behaviour of module Sandboxes: whatever happens to *)
(* keys and identities, a handler works for one subject, that of its key,  *)
(* and no other step touches the index, the calls or the backend.          *)
ImplementsSandboxes == Sb!Spec

(* It is one of module Credentials too, by the form of its actions.        *)
ImplementsCredentials == Cr!Spec
=============================================================================
