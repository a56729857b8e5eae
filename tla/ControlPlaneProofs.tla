-------------------------- MODULE ControlPlaneProofs --------------------------
(***************************************************************************)
(* What the composition inherits and what it adds: it is a behaviour of    *)
(* module Sandboxes and of module Credentials, so that their theorems hold *)
(* of it, and a checked call made with a key reaches only sandboxes that   *)
(* its holder made.                                                        *)
(***************************************************************************)
EXTENDS ControlPlane, TLAPS

SbP == INSTANCE SandboxesProofs WITH req <- call, audit <- events, Ops <- NativeOps
CrP == INSTANCE CredentialsProofs WITH audit <- trail, Ops <- KeyOps

-----------------------------------------------------------------------------
(* The theorems are about instances of the same modules.                   *)

LEMMA SameCounts ==
  /\ \A S : Sb!Cardinality(S) = SbP!Cardinality(S)
  /\ \A S : Cr!Cardinality(S) = CrP!Cardinality(S)
BY DEF Sb!Cardinality, SbP!Cardinality, Cr!Cardinality, CrP!Cardinality

LEMMA PartsAreWithinTheirAssumptions ==
  /\ SbP!ConstantsAssumption /\ SbP!BackendAssumption
  /\ CrP!CredentialsAssumption
BY PartsAssumption
   DEF SbP!ConstantsAssumption, SbP!BackendAssumption, Sb!AllOps, SbP!AllOps,
       Sb!RawStates, SbP!RawStates, Sb!LiveStates, SbP!LiveStates,
       Sb!RunnableStates, SbP!RunnableStates,
       CrP!CredentialsAssumption, Cr!AllOps, CrP!AllOps, Cr!AllWords, CrP!AllWords

LEMMA SameEffects == \A op, b : Sb!Effects(op, b) = SbP!Effects(op, b)
<1> SUFFICES ASSUME NEW op, NEW b PROVE Sb!Effects(op, b) = SbP!Effects(op, b)
  OBVIOUS
<1>1. Sb!Meanings(op) = SbP!Meanings(op)
  BY DEF Sb!Meanings, SbP!Meanings, Sb!AllOps, SbP!AllOps
<1>2. \A o : Sb!Accepts(o, b) <=> SbP!Accepts(o, b)
  BY DEF Sb!Accepts, SbP!Accepts, Sb!LiveStates, SbP!LiveStates, Sb!RawStates, SbP!RawStates
<1>3. \A o : Sb!Afters(o, b) = SbP!Afters(o, b)
  BY DEF Sb!Afters, SbP!Afters, Sb!LiveStates, SbP!LiveStates
<1> QED BY <1>1, <1>2, <1>3 DEF Sb!Effects, SbP!Effects

LEMMA SameSandboxes == Sb!Spec <=> SbP!Spec
<1>1. Sb!Init <=> SbP!Init
  BY DEF Sb!Init, SbP!Init, Sb!NoRow, SbP!NoRow, Sb!Idle, SbP!Idle, Sb!NoCall, SbP!NoCall
<1>2. Sb!Next <=> SbP!Next
  <2>1. ASSUME NEW r \in Requests, NEW u \in Subjects
        PROVE  Sb!EnforceQuota(r, u) <=> SbP!EnforceQuota(r, u)
    BY SameCounts DEF Sb!EnforceQuota, SbP!EnforceQuota,
           Sb!BelowLimit, SbP!BelowLimit,
           Sb!CountActive, SbP!CountActive,
           Sb!ActiveRows, SbP!ActiveRows,
           Sb!ActiveStates, SbP!ActiveStates, Sb!Forward, SbP!Forward,
           Sb!Deny, SbP!Deny, Sb!Pending, SbP!Pending,
           Sb!Idle, SbP!Idle
  <2>2. ASSUME NEW r \in Requests, NEW u \in Subjects, NEW op \in NativeOps, NEW s \in SandboxIds
        PROVE  Sb!EnsureOwned(r, u, op, s) <=> SbP!EnsureOwned(r, u, op, s)
    BY DEF Sb!EnsureOwned, SbP!EnsureOwned, Sb!Owned, SbP!Owned,
           Sb!BackendPath, SbP!BackendPath, Sb!AuditsNotFound, SbP!AuditsNotFound,
           Sb!Forward, SbP!Forward, Sb!Deny, SbP!Deny,
           Sb!Pending, SbP!Pending, Sb!Idle, SbP!Idle
  <2>3. ASSUME NEW r \in Requests
        PROVE  Sb!BackendCreates(r) <=> SbP!BackendCreates(r)
    BY DEF Sb!BackendCreates, SbP!BackendCreates, Sb!Make, SbP!Make,
           Sb!Creates, SbP!Creates, Sb!Call, SbP!Call,
           Sb!Fresh, SbP!Fresh, Sb!Answered, SbP!Answered
  <2>4. ASSUME NEW r \in Requests
        PROVE  Sb!BackendServes(r) <=> SbP!BackendServes(r)
    BY SameEffects DEF Sb!BackendServes, SbP!BackendServes,
           Sb!Creates, SbP!Creates, Sb!Call, SbP!Call,
           Sb!AnswerBodies, SbP!AnswerBodies, Sb!Answered, SbP!Answered
  <2>5. ASSUME NEW r \in Requests
        PROVE  Sb!BackendRefuses(r) <=> SbP!BackendRefuses(r)
    BY DEF Sb!BackendRefuses, SbP!BackendRefuses,
           Sb!Answered, SbP!Answered
  <2>6. ASSUME NEW r \in Requests
        PROVE  Sb!CallFails(r) <=> SbP!CallFails(r)
    BY SameCounts DEF Sb!CallFails, SbP!CallFails, Sb!MayAbandon, SbP!MayAbandon,
           Sb!Abandon, SbP!Abandon, Sb!Call, SbP!Call,
           Sb!CatchesBackendError, SbP!CatchesBackendError,
           Sb!Conclude, SbP!Conclude, Sb!Pending, SbP!Pending,
           Sb!Finish, SbP!Finish, Sb!Idle, SbP!Idle,
           Sb!NoCall, SbP!NoCall
  <2>7. ASSUME NEW r \in Requests
        PROVE  Sb!LateCallLands(r) <=> SbP!LateCallLands(r)
    BY SameEffects DEF Sb!LateCallLands, SbP!LateCallLands, Sb!NoCall, SbP!NoCall,
           Sb!Make, SbP!Make, Sb!Fresh, SbP!Fresh, Sb!Creates, SbP!Creates
  <2>8. ASSUME NEW r \in Requests
        PROVE  Sb!LateCallDropped(r) <=> SbP!LateCallDropped(r)
    BY DEF Sb!LateCallDropped, SbP!LateCallDropped,
           Sb!NoCall, SbP!NoCall
  <2>9. ASSUME NEW r \in Requests
        PROVE  Sb!RecordCreated(r) <=> SbP!RecordCreated(r)
    BY DEF Sb!RecordCreated, SbP!RecordCreated,
           Sb!Replied, SbP!Replied, Sb!Conclude, SbP!Conclude,
           Sb!Pending, SbP!Pending, Sb!Idle, SbP!Idle,
           Sb!NoRow, SbP!NoRow, Sb!NewRow, SbP!NewRow,
           Sb!NormalizeState, SbP!NormalizeState,
           Sb!RowStates, SbP!RowStates
  <2>10. ASSUME NEW r \in Requests
        PROVE  Sb!RecordDeleted(r) <=> SbP!RecordDeleted(r)
    BY DEF Sb!RecordDeleted, SbP!RecordDeleted,
           Sb!Replied, SbP!Replied, Sb!Conclude, SbP!Conclude,
           Sb!Pending, SbP!Pending, Sb!Idle, SbP!Idle
  <2>11. ASSUME NEW r \in Requests
        PROVE  Sb!RecordState(r) <=> SbP!RecordState(r)
    BY DEF Sb!RecordState, SbP!RecordState, Sb!Replied, SbP!Replied,
           Sb!UpdateIndex, SbP!UpdateIndex, Sb!ActiveStates, SbP!ActiveStates,
           Sb!Conclude, SbP!Conclude,
           Sb!Pending, SbP!Pending, Sb!Idle, SbP!Idle
  <2>12. ASSUME NEW r \in Requests
        PROVE  Sb!RecordPayload(r) <=> SbP!RecordPayload(r)
    BY DEF Sb!RecordPayload, SbP!RecordPayload,
           Sb!Replied, SbP!Replied, Sb!UpdateIndex, SbP!UpdateIndex,
           Sb!ActiveStates, SbP!ActiveStates,
           Sb!NormalizeState, SbP!NormalizeState,
           Sb!RowStates, SbP!RowStates, Sb!Conclude, SbP!Conclude,
           Sb!Pending, SbP!Pending, Sb!Idle, SbP!Idle
  <2>13. ASSUME NEW r \in Requests
        PROVE  Sb!PassOn(r) <=> SbP!PassOn(r)
    BY DEF Sb!PassOn, SbP!PassOn, Sb!AuditsReply, SbP!AuditsReply,
           Sb!ProxyOps, SbP!ProxyOps, Sb!DecisionFromStatus, SbP!DecisionFromStatus,
           Sb!Conclude, SbP!Conclude, Sb!Pending, SbP!Pending,
           Sb!Finish, SbP!Finish, Sb!Idle, SbP!Idle
  <2>14. ASSUME NEW r \in Requests
        PROVE  Sb!RecordAudit(r) <=> SbP!RecordAudit(r)
    BY DEF Sb!RecordAudit, SbP!RecordAudit, Sb!Kept, SbP!Kept,
           Sb!Event, SbP!Event, Sb!Finish, SbP!Finish,
           Sb!Idle, SbP!Idle
  <2>15. ASSUME NEW r \in Requests
        PROVE  Sb!Abort(r) <=> SbP!Abort(r)
    BY SameCounts DEF Sb!Abort, SbP!Abort, Sb!MayAbandon, SbP!MayAbandon,
           Sb!Abandon, SbP!Abandon, Sb!Call, SbP!Call,
           Sb!Finish, SbP!Finish, Sb!Idle, SbP!Idle,
           Sb!NoCall, SbP!NoCall
  <2>16. ASSUME NEW s \in SandboxIds
        PROVE  Sb!BackendMove(s) <=> SbP!BackendMove(s)
    BY DEF Sb!BackendMove, SbP!BackendMove,
           Sb!RawStates, SbP!RawStates
  <2> QED BY <2>1, <2>2, <2>3, <2>4, <2>5, <2>6, <2>7, <2>8, <2>9, 
            <2>10, <2>11, <2>12, <2>13, <2>14, <2>15, <2>16
          DEF Sb!Next, SbP!Next
<1>3. [Sb!Next]_(Sb!vars) <=> [SbP!Next]_(SbP!vars)
  BY <1>2 DEF Sb!vars, SbP!vars
<1> QED BY <1>1, <1>3, PTL DEF Sb!Spec, SbP!Spec

LEMMA SameCredentials == Cr!Spec <=> CrP!Spec
<1>1. Cr!Init <=> CrP!Init
  BY DEF Cr!Init, CrP!Init, Cr!NoIdentity, CrP!NoIdentity, Cr!NoCred, CrP!NoCred,
         Cr!Idle, CrP!Idle, Cr!Secrets, CrP!Secrets
<1>2. Cr!Next <=> CrP!Next
  <2>1. ASSUME NEW u \in Subjects, NEW w \in Words
        PROVE  Cr!CasdoorSays(u, w) <=> CrP!CasdoorSays(u, w)
    BY DEF Cr!CasdoorSays, CrP!CasdoorSays
  <2>2. ASSUME NEW u \in Subjects, NEW w \in Words
        PROVE  Cr!TokenExpires(u, w) <=> CrP!TokenExpires(u, w)
    BY DEF Cr!TokenExpires, CrP!TokenExpires
  <2>3. ASSUME NEW u \in Subjects, NEW w \in Words
        PROVE  Cr!RefuseToken(u, w) <=> CrP!RefuseToken(u, w)
    BY DEF Cr!RefuseToken, CrP!RefuseToken
  <2>4. ASSUME NEW r \in Requests, NEW u \in Subjects, NEW w \in Words, NEW op \in KeyOps, NEW c \in CredIds, NEW name \in Names
        PROVE  Cr!AcceptToken(r, u, w, op, c, name) <=> CrP!AcceptToken(r, u, w, op, c, name)
    BY DEF Cr!AcceptToken, CrP!AcceptToken, Cr!Admits, CrP!Admits,
           Cr!Welcome, CrP!Welcome,
           Cr!UpsertIdentity, CrP!UpsertIdentity,
           Cr!Authorized, CrP!Authorized, Cr!Idle, CrP!Idle
  <2>5. ASSUME NEW r \in Requests
        PROVE  Cr!CountCredentials(r) <=> CrP!CountCredentials(r)
    BY SameCounts DEF Cr!CountCredentials, CrP!CountCredentials,
           Cr!BelowLimit, CrP!BelowLimit,
           Cr!CountActive, CrP!CountActive, Cr!Live, CrP!Live,
           Cr!Fail, CrP!Fail, Cr!Idle, CrP!Idle
  <2>6. ASSUME NEW r \in Requests
        PROVE  Cr!CreateCredential(r) <=> CrP!CreateCredential(r)
    BY DEF Cr!CreateCredential, CrP!CreateCredential,
           Cr!NameTaken, CrP!NameTaken, Cr!Fail, CrP!Fail,
           Cr!Idle, CrP!Idle, Cr!Secrets, CrP!Secrets,
           Cr!NoCred, CrP!NoCred, Cr!Generate, CrP!Generate,
           Cr!NewCred, CrP!NewCred, Cr!Conclude, CrP!Conclude
  <2>7. ASSUME NEW r \in Requests
        PROVE  Cr!RotateCredential(r) <=> CrP!RotateCredential(r)
    BY DEF Cr!RotateCredential, CrP!RotateCredential,
           Cr!Owned, CrP!Owned, Cr!Secrets, CrP!Secrets,
           Cr!Generate, CrP!Generate,
           Cr!UpdateSecret, CrP!UpdateSecret,
           Cr!Conclude, CrP!Conclude, Cr!Fail, CrP!Fail,
           Cr!Idle, CrP!Idle
  <2>8. ASSUME NEW r \in Requests
        PROVE  Cr!SetStatus(r) <=> CrP!SetStatus(r)
    BY DEF Cr!SetStatus, CrP!SetStatus, Cr!Owned, CrP!Owned,
           Cr!StatusAfter, CrP!StatusAfter,
           Cr!UpdateStatus, CrP!UpdateStatus,
           Cr!Conclude, CrP!Conclude, Cr!Fail, CrP!Fail,
           Cr!Idle, CrP!Idle
  <2>9. ASSUME NEW r \in Requests
        PROVE  Cr!AdminDisable(r) <=> CrP!AdminDisable(r)
    BY DEF Cr!AdminDisable, CrP!AdminDisable, Cr!NoCred, CrP!NoCred,
           Cr!UpdateStatus, CrP!UpdateStatus, Cr!Idle, CrP!Idle
  <2>10. ASSUME NEW r \in Requests
        PROVE  Cr!RecordAudit(r) <=> CrP!RecordAudit(r)
    BY DEF Cr!RecordAudit, CrP!RecordAudit, Cr!Event, CrP!Event,
           Cr!Idle, CrP!Idle
  <2>11. ASSUME NEW r \in Requests, NEW k \in Cr!Secrets
        PROVE  Cr!VerifyKey(r, k) <=> CrP!VerifyKey(r, k)
    BY DEF Cr!VerifyKey, CrP!VerifyKey, Cr!WithKey, CrP!WithKey,
           Cr!ValidCredential, CrP!ValidCredential, Cr!Live, CrP!Live,
           Cr!Welcome, CrP!Welcome, Cr!Idle, CrP!Idle
  <2>12. ASSUME NEW r \in Requests
        PROVE  Cr!Serve(r) <=> CrP!Serve(r)
    BY DEF Cr!Serve, CrP!Serve, Cr!Idle, CrP!Idle
  <2>13. ASSUME NEW r \in Requests
        PROVE  Cr!Abort(r) <=> CrP!Abort(r)
    BY DEF Cr!Abort, CrP!Abort, Cr!Idle, CrP!Idle
  <2>14. ASSUME NEW c \in CredIds
        PROVE  Cr!CredentialExpires(c) <=> CrP!CredentialExpires(c)
    BY DEF Cr!CredentialExpires, CrP!CredentialExpires,
           Cr!NoCred, CrP!NoCred
  <2> QED BY <2>1, <2>2, <2>3, <2>4, <2>5, <2>6, <2>7, <2>8, <2>9, 
            <2>10, <2>11, <2>12, <2>13, <2>14
          DEF Cr!Next, CrP!Next, Cr!Secrets, CrP!Secrets
<1>3. [Cr!Next]_(Cr!vars) <=> [CrP!Next]_(CrP!vars)
  BY <1>2 DEF Cr!vars, CrP!vars
<1> QED BY <1>1, <1>3, PTL DEF Cr!Spec, CrP!Spec

-----------------------------------------------------------------------------
(* Every step is a step of both modules, or leaves one of them alone.      *)

LEMMA VariablesOfTheParts ==
  /\ UNCHANGED sandboxVars <=> UNCHANGED Sb!vars
  /\ UNCHANGED keyVars <=> UNCHANGED Cr!vars
  /\ UNCHANGED vars => UNCHANGED Sb!vars /\ UNCHANGED Cr!vars
BY DEF sandboxVars, keyVars, vars, Sb!vars, Cr!vars

LEMMA CredentialSteps == [Next]_vars => [Cr!Next]_(Cr!vars)
<1> SUFFICES ASSUME Next PROVE [Cr!Next]_(Cr!vars)
  BY VariablesOfTheParts
<1>1. ASSUME NEW r \in Requests, NEW k \in Cr!Secrets, Verify(r, k)
      PROVE  Cr!Next
  BY <1>1 DEF Verify, Cr!Next
<1>2. ASSUME NEW r \in Requests, Leave(r)
      PROVE  Cr!Next
  BY <1>2 DEF Leave, Cr!Next
<1>3. ASSUME NEW r \in Requests, Handle(r)
      PROVE  [Cr!Next]_(Cr!vars)
  BY <1>3, VariablesOfTheParts DEF Handle, Cr!Next
<1>4. ASSUME NEW r \in Requests, Start(r)
      PROVE  UNCHANGED Cr!vars
  BY <1>4, VariablesOfTheParts DEF Start
<1>5. CASE BackendStep
  BY <1>5, VariablesOfTheParts DEF BackendStep
<1>6. CASE ManagementStep
  BY <1>6 DEF ManagementStep, Cr!Next
<1> QED BY <1>1, <1>2, <1>3, <1>4, <1>5, <1>6 DEF Next

(* The control plane is a behaviour of module Credentials: by the form of  *)
(* its actions, none of which touches keys but as that module does.        *)
LEMMA CredentialsImplemented == Spec => ImplementsCredentials
<1>1. Init => Cr!Init
  BY DEF Init
<1> QED BY <1>1, CredentialSteps, PTL DEF Spec, ImplementsCredentials, Cr!Spec

(* What its theorems then say of the control plane.                        *)
KeysInv == CrP!TypeOK /\ CrP!KeysSpeakForTheirHolder

LEMMA KeysCorrect == Spec => []KeysInv
<1>1. CrP!CredentialsAssumption
  BY PartsAreWithinTheirAssumptions
<1>2. CrP!Spec => []CrP!TypeOK
  BY <1>1, CrP!TypeCorrect
<1>3. CrP!Spec => []CrP!KeysSpeakForTheirHolder
  BY <1>1, CrP!KeysCorrect
<1> QED BY <1>2, <1>3, CredentialsImplemented, SameCredentials, PTL
        DEF ImplementsCredentials, KeysInv

-----------------------------------------------------------------------------
LEMMA SandboxSteps == KeysInv /\ [Next]_vars => [Sb!Next]_(Sb!vars)
<1> SUFFICES ASSUME KeysInv, Next PROVE [Sb!Next]_(Sb!vars)
  BY VariablesOfTheParts
<1>1. ASSUME NEW r \in Requests, \/ \E k \in Cr!Secrets : Verify(r, k)
                                 \/ Leave(r)
      PROVE  UNCHANGED Sb!vars
  BY <1>1, VariablesOfTheParts DEF Verify, Leave
<1>2. ASSUME NEW r \in Requests, Start(r)
      PROVE  Sb!Next
  <2>1. Caller(r) \in Subjects
    BY <1>2 DEF Start, KeysInv, CrP!TypeOK, CrP!WellFormed, Caller
  <2> QED BY <1>2, <2>1 DEF Start, Sb!Next
<1>3. ASSUME NEW r \in Requests, Handle(r)
      PROVE  Sb!Next
  BY <1>3 DEF Handle, HandlerStep, Sb!Next
<1>4. CASE BackendStep
  BY <1>4 DEF BackendStep, Sb!Next
<1>5. CASE ManagementStep
  BY <1>5, VariablesOfTheParts DEF ManagementStep
<1> QED BY <1>1, <1>2, <1>3, <1>4, <1>5 DEF Next

(* The control plane is a behaviour of module Sandboxes: whatever happens  *)
(* to keys and identities, a native request is a request of a subject, and *)
(* no other step touches the index, the calls or the backend.              *)
THEOREM SandboxesImplemented == Spec => ImplementsSandboxes
<1>1. Init => Sb!Init
  BY DEF Init
<1> QED BY <1>1, KeysCorrect, SandboxSteps, PTL DEF Spec, ImplementsSandboxes, Sb!Spec

CallsInv == SbP!TypeOK /\ (~ReuseIds => SbP!Isolation)

LEMMA CallsCorrect == Spec => []CallsInv
<1>1. SbP!ConstantsAssumption /\ SbP!BackendAssumption
  BY PartsAreWithinTheirAssumptions
<1>2. SbP!Spec => []SbP!TypeOK
  BY <1>1, SbP!TypeCorrect
<1>3. CASE ~ReuseIds
  <2>1. SbP!Spec => []SbP!Isolation
    BY <1>1, <1>3, SbP!IsolationCorrect
  <2> QED BY <1>2, <2>1, SandboxesImplemented, SameSandboxes, PTL
          DEF ImplementsSandboxes, CallsInv
<1>4. CASE ReuseIds
  <2>1. SbP!TypeOK => CallsInv
    BY <1>4 DEF CallsInv
  <2> QED BY <1>2, <2>1, SandboxesImplemented, SameSandboxes, PTL
          DEF ImplementsSandboxes
<1> QED BY <1>3, <1>4

-----------------------------------------------------------------------------
(* What ties the two together: a handler works only between the            *)
(* verification of a key and the answer, and for no other subject than the *)
(* verification found.                                                     *)
Tied(r) == /\ Handling(r) => req[r].pc = "native"
           /\ call[r].who \in {NoOne, req[r].who}
           /\ call[r].pc \in {"call", "reply"} => call[r].who = req[r].who
Linked == \A r \in Requests : Tied(r)

LEMMA OthersStay ==
  ASSUME NEW q \in Requests, Tied(q), call'[q] = call[q],
         req'[q] = req[q] \/ req[q].pc # "native"
  PROVE  Tied(q)'
BY DEF Tied, Handling, Sb!Idle

Calling(q) == call[q].pc \in {"call", "reply"}

(* What the handler of r may make of its call: for the same subject, and   *)
(* waiting for the backend only if it did before.                          *)
Keeps(r) == /\ \A q \in Requests \ {r} : call'[q] = call[q]
            /\ call'[r].who \in {NoOne, call[r].who}
            /\ Calling(r)' => Calling(r) /\ call'[r].who = call[r].who

LEMMA AnsweredKeeps ==
  ASSUME SbP!TypeOK, NEW r \in Requests, Calling(r), NEW status, NEW body, NEW s,
         Sb!Answered(r, status, body, s)
  PROVE  Keeps(r)
<1>1. call \in [Requests -> SbP!ReqType]
  BY DEF SbP!TypeOK
<1>2. call' = [call EXCEPT ![r] = [call[r] EXCEPT !.pc = "reply", !.status = status,
                                                   !.body = body, !.sb = s]]
  BY <1>1 DEF Sb!Answered
<1>3. call'[r].who = call[r].who
  BY <1>1, <1>2 DEF SbP!ReqType
<1> QED BY <1>1, <1>2, <1>3 DEF Keeps, Calling

LEMMA PendingKeeps ==
  ASSUME SbP!TypeOK, NEW r \in Requests, NEW d, Sb!Conclude(r, d)
  PROVE  Keeps(r)
<1> DEFINE q == Sb!Pending(call[r].who, call[r].op, call[r].sb, d)
<1>1. call \in [Requests -> SbP!ReqType]
  BY DEF SbP!TypeOK
<1>2. call' = [call EXCEPT ![r] = q]
  BY DEF Sb!Conclude
<1>3. q.pc = "audit" /\ q.who \in {NoOne, call[r].who}
  <2>1. CASE d = "allow" /\ call[r].op \in KeptOps
    BY <2>1 DEF Sb!Pending, Sb!Idle
  <2>2. CASE ~(d = "allow" /\ call[r].op \in KeptOps)
    <3>1. q = [Sb!Idle EXCEPT !.pc = "audit", !.decision = d]
      BY <2>2 DEF Sb!Pending
    <3> QED BY <3>1 DEF Sb!Idle
  <2> QED BY <2>1, <2>2
<1> QED BY <1>1, <1>2, <1>3 DEF Keeps, Calling

LEMMA FinishKeeps ==
  ASSUME SbP!TypeOK, NEW r \in Requests, Sb!Finish(r)
  PROVE  Keeps(r)
BY DEF Sb!Finish, Sb!Idle, SbP!TypeOK, Keeps, Calling

LEMMA HandlerKeepsCaller ==
  ASSUME SbP!TypeOK, NEW r \in Requests, HandlerStep(r)
  PROVE  Handling(r) /\ Keeps(r)
<1>1. CASE Sb!BackendCreates(r) \/ Sb!BackendServes(r) \/ Sb!BackendRefuses(r)
  BY <1>1, AnsweredKeeps DEF Sb!BackendCreates, Sb!BackendServes, Sb!BackendRefuses,
       Handling, Calling, Sb!Idle
<1>2. CASE Sb!CallFails(r) \/ Sb!Abort(r) \/ Sb!RecordAudit(r)
  BY <1>2, PendingKeeps, FinishKeeps DEF Sb!CallFails, Sb!Abort, Sb!RecordAudit,
       Handling, Sb!Idle
<1>3. CASE Sb!RecordCreated(r) \/ Sb!RecordDeleted(r) \/ Sb!RecordState(r)
           \/ Sb!RecordPayload(r)
  BY <1>3, PendingKeeps DEF Sb!RecordCreated, Sb!RecordDeleted, Sb!RecordState,
       Sb!RecordPayload, Sb!Replied, Handling, Sb!Idle
<1>4. CASE Sb!PassOn(r)
  BY <1>4, PendingKeeps, FinishKeeps DEF Sb!PassOn, Handling, Sb!Idle
<1> QED BY <1>1, <1>2, <1>3, <1>4 DEF HandlerStep

(* The management API leaves native requests alone.                        *)
LEMMA ManagementLeavesNative ==
  ASSUME KeysInv, ManagementStep
  PROVE  /\ UNCHANGED call
         /\ \A q \in Requests : req'[q] = req[q] \/ req[q].pc # "native"
<1>1. req \in [Requests -> CrP!ReqType]
  BY DEF KeysInv, CrP!TypeOK
<1>2. UNCHANGED call
  BY DEF ManagementStep, sandboxVars
<1>3. ASSUME NEW r \in Requests, NEW u \in Subjects, NEW w \in Words, NEW op \in KeyOps,
             NEW c \in CredIds, NEW name \in Names, Cr!AcceptToken(r, u, w, op, c, name)
      PROVE  \A q \in Requests : req'[q] = req[q] \/ req[q].pc # "native"
  BY <1>1, <1>3 DEF Cr!AcceptToken, Cr!Idle
<1>4. ASSUME NEW r \in Requests,
             \/ Cr!CountCredentials(r) \/ Cr!CreateCredential(r)
             \/ Cr!RotateCredential(r) \/ Cr!SetStatus(r) \/ Cr!AdminDisable(r)
             \/ Cr!RecordAudit(r) \/ Cr!Abort(r)
      PROVE  \A q \in Requests : req'[q] = req[q] \/ req[q].pc # "native"
  BY <1>1, <1>4 DEF Cr!CountCredentials, Cr!CreateCredential, Cr!RotateCredential,
       Cr!SetStatus, Cr!AdminDisable, Cr!RecordAudit, Cr!Abort, Cr!Fail, Cr!Conclude
<1>5. ASSUME \/ \E u \in Subjects, w \in Words :
                  Cr!CasdoorSays(u, w) \/ Cr!TokenExpires(u, w) \/ Cr!RefuseToken(u, w)
             \/ \E c \in CredIds : Cr!CredentialExpires(c)
      PROVE  UNCHANGED req
  BY <1>5 DEF Cr!CasdoorSays, Cr!TokenExpires, Cr!RefuseToken, Cr!CredentialExpires
<1> QED BY <1>2, <1>3, <1>4, <1>5 DEF ManagementStep

LEMMA LinkKept ==
  ASSUME KeysInv, CallsInv, Linked, [Next]_vars
  PROVE  Linked'
<1> SUFFICES ASSUME NEW q \in Requests PROVE Tied(q)'
  BY DEF Linked
<1>0. /\ Tied(q)
      /\ req \in [Requests -> CrP!ReqType] /\ call \in [Requests -> SbP!ReqType]
  BY DEF Linked, KeysInv, CrP!TypeOK, CallsInv, SbP!TypeOK
<1>1. CASE UNCHANGED vars
  BY <1>0, <1>1, OthersStay DEF vars
<1>2. ASSUME NEW r \in Requests, NEW k \in Cr!Secrets, Verify(r, k) PROVE Tied(q)'
  <2>1. call' = call /\ req[r].pc = "idle" /\ \A p \in Requests \ {r} : req'[p] = req[p]
    BY <1>0, <1>2 DEF Verify, sandboxVars, Cr!VerifyKey, Cr!Idle
  <2> QED BY <1>0, <2>1, OthersStay
<1>3. ASSUME NEW r \in Requests, Start(r) PROVE Tied(q)'
  <2>1. /\ req' = req /\ req[r].pc = "native"
        /\ \A p \in Requests \ {r} : call'[p] = call[p]
    BY <1>0, <1>3 DEF Start, keyVars, Sb!EnforceQuota, Sb!EnsureOwned, Sb!Forward, Sb!Deny
  <2>2. /\ call'[r].who \in {NoOne, req[r].who}
        /\ Calling(r)' => call'[r].who = req[r].who
    BY <1>0, <1>3 DEF Start, Caller, Sb!EnforceQuota, Sb!EnsureOwned, Sb!Forward, Sb!Deny,
         Sb!Pending, Sb!Idle, Calling
  <2> QED BY <1>0, <2>1, <2>2, OthersStay DEF Tied, Calling
<1>4. ASSUME NEW r \in Requests, Leave(r) PROVE Tied(q)'
  <2>1. /\ call' = call /\ call[r] = Sb!Idle
        /\ \A p \in Requests \ {r} : req'[p] = req[p]
    BY <1>0, <1>4 DEF Leave, Handling, sandboxVars, Cr!Serve
  <2> QED BY <1>0, <2>1, OthersStay DEF Tied, Handling, Sb!Idle
<1>5. ASSUME NEW r \in Requests, Handle(r) PROVE Tied(q)'
  <2>1. /\ \A p \in Requests \ {r} : call'[p] = call[p]
        /\ Handling(r)
        /\ call'[r].who \in {NoOne, call[r].who}
        /\ Calling(r)' => Calling(r) /\ call'[r].who = call[r].who
    BY <1>5, HandlerKeepsCaller DEF Handle, CallsInv, Keeps
  <2>2. \A p \in Requests \ {r} : req'[p] = req[p]
    BY <1>0, <1>5 DEF Handle, keyVars, Cr!Serve
  <2>3. CASE q # r
    BY <1>0, <2>1, <2>2, <2>3, OthersStay
  <2>4. CASE q = r /\ Handling(r)'
    BY <1>0, <1>5, <2>1, <2>4 DEF Handle, keyVars, Tied, Calling
  <2>5. CASE q = r /\ ~Handling(r)'
    BY <2>5 DEF Tied, Handling, Sb!Idle
  <2> QED BY <2>3, <2>4, <2>5
<1>6. CASE BackendStep
  <2>1. call' = call /\ req' = req
    BY <1>6 DEF BackendStep, keyVars, Sb!LateCallLands, Sb!LateCallDropped, Sb!BackendMove
  <2> QED BY <1>0, <2>1, OthersStay
<1>7. CASE ManagementStep
  BY <1>0, <1>7, ManagementLeavesNative, OthersStay
<1> QED BY <1>1, <1>2, <1>3, <1>4, <1>5, <1>6, <1>7 DEF Next

(* A call that stays on the sandbox it was checked for reaches one that    *)
(* the holder of its key made: when the backend gives every id once, for   *)
(* any number of users, keys and requests, through every rotation, timeout *)
(* and crash, and whatever stray calls do at the backend.                  *)
THEOREM KeysReachOwnCorrect ==
  ASSUME ~ReuseIds
  PROVE  Spec => []KeysReachOwnSandboxes
<1>1. Init => Linked
  BY DEF Init, Sb!Init, Cr!Init, Linked, Tied, Handling, Sb!Idle
<1>2. KeysInv /\ CallsInv /\ Linked => KeysReachOwnSandboxes
  <2> SUFFICES ASSUME KeysInv, CallsInv, Linked, NEW r \in Requests
               PROVE  /\ req[r].pc = "native" => call[r].who \in {NoOne, holder[req[r].key]}
                      /\ call[r].pc \in {"call", "reply"} /\ call[r].op \notin {"create", "stray"} =>
                           maker[call[r].sb] = holder[req[r].key]
    BY DEF KeysReachOwnSandboxes
  <2>1. Tied(r)
    BY DEF Linked
  <2>2. req[r].pc = "native" => req[r].who = holder[req[r].key]
    BY DEF KeysInv, CrP!KeysSpeakForTheirHolder
  <2>3. Calling(r) /\ call[r].op \notin {"create", "stray"} =>
          maker[call[r].sb] = call[r].who
    BY DEF CallsInv, SbP!Isolation, SbP!CheckedCallsReachOwnSandboxes, SbP!OnOwnSandbox,
           SbP!Named, SbP!Call, Calling
  <2>4. Calling(r) => Handling(r)
    BY DEF Calling, Handling, Sb!Idle
  <2> QED BY <2>1, <2>2, <2>3, <2>4 DEF Tied, Calling
<1> QED BY <1>1, <1>2, LinkKept, KeysCorrect, CallsCorrect, PTL DEF Spec

-----------------------------------------------------------------------------
(* The limits and the trails of the parts, for the whole.                  *)

LEMMA SameFinite ==
  \A S : /\ IsFiniteSet(S) <=> SbP!IsFiniteSet(S)
         /\ IsFiniteSet(S) <=> CrP!IsFiniteSet(S)
BY DEF IsFiniteSet, SbP!IsFiniteSet, CrP!IsFiniteSet

(* However keys are issued, rotated and withdrawn meanwhile, concurrent    *)
(* requests push no user further past the limit on running sandboxes       *)
(* (revived rows aside), nor (as long as nobody rotates) past the limit on *)
(* active credentials, than one for each of them.                          *)
THEOREM LimitsInherited ==
  ASSUME IsFiniteSet(Requests), Requests # {}
  PROVE  Spec => [](Sb!QuotaOvershootBounded /\ Cr!OvershootBounded)
<1>1. /\ SbP!ConstantsAssumption /\ SbP!BackendAssumption
      /\ CrP!CredentialsAssumption
  BY PartsAreWithinTheirAssumptions
<1>2. SbP!IsFiniteSet(Requests) /\ CrP!IsFiniteSet(Requests)
  BY SameFinite
<1>3. SbP!Spec => []SbP!QuotaOvershootBounded
  BY <1>1, <1>2, SbP!OvershootCorrect
<1>4. CrP!Spec => []CrP!OvershootBounded
  BY <1>1, <1>2, CrP!KeyLimitCorrect
<1>5. SbP!QuotaOvershootBounded => Sb!QuotaOvershootBounded
  BY SameCounts
     DEF Sb!QuotaOvershootBounded, SbP!QuotaOvershootBounded,
         Sb!ActiveRows, SbP!ActiveRows, Sb!ActiveStates, SbP!ActiveStates
<1>6. CrP!OvershootBounded => Cr!OvershootBounded
  BY SameCounts
     DEF Cr!OvershootBounded, CrP!OvershootBounded, Cr!CountActive, CrP!CountActive,
         Cr!Live, CrP!Live
<1> QED BY <1>3, <1>4, <1>5, <1>6, SandboxesImplemented, CredentialsImplemented,
           SameSandboxes, SameCredentials, PTL
        DEF ImplementsSandboxes, ImplementsCredentials

(* Both trails tell the truth about the tables they are kept beside.       *)
THEOREM TrailsInherited == Spec => [](Sb!AuditTruth /\ Cr!AuditNamesTheOwner)
<1>1. /\ SbP!ConstantsAssumption /\ SbP!BackendAssumption
      /\ CrP!CredentialsAssumption
  BY PartsAreWithinTheirAssumptions
<1>2. SbP!Spec => []SbP!AuditTruth
  BY <1>1, SbP!AuditCorrect
<1>3. CrP!Spec => []CrP!AuditNamesTheOwner
  BY <1>1, CrP!AuditCorrect
<1>4. SbP!AuditTruth => Sb!AuditTruth
  BY DEF Sb!AuditTruth, SbP!AuditTruth, Sb!TruthOf, SbP!TruthOf
<1>5. CrP!AuditNamesTheOwner => Cr!AuditNamesTheOwner
  BY DEF Cr!AuditNamesTheOwner, CrP!AuditNamesTheOwner, Cr!NoCred, CrP!NoCred
<1> QED BY <1>2, <1>3, <1>4, <1>5, SandboxesImplemented, CredentialsImplemented,
           SameSandboxes, SameCredentials, PTL
        DEF ImplementsSandboxes, ImplementsCredentials

(* The control plane keeps what modules Registry and Keyring promise to    *)
(* the readers of its tables and to the holders of its keys.               *)
THEOREM PromisesInherited == Spec => SbP!ImplementsRegistry /\ CrP!ImplementsKeyring
<1>1. SbP!Spec => SbP!ImplementsRegistry
  BY PartsAreWithinTheirAssumptions, SbP!RegistryImplemented
<1>2. CrP!Spec => CrP!ImplementsKeyring
  BY PartsAreWithinTheirAssumptions, CrP!KeyringImplemented
<1> QED BY <1>1, <1>2, SandboxesImplemented, CredentialsImplemented,
           SameSandboxes, SameCredentials
        DEF ImplementsSandboxes, ImplementsCredentials
=============================================================================
