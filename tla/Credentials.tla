----------------------------- MODULE Credentials -----------------------------
(***************************************************************************)
(* Who may call: the users Casdoor knows, the identities the control plane *)
(* keeps of them (api/dependencies.py, users/repository.py), the cloud     *)
(* sandbox credentials they issue, rotate, disable and revoke              *)
(* (credentials/service.py, credentials/repository.py, and the handlers of *)
(* api/management/credentials.py and admin.py), and the check of a key on  *)
(* every native call.                                                      *)
(*                                                                         *)
(* A token is Casdoor's word about a user at the time it was issued, and   *)
(* is good until it expires.  A handler of the management API works in up  *)
(* to four transactions: it stores the identity the token tells, reads,    *)
(* writes the credential, and writes the audit event.                      *)
(***************************************************************************)
EXTENDS Naturals, FiniteSets

CONSTANTS
  Requests,  \* the requests that can be in progress at once
  Subjects,  \* the users
  CredIds,   \* the ids of credentials
  Names,     \* the names users give them
  NoOne,     \* no user
  NoCredId,  \* no credential
  MaxKeys,   \* credential_max_keys_per_user
  MaxSecret, \* bound: keys ever generated
  Ops,       \* the operations the clients call
  Words      \* what Casdoor can say of a user: pairs of status and role

AllOps == {"issue", "rotate", "disable", "revoke", "adminDisable"}
AllWords == [status : {"active", "disabled", "deleted"},
             role : {"none", "agent", "admin"}]

ASSUME CredentialsAssumption ==
  /\ NoOne \notin Subjects
  /\ NoCredId \notin CredIds
  /\ MaxKeys \in Nat /\ MaxSecret \in Nat
  /\ Ops \subseteq AllOps
  /\ Words \subseteq AllWords

VARIABLES
  tokens,    \* Casdoor's: the words of each user's tokens that are still good
  identity,  \* the user_identities table
  cred,      \* the cloud_sandbox_credentials table
  req,       \* what the handler of each request is doing
  holder,    \* history: the user each generated key was shown to
  audit,     \* the audit events of changes to credentials
  refused    \* history: the users last told 403 for not being active

vars == <<tokens, identity, cred, req, holder, audit, refused>>

Secrets == 1 .. MaxSecret
NoIdentity == [status |-> "none", role |-> "none"]
NoCred == [owner |-> NoOne, name |-> "none", status |-> "none", key |-> 0,
           expired |-> FALSE]
Idle == [pc |-> "idle", op |-> "none", who |-> NoOne, on |-> NoCredId,
         name |-> "none", key |-> 0]

-----------------------------------------------------------------------------
(* Casdoor, external: it changes its mind about a user, and old tokens     *)
(* expire.                                                                 *)

Welcome(w) == w.status = "active" /\ w.role \in {"agent", "admin"}

CasdoorSays(u, w) ==
  /\ tokens' = [tokens EXCEPT ![u] = @ \cup {w}]
  /\ UNCHANGED <<identity, cred, req, holder, audit, refused>>

TokenExpires(u, w) ==
  /\ w \in tokens[u]
  /\ tokens' = [tokens EXCEPT ![u] = @ \ {w}]
  /\ UNCHANGED <<identity, cred, req, holder, audit, refused>>

-----------------------------------------------------------------------------
(* The management API.                                                     *)

(* Mutant: the user's role not looked at.                                  *)
Admits_AnyRole(w) == w.status = "active"

(* Which tokens get_current_principal lets in.                             *)
Admits(w) == Welcome(w)

(* A token that is refused leaves the stored identity as it was.           *)
RefuseToken(u, w) ==
  /\ w \in tokens[u]
  /\ w.status # "active"
  /\ refused' = refused \cup {u}
  /\ UNCHANGED <<tokens, identity, cred, req, holder, audit>>

UpsertIdentity(u, w) == identity' = [identity EXCEPT ![u] = w]

(* require_platform_admin.                                                 *)
Authorized(op, w) == op = "adminDisable" => w.role = "admin"

(* get_current_principal stores what the token says, then the handler goes *)
(* on with it, if it may.                                                  *)
AcceptToken(r, u, w, op, c, name) ==
  /\ req[r] = Idle
  /\ w \in tokens[u] /\ Admits(w)
  /\ UpsertIdentity(u, w)
  /\ refused' = refused \ {u}
  /\ IF Authorized(op, w)
     THEN req' = [req EXCEPT ![r] = [pc |-> "signed", op |-> op, who |-> u,
                     on |-> IF op = "issue" THEN NoCredId ELSE c,
                     name |-> IF op = "issue" THEN name ELSE "none", key |-> 0]]
     ELSE UNCHANGED req
  /\ UNCHANGED <<tokens, cred, holder, audit>>

Live(c) == cred[c].status = "active" /\ ~cred[c].expired
CountActive(u) == Cardinality({c \in CredIds : cred[c].owner = u /\ Live(c)})

(* A failure is audited too; the model keeps the events of changes only.   *)
Fail(r) == req' = [req EXCEPT ![r] = Idle]
Conclude(r, c) == req' = [req EXCEPT ![r].pc = "audit", ![r].on = c, ![r].name = "none"]

(* Mutant: the limit compared with the wrong sign.                         *)
BelowLimit_OffByOne(u) == CountActive(u) <= MaxKeys

BelowLimit(u) == CountActive(u) < MaxKeys

CountCredentials(r) ==
  /\ req[r].pc = "signed" /\ req[r].op = "issue"
  /\ IF BelowLimit(req[r].who) THEN req' = [req EXCEPT ![r].pc = "counted"]
                               ELSE Fail(r)
  /\ UNCHANGED <<tokens, identity, cred, holder, audit, refused>>

(* A generated key is new; it is shown once, to the user who asked.        *)
Generate(u, k) == /\ holder[k] = NoOne
                  /\ \A j \in 1 .. (k - 1) : holder[j] # NoOne
                  /\ holder' = [holder EXCEPT ![k] = u]

NameTaken(u, name) == \E c \in CredIds : cred[c].owner = u /\ cred[c].name = name

NewCred(u, name, k) == [owner |-> u, name |-> name, status |-> "active",
                        key |-> k, expired |-> FALSE]

CreateCredential(r) ==
  LET u == req[r].who
      name == req[r].name
  IN /\ req[r].pc = "counted"
     /\ \/ /\ NameTaken(u, name)
           /\ Fail(r)
           /\ UNCHANGED <<cred, holder>>
        \/ /\ ~NameTaken(u, name)
           /\ \E c \in CredIds, k \in Secrets :
                /\ cred[c] = NoCred
                /\ Generate(u, k)
                /\ cred' = [cred EXCEPT ![c] = NewCred(u, name, k)]
                /\ Conclude(r, c)
     /\ UNCHANGED <<tokens, identity, audit, refused>>

(* Mutant: the credential looked up by its id alone.                       *)
Owned_ById(r) == cred[req[r].on] # NoCred

Owned(r) == cred[req[r].on].owner = req[r].who

(* Mutant: the credential made active again with the key it had.           *)
RotateCredential_KeepsKey(r) ==
  /\ req[r].pc = "signed" /\ req[r].op = "rotate"
  /\ \/ /\ Owned(r)
        /\ cred' = [cred EXCEPT ![req[r].on].status = "active"]
        /\ UNCHANGED holder
        /\ Conclude(r, req[r].on)
     \/ ~Owned(r) /\ Fail(r) /\ UNCHANGED <<cred, holder>>
  /\ UNCHANGED <<tokens, identity, audit, refused>>

(* A new key, and the credential is active whatever it was before.         *)
UpdateSecret(c, k) == cred' = [cred EXCEPT ![c].status = "active", ![c].key = k]

RotateCredential(r) ==
  /\ req[r].pc = "signed" /\ req[r].op = "rotate"
  /\ \/ /\ Owned(r)
        /\ \E k \in Secrets : /\ Generate(req[r].who, k)
                              /\ UpdateSecret(req[r].on, k)
        /\ Conclude(r, req[r].on)
     \/ ~Owned(r) /\ Fail(r) /\ UNCHANGED <<cred, holder>>
  /\ UNCHANGED <<tokens, identity, audit, refused>>

StatusAfter(op) == IF op = "revoke" THEN "revoked" ELSE "disabled"
UpdateStatus(c, status) == cred' = [cred EXCEPT ![c].status = status]

SetStatus(r) ==
  /\ req[r].pc = "signed" /\ req[r].op \in {"disable", "revoke"}
  /\ \/ /\ Owned(r)
        /\ UpdateStatus(req[r].on, StatusAfter(req[r].op))
        /\ Conclude(r, req[r].on)
     \/ ~Owned(r) /\ Fail(r) /\ UNCHANGED cred
  /\ UNCHANGED <<tokens, identity, holder, audit, refused>>

(* An administrator's disable: anybody's credential, and no audit event.   *)
AdminDisable(r) ==
  LET c == req[r].on
  IN /\ req[r].pc = "signed" /\ req[r].op = "adminDisable"
     /\ IF cred[c] = NoCred THEN UNCHANGED cred ELSE UpdateStatus(c, "disabled")
     /\ req' = [req EXCEPT ![r] = Idle]
     /\ UNCHANGED <<tokens, identity, holder, audit, refused>>

Event(r) == [who |-> req[r].who, op |-> req[r].op, on |-> req[r].on]

(* Best effort: an event that cannot be written is dropped.                *)
RecordAudit(r) ==
  /\ req[r].pc = "audit"
  /\ audit' = audit \cup {Event(r)} \/ UNCHANGED audit
  /\ req' = [req EXCEPT ![r] = Idle]
  /\ UNCHANGED <<tokens, identity, cred, holder, refused>>

-----------------------------------------------------------------------------
(* The native API: a key becomes a principal.                              *)

WithKey(k) == {c \in CredIds : cred[c].key = k}

(* Mutant: the user looked at, the credential not.                         *)
ValidCredential_AnyStatus(c) == Welcome(identity[cred[c].owner])

ValidCredential(c) == Live(c) /\ Welcome(identity[cred[c].owner])

(* verify_cloud_sandbox_credential: one statement reads the credential and *)
(* its owner; the handler goes on as that owner.                           *)
VerifyKey(r, k) ==
  /\ req[r] = Idle
  /\ \E c \in WithKey(k) :
       /\ ValidCredential(c)
       /\ req' = [req EXCEPT ![r] = [Idle EXCEPT !.pc = "native", !.key = k,
                                                 !.who = cred[c].owner, !.on = c]]
  /\ UNCHANGED <<tokens, identity, cred, holder, audit, refused>>

Serve(r) ==
  /\ req[r].pc = "native"
  /\ req' = [req EXCEPT ![r] = Idle]
  /\ UNCHANGED <<tokens, identity, cred, holder, audit, refused>>

-----------------------------------------------------------------------------
(* Time passes, and handlers die between two transactions.                 *)

CredentialExpires(c) ==
  /\ cred[c] # NoCred
  /\ cred' = [cred EXCEPT ![c].expired = TRUE]
  /\ UNCHANGED <<tokens, identity, req, holder, audit, refused>>

Abort(r) ==
  /\ req[r].pc \in {"signed", "counted", "audit"}
  /\ req' = [req EXCEPT ![r] = Idle]
  /\ UNCHANGED <<tokens, identity, cred, holder, audit, refused>>

-----------------------------------------------------------------------------
Init ==
  /\ tokens = [u \in Subjects |-> {}]
  /\ identity = [u \in Subjects |-> NoIdentity]
  /\ cred = [c \in CredIds |-> NoCred]
  /\ req = [r \in Requests |-> Idle]
  /\ holder = [k \in Secrets |-> NoOne]
  /\ audit = {}
  /\ refused = {}

Next ==
  \/ \E u \in Subjects, w \in Words :
       \/ CasdoorSays(u, w)
       \/ TokenExpires(u, w)
       \/ RefuseToken(u, w)
       \/ \E r \in Requests, op \in Ops, c \in CredIds, name \in Names :
            AcceptToken(r, u, w, op, c, name)
  \/ \E r \in Requests :
       \/ CountCredentials(r)
       \/ CreateCredential(r)
       \/ RotateCredential(r)
       \/ SetStatus(r)
       \/ AdminDisable(r)
       \/ RecordAudit(r)
       \/ \E k \in Secrets : VerifyKey(r, k)
       \/ Serve(r)
       \/ Abort(r)
  \/ \E c \in CredIds : CredentialExpires(c)

Spec == Init /\ [][Next]_vars

-----------------------------------------------------------------------------
(* Properties.                                                             *)

Identities == {w \in AllWords : Welcome(w)} \cup {NoIdentity}
Creds == [owner : Subjects, name : Names, key : Secrets, expired : BOOLEAN,
          status : {"active", "disabled", "revoked", "expired"}]
ReqType == [pc : {"idle", "signed", "counted", "audit", "native"},
            op : AllOps \cup {"none"}, who : Subjects \cup {NoOne},
            on : CredIds \cup {NoCredId}, name : Names \cup {"none"},
            key : Secrets \cup {0}]
EventType == [who : Subjects, op : AllOps, on : CredIds]

(* What a handler needs to have at hand, by how far it is.                 *)
WellFormed(q) ==
  /\ q.pc # "idle" => q.who \in Subjects
  /\ q.pc \in {"signed", "audit"} => q.op \in AllOps
  /\ q.pc \in {"signed", "counted"} /\ q.op = "issue" => q.name \in Names
  /\ q.pc = "counted" => q.op = "issue"
  /\ q.pc = "signed" /\ q.op # "issue" => q.on \in CredIds
  /\ q.pc = "audit" => q.on \in CredIds
  /\ q.pc = "native" => q.key \in Secrets

(* Every variable holds what the code, and the table's own checks, let it  *)
(* store: in particular no identity is stored that would not be welcome.   *)
TypeOK ==
  /\ tokens \in [Subjects -> SUBSET AllWords]
  /\ identity \in [Subjects -> Identities]
  /\ cred \in [CredIds -> Creds \cup {NoCred}]
  /\ holder \in [Secrets -> Subjects \cup {NoOne}]
  /\ req \in [Requests -> ReqType]
  /\ \A r \in Requests : WellFormed(req[r])
  /\ audit \subseteq EventType
  /\ refused \subseteq Subjects

(* A key speaks for nobody but the user it was shown to, through every     *)
(* rotation: rows and the calls in progress agree with who holds the key.  *)
KeysSpeakForTheirHolder ==
  /\ \A c \in CredIds : cred[c] # NoCred => cred[c].owner = holder[cred[c].key]
  /\ \A r \in Requests : req[r].pc = "native" => req[r].who = holder[req[r].key]

(* A key that stopped working, because its credential was rotated,         *)
(* disabled, revoked or expired, never works again, whatever happens to    *)
(* the credential afterwards.                                              *)
Works(k) == \E c \in CredIds : cred[c].key = k /\ Live(c)
DeadKeysStayDead ==
  [][\A k \in Secrets : holder[k] # NoOne /\ ~Works(k) => ~Works(k)']_vars

(* The keys, as those who hold them see them, behave as module Keyring     *)
(* says: every step of every handler shows one key, replaces one, ends     *)
(* one, opens or closes one call, or changes none of this.                 *)
Ring == INSTANCE Keyring WITH
          working <- {k \in Secrets : Works(k)},
          caller  <- [r \in Requests |-> IF req[r].pc = "native" THEN req[r].who ELSE NoOne]
ImplementsKeyring == Ring!Spec

(* The trail of changes names, for each credential, its owner: no event of *)
(* a change by somebody else is ever written.                              *)
AuditNamesTheOwner ==
  \A e \in audit : cred[e.on] # NoCred /\ cred[e.on].owner = e.who

(* How far concurrent requests can push a user past the limit on active    *)
(* credentials, as long as nobody rotates: each other issue in progress    *)
(* adds at most one.                                                       *)
OvershootBounded ==
  "rotate" \in Ops \/
    \A u \in Subjects : CountActive(u) < MaxKeys + Cardinality(Requests)

(* What the documents promise and the code does not keep.                  *)

(* A user has at most MaxKeys active credentials (rotating a disabled one  *)
(* makes it active and counts nothing).                                    *)
LimitRespected == \A u \in Subjects : CountActive(u) <= MaxKeys

(* A user the control plane itself has just told that he is not active is  *)
(* not let in by his keys either (the refusal is not stored).              *)
RefusedUsersStayOut ==
  [][\A r \in Requests :
       req[r].pc # "native" /\ req'[r].pc = "native" => req'[r].who \notin refused]_vars
=============================================================================
