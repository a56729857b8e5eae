--------------------------- MODULE CredentialsProofs ---------------------------
(***************************************************************************)
(* What module Credentials guarantees for any number of requests, users,   *)
(* credentials and keys.                                                   *)
(***************************************************************************)
EXTENDS Credentials, FiniteSetTheorems, TLAPS

(* The inductive invariant.  The owner a handler found is used again when  *)
(* it writes the audit event, in a later transaction.                      *)
PendingEventsNameTheOwner ==
  \A r \in Requests : req[r].pc = "audit" => /\ cred[req[r].on] # NoCred
                                             /\ cred[req[r].on].owner = req[r].who

CredInv == /\ TypeOK
           /\ KeysSpeakForTheirHolder
           /\ PendingEventsNameTheOwner
           /\ AuditNamesTheOwner

(* What no step undoes: a key keeps its holder, a credential its owner,    *)
(* and a dead key is dead.                                                 *)
HoldersStay == \A k \in Secrets : holder[k] # NoOne => holder'[k] = holder[k]
OwnersStay == \A c \in CredIds : cred[c] # NoCred => /\ cred'[c] # NoCred
                                                     /\ cred'[c].owner = cred[c].owner
DeadStay == \A k \in Secrets : holder[k] # NoOne /\ ~Works(k) => ~Works(k)'
Lasting == HoldersStay /\ OwnersStay /\ DeadStay

Others(r) == \A q \in Requests : q # r => req'[q] = req[q]

LEMMA Basics ==
  /\ Idle \in ReqType /\ WellFormed(Idle) /\ Idle.pc = "idle"
  /\ NoCred.owner = NoOne /\ NoCred.key = 0 /\ NoCred.status = "none"
  /\ 0 \notin Secrets
  /\ \A c \in Creds : c.owner \in Subjects /\ c # NoCred
BY CredentialsAssumption DEF Idle, ReqType, WellFormed, NoCred, Secrets, Creds

(* A step of one handler, reduced to what it does to its own request.      *)
LEMMA Frame ==
  ASSUME CredInv, Lasting, NEW r \in Requests, NEW q \in ReqType,
         req' = [req EXCEPT ![r] = q], WellFormed(q),
         tokens' \in [Subjects -> SUBSET AllWords],
         identity' \in [Subjects -> Identities],
         cred' \in [CredIds -> Creds \cup {NoCred}],
         holder' \in [Secrets -> Subjects \cup {NoOne}],
         audit' \subseteq EventType, refused' \subseteq Subjects,
         \A c \in CredIds : cred'[c] # NoCred => cred'[c].owner = holder'[cred'[c].key],
         q.pc = "native" => q.who = holder[q.key],
         q.pc = "audit" => cred'[q.on] # NoCred /\ cred'[q.on].owner = q.who,
         \A e \in audit' : e \in audit \/ (req[r].pc = "audit" /\ e = Event(r))
  PROVE  CredInv'
<1>1. req'[r] = q /\ (\A p \in Requests : p # r => req'[p] = req[p])
      /\ req' \in [Requests -> ReqType]
  BY DEF CredInv, TypeOK
<1>2. TypeOK'
  <2>1. \A p \in Requests : WellFormed(req'[p])
    BY <1>1 DEF CredInv, TypeOK
  <2> QED BY <1>1, <2>1 DEF TypeOK
<1>3. KeysSpeakForTheirHolder'
  <2> SUFFICES ASSUME NEW p \in Requests, req'[p].pc = "native"
               PROVE  req'[p].who = holder'[req'[p].key]
    BY DEF KeysSpeakForTheirHolder
  <2>1. /\ req'[p].who = holder[req'[p].key]
        /\ req'[p].who \in Subjects /\ req'[p].key \in Secrets
    BY <1>1 DEF CredInv, TypeOK, KeysSpeakForTheirHolder, WellFormed
  <2> QED BY <2>1, CredentialsAssumption DEF Lasting, HoldersStay
<1>4. PendingEventsNameTheOwner'
  <2> SUFFICES ASSUME NEW p \in Requests, req'[p].pc = "audit"
               PROVE  cred'[req'[p].on] # NoCred /\ cred'[req'[p].on].owner = req'[p].who
    BY DEF PendingEventsNameTheOwner
  <2>1. CASE p = r
    BY <1>1, <2>1
  <2>2. CASE p # r
    BY <1>1, <2>2 DEF CredInv, TypeOK, WellFormed, PendingEventsNameTheOwner, Lasting, OwnersStay
  <2> QED BY <2>1, <2>2
<1>5. AuditNamesTheOwner'
  <2> SUFFICES ASSUME NEW e \in audit'
               PROVE  cred'[e.on] # NoCred /\ cred'[e.on].owner = e.who
    BY DEF AuditNamesTheOwner
  <2>1. e.on \in CredIds
    BY DEF EventType
  <2>2. cred[e.on] # NoCred /\ cred[e.on].owner = e.who
    BY DEF CredInv, AuditNamesTheOwner, PendingEventsNameTheOwner, Event
  <2> QED BY <2>1, <2>2 DEF Lasting, OwnersStay
<1> QED BY <1>2, <1>3, <1>4, <1>5 DEF CredInv

Keeps == CredInv' /\ DeadStay

-----------------------------------------------------------------------------
(* Lasting, for each way a step can change the table of credentials.       *)

LEMMA TableUntouched ==
  ASSUME UNCHANGED <<cred, holder>>
  PROVE  Lasting
BY DEF Lasting, HoldersStay, OwnersStay, DeadStay, Works, Live

(* A credential that keeps its key and its owner and is not brought back.  *)
LEMMA StatusChanged ==
  ASSUME CredInv, UNCHANGED holder, NEW c \in CredIds, NEW w \in Creds,
         cred[c] # NoCred, cred' = [cred EXCEPT ![c] = w],
         w.owner = cred[c].owner, w.key = cred[c].key,
         w.status = "active" /\ ~w.expired => Live(c)
  PROVE  /\ Lasting /\ cred' \in [CredIds -> Creds \cup {NoCred}]
         /\ \A d \in CredIds : cred'[d] # NoCred => cred'[d].owner = holder'[cred'[d].key]
<1>1. cred'[c] = w /\ \A d \in CredIds : d # c => cred'[d] = cred[d]
  BY DEF CredInv, TypeOK
<1>2. cred' \in [CredIds -> Creds \cup {NoCred}]
  BY <1>1 DEF CredInv, TypeOK
<1>3. HoldersStay /\ OwnersStay
  BY <1>1, Basics DEF HoldersStay, OwnersStay
<1>4. DeadStay
  <2> SUFFICES ASSUME NEW k \in Secrets, NEW d \in CredIds, cred'[d].key = k,
                      cred'[d].status = "active", ~cred'[d].expired
               PROVE  cred[d].key = k /\ Live(d)
    BY DEF DeadStay, Works, Live
  <2>1. CASE d = c
    BY <1>1, <2>1
  <2>2. CASE d # c
    BY <1>1, <2>2 DEF Live
  <2> QED BY <2>1, <2>2
<1>5. \A d \in CredIds : cred'[d] # NoCred => cred'[d].owner = holder'[cred'[d].key]
  BY <1>1 DEF CredInv, KeysSpeakForTheirHolder
<1> QED BY <1>2, <1>3, <1>4, <1>5 DEF Lasting

(* A credential that gets a new key.                                       *)
LEMMA KeyGenerated ==
  ASSUME CredInv, NEW u \in Subjects, NEW k \in Secrets, Generate(u, k),
         NEW c \in CredIds, NEW w \in Creds, cred' = [cred EXCEPT ![c] = w],
         w.owner = u, w.key = k, cred[c] = NoCred \/ cred[c].owner = u
  PROVE  /\ Lasting /\ cred' \in [CredIds -> Creds \cup {NoCred}]
         /\ holder' \in [Secrets -> Subjects \cup {NoOne}]
         /\ \A d \in CredIds : cred'[d] # NoCred => cred'[d].owner = holder'[cred'[d].key]
         /\ cred'[c] = w
<1>1. cred'[c] = w /\ \A d \in CredIds : d # c => cred'[d] = cred[d]
  BY DEF CredInv, TypeOK
<1>2. /\ holder[k] = NoOne /\ holder'[k] = u
      /\ \A j \in Secrets : j # k => holder'[j] = holder[j]
      /\ holder' \in [Secrets -> Subjects \cup {NoOne}]
  BY DEF Generate, CredInv, TypeOK
<1>3. cred' \in [CredIds -> Creds \cup {NoCred}]
  BY <1>1 DEF CredInv, TypeOK
<1>4. HoldersStay /\ OwnersStay
  BY <1>1, <1>2, Basics DEF HoldersStay, OwnersStay
<1>5. DeadStay
  <2> SUFFICES ASSUME NEW j \in Secrets, holder[j] # NoOne, NEW d \in CredIds, cred'[d].key = j,
                      cred'[d].status = "active", ~cred'[d].expired
               PROVE  cred[d].key = j /\ Live(d)
    BY DEF DeadStay, Works, Live
  <2>1. d # c
    BY <1>1, <1>2
  <2> QED BY <1>1, <2>1 DEF Live
<1>6. ASSUME NEW d \in CredIds, cred'[d] # NoCred
      PROVE  cred'[d].owner = holder'[cred'[d].key]
  <2>1. CASE d = c
    BY <1>1, <1>2, <2>1
  <2>2. CASE d # c
    <3>1. cred[d] # NoCred /\ cred[d].owner = holder[cred[d].key] /\ cred[d] \in Creds
      BY <1>1, <1>6, <2>2 DEF CredInv, TypeOK, KeysSpeakForTheirHolder
    <3>2. cred[d].key \in Secrets /\ cred[d].key # k
      BY <1>2, <3>1, Basics, CredentialsAssumption DEF Creds
    <3> QED BY <1>1, <1>2, <2>2, <3>1, <3>2
  <2> QED BY <2>1, <2>2
<1> QED BY <1>1, <1>2, <1>3, <1>4, <1>5, <1>6 DEF Lasting

-----------------------------------------------------------------------------
(* Each action in turn.                                                    *)

LEMMA CasdoorKeeps ==
  ASSUME CredInv, NEW u \in Subjects, NEW w \in Words,
         CasdoorSays(u, w) \/ TokenExpires(u, w) \/ RefuseToken(u, w)
  PROVE  Keeps
<1>1. UNCHANGED <<identity, cred, req, holder, audit>>
  BY DEF CasdoorSays, TokenExpires, RefuseToken
<1>2. w \in AllWords
  BY CredentialsAssumption
<1>3. tokens' \in [Subjects -> SUBSET AllWords] /\ refused' \subseteq Subjects
  BY <1>2 DEF CasdoorSays, TokenExpires, RefuseToken, CredInv, TypeOK
<1>4. DeadStay
  BY <1>1, TableUntouched DEF Lasting
<1> QED BY <1>1, <1>3, <1>4 DEF Keeps, CredInv, TypeOK, KeysSpeakForTheirHolder,
           PendingEventsNameTheOwner, AuditNamesTheOwner

(* A step of a handler that leaves both tables of keys alone.              *)
LEMMA RequestOnly ==
  ASSUME CredInv, NEW r \in Requests, NEW q \in ReqType,
         req' = [req EXCEPT ![r] = q], WellFormed(q),
         UNCHANGED <<tokens, cred, holder>>,
         identity' \in [Subjects -> Identities], refused' \subseteq Subjects,
         audit' \subseteq EventType,
         q.pc = "native" => q.who = holder[q.key],
         q.pc # "audit",
         \A e \in audit' : e \in audit \/ (req[r].pc = "audit" /\ e = Event(r))
  PROVE  Keeps
<1>1. Lasting
  BY TableUntouched
<1>2. \A c \in CredIds : cred'[c] # NoCred => cred'[c].owner = holder'[cred'[c].key]
  BY DEF CredInv, KeysSpeakForTheirHolder
<1>3. /\ tokens' \in [Subjects -> SUBSET AllWords]
      /\ cred' \in [CredIds -> Creds \cup {NoCred}]
      /\ holder' \in [Secrets -> Subjects \cup {NoOne}]
  BY DEF CredInv, TypeOK
<1> QED BY <1>1, <1>2, <1>3, Frame DEF Keeps, Lasting

LEMMA AcceptTokenKeeps ==
  ASSUME CredInv, NEW r \in Requests, NEW u \in Subjects, NEW w \in Words, NEW op \in Ops,
         NEW c \in CredIds, NEW name \in Names, AcceptToken(r, u, w, op, c, name)
  PROVE  Keeps
<1> DEFINE new == [pc |-> "signed", op |-> op, who |-> u,
                   on |-> IF op = "issue" THEN NoCredId ELSE c,
                   name |-> IF op = "issue" THEN name ELSE "none", key |-> 0]
<1>1. /\ UNCHANGED <<tokens, cred, holder, audit>>
      /\ identity' = [identity EXCEPT ![u] = w] /\ refused' = refused \ {u}
      /\ req' = [req EXCEPT ![r] = new] \/ req' = req
      /\ req[r] = Idle
  BY DEF AcceptToken, UpsertIdentity
<1>2. w \in Identities
  BY CredentialsAssumption DEF AcceptToken, Admits, Identities
<1>3. identity' \in [Subjects -> Identities] /\ refused' \subseteq Subjects /\ audit' \subseteq EventType
  BY <1>1, <1>2 DEF CredInv, TypeOK
<1>4. op \in AllOps
  BY CredentialsAssumption
<1>5. new \in ReqType /\ WellFormed(new) /\ new.pc = "signed"
  BY <1>4, CredentialsAssumption DEF ReqType, WellFormed
<1>6. CASE req' = [req EXCEPT ![r] = new]
  <2> HIDE DEF new
  <2> QED BY <1>1, <1>3, <1>5, <1>6, RequestOnly
<1>7. CASE req' = req
  <2>1. req' = [req EXCEPT ![r] = Idle]
    BY <1>1, <1>7 DEF CredInv, TypeOK
  <2> QED BY <1>1, <1>3, <2>1, Basics, RequestOnly
<1> QED BY <1>1, <1>6, <1>7

LEMMA CountCredentialsKeeps ==
  ASSUME CredInv, NEW r \in Requests, CountCredentials(r)
  PROVE  Keeps
<1>1. /\ UNCHANGED <<tokens, identity, cred, holder, audit, refused>>
      /\ req[r].pc = "signed" /\ req[r].op = "issue"
      /\ req' = [req EXCEPT ![r].pc = "counted"] \/ req' = [req EXCEPT ![r] = Idle]
  BY DEF CountCredentials, Fail
<1>2. req[r] \in ReqType /\ WellFormed(req[r])
  BY DEF CredInv, TypeOK
<1>3. /\ identity' \in [Subjects -> Identities] /\ refused' \subseteq Subjects
      /\ audit' \subseteq EventType
  BY <1>1 DEF CredInv, TypeOK
<1>4. CASE req' = [req EXCEPT ![r].pc = "counted"]
  <2>1. PICK q : q = [req[r] EXCEPT !.pc = "counted"]
    OBVIOUS
  <2>2. req' = [req EXCEPT ![r] = q]
    BY <1>4, <2>1 DEF CredInv, TypeOK
  <2>3. q \in ReqType /\ q.pc = "counted" /\ WellFormed(q)
    BY <1>1, <1>2, <2>1 DEF ReqType, WellFormed
  <2> QED BY <1>1, <1>3, <2>2, <2>3, RequestOnly
<1>5. CASE req' = [req EXCEPT ![r] = Idle]
  BY <1>1, <1>3, <1>5, Basics, RequestOnly
<1> QED BY <1>1, <1>4, <1>5

(* The handlers that give up, end, or serve a native call.                 *)
LEMMA EndKeeps ==
  ASSUME CredInv, NEW r \in Requests, req' = [req EXCEPT ![r] = Idle],
         UNCHANGED <<tokens, identity, cred, holder, refused>>,
         \/ audit' = audit
         \/ req[r].pc = "audit" /\ audit' = audit \cup {Event(r)}
  PROVE  Keeps
<1>1. req[r].pc = "audit" => Event(r) \in EventType
  BY DEF CredInv, TypeOK, WellFormed, Event, EventType
<1>2. /\ identity' \in [Subjects -> Identities] /\ refused' \subseteq Subjects
      /\ audit' \subseteq EventType
  BY <1>1 DEF CredInv, TypeOK
<1> QED BY <1>2, Basics, RequestOnly

(* What Conclude leaves behind.                                            *)
LEMMA ConcludeReq ==
  ASSUME CredInv, NEW r \in Requests, NEW c \in CredIds, Conclude(r, c),
         req[r].pc \in {"signed", "counted"}
  PROVE  \E q \in ReqType :
           /\ req' = [req EXCEPT ![r] = q] /\ WellFormed(q)
           /\ q.pc = "audit" /\ q.on = c /\ q.who = req[r].who
<1>1. req[r] \in ReqType /\ WellFormed(req[r])
  BY DEF CredInv, TypeOK
<1>2. PICK q : q = [req[r] EXCEPT !.pc = "audit", !.on = c, !.name = "none"]
  OBVIOUS
<1>3. req' = [req EXCEPT ![r] = q]
  BY <1>2 DEF Conclude, CredInv, TypeOK
<1>4. /\ q \in ReqType /\ q.pc = "audit" /\ q.on = c /\ q.who = req[r].who
      /\ q.op = req[r].op
  BY <1>1, <1>2 DEF ReqType
<1>5. WellFormed(q)
  BY <1>1, <1>4 DEF WellFormed, AllOps
<1> QED BY <1>3, <1>4, <1>5

LEMMA CreateCredentialKeeps ==
  ASSUME CredInv, NEW r \in Requests, CreateCredential(r)
  PROVE  Keeps
<1>0. PICK u, name : u = req[r].who /\ name = req[r].name
  OBVIOUS
<1>1. UNCHANGED <<tokens, identity, audit, refused>> /\ req[r].pc = "counted"
  BY DEF CreateCredential
<1>2. u \in Subjects /\ name \in Names
  BY <1>0, <1>1 DEF CredInv, TypeOK, WellFormed
<1>3. CASE Fail(r) /\ UNCHANGED <<cred, holder>>
  BY <1>1, <1>3, EndKeeps DEF Fail
<1>4. CASE \E c \in CredIds, k \in Secrets :
             /\ cred[c] = NoCred
             /\ Generate(u, k)
             /\ cred' = [cred EXCEPT ![c] = NewCred(u, name, k)]
             /\ Conclude(r, c)
  <2>1. PICK c \in CredIds, k \in Secrets :
             /\ cred[c] = NoCred
             /\ Generate(u, k)
             /\ cred' = [cred EXCEPT ![c] = NewCred(u, name, k)]
             /\ Conclude(r, c)
    BY <1>4
  <2>2. PICK w : w = NewCred(u, name, k)
    OBVIOUS
  <2>3. w \in Creds /\ w.owner = u /\ w.key = k
    BY <1>2, <2>2 DEF NewCred, Creds
  <2>4. /\ Lasting /\ cred' \in [CredIds -> Creds \cup {NoCred}]
        /\ holder' \in [Secrets -> Subjects \cup {NoOne}]
        /\ \A d \in CredIds : cred'[d] # NoCred => cred'[d].owner = holder'[cred'[d].key]
        /\ cred'[c] = w
    BY <1>2, <2>1, <2>2, <2>3, KeyGenerated
  <2>5. PICK q \in ReqType :
           /\ req' = [req EXCEPT ![r] = q] /\ WellFormed(q)
           /\ q.pc = "audit" /\ q.on = c /\ q.who = u
    BY <1>0, <1>1, <2>1, ConcludeReq
  <2>6. cred'[q.on] # NoCred /\ cred'[q.on].owner = q.who
    BY <2>3, <2>4, <2>5, Basics
  <2> QED BY <1>1, <2>4, <2>5, <2>6, Frame DEF Keeps, Lasting, CredInv, TypeOK
<1> QED BY <1>0, <1>3, <1>4 DEF CreateCredential

(* A credential found through its owner is one.                            *)
LEMMA OwnedExists ==
  ASSUME CredInv, NEW r \in Requests, req[r].pc = "signed", req[r].op # "issue", Owned(r)
  PROVE  /\ req[r].on \in CredIds /\ req[r].who \in Subjects
         /\ cred[req[r].on] \in Creds /\ cred[req[r].on] # NoCred
BY Basics, CredentialsAssumption DEF Owned, CredInv, TypeOK, WellFormed

LEMMA RotateCredentialKeeps ==
  ASSUME CredInv, NEW r \in Requests, RotateCredential(r)
  PROVE  Keeps
<1>0. PICK u, c : u = req[r].who /\ c = req[r].on
  OBVIOUS
<1>1. /\ UNCHANGED <<tokens, identity, audit, refused>>
      /\ req[r].pc = "signed" /\ req[r].op = "rotate"
  BY DEF RotateCredential
<1>2. CASE Fail(r) /\ UNCHANGED <<cred, holder>>
  BY <1>1, <1>2, EndKeeps DEF Fail
<1>3. CASE Owned(r) /\ Conclude(r, c) /\ \E k \in Secrets : Generate(u, k) /\ UpdateSecret(c, k)
  <2>1. PICK k \in Secrets : Generate(u, k) /\ UpdateSecret(c, k)
    BY <1>3
  <2>2. c \in CredIds /\ u \in Subjects /\ cred[c] \in Creds /\ cred[c].owner = u
    BY <1>0, <1>1, <1>3, OwnedExists DEF Owned
  <2>3. PICK w : w = [cred[c] EXCEPT !.status = "active", !.key = k]
    OBVIOUS
  <2>4. cred' = [cred EXCEPT ![c] = w]
    BY <2>1, <2>2, <2>3 DEF UpdateSecret, CredInv, TypeOK
  <2>5. w \in Creds /\ w.owner = u /\ w.key = k
    BY <2>2, <2>3 DEF Creds
  <2>6. /\ Lasting /\ cred' \in [CredIds -> Creds \cup {NoCred}]
        /\ holder' \in [Secrets -> Subjects \cup {NoOne}]
        /\ \A d \in CredIds : cred'[d] # NoCred => cred'[d].owner = holder'[cred'[d].key]
        /\ cred'[c] = w
    BY <2>1, <2>2, <2>4, <2>5, KeyGenerated
  <2>7. PICK q \in ReqType :
           /\ req' = [req EXCEPT ![r] = q] /\ WellFormed(q)
           /\ q.pc = "audit" /\ q.on = c /\ q.who = u
    BY <1>0, <1>1, <1>3, <2>2, ConcludeReq
  <2>8. cred'[q.on] # NoCred /\ cred'[q.on].owner = q.who
    BY <2>5, <2>6, <2>7, Basics
  <2> QED BY <1>1, <2>6, <2>7, <2>8, Frame DEF Keeps, Lasting, CredInv, TypeOK
<1> QED BY <1>0, <1>2, <1>3 DEF RotateCredential

(* Writing a status that is not active.                                    *)
LEMMA UpdateStatusLasts ==
  ASSUME CredInv, UNCHANGED holder, NEW c \in CredIds, cred[c] # NoCred,
         NEW status \in {"disabled", "revoked"}, UpdateStatus(c, status)
  PROVE  /\ Lasting /\ cred' \in [CredIds -> Creds \cup {NoCred}]
         /\ \A d \in CredIds : cred'[d] # NoCred => cred'[d].owner = holder'[cred'[d].key]
<1>1. cred[c] \in Creds
  BY DEF CredInv, TypeOK
<1>2. PICK w : w = [cred[c] EXCEPT !.status = status]
  OBVIOUS
<1>3. cred' = [cred EXCEPT ![c] = w]
  BY <1>2 DEF UpdateStatus, CredInv, TypeOK
<1>4. w \in Creds /\ w.owner = cred[c].owner /\ w.key = cred[c].key /\ w.status # "active"
  BY <1>1, <1>2 DEF Creds
<1> QED BY <1>3, <1>4, StatusChanged

LEMMA SetStatusKeeps ==
  ASSUME CredInv, NEW r \in Requests, SetStatus(r)
  PROVE  Keeps
<1>0. PICK u, c : u = req[r].who /\ c = req[r].on
  OBVIOUS
<1>1. /\ UNCHANGED <<tokens, identity, holder, audit, refused>>
      /\ req[r].pc = "signed" /\ req[r].op \in {"disable", "revoke"}
  BY DEF SetStatus
<1>2. CASE Fail(r) /\ UNCHANGED cred
  BY <1>1, <1>2, EndKeeps DEF Fail
<1>3. CASE Owned(r) /\ Conclude(r, c) /\ UpdateStatus(c, StatusAfter(req[r].op))
  <2>1. c \in CredIds /\ u \in Subjects /\ cred[c] # NoCred /\ cred[c].owner = u
    BY <1>0, <1>1, <1>3, OwnedExists DEF Owned
  <2>2. PICK status \in {"disabled", "revoked"} : UpdateStatus(c, status)
    BY <1>3 DEF StatusAfter
  <2>3. /\ Lasting /\ cred' \in [CredIds -> Creds \cup {NoCred}]
        /\ \A d \in CredIds : cred'[d] # NoCred => cred'[d].owner = holder'[cred'[d].key]
    BY <1>1, <2>1, <2>2, UpdateStatusLasts
  <2>4. PICK q \in ReqType :
           /\ req' = [req EXCEPT ![r] = q] /\ WellFormed(q)
           /\ q.pc = "audit" /\ q.on = c /\ q.who = u
    BY <1>0, <1>1, <1>3, <2>1, ConcludeReq
  <2>5. cred'[q.on] # NoCred /\ cred'[q.on].owner = q.who
    BY <2>1, <2>3, <2>4 DEF Lasting, OwnersStay
  <2> QED BY <1>1, <2>3, <2>4, <2>5, Frame DEF Keeps, Lasting, CredInv, TypeOK
<1> QED BY <1>0, <1>2, <1>3 DEF SetStatus

LEMMA AdminDisableKeeps ==
  ASSUME CredInv, NEW r \in Requests, AdminDisable(r)
  PROVE  Keeps
<1>0. PICK c : c = req[r].on
  OBVIOUS
<1>1. /\ UNCHANGED <<tokens, identity, holder, audit, refused>>
      /\ req[r].pc = "signed" /\ req[r].op = "adminDisable"
      /\ req' = [req EXCEPT ![r] = Idle]
  BY DEF AdminDisable
<1>2. CASE UNCHANGED cred
  BY <1>1, <1>2, EndKeeps
<1>3. CASE cred[c] # NoCred /\ UpdateStatus(c, "disabled")
  <2>1. c \in CredIds
    BY <1>0, <1>1 DEF CredInv, TypeOK, WellFormed
  <2>2. /\ Lasting /\ cred' \in [CredIds -> Creds \cup {NoCred}]
        /\ \A d \in CredIds : cred'[d] # NoCred => cred'[d].owner = holder'[cred'[d].key]
    BY <1>1, <1>3, <2>1, UpdateStatusLasts
  <2> QED BY <1>1, <2>2, Basics, Frame DEF Keeps, Lasting, CredInv, TypeOK
<1> QED BY <1>0, <1>2, <1>3 DEF AdminDisable

LEMMA VerifyKeyKeeps ==
  ASSUME CredInv, NEW r \in Requests, NEW k \in Secrets, VerifyKey(r, k)
  PROVE  Keeps
<1>1. UNCHANGED <<tokens, identity, cred, holder, audit, refused>>
  BY DEF VerifyKey
<1>2. PICK c \in CredIds :
        /\ cred[c].key = k
        /\ req' = [req EXCEPT ![r] = [Idle EXCEPT !.pc = "native", !.key = k,
                                                  !.who = cred[c].owner, !.on = c]]
  BY DEF VerifyKey, WithKey
<1>3. cred[c] \in Creds /\ cred[c].owner \in Subjects /\ cred[c].owner = holder[k]
  BY <1>2, Basics DEF CredInv, TypeOK, KeysSpeakForTheirHolder
<1>4. PICK q : q = [Idle EXCEPT !.pc = "native", !.key = k, !.who = cred[c].owner, !.on = c]
  OBVIOUS
<1>5. /\ q \in ReqType /\ WellFormed(q)
      /\ q.pc = "native" /\ q.who = cred[c].owner /\ q.key = k
  BY <1>3, <1>4 DEF Idle, ReqType, WellFormed
<1>6. /\ identity' \in [Subjects -> Identities] /\ refused' \subseteq Subjects
      /\ audit' \subseteq EventType
  BY <1>1 DEF CredInv, TypeOK
<1> QED BY <1>1, <1>2, <1>3, <1>4, <1>5, <1>6, RequestOnly

LEMMA CredentialExpiresKeeps ==
  ASSUME CredInv, NEW c \in CredIds, CredentialExpires(c)
  PROVE  Keeps
<1>1. UNCHANGED <<tokens, identity, req, holder, audit, refused>> /\ cred[c] # NoCred
      /\ cred[c] \in Creds
  BY DEF CredentialExpires, CredInv, TypeOK
<1>2. PICK w : w = [cred[c] EXCEPT !.expired = TRUE]
  OBVIOUS
<1>3. cred' = [cred EXCEPT ![c] = w]
  BY <1>2 DEF CredentialExpires, CredInv, TypeOK
<1>4. w \in Creds /\ w.owner = cred[c].owner /\ w.key = cred[c].key /\ w.expired
  BY <1>1, <1>2 DEF Creds
<1>5. /\ Lasting /\ cred' \in [CredIds -> Creds \cup {NoCred}]
      /\ \A d \in CredIds : cred'[d] # NoCred => cred'[d].owner = holder'[cred'[d].key]
  BY <1>1, <1>3, <1>4, StatusChanged
<1>6. TypeOK' /\ KeysSpeakForTheirHolder'
  BY <1>1, <1>5 DEF CredInv, TypeOK, KeysSpeakForTheirHolder
<1>7. PendingEventsNameTheOwner' /\ AuditNamesTheOwner'
  BY <1>1, <1>5 DEF CredInv, TypeOK, WellFormed, EventType, PendingEventsNameTheOwner,
                    AuditNamesTheOwner, Lasting, OwnersStay
<1> QED BY <1>5, <1>6, <1>7 DEF Keeps, CredInv, Lasting

-----------------------------------------------------------------------------
(* The invariant, and what follows from it.                                *)

LEMMA InitCredInv == Init => CredInv
<1> SUFFICES ASSUME Init PROVE CredInv
  OBVIOUS
<1>1. TypeOK
  BY Basics DEF Init, TypeOK, Identities
<1>2. KeysSpeakForTheirHolder /\ PendingEventsNameTheOwner /\ AuditNamesTheOwner
  BY Basics DEF Init, KeysSpeakForTheirHolder, PendingEventsNameTheOwner, AuditNamesTheOwner
<1> QED BY <1>1, <1>2 DEF CredInv

LEMMA NextKeeps == CredInv /\ [Next]_vars => Keeps
<1> SUFFICES ASSUME CredInv, [Next]_vars PROVE Keeps
  OBVIOUS
<1>1. CASE UNCHANGED vars
  BY <1>1, TableUntouched
  DEF vars, Keeps, Lasting, CredInv, TypeOK, KeysSpeakForTheirHolder,
      PendingEventsNameTheOwner, AuditNamesTheOwner
<1>2. ASSUME NEW u \in Subjects, NEW w \in Words,
             CasdoorSays(u, w) \/ TokenExpires(u, w) \/ RefuseToken(u, w)
      PROVE  Keeps
  BY <1>2, CasdoorKeeps
<1>3. ASSUME NEW u \in Subjects, NEW w \in Words, NEW r \in Requests, NEW op \in Ops,
             NEW c \in CredIds, NEW name \in Names, AcceptToken(r, u, w, op, c, name)
      PROVE  Keeps
  BY <1>3, AcceptTokenKeeps
<1>4. ASSUME NEW r \in Requests,
             \/ CountCredentials(r) \/ CreateCredential(r) \/ RotateCredential(r)
             \/ SetStatus(r) \/ AdminDisable(r)
      PROVE  Keeps
  BY <1>4, CountCredentialsKeeps, CreateCredentialKeeps, RotateCredentialKeeps,
     SetStatusKeeps, AdminDisableKeeps
<1>5. ASSUME NEW r \in Requests, RecordAudit(r) \/ Serve(r) \/ Abort(r) PROVE Keeps
  BY <1>5, EndKeeps DEF RecordAudit, Serve, Abort
<1>6. ASSUME NEW r \in Requests, NEW k \in Secrets, VerifyKey(r, k) PROVE Keeps
  BY <1>6, VerifyKeyKeeps
<1>7. ASSUME NEW c \in CredIds, CredentialExpires(c) PROVE Keeps
  BY <1>7, CredentialExpiresKeeps
<1> QED BY <1>1, <1>2, <1>3, <1>4, <1>5, <1>6, <1>7 DEF Next

LEMMA TableCorrect == Spec => []CredInv
<1>1. CredInv /\ [Next]_vars => CredInv'
  BY NextKeeps DEF Keeps
<1> QED BY InitCredInv, <1>1, PTL DEF Spec

(* What is stored is always what the code can store: no identity that      *)
(* would not be welcome, no key but a generated one.                       *)
THEOREM TypeCorrect == Spec => []TypeOK
<1>1. CredInv => TypeOK
  BY DEF CredInv
<1> QED BY TableCorrect, <1>1, PTL

(* A key speaks for nobody but the user it was shown to, through every     *)
(* rotation, disabling and verification in between.                        *)
THEOREM KeysCorrect == Spec => []KeysSpeakForTheirHolder
<1>1. CredInv => KeysSpeakForTheirHolder
  BY DEF CredInv
<1> QED BY TableCorrect, <1>1, PTL

(* No audit event of a change names anybody but the credential's owner.    *)
THEOREM AuditCorrect == Spec => []AuditNamesTheOwner
<1>1. CredInv => AuditNamesTheOwner
  BY DEF CredInv
<1> QED BY TableCorrect, <1>1, PTL

(* A key that was rotated away, disabled, revoked or expired never works   *)
(* again.                                                                  *)
THEOREM DeadKeysCorrect == Spec => DeadKeysStayDead
<1>1. CredInv /\ [Next]_vars =>
        [\A k \in Secrets : holder[k] # NoOne /\ ~Works(k) => ~Works(k)']_vars
  BY NextKeeps DEF Keeps, DeadStay
<1> QED BY TableCorrect, <1>1, PTL DEF Spec, DeadKeysStayDead

-----------------------------------------------------------------------------
(* The refinement: module Credentials implements module Keyring.  A key    *)
(* stops working with the one credential that has it, so the invariant     *)
(* needs to say that no two credentials have the same.                     *)
KeysDistinct ==
  \A c, d \in CredIds : cred[c] # NoCred /\ cred[d].key = cred[c].key => c = d
RingInv == CredInv /\ KeysDistinct

WorkingKeys == {k \in Secrets : Works(k)}
Callers == [r \in Requests |-> IF req[r].pc = "native" THEN req[r].who ELSE NoOne]
RingStep == Ring!Next \/ UNCHANGED <<holder, WorkingKeys, Callers>>

LEMMA KeysOfCredentials ==
  ASSUME CredInv, NEW c \in CredIds
  PROVE  /\ Live(c) => cred[c] # NoCred
         /\ cred[c] # NoCred => /\ cred[c] \in Creds /\ cred[c].key \in Secrets
                                /\ holder[cred[c].key] = cred[c].owner
                                /\ holder[cred[c].key] # NoOne
         /\ cred[c].key = 0 \/ holder[cred[c].key] # NoOne
<1>1. cred[c] # NoCred => /\ cred[c] \in Creds /\ cred[c].owner \in Subjects
                          /\ cred[c].key \in Secrets
                          /\ holder[cred[c].key] = cred[c].owner
  BY DEF CredInv, TypeOK, Creds, KeysSpeakForTheirHolder
<1>2. Live(c) => cred[c] # NoCred
  BY Basics DEF Live
<1>3. cred[c] = NoCred => cred[c].key = 0
  BY Basics
<1> QED BY <1>1, <1>2, <1>3, CredentialsAssumption

LEMMA WhoWorks ==
  ASSUME NEW k
  PROVE  k \in WorkingKeys <=>
           k \in Secrets /\ \E c \in CredIds : cred[c].key = k /\ Live(c)
BY DEF WorkingKeys, Works

LEMMA SameKeys ==
  ASSUME RingInv, UNCHANGED <<cred, holder>>
  PROVE  KeysDistinct' /\ UNCHANGED <<holder, WorkingKeys>>
BY DEF RingInv, KeysDistinct, WorkingKeys, Works, Live

LEMMA SameCallers ==
  ASSUME CredInv, NEW r \in Requests, NEW q, req' = [req EXCEPT ![r] = q],
         req[r].pc # "native", q.pc # "native"
  PROVE  UNCHANGED Callers
<1>1. \A p \in Requests : req'[p] = IF p = r THEN q ELSE req[p]
  BY DEF CredInv, TypeOK
<1> QED BY <1>1 DEF Callers

LEMMA KeyWithdrawn ==
  ASSUME RingInv, UNCHANGED <<holder, Callers>>, NEW c \in CredIds, NEW w \in Creds,
         cred[c] # NoCred, cred' = [cred EXCEPT ![c] = w],
         w.key = cred[c].key, w.status # "active" \/ w.expired
  PROVE  KeysDistinct' /\ RingStep
<1> DEFINE k == cred[c].key
<1>1. cred'[c] = w /\ \A d \in CredIds : d # c => cred'[d] = cred[d]
  BY DEF RingInv, CredInv, TypeOK
<1>2. k \in Secrets /\ w # NoCred
  BY KeysOfCredentials, Basics DEF RingInv
<1>3. KeysDistinct'
  BY <1>1, <1>2 DEF RingInv, KeysDistinct
<1>4. ~Live(c)' /\ \A d \in CredIds : d # c => (Live(d)' <=> Live(d))
  BY <1>1 DEF Live
<1>5. \A d \in CredIds : cred[d].key = k => d = c
  BY DEF RingInv, KeysDistinct
<1>6. \A j : j \in WorkingKeys' <=>
               j \in Secrets /\ \E d \in CredIds : cred'[d].key = j /\ Live(d)'
  BY DEF WorkingKeys, Works, Live
<1>7. WorkingKeys' = WorkingKeys \ {k}
  <2>1. ASSUME NEW j PROVE j \in WorkingKeys' <=> j \in WorkingKeys /\ j # k
    BY <1>1, <1>4, <1>5, <1>6, WhoWorks
  <2> QED BY <2>1
<1>8. CASE k \in WorkingKeys
  <2>1. Ring!Withdraw
    BY <1>7, <1>8 DEF Ring!Withdraw, WorkingKeys, Callers
  <2> QED BY <1>2, <1>3, <2>1 DEF RingStep, Ring!Next
<1>9. CASE k \notin WorkingKeys
  BY <1>3, <1>7, <1>9 DEF RingStep
<1> QED BY <1>8, <1>9

(* A key that was just generated is no credential's but the one it was     *)
(* generated for.                                                          *)
LEMMA KeyShown ==
  ASSUME RingInv, UNCHANGED Callers, NEW u \in Subjects, NEW k \in Secrets, Generate(u, k),
         NEW c \in CredIds, NEW w \in Creds, cred' = [cred EXCEPT ![c] = w],
         w.owner = u, w.key = k,
         \/ cred[c] = NoCred /\ w.status = "active" /\ ~w.expired
         \/ cred[c] # NoCred /\ cred[c].owner = u
  PROVE  KeysDistinct' /\ RingStep
<1> DEFINE old == cred[c].key
<1>1. cred'[c] = w /\ \A d \in CredIds : d # c => cred'[d] = cred[d]
  BY DEF RingInv, CredInv, TypeOK
<1>2. holder[k] = NoOne /\ holder' = [holder EXCEPT ![k] = u]
  BY DEF Generate
<1>3. ASSUME NEW d \in CredIds PROVE cred[d].key # k
  BY <1>2, KeysOfCredentials, Basics DEF RingInv
<1>4. KeysDistinct'
  BY <1>1, <1>3 DEF RingInv, KeysDistinct
<1>5. /\ Live(c)' <=> w.status = "active" /\ ~w.expired
      /\ \A d \in CredIds : d # c => (Live(d)' <=> Live(d))
  BY <1>1 DEF Live
<1>6. \A j : j \in WorkingKeys' <=>
               j \in Secrets /\ \E d \in CredIds : cred'[d].key = j /\ Live(d)'
  BY DEF WorkingKeys, Works, Live
<1>7. CASE cred[c] = NoCred /\ w.status = "active" /\ ~w.expired
  <2>1. ~Live(c)
    BY <1>7, Basics DEF Live
  <2>2. ASSUME NEW j PROVE j \in WorkingKeys' <=> j \in WorkingKeys \/ j = k
    BY <1>1, <1>5, <1>6, <1>7, <2>1, WhoWorks
  <2>3. WorkingKeys' = WorkingKeys \cup {k}
    BY <2>2
  <2>4. Ring!Issue(u, k)
    BY <1>2, <2>3 DEF Ring!Issue, Ring!ShowTo, WorkingKeys, Callers
  <2> QED BY <1>2, <1>4, <2>4 DEF RingStep, Ring!Next, Ring!Fresh
<1>8. CASE cred[c] # NoCred /\ cred[c].owner = u
  <2>1. old \in Secrets /\ holder[old] = u /\ holder[old] # NoOne
    BY <1>8, KeysOfCredentials DEF RingInv
  <2>2. \A d \in CredIds : cred[d].key = old => d = c
    BY <1>8 DEF RingInv, KeysDistinct
  <2>3. ASSUME NEW j
        PROVE  j \in WorkingKeys' <=> \/ j \in WorkingKeys /\ j # old
                                      \/ j = k /\ Live(c)'
    BY <1>1, <1>3, <1>5, <1>6, <2>2, WhoWorks
  <2>4. WorkingKeys' \in {WorkingKeys \ {old}, (WorkingKeys \ {old}) \cup {k}}
    <3>1. CASE Live(c)'
      <4>1. WorkingKeys' = (WorkingKeys \ {old}) \cup {k}
        BY <2>3, <3>1
      <4> QED BY <4>1
    <3>2. CASE ~Live(c)'
      <4>1. WorkingKeys' = WorkingKeys \ {old}
        BY <2>3, <3>2
      <4> QED BY <4>1
    <3> QED BY <3>1, <3>2
  <2>5. Ring!Replace(old, k)
    BY <1>2, <2>1, <2>4 DEF Ring!Replace, Ring!Fresh, Ring!ShowTo, WorkingKeys, Callers
  <2> QED BY <1>2, <1>4, <2>1, <2>5 DEF RingStep, Ring!Next, Ring!Fresh
<1> QED BY <1>7, <1>8

LEMMA FailKeepsRing ==
  ASSUME RingInv, NEW r \in Requests, req[r].pc # "native", req' = [req EXCEPT ![r] = Idle],
         UNCHANGED <<cred, holder>>
  PROVE  KeysDistinct' /\ RingStep
BY SameKeys, SameCallers, Basics DEF RingStep, RingInv

LEMMA ConcludeSameCallers ==
  ASSUME CredInv, NEW r \in Requests, NEW c \in CredIds, Conclude(r, c),
         req[r].pc \in {"signed", "counted"}
  PROVE  UNCHANGED Callers
BY ConcludeReq, SameCallers

(* The steps that change a credential.                                     *)
LEMMA TableStepsImplement ==
  ASSUME RingInv, NEW r \in Requests,
         CreateCredential(r) \/ RotateCredential(r) \/ SetStatus(r) \/ AdminDisable(r)
  PROVE  KeysDistinct' /\ RingStep
<1>0. PICK u, c, name : u = req[r].who /\ c = req[r].on /\ name = req[r].name
  OBVIOUS
<1>1. /\ CredInv /\ req[r].pc \in {"signed", "counted"} /\ u \in Subjects
      /\ req[r].pc = "counted" => name \in Names
  BY <1>0 DEF RingInv, CredInv, TypeOK, WellFormed, CreateCredential, RotateCredential,
              SetStatus, AdminDisable
<1>2. CASE Fail(r) /\ UNCHANGED <<cred, holder>>
  BY <1>1, <1>2, FailKeepsRing DEF Fail
<1>3. ASSUME NEW d \in CredIds, NEW k \in Secrets, CreateCredential(r),
             cred[d] = NoCred, Generate(u, k),
             cred' = [cred EXCEPT ![d] = NewCred(u, name, k)], Conclude(r, d)
      PROVE  KeysDistinct' /\ RingStep
  <2>1. PICK w : w = NewCred(u, name, k)
    OBVIOUS
  <2>2. w \in Creds /\ w.owner = u /\ w.key = k /\ w.status = "active" /\ ~w.expired
    BY <1>1, <1>3, <2>1 DEF NewCred, Creds, CreateCredential
  <2> QED BY <1>1, <1>3, <2>1, <2>2, ConcludeSameCallers, KeyShown
<1>4. ASSUME NEW k \in Secrets, RotateCredential(r), Owned(r),
             Generate(u, k), UpdateSecret(c, k), Conclude(r, c)
      PROVE  KeysDistinct' /\ RingStep
  <2>1. c \in CredIds /\ cred[c] \in Creds /\ cred[c] # NoCred /\ cred[c].owner = u
    BY <1>0, <1>1, <1>4, OwnedExists DEF Owned, RotateCredential
  <2>2. PICK w : w = [cred[c] EXCEPT !.status = "active", !.key = k]
    OBVIOUS
  <2>3. cred' = [cred EXCEPT ![c] = w]
    BY <1>1, <1>4, <2>1, <2>2 DEF UpdateSecret, CredInv, TypeOK
  <2>4. w \in Creds /\ w.owner = u /\ w.key = k
    BY <2>1, <2>2 DEF Creds
  <2> QED BY <1>1, <1>4, <2>1, <2>3, <2>4, ConcludeSameCallers, KeyShown
<1>5. ASSUME NEW status \in {"disabled", "revoked"}, c \in CredIds, cred[c] # NoCred,
             UpdateStatus(c, status), UNCHANGED <<holder, Callers>>
      PROVE  KeysDistinct' /\ RingStep
  <2>1. cred[c] \in Creds
    BY <1>1, <1>5 DEF CredInv, TypeOK
  <2>2. PICK w : w = [cred[c] EXCEPT !.status = status]
    OBVIOUS
  <2>3. cred' = [cred EXCEPT ![c] = w]
    BY <1>1, <1>5, <2>2 DEF UpdateStatus, CredInv, TypeOK
  <2>4. w \in Creds /\ w.key = cred[c].key /\ w.status # "active"
    BY <2>1, <2>2 DEF Creds
  <2> QED BY <1>5, <2>3, <2>4, KeyWithdrawn
<1>6. CASE CreateCredential(r)
  BY <1>0, <1>2, <1>3, <1>6 DEF CreateCredential
<1>7. CASE RotateCredential(r)
  BY <1>0, <1>2, <1>4, <1>7 DEF RotateCredential
<1>8. CASE SetStatus(r)
  <2>1. CASE Fail(r) /\ UNCHANGED cred
    BY <1>2, <1>8, <2>1 DEF SetStatus
  <2>2. CASE Owned(r) /\ Conclude(r, c) /\ UpdateStatus(c, StatusAfter(req[r].op))
    <3>1. c \in CredIds /\ cred[c] # NoCred
      BY <1>0, <1>1, <1>8, <2>2, OwnedExists DEF SetStatus
    <3>2. UNCHANGED <<holder, Callers>>
      BY <1>1, <1>8, <2>2, <3>1, ConcludeSameCallers DEF SetStatus
    <3> QED BY <1>5, <2>2, <3>1, <3>2 DEF StatusAfter
  <2> QED BY <1>0, <1>8, <2>1, <2>2 DEF SetStatus
<1>9. CASE AdminDisable(r)
  <2>1. CASE UNCHANGED cred
    BY <1>1, <1>9, <2>1, FailKeepsRing DEF AdminDisable
  <2>2. CASE cred[c] # NoCred /\ UpdateStatus(c, "disabled")
    <3>1. c \in CredIds
      BY <1>0, <1>1, <1>9 DEF AdminDisable, CredInv, TypeOK, WellFormed
    <3>2. UNCHANGED <<holder, Callers>>
      BY <1>1, <1>9, SameCallers, Basics DEF AdminDisable
    <3> QED BY <1>5, <2>2, <3>1, <3>2
  <2> QED BY <1>0, <1>9, <2>1, <2>2 DEF AdminDisable
<1> QED BY <1>6, <1>7, <1>8, <1>9

(* The steps of a native call.                                             *)
LEMMA CallStepsImplement ==
  ASSUME RingInv, NEW r \in Requests,
         Serve(r) \/ \E k \in Secrets : VerifyKey(r, k)
  PROVE  KeysDistinct' /\ RingStep
<1>1. /\ CredInv /\ UNCHANGED <<cred, holder>>
      /\ KeysDistinct' /\ UNCHANGED WorkingKeys
  BY SameKeys DEF RingInv, Serve, VerifyKey
<1>2. ASSUME NEW k \in Secrets, VerifyKey(r, k) PROVE Ring!Next
  <2>1. PICK c \in CredIds :
          /\ cred[c].key = k /\ Live(c)
          /\ req' = [req EXCEPT ![r] = [Idle EXCEPT !.pc = "native", !.key = k,
                                                    !.who = cred[c].owner, !.on = c]]
    BY <1>2 DEF VerifyKey, WithKey, ValidCredential
  <2>2. holder[k] = cred[c].owner
    BY <1>1, <2>1, KeysOfCredentials
  <2>3. k \in WorkingKeys
    BY <2>1, WhoWorks
  <2>4. req[r].pc = "idle"
    BY <1>2, Basics DEF VerifyKey
  <2>5. \A p \in Requests : p # r => req'[p] = req[p]
    BY <1>1, <2>1 DEF CredInv, TypeOK
  <2>6. req'[r].pc = "native" /\ req'[r].who = cred[c].owner
    BY <1>1, <2>1 DEF CredInv, TypeOK, Idle
  <2>7. Callers' = [Callers EXCEPT ![r] = holder[k]]
    BY <2>2, <2>5, <2>6 DEF Callers
  <2>8. Callers[r] = NoOne
    BY <2>4 DEF Callers
  <2>9. Ring!Open(r)
    BY <1>1, <2>3, <2>7, <2>8 DEF Ring!Open, Callers, WorkingKeys
  <2> QED BY <2>9 DEF Ring!Next
<1>3. ASSUME Serve(r) PROVE Ring!Next
  <2>1. req[r].pc = "native" /\ req' = [req EXCEPT ![r] = Idle]
    BY <1>3 DEF Serve
  <2>2. req'[r].pc = "idle" /\ \A p \in Requests : p # r => req'[p] = req[p]
    BY <1>1, <2>1, Basics DEF CredInv, TypeOK
  <2>3. Callers' = [Callers EXCEPT ![r] = NoOne]
    BY <2>2 DEF Callers
  <2>4. Callers[r] = req[r].who /\ req[r].who \in Subjects
    BY <1>1, <2>1 DEF Callers, CredInv, TypeOK, WellFormed
  <2>5. Ring!Close(r)
    BY <1>1, <2>3, <2>4, CredentialsAssumption DEF Ring!Close, Callers, WorkingKeys
  <2> QED BY <2>5 DEF Ring!Next
<1> QED BY <1>1, <1>2, <1>3 DEF RingStep

LEMMA RingSteps == RingInv /\ [Next]_vars => KeysDistinct' /\ RingStep
<1> SUFFICES ASSUME RingInv, [Next]_vars PROVE KeysDistinct' /\ RingStep
  OBVIOUS
<1>0. CredInv
  BY DEF RingInv
<1>1. ASSUME UNCHANGED <<cred, holder, req>> PROVE KeysDistinct' /\ RingStep
  BY <1>1, SameKeys DEF RingStep, Callers
<1>2. ASSUME NEW u \in Subjects, NEW w \in Words, NEW r \in Requests, NEW op \in Ops,
             NEW c \in CredIds, NEW name \in Names, AcceptToken(r, u, w, op, c, name)
      PROVE  KeysDistinct' /\ RingStep
  <2>1. CASE UNCHANGED req
    BY <1>1, <1>2, <2>1 DEF AcceptToken
  <2>2. CASE req' = [req EXCEPT ![r] = [pc |-> "signed", op |-> op, who |-> u,
                       on |-> IF op = "issue" THEN NoCredId ELSE c,
                       name |-> IF op = "issue" THEN name ELSE "none", key |-> 0]]
    <3>1. PICK q : q = [pc |-> "signed", op |-> op, who |-> u,
                        on |-> IF op = "issue" THEN NoCredId ELSE c,
                        name |-> IF op = "issue" THEN name ELSE "none", key |-> 0]
      OBVIOUS
    <3>2. req[r].pc = "idle" /\ q.pc = "signed"
      BY <1>2, <3>1, Basics DEF AcceptToken
    <3>3. UNCHANGED Callers
      BY <1>0, <2>2, <3>1, <3>2, SameCallers
    <3> QED BY <1>2, <3>3, SameKeys DEF AcceptToken, RingStep
  <2> QED BY <1>2, <2>1, <2>2 DEF AcceptToken
<1>3. ASSUME NEW r \in Requests, CountCredentials(r)
      PROVE  KeysDistinct' /\ RingStep
  <2>1. req[r].pc = "signed" /\ UNCHANGED <<cred, holder>> /\ req[r] \in ReqType
    BY <1>0, <1>3 DEF CountCredentials, CredInv, TypeOK
  <2>2. PICK q : q = [req[r] EXCEPT !.pc = "counted"]
    OBVIOUS
  <2>3. q.pc # "native"
    BY <2>1, <2>2 DEF ReqType
  <2>4. req' = [req EXCEPT ![r] = q] \/ req' = [req EXCEPT ![r] = Idle]
    BY <1>0, <1>3, <2>2 DEF CountCredentials, Fail, CredInv, TypeOK
  <2>5. UNCHANGED Callers
    <3>1. CASE req' = [req EXCEPT ![r] = q]
      BY <1>0, <2>1, <2>3, <3>1, SameCallers
    <3>2. CASE req' = [req EXCEPT ![r] = Idle]
      BY <1>0, <2>1, <3>2, SameCallers, Basics
    <3> QED BY <2>4, <3>1, <3>2
  <2> QED BY <2>1, <2>5, SameKeys DEF RingStep
<1>4. ASSUME NEW r \in Requests, RecordAudit(r) \/ Abort(r)
      PROVE  KeysDistinct' /\ RingStep
  BY <1>4, FailKeepsRing DEF RecordAudit, Abort
<1>5. ASSUME NEW c \in CredIds, CredentialExpires(c)
      PROVE  KeysDistinct' /\ RingStep
  <2>1. /\ cred[c] # NoCred /\ cred[c] \in Creds
        /\ UNCHANGED <<holder, Callers>>
    BY <1>0, <1>5 DEF CredentialExpires, CredInv, TypeOK, Callers
  <2>2. PICK w : w = [cred[c] EXCEPT !.expired = TRUE]
    OBVIOUS
  <2>3. cred' = [cred EXCEPT ![c] = w]
    BY <1>0, <1>5, <2>2 DEF CredentialExpires, CredInv, TypeOK
  <2>4. w \in Creds /\ w.key = cred[c].key /\ w.expired
    BY <2>1, <2>2 DEF Creds
  <2> QED BY <2>1, <2>3, <2>4, KeyWithdrawn
<1>6. ASSUME UNCHANGED vars \/ \E u \in Subjects, w \in Words :
                 CasdoorSays(u, w) \/ TokenExpires(u, w) \/ RefuseToken(u, w)
      PROVE  KeysDistinct' /\ RingStep
  BY <1>1, <1>6 DEF vars, CasdoorSays, TokenExpires, RefuseToken
<1> QED BY <1>2, <1>3, <1>4, <1>5, <1>6, TableStepsImplement, CallStepsImplement DEF Next

(* The keys, as those who hold them see them, behave as module Keyring     *)
(* says: every step of every handler shows one key, replaces one, ends     *)
(* one, opens or closes one call, or changes none of this.                 *)
THEOREM KeyringImplemented == Spec => ImplementsKeyring
<1>1. Init => RingInv /\ Ring!Init
  <2> SUFFICES ASSUME Init PROVE RingInv /\ Ring!Init
    OBVIOUS
  <2>1. \A c \in CredIds : cred[c] = NoCred /\ ~Live(c)
    BY Basics DEF Init, Live
  <2>2. WorkingKeys = {} /\ KeysDistinct
    BY <2>1, WhoWorks DEF KeysDistinct
  <2>3. Callers = [r \in Requests |-> NoOne]
    BY Basics DEF Init, Callers
  <2> QED BY <2>2, <2>3, InitCredInv DEF RingInv, Init, Ring!Init, WorkingKeys, Callers
<1>2. RingInv /\ [Next]_vars => RingInv'
  BY RingSteps, NextKeeps DEF RingInv, Keeps
<1>3. RingInv /\ [Next]_vars => [Ring!Next]_(Ring!vars)
  BY RingSteps DEF RingStep, Ring!vars, WorkingKeys, Callers
<1> QED BY <1>1, <1>2, <1>3, PTL DEF Spec, ImplementsKeyring, Ring!Spec

-----------------------------------------------------------------------------
(* The limit on keys.  Where nobody rotates, the live credentials of a     *)
(* user and the issues that were counted and not written yet stay together *)
(* below the limit and one for each request: whoever is admitted counted   *)
(* less than the limit, and only admitted issues add a live credential.    *)

HeldBy(u) == {c \in CredIds : cred[c].owner = u /\ Live(c)}
Issuing(u) == {r \in Requests : req[r].pc = "counted" /\ req[r].who = u}

NobodyRotates == \A r \in Requests : req[r].op # "rotate"
KeysBounded(u) ==
  /\ IsFiniteSet(HeldBy(u))
  /\ Cardinality(HeldBy(u)) + Cardinality(Issuing(u)) < MaxKeys + Cardinality(Requests)

IssueInv == NobodyRotates /\ \A u \in Subjects : KeysBounded(u)

LEMMA IssuingCount ==
  ASSUME IsFiniteSet(Requests), NEW S, S \subseteq Requests
  PROVE  /\ IsFiniteSet(S) /\ Cardinality(S) \in Nat
         /\ Cardinality(Requests) \in Nat /\ Cardinality(S) <= Cardinality(Requests)
BY FS_Subset, FS_CardinalityType

(* A step that makes no credential live and admits nobody.                 *)
LEMMA KeysShrink ==
  ASSUME IsFiniteSet(Requests), NEW u, KeysBounded(u),
         HeldBy(u)' \subseteq HeldBy(u), Issuing(u)' \subseteq Issuing(u)
  PROVE  KeysBounded(u)'
<1>1. PICK H, J, A, B : H = HeldBy(u) /\ J = HeldBy(u)' /\ A = Issuing(u) /\ B = Issuing(u)'
  OBVIOUS
<1>2. IsFiniteSet(H) /\ Cardinality(H) + Cardinality(A) < MaxKeys + Cardinality(Requests)
  BY <1>1 DEF KeysBounded
<1>3. /\ IsFiniteSet(J) /\ Cardinality(J) \in Nat /\ Cardinality(H) \in Nat
      /\ Cardinality(J) <= Cardinality(H)
  BY <1>1, <1>2, FS_Subset, FS_CardinalityType
<1>4. A \subseteq Requests /\ B \subseteq A
  BY <1>1 DEF Issuing
<1>5. /\ Cardinality(A) \in Nat /\ Cardinality(B) \in Nat /\ Cardinality(Requests) \in Nat
      /\ Cardinality(B) <= Cardinality(A)
  BY <1>4, IssuingCount, FS_Subset
<1>6. Cardinality(J) + Cardinality(B) < MaxKeys + Cardinality(Requests)
  BY <1>2, <1>3, <1>5, CredentialsAssumption
<1> QED BY <1>1, <1>3, <1>6 DEF KeysBounded

(* An issue is admitted: it counted less than the limit.                   *)
LEMMA CountCredentialsKeepsBound ==
  ASSUME IsFiniteSet(Requests), CredInv, NEW r \in Requests, CountCredentials(r),
         NEW u \in Subjects, KeysBounded(u)
  PROVE  KeysBounded(u)'
<1>1. UNCHANGED cred /\ req \in [Requests -> ReqType]
  BY DEF CountCredentials, CredInv, TypeOK
<1>2. HeldBy(u)' = HeldBy(u)
  BY <1>1 DEF HeldBy, Live
<1>3. CASE ~BelowLimit(req[r].who) \/ req[r].who # u
  <2>1. Issuing(u)' \subseteq Issuing(u)
    <3>1. \A q \in Requests : q # r => req'[q] = req[q]
      BY <1>1 DEF CountCredentials, Fail
    <3>2. req'[r].pc # "counted" \/ req'[r].who # u
      <4>1. CASE BelowLimit(req[r].who)
        <5>1. PICK q : q = [req[r] EXCEPT !.pc = "counted"]
          OBVIOUS
        <5>2. req'[r] = q
          BY <1>1, <4>1, <5>1 DEF CountCredentials
        <5>3. q.who = req[r].who
          BY <1>1, <5>1 DEF ReqType
        <5> QED BY <1>3, <4>1, <5>2, <5>3
      <4>2. CASE ~BelowLimit(req[r].who)
        <5>1. req'[r] = Idle
          BY <1>1, <4>2 DEF CountCredentials, Fail
        <5> QED BY <5>1, Basics
      <4> QED BY <4>1, <4>2
    <3> QED BY <3>1, <3>2 DEF Issuing
  <2> QED BY <1>2, <2>1, KeysShrink
<1>4. CASE BelowLimit(req[r].who) /\ req[r].who = u
  <2>1. PICK H, B : H = HeldBy(u) /\ B = Issuing(u)'
    OBVIOUS
  <2>2. Cardinality(H) < MaxKeys /\ IsFiniteSet(H)
    BY <1>4, <2>1 DEF BelowLimit, CountActive, HeldBy, KeysBounded
  <2>3. Cardinality(H) \in Nat
    BY <2>2, FS_CardinalityType
  <2>4. /\ Cardinality(B) \in Nat /\ Cardinality(Requests) \in Nat
        /\ Cardinality(B) <= Cardinality(Requests)
    <3>1. B \subseteq Requests
      BY <2>1 DEF Issuing
    <3> QED BY <3>1, IssuingCount
  <2>5. Cardinality(H) + Cardinality(B) < MaxKeys + Cardinality(Requests)
    BY <2>2, <2>3, <2>4, CredentialsAssumption
  <2> QED BY <1>2, <2>1, <2>2, <2>5 DEF KeysBounded
<1> QED BY <1>3, <1>4

(* An admitted issue writes its credential, or finds the name taken.       *)
LEMMA CreateCredentialKeepsBound ==
  ASSUME IsFiniteSet(Requests), CredInv, NEW r \in Requests, CreateCredential(r),
         NEW u \in Subjects, KeysBounded(u)
  PROVE  KeysBounded(u)'
<1>1. /\ req[r].pc = "counted" /\ req \in [Requests -> ReqType]
      /\ cred \in [CredIds -> Creds \cup {NoCred}]
  BY DEF CreateCredential, CredInv, TypeOK
<1>2. /\ \A q \in Requests : q # r => req'[q] = req[q]
      /\ req'[r].pc # "counted"
  <2>1. CASE Fail(r)
    BY <1>1, <2>1, Basics DEF Fail
  <2>2. ASSUME NEW c \in CredIds, Conclude(r, c)
        PROVE  /\ \A q \in Requests : q # r => req'[q] = req[q]
               /\ req'[r].pc # "counted"
    <3>1. PICK q : q = [req[r] EXCEPT !.pc = "audit", !.on = c, !.name = "none"]
      OBVIOUS
    <3>2. req' = [req EXCEPT ![r] = q]
      BY <1>1, <2>2, <3>1 DEF Conclude
    <3>3. q.pc = "audit"
      BY <1>1, <3>1 DEF ReqType
    <3> QED BY <1>1, <3>2, <3>3
  <2> QED BY <2>1, <2>2 DEF CreateCredential
<1>3. Issuing(u)' = Issuing(u) \ {r}
  BY <1>2 DEF Issuing
<1>4. CASE UNCHANGED cred
  <2>1. HeldBy(u)' = HeldBy(u)
    BY <1>4 DEF HeldBy, Live
  <2> QED BY <1>3, <2>1, KeysShrink
<1>5. ASSUME NEW c \in CredIds, NEW k \in Secrets,
             cred' = [cred EXCEPT ![c] = NewCred(req[r].who, req[r].name, k)]
      PROVE  KeysBounded(u)'
  <2>1. /\ cred'[c].owner = req[r].who
        /\ \A d \in CredIds : d # c => cred'[d] = cred[d]
    BY <1>1, <1>5 DEF NewCred
  <2>2. CASE req[r].who # u
    <3>1. HeldBy(u)' \subseteq HeldBy(u)
      BY <2>1, <2>2 DEF HeldBy, Live
    <3> QED BY <1>3, <3>1, KeysShrink
  <2>3. CASE req[r].who = u
    <3>1. PICK H, J, A, B : H = HeldBy(u) /\ J = HeldBy(u)' /\ A = Issuing(u) /\ B = Issuing(u)'
      OBVIOUS
    <3>2. IsFiniteSet(H) /\ Cardinality(H) + Cardinality(A) < MaxKeys + Cardinality(Requests)
      BY <3>1 DEF KeysBounded
    <3>3. J \subseteq H \cup {c}
      BY <2>1, <3>1 DEF HeldBy, Live
    <3>4. /\ IsFiniteSet(J) /\ Cardinality(J) \in Nat /\ Cardinality(H) \in Nat
          /\ Cardinality(J) <= Cardinality(H) + 1
      <4>1. /\ IsFiniteSet(H \cup {c}) /\ Cardinality(H) \in Nat
            /\ Cardinality(H \cup {c}) <= Cardinality(H) + 1
        <5>1. Cardinality(H) \in Nat
          BY <3>2, FS_CardinalityType
        <5>2. /\ IsFiniteSet(H \cup {c})
              /\ Cardinality(H \cup {c}) = IF c \in H THEN Cardinality(H) ELSE Cardinality(H) + 1
          BY <3>2, FS_AddElement
        <5> QED BY <5>1, <5>2
      <4>2. IsFiniteSet(J) /\ Cardinality(J) <= Cardinality(H \cup {c})
        BY <3>3, <4>1, FS_Subset
      <4>3. Cardinality(J) \in Nat /\ Cardinality(H \cup {c}) \in Nat
        BY <4>1, <4>2, FS_CardinalityType
      <4> QED BY <4>1, <4>2, <4>3
    <3>5. /\ Cardinality(A) \in Nat /\ Cardinality(B) = Cardinality(A) - 1
          /\ Cardinality(Requests) \in Nat
      <4>1. r \in A /\ A \subseteq Requests /\ B = A \ {r}
        BY <1>1, <1>3, <2>3, <3>1 DEF Issuing
      <4> QED BY <4>1, IssuingCount, FS_RemoveElement
    <3>6. Cardinality(J) + Cardinality(B) < MaxKeys + Cardinality(Requests)
      BY <3>2, <3>4, <3>5, CredentialsAssumption
    <3> QED BY <3>1, <3>4, <3>6 DEF KeysBounded
  <2> QED BY <2>2, <2>3
<1> QED BY <1>4, <1>5 DEF CreateCredential

(* No other step makes a credential live or admits an issue.               *)
LEMMA StatusKeepsBound ==
  ASSUME IsFiniteSet(Requests), CredInv, NEW u \in Subjects, KeysBounded(u),
         Issuing(u)' \subseteq Issuing(u),
         \/ UNCHANGED cred
         \/ \E c \in CredIds, status \in {"disabled", "revoked"} : UpdateStatus(c, status)
         \/ \E c \in CredIds : cred' = [cred EXCEPT ![c].expired = TRUE]
  PROVE  KeysBounded(u)'
<1>1. cred \in [CredIds -> Creds \cup {NoCred}]
  BY DEF CredInv, TypeOK
<1>2. HeldBy(u)' \subseteq HeldBy(u)
  <2>1. CASE UNCHANGED cred
    BY <2>1 DEF HeldBy, Live
  <2>2. ASSUME NEW c \in CredIds, NEW status \in {"disabled", "revoked"}, UpdateStatus(c, status)
        PROVE  HeldBy(u)' \subseteq HeldBy(u)
    <3>1. /\ cred[c] \in Creds \cup {NoCred}
          /\ cred'[c] = [cred[c] EXCEPT !.status = status]
          /\ \A d \in CredIds : d # c => cred'[d] = cred[d]
      BY <1>1, <2>2 DEF UpdateStatus
    <3>2. cred'[c].status # "active"
      BY <3>1 DEF Creds, NoCred
    <3> QED BY <3>1, <3>2 DEF HeldBy, Live
  <2>3. ASSUME NEW c \in CredIds, cred' = [cred EXCEPT ![c].expired = TRUE]
        PROVE  HeldBy(u)' \subseteq HeldBy(u)
    <3>1. /\ cred[c] \in Creds \cup {NoCred}
          /\ cred'[c] = [cred[c] EXCEPT !.expired = TRUE]
          /\ \A d \in CredIds : d # c => cred'[d] = cred[d]
      BY <1>1, <2>3
    <3>2. cred'[c].expired
      BY <3>1 DEF Creds, NoCred
    <3> QED BY <3>1, <3>2 DEF HeldBy, Live
  <2> QED BY <2>1, <2>2, <2>3
<1> QED BY <1>2, KeysShrink

LEMMA IssueNext ==
  ASSUME IsFiniteSet(Requests), "rotate" \notin Ops, CredInv, IssueInv, [Next]_vars
  PROVE  IssueInv'
<1>1. req \in [Requests -> ReqType]
  BY DEF CredInv, TypeOK
<1>2. CASE UNCHANGED vars
  <2>1. ASSUME NEW u \in Subjects PROVE KeysBounded(u)'
    BY <1>2, <2>1, StatusKeepsBound DEF vars, IssueInv, Issuing
  <2> QED BY <1>2, <2>1 DEF vars, IssueInv, NobodyRotates
<1>3. ASSUME NEW u \in Subjects, NEW w \in Words,
             CasdoorSays(u, w) \/ TokenExpires(u, w) \/ RefuseToken(u, w)
      PROVE  IssueInv'
  <2>1. UNCHANGED <<cred, req>>
    BY <1>3 DEF CasdoorSays, TokenExpires, RefuseToken
  <2>2. ASSUME NEW v \in Subjects PROVE KeysBounded(v)'
    BY <2>1, StatusKeepsBound DEF IssueInv, Issuing
  <2> QED BY <2>1, <2>2 DEF IssueInv, NobodyRotates
<1>4. ASSUME NEW c \in CredIds, CredentialExpires(c) PROVE IssueInv'
  <2>1. ASSUME NEW v \in Subjects PROVE KeysBounded(v)'
    BY <1>4, StatusKeepsBound DEF IssueInv, Issuing, CredentialExpires
  <2> QED BY <1>4, <2>1 DEF IssueInv, NobodyRotates, CredentialExpires
<1>5. ASSUME NEW r \in Requests, NEW q, req' = [req EXCEPT ![r] = q], q.op # "rotate",
             \/ CountCredentials(r) \/ CreateCredential(r)
             \/ /\ q.pc # "counted"
                /\ \/ UNCHANGED cred
                   \/ \E c \in CredIds, status \in {"disabled", "revoked"} : UpdateStatus(c, status)
      PROVE  IssueInv'
  <2>1. NobodyRotates'
    BY <1>1, <1>5 DEF IssueInv, NobodyRotates
  <2>2. ASSUME NEW v \in Subjects PROVE KeysBounded(v)'
    <3>1. q.pc # "counted" => Issuing(v)' \subseteq Issuing(v)
      BY <1>1, <1>5 DEF Issuing
    <3> QED BY <1>5, <3>1, CountCredentialsKeepsBound, CreateCredentialKeepsBound,
               StatusKeepsBound DEF IssueInv
  <2> QED BY <2>1, <2>2 DEF IssueInv
<1>6. Idle.op = "none" /\ Idle.pc = "idle"
  BY DEF Idle
<1>7. ASSUME NEW r \in Requests, req' = [req EXCEPT ![r] = Idle], UNCHANGED cred
      PROVE  IssueInv'
  BY <1>5, <1>6, <1>7
<1>8. ASSUME NEW u \in Subjects, NEW w \in Words, NEW r \in Requests, NEW op \in Ops,
             NEW c \in CredIds, NEW name \in Names, AcceptToken(r, u, w, op, c, name)
      PROVE  IssueInv'
  <2>1. PICK q : q = [pc |-> "signed", op |-> op, who |-> u,
                     on |-> IF op = "issue" THEN NoCredId ELSE c,
                     name |-> IF op = "issue" THEN name ELSE "none", key |-> 0]
    OBVIOUS
  <2>2. UNCHANGED cred /\ (req' = [req EXCEPT ![r] = q] \/ req' = req) /\ req[r] = Idle
    BY <1>8, <2>1 DEF AcceptToken
  <2>3. q.op # "rotate" /\ q.pc = "signed"
    BY <2>1
  <2>4. req' = req => req' = [req EXCEPT ![r] = Idle]
    BY <1>1, <2>2
  <2> QED BY <1>5, <1>7, <2>2, <2>3, <2>4
<1>9. ASSUME NEW r \in Requests, RotateCredential(r) PROVE IssueInv'
  BY <1>9 DEF RotateCredential, IssueInv, NobodyRotates
<1>10. ASSUME NEW r \in Requests, CountCredentials(r) PROVE IssueInv'
  <2>1. PICK q : q = [req[r] EXCEPT !.pc = "counted"]
    OBVIOUS
  <2>2. req' = [req EXCEPT ![r] = q] \/ req' = [req EXCEPT ![r] = Idle]
    BY <1>1, <1>10, <2>1 DEF CountCredentials, Fail
  <2>3. q.op # "rotate"
    BY <1>1, <2>1 DEF IssueInv, NobodyRotates, ReqType
  <2> QED BY <1>5, <1>6, <1>10, <2>2, <2>3
<1>11. ASSUME NEW r \in Requests, NEW c \in CredIds, Conclude(r, c)
       PROVE  \E q : req' = [req EXCEPT ![r] = q] /\ q.op # "rotate" /\ q.pc = "audit"
  <2>1. PICK q : q = [req[r] EXCEPT !.pc = "audit", !.on = c, !.name = "none"]
    OBVIOUS
  <2>2. req' = [req EXCEPT ![r] = q]
    BY <1>1, <1>11, <2>1 DEF Conclude
  <2>3. q.op # "rotate" /\ q.pc = "audit"
    BY <1>1, <2>1 DEF IssueInv, NobodyRotates, ReqType
  <2> QED BY <2>2, <2>3
<1>12. ASSUME NEW r \in Requests, CreateCredential(r) PROVE IssueInv'
  <2>1. Fail(r) \/ \E c \in CredIds : Conclude(r, c)
    BY <1>12 DEF CreateCredential
  <2> QED BY <1>5, <1>6, <1>11, <1>12, <2>1 DEF Fail
<1>13. ASSUME NEW r \in Requests, SetStatus(r) PROVE IssueInv'
  <2>1. CASE Fail(r) /\ UNCHANGED cred
    BY <1>7, <2>1 DEF Fail
  <2>2. CASE Owned(r) /\ Conclude(r, req[r].on) /\ UpdateStatus(req[r].on, StatusAfter(req[r].op))
    <3>1. req[r].on \in CredIds
      BY <1>13, <2>2, OwnedExists DEF SetStatus
    <3>2. StatusAfter(req[r].op) \in {"disabled", "revoked"}
      BY DEF StatusAfter
    <3> QED BY <1>5, <1>11, <2>2, <3>1, <3>2
  <2> QED BY <1>13, <2>1, <2>2 DEF SetStatus
<1>14. ASSUME NEW r \in Requests, AdminDisable(r) PROVE IssueInv'
  <2>1. req[r].on \in CredIds /\ req' = [req EXCEPT ![r] = Idle]
    BY <1>14 DEF AdminDisable, CredInv, TypeOK, WellFormed
  <2> QED BY <1>5, <1>6, <1>14, <2>1 DEF AdminDisable
<1>15. ASSUME NEW r \in Requests, RecordAudit(r) \/ Serve(r) \/ Abort(r) PROVE IssueInv'
  BY <1>7, <1>15 DEF RecordAudit, Serve, Abort
<1>16. ASSUME NEW r \in Requests, NEW k \in Secrets, VerifyKey(r, k) PROVE IssueInv'
  <2>1. PICK c \in CredIds :
          req' = [req EXCEPT ![r] = [Idle EXCEPT !.pc = "native", !.key = k,
                                                 !.who = cred[c].owner, !.on = c]]
    BY <1>16 DEF VerifyKey, WithKey
  <2>2. PICK q : q = [Idle EXCEPT !.pc = "native", !.key = k, !.who = cred[c].owner, !.on = c]
    OBVIOUS
  <2>3. q.pc = "native" /\ q.op = "none"
    BY <2>2 DEF Idle
  <2> QED BY <1>5, <1>16, <2>1, <2>2, <2>3 DEF VerifyKey
<1> QED BY <1>2, <1>3, <1>4, <1>8, <1>9, <1>10, <1>12, <1>13, <1>14, <1>15, <1>16 DEF Next

LEMMA IssueInit ==
  ASSUME IsFiniteSet(Requests), Requests # {}, Init
  PROVE  IssueInv
<1>1. NobodyRotates /\ \A u \in Subjects : HeldBy(u) = {} /\ Issuing(u) = {}
  BY Basics DEF Init, NobodyRotates, HeldBy, Issuing, Live, Idle
<1>2. /\ IsFiniteSet({}) /\ Cardinality({}) = 0
      /\ Cardinality(Requests) \in Nat /\ Cardinality(Requests) # 0
  BY FS_EmptySet, FS_CardinalityType
<1>3. 0 + 0 < MaxKeys + Cardinality(Requests)
  BY <1>2, CredentialsAssumption
<1> QED BY <1>1, <1>2, <1>3 DEF IssueInv, KeysBounded

(* Concurrent issues that each count before the others write push a user   *)
(* past the limit by one for each other request in progress at most, as    *)
(* long as nobody rotates (issue_cloud_sandbox_credential counts in one    *)
(* transaction and writes in another).                                     *)
THEOREM KeyLimitCorrect ==
  ASSUME IsFiniteSet(Requests), Requests # {}
  PROVE  Spec => []OvershootBounded
<1>1. CASE "rotate" \in Ops
  <2>1. OvershootBounded
    BY <1>1 DEF OvershootBounded
  <2> QED BY <2>1, PTL
<1>2. CASE "rotate" \notin Ops
  <2>1. IssueInv => OvershootBounded
    <3> SUFFICES ASSUME IssueInv, NEW u \in Subjects
                 PROVE  CountActive(u) < MaxKeys + Cardinality(Requests)
      BY DEF OvershootBounded
    <3>1. PICK H, A : H = HeldBy(u) /\ A = Issuing(u)
      OBVIOUS
    <3>2. IsFiniteSet(H) /\ Cardinality(H) + Cardinality(A) < MaxKeys + Cardinality(Requests)
      BY <3>1 DEF IssueInv, KeysBounded
    <3>3. A \subseteq Requests /\ CountActive(u) = Cardinality(H)
      BY <3>1 DEF Issuing, CountActive, HeldBy
    <3>4. Cardinality(H) \in Nat /\ Cardinality(A) \in Nat /\ Cardinality(Requests) \in Nat
      BY <3>2, <3>3, IssuingCount, FS_CardinalityType
    <3> QED BY <3>2, <3>3, <3>4, CredentialsAssumption
  <2>2. Init => IssueInv
    BY IssueInit
  <2>3. CredInv /\ IssueInv /\ [Next]_vars => IssueInv'
    BY <1>2, IssueNext
  <2> QED BY <2>1, <2>2, <2>3, TableCorrect, PTL DEF Spec
<1> QED BY <1>1, <1>2
=============================================================================
