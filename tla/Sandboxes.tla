------------------------------ MODULE Sandboxes ------------------------------
(***************************************************************************)
(* The native sandbox API of the control plane: the request handlers of    *)
(* api/native/sandboxes.py, the sandbox index they keep in PostgreSQL      *)
(* (sandboxes/service.py, sandboxes/repository.py) and the OpenSandbox     *)
(* backend they forward to.                                                *)
(*                                                                         *)
(* A handler is a coroutine: it yields at every await, so that the         *)
(* handlers of several requests interleave between                         *)
(*   1. the read that admits the request (quota counts, or the owned row), *)
(*   2. the moment the backend serves the forwarded call,                  *)
(*   3. the commit that records the backend's answer, and                  *)
(*   4. the commit of the audit event.                                     *)
(* Each is one step here.  The caller is already authenticated: module     *)
(* Credentials models how a key becomes a subject.                         *)
(***************************************************************************)
EXTENDS Naturals, FiniteSets

CONSTANTS
  Requests,      \* the requests that can be in progress at once
  Subjects,      \* the users, by subject_id
  SandboxIds,    \* the ids the backend gives to sandboxes
  NoOne,         \* no subject
  NoId,          \* no sandbox id
  MaxRunning,    \* max_running_sandboxes of every user's effective quota
  Ops,           \* the operations the clients call
  BirthStates,   \* the states a new sandbox can be in
  BackendMoves,  \* what a sandbox does by itself: pairs <<from, to>>
  ReuseIds,      \* may the backend give the id of a vanished sandbox again?
  MaxLate,       \* bound: abandoned calls still on their way
  KeptOps        \* bound: the successful operations whose audit is kept

(* "stray" is a proxied request too, one whose remaining path leads away   *)
(* from the sandbox it begins with (see BackendPath).                      *)
AllOps == {"create", "get", "delete", "patch", "pause", "resume", "renew",
           "endpoint", "proxy", "stray"}
ProxyOps == {"proxy", "stray"}

(* The states the backend reports (the keys of normalize_state's mapping); *)
(* "unborn" is an id not given yet, "gone" one the backend answers 404 to. *)
RawStates == {"pending", "running", "pausing", "paused", "resuming",
              "stopping", "stopped", "terminated", "failed", "deleted"}
LiveStates == {"pending", "running", "pausing", "paused", "resuming",
               "stopping"}
BackendStates == RawStates \cup {"unborn", "gone"}

(* The states from which a sandbox runs, or can run again.                 *)
RunnableStates == LiveStates \ {"stopping"}

ASSUME ConstantsAssumption ==
  /\ NoOne \notin Subjects
  /\ NoId \notin SandboxIds
  /\ MaxRunning \in Nat
  /\ Ops \subseteq AllOps
  /\ ReuseIds \in BOOLEAN
  /\ MaxLate \in Nat
  /\ KeptOps \subseteq {"create", "delete"}

(* The backend never revives a sandbox that stopped, failed or vanished,   *)
(* and one that is stopping does nothing but stop.                         *)
ASSUME BackendAssumption ==
  /\ BirthStates \subseteq LiveStates
  /\ BackendMoves \subseteq RawStates \X (RawStates \cup {"gone"})
  /\ \A m \in BackendMoves : /\ m[2] \in LiveStates => m[1] \in LiveStates
                             /\ m[2] \in RunnableStates => m[1] \in RunnableStates

VARIABLES
  row,      \* the sandbox index: one row per id, or NoRow
  req,      \* what the handler of each request is doing
  backend,  \* the backend's state of each sandbox
  maker,    \* history: the subject whose create made each sandbox
  late,     \* per request slot, a call its handler no longer waits for
  audit,    \* the audit events of successful creates and deletes
  revived   \* history: the rows an update made active again

vars == <<row, req, backend, maker, late, audit, revived>>

-----------------------------------------------------------------------------
(* The index.                                                              *)

RowStates == {"pending", "running", "paused", "stopping", "stopped",
              "failed", "deleted", "unknown"}
ActiveStates == {"pending", "running", "paused", "stopping", "unknown"}

NoRow == [owner |-> NoOne, state |-> "none", terminated |-> FALSE]
Rows == [owner : Subjects, state : RowStates, terminated : BOOLEAN]

(* What the control plane calls a state the backend reports; a reply       *)
(* without a state reads as "unknown".                                     *)
NormalizeState(value) ==
  IF value \in RowStates           THEN value
  ELSE IF value = "pausing"        THEN "running"
  ELSE IF value = "resuming"       THEN "paused"
  ELSE IF value = "terminated"     THEN "stopped"
  ELSE "unknown"

ActiveRows(u) == {s \in SandboxIds : /\ row[s].owner = u
                                     /\ row[s].state \in ActiveStates}
CountActive(u) == Cardinality(ActiveRows(u))

-----------------------------------------------------------------------------
(* Requests in progress.                                                   *)

Pcs == {"idle", "call", "reply", "audit"}
Statuses == {"none", "2xx", "3xx", "4xx", "5xx"}
Bodies == RawStates \cup {"stateless", "empty"}
Decisions == {"none", "allow", "deny", "error"}

Idle == [pc |-> "idle", op |-> "get", who |-> NoOne, sb |-> NoId,
         status |-> "none", body |-> "empty", decision |-> "none"]

NoCall == [op |-> "get", who |-> NoOne, sb |-> NoId]

ReqType == [pc : Pcs, op : AllOps, who : Subjects \cup {NoOne},
            sb : SandboxIds \cup {NoId}, status : Statuses, body : Bodies,
            decision : Decisions]
CallType == [op : AllOps, who : Subjects \cup {NoOne},
             sb : SandboxIds \cup {NoId}]
EventType == [who : Subjects, op : {"create", "delete"}, sb : SandboxIds]

Call(r) == [op |-> req[r].op, who |-> req[r].who, sb |-> req[r].sb]

Forward(r, u, op, s) ==
  req' = [req EXCEPT ![r] = [Idle EXCEPT !.pc = "call", !.op = op,
                                         !.who = u, !.sb = s]]

(* The handler is done but for its audit event.  Of an event the model     *)
(* does not keep only the decision is remembered.                          *)
Pending(u, op, s, decision) ==
  IF decision = "allow" /\ op \in KeptOps
  THEN [Idle EXCEPT !.pc = "audit", !.decision = decision, !.op = op,
                    !.who = u, !.sb = s]
  ELSE [Idle EXCEPT !.pc = "audit", !.decision = decision]
Conclude(r, decision) ==
  req' = [req EXCEPT ![r] = Pending(@.who, @.op, @.sb, decision)]
Deny(r) == req' = [req EXCEPT ![r] = Pending(NoOne, "get", NoId, "deny")]
Finish(r) == req' = [req EXCEPT ![r] = Idle]

(* Which handlers audit a 404 of their own, survive a failing backend     *)
(* call, and audit the backend's answer.                                   *)
AuditsNotFound == {"get", "delete"}
CatchesBackendError == {"create", "get", "delete"}
AuditsReply(op, status) ==
  \/ op \notin {"get"} \cup ProxyOps
  \/ op = "get" /\ status \in {"4xx", "5xx"}

(* Mutant: every answer below 500 counts as allowed.                       *)
DecisionFromStatus_Below500(status) ==
  IF status # "5xx" THEN "allow" ELSE "error"

DecisionFromStatus(status) ==
  IF status = "2xx" THEN "allow"
  ELSE IF status \in {"3xx", "4xx"} THEN "deny"
  ELSE "error"

-----------------------------------------------------------------------------
(* Admission.                                                              *)

(* Mutant: the limit compared with the wrong sign.                         *)
BelowLimit_OffByOne(u) == CountActive(u) <= MaxRunning

BelowLimit(u) == CountActive(u) < MaxRunning

(* POST /sandboxes: count the active rows, then wait for the backend.  The *)
(* creation rate and the timeout policy may refuse what the limit allows   *)
(* (module Quotas has them).                                               *)
EnforceQuota(r, u) ==
  /\ "create" \in Ops
  /\ req[r] = Idle
  /\ \/ BelowLimit(u) /\ Forward(r, u, "create", NoId)
     \/ Deny(r)
  /\ UNCHANGED <<row, backend, maker, late, audit, revived>>

(* Mutant: the row looked up by its id alone.                              *)
Owned_ById(u, s) == row[s] # NoRow

Owned(u, s) == row[s].owner = u

(* What the path of a forwarded call names at the backend, or NoId for no  *)
(* sandbox.  The handler puts the id of the row in its place and leaves    *)
(* what follows as the caller wrote it.  Only a proxied call has a free    *)
(* remainder; httpx resolves the dot segments in it.                       *)
BackendPath(op, s) == IF op = "stray" THEN SandboxIds \cup {NoId} ELSE {s}

(* Every other operation: the caller's own row, in whatever state it is,   *)
(* or 404.  A 404 that is not audited leaves no trace and is no step.      *)
EnsureOwned(r, u, op, s) ==
  /\ op # "create"
  /\ req[r] = Idle
  /\ \/ Owned(u, s) /\ \E t \in BackendPath(op, s) : Forward(r, u, op, t)
     \/ /\ ~Owned(u, s)
        /\ op \in AuditsNotFound
        /\ Deny(r)
  /\ UNCHANGED <<row, backend, maker, late, audit, revived>>

-----------------------------------------------------------------------------
(* The backend, external to the repository: what its callers rely on.      *)

Fresh(s) == backend[s] = "unborn" \/ (ReuseIds /\ backend[s] = "gone")

Accepts(op, b) ==
  \/ op = "pause" /\ b = "running"
  \/ op = "resume" /\ b = "paused"
  \/ op \in {"renew", "endpoint", "proxy"} /\ b \in LiveStates
  \/ op \in {"get", "delete", "patch"} /\ b \in RawStates

(* The states a call may leave a sandbox in: the backend answers when what *)
(* it was asked is done, or has begun.                                     *)
Afters(op, b) ==
  IF op = "pause" THEN {"pausing", "paused"}
  ELSE IF op = "resume" THEN {"resuming", "running"}
  ELSE IF op = "delete" THEN {"gone", IF b \in LiveStates THEN "stopping" ELSE b}
  ELSE {b}

(* A stray call is, to the backend, any call on the sandbox it names.      *)
Meanings(op) == IF op = "stray" THEN AllOps \ {"create", "stray"} ELSE {op}
Effects(op, b) == UNION {Afters(o, b) : o \in {m \in Meanings(op) : Accepts(m, b)}}

(* The bodies a successful answer can have: a sandbox with its state, an   *)
(* object without a state, nothing.  Only patch and renew read them.       *)
AnswerBodies(op, b) ==
  {"empty"} \cup (IF op \in {"patch", "renew"} THEN {b, "stateless"} ELSE {})

(* The calls that make a sandbox.                                          *)
Creates(c) == c.op = "create" \/ (c.op = "stray" /\ c.sb = NoId)

Make(s, u, b) ==
  /\ Fresh(s)
  /\ backend' = [backend EXCEPT ![s] = b]
  /\ maker' = [maker EXCEPT ![s] = u]

Answered(r, status, body, s) ==
  req' = [req EXCEPT ![r].pc = "reply", ![r].status = status,
                     ![r].body = body, ![r].sb = s]

(* A create succeeds: the answer holds the id, or fails to.                *)
BackendCreates(r) ==
  /\ req[r].pc = "call" /\ Creates(Call(r))
  /\ \E s \in SandboxIds, b \in BirthStates :
       /\ Make(s, req[r].who, b)
       /\ \/ \E body \in {b, "stateless"} : Answered(r, "2xx", body, s)
          \/ Answered(r, "2xx", b, NoId)
  /\ UNCHANGED <<row, late, audit, revived>>

(* Another call succeeds on the sandbox it names.                          *)
BackendServes(r) ==
  LET s == req[r].sb
      op == req[r].op
  IN /\ req[r].pc = "call" /\ ~Creates(Call(r))
     /\ \E b \in Effects(op, backend[s]) :
          /\ backend' = [backend EXCEPT ![s] = b]
          /\ \E body \in AnswerBodies(op, b) : Answered(r, "2xx", body, s)
     /\ UNCHANGED <<row, maker, late, audit, revived>>

BackendRefuses(r) ==
  /\ req[r].pc = "call"
  /\ \E status \in {"3xx", "4xx", "5xx"} : Answered(r, status, "empty", req[r].sb)
  /\ UNCHANGED <<row, backend, maker, late, audit, revived>>

(* What a sandbox does by itself: start, expire, fail, vanish.             *)
BackendMove(s) ==
  /\ \E b \in RawStates \cup {"gone"} :
       /\ <<backend[s], b>> \in BackendMoves
       /\ backend' = [backend EXCEPT ![s] = b]
  /\ UNCHANGED <<row, req, maker, late, audit, revived>>

(* httpx gives up (60 s without a connection or a byte of the answer, or a *)
(* broken connection).  The call itself may still land, or not.            *)
MayAbandon(r) == /\ late[r] = NoCall
                 /\ Cardinality({q \in Requests : late[q] # NoCall}) < MaxLate

Abandon(r) == late' = [late EXCEPT ![r] = Call(r)]

CallFails(r) ==
  /\ req[r].pc = "call"
  /\ MayAbandon(r)
  /\ Abandon(r)
  /\ IF req[r].op \in CatchesBackendError THEN Conclude(r, "error")
                                          ELSE Finish(r)
  /\ UNCHANGED <<row, backend, maker, audit, revived>>

LateCallLands(r) ==
  LET c == late[r]
  IN /\ c # NoCall
     /\ \/ /\ Creates(c)
           /\ \E s \in SandboxIds, b \in BirthStates : Make(s, c.who, b)
        \/ /\ ~Creates(c)
           /\ \E b \in Effects(c.op, backend[c.sb]) :
                backend' = [backend EXCEPT ![c.sb] = b]
           /\ UNCHANGED maker
     /\ late' = [late EXCEPT ![r] = NoCall]
     /\ UNCHANGED <<row, req, audit, revived>>

LateCallDropped(r) ==
  /\ late[r] # NoCall
  /\ late' = [late EXCEPT ![r] = NoCall]
  /\ UNCHANGED <<row, req, backend, maker, audit, revived>>

-----------------------------------------------------------------------------
(* Recording the answer.                                                   *)

NewRow(u, body) == [owner |-> u, state |-> NormalizeState(body),
                    terminated |-> FALSE]

Replied(r, ops) == /\ req[r].pc = "reply"
                   /\ req[r].status = "2xx"
                   /\ req[r].op \in ops

(* Mutant: the insert became an upsert.                                    *)
RecordCreated_Upsert(r) ==
  LET s == req[r].sb
  IN /\ Replied(r, {"create"})
     /\ \/ s = NoId /\ Conclude(r, "error") /\ UNCHANGED row
        \/ /\ s # NoId
           /\ row' = [row EXCEPT ![s] = NewRow(req[r].who, req[r].body)]
           /\ Conclude(r, "allow")
     /\ UNCHANGED <<backend, maker, late, audit, revived>>

(* Mutant: the conflict audited as what the backend answered.              *)
RecordCreated_ConflictAllowed(r) ==
  LET s == req[r].sb
  IN /\ Replied(r, {"create"})
     /\ \/ s = NoId /\ Conclude(r, "error") /\ UNCHANGED row
        \/ /\ s # NoId /\ row[s] # NoRow
           /\ Conclude(r, "allow") /\ UNCHANGED row
        \/ /\ s # NoId /\ row[s] = NoRow
           /\ row' = [row EXCEPT ![s] = NewRow(req[r].who, req[r].body)]
           /\ Conclude(r, "allow")
     /\ UNCHANGED <<backend, maker, late, audit, revived>>

(* The index row of a new sandbox, unless the answer lacks the id (502) or *)
(* the id is indexed already (409).                                        *)
RecordCreated(r) ==
  LET s == req[r].sb
  IN /\ Replied(r, {"create"})
     /\ \/ s = NoId /\ Conclude(r, "error") /\ UNCHANGED row
        \/ /\ s # NoId /\ row[s] # NoRow
           /\ Conclude(r, "deny") /\ UNCHANGED row
        \/ /\ s # NoId /\ row[s] = NoRow
           /\ row' = [row EXCEPT ![s] = NewRow(req[r].who, req[r].body)]
           /\ Conclude(r, "allow")
     /\ UNCHANGED <<backend, maker, late, audit, revived>>

(* Mutant: the row marked deleted whatever the backend answered.           *)
RecordDeleted_AnyStatus(r) ==
  /\ req[r].pc = "reply" /\ req[r].op = "delete"
  /\ row' = [row EXCEPT ![req[r].sb].state = "deleted",
                        ![req[r].sb].terminated = TRUE]
  /\ Conclude(r, "allow")
  /\ UNCHANGED <<backend, maker, late, audit, revived>>

RecordDeleted(r) ==
  /\ Replied(r, {"delete"})
  /\ row' = [row EXCEPT ![req[r].sb].state = "deleted",
                        ![req[r].sb].terminated = TRUE]
  /\ Conclude(r, "allow")
  /\ UNCHANGED <<backend, maker, late, audit, revived>>

(* An update of the state, whatever state the row has by now.              *)
UpdateIndex(r, state) ==
  LET s == req[r].sb
  IN /\ row' = [row EXCEPT ![s].state = state]
     /\ revived' = IF row[s].state \notin ActiveStates /\ state \in ActiveStates
                   THEN revived \cup {s}
                   ELSE revived

(* pause and resume record the state they asked for.                       *)
RecordState(r) ==
  /\ Replied(r, {"pause", "resume"})
  /\ UpdateIndex(r, IF req[r].op = "pause" THEN "paused" ELSE "running")
  /\ Conclude(r, "allow")
  /\ UNCHANGED <<backend, maker, late, audit>>

(* Mutant: the backend's word for the state stored as it came.             *)
RecordPayload_Raw(r) ==
  /\ Replied(r, {"patch", "renew"})
  /\ IF req[r].body = "empty" THEN UNCHANGED <<row, revived>>
     ELSE UpdateIndex(r, req[r].body)
  /\ Conclude(r, "allow")
  /\ UNCHANGED <<backend, maker, late, audit>>

(* patch and renew record the state in the answer, if there is a body.     *)
RecordPayload(r) ==
  /\ Replied(r, {"patch", "renew"})
  /\ IF req[r].body = "empty" THEN UNCHANGED <<row, revived>>
     ELSE UpdateIndex(r, NormalizeState(req[r].body))
  /\ Conclude(r, "allow")
  /\ UNCHANGED <<backend, maker, late, audit>>

(* Mutant: a refused write falls through every branch of its handler.      *)
PassOn_ReadsOnly(r) ==
  LET op == req[r].op
      status == req[r].status
  IN /\ req[r].pc = "reply"
     /\ op \in {"get", "endpoint"} \cup ProxyOps
     /\ IF AuditsReply(op, status) THEN Conclude(r, DecisionFromStatus(status))
                                   ELSE Finish(r)
     /\ UNCHANGED <<row, backend, maker, late, audit, revived>>

(* Nothing to record: a refusal, or an operation that only reads.          *)
PassOn(r) ==
  LET op == req[r].op
      status == req[r].status
  IN /\ req[r].pc = "reply"
     /\ status # "2xx" \/ op \in {"get", "endpoint"} \cup ProxyOps
     /\ IF AuditsReply(op, status) THEN Conclude(r, DecisionFromStatus(status))
                                   ELSE Finish(r)
     /\ UNCHANGED <<row, backend, maker, late, audit, revived>>

-----------------------------------------------------------------------------
(* The audit event, in a transaction of its own whose failure is swallowed. *)

Event(r) == [who |-> req[r].who, op |-> req[r].op, sb |-> req[r].sb]
Kept(r) == req[r].decision = "allow" /\ req[r].op \in KeptOps

RecordAudit(r) ==
  /\ req[r].pc = "audit"
  /\ \/ audit' = IF Kept(r) THEN audit \cup {Event(r)} ELSE audit
     \/ Kept(r) /\ UNCHANGED audit
  /\ Finish(r)
  /\ UNCHANGED <<row, backend, maker, late, revived>>

(* The handler dies between two steps: the database fails, or the process  *)
(* is killed (which does this to every request).  What was committed       *)
(* stays, what was not is rolled back, a call on its way may still land.   *)
Abort(r) ==
  /\ req[r] # Idle
  /\ IF req[r].pc = "call"
     THEN MayAbandon(r) /\ Abandon(r)
     ELSE UNCHANGED late
  /\ Finish(r)
  /\ UNCHANGED <<row, backend, maker, audit, revived>>

-----------------------------------------------------------------------------
Init ==
  /\ row = [s \in SandboxIds |-> NoRow]
  /\ req = [r \in Requests |-> Idle]
  /\ backend = [s \in SandboxIds |-> "unborn"]
  /\ maker = [s \in SandboxIds |-> NoOne]
  /\ late = [r \in Requests |-> NoCall]
  /\ audit = {}
  /\ revived = {}

Record(r) == RecordCreated(r) \/ RecordDeleted(r) \/ RecordState(r)
             \/ RecordPayload(r) \/ PassOn(r)

Next ==
  \/ \E r \in Requests :
       \/ \E u \in Subjects : EnforceQuota(r, u)
       \/ \E u \in Subjects, op \in Ops, s \in SandboxIds :
            EnsureOwned(r, u, op, s)
       \/ BackendCreates(r)
       \/ BackendServes(r)
       \/ BackendRefuses(r)
       \/ CallFails(r)
       \/ LateCallLands(r)
       \/ LateCallDropped(r)
       \/ RecordCreated(r)
       \/ RecordDeleted(r)
       \/ RecordState(r)
       \/ RecordPayload(r)
       \/ PassOn(r)
       \/ RecordAudit(r)
       \/ Abort(r)
  \/ \E s \in SandboxIds : BackendMove(s)

Spec == Init /\ [][Next]_vars

CallEnds(r) == BackendCreates(r) \/ BackendServes(r) \/ BackendRefuses(r)
               \/ CallFails(r)

(* Scheduling: the event loop resumes a handler whose await is over; a     *)
(* call ends, because the backend answers or httpx gives up 60 s after the *)
(* last byte (adapter/client.py; no backend sends an endless answer byte   *)
(* by byte), except a proxied one (adapter/proxy.py has no timeout); an    *)
(* abandoned call ends one way or the other.  Nothing makes clients call.  *)
Fairness ==
  \A r \in Requests :
    /\ WF_vars(Record(r))
    /\ WF_vars(RecordAudit(r))
    /\ WF_vars(req[r].op \notin ProxyOps /\ CallEnds(r))
    /\ WF_vars(LateCallLands(r) \/ LateCallDropped(r))

FairSpec == Spec /\ Fairness

-----------------------------------------------------------------------------
(* Properties.                                                             *)

(* Every variable holds what the code can store in it.                     *)
TypeOK ==
  /\ row \in [SandboxIds -> Rows \cup {NoRow}]
  /\ req \in [Requests -> ReqType]
  /\ backend \in [SandboxIds -> BackendStates]
  /\ maker \in [SandboxIds -> Subjects \cup {NoOne}]
  /\ late \in [Requests -> CallType]
  /\ audit \subseteq EventType
  /\ revived \subseteq SandboxIds

(* The calls that stay on the sandbox whose row was checked.               *)
Named(c) == c.op \notin {"create", "stray"}

(* Such a call, under way or abandoned, is made by the owner of the row it *)
(* names, still so at every later step: the row read before the backend    *)
(* call is used after it (ensure_owned_sandbox).                           *)
ByOwner(c) == Named(c) => c.sb \in SandboxIds /\ row[c.sb].owner = c.who
CallersHoldTheirRows ==
  \A r \in Requests :
    /\ req[r].pc \in {"call", "reply"} => Call(r).who \in Subjects /\ ByOwner(Call(r))
    /\ late[r] # NoCall => late[r].who \in Subjects /\ ByOwner(late[r])

(* Isolation of the index: whatever the interleaving, timeouts, crashes,   *)
(* and whatever stray calls do at the backend, a row belongs to the        *)
(* subject whose create made the sandbox, and no call that stays on the    *)
(* sandbox whose row was checked is under way, or can land late, on one    *)
(* that some other subject made.  Stray calls do reach others' sandboxes:  *)
(* see CallsStayOnOwnSandboxes.                                            *)
RowsNameTheMaker ==
  \A s \in SandboxIds : row[s] # NoRow => row[s].owner = maker[s]
OnOwnSandbox(c) == c.sb \in SandboxIds /\ maker[c.sb] = c.who
CheckedCallsReachOwnSandboxes ==
  \A r \in Requests :
    /\ req[r].pc \in {"call", "reply"} /\ Named(Call(r)) => OnOwnSandbox(Call(r))
    /\ late[r] # NoCall /\ Named(late[r]) => OnOwnSandbox(late[r])
Isolation == RowsNameTheMaker /\ CheckedCallsReachOwnSandboxes

(* How far concurrent requests can push a user past the limit: the count   *)
(* is read before the backend call and the row written after it, so every  *)
(* other create in progress can add one row to those the last admitted     *)
(* create counted, and no more.  Rows that an answer recorded after their  *)
(* end made active again come on top: see QuotaRespected.                  *)
QuotaOvershootBounded ==
  \A u \in Subjects :
    Cardinality(ActiveRows(u) \ revived) < MaxRunning + Cardinality(Requests)

(* A row in a final state (deleted by a delete, stopped or failed by a     *)
(* patch that found it so) stands for a sandbox that will not run again:   *)
(* the update is never that of a call the backend did not carry out, a     *)
(* late one, or one on another sandbox.                                    *)
FinalStates == {"deleted", "stopped", "failed"}
EndedRowsNeverRun ==
  \A s \in SandboxIds :
    row[s].state \in FinalStates => backend[s] \notin RunnableStates

(* What an event says holds of the index.                                  *)
TruthOf(e) == /\ e.who \in Subjects /\ e.sb \in SandboxIds
              /\ row[e.sb].owner = e.who
              /\ e.op = "delete" => row[e.sb].terminated

(* The audit trail never claims what did not happen: a successful create   *)
(* has its row, owned by the actor; a successful delete the actor's own    *)
(* row, marked terminated.                                                 *)
AuditTruth ==
  \A e \in audit : TruthOf(e)

(* The inductive form of the above: an event about to be written is true.  *)
PendingEventsAreTrue ==
  \A r \in Requests : req[r].pc = "audit" /\ Kept(r) => TruthOf(Event(r))

(* The index forgets nothing: a row never disappears, changes hands or     *)
(* loses its terminated_at, even if the backend gives an id twice          *)
(* (record_created_sandbox answers 409 then).                              *)
RowsArePermanent ==
  [][\A s \in SandboxIds : row[s] # NoRow =>
       /\ row'[s].owner = row[s].owner
       /\ row[s].terminated => row'[s].terminated]_vars

(* The index and the trail, as a reader of the tables sees them, behave as *)
(* module Registry says: every step of every handler claims one id, ends   *)
(* one, reports one event that is true, or changes none of this.           *)
Index == INSTANCE Registry WITH
           owner <- [s \in SandboxIds |-> row[s].owner],
           ended <- {s \in SandboxIds : row[s].terminated},
           log   <- audit
ImplementsRegistry == Index!Spec

(* Every request but a proxied one is answered, however the backend and    *)
(* the requests around it behave.                                          *)
RequestsFinish ==
  \A r \in Requests : req[r].pc # "idle" /\ req[r].op \notin ProxyOps
                         ~> req[r].pc = "idle"

(* What the documents promise and the code does not keep.                  *)

(* Every call that a request makes is on a sandbox its caller made.        *)
CallsStayOnOwnSandboxes ==
  \A r \in Requests :
    req[r].pc \in {"call", "reply"} /\ req[r].op # "create" => OnOwnSandbox(Call(r))

(* The limit on running sandboxes: exceeded by concurrent creates, and     *)
(* with one request at a time when a patch or a renewal finds a deleted    *)
(* sandbox still stopping, or an answer has no state (which reads as       *)
(* unknown, and counts).                                                   *)
QuotaRespected == \A u \in Subjects : CountActive(u) <= MaxRunning

(* Quota is given back when the backend has reached a final state: a       *)
(* delete is recorded as one when the backend accepts it.                  *)
EndedRowsAreDead ==
  \A s \in SandboxIds :
    row[s].state \in FinalStates => backend[s] \notin LiveStates

(* A sandbox that was deleted stays deleted in the index (an answer to     *)
(* another call on it, recorded after the delete, changes it back).        *)
DeletedIsFinal == \A s \in SandboxIds : row[s].terminated => row[s].state = "deleted"

(* A live sandbox is in the index, or its create is about to record it.    *)
LiveIsIndexed ==
  \A s \in SandboxIds :
    (backend[s] \in LiveStates /\ row[s] = NoRow) =>
      \E r \in Requests : /\ req[r].op = "create" /\ req[r].pc = "reply"
                          /\ req[r].who = maker[s]

(* A sandbox that ended stops counting against its owner, even if the      *)
(* owner keeps asking to delete it (no reconciler reads the backend).      *)
GoneIsReleased ==
  \A u \in Subjects, s \in SandboxIds :
    backend[s] = "gone" /\ s \in ActiveRows(u) ~> s \notin ActiveRows(u)

(* Deletes are tried forever, and infinitely many of them reach the        *)
(* backend and have their answer handled.                                  *)
OwnersKeepDeleting ==
  /\ \A r \in Requests, u \in Subjects, s \in SandboxIds :
       SF_vars(EnsureOwned(r, u, "delete", s))
  /\ \A r \in Requests : /\ SF_vars(BackendServes(r) \/ BackendRefuses(r))
                          /\ SF_vars(Record(r))

PersistentSpec == FairSpec /\ OwnersKeepDeleting
=============================================================================
