------------------------------- MODULE Resources -------------------------------
(***************************************************************************)
(* What a request holds while it waits: a connection of the pool           *)
(* (db/session.py) and the lock of the default backend's row, which every  *)
(* create upserts before its insert and every health check upserts before  *)
(* it asks the backends (sandboxes/repository.py,                          *)
(* platform_status/service.py).                                            *)
(*                                                                         *)
(* A session takes a connection at its first statement and gives it back   *)
(* when the transaction ends.  The handlers differ in what they wait for   *)
(* in between.  Statements that wait for nothing but the database are one  *)
(* step with the commit or the rollback after them.                        *)
(***************************************************************************)
EXTENDS Naturals, Sequences, FiniteSets

CONSTANTS
  Requests,  \* the requests that can be in progress at once
  NoOne,     \* no request
  PoolSize,  \* connections the pool gives out, the overflow included
  Kinds,     \* the kinds of requests the clients make
  Backends,  \* the rows of runtime_backends, by name: a sequence of ids
  Default    \* the configured backend

AllKinds == {"create", "owned", "list", "proxy", "status", "backends"}

ASSUME ResourcesAssumption ==
  /\ NoOne \notin Requests
  /\ PoolSize \in Nat \ {0}
  /\ Kinds \subseteq AllKinds
  /\ Len(Backends) \in Nat /\ DOMAIN Backends = 1 .. Len(Backends)
  /\ \E i \in DOMAIN Backends : Backends[i] = Default
  /\ \A i, j \in DOMAIN Backends : Backends[i] = Backends[j] => i = j

VARIABLES
  req,      \* what the handler of each request is doing
  conn,     \* the requests that hold a connection
  lock,     \* the request whose open transaction has written the default row
  health,   \* the default backend's health_status
  lastSeen  \* history: the outcome of the last check of the default backend

vars == <<req, conn, lock, health, lastSeen>>

Idle == [pc |-> "idle", kind |-> "list", at |-> 1, found |-> "unknown"]

Goto(r, pc) == req' = [req EXCEPT ![r].pc = pc]
Done(r) == req' = [req EXCEPT ![r] = Idle]

(* The end of a transaction: commit, rollback, or the session closed.      *)
Release(r) == /\ conn' = conn \ {r}
              /\ lock' = IF lock = r THEN NoOne ELSE lock

(* Mutant: one connection more than the pool has.                          *)
Free_OffByOne == Cardinality(conn) <= PoolSize

Free == Cardinality(conn) < PoolSize

-----------------------------------------------------------------------------
(* Every kind of request.                                                  *)

Arrive(r, kind) ==
  /\ req[r] = Idle
  /\ req' = [req EXCEPT ![r] = [pc |-> "auth", kind |-> kind, at |-> 1,
                                found |-> "unknown"]]
  /\ UNCHANGED <<conn, lock, health, lastSeen>>

(* Mutant: a list reads in a transaction that stays open, and filters in   *)
(* another session.                                                        *)
Entry_ListReadsFirst(kind) ==
  IF kind \in {"status", "backends"} THEN "connect" ELSE "read"

(* Where a handler goes once it knows who calls.                           *)
Entry(kind) == IF kind = "list" THEN "call"
               ELSE IF kind \in {"status", "backends"} THEN "connect" ELSE "read"

(* The key or the token is checked in a transaction of its own.            *)
Authenticate(r) ==
  /\ req[r].pc = "auth" /\ Free
  /\ Goto(r, Entry(req[r].kind)) \/ Done(r)
  /\ UNCHANGED <<conn, lock, health, lastSeen>>

(* Mutant: the transaction of the reads ended before the backend is called. *)
Read_ThenRelease(r) ==
  /\ req[r].pc = "read" /\ Free
  /\ Goto(r, "call")
  /\ UNCHANGED <<conn, lock, health, lastSeen>>

(* The quota counts of a create, the caller's row for the others: the      *)
(* transaction stays open across the backend call, or the request is       *)
(* refused, some with an event.                                            *)
Read(r) ==
  /\ req[r].pc = "read" /\ Free
  /\ \/ Goto(r, "call") /\ conn' = conn \cup {r}
     \/ req[r].kind # "proxy" /\ Goto(r, "audit") /\ conn' = conn \cup {r}
     \/ Done(r) /\ UNCHANGED conn
  /\ UNCHANGED <<lock, health, lastSeen>>

(* The backend answers: what there is to do with a success, or a refusal.  *)
BackendAnswers(r) ==
  LET kind == req[r].kind
  IN /\ req[r].pc = "call"
     /\ \/ /\ kind \in {"create", "owned", "list"}
           /\ Goto(r, CASE kind = "create" -> "upsert"
                        [] kind = "owned" -> "record"
                        [] kind = "list" -> "filter")
           /\ UNCHANGED <<conn, lock>>
        \/ kind \in {"create", "owned"} /\ Goto(r, "audit") /\ UNCHANGED <<conn, lock>>
        \/ kind \in {"owned", "list", "proxy"} /\ Done(r) /\ Release(r)
     /\ UNCHANGED <<health, lastSeen>>

(* No answer: the error is audited, or it ends the handler.                *)
BackendFails(r) ==
  /\ req[r].pc = "call"
  /\ \/ req[r].kind \in {"create", "owned"} /\ Goto(r, "audit") /\ UNCHANGED <<conn, lock>>
     \/ req[r].kind # "create" /\ Done(r) /\ Release(r)
  /\ UNCHANGED <<health, lastSeen>>

(* filter_list_payload_to_owner reads the owned ids.                       *)
Filter(r) ==
  /\ req[r].pc = "filter" /\ Free
  /\ Done(r)
  /\ UNCHANGED <<conn, lock, health, lastSeen>>

(* The row is written and committed.                                       *)
Record(r) ==
  /\ req[r].pc = "record"
  /\ Release(r)
  /\ Goto(r, "audit")
  /\ UNCHANGED <<health, lastSeen>>

(* The event, in the transaction that is open or in a new one.             *)
Audit(r) ==
  /\ req[r].pc = "audit"
  /\ r \in conn \/ Free
  /\ Done(r)
  /\ Release(r)
  /\ UNCHANGED <<health, lastSeen>>

(* Mutant: an event waits for its connection without a timeout.            *)
WaitsForPool_NotForEvents(r) ==
  \/ req[r].pc \in {"auth", "read", "connect", "filter", "counts"}
  \/ req[r].pc = "note" /\ r \notin conn

(* The pool gives up after 30 s: an error, or an event that is dropped.    *)
WaitsForPool(r) ==
  \/ req[r].pc \in {"auth", "read", "connect", "filter", "counts"}
  \/ req[r].pc \in {"audit", "note"} /\ r \notin conn

PoolTimeout(r) ==
  /\ WaitsForPool(r) /\ ~Free
  /\ Done(r)
  /\ UNCHANGED <<conn, lock, health, lastSeen>>

-----------------------------------------------------------------------------
(* The row of the default backend.                                         *)

Connect(r) ==
  /\ req[r].pc \in {"connect", "note"} /\ r \notin conn /\ Free
  /\ conn' = conn \cup {r}
  /\ IF req[r].pc = "connect" THEN Goto(r, "upsert") ELSE UNCHANGED req
  /\ UNCHANGED <<lock, health, lastSeen>>

(* Mutant: the upsert became an insert that leaves a row that is there     *)
(* alone, and so does not lock it.                                         *)
UpsertBackend_DoNothing(r) ==
  /\ req[r].pc = "upsert" /\ lock = NoOne
  /\ IF req[r].kind = "backends"
     THEN Done(r) /\ Release(r)
     ELSE /\ Goto(r, IF req[r].kind = "create" THEN "record" ELSE "check")
          /\ UNCHANGED <<conn, lock>>
  /\ UNCHANGED <<health, lastSeen>>

(* ensure_default_backend: the row is written, and locked until the        *)
(* transaction ends.  The listing of backends ends it at once, without a   *)
(* commit.                                                                 *)
UpsertBackend(r) ==
  /\ req[r].pc = "upsert" /\ lock = NoOne
  /\ IF req[r].kind = "backends"
     THEN Done(r) /\ Release(r)
     ELSE /\ lock' = r
          /\ Goto(r, IF req[r].kind = "create" THEN "record" ELSE "check")
          /\ UNCHANGED conn
  /\ UNCHANGED <<health, lastSeen>>

-----------------------------------------------------------------------------
(* The platform status: one backend after the other.                       *)

Checked(r) == Backends[req[r].at]

Outcome(r, result) ==
  /\ req' = [req EXCEPT ![r].pc = "note", ![r].found = result]
  /\ lastSeen' = IF Checked(r) = Default THEN result ELSE lastSeen
  /\ UNCHANGED <<conn, lock, health>>

BackendHealthy(r) ==
  /\ req[r].pc = "check"
  /\ Outcome(r, "healthy")

(* Mutant: a check without a timeout, which only a refusal ends.           *)
HealthCheckFails_NoTimeout(r) ==
  /\ req[r].pc = "check" /\ r \notin conn
  /\ Outcome(r, "unhealthy")

(* A 5xx answer, no connection, or nothing within 3 s.                     *)
HealthCheckFails(r) ==
  /\ req[r].pc = "check"
  /\ Outcome(r, "unhealthy")

(* update_backend_health, with its commit.                                 *)
UpdateHealth(r) ==
  /\ req[r].pc = "note" /\ r \in conn
  /\ Checked(r) = Default => lock \in {NoOne, r}
  /\ health' = IF Checked(r) = Default THEN req[r].found ELSE health
  /\ Release(r)
  /\ IF req[r].at < Len(Backends)
     THEN req' = [req EXCEPT ![r].pc = "check", ![r].at = @ + 1]
     ELSE Goto(r, "counts")
  /\ UNCHANGED lastSeen

(* The database fails or the handler dies between the answer and the       *)
(* commit: the outcome is forgotten, and so is the rest of the check.      *)
CheckIsLost(r) ==
  /\ req[r].pc = "note"
  /\ Done(r)
  /\ Release(r)
  /\ lastSeen' = IF Checked(r) = Default THEN health ELSE lastSeen
  /\ UNCHANGED health

(* The counters of the summary.                                            *)
Counts(r) ==
  /\ req[r].pc = "counts" /\ Free
  /\ Done(r)
  /\ UNCHANGED <<conn, lock, health, lastSeen>>

-----------------------------------------------------------------------------
Init ==
  /\ req = [r \in Requests |-> Idle]
  /\ conn = {}
  /\ lock = NoOne
  /\ health = "unknown"
  /\ lastSeen = "unknown"

Next ==
  \E r \in Requests :
       \/ \E kind \in Kinds : Arrive(r, kind)
       \/ Authenticate(r)
       \/ Read(r)
       \/ BackendAnswers(r)
       \/ BackendFails(r)
       \/ Filter(r)
       \/ Record(r)
       \/ Audit(r)
       \/ PoolTimeout(r)
       \/ Connect(r)
       \/ UpsertBackend(r)
       \/ BackendHealthy(r)
       \/ HealthCheckFails(r)
       \/ UpdateHealth(r)
       \/ CheckIsLost(r)
       \/ Counts(r)

Spec == Init /\ [][Next]_vars

(* A handler that waits for the pool gets a connection or an error within  *)
(* 30 s; PostgreSQL serves the waiters of a row lock in their order; httpx *)
(* gives up after 60 s (3 s for a health check) without a byte in either   *)
(* direction, in a proxied call never.  So a call ends if the backend      *)
(* falls silent or answers, and not if it lets an answer trickle for ever: *)
(* that it does not is assumed, and that the database goes on working.     *)
Fairness ==
  \A r \in Requests :
    /\ WF_vars(Authenticate(r) \/ Read(r) \/ Filter(r) \/ Connect(r) \/ Audit(r)
               \/ Counts(r) \/ PoolTimeout(r))
    /\ WF_vars(req[r].kind # "proxy" /\ BackendFails(r))
    /\ WF_vars(Record(r))
    /\ WF_vars(HealthCheckFails(r))
    /\ SF_vars(UpsertBackend(r) \/ UpdateHealth(r))

FairSpec == Spec /\ Fairness

-----------------------------------------------------------------------------
(* Properties.                                                             *)

Pcs == {"idle", "auth", "read", "call", "filter", "record", "audit", "connect",
        "upsert", "check", "note", "counts"}
Outcomes == {"unknown", "healthy", "unhealthy"}

(* Every variable holds what the code can store in it, and no more         *)
(* connections are out than the pool has.                                  *)
TypeOK ==
  /\ req \in [Requests -> [pc : Pcs, kind : AllKinds, at : DOMAIN Backends,
                           found : Outcomes]]
  /\ conn \subseteq Requests /\ Cardinality(conn) <= PoolSize
  /\ lock \in Requests \cup {NoOne}
  /\ health \in Outcomes
  /\ lastSeen \in Outcomes

(* No request waits for a connection while it holds one, or holds the row  *)
(* of the default backend without one: requests queue for the lock and for *)
(* the pool, and never for each other in a circle.                         *)
NobodyHoldsAndWaits ==
  \A r \in Requests : WaitsForPool(r) => r \notin conn /\ lock # r

(* A handler the backend has answered has the connection to record it on:  *)
(* a pool that runs dry loses no sandbox, only events and lists.           *)
AnswersFindAConnection ==
  \A r \in Requests :
    req[r].pc = "record" \/ (req[r].pc = "upsert" /\ req[r].kind = "create") => r \in conn

(* Health checks of the first row that run at the same time are recorded   *)
(* in the order of their answers, when that row is the default backend's:  *)
(* the status never goes back to an older outcome.  (An outcome lost on    *)
(* its way to the row does not count.)                                     *)
HealthIsLatest ==
  LET Pending == \E r \in Requests : req[r].pc = "note" /\ req[r].at = 1
  IN Backends[1] = Default /\ ~Pending => health = lastSeen

(* A create the backend answered is recorded, however long the health      *)
(* checks and however full the pool.                                       *)
CreatesAreRecorded ==
  \A r \in Requests :
    req[r].pc = "upsert" /\ req[r].kind = "create" ~> req[r].pc = "audit"

(* Every request but a proxied one is answered, if only with an error.     *)
RequestsFinish ==
  \A r \in Requests :
    req[r].pc # "idle" /\ req[r].kind # "proxy" ~> req[r].pc = "idle"
=============================================================================
