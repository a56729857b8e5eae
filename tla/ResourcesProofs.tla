---------------------------- MODULE ResourcesProofs ----------------------------
(***************************************************************************)
(* Proofs about module Resources, for any number of requests and backends  *)
(* and any size of the pool.                                               *)
(***************************************************************************)
EXTENDS Resources, FiniteSetTheorems, TLAPS

(* Who holds a connection, by how far the handler is.                      *)
Fits(r) ==
  /\ req[r].pc \in {"idle", "auth", "read", "connect", "filter", "counts"} => r \notin conn
  /\ req[r].pc \in {"record", "upsert"} => r \in conn
  /\ req[r].pc = "read" => req[r].kind # "list"
  /\ req[r].pc = "call" => (r \in conn <=> req[r].kind # "list")
  /\ lock = r => r \in conn
ConnectionsFit == \A r \in Requests : Fits(r)

(* Whoever checks the first row holds the lock, so there is only one.      *)
FirstCheckLocks ==
  \A r \in Requests : req[r].pc \in {"check", "note"} /\ req[r].at = 1 => lock = r

(* When that row is the default backend's, its check is the latest.        *)
FirstCheckIsLatest ==
  Backends[1] = Default =>
    \A r \in Requests : req[r].pc = "note" /\ req[r].at = 1 => req[r].found = lastSeen

ReqType == [pc : Pcs, kind : AllKinds, at : DOMAIN Backends, found : Outcomes]

ResourcesInv ==
  /\ TypeOK
  /\ IsFiniteSet(conn)
  /\ ConnectionsFit
  /\ FirstCheckLocks
  /\ FirstCheckIsLatest
  /\ HealthIsLatest

-----------------------------------------------------------------------------
(* The helpers.                                                            *)

(* A request that takes a free connection stays within the pool.           *)
LEMMA ConnTaken ==
  ASSUME NEW r \in Requests, ResourcesInv, Free, conn' = conn \cup {r}
  PROVE  IsFiniteSet(conn') /\ conn' \subseteq Requests /\ Cardinality(conn') <= PoolSize
<1>1. IsFiniteSet(conn) /\ conn \subseteq Requests /\ Cardinality(conn) < PoolSize
  BY DEF ResourcesInv, TypeOK, Free
<1>2. /\ IsFiniteSet(conn')
      /\ Cardinality(conn') = IF r \in conn THEN Cardinality(conn) ELSE Cardinality(conn) + 1
  BY <1>1, FS_AddElement
<1>3. Cardinality(conn) \in Nat /\ PoolSize \in Nat
  BY <1>1, FS_CardinalityType, ResourcesAssumption
<1> QED BY <1>1, <1>2, <1>3

(* A request that gives its connection back stays within the pool, and the *)
(* lock goes with it.                                                      *)
LEMMA ConnReleased ==
  ASSUME NEW r \in Requests, ResourcesInv, Release(r)
  PROVE  /\ IsFiniteSet(conn') /\ conn' \subseteq Requests /\ Cardinality(conn') <= PoolSize
         /\ lock' \in Requests \cup {NoOne}
<1>1. IsFiniteSet(conn) /\ conn \subseteq Requests /\ Cardinality(conn) <= PoolSize
  BY DEF ResourcesInv, TypeOK
<1>2. /\ IsFiniteSet(conn')
      /\ Cardinality(conn') = IF r \in conn THEN Cardinality(conn) - 1 ELSE Cardinality(conn)
  BY <1>1, FS_RemoveElement DEF Release
<1>3. Cardinality(conn) \in Nat /\ PoolSize \in Nat
  BY <1>1, FS_CardinalityType, ResourcesAssumption
<1>4. lock' \in Requests \cup {NoOne}
  BY DEF Release, ResourcesInv, TypeOK
<1> QED BY <1>1, <1>2, <1>3, <1>4 DEF Release

(* What Goto and Done do to the request, and that they leave the others.   *)
OthersAsBefore(r) == \A x \in Requests \ {r} : req'[x] = req[x]

LEMMA GotoDoes ==
  ASSUME NEW r \in Requests, NEW pc \in Pcs, ResourcesInv, Goto(r, pc)
  PROVE  /\ req' \in [Requests -> ReqType]
         /\ OthersAsBefore(r)
         /\ req'[r] = [req[r] EXCEPT !.pc = pc]
         /\ req'[r].pc = pc /\ req'[r].kind = req[r].kind
         /\ req'[r].at = req[r].at /\ req'[r].found = req[r].found
BY DEF Goto, ResourcesInv, TypeOK, ReqType, OthersAsBefore

LEMMA DoneDoes ==
  ASSUME NEW r \in Requests, ResourcesInv, Done(r)
  PROVE  /\ req' \in [Requests -> ReqType]
         /\ OthersAsBefore(r)
         /\ req'[r].pc = "idle"
<1>1. Idle \in ReqType
  BY ResourcesAssumption DEF Idle, ReqType, Pcs, AllKinds, Outcomes
<1> QED BY <1>1 DEF Done, ResourcesInv, TypeOK, ReqType, OthersAsBefore, Idle

-----------------------------------------------------------------------------
(* Initially.                                                              *)
LEMMA InitHolds == Init => ResourcesInv
<1> SUFFICES ASSUME Init PROVE ResourcesInv
  OBVIOUS
<1>1. 1 \in DOMAIN Backends
  BY ResourcesAssumption
<1>2. IsFiniteSet(conn) /\ Cardinality(conn) = 0
  BY FS_EmptySet DEF Init
<1>3. TypeOK
  BY <1>1, <1>2, ResourcesAssumption DEF TypeOK, Init, Idle, Pcs, AllKinds, Outcomes
<1>4. ConnectionsFit
  BY ResourcesAssumption DEF ConnectionsFit, Fits, Init, Idle
<1>5. FirstCheckLocks /\ FirstCheckIsLatest /\ HealthIsLatest
  BY DEF FirstCheckLocks, FirstCheckIsLatest, HealthIsLatest, Init, Idle
<1> QED BY <1>2, <1>3, <1>4, <1>5 DEF ResourcesInv

-----------------------------------------------------------------------------
(* What the other requests hold does not change.                           *)
LEMMA OthersFit ==
  ASSUME NEW r \in Requests, ResourcesInv, OthersAsBefore(r), Fits(r)',
         \A x \in Requests \ {r} : /\ x \in conn' <=> x \in conn
                                   /\ lock' = x => lock = x
  PROVE  ConnectionsFit'
<1> SUFFICES ASSUME NEW x \in Requests \ {r} PROVE Fits(x)'
  BY DEF ConnectionsFit
<1>1. Fits(x)
  BY DEF ResourcesInv, ConnectionsFit
<1> QED BY <1>1 DEF Fits, OthersAsBefore

(* A step of a handler that neither checks a backend nor writes its row    *)
(* only has to fit what it holds afterwards: the order of the health       *)
(* checks is as before.                                                    *)
LEMMA PlainStepKeeps ==
  ASSUME NEW r \in Requests, ResourcesInv,
         req' \in [Requests -> ReqType], OthersAsBefore(r),
         req'[r].pc \notin {"check", "note"}, req[r].pc = "note" => req[r].at # 1,
         \/ UNCHANGED <<conn, lock>>
         \/ Release(r)
         \/ Free /\ conn' = conn \cup {r} /\ lock' = lock,
         Fits(r)',
         UNCHANGED <<health, lastSeen>>
  PROVE  ResourcesInv'
<1>1. /\ IsFiniteSet(conn') /\ conn' \subseteq Requests /\ Cardinality(conn') <= PoolSize
      /\ lock' \in Requests \cup {NoOne}
  <2>1. CASE UNCHANGED <<conn, lock>>
    BY <2>1 DEF ResourcesInv, TypeOK
  <2>2. CASE Release(r)
    BY <2>2, ConnReleased
  <2>3. CASE Free /\ conn' = conn \cup {r} /\ lock' = lock
    BY <2>3, ConnTaken DEF ResourcesInv, TypeOK
  <2> QED BY <2>1, <2>2, <2>3
<1>2. TypeOK'
  BY <1>1 DEF TypeOK, ResourcesInv, ReqType
<1>3. \A x \in Requests \ {r} : /\ x \in conn' <=> x \in conn
                                /\ lock = x <=> lock' = x
  BY ResourcesAssumption DEF Release
<1>4. ConnectionsFit'
  BY <1>3, OthersFit
<1>5. FirstCheckLocks'
  BY <1>3 DEF FirstCheckLocks, ResourcesInv, OthersAsBefore
<1>6. FirstCheckIsLatest'
  BY DEF FirstCheckIsLatest, ResourcesInv, OthersAsBefore
<1>7. HealthIsLatest'
  BY DEF HealthIsLatest, ResourcesInv, OthersAsBefore
<1> QED BY <1>1, <1>2, <1>4, <1>5, <1>6, <1>7 DEF ResourcesInv

(* A handler that ends without a connection, or gives it back as it ends.  *)
LEMMA EndKeeps ==
  ASSUME NEW r \in Requests, ResourcesInv, Done(r), req[r].pc # "note" \/ r \notin conn,
         Release(r) \/ (r \notin conn /\ UNCHANGED <<conn, lock>>),
         UNCHANGED <<health, lastSeen>>
  PROVE  ResourcesInv'
<1>1. /\ req' \in [Requests -> ReqType] /\ OthersAsBefore(r) /\ req'[r].pc = "idle"
  BY DoneDoes
<1>2. Fits(r)
  BY DEF ResourcesInv, ConnectionsFit
<1>3. req[r].pc = "note" => req[r].at # 1
  BY <1>2 DEF ResourcesInv, FirstCheckLocks, Fits
<1>4. Fits(r)'
  BY <1>1, <1>2, ResourcesAssumption DEF Fits, Release
<1> QED BY <1>1, <1>3, <1>4, PlainStepKeeps

(* A handler that goes on, to anything but a health check.                 *)
LEMMA GotoKeeps ==
  ASSUME NEW r \in Requests, NEW pc \in Pcs \ {"check", "note"}, ResourcesInv, Goto(r, pc),
         req[r].pc # "note",
         \/ UNCHANGED <<conn, lock>>
         \/ Release(r)
         \/ Free /\ conn' = conn \cup {r} /\ lock' = lock,
         pc \in {"idle", "auth", "read", "connect", "filter", "counts"} => r \notin conn',
         pc \in {"record", "upsert"} => r \in conn',
         pc = "read" => req[r].kind # "list",
         pc = "call" => (r \in conn' <=> req[r].kind # "list"),
         UNCHANGED <<health, lastSeen>>
  PROVE  ResourcesInv'
<1>1. /\ req' \in [Requests -> ReqType] /\ OthersAsBefore(r)
      /\ req'[r].pc = pc /\ req'[r].kind = req[r].kind
  BY GotoDoes
<1>2. Fits(r)
  BY DEF ResourcesInv, ConnectionsFit
<1>3. Fits(r)'
  BY <1>1, <1>2, ResourcesAssumption DEF Fits, Release
<1> QED BY <1>1, <1>3, PlainStepKeeps

-----------------------------------------------------------------------------
(* The steps of every kind of request.                                     *)
LEMMA ArriveKeeps ==
  ASSUME NEW r \in Requests, NEW kind \in Kinds, ResourcesInv, Arrive(r, kind)
  PROVE  ResourcesInv'
<1> DEFINE q == [pc |-> "auth", kind |-> kind, at |-> 1, found |-> "unknown"]
<1>1. req' = [req EXCEPT ![r] = q]
  BY DEF Arrive
<1>2. q \in ReqType
  BY ResourcesAssumption DEF ReqType, Pcs, AllKinds, Outcomes
<1>3. /\ req' \in [Requests -> ReqType] /\ OthersAsBefore(r) /\ req'[r].pc = "auth"
  BY <1>1, <1>2 DEF ResourcesInv, TypeOK, ReqType, OthersAsBefore
<1>4. Fits(r)' /\ req[r].pc # "note" /\ UNCHANGED <<conn, lock, health, lastSeen>>
  BY <1>3 DEF Arrive, Idle, Fits, ResourcesInv, ConnectionsFit
<1> QED BY <1>3, <1>4, PlainStepKeeps

LEMMA AuthenticateKeeps ==
  ASSUME NEW r \in Requests, ResourcesInv, Authenticate(r)
  PROVE  ResourcesInv'
<1> DEFINE pc == Entry(req[r].kind)
<1>1. /\ req[r].pc = "auth" /\ r \notin conn /\ (Goto(r, pc) \/ Done(r))
      /\ UNCHANGED <<conn, lock, health, lastSeen>>
  BY DEF Authenticate, ResourcesInv, ConnectionsFit, Fits
<1>2. CASE Goto(r, pc)
  <2>1. /\ pc \in {"call", "connect", "read"}
        /\ pc = "call" => req[r].kind = "list"
        /\ pc = "read" => req[r].kind # "list"
    BY DEF Entry
  <2>2. pc \in Pcs \ {"check", "note"}
    BY <2>1 DEF Pcs
  <2> HIDE DEF pc
  <2> QED BY <1>1, <1>2, <2>1, <2>2, GotoKeeps
<1>3. CASE Done(r)
  BY <1>1, <1>3, EndKeeps
<1> QED BY <1>1, <1>2, <1>3

LEMMA ReadKeeps ==
  ASSUME NEW r \in Requests, ResourcesInv, Read(r)
  PROVE  ResourcesInv'
<1>1. /\ req[r].pc = "read" /\ req[r].kind # "list" /\ r \notin conn
      /\ Free /\ UNCHANGED <<lock, health, lastSeen>>
  BY DEF Read, ResourcesInv, ConnectionsFit, Fits
<1>2. CASE Goto(r, "call") /\ conn' = conn \cup {r}
  BY <1>1, <1>2, GotoKeeps DEF Pcs
<1>3. CASE Goto(r, "audit") /\ conn' = conn \cup {r}
  BY <1>1, <1>3, GotoKeeps DEF Pcs
<1>4. CASE Done(r) /\ UNCHANGED conn
  BY <1>1, <1>4, EndKeeps
<1> QED BY <1>2, <1>3, <1>4 DEF Read

LEMMA BackendAnswersKeeps ==
  ASSUME NEW r \in Requests, ResourcesInv, BackendAnswers(r)
  PROVE  ResourcesInv'
<1> DEFINE kind == req[r].kind
           pc == CASE kind = "create" -> "upsert"
                   [] kind = "owned" -> "record"
                   [] kind = "list" -> "filter"
<1>1. /\ req[r].pc = "call" /\ (r \in conn <=> kind # "list")
      /\ UNCHANGED <<health, lastSeen>>
  BY DEF BackendAnswers, ResourcesInv, ConnectionsFit, Fits
<1>2. CASE kind \in {"create", "owned", "list"} /\ Goto(r, pc) /\ UNCHANGED <<conn, lock>>
  <2>1. \/ kind = "create" /\ pc = "upsert"
        \/ kind = "owned" /\ pc = "record"
        \/ kind = "list" /\ pc = "filter"
    BY <1>2
  <2>2. pc \in Pcs \ {"check", "note"}
    BY <2>1 DEF Pcs
  <2> HIDE DEF pc
  <2> QED BY <1>1, <1>2, <2>1, <2>2, GotoKeeps
<1>3. CASE Goto(r, "audit") /\ UNCHANGED <<conn, lock>>
  BY <1>1, <1>3, GotoKeeps DEF Pcs
<1>4. CASE Done(r) /\ Release(r)
  BY <1>1, <1>4, EndKeeps
<1> QED BY <1>2, <1>3, <1>4 DEF BackendAnswers

LEMMA BackendFailsKeeps ==
  ASSUME NEW r \in Requests, ResourcesInv, BackendFails(r)
  PROVE  ResourcesInv'
<1>1. req[r].pc = "call" /\ UNCHANGED <<health, lastSeen>>
  BY DEF BackendFails
<1>2. CASE Goto(r, "audit") /\ UNCHANGED <<conn, lock>>
  BY <1>1, <1>2, GotoKeeps DEF Pcs
<1>3. CASE Done(r) /\ Release(r)
  BY <1>1, <1>3, EndKeeps
<1> QED BY <1>2, <1>3 DEF BackendFails

(* Filter, Counts and the pool's timeout end a handler that holds nothing; *)
(* Audit ends one that gives back what it has.                             *)
LEMMA EndsKeep ==
  ASSUME NEW r \in Requests, ResourcesInv,
         Filter(r) \/ Counts(r) \/ PoolTimeout(r) \/ Audit(r)
  PROVE  ResourcesInv'
<1>1. CASE Filter(r) \/ Counts(r) \/ PoolTimeout(r)
  <2>1. r \notin conn /\ Done(r) /\ UNCHANGED <<conn, lock, health, lastSeen>>
    BY <1>1 DEF Filter, Counts, PoolTimeout, WaitsForPool, ResourcesInv, ConnectionsFit, Fits
  <2> QED BY <2>1, EndKeeps
<1>2. CASE Audit(r)
  BY <1>2, EndKeeps DEF Audit
<1> QED BY <1>1, <1>2

LEMMA RecordKeeps ==
  ASSUME NEW r \in Requests, ResourcesInv, Record(r)
  PROVE  ResourcesInv'
BY GotoKeeps DEF Record, Pcs

-----------------------------------------------------------------------------
(* The steps around the row of the default backend.                        *)
LEMMA ConnectKeeps ==
  ASSUME NEW r \in Requests, ResourcesInv, Connect(r)
  PROVE  ResourcesInv'
<1>1. Free /\ r \notin conn /\ conn' = conn \cup {r} /\ UNCHANGED <<lock, health, lastSeen>>
  BY DEF Connect
<1>2. CASE req[r].pc = "connect" /\ Goto(r, "upsert")
  BY <1>1, <1>2, GotoKeeps DEF Pcs
<1>3. CASE req[r].pc = "note" /\ UNCHANGED req
  <2>1. IsFiniteSet(conn') /\ TypeOK'
    BY <1>1, <1>3, ConnTaken DEF ResourcesInv, TypeOK
  <2>2. ConnectionsFit'
    BY <1>1, <1>3 DEF ResourcesInv, ConnectionsFit, Fits
  <2>3. FirstCheckLocks' /\ FirstCheckIsLatest' /\ HealthIsLatest'
    BY <1>1, <1>3 DEF ResourcesInv, FirstCheckLocks, FirstCheckIsLatest, HealthIsLatest
  <2> QED BY <2>1, <2>2, <2>3 DEF ResourcesInv
<1> QED BY <1>2, <1>3 DEF Connect

(* Nobody has the lock when it is taken, so nobody checks the first row.   *)
LEMMA UpsertBackendKeeps ==
  ASSUME NEW r \in Requests, ResourcesInv, UpsertBackend(r)
  PROVE  ResourcesInv'
<1> DEFINE pc == IF req[r].kind = "create" THEN "record" ELSE "check"
<1>1. req[r].pc = "upsert" /\ lock = NoOne /\ r \in conn /\ UNCHANGED <<health, lastSeen>>
  BY DEF UpsertBackend, ResourcesInv, ConnectionsFit, Fits
<1>2. CASE Done(r) /\ Release(r)
  BY <1>1, <1>2, EndKeeps
<1>3. CASE lock' = r /\ Goto(r, pc) /\ UNCHANGED conn
  <2>1. pc \in {"record", "check"} /\ pc \in Pcs
    BY DEF Pcs
  <2> HIDE DEF pc
  <2>2. /\ req' \in [Requests -> ReqType] /\ OthersAsBefore(r) /\ req'[r].pc = pc
    BY <1>3, <2>1, GotoDoes
  <2>3. IsFiniteSet(conn') /\ TypeOK'
    BY <1>1, <1>3, <2>2 DEF ResourcesInv, TypeOK, ReqType
  <2>4. Fits(r)'
    BY <1>1, <1>3, <2>1, <2>2 DEF Fits
  <2>5. ConnectionsFit'
    BY <1>3, <2>2, <2>4, OthersFit
  <2>6. FirstCheckLocks'
    BY <1>1, <1>3, <2>2, ResourcesAssumption
       DEF ResourcesInv, FirstCheckLocks, OthersAsBefore
  <2>7. FirstCheckIsLatest' /\ HealthIsLatest'
    BY <1>1, <1>3, <2>1, <2>2
       DEF ResourcesInv, FirstCheckIsLatest, HealthIsLatest, OthersAsBefore
  <2> QED BY <2>3, <2>5, <2>6, <2>7 DEF ResourcesInv
<1> QED BY <1>2, <1>3 DEF UpsertBackend

(* The outcome of a check: of the first row's by the holder of the lock, of *)
(* another row's without effect on the default backend's.                  *)
LEMMA OutcomeKeeps ==
  ASSUME NEW r \in Requests, NEW result \in Outcomes, ResourcesInv,
         req[r].pc = "check", Outcome(r, result)
  PROVE  ResourcesInv'
<1> DEFINE q == [req[r] EXCEPT !.pc = "note", !.found = result]
<1>1. /\ req' = [req EXCEPT ![r] = q]
      /\ lastSeen' = IF Checked(r) = Default THEN result ELSE lastSeen
      /\ UNCHANGED <<conn, lock, health>>
  BY DEF Outcome
<1>2. req[r] \in ReqType /\ req \in [Requests -> ReqType]
  BY DEF ResourcesInv, TypeOK, ReqType
<1>3. q \in ReqType /\ q.pc = "note" /\ q.found = result /\ q.at = req[r].at
  BY <1>2 DEF ReqType, Pcs
<1> HIDE DEF q
<1>4. /\ req' \in [Requests -> ReqType] /\ OthersAsBefore(r)
      /\ req'[r].pc = "note" /\ req'[r].found = result /\ req'[r].at = req[r].at
  BY <1>1, <1>2, <1>3 DEF OthersAsBefore
<1>5. IsFiniteSet(conn') /\ TypeOK'
  BY <1>1, <1>4 DEF ResourcesInv, TypeOK, ReqType
<1>6. ConnectionsFit'
  <2>1. Fits(r)'
    BY <1>1, <1>4 DEF Fits, ResourcesInv, ConnectionsFit
  <2> QED BY <1>1, <1>4, <2>1, OthersFit
<1>7. FirstCheckLocks'
  BY <1>1, <1>4 DEF ResourcesInv, FirstCheckLocks, OthersAsBefore
<1>8. Backends[1] = Default => (Checked(r) = Default <=> req[r].at = 1)
  BY <1>2, ResourcesAssumption DEF Checked, ReqType
<1>9. CASE req[r].at = 1
  <2>1. \A x \in Requests : req'[x].pc = "note" /\ req'[x].at = 1 => x = r
    BY <1>1, <1>4, <1>7, <1>9 DEF FirstCheckLocks
  <2>2. FirstCheckIsLatest'
    BY <1>1, <1>4, <1>8, <1>9, <2>1 DEF FirstCheckIsLatest
  <2>3. HealthIsLatest'
    BY <1>4, <1>9 DEF HealthIsLatest
  <2> QED BY <1>5, <1>6, <1>7, <2>2, <2>3 DEF ResourcesInv
<1>10. CASE req[r].at # 1
  <2>1. FirstCheckIsLatest'
    BY <1>1, <1>4, <1>8, <1>10 DEF ResourcesInv, FirstCheckIsLatest, OthersAsBefore
  <2>2. HealthIsLatest'
    BY <1>1, <1>4, <1>8, <1>10 DEF ResourcesInv, HealthIsLatest, OthersAsBefore
  <2> QED BY <1>5, <1>6, <1>7, <2>1, <2>2 DEF ResourcesInv
<1> QED BY <1>9, <1>10

(* The outcome is recorded while the lock that ordered it is still held.   *)
LEMMA UpdateHealthKeeps ==
  ASSUME NEW r \in Requests, ResourcesInv, UpdateHealth(r)
  PROVE  ResourcesInv'
<1>1. /\ req[r].pc = "note" /\ r \in conn /\ Release(r) /\ lastSeen' = lastSeen
      /\ health' = IF Checked(r) = Default THEN req[r].found ELSE health
  BY DEF UpdateHealth
<1>2. req[r] \in ReqType /\ req \in [Requests -> ReqType]
  BY DEF ResourcesInv, TypeOK, ReqType
<1>3. /\ req' \in [Requests -> ReqType] /\ OthersAsBefore(r)
      /\ \/ req'[r].pc = "check" /\ req'[r].at # 1
         \/ req'[r].pc = "counts"
  <2>1. CASE req[r].at < Len(Backends)
    <3> DEFINE q == [req[r] EXCEPT !.pc = "check", !.at = req[r].at + 1]
    <3>1. req' = [req EXCEPT ![r] = q]
      BY <2>1 DEF UpdateHealth
    <3>2. req[r].at + 1 \in DOMAIN Backends /\ req[r].at + 1 # 1
      BY <1>2, <2>1, ResourcesAssumption DEF ReqType
    <3>3. q \in ReqType /\ q.pc = "check" /\ q.at # 1
      BY <1>2, <3>2 DEF ReqType, Pcs
    <3> HIDE DEF q
    <3> QED BY <1>2, <3>1, <3>3 DEF OthersAsBefore
  <2>2. CASE ~(req[r].at < Len(Backends))
    BY <2>2, GotoDoes DEF UpdateHealth, Pcs
  <2> QED BY <2>1, <2>2
<1>4. /\ IsFiniteSet(conn') /\ conn' \subseteq Requests /\ Cardinality(conn') <= PoolSize
      /\ lock' \in Requests \cup {NoOne}
  BY <1>1, ConnReleased
<1>5. TypeOK'
  BY <1>1, <1>2, <1>3, <1>4 DEF TypeOK, ResourcesInv, ReqType
<1>6. \A x \in Requests \ {r} : /\ x \in conn' <=> x \in conn
                                /\ lock = x <=> lock' = x
  BY <1>1, ResourcesAssumption DEF Release
<1>7. ConnectionsFit'
  <2>1. Fits(r)'
    BY <1>1, <1>3, ResourcesAssumption DEF Fits, Release
  <2> QED BY <1>3, <1>6, <2>1, OthersFit
<1>8. FirstCheckLocks'
  BY <1>3, <1>6 DEF FirstCheckLocks, ResourcesInv, OthersAsBefore
<1>9. FirstCheckIsLatest'
  BY <1>1, <1>3 DEF FirstCheckIsLatest, ResourcesInv, OthersAsBefore
<1>10. Backends[1] = Default => (Checked(r) = Default <=> req[r].at = 1)
  BY <1>2, ResourcesAssumption DEF Checked, ReqType
<1>11. HealthIsLatest'
  <2>1. CASE req[r].at = 1
    BY <1>1, <1>10, <2>1 DEF HealthIsLatest, ResourcesInv, FirstCheckIsLatest
  <2>2. CASE req[r].at # 1
    BY <1>1, <1>3, <1>10, <2>2 DEF HealthIsLatest, ResourcesInv, OthersAsBefore
  <2> QED BY <2>1, <2>2
<1> QED BY <1>4, <1>5, <1>7, <1>8, <1>9, <1>11 DEF ResourcesInv

(* An outcome is lost: the holder of the lock gives it back.               *)
LEMMA CheckIsLostKeeps ==
  ASSUME NEW r \in Requests, ResourcesInv, CheckIsLost(r)
  PROVE  ResourcesInv'
<1>1. /\ req[r].pc = "note" /\ Release(r) /\ health' = health
      /\ lastSeen' = IF Checked(r) = Default THEN health ELSE lastSeen
      /\ req' \in [Requests -> ReqType] /\ OthersAsBefore(r) /\ req'[r].pc = "idle"
  BY DoneDoes DEF CheckIsLost
<1>2. req[r] \in ReqType
  BY DEF ResourcesInv, TypeOK, ReqType
<1>3. /\ IsFiniteSet(conn') /\ conn' \subseteq Requests /\ Cardinality(conn') <= PoolSize
      /\ lock' \in Requests \cup {NoOne}
  BY <1>1, ConnReleased
<1>4. TypeOK'
  BY <1>1, <1>3 DEF TypeOK, ResourcesInv, ReqType
<1>5. \A x \in Requests \ {r} : /\ x \in conn' <=> x \in conn
                                /\ lock = x <=> lock' = x
  BY <1>1, ResourcesAssumption DEF Release
<1>6. ConnectionsFit'
  <2>1. Fits(r)'
    BY <1>1, ResourcesAssumption DEF Fits, Release
  <2> QED BY <1>1, <1>5, <2>1, OthersFit
<1>7. FirstCheckLocks'
  BY <1>1, <1>5 DEF FirstCheckLocks, ResourcesInv, OthersAsBefore
<1>8. Backends[1] = Default => (Checked(r) = Default <=> req[r].at = 1)
  BY <1>2, ResourcesAssumption DEF Checked, ReqType
<1>9. CASE req[r].at = 1
  <2>1. \A x \in Requests : ~(req'[x].pc = "note" /\ req'[x].at = 1)
    BY <1>1, <1>9 DEF ResourcesInv, FirstCheckLocks, OthersAsBefore
  <2>2. FirstCheckIsLatest' /\ HealthIsLatest'
    BY <1>1, <1>8, <1>9, <2>1 DEF FirstCheckIsLatest, HealthIsLatest
  <2> QED BY <1>3, <1>4, <1>6, <1>7, <2>2 DEF ResourcesInv
<1>10. CASE req[r].at # 1
  <2>1. FirstCheckIsLatest'
    BY <1>1, <1>8, <1>10 DEF ResourcesInv, FirstCheckIsLatest, OthersAsBefore
  <2>2. HealthIsLatest'
    BY <1>1, <1>8, <1>10 DEF ResourcesInv, HealthIsLatest, OthersAsBefore
  <2> QED BY <1>3, <1>4, <1>6, <1>7, <2>1, <2>2 DEF ResourcesInv
<1> QED BY <1>9, <1>10

-----------------------------------------------------------------------------
(* Every step.                                                             *)
LEMMA NextKeeps == ResourcesInv /\ [Next]_vars => ResourcesInv'
<1> SUFFICES ASSUME ResourcesInv, [Next]_vars PROVE ResourcesInv'
  OBVIOUS
<1>1. CASE Next
  <2>1. PICK r \in Requests :
          \/ \E kind \in Kinds : Arrive(r, kind)
          \/ Authenticate(r) \/ Read(r) \/ BackendAnswers(r) \/ BackendFails(r)
          \/ Filter(r) \/ Record(r) \/ Audit(r) \/ PoolTimeout(r) \/ Connect(r)
          \/ UpsertBackend(r) \/ BackendHealthy(r) \/ HealthCheckFails(r)
          \/ UpdateHealth(r) \/ CheckIsLost(r) \/ Counts(r)
    BY <1>1 DEF Next
  <2>2. CASE \E kind \in Kinds : Arrive(r, kind)
    BY <2>2, ArriveKeeps
  <2>3. CASE Authenticate(r) \/ Read(r) \/ BackendAnswers(r) \/ BackendFails(r)
    BY <2>3, AuthenticateKeeps, ReadKeeps, BackendAnswersKeeps, BackendFailsKeeps
  <2>4. CASE Filter(r) \/ Counts(r) \/ PoolTimeout(r) \/ Audit(r)
    BY <2>4, EndsKeep
  <2>5. CASE Record(r) \/ Connect(r) \/ UpsertBackend(r) \/ UpdateHealth(r)
             \/ CheckIsLost(r)
    BY <2>5, RecordKeeps, ConnectKeeps, UpsertBackendKeeps, UpdateHealthKeeps,
       CheckIsLostKeeps
  <2>6. CASE BackendHealthy(r) \/ HealthCheckFails(r)
    <3>1. "healthy" \in Outcomes /\ "unhealthy" \in Outcomes
      BY DEF Outcomes
    <3> QED BY <2>6, <3>1, OutcomeKeeps DEF BackendHealthy, HealthCheckFails
  <2> QED BY <2>1, <2>2, <2>3, <2>4, <2>5, <2>6
<1>2. CASE UNCHANGED vars
  BY <1>2 DEF vars, ResourcesInv, TypeOK, ConnectionsFit, Fits, FirstCheckLocks,
              FirstCheckIsLatest, HealthIsLatest
<1> QED BY <1>1, <1>2

LEMMA InvariantHolds == Spec => []ResourcesInv
BY InitHolds, NextKeeps, PTL DEF Spec

-----------------------------------------------------------------------------
(* Every variable keeps its type, and the pool never gives out more        *)
(* connections than it has (db/session.py).                                *)
THEOREM TypeCorrect == Spec => []TypeOK
<1>1. ResourcesInv => TypeOK
  BY DEF ResourcesInv
<1> QED BY <1>1, InvariantHolds, PTL

(* Requests queue for the pool and for the lock of the default backend's   *)
(* row, never for each other in a circle (db/session.py,                   *)
(* sandboxes/repository.py, platform_status/service.py).                   *)
THEOREM WaitingCorrect == Spec => []NobodyHoldsAndWaits
<1>1. ResourcesInv => NobodyHoldsAndWaits
  BY DEF ResourcesInv, ConnectionsFit, Fits, NobodyHoldsAndWaits, WaitsForPool
<1> QED BY <1>1, InvariantHolds, PTL

(* An answer of the backend that has to be recorded finds its connection   *)
(* (api/native/sandboxes.py).                                              *)
THEOREM AnswersCorrect == Spec => []AnswersFindAConnection
<1>1. ResourcesInv => AnswersFindAConnection
  BY DEF ResourcesInv, ConnectionsFit, Fits, AnswersFindAConnection
<1> QED BY <1>1, InvariantHolds, PTL

(* The recorded status of the default backend is that of its latest check, *)
(* however many administrators ask at once (platform_status/service.py).   *)
THEOREM HealthCorrect == Spec => []HealthIsLatest
<1>1. ResourcesInv => HealthIsLatest
  BY DEF ResourcesInv
<1> QED BY <1>1, InvariantHolds, PTL
=============================================================================
