--------------------------- MODULE SandboxesProofs ---------------------------
(***************************************************************************)
(* What module Sandboxes guarantees for any number of concurrent requests, *)
(* users and sandboxes: of the index and the audit trail; that they        *)
(* implement module Registry; of the backend behind them, when it gives    *)
(* every id once; and of the limit on running sandboxes.                   *)
(***************************************************************************)
EXTENDS Sandboxes, FiniteSetTheorems, TLAPS

-----------------------------------------------------------------------------
(* Type correctness.                                                       *)

LEMMA NormalizedStates == \A b \in Bodies : NormalizeState(b) \in RowStates
BY DEF Bodies, RawStates, RowStates, NormalizeState

(* What a served call makes of a sandbox, and what its answer can hold.    *)
LEMMA CallEffects ==
  ASSUME NEW op, NEW b, NEW c \in Effects(op, b)
  PROVE  /\ b \in RawStates /\ c \in RawStates \cup {"gone"}
         /\ op = "delete" \/ b \notin RunnableStates => c \notin RunnableStates
         /\ AnswerBodies(op, c) \subseteq Bodies
<1>1. PICK o \in Meanings(op) : Accepts(o, b) /\ c \in Afters(o, b)
  BY DEF Effects
<1>2. b \in RawStates
  BY <1>1 DEF Accepts, LiveStates, RawStates
<1>3. c \in RawStates \cup {"gone"} /\ (c = "gone" => o \notin {"patch", "renew"})
  BY <1>1, <1>2 DEF Afters, RawStates
<1>4. op = "delete" \/ b \notin RunnableStates => c \notin RunnableStates
  BY <1>1, <1>2 DEF Meanings, Accepts, Afters, RawStates, LiveStates, RunnableStates
<1>5. op \in {"patch", "renew"} => o = op
  BY <1>1 DEF Meanings
<1>6. AnswerBodies(op, c) \subseteq Bodies
  BY <1>3, <1>5 DEF AnswerBodies, Bodies
<1> QED BY <1>2, <1>3, <1>4, <1>6

-----------------------------------------------------------------------------
(* The index and its callers.  RowsStay is what no step may undo; Frame    *)
(* reduces the preservation of the invariant by a handler's step to what   *)
(* the step does to its own request.                                       *)

IndexInv == /\ TypeOK
            /\ CallersHoldTheirRows
            /\ PendingEventsAreTrue
            /\ AuditTruth

RowStays(s) == row[s] # NoRow => /\ row'[s].owner = row[s].owner
                                 /\ row[s].terminated => row'[s].terminated

Others(r) == \A q \in Requests : q # r => req'[q] = req[q]

LEMMA OwnedRowExists ==
  ASSUME TypeOK, NEW s \in SandboxIds, row[s].owner \in Subjects
  PROVE  row[s] # NoRow /\ row[s] \in Rows
BY ConstantsAssumption DEF TypeOK, NoRow, Rows

LEMMA Frame ==
  ASSUME IndexInv, TypeOK', NEW r \in Requests,
         \A s \in SandboxIds : RowStays(s),
         Others(r), \A q \in Requests : q # r => late'[q] = late[q],
         \/ late'[r] \in {late[r], NoCall}
         \/ late'[r] = Call(r) /\ req[r].pc = "call",
         req'[r].pc \in {"call", "reply"} =>
            (Call(r).who \in Subjects /\ ByOwner(Call(r)))',
         (req[r].pc = "audit" /\ Kept(r) => TruthOf(Event(r)))',
         \A e \in audit' : e \in audit \/ (e = Event(r) /\ req[r].pc = "audit" /\ Kept(r))
  PROVE  IndexInv'
<1>1. ASSUME NEW c, c.who \in Subjects, ByOwner(c)
      PROVE  ByOwner(c)'
  BY <1>1, OwnedRowExists DEF ByOwner, IndexInv, RowStays
<1>2. ASSUME NEW e, TruthOf(e)
      PROVE  TruthOf(e)'
  BY <1>2, OwnedRowExists DEF TruthOf, IndexInv, RowStays
<1>3. CallersHoldTheirRows'
  <2> SUFFICES ASSUME NEW q \in Requests
               PROVE  /\ req'[q].pc \in {"call", "reply"} =>
                            (Call(q).who \in Subjects /\ ByOwner(Call(q)))'
                      /\ late'[q] # NoCall =>
                            (late[q].who \in Subjects /\ ByOwner(late[q]))'
    BY DEF CallersHoldTheirRows
  <2>1. CASE q # r
    <3>1. Call(q)' = Call(q) /\ req'[q] = req[q] /\ late'[q] = late[q]
      BY <2>1 DEF Call, Others
    <3>2. req'[q].pc \in {"call", "reply"} =>
             Call(q).who \in Subjects /\ ByOwner(Call(q))
      BY <3>1 DEF IndexInv, CallersHoldTheirRows
    <3>3. late'[q] # NoCall => late[q].who \in Subjects /\ ByOwner(late[q])
      BY <3>1 DEF IndexInv, CallersHoldTheirRows
    <3>4. Call(q).who \in Subjects /\ ByOwner(Call(q)) => ByOwner(Call(q))'
      BY <3>1, OwnedRowExists DEF ByOwner, IndexInv, RowStays
    <3>5. late[q].who \in Subjects /\ ByOwner(late[q]) => ByOwner(late[q])'
      BY <3>1, OwnedRowExists DEF ByOwner, IndexInv, RowStays
    <3> QED BY <3>1, <3>2, <3>3, <3>4, <3>5
  <2>2. CASE q = r
    <3>1. late'[r] # NoCall => late'[r].who \in Subjects /\ ByOwner(late[r])'
      <4>1. CASE late'[r] = late[r] /\ late[r] # NoCall
        <5>1. late[r].who \in Subjects /\ ByOwner(late[r])
          BY <4>1 DEF IndexInv, CallersHoldTheirRows
        <5> QED BY <4>1, <5>1, OwnedRowExists DEF ByOwner, IndexInv, RowStays
      <4>2. CASE late'[r] = Call(r) /\ req[r].pc = "call"
        <5>1. Call(r).who \in Subjects /\ ByOwner(Call(r))
          BY <4>2 DEF IndexInv, CallersHoldTheirRows
        <5> QED BY <4>2, <5>1, OwnedRowExists DEF ByOwner, IndexInv, RowStays
      <4> QED BY <4>1, <4>2
    <3> QED BY <2>2, <3>1
  <2> QED BY <2>1, <2>2
<1>4. PendingEventsAreTrue'
  <2> SUFFICES ASSUME NEW q \in Requests, (req[q].pc = "audit" /\ Kept(q))'
               PROVE  TruthOf(Event(q))'
    BY DEF PendingEventsAreTrue
  <2>1. CASE q # r
    <3>1. Event(q)' = Event(q) /\ req'[q] = req[q]
      BY <2>1 DEF Event, Others
    <3>2. TruthOf(Event(q))
      BY <3>1 DEF IndexInv, PendingEventsAreTrue, Kept
    <3> QED BY <3>1, <3>2, OwnedRowExists DEF TruthOf, IndexInv, RowStays
  <2> QED BY <2>1
<1>5. AuditTruth'
  <2> SUFFICES ASSUME NEW e \in audit' PROVE TruthOf(e)'
    BY DEF AuditTruth
  <2>1. TruthOf(e)
    BY DEF IndexInv, AuditTruth, PendingEventsAreTrue
  <2> QED BY <1>2, <2>1
<1> QED BY <1>3, <1>4, <1>5 DEF IndexInv

(* What a step must do: keep the invariant and every row.                  *)
Keeps == IndexInv' /\ \A s \in SandboxIds : RowStays(s)

LEMMA IdleTypes ==
  /\ Idle \in ReqType /\ NoCall \in CallType
  /\ Idle.pc = "idle"
  /\ \A u \in Subjects, op \in AllOps, s \in SandboxIds \cup {NoId} :
       [Idle EXCEPT !.pc = "call", !.op = op, !.who = u, !.sb = s] \in ReqType
BY DEF Idle, NoCall, ReqType, CallType, Pcs, AllOps, Statuses, Bodies, Decisions

(* What each way of changing one's own request leaves behind.              *)

LEMMA ForwardReq ==
  ASSUME TypeOK, NEW r \in Requests, NEW u \in Subjects, NEW op \in AllOps,
         NEW s \in SandboxIds \cup {NoId}, Forward(r, u, op, s)
  PROVE  /\ req' \in [Requests -> ReqType] /\ Others(r)
         /\ req'[r].pc = "call" /\ Call(r)' = [op |-> op, who |-> u, sb |-> s]
<1>1. req' = [req EXCEPT ![r] = [Idle EXCEPT !.pc = "call", !.op = op, !.who = u, !.sb = s]]
  BY DEF Forward
<1>2. req'[r] = [Idle EXCEPT !.pc = "call", !.op = op, !.who = u, !.sb = s]
  BY <1>1 DEF TypeOK
<1>3. req' \in [Requests -> ReqType] /\ Others(r)
  BY <1>1, IdleTypes DEF TypeOK, Others
<1>4. /\ req'[r].pc = "call" /\ req'[r].op = op /\ req'[r].who = u /\ req'[r].sb = s
  BY <1>2 DEF Idle
<1> QED BY <1>3, <1>4 DEF Call

LEMMA FinishReq ==
  ASSUME TypeOK, NEW r \in Requests, Finish(r)
  PROVE  /\ req' \in [Requests -> ReqType] /\ Others(r)
         /\ req'[r] = Idle /\ req'[r].pc = "idle"
<1>1. req' = [req EXCEPT ![r] = Idle]
  BY DEF Finish
<1> QED BY <1>1, IdleTypes DEF TypeOK, Others

LEMMA PendingType ==
  ASSUME NEW u \in Subjects \cup {NoOne}, NEW op \in AllOps,
         NEW s \in SandboxIds \cup {NoId}, NEW d \in Decisions
  PROVE  /\ Pending(u, op, s, d) \in ReqType
         /\ Pending(u, op, s, d).pc = "audit"
         /\ Pending(u, op, s, d).decision = d
         /\ d = "allow" /\ Pending(u, op, s, d).op \in KeptOps =>
               /\ Pending(u, op, s, d).who = u
               /\ Pending(u, op, s, d).op = op
               /\ Pending(u, op, s, d).sb = s
<1>1. CASE d = "allow" /\ op \in KeptOps
  <2>1. Pending(u, op, s, d) =
          [Idle EXCEPT !.pc = "audit", !.decision = d, !.op = op, !.who = u, !.sb = s]
    BY <1>1 DEF Pending
  <2> QED BY <2>1 DEF Idle, ReqType, Pcs, Statuses, Bodies
<1>2. CASE ~(d = "allow" /\ op \in KeptOps)
  <2>1. Pending(u, op, s, d) = [Idle EXCEPT !.pc = "audit", !.decision = d]
    BY <1>2 DEF Pending
  <2>2. /\ Pending(u, op, s, d) \in ReqType /\ Pending(u, op, s, d).pc = "audit"
        /\ Pending(u, op, s, d).decision = d /\ Pending(u, op, s, d).op = "get"
    BY <2>1 DEF Idle, ReqType, Pcs, Statuses, Bodies, AllOps
  <2> QED BY <2>2, ConstantsAssumption
<1> QED BY <1>1, <1>2

LEMMA ConcludeReq ==
  ASSUME TypeOK, NEW r \in Requests, NEW d \in Decisions, Conclude(r, d)
  PROVE  /\ req' \in [Requests -> ReqType] /\ Others(r)
         /\ req'[r].pc = "audit"
         /\ Kept(r)' => d = "allow" /\ Event(r)' = Event(r)
<1>0. PICK p : p = Pending(req[r].who, req[r].op, req[r].sb, d)
  OBVIOUS
<1>1. req' = [req EXCEPT ![r] = p]
  BY <1>0 DEF Conclude
<1>2. req[r] \in ReqType /\ req'[r] = p
  BY <1>1 DEF TypeOK
<1>3. /\ req[r].who \in Subjects \cup {NoOne} /\ req[r].op \in AllOps
      /\ req[r].sb \in SandboxIds \cup {NoId}
  BY <1>2 DEF ReqType
<1>4. /\ p \in ReqType /\ p.pc = "audit" /\ p.decision = d
      /\ d = "allow" /\ p.op \in KeptOps =>
           p.who = req[r].who /\ p.op = req[r].op /\ p.sb = req[r].sb
  <2>1. PICK u, o, i : u = req[r].who /\ o = req[r].op /\ i = req[r].sb
    OBVIOUS
  <2>2. /\ u \in Subjects \cup {NoOne} /\ o \in AllOps /\ i \in SandboxIds \cup {NoId}
        /\ d \in Decisions /\ p = Pending(u, o, i, d)
    BY <1>0, <1>3, <2>1
  <2>3. /\ p \in ReqType /\ p.pc = "audit" /\ p.decision = d
        /\ d = "allow" /\ p.op \in KeptOps => p.who = u /\ p.op = o /\ p.sb = i
    BY <2>2, PendingType
  <2> QED BY <2>1, <2>3
<1>5. req' \in [Requests -> ReqType] /\ Others(r)
  BY <1>1, <1>4 DEF TypeOK, Others
<1> QED BY <1>2, <1>4, <1>5 DEF Kept, Event

LEMMA DenyReq ==
  ASSUME TypeOK, NEW r \in Requests, Deny(r)
  PROVE  /\ req' \in [Requests -> ReqType] /\ Others(r)
         /\ req'[r].pc = "audit" /\ ~Kept(r)'
<1> DEFINE p == Pending(NoOne, "get", NoId, "deny")
<1>1. req' = [req EXCEPT ![r] = p] /\ req'[r] = p
  BY DEF Deny, TypeOK
<1>2. p \in ReqType /\ p.pc = "audit" /\ p.decision = "deny"
  BY PendingType DEF AllOps, Decisions
<1> HIDE DEF p
<1>3. req' \in [Requests -> ReqType] /\ Others(r)
  BY <1>1, <1>2 DEF TypeOK, Others
<1> QED BY <1>1, <1>2, <1>3 DEF Kept

LEMMA AnsweredReq ==
  ASSUME TypeOK, NEW r \in Requests, NEW status \in Statuses, NEW body \in Bodies,
         NEW s \in SandboxIds \cup {NoId}, Answered(r, status, body, s)
  PROVE  /\ req' \in [Requests -> ReqType] /\ Others(r)
         /\ req'[r].pc = "reply" /\ req'[r].status = status /\ req'[r].body = body
         /\ Call(r)' = [op |-> req[r].op, who |-> req[r].who, sb |-> s]
<1>1. req' = [req EXCEPT ![r] = [req[r] EXCEPT !.pc = "reply", !.status = status,
                                               !.body = body, !.sb = s]]
  BY DEF Answered, TypeOK
<1>2. req[r] \in ReqType
      /\ req'[r] = [req[r] EXCEPT !.pc = "reply", !.status = status,
                                  !.body = body, !.sb = s]
  BY <1>1 DEF TypeOK
<1>3. req'[r] \in ReqType
  BY <1>2 DEF ReqType, Pcs
<1>4. req' \in [Requests -> ReqType] /\ Others(r)
  BY <1>1, <1>2, <1>3 DEF TypeOK, Others
<1>5. /\ req'[r].pc = "reply" /\ req'[r].status = status /\ req'[r].body = body
      /\ req'[r].op = req[r].op /\ req'[r].who = req[r].who /\ req'[r].sb = s
  BY <1>2 DEF ReqType
<1> QED BY <1>4, <1>5 DEF Call

-----------------------------------------------------------------------------
(* Each action in turn.                                                    *)

LEMMA EnforceQuotaKeeps ==
  ASSUME IndexInv, NEW r \in Requests, NEW u \in Subjects, EnforceQuota(r, u)
  PROVE  Keeps
<1>1. UNCHANGED <<row, backend, maker, late, audit, revived>> /\ TypeOK
  BY DEF EnforceQuota, IndexInv
<1>2. CASE Forward(r, u, "create", NoId)
  <2>1. /\ req' \in [Requests -> ReqType] /\ Others(r) /\ req'[r].pc = "call"
        /\ Call(r)' = [op |-> "create", who |-> u, sb |-> NoId]
    BY <1>1, <1>2, ForwardReq DEF AllOps
  <2> QED BY <1>1, <2>1, Frame DEF Keeps, RowStays, TypeOK, ByOwner, Named
<1>3. CASE Deny(r)
  <2> QED BY <1>1, <1>3, DenyReq, Frame DEF Keeps, RowStays, TypeOK
<1> QED BY <1>2, <1>3 DEF EnforceQuota

LEMMA EnsureOwnedKeeps ==
  ASSUME IndexInv, NEW r \in Requests, NEW u \in Subjects, NEW op \in Ops,
         NEW s \in SandboxIds, EnsureOwned(r, u, op, s)
  PROVE  Keeps
<1>1. UNCHANGED <<row, backend, maker, late, audit, revived>> /\ TypeOK
  BY DEF EnsureOwned, IndexInv
<1>2. ASSUME NEW t \in BackendPath(op, s), Owned(u, s), Forward(r, u, op, t)
      PROVE  Keeps
  <2>1. t \in SandboxIds \cup {NoId} /\ (Named([op |-> op, who |-> u, sb |-> t]) => t = s)
    BY <1>2 DEF BackendPath, Named
  <2>2. /\ req' \in [Requests -> ReqType] /\ Others(r) /\ req'[r].pc = "call"
        /\ Call(r)' = [op |-> op, who |-> u, sb |-> t]
    BY <1>1, <1>2, <2>1, ForwardReq, ConstantsAssumption
  <2> QED BY <1>1, <1>2, <2>1, <2>2, Frame DEF Keeps, RowStays, TypeOK, ByOwner, Owned
<1>3. CASE Deny(r)
  <2> QED BY <1>1, <1>3, DenyReq, Frame DEF Keeps, RowStays, TypeOK
<1> QED BY <1>2, <1>3 DEF EnsureOwned

LEMMA BackendCreatesKeeps ==
  ASSUME IndexInv, NEW r \in Requests, BackendCreates(r)
  PROVE  Keeps
<1>1. UNCHANGED <<row, late, audit, revived>> /\ TypeOK /\ req[r].pc = "call" /\ Creates(Call(r))
  BY DEF BackendCreates, IndexInv
<1>2. PICK s \in SandboxIds, b \in BirthStates :
        /\ Make(s, req[r].who, b)
        /\ \/ \E body \in {b, "stateless"} : Answered(r, "2xx", body, s)
           \/ Answered(r, "2xx", b, NoId)
  BY DEF BackendCreates
<1>3. PICK body \in Bodies, i \in SandboxIds \cup {NoId} : Answered(r, "2xx", body, i)
  BY <1>2, BackendAssumption DEF Bodies, LiveStates, RawStates
<1>4. req[r].who \in Subjects
  BY <1>1 DEF IndexInv, CallersHoldTheirRows, Call
<1>5. /\ backend' \in [SandboxIds -> BackendStates]
      /\ maker' \in [SandboxIds -> Subjects \cup {NoOne}]
  BY <1>1, <1>2, <1>4, BackendAssumption DEF Make, TypeOK, LiveStates, RawStates, BackendStates
<1>6. /\ req' \in [Requests -> ReqType] /\ Others(r) /\ req'[r].pc = "reply"
      /\ Call(r)' = [op |-> req[r].op, who |-> req[r].who, sb |-> i]
  BY <1>1, <1>3, AnsweredReq DEF Statuses
<1>7. req[r].op \in {"create", "stray"}
  BY <1>1 DEF Creates, Call
<1> QED BY <1>1, <1>4, <1>5, <1>6, <1>7, Frame DEF Keeps, RowStays, TypeOK, ByOwner, Named

(* A call that makes no sandbox is on one.                                 *)
LEMMA CallsNameSandboxes ==
  ASSUME NEW c \in CallType, ByOwner(c), ~Creates(c)
  PROVE  c.sb \in SandboxIds
BY DEF CallType, ByOwner, Named, Creates

LEMMA BackendServesKeeps ==
  ASSUME IndexInv, NEW r \in Requests, BackendServes(r)
  PROVE  Keeps
<1>0. PICK s, op : s = req[r].sb /\ op = req[r].op
  OBVIOUS
<1>1. /\ UNCHANGED <<row, maker, late, audit, revived>> /\ TypeOK
      /\ req[r].pc = "call" /\ ~Creates(Call(r)) /\ Call(r) \in CallType
  BY DEF BackendServes, IndexInv, TypeOK, ReqType, CallType, Call
<1>2. req[r].who \in Subjects /\ ByOwner(Call(r)) /\ s \in SandboxIds
  <2>1. Call(r).who \in Subjects /\ ByOwner(Call(r))
    BY <1>1 DEF IndexInv, CallersHoldTheirRows
  <2> QED BY <1>0, <1>1, <2>1, CallsNameSandboxes DEF Call
<1>3. PICK b \in Effects(op, backend[s]) :
        /\ backend' = [backend EXCEPT ![s] = b]
        /\ \E body \in AnswerBodies(op, b) : Answered(r, "2xx", body, s)
  BY <1>0 DEF BackendServes
<1>4. PICK body \in Bodies : Answered(r, "2xx", body, s)
  BY <1>3, CallEffects
<1>5. backend' \in [SandboxIds -> BackendStates]
  BY <1>1, <1>3, CallEffects DEF TypeOK, BackendStates
<1>6. /\ req' \in [Requests -> ReqType] /\ Others(r) /\ req'[r].pc = "reply"
      /\ Call(r)' = Call(r)
  BY <1>0, <1>1, <1>2, <1>4, AnsweredReq DEF Statuses, Call
<1> QED BY <1>1, <1>2, <1>5, <1>6, Frame DEF Keeps, RowStays, TypeOK, ByOwner, Call

LEMMA BackendRefusesKeeps ==
  ASSUME IndexInv, NEW r \in Requests, BackendRefuses(r)
  PROVE  Keeps
<1>1. /\ UNCHANGED <<row, backend, maker, late, audit, revived>> /\ TypeOK /\ req[r].pc = "call"
      /\ req[r] \in ReqType
  BY DEF BackendRefuses, IndexInv, TypeOK
<1>2. PICK status \in Statuses : Answered(r, status, "empty", req[r].sb)
  BY DEF BackendRefuses, Statuses
<1>3. Call(r).who \in Subjects /\ ByOwner(Call(r))
  BY <1>1 DEF IndexInv, CallersHoldTheirRows
<1>4. /\ req' \in [Requests -> ReqType] /\ Others(r) /\ req'[r].pc = "reply"
      /\ Call(r)' = Call(r)
  BY <1>1, <1>2, AnsweredReq DEF Bodies, ReqType, Call
<1> QED BY <1>1, <1>3, <1>4, Frame DEF Keeps, RowStays, TypeOK, ByOwner

LEMMA BackendMoveKeeps ==
  ASSUME IndexInv, NEW s \in SandboxIds, BackendMove(s)
  PROVE  Keeps
<1>1. UNCHANGED <<row, req, maker, late, audit, revived>>
  BY DEF BackendMove
<1>2. TypeOK'
  BY <1>1 DEF BackendMove, IndexInv, TypeOK, BackendStates
<1>3. CallersHoldTheirRows' /\ PendingEventsAreTrue' /\ AuditTruth'
  BY <1>1 DEF IndexInv, CallersHoldTheirRows, PendingEventsAreTrue, AuditTruth,
              ByOwner, Call, Kept, Event, TruthOf
<1> QED BY <1>1, <1>2, <1>3 DEF Keeps, IndexInv, RowStays

LEMMA CallFailsKeeps ==
  ASSUME IndexInv, NEW r \in Requests, CallFails(r)
  PROVE  Keeps
<1>1. /\ UNCHANGED <<row, backend, maker, audit, revived>> /\ TypeOK /\ req[r].pc = "call"
      /\ late' = [late EXCEPT ![r] = Call(r)]
      /\ Conclude(r, "error") \/ Finish(r)
  BY DEF CallFails, IndexInv, Abandon
<1>2. req' \in [Requests -> ReqType] /\ Others(r) /\ req'[r].pc \notin {"call", "reply"}
      /\ (req'[r].pc = "audit" => ~Kept(r)')
  BY <1>1, ConcludeReq, FinishReq DEF Decisions
<1>3. late' \in [Requests -> CallType] /\ late'[r] = Call(r)
      /\ \A q \in Requests : q # r => late'[q] = late[q]
  BY <1>1 DEF TypeOK, CallType, ReqType, Call
<1> QED BY <1>1, <1>2, <1>3, Frame DEF Keeps, RowStays, TypeOK

LEMMA LateCallKeeps ==
  ASSUME IndexInv, NEW r \in Requests, LateCallLands(r) \/ LateCallDropped(r)
  PROVE  Keeps
<1>1. /\ UNCHANGED <<row, req, audit, revived>> /\ TypeOK /\ late[r] # NoCall
      /\ late' = [late EXCEPT ![r] = NoCall]
  BY DEF LateCallLands, LateCallDropped, IndexInv
<1>2. late[r].who \in Subjects /\ ByOwner(late[r])
  BY <1>1 DEF IndexInv, CallersHoldTheirRows
<1>3. /\ backend' \in [SandboxIds -> BackendStates]
      /\ maker' \in [SandboxIds -> Subjects \cup {NoOne}]
  <2>1. CASE LateCallDropped(r)
    BY <1>1, <2>1 DEF LateCallDropped, TypeOK
  <2>2. CASE \E s \in SandboxIds, b \in BirthStates : Make(s, late[r].who, b)
    BY <1>1, <1>2, <2>2, BackendAssumption
    DEF Make, TypeOK, BackendStates, RawStates, LiveStates
  <2>3. ASSUME NEW b \in Effects(late[r].op, backend[late[r].sb]), ~Creates(late[r]),
               backend' = [backend EXCEPT ![late[r].sb] = b], UNCHANGED maker
        PROVE  /\ backend' \in [SandboxIds -> BackendStates]
               /\ maker' \in [SandboxIds -> Subjects \cup {NoOne}]
    <3>1. late[r].sb \in SandboxIds
      BY <1>1, <1>2, <2>3, CallsNameSandboxes DEF TypeOK
    <3>2. b \in BackendStates
      BY <2>3, CallEffects DEF BackendStates
    <3> QED BY <1>1, <2>3, <3>1, <3>2 DEF TypeOK
  <2> QED BY <2>1, <2>2, <2>3 DEF LateCallLands
<1>4. late' \in [Requests -> CallType] /\ late'[r] = NoCall
      /\ \A q \in Requests : q # r => late'[q] = late[q]
  BY <1>1, IdleTypes DEF TypeOK
<1>5. /\ req'[r].pc \in {"call", "reply"} => (Call(r).who \in Subjects /\ ByOwner(Call(r)))'
      /\ (req[r].pc = "audit" /\ Kept(r) => TruthOf(Event(r)))'
  BY <1>1 DEF IndexInv, CallersHoldTheirRows, PendingEventsAreTrue, Call, ByOwner, Kept, Event, TruthOf
<1> QED BY <1>1, <1>3, <1>4, <1>5, Frame DEF Keeps, RowStays, TypeOK, Others

LEMMA RecordCreatedKeeps ==
  ASSUME IndexInv, NEW r \in Requests, RecordCreated(r)
  PROVE  Keeps
<1> DEFINE s == req[r].sb
           u == req[r].who
<1>1. /\ UNCHANGED <<backend, maker, late, audit, revived>> /\ TypeOK
      /\ req[r].pc = "reply" /\ req[r].op = "create" /\ req[r] \in ReqType
  BY DEF RecordCreated, Replied, IndexInv, TypeOK
<1>2. u \in Subjects /\ s \in SandboxIds \cup {NoId}
  BY <1>1 DEF IndexInv, CallersHoldTheirRows, Call, ReqType
<1>3. CASE UNCHANGED row /\ (Conclude(r, "error") \/ Conclude(r, "deny"))
  <2>1. req' \in [Requests -> ReqType] /\ Others(r) /\ req'[r].pc = "audit" /\ ~Kept(r)'
    BY <1>1, <1>3, ConcludeReq DEF Decisions
  <2> QED BY <1>1, <1>3, <2>1, Frame DEF Keeps, RowStays, TypeOK
<1>4. CASE /\ s # NoId /\ row[s] = NoRow /\ Conclude(r, "allow")
           /\ row' = [row EXCEPT ![s] = NewRow(u, req[r].body)]
  <2>1. /\ req' \in [Requests -> ReqType] /\ Others(r) /\ req'[r].pc = "audit"
        /\ Kept(r)' => Event(r)' = Event(r)
    BY <1>1, <1>4, ConcludeReq DEF Decisions
  <2>2. NewRow(u, req[r].body) \in Rows /\ NewRow(u, req[r].body).owner = u
    BY <1>1, <1>2, NormalizedStates DEF NewRow, Rows, ReqType
  <2>3. /\ row' \in [SandboxIds -> Rows \cup {NoRow}] /\ row'[s].owner = u
        /\ \A t \in SandboxIds : RowStays(t)
    BY <1>1, <1>2, <1>4, <2>2 DEF TypeOK, RowStays
  <2>4. TruthOf(Event(r))'  \/ ~Kept(r)'
    BY <1>1, <1>2, <1>4, <2>1, <2>3 DEF TruthOf, Event
  <2> QED BY <1>1, <2>1, <2>3, <2>4, Frame DEF Keeps, TypeOK
<1> QED BY <1>3, <1>4 DEF RecordCreated

LEMMA RecordUpdateKeeps ==
  ASSUME IndexInv, NEW r \in Requests,
         RecordDeleted(r) \/ RecordState(r) \/ RecordPayload(r)
  PROVE  Keeps
<1> DEFINE s == req[r].sb
<1>1. /\ UNCHANGED <<backend, maker, late, audit>> /\ TypeOK /\ Conclude(r, "allow")
      /\ req[r].pc = "reply" /\ req[r].op \in {"delete", "pause", "resume", "patch", "renew"}
      /\ req[r] \in ReqType
  BY DEF RecordDeleted, RecordState, RecordPayload, UpdateIndex, Replied, IndexInv, TypeOK
<1>2. req[r].who \in Subjects /\ s \in SandboxIds /\ row[s].owner = req[r].who
  BY <1>1 DEF IndexInv, CallersHoldTheirRows, Call, ByOwner, Named
<1>3. row[s] \in Rows /\ revived' \subseteq SandboxIds
  BY <1>1, <1>2, OwnedRowExists
  DEF TypeOK, RecordDeleted, RecordState, RecordPayload, UpdateIndex
<1>4. PICK w \in Rows :
        /\ row' = [row EXCEPT ![s] = w]
        /\ w.owner = row[s].owner
        /\ row[s].terminated \/ req[r].op = "delete" => w.terminated
  <2>1. CASE RecordDeleted(r)
    <3>1. row' = [row EXCEPT ![s] = [row[s] EXCEPT !.state = "deleted", !.terminated = TRUE]]
      BY <1>1, <1>2, <2>1 DEF RecordDeleted, TypeOK
    <3>2. [row[s] EXCEPT !.state = "deleted", !.terminated = TRUE] \in Rows
      BY <1>3 DEF Rows, RowStates
    <3> QED BY <1>3, <3>1, <3>2 DEF Rows
  <2>2. ASSUME NEW v \in RowStates, row' = [row EXCEPT ![s].state = v], req[r].op # "delete"
        PROVE  \E w \in Rows :
                  /\ row' = [row EXCEPT ![s] = w]
                  /\ w.owner = row[s].owner
                  /\ row[s].terminated \/ req[r].op = "delete" => w.terminated
    <3>1. row' = [row EXCEPT ![s] = [row[s] EXCEPT !.state = v]]
      BY <1>1, <1>2, <2>2 DEF TypeOK
    <3>2. [row[s] EXCEPT !.state = v] \in Rows
      BY <1>3, <2>2 DEF Rows
    <3> QED BY <1>3, <2>2, <3>1, <3>2 DEF Rows
  <2>3. CASE RecordState(r)
    BY <2>2, <2>3 DEF RecordState, UpdateIndex, Replied, RowStates
  <2>4. CASE RecordPayload(r) /\ req[r].body # "empty"
    <3>1. NormalizeState(req[r].body) \in RowStates
      BY <1>1, NormalizedStates DEF ReqType
    <3> QED BY <2>2, <2>4, <3>1 DEF RecordPayload, UpdateIndex, Replied
  <2>5. CASE RecordPayload(r) /\ req[r].body = "empty"
    <3>1. row' = row /\ req[r].op # "delete"
      BY <2>5 DEF RecordPayload, UpdateIndex, Replied
    <3>2. row = [row EXCEPT ![s] = row[s]]
      BY <1>1 DEF TypeOK
    <3> QED BY <1>3, <3>1, <3>2
  <2> QED BY <2>1, <2>3, <2>4, <2>5
<1>5. /\ row' \in [SandboxIds -> Rows \cup {NoRow}]
      /\ \A t \in SandboxIds : RowStays(t)
      /\ row'[s].owner = req[r].who
      /\ req[r].op = "delete" => row'[s].terminated
  <2>1. row' = [row EXCEPT ![s] = w] /\ row'[s] = w
    BY <1>1, <1>2, <1>4 DEF TypeOK
  <2>2. row' \in [SandboxIds -> Rows \cup {NoRow}]
    <3>1. w \in Rows \cup {NoRow} /\ row \in [SandboxIds -> Rows \cup {NoRow}]
      BY <1>1, <1>4 DEF TypeOK
    <3> QED BY <1>2, <2>1, <3>1
  <2>3. \A t \in SandboxIds : t # s => row'[t] = row[t]
    BY <1>1, <2>1 DEF TypeOK
  <2>4. \A t \in SandboxIds : RowStays(t)
    <3>1. RowStays(s)
      BY <1>4, <2>1, Zenon DEF RowStays
    <3>2. \A t \in SandboxIds : t # s => RowStays(t)
      BY <2>3, Zenon DEF RowStays
    <3> QED BY <3>1, <3>2, Zenon
  <2>5. row'[s].owner = req[r].who
    BY <1>2, <1>4, <2>1, Zenon
  <2>6. req[r].op = "delete" => row'[s].terminated
    BY <1>4, <2>1, Zenon
  <2> QED BY <2>2, <2>4, <2>5, <2>6, Zenon
<1>6. /\ req' \in [Requests -> ReqType] /\ Others(r) /\ req'[r].pc = "audit"
      /\ Kept(r)' => Event(r)' = Event(r)
  BY <1>1, ConcludeReq DEF Decisions
<1>7. Kept(r)' => TruthOf(Event(r))'
  BY <1>2, <1>5, <1>6 DEF TruthOf, Event
<1> QED BY <1>1, <1>3, <1>5, <1>6, <1>7, Frame DEF Keeps, TypeOK

LEMMA PassOnKeeps ==
  ASSUME IndexInv, NEW r \in Requests, PassOn(r)
  PROVE  Keeps
<1>1. /\ UNCHANGED <<row, backend, maker, late, audit, revived>> /\ TypeOK /\ req[r].pc = "reply"
      /\ req[r].status # "2xx" \/ req[r].op \in {"get", "endpoint"} \cup ProxyOps
  BY DEF PassOn, IndexInv
<1>2. CASE Finish(r)
  BY <1>1, <1>2, FinishReq, Frame DEF Keeps, RowStays, TypeOK
<1>3. CASE Conclude(r, DecisionFromStatus(req[r].status))
  <2>1. PICK d \in Decisions : d = DecisionFromStatus(req[r].status)
    BY DEF DecisionFromStatus, Decisions
  <2>2. /\ req' \in [Requests -> ReqType] /\ Others(r) /\ req'[r].pc = "audit"
        /\ Kept(r)' => d = "allow" /\ Event(r)' = Event(r)
    BY <1>1, <1>3, <2>1, ConcludeReq
  <2>3. d = "allow" => req[r].op \in {"get", "endpoint", "proxy", "stray"}
    BY <1>1, <2>1 DEF DecisionFromStatus, ProxyOps
  <2>4. ~Kept(r)'
    <3>1. Kept(r)' => req'[r].op = req[r].op /\ req'[r].op \in {"create", "delete"}
      BY <2>2, ConstantsAssumption DEF Kept, Event
    <3> QED BY <2>2, <2>3, <3>1
  <2> QED BY <1>1, <2>2, <2>4, Frame DEF Keeps, RowStays, TypeOK
<1> QED BY <1>2, <1>3 DEF PassOn

LEMMA RecordAuditKeeps ==
  ASSUME IndexInv, NEW r \in Requests, RecordAudit(r)
  PROVE  Keeps
<1>1. /\ UNCHANGED <<row, backend, maker, late, revived>> /\ TypeOK /\ req[r].pc = "audit"
      /\ Finish(r) /\ req[r] \in ReqType
      /\ audit' = audit \/ (Kept(r) /\ audit' = audit \cup {Event(r)})
  BY DEF RecordAudit, IndexInv, TypeOK
<1>2. /\ req' \in [Requests -> ReqType] /\ Others(r) /\ req'[r].pc = "idle"
  BY <1>1, FinishReq
<1>3. Kept(r) => Event(r) \in EventType
  <2>1. Kept(r) => TruthOf(Event(r)) /\ req[r].op \in {"create", "delete"}
    BY <1>1, ConstantsAssumption DEF IndexInv, PendingEventsAreTrue, Kept
  <2> QED BY <2>1 DEF TruthOf, Event, EventType
<1>4. audit' \subseteq EventType
  BY <1>1, <1>3 DEF TypeOK
<1> QED BY <1>1, <1>2, <1>4, Frame DEF Keeps, RowStays, TypeOK

LEMMA AbortKeeps ==
  ASSUME IndexInv, NEW r \in Requests, Abort(r)
  PROVE  Keeps
<1>1. /\ UNCHANGED <<row, backend, maker, audit, revived>> /\ TypeOK /\ Finish(r)
      /\ \/ req[r].pc = "call" /\ late' = [late EXCEPT ![r] = Call(r)]
         \/ late' = late
  BY DEF Abort, IndexInv, Abandon
<1>2. req' \in [Requests -> ReqType] /\ Others(r) /\ req'[r].pc = "idle"
  BY <1>1, FinishReq
<1>3. /\ late' \in [Requests -> CallType]
      /\ \A q \in Requests : q # r => late'[q] = late[q]
      /\ late'[r] = late[r] \/ (late'[r] = Call(r) /\ req[r].pc = "call")
  BY <1>1 DEF TypeOK, CallType, ReqType, Call
<1> QED BY <1>1, <1>2, <1>3, Frame DEF Keeps, RowStays, TypeOK

-----------------------------------------------------------------------------
(* The invariant, and what follows from it.                                *)

LEMMA InitIndexInv == Init => IndexInv
<1> SUFFICES ASSUME Init PROVE IndexInv
  OBVIOUS
<1>1. TypeOK
  BY IdleTypes DEF Init, TypeOK, BackendStates
<1>2. CallersHoldTheirRows
  BY DEF Init, CallersHoldTheirRows, Idle
<1>3. PendingEventsAreTrue /\ AuditTruth
  BY DEF Init, PendingEventsAreTrue, AuditTruth, Idle
<1> QED BY <1>1, <1>2, <1>3 DEF IndexInv

LEMMA NextKeeps == IndexInv /\ [Next]_vars => Keeps
<1> SUFFICES ASSUME IndexInv, [Next]_vars PROVE Keeps
  OBVIOUS
<1>1. CASE UNCHANGED vars
  BY <1>1 DEF vars, Keeps, IndexInv, TypeOK, CallersHoldTheirRows, PendingEventsAreTrue,
              AuditTruth, ByOwner, Call, Kept, Event, TruthOf, RowStays
<1>2. ASSUME NEW s \in SandboxIds, BackendMove(s) PROVE Keeps
  BY <1>2, BackendMoveKeeps
<1>3. ASSUME NEW r \in Requests, NEW u \in Subjects, EnforceQuota(r, u) PROVE Keeps
  BY <1>3, EnforceQuotaKeeps
<1>4. ASSUME NEW r \in Requests, NEW u \in Subjects, NEW op \in Ops, NEW s \in SandboxIds,
             EnsureOwned(r, u, op, s)
      PROVE  Keeps
  BY <1>4, EnsureOwnedKeeps
<1>5. ASSUME NEW r \in Requests,
             \/ BackendCreates(r) \/ BackendServes(r) \/ BackendRefuses(r)
             \/ CallFails(r) \/ LateCallLands(r) \/ LateCallDropped(r)
      PROVE  Keeps
  BY <1>5, BackendCreatesKeeps, BackendServesKeeps, BackendRefusesKeeps,
     CallFailsKeeps, LateCallKeeps
<1>6. ASSUME NEW r \in Requests,
             \/ RecordCreated(r) \/ RecordDeleted(r) \/ RecordState(r) \/ RecordPayload(r)
             \/ PassOn(r) \/ RecordAudit(r) \/ Abort(r)
      PROVE  Keeps
  BY <1>6, RecordCreatedKeeps, RecordUpdateKeeps, PassOnKeeps, RecordAuditKeeps, AbortKeeps
<1> QED BY <1>1, <1>2, <1>3, <1>4, <1>5, <1>6 DEF Next

LEMMA IndexCorrect == Spec => []IndexInv
<1>1. IndexInv /\ [Next]_vars => IndexInv'
  BY NextKeeps DEF Keeps
<1> QED BY InitIndexInv, <1>1, PTL DEF Spec

(* Every variable always holds what the code can store in it: the states   *)
(* of rows are the normalised ones, and nothing is recorded for a missing  *)
(* sandbox id.                                                             *)
THEOREM TypeCorrect == Spec => []TypeOK
<1>1. IndexInv => TypeOK
  BY DEF IndexInv
<1> QED BY IndexCorrect, <1>1, PTL

(* The row a handler found before it called the backend is still its       *)
(* caller's when the answer is recorded, and when a call nobody waits for  *)
(* any more lands.                                                         *)
THEOREM CallersCorrect == Spec => []CallersHoldTheirRows
<1>1. IndexInv => CallersHoldTheirRows
  BY DEF IndexInv
<1> QED BY IndexCorrect, <1>1, PTL

(* The audit trail never claims a create or a delete that the index does   *)
(* not bear out.                                                           *)
THEOREM AuditCorrect == Spec => []AuditTruth
<1>1. IndexInv => AuditTruth
  BY DEF IndexInv
<1> QED BY IndexCorrect, <1>1, PTL

(* No step deletes a row, gives it to another subject or takes back its    *)
(* terminated_at.                                                          *)
THEOREM RowsPermanent == Spec => RowsArePermanent
<1>1. IndexInv /\ [Next]_vars =>
        [\A s \in SandboxIds : row[s] # NoRow =>
           /\ row'[s].owner = row[s].owner
           /\ row[s].terminated => row'[s].terminated]_vars
  BY NextKeeps DEF Keeps, RowStays
<1> QED BY IndexCorrect, <1>1, PTL DEF Spec, RowsArePermanent

-----------------------------------------------------------------------------
(* The refinement: module Sandboxes implements module Registry, for any    *)
(* number of requests and users, any sandboxes, and also when the backend  *)
(* gives an id twice.                                                      *)
Owners == [s \in SandboxIds |-> row[s].owner]
EndedIds == {s \in SandboxIds : row[s].terminated}
Stutters == UNCHANGED <<Owners, EndedIds, audit>>

LEMMA SameTables ==
  ASSUME UNCHANGED <<row, audit>>
  PROVE  Stutters
BY DEF Stutters, Owners, EndedIds

(* A new row claims its id.                                                *)
LEMMA CreateClaims ==
  ASSUME IndexInv, NEW r \in Requests, RecordCreated(r)
  PROVE  Index!Next \/ Stutters
<1> DEFINE s == req[r].sb
           u == req[r].who
           new == NewRow(u, req[r].body)
<1>1. /\ UNCHANGED audit /\ TypeOK /\ req[r] \in ReqType
      /\ u \in Subjects
  BY DEF RecordCreated, Replied, IndexInv, TypeOK, CallersHoldTheirRows, Call
<1>2. CASE UNCHANGED row
  BY <1>1, <1>2, SameTables
<1>3. CASE s # NoId /\ row[s] = NoRow /\ row' = [row EXCEPT ![s] = new]
  <2>1. s \in SandboxIds
    BY <1>1, <1>3 DEF ReqType
  <2>2. row[s].owner = NoOne /\ row[s].terminated = FALSE
    BY <1>3 DEF NoRow
  <2>3. new.owner = u /\ new.terminated = FALSE
    BY DEF NewRow
  <2>4. row'[s] = new /\ \A t \in SandboxIds : t # s => row'[t] = row[t]
    BY <1>1, <1>3, <2>1 DEF TypeOK
  <2>5. Owners' = [Owners EXCEPT ![s] = u]
    BY <2>1, <2>3, <2>4 DEF Owners
  <2>6. EndedIds' = EndedIds
    BY <2>1, <2>2, <2>3, <2>4 DEF EndedIds
  <2>7. PICK t \in SandboxIds, v \in Subjects : t = s /\ v = u
    BY <1>1, <2>1
  <2>8. Index!Claim(t, v)
    BY <1>1, <2>2, <2>5, <2>6, <2>7 DEF Index!Claim, Owners, EndedIds
  <2> QED BY <2>8 DEF Index!Next
<1> QED BY <1>2, <1>3 DEF RecordCreated

(* An update of a row ends its sandbox, or changes only the state.         *)
LEMMA UpdateEnds ==
  ASSUME IndexInv, NEW r \in Requests,
         RecordDeleted(r) \/ RecordState(r) \/ RecordPayload(r)
  PROVE  Index!Next \/ Stutters
<1> DEFINE s == req[r].sb
<1>1. /\ UNCHANGED audit /\ TypeOK
      /\ s \in SandboxIds /\ row[s].owner = req[r].who /\ req[r].who \in Subjects
  BY DEF RecordDeleted, RecordState, RecordPayload, Replied, IndexInv,
         CallersHoldTheirRows, ByOwner, Named, Call
<1>2. row[s] \in Rows /\ row \in [SandboxIds -> Rows \cup {NoRow}]
  BY <1>1, OwnedRowExists DEF TypeOK
<1>3. CASE RecordDeleted(r)
  <2>1. /\ row'[s].owner = row[s].owner /\ row'[s].terminated
        /\ \A t \in SandboxIds : t # s => row'[t] = row[t]
    BY <1>1, <1>2, <1>3 DEF RecordDeleted, Rows
  <2>2. Owners' = Owners
    BY <1>1, <2>1 DEF Owners
  <2>3. EndedIds' = EndedIds \cup {s}
    BY <1>1, <2>1 DEF EndedIds
  <2>4. row[s].owner # NoOne
    BY <1>1, ConstantsAssumption
  <2>5. PICK t \in SandboxIds : t = s
    BY <1>1
  <2>6. Index!End(t)
    BY <1>1, <2>2, <2>3, <2>4, <2>5 DEF Index!End, Owners, EndedIds
  <2> QED BY <2>6 DEF Index!Next
<1>4. ASSUME NEW v, row' = [row EXCEPT ![s].state = v]
      PROVE  Stutters
  <2>1. /\ row'[s].owner = row[s].owner /\ row'[s].terminated = row[s].terminated
        /\ \A t \in SandboxIds : t # s => row'[t] = row[t]
    BY <1>1, <1>2, <1>4 DEF Rows
  <2>2. Owners' = Owners
    BY <1>1, <2>1 DEF Owners
  <2>3. EndedIds' = EndedIds
    BY <1>1, <2>1 DEF EndedIds
  <2> QED BY <1>1, <2>2, <2>3 DEF Stutters
<1>5. CASE RecordState(r)
  BY <1>4, <1>5 DEF RecordState, UpdateIndex
<1>6. CASE RecordPayload(r)
  BY <1>1, <1>4, <1>6, SameTables DEF RecordPayload, UpdateIndex
<1> QED BY <1>3, <1>5, <1>6

(* An event is written only of what happened.                              *)
LEMMA AuditReports ==
  ASSUME IndexInv, NEW r \in Requests, RecordAudit(r)
  PROVE  Index!Next \/ Stutters
<1>1. UNCHANGED row /\ req[r].pc = "audit"
  BY DEF RecordAudit
<1>2. CASE UNCHANGED audit
  BY <1>1, <1>2, SameTables
<1>3. CASE Kept(r) /\ audit' = audit \cup {Event(r)}
  <2> DEFINE e == Event(r)
  <2>1. TruthOf(e) /\ e.op \in {"create", "delete"}
    BY <1>1, <1>3, ConstantsAssumption DEF IndexInv, PendingEventsAreTrue, Kept, Event
  <2>2. PICK f \in Index!Events : f = e
    BY <2>1 DEF TruthOf, Event, Index!Events
  <2>3. TruthOf(f) /\ f.sb \in SandboxIds /\ audit' = audit \cup {f}
    BY <1>3, <2>1, <2>2 DEF TruthOf
  <2>4. Index!Report(f)
    BY <1>1, <2>3 DEF Index!Report, Index!Happened, TruthOf
  <2> QED BY <2>4 DEF Index!Next
<1> QED BY <1>2, <1>3 DEF RecordAudit

LEMMA StepsImplement == IndexInv /\ [Next]_vars => [Index!Next]_(Index!vars)
<1> SUFFICES ASSUME IndexInv, [Next]_vars PROVE Index!Next \/ Stutters
  BY DEF Stutters, Owners, EndedIds, Index!vars
<1>1. CASE UNCHANGED vars
  BY <1>1, SameTables DEF vars
<1>2. ASSUME NEW s \in SandboxIds, BackendMove(s) PROVE Stutters
  BY <1>2, SameTables DEF BackendMove
<1>3. ASSUME NEW r \in Requests, NEW u \in Subjects,
             \/ EnforceQuota(r, u)
             \/ \E op \in Ops, s \in SandboxIds : EnsureOwned(r, u, op, s)
      PROVE  Stutters
  BY <1>3, SameTables DEF EnforceQuota, EnsureOwned
<1>4. ASSUME NEW r \in Requests,
             \/ BackendCreates(r) \/ BackendServes(r) \/ BackendRefuses(r)
             \/ CallFails(r) \/ LateCallLands(r) \/ LateCallDropped(r)
             \/ PassOn(r) \/ Abort(r)
      PROVE  Stutters
  BY <1>4, SameTables DEF BackendCreates, BackendServes, BackendRefuses, CallFails,
       LateCallLands, LateCallDropped, PassOn, Abort
<1>5. ASSUME NEW r \in Requests,
             \/ RecordCreated(r) \/ RecordDeleted(r) \/ RecordState(r)
             \/ RecordPayload(r) \/ RecordAudit(r)
      PROVE  Index!Next \/ Stutters
  BY <1>5, CreateClaims, UpdateEnds, AuditReports
<1> QED BY <1>1, <1>2, <1>3, <1>4, <1>5 DEF Next

(* The tables, as their readers see them, behave as module Registry says:  *)
(* the commits of the handlers are its steps, everything else leaves them  *)
(* alone.                                                                  *)
THEOREM RegistryImplemented == Spec => ImplementsRegistry
<1>1. Init => Index!Init
  BY DEF Init, Index!Init, NoRow
<1>2. IndexInv /\ [Next]_vars => [Index!Next]_(Index!vars)
  BY StepsImplement
<1> QED BY <1>1, <1>2, IndexCorrect, PTL DEF Spec, ImplementsRegistry, Index!Spec

-----------------------------------------------------------------------------
(* The backend behind the index, when it gives every id once: who owns a   *)
(* sandbox, and which rows may be written off.                             *)

(* The sandbox was made and does not run, nor will it again.               *)
Over(s) == backend[s] \notin RunnableStates \cup {"unborn"}

-----------------------------------------------------------------------------
(* The invariant.  A row is written a step after the backend acted, from   *)
(* what the answer said, so the invariant has to say what an answer that   *)
(* is not recorded yet is worth: a create's names a sandbox its caller     *)
(* made, a delete's a sandbox that is over (if perhaps still stopping),    *)
(* and a final state in a body is that of a sandbox that is over.          *)

AnswerHolds(q) ==
  IF q.op = "create"
  THEN /\ q.body \in LiveStates \cup {"stateless"}
       /\ q.sb # NoId => /\ q.sb \in SandboxIds
                         /\ backend[q.sb] # "unborn"
                         /\ maker[q.sb] = q.who
  ELSE q.op = "delete" \/ q.body \in RawStates \ LiveStates =>
         q.sb \in SandboxIds /\ Over(q.sb)

Successful(q) == q.pc = "reply" /\ q.status = "2xx"
AnswersHold == \A r \in Requests : Successful(req[r]) => AnswerHolds(req[r])

UnbornHaveNoRow == \A s \in SandboxIds : backend[s] = "unborn" => row[s] = NoRow

BackendInv == /\ UnbornHaveNoRow
              /\ RowsNameTheMaker
              /\ EndedRowsNeverRun
              /\ AnswersHold

(* What the backend never undoes: a sandbox keeps its maker, and one that  *)
(* is over stays so.                                                       *)
Ages == \A s \in SandboxIds :
          /\ backend[s] # "unborn" => backend'[s] # "unborn" /\ maker'[s] = maker[s]
          /\ Over(s) => Over(s)'

LEMMA RowKinds ==
  ASSUME TypeOK, NEW s \in SandboxIds
  PROVE  /\ row[s] # NoRow => row[s] \in Rows
         /\ row[s].state \in FinalStates => row[s] # NoRow
BY DEF TypeOK, NoRow, FinalStates

LEMMA AnswersKept ==
  ASSUME Ages, NEW q, AnswerHolds(q)
  PROVE  AnswerHolds(q)'
<1>1. CASE q.op = "create"
  BY <1>1 DEF AnswerHolds, Ages
<1>2. CASE q.op # "create"
  BY <1>2 DEF AnswerHolds, Ages
<1> QED BY <1>1, <1>2

(* A step that leaves the index alone.                                     *)
LEMMA SameRows ==
  ASSUME TypeOK, TypeOK', BackendInv, Ages, UNCHANGED row, NEW r \in Requests, Others(r),
         Successful(req'[r]) => AnswerHolds(req[r])'
  PROVE  BackendInv'
<1>1. UnbornHaveNoRow' /\ RowsNameTheMaker'
  BY DEF BackendInv, UnbornHaveNoRow, RowsNameTheMaker, Ages
<1>2. EndedRowsNeverRun'
  <2> SUFFICES ASSUME NEW s \in SandboxIds, row[s].state \in FinalStates
               PROVE  backend'[s] \notin RunnableStates
    BY DEF EndedRowsNeverRun
  <2>1. Over(s)
    BY RowKinds DEF BackendInv, UnbornHaveNoRow, EndedRowsNeverRun, Over
  <2> QED BY <2>1 DEF Ages, Over
<1>3. AnswersHold'
  <2> SUFFICES ASSUME NEW q \in Requests, Successful(req'[q])
               PROVE  AnswerHolds(req[q])'
    BY DEF AnswersHold
  <2>1. CASE q = r
    BY <2>1
  <2>2. CASE q # r
    <3>1. PICK c : c = req[q] /\ c = req'[q]
      BY <2>2 DEF Others
    <3>2. AnswerHolds(c)
      BY <3>1 DEF BackendInv, AnswersHold
    <3>3. AnswerHolds(c)'
      BY <3>2, AnswersKept
    <3> QED BY <3>1, <3>3 DEF AnswerHolds, Over
  <2> QED BY <2>1, <2>2
<1> QED BY <1>1, <1>2, <1>3 DEF BackendInv

(* A step that writes one row, of a sandbox made by the row's owner.       *)
LEMMA OneRow ==
  ASSUME TypeOK, BackendInv, UNCHANGED <<backend, maker>>,
         NEW r \in Requests, Others(r), req'[r].pc = "audit",
         NEW s \in SandboxIds, NEW w, row' = [row EXCEPT ![s] = w],
         w.owner = maker[s], backend[s] # "unborn", w.state \in FinalStates => Over(s)
  PROVE  BackendInv'
<1>1. row'[s] = w /\ \A t \in SandboxIds : t # s => row'[t] = row[t]
  BY DEF TypeOK
<1>2. UnbornHaveNoRow' /\ RowsNameTheMaker'
  BY <1>1 DEF BackendInv, UnbornHaveNoRow, RowsNameTheMaker
<1>3. EndedRowsNeverRun'
  <2> SUFFICES ASSUME NEW t \in SandboxIds, row'[t].state \in FinalStates
               PROVE  backend[t] \notin RunnableStates
    BY DEF EndedRowsNeverRun
  <2>1. CASE t = s
    BY <1>1, <2>1 DEF Over
  <2>2. CASE t # s
    BY <1>1, <2>2 DEF BackendInv, EndedRowsNeverRun
  <2> QED BY <2>1, <2>2
<1>4. AnswersHold'
  <2> SUFFICES ASSUME NEW q \in Requests, Successful(req'[q])
               PROVE  AnswerHolds(req[q])'
    BY DEF AnswersHold
  <2>1. req'[q] = req[q]
    BY DEF Others, Successful
  <2>2. AnswerHolds(req[q])
    BY <2>1 DEF BackendInv, AnswersHold
  <2> QED BY <2>1, <2>2 DEF AnswerHolds, Over
<1> QED BY <1>2, <1>3, <1>4 DEF BackendInv

-----------------------------------------------------------------------------
(* The backend's steps.                                                    *)

LEMMA NoBackendStep ==
  ASSUME UNCHANGED <<backend, maker>>
  PROVE  Ages
BY DEF Ages, Over

LEMMA MakeAges ==
  ASSUME TypeOK, ~ReuseIds, NEW s \in SandboxIds, NEW u, NEW b \in BirthStates, Make(s, u, b)
  PROVE  Ages /\ backend'[s] = b /\ maker'[s] = u
<1>1. /\ backend[s] = "unborn"
      /\ backend'[s] = b /\ maker'[s] = u
      /\ \A t \in SandboxIds : t # s => backend'[t] = backend[t] /\ maker'[t] = maker[t]
  BY DEF Make, Fresh, TypeOK
<1>2. ~Over(s)
  BY <1>1 DEF Over
<1> QED BY <1>1, <1>2 DEF Ages, Over

LEMMA ServeAges ==
  ASSUME TypeOK, NEW s \in SandboxIds, NEW op, NEW b \in Effects(op, backend[s]),
         backend' = [backend EXCEPT ![s] = b], UNCHANGED maker
  PROVE  Ages /\ backend'[s] = b
<1>1. backend'[s] = b /\ \A t \in SandboxIds : t # s => backend'[t] = backend[t]
  BY DEF TypeOK
<1>2. b # "unborn" /\ (Over(s) => b \notin RunnableStates)
  BY CallEffects DEF RawStates, Over
<1>3. ASSUME NEW t \in SandboxIds
      PROVE  /\ backend[t] # "unborn" => backend'[t] # "unborn" /\ maker'[t] = maker[t]
             /\ Over(t) => Over(t)'
  <2>1. CASE t = s
    BY <1>1, <1>2, <2>1 DEF Over
  <2>2. CASE t # s
    BY <1>1, <2>2 DEF Over
  <2> QED BY <2>1, <2>2
<1> QED BY <1>1, <1>3 DEF Ages

LEMMA MoveAges ==
  ASSUME TypeOK, NEW s \in SandboxIds, BackendMove(s)
  PROVE  Ages
<1>1. PICK b \in RawStates \cup {"gone"} :
        /\ <<backend[s], b>> \in BackendMoves
        /\ backend' = [backend EXCEPT ![s] = b]
  BY DEF BackendMove
<1>2. backend'[s] = b /\ \A t \in SandboxIds : t # s => backend'[t] = backend[t]
  BY <1>1 DEF TypeOK
<1>3. b \in RunnableStates => backend[s] \in RunnableStates
  BY <1>1, BackendAssumption
<1>4. maker' = maker /\ b # "unborn"
  BY DEF BackendMove, RawStates
<1>5. Over(s) => Over(s)'
  BY <1>2, <1>3, <1>4 DEF Over
<1>6. \A t \in SandboxIds : t # s => (Over(t) => Over(t)')
  BY <1>2 DEF Over
<1> QED BY <1>2, <1>4, <1>5, <1>6 DEF Ages

-----------------------------------------------------------------------------
(* Each action in turn.  IndexInv holds before and after every step.       *)

LEMMA BackendCreatesHolds ==
  ASSUME IndexInv, IndexInv', BackendInv, ~ReuseIds, NEW r \in Requests, BackendCreates(r)
  PROVE  BackendInv'
<1>1. UNCHANGED row /\ TypeOK /\ TypeOK' /\ req[r].op \in {"create", "stray"}
  BY DEF BackendCreates, IndexInv, Creates, Call
<1>2. PICK s \in SandboxIds, b \in BirthStates :
        /\ Make(s, req[r].who, b)
        /\ \/ \E body \in {b, "stateless"} : Answered(r, "2xx", body, s)
           \/ Answered(r, "2xx", b, NoId)
  BY DEF BackendCreates
<1>3. b \in LiveStates
  BY BackendAssumption
<1>4. PICK body \in {b, "stateless"}, i \in {s, NoId} : Answered(r, "2xx", body, i)
  BY <1>2
<1>5. body \in Bodies /\ i \in SandboxIds \cup {NoId}
  BY <1>3 DEF Bodies, LiveStates, RawStates
<1>6. /\ Others(r) /\ req'[r].body = body
      /\ req'[r].op = req[r].op /\ req'[r].who = req[r].who /\ req'[r].sb = i
  BY <1>1, <1>4, <1>5, AnsweredReq DEF Statuses, Call
<1>7. Ages /\ backend'[s] = b /\ maker'[s] = req[r].who
  BY <1>1, <1>2, MakeAges
<1>8. AnswerHolds(req[r])'
  BY <1>1, <1>3, <1>4, <1>6, <1>7 DEF AnswerHolds, LiveStates, RawStates
<1> QED BY <1>1, <1>6, <1>7, <1>8, SameRows

LEMMA BackendServesHolds ==
  ASSUME IndexInv, IndexInv', BackendInv, NEW r \in Requests, BackendServes(r)
  PROVE  BackendInv'
<1>0. PICK s, op : s = req[r].sb /\ op = req[r].op
  OBVIOUS
<1>1. /\ UNCHANGED <<row, maker>> /\ TypeOK /\ TypeOK'
      /\ req[r].pc = "call" /\ ~Creates(Call(r)) /\ Call(r) \in CallType
  BY DEF BackendServes, IndexInv, TypeOK, ReqType, CallType, Call
<1>2. s \in SandboxIds /\ op # "create"
  BY <1>0, <1>1, CallsNameSandboxes
  DEF IndexInv, CallersHoldTheirRows, Call, Creates
<1>3. PICK b \in Effects(op, backend[s]) :
        /\ backend' = [backend EXCEPT ![s] = b]
        /\ \E body \in AnswerBodies(op, b) : Answered(r, "2xx", body, s)
  BY <1>0 DEF BackendServes
<1>4. PICK body \in AnswerBodies(op, b) : Answered(r, "2xx", body, s)
  BY <1>3
<1>5. Others(r) /\ req'[r].body = body /\ req'[r].op = op /\ req'[r].sb = s
  <2>1. body \in Bodies
    BY CallEffects
  <2>2. Others(r) /\ req'[r].body = body
        /\ Call(r)' = [op |-> req[r].op, who |-> req[r].who, sb |-> s]
    BY <1>1, <1>2, <1>4, <2>1, AnsweredReq DEF Statuses
  <2> QED BY <1>0, <2>2 DEF Call
<1>6. Ages /\ backend'[s] = b
  BY <1>1, <1>2, <1>3, ServeAges
<1>7. op = "delete" \/ body \in RawStates \ LiveStates => Over(s)'
  <2>1. b # "unborn" /\ (op = "delete" => b \notin RunnableStates)
    BY CallEffects DEF RawStates
  <2>2. body \in RawStates => body = b
    BY DEF AnswerBodies, RawStates
  <2> QED BY <1>6, <2>1, <2>2 DEF Over, RunnableStates
<1>8. AnswerHolds(req[r])'
  BY <1>2, <1>5, <1>7 DEF AnswerHolds, Over
<1> QED BY <1>1, <1>5, <1>6, <1>8, SameRows

LEMMA LateCallHolds ==
  ASSUME IndexInv, IndexInv', BackendInv, ~ReuseIds, NEW r \in Requests, LateCallLands(r)
  PROVE  BackendInv'
<1>1. UNCHANGED <<row, req>> /\ TypeOK /\ TypeOK' /\ late[r] # NoCall
  BY DEF LateCallLands, IndexInv
<1>2. Ages
  <2>1. CASE \E s \in SandboxIds, b \in BirthStates : Make(s, late[r].who, b)
    BY <1>1, <2>1, MakeAges
  <2>2. ASSUME NEW b \in Effects(late[r].op, backend[late[r].sb]), ~Creates(late[r]),
               backend' = [backend EXCEPT ![late[r].sb] = b], UNCHANGED maker
        PROVE  Ages
    <3>1. late[r].sb \in SandboxIds
      BY <1>1, <2>2, CallsNameSandboxes DEF IndexInv, CallersHoldTheirRows, TypeOK
    <3> QED BY <1>1, <2>2, <3>1, ServeAges
  <2> QED BY <2>1, <2>2 DEF LateCallLands
<1>3. Others(r)
  BY <1>1 DEF Others
<1>4. Successful(req'[r]) => AnswerHolds(req[r])'
  <2>1. PICK c : c = req[r] /\ c = req'[r]
    BY <1>1
  <2>2. Successful(c) => AnswerHolds(c)'
    BY <1>2, <2>1, AnswersKept DEF BackendInv, AnswersHold
  <2> QED BY <2>1, <2>2 DEF AnswerHolds, Over
<1> QED BY <1>1, <1>2, <1>3, <1>4, SameRows

LEMMA BackendMoveHolds ==
  ASSUME IndexInv, IndexInv', BackendInv, NEW s \in SandboxIds, BackendMove(s)
  PROVE  BackendInv'
<1>1. UNCHANGED <<row, req>> /\ TypeOK /\ TypeOK' /\ Ages
  BY MoveAges DEF BackendMove, IndexInv
<1>2. CASE Requests = {}
  BY <1>1, <1>2, RowKinds
  DEF BackendInv, UnbornHaveNoRow, RowsNameTheMaker, EndedRowsNeverRun, AnswersHold, Ages, Over
<1>3. ASSUME NEW r \in Requests PROVE BackendInv'
  <2>1. Others(r)
    BY <1>1 DEF Others
  <2>2. PICK c : c = req[r] /\ c = req'[r]
    BY <1>1
  <2>3. Successful(c) => AnswerHolds(c)'
    BY <1>1, <2>2, AnswersKept DEF BackendInv, AnswersHold
  <2>4. Successful(req'[r]) => AnswerHolds(req[r])'
    BY <2>2, <2>3 DEF AnswerHolds, Over
  <2> QED BY <1>1, <2>1, <2>4, SameRows
<1> QED BY <1>2, <1>3

(* The steps that touch neither the index nor the backend.                 *)
LEMMA QuietHolds ==
  ASSUME IndexInv, IndexInv', BackendInv, NEW r \in Requests,
         UNCHANGED <<row, backend, maker>>, Others(r), ~Successful(req'[r])
  PROVE  BackendInv'
<1>1. TypeOK /\ TypeOK' /\ Ages
  BY NoBackendStep DEF IndexInv
<1> QED BY <1>1, SameRows

LEMMA AdmissionHolds ==
  ASSUME IndexInv, IndexInv', BackendInv, NEW r \in Requests, NEW u \in Subjects,
         \/ EnforceQuota(r, u)
         \/ \E op \in Ops, s \in SandboxIds : EnsureOwned(r, u, op, s)
  PROVE  BackendInv'
<1>1. /\ UNCHANGED <<row, backend, maker>> /\ TypeOK
      /\ \/ \E op \in AllOps, s \in SandboxIds \cup {NoId} : Forward(r, u, op, s)
         \/ Deny(r)
  BY ConstantsAssumption DEF EnforceQuota, EnsureOwned, BackendPath, AllOps, IndexInv
<1>2. Others(r) /\ req'[r].pc # "reply"
  BY <1>1, ForwardReq, DenyReq
<1> QED BY <1>1, <1>2, QuietHolds DEF Successful

LEMMA QuietStepsHold ==
  ASSUME IndexInv, IndexInv', BackendInv, NEW r \in Requests,
         \/ BackendRefuses(r) \/ CallFails(r) \/ PassOn(r) \/ RecordAudit(r) \/ Abort(r)
  PROVE  BackendInv'
<1>1. UNCHANGED <<row, backend, maker>> /\ TypeOK /\ req[r] \in ReqType
  BY DEF BackendRefuses, CallFails, PassOn, RecordAudit, Abort, IndexInv, TypeOK
<1>2. CASE BackendRefuses(r)
  <2>1. PICK status \in {"3xx", "4xx", "5xx"} : Answered(r, status, "empty", req[r].sb)
    BY <1>2 DEF BackendRefuses
  <2>2. Others(r) /\ req'[r].status = status
    BY <1>1, <2>1, AnsweredReq DEF Statuses, Bodies, ReqType
  <2> QED BY <1>1, <2>1, <2>2, QuietHolds DEF Successful
<1>3. CASE Finish(r) \/ \E d \in Decisions : Conclude(r, d)
  <2>1. Others(r) /\ req'[r].pc # "reply"
    BY <1>1, <1>3, FinishReq, ConcludeReq
  <2> QED BY <1>1, <2>1, QuietHolds DEF Successful
<1>4. ASSUME \/ CallFails(r) \/ PassOn(r) \/ RecordAudit(r) \/ Abort(r)
      PROVE  Finish(r) \/ \E d \in Decisions : Conclude(r, d)
  BY <1>4 DEF CallFails, PassOn, RecordAudit, Abort, DecisionFromStatus, Decisions
<1> QED BY <1>2, <1>3, <1>4

LEMMA LateCallDroppedHolds ==
  ASSUME IndexInv, IndexInv', BackendInv, NEW r \in Requests, LateCallDropped(r)
  PROVE  BackendInv'
<1>1. UNCHANGED <<row, req, backend, maker>>
  BY DEF LateCallDropped
<1> QED BY <1>1 DEF BackendInv, UnbornHaveNoRow, RowsNameTheMaker, EndedRowsNeverRun, AnswersHold,
                    Successful, AnswerHolds, Over

LEMMA RecordCreatedHolds ==
  ASSUME IndexInv, IndexInv', BackendInv, NEW r \in Requests, RecordCreated(r)
  PROVE  BackendInv'
<1> DEFINE s == req[r].sb
           u == req[r].who
<1>1. /\ UNCHANGED <<backend, maker>> /\ TypeOK /\ Successful(req[r]) /\ req[r].op = "create"
      /\ req[r] \in ReqType
  BY DEF RecordCreated, Replied, Successful, IndexInv, TypeOK
<1>2. CASE UNCHANGED row /\ (Conclude(r, "error") \/ Conclude(r, "deny"))
  <2>1. Others(r) /\ req'[r].pc = "audit"
    BY <1>1, <1>2, ConcludeReq DEF Decisions
  <2> QED BY <1>1, <1>2, <2>1, QuietHolds DEF Successful
<1>3. CASE /\ s # NoId /\ Conclude(r, "allow")
           /\ row' = [row EXCEPT ![s] = NewRow(u, req[r].body)]
  <2>1. Others(r) /\ req'[r].pc = "audit"
    BY <1>1, <1>3, ConcludeReq DEF Decisions
  <2>2. /\ req[r].body \in LiveStates \cup {"stateless"}
        /\ s \in SandboxIds /\ backend[s] # "unborn" /\ maker[s] = u
    BY <1>1, <1>3 DEF BackendInv, AnswersHold, AnswerHolds
  <2>3. NewRow(u, req[r].body).owner = maker[s] /\ NewRow(u, req[r].body).state \notin FinalStates
    BY <2>2 DEF NewRow, NormalizeState, RowStates, LiveStates, FinalStates
  <2> QED BY <1>1, <1>3, <2>1, <2>2, <2>3, OneRow
<1> QED BY <1>2, <1>3 DEF RecordCreated

LEMMA RecordUpdateHolds ==
  ASSUME IndexInv, IndexInv', BackendInv, NEW r \in Requests,
         RecordDeleted(r) \/ RecordState(r) \/ RecordPayload(r)
  PROVE  BackendInv'
<1> DEFINE s == req[r].sb
<1>1. /\ UNCHANGED <<backend, maker>> /\ TypeOK /\ Conclude(r, "allow")
      /\ Successful(req[r]) /\ req[r].op \in {"delete", "pause", "resume", "patch", "renew"}
  BY DEF RecordDeleted, RecordState, RecordPayload, UpdateIndex, Replied, Successful, IndexInv
<1>2. req[r].who \in Subjects /\ s \in SandboxIds /\ row[s].owner = req[r].who
  BY <1>1 DEF IndexInv, CallersHoldTheirRows, Call, ByOwner, Named, Successful
<1>3. row[s] # NoRow /\ row[s] \in Rows
  BY <1>1, <1>2, OwnedRowExists
<1>4. backend[s] # "unborn" /\ row[s].owner = maker[s]
  BY <1>2, <1>3 DEF BackendInv, UnbornHaveNoRow, RowsNameTheMaker
<1>5. req[r].op = "delete" \/ req[r].body \in RawStates \ LiveStates => Over(s)
  BY <1>1 DEF BackendInv, AnswersHold, AnswerHolds
<1>6. Others(r) /\ req'[r].pc = "audit"
  BY <1>1, ConcludeReq DEF Decisions
<1>7. CASE RecordDeleted(r)
  <2>1. row' = [row EXCEPT ![s] = [row[s] EXCEPT !.state = "deleted", !.terminated = TRUE]]
    BY <1>1, <1>2, <1>7 DEF RecordDeleted, TypeOK
  <2>2. [row[s] EXCEPT !.state = "deleted", !.terminated = TRUE].owner = maker[s]
    BY <1>3, <1>4 DEF Rows
  <2>3. Over(s)
    BY <1>5, <1>7 DEF RecordDeleted, Replied
  <2> QED BY <1>1, <1>2, <1>4, <1>6, <2>1, <2>2, <2>3, OneRow
<1>8. ASSUME NEW v, UpdateIndex(r, v), v \in FinalStates => Over(s)
      PROVE  BackendInv'
  <2>1. row' = [row EXCEPT ![s] = [row[s] EXCEPT !.state = v]]
    BY <1>1, <1>2, <1>8 DEF UpdateIndex, TypeOK
  <2>2. /\ [row[s] EXCEPT !.state = v].owner = maker[s]
        /\ [row[s] EXCEPT !.state = v].state = v
    BY <1>3, <1>4 DEF Rows
  <2> QED BY <1>1, <1>2, <1>4, <1>6, <1>8, <2>1, <2>2, OneRow
<1>9. CASE RecordState(r)
  BY <1>8, <1>9 DEF RecordState, FinalStates
<1>10. CASE RecordPayload(r) /\ UNCHANGED row
  BY <1>1, <1>6, <1>10, QuietHolds DEF Successful
<1>11. CASE RecordPayload(r) /\ UpdateIndex(r, NormalizeState(req[r].body))
  <2>1. NormalizeState(req[r].body) \in FinalStates => req[r].body \in RawStates \ LiveStates
    BY DEF NormalizeState, RowStates, RawStates, LiveStates, FinalStates
  <2> QED BY <1>5, <1>8, <1>11, <2>1
<1> QED BY <1>7, <1>9, <1>10, <1>11 DEF RecordPayload

-----------------------------------------------------------------------------
(* The invariant, and what follows from it.                                *)

LEMMA InitBackendInv == Init => BackendInv
BY DEF Init, BackendInv, UnbornHaveNoRow, RowsNameTheMaker, EndedRowsNeverRun, AnswersHold,
       FinalStates, Successful, Idle, NoRow

LEMMA NextHolds ==
  ASSUME ~ReuseIds, IndexInv, IndexInv', BackendInv, [Next]_vars
  PROVE  BackendInv'
<1>1. CASE UNCHANGED vars
  BY <1>1 DEF vars, BackendInv, UnbornHaveNoRow, RowsNameTheMaker, EndedRowsNeverRun, AnswersHold,
              Successful, AnswerHolds, Over
<1>2. ASSUME NEW s \in SandboxIds, BackendMove(s) PROVE BackendInv'
  BY <1>2, BackendMoveHolds
<1>3. ASSUME NEW r \in Requests, NEW u \in Subjects, EnforceQuota(r, u) PROVE BackendInv'
  BY <1>3, AdmissionHolds
<1>4. ASSUME NEW r \in Requests, NEW u \in Subjects, NEW op \in Ops, NEW s \in SandboxIds,
             EnsureOwned(r, u, op, s)
      PROVE  BackendInv'
  BY <1>4, AdmissionHolds
<1>5. ASSUME NEW r \in Requests,
             BackendCreates(r) \/ BackendServes(r) \/ LateCallLands(r) \/ LateCallDropped(r)
      PROVE  BackendInv'
  BY <1>5, BackendCreatesHolds, BackendServesHolds, LateCallHolds, LateCallDroppedHolds
<1>6. ASSUME NEW r \in Requests,
             \/ BackendRefuses(r) \/ CallFails(r) \/ PassOn(r) \/ RecordAudit(r) \/ Abort(r)
             \/ RecordCreated(r) \/ RecordDeleted(r) \/ RecordState(r) \/ RecordPayload(r)
      PROVE  BackendInv'
  BY <1>6, QuietStepsHold, RecordCreatedHolds, RecordUpdateHolds
<1> QED BY <1>1, <1>2, <1>3, <1>4, <1>5, <1>6 DEF Next

LEMMA BackendCorrect ==
  ASSUME ~ReuseIds
  PROVE  Spec => []BackendInv
<1>1. IndexInv /\ IndexInv' /\ BackendInv /\ [Next]_vars => BackendInv'
  BY NextHolds
<1> QED BY InitBackendInv, IndexCorrect, <1>1, PTL DEF Spec

(* Whatever the interleaving, timeouts, late calls and crashes, and        *)
(* whatever stray calls do at the backend, a row belongs to the subject    *)
(* whose create made the sandbox, and no call that stays on the sandbox    *)
(* whose row was checked is on one another subject made.  Of stray calls   *)
(* it says only that the index is safe from them.                          *)
THEOREM IsolationCorrect ==
  ASSUME ~ReuseIds
  PROVE  Spec => []Isolation
<1>1. IndexInv /\ BackendInv => Isolation
  <2> SUFFICES ASSUME IndexInv, BackendInv PROVE Isolation
    OBVIOUS
  <2>1. ASSUME NEW c, c.who \in Subjects, ByOwner(c), Named(c) PROVE OnOwnSandbox(c)
    BY <2>1, OwnedRowExists DEF ByOwner, OnOwnSandbox, IndexInv, BackendInv, RowsNameTheMaker
  <2>2. CheckedCallsReachOwnSandboxes
    BY <2>1 DEF CheckedCallsReachOwnSandboxes, IndexInv, CallersHoldTheirRows
  <2> QED BY <2>2 DEF Isolation, BackendInv
<1> QED BY BackendCorrect, IndexCorrect, <1>1, PTL

(* A row in a final state stands for a sandbox that is over: one that is   *)
(* stopping at most (the backend may answer a delete before it is done),   *)
(* and that no later step makes run again.                                 *)
THEOREM EndedRowsCorrect ==
  ASSUME ~ReuseIds
  PROVE  Spec => []EndedRowsNeverRun
<1>1. BackendInv => EndedRowsNeverRun
  BY DEF BackendInv
<1> QED BY BackendCorrect, <1>1, PTL

-----------------------------------------------------------------------------
(* The limit on running sandboxes.  Charged(u) are the rows that count     *)
(* against u and never came back from an end; Creating(u) the creates that *)
(* were admitted and have no row yet.  Together they stay below the limit  *)
(* and one for each request: a create is admitted when fewer rows than the *)
(* limit are active, a create that gets its row is no longer in progress,  *)
(* and no update of a row charges one that was not.                        *)

Charged(u) == ActiveRows(u) \ revived
Creating(u) == {r \in Requests : /\ req[r].pc \in {"call", "reply"}
                                 /\ req[r].op = "create" /\ req[r].who = u}

QuotaFor(u) ==
  /\ IsFiniteSet(ActiveRows(u))
  /\ Cardinality(Charged(u)) + Cardinality(Creating(u)) < MaxRunning + Cardinality(Requests)

QuotaInv == \A u \in Subjects : QuotaFor(u)

LEMMA RequestCount ==
  ASSUME IsFiniteSet(Requests), NEW S, S \subseteq Requests
  PROVE  /\ IsFiniteSet(S) /\ Cardinality(S) \in Nat
         /\ Cardinality(Requests) \in Nat /\ Cardinality(S) <= Cardinality(Requests)
BY FS_Subset, FS_CardinalityType

LEMMA ChargedFinite ==
  ASSUME NEW u, IsFiniteSet(ActiveRows(u))
  PROVE  IsFiniteSet(Charged(u)) /\ Cardinality(Charged(u)) \in Nat
<1>1. PICK A, C : A = ActiveRows(u) /\ C = Charged(u)
  OBVIOUS
<1>2. C \subseteq A
  BY <1>1 DEF Charged
<1> QED BY <1>1, <1>2, FS_Subset, FS_CardinalityType

LEMMA ActiveGrows ==
  ASSUME NEW u, NEW s, IsFiniteSet(ActiveRows(u)), ActiveRows(u)' \subseteq ActiveRows(u) \cup {s}
  PROVE  IsFiniteSet(ActiveRows(u))'
<1>1. PICK A, B : A = ActiveRows(u) /\ B = ActiveRows(u)'
  OBVIOUS
<1> QED BY <1>1, FS_AddElement, FS_Subset

(* A step that charges no further row and admits nobody.                   *)
LEMMA ChargesShrink ==
  ASSUME IsFiniteSet(Requests), NEW u, NEW s, QuotaFor(u),
         ActiveRows(u)' \subseteq ActiveRows(u) \cup {s},
         Charged(u)' \subseteq Charged(u), Creating(u)' \subseteq Creating(u)
  PROVE  QuotaFor(u)'
<1>0. IsFiniteSet(ActiveRows(u))'
  BY ActiveGrows DEF QuotaFor
<1>1. PICK C, D, A, B : C = Charged(u) /\ D = Charged(u)' /\ A = Creating(u) /\ B = Creating(u)'
  OBVIOUS
<1>2. IsFiniteSet(C) /\ Cardinality(C) + Cardinality(A) < MaxRunning + Cardinality(Requests)
  BY <1>1, ChargedFinite DEF QuotaFor
<1>3. /\ Cardinality(D) \in Nat /\ Cardinality(C) \in Nat
      /\ Cardinality(D) <= Cardinality(C)
  BY <1>1, <1>2, FS_Subset, FS_CardinalityType
<1>4. A \subseteq Requests /\ B \subseteq A
  BY <1>1 DEF Creating
<1>5. /\ Cardinality(A) \in Nat /\ Cardinality(B) \in Nat /\ Cardinality(Requests) \in Nat
      /\ Cardinality(B) <= Cardinality(A)
  BY <1>4, RequestCount, FS_Subset
<1>6. Cardinality(D) + Cardinality(B) < MaxRunning + Cardinality(Requests)
  BY <1>2, <1>3, <1>5, ConstantsAssumption
<1> QED BY <1>0, <1>1, <1>6 DEF QuotaFor

(* The step of one handler that leaves the index alone.                    *)
LEMMA HandlerKeepsQuota ==
  ASSUME IsFiniteSet(Requests), UNCHANGED <<row, revived>>, NEW r \in Requests, Others(r),
         NEW u \in Subjects, QuotaFor(u), r \in Creating(u)' => r \in Creating(u)
  PROVE  QuotaFor(u)'
<1>1. ActiveRows(u)' = ActiveRows(u) /\ Charged(u)' = Charged(u)
  BY DEF Charged, ActiveRows
<1>2. Creating(u)' \subseteq Creating(u)
  BY DEF Creating, Others
<1> QED BY <1>1, <1>2, ChargesShrink

(* A create is admitted: what is charged is among the rows it counted.     *)
LEMMA AdmissionKeepsQuota ==
  ASSUME IsFiniteSet(Requests), UNCHANGED <<row, revived>>,
         NEW u \in Subjects, QuotaFor(u), BelowLimit(u)
  PROVE  QuotaFor(u)'
<1>1. PICK A, D, B : A = ActiveRows(u) /\ D = Charged(u)' /\ B = Creating(u)'
  OBVIOUS
<1>2. /\ ActiveRows(u)' = A /\ D \subseteq A /\ B \subseteq Requests
  BY <1>1 DEF ActiveRows, Charged, Creating
<1>3. IsFiniteSet(A) /\ Cardinality(A) \in Nat /\ Cardinality(A) < MaxRunning
  BY <1>1, FS_CardinalityType DEF QuotaFor, BelowLimit, CountActive
<1>4. Cardinality(D) \in Nat /\ Cardinality(D) <= Cardinality(A)
  BY <1>2, <1>3, FS_Subset, FS_CardinalityType
<1>5. /\ Cardinality(B) \in Nat /\ Cardinality(Requests) \in Nat
      /\ Cardinality(B) <= Cardinality(Requests)
  BY <1>2, RequestCount
<1>6. Cardinality(D) + Cardinality(B) < MaxRunning + Cardinality(Requests)
  BY <1>3, <1>4, <1>5, ConstantsAssumption
<1> QED BY <1>1, <1>2, <1>3, <1>6 DEF QuotaFor

-----------------------------------------------------------------------------
(* Each action in turn.                                                    *)

(* Admissions, answers, and what ends a handler without recording.         *)
LEMMA QuietKeepsQuota ==
  ASSUME IsFiniteSet(Requests), IndexInv, NEW r \in Requests, NEW u \in Subjects, QuotaFor(u),
         \/ \E v \in Subjects : EnforceQuota(r, v)
         \/ \E v \in Subjects, op \in Ops, s \in SandboxIds : EnsureOwned(r, v, op, s)
         \/ BackendCreates(r) \/ BackendServes(r) \/ BackendRefuses(r) \/ CallFails(r)
         \/ PassOn(r) \/ RecordAudit(r) \/ Abort(r)
  PROVE  QuotaFor(u)'
<1>1. UNCHANGED <<row, revived>> /\ TypeOK /\ req[r] \in ReqType
  BY DEF EnforceQuota, EnsureOwned, BackendCreates, BackendServes, BackendRefuses, CallFails,
         PassOn, RecordAudit, Abort, IndexInv, TypeOK
<1>2. ASSUME Deny(r) \/ Finish(r) \/ \E d \in Decisions : Conclude(r, d)
      PROVE  QuotaFor(u)'
  <2>1. Others(r) /\ req'[r].pc \notin {"call", "reply"}
    BY <1>1, <1>2, DenyReq, FinishReq, ConcludeReq
  <2> QED BY <1>1, <2>1, HandlerKeepsQuota DEF Creating
<1>3. CASE CallFails(r) \/ PassOn(r) \/ RecordAudit(r) \/ Abort(r)
  <2>1. Finish(r) \/ \E d \in Decisions : Conclude(r, d)
    BY <1>3 DEF CallFails, PassOn, RecordAudit, Abort, DecisionFromStatus, Decisions
  <2> QED BY <1>2, <2>1
<1>4. ASSUME NEW v \in Subjects, NEW op \in Ops, NEW s \in SandboxIds, EnsureOwned(r, v, op, s)
      PROVE  QuotaFor(u)'
  <2>1. ASSUME NEW t \in BackendPath(op, s), Forward(r, v, op, t)
        PROVE  QuotaFor(u)'
    <3>1. t \in SandboxIds \cup {NoId}
      BY <2>1 DEF BackendPath
    <3>2. /\ Others(r) /\ req'[r].pc = "call"
          /\ Call(r)' = [op |-> op, who |-> v, sb |-> t]
      BY <1>1, <2>1, <3>1, ForwardReq, ConstantsAssumption
    <3>3. req'[r].op # "create"
      BY <1>4, <3>2 DEF Call, EnsureOwned
    <3> QED BY <1>1, <3>2, <3>3, HandlerKeepsQuota DEF Creating
  <2> QED BY <1>2, <1>4, <2>1 DEF EnsureOwned
<1>5. ASSUME NEW v \in Subjects, EnforceQuota(r, v)
      PROVE  QuotaFor(u)'
  <2>1. CASE BelowLimit(v) /\ Forward(r, v, "create", NoId)
    <3>1. /\ Others(r) /\ req'[r].pc = "call"
          /\ Call(r)' = [op |-> "create", who |-> v, sb |-> NoId]
      BY <1>1, <2>1, ForwardReq DEF AllOps
    <3>2. req'[r].who = v
      BY <3>1 DEF Call
    <3>3. CASE u = v
      BY <1>1, <2>1, <3>3, AdmissionKeepsQuota
    <3>4. CASE u # v
      BY <1>1, <3>1, <3>2, <3>4, HandlerKeepsQuota DEF Creating
    <3> QED BY <3>3, <3>4
  <2> QED BY <1>2, <1>5, <2>1 DEF EnforceQuota
<1>6. ASSUME NEW status \in Statuses, NEW body \in Bodies, NEW s \in SandboxIds \cup {NoId},
             Answered(r, status, body, s), req[r].pc = "call"
      PROVE  QuotaFor(u)'
  <2>1. /\ Others(r) /\ Call(r)' = [op |-> req[r].op, who |-> req[r].who, sb |-> s]
    BY <1>1, <1>6, AnsweredReq
  <2>2. r \in Creating(u)' => r \in Creating(u)
    BY <1>6, <2>1 DEF Creating, Call
  <2> QED BY <1>1, <2>1, <2>2, HandlerKeepsQuota
<1>7. CASE BackendRefuses(r)
  <2>1. PICK status \in {"3xx", "4xx", "5xx"} : Answered(r, status, "empty", req[r].sb)
    BY <1>7 DEF BackendRefuses
  <2>2. req[r].pc = "call" /\ req[r].sb \in SandboxIds \cup {NoId}
    BY <1>1, <1>7 DEF BackendRefuses, ReqType
  <2> QED BY <1>6, <2>1, <2>2 DEF Statuses, Bodies
<1>8. CASE BackendCreates(r)
  <2>1. PICK s \in SandboxIds, b \in BirthStates :
          \/ \E body \in {b, "stateless"} : Answered(r, "2xx", body, s)
          \/ Answered(r, "2xx", b, NoId)
    BY <1>8 DEF BackendCreates
  <2>2. b \in Bodies /\ "stateless" \in Bodies /\ "2xx" \in Statuses
    BY BackendAssumption DEF Bodies, LiveStates, RawStates, Statuses
  <2>3. req[r].pc = "call"
    BY <1>8 DEF BackendCreates
  <2> QED BY <1>6, <2>1, <2>2, <2>3
<1>9. CASE BackendServes(r)
  <2>1. PICK s : s = req[r].sb
    OBVIOUS
  <2>2. PICK b \in Effects(req[r].op, backend[s]) :
          \E body \in AnswerBodies(req[r].op, b) : Answered(r, "2xx", body, s)
    BY <1>9, <2>1 DEF BackendServes
  <2>3. PICK body \in Bodies : Answered(r, "2xx", body, s)
    BY <2>2, CallEffects
  <2>4. req[r].pc = "call" /\ s \in SandboxIds \cup {NoId} /\ "2xx" \in Statuses
    BY <1>1, <1>9, <2>1 DEF BackendServes, ReqType, Statuses
  <2> QED BY <1>6, <2>3, <2>4
<1> QED BY <1>3, <1>4, <1>5, <1>7, <1>8, <1>9

(* A create gets its row: it was counted as a create.                      *)
LEMMA RecordCreatedKeepsQuota ==
  ASSUME IsFiniteSet(Requests), IndexInv, NEW r \in Requests, RecordCreated(r),
         NEW u \in Subjects, QuotaFor(u)
  PROVE  QuotaFor(u)'
<1>1. /\ TypeOK /\ revived' = revived /\ req[r].pc = "reply" /\ req[r].op = "create" /\ req[r] \in ReqType
  BY DEF RecordCreated, Replied, IndexInv, TypeOK
<1>2. PICK s, w : s = req[r].sb /\ w = NewRow(req[r].who, req[r].body)
  OBVIOUS
<1>3. Others(r) /\ req'[r].pc = "audit"
  <2>1. \E d \in Decisions : Conclude(r, d)
    BY DEF RecordCreated, Decisions
  <2> QED BY <1>1, <2>1, ConcludeReq
<1>4. Creating(u)' = Creating(u) \ {r}
  BY <1>3 DEF Creating, Others
<1>5. CASE UNCHANGED row
  BY <1>1, <1>3, <1>4, <1>5, HandlerKeepsQuota
<1>6. CASE s # NoId /\ row' = [row EXCEPT ![s] = w]
  <2>1. s \in SandboxIds
    BY <1>1, <1>2, <1>6 DEF ReqType
  <2>2. row'[s] = w /\ w.owner = req[r].who /\ \A t \in SandboxIds : t # s => row'[t] = row[t]
    BY <1>1, <1>2, <1>6, <2>1 DEF TypeOK, NewRow
  <2>3. /\ ActiveRows(u)' \subseteq ActiveRows(u) \cup {s}
        /\ Charged(u)' \subseteq Charged(u) \cup {s}
    BY <1>1, <2>2 DEF Charged, ActiveRows
  <2>4. CASE req[r].who # u
    <3>1. s \notin Charged(u)'
      BY <2>1, <2>2, <2>4 DEF Charged, ActiveRows
    <3>2. Charged(u)' \subseteq Charged(u)
      BY <2>3, <3>1
    <3> QED BY <1>4, <2>3, <3>2, ChargesShrink
  <2>5. CASE req[r].who = u
    <3>1. PICK C, D, A, B : C = Charged(u) /\ D = Charged(u)' /\ A = Creating(u) /\ B = Creating(u)'
      OBVIOUS
    <3>2. IsFiniteSet(C) /\ Cardinality(C) + Cardinality(A) < MaxRunning + Cardinality(Requests)
      BY <3>1, ChargedFinite DEF QuotaFor
    <3>3. /\ Cardinality(D) \in Nat /\ Cardinality(C) \in Nat
          /\ Cardinality(D) <= Cardinality(C) + 1
      <4>1. Cardinality(C) \in Nat
        BY <3>2, FS_CardinalityType
      <4>2. /\ IsFiniteSet(C \cup {s})
            /\ Cardinality(C \cup {s}) = IF s \in C THEN Cardinality(C) ELSE Cardinality(C) + 1
        BY <3>2, FS_AddElement
      <4>3. D \subseteq C \cup {s}
        BY <2>3, <3>1
      <4>4. IsFiniteSet(D) /\ Cardinality(D) <= Cardinality(C \cup {s})
        BY <4>2, <4>3, FS_Subset
      <4>5. Cardinality(D) \in Nat
        BY <4>4, FS_CardinalityType
      <4> QED BY <4>1, <4>2, <4>4, <4>5
    <3>4. /\ Cardinality(A) \in Nat /\ Cardinality(B) = Cardinality(A) - 1
          /\ Cardinality(Requests) \in Nat
      <4>1. r \in A /\ A \subseteq Requests /\ B = A \ {r}
        BY <1>1, <1>4, <2>5, <3>1 DEF Creating
      <4> QED BY <4>1, RequestCount, FS_RemoveElement
    <3>5. Cardinality(D) + Cardinality(B) < MaxRunning + Cardinality(Requests)
      BY <3>2, <3>3, <3>4, ConstantsAssumption
    <3>6. IsFiniteSet(ActiveRows(u))'
      BY <2>3, ActiveGrows DEF QuotaFor
    <3> QED BY <3>1, <3>5, <3>6 DEF QuotaFor
  <2> QED BY <2>4, <2>5
<1> QED BY <1>2, <1>5, <1>6 DEF RecordCreated

(* An update of a row: one it makes active again is revived, not charged.  *)
LEMMA RecordUpdateKeepsQuota ==
  ASSUME IsFiniteSet(Requests), IndexInv, NEW r \in Requests,
         RecordDeleted(r) \/ RecordState(r) \/ RecordPayload(r),
         NEW u \in Subjects, QuotaFor(u)
  PROVE  QuotaFor(u)'
<1>1. /\ TypeOK /\ Conclude(r, "allow") /\ req[r].pc = "reply"
      /\ req[r].op \in {"delete", "pause", "resume", "patch", "renew"}
  BY DEF RecordDeleted, RecordState, RecordPayload, UpdateIndex, Replied, IndexInv
<1>2. PICK s : s = req[r].sb
  OBVIOUS
<1>3. s \in SandboxIds /\ row[s].owner \in Subjects
  BY <1>1, <1>2 DEF IndexInv, CallersHoldTheirRows, Call, ByOwner, Named
<1>4. row[s] \in Rows
  BY <1>1, <1>3, OwnedRowExists
<1>5. Others(r) /\ req'[r].pc = "audit"
  BY <1>1, ConcludeReq DEF Decisions
<1>6. Creating(u)' \subseteq Creating(u)
  BY <1>5 DEF Creating, Others
<1>7. CASE UNCHANGED <<row, revived>>
  BY <1>5, <1>6, <1>7, HandlerKeepsQuota
<1>8. ASSUME NEW w, row' = [row EXCEPT ![s] = w], w.owner = row[s].owner,
             revived \subseteq revived',
             w.state \in ActiveStates => row[s].state \in ActiveStates \/ s \in revived'
      PROVE  QuotaFor(u)'
  <2>1. row'[s] = w /\ \A t \in SandboxIds : t # s => row'[t] = row[t]
    BY <1>1, <1>3, <1>8 DEF TypeOK
  <2>2. ActiveRows(u)' \subseteq ActiveRows(u) \cup {s}
    BY <2>1 DEF ActiveRows
  <2>3. Charged(u)' \subseteq Charged(u)
    BY <1>8, <2>1 DEF Charged, ActiveRows
  <2> QED BY <1>6, <2>2, <2>3, ChargesShrink
<1>9. CASE RecordDeleted(r)
  <2>1. PICK w : w = [row[s] EXCEPT !.state = "deleted", !.terminated = TRUE]
    OBVIOUS
  <2>2. row' = [row EXCEPT ![s] = w] /\ revived' = revived
    BY <1>1, <1>2, <1>3, <1>9, <2>1 DEF RecordDeleted, TypeOK
  <2>3. w.owner = row[s].owner /\ w.state \notin ActiveStates
    BY <1>4, <2>1 DEF Rows, ActiveStates
  <2> QED BY <1>8, <2>2, <2>3
<1>10. ASSUME NEW v, UpdateIndex(r, v)
       PROVE  QuotaFor(u)'
  <2>1. PICK w : w = [row[s] EXCEPT !.state = v]
    OBVIOUS
  <2>2. row' = [row EXCEPT ![s] = w]
    BY <1>1, <1>2, <1>3, <1>10, <2>1 DEF UpdateIndex, TypeOK
  <2>3. w.owner = row[s].owner /\ w.state = v
    BY <1>4, <2>1 DEF Rows
  <2>4. /\ revived \subseteq revived'
        /\ v \in ActiveStates => row[s].state \in ActiveStates \/ s \in revived'
    BY <1>2, <1>10 DEF UpdateIndex
  <2> QED BY <1>8, <2>2, <2>3, <2>4
<1> QED BY <1>7, <1>9, <1>10 DEF RecordState, RecordPayload

LEMMA QuotaNext ==
  ASSUME IsFiniteSet(Requests), IndexInv, QuotaInv, [Next]_vars
  PROVE  QuotaInv'
<1> SUFFICES ASSUME NEW u \in Subjects PROVE QuotaFor(u)'
  BY DEF QuotaInv
<1>1. QuotaFor(u)
  BY DEF QuotaInv
<1>2. CASE UNCHANGED <<row, req, revived>>
  <2>1. /\ ActiveRows(u)' = ActiveRows(u) /\ Charged(u)' = Charged(u)
        /\ Creating(u)' = Creating(u)
    BY <1>2 DEF Charged, ActiveRows, Creating
  <2> QED BY <1>1, <2>1, ChargesShrink
<1>3. ASSUME NEW r \in Requests,
             \/ \E v \in Subjects : EnforceQuota(r, v)
             \/ \E v \in Subjects, op \in Ops, s \in SandboxIds : EnsureOwned(r, v, op, s)
             \/ BackendCreates(r) \/ BackendServes(r) \/ BackendRefuses(r) \/ CallFails(r)
             \/ PassOn(r) \/ RecordAudit(r) \/ Abort(r)
      PROVE  QuotaFor(u)'
  BY <1>1, <1>3, QuietKeepsQuota
<1>4. ASSUME NEW r \in Requests,
             RecordCreated(r) \/ RecordDeleted(r) \/ RecordState(r) \/ RecordPayload(r)
      PROVE  QuotaFor(u)'
  BY <1>1, <1>4, RecordCreatedKeepsQuota, RecordUpdateKeepsQuota
<1>5. ASSUME NEW r \in Requests, LateCallLands(r) \/ LateCallDropped(r)
      PROVE  QuotaFor(u)'
  BY <1>2, <1>5 DEF LateCallLands, LateCallDropped
<1>6. ASSUME NEW s \in SandboxIds, BackendMove(s) PROVE QuotaFor(u)'
  BY <1>2, <1>6 DEF BackendMove
<1> QED BY <1>2, <1>3, <1>4, <1>5, <1>6 DEF Next, vars

LEMMA QuotaInit ==
  ASSUME IsFiniteSet(Requests), Requests # {}, Init
  PROVE  QuotaInv
<1>1. \A u \in Subjects : ActiveRows(u) = {} /\ Charged(u) = {} /\ Creating(u) = {}
  BY ConstantsAssumption DEF Init, ActiveRows, Charged, Creating, Idle, NoRow
<1>2. /\ IsFiniteSet({}) /\ Cardinality({}) = 0
      /\ Cardinality(Requests) \in Nat /\ Cardinality(Requests) # 0
  BY FS_EmptySet, FS_CardinalityType
<1>3. 0 + 0 < MaxRunning + Cardinality(Requests)
  BY <1>2, ConstantsAssumption
<1> QED BY <1>1, <1>2, <1>3 DEF QuotaInv, QuotaFor

LEMMA QuotaCorrect ==
  ASSUME IsFiniteSet(Requests), Requests # {}
  PROVE  Spec => []QuotaInv
<1>1. Init => QuotaInv
  BY QuotaInit
<1>2. IndexInv /\ QuotaInv /\ [Next]_vars => QuotaInv'
  BY QuotaNext
<1> QED BY <1>1, <1>2, IndexCorrect, PTL DEF Spec

(* Concurrent creates push a user past the limit by less than the number   *)
(* of requests in progress (enforce_sandbox_create_quota counts before the *)
(* backend call, and the row is written after it), the rows aside that an  *)
(* update recorded after their end made active again; also when the        *)
(* backend gives an id twice.                                              *)
THEOREM OvershootCorrect ==
  ASSUME IsFiniteSet(Requests), Requests # {}
  PROVE  Spec => []QuotaOvershootBounded
<1>1. QuotaInv => QuotaOvershootBounded
  <2> SUFFICES ASSUME QuotaInv, NEW u \in Subjects
               PROVE  Cardinality(Charged(u)) < MaxRunning + Cardinality(Requests)
    BY DEF QuotaOvershootBounded, Charged
  <2>1. PICK A, C : A = Creating(u) /\ C = Charged(u)
    OBVIOUS
  <2>2. /\ Cardinality(C) \in Nat
        /\ Cardinality(C) + Cardinality(A) < MaxRunning + Cardinality(Requests)
    BY <2>1, ChargedFinite DEF QuotaInv, QuotaFor
  <2>3. Cardinality(A) \in Nat /\ Cardinality(Requests) \in Nat
    BY <2>1, RequestCount DEF Creating
  <2> QED BY <2>1, <2>2, <2>3, ConstantsAssumption
<1> QED BY <1>1, QuotaCorrect, PTL
=============================================================================
