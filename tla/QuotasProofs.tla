----------------------------- MODULE QuotasProofs -----------------------------
(***************************************************************************)
(* What module Quotas guarantees for any users, rules, limits, window and  *)
(* number of creates in progress.  That the highest limit exists takes     *)
(* finitely many rule values; that a bound on counts says something,       *)
(* finitely many creates in progress.  The theorems that need one of these *)
(* assume it.                                                              *)
(***************************************************************************)
EXTENDS Quotas, FiniteSetTheorems, TLAPS

-----------------------------------------------------------------------------
(* Finite sets of numbers have a greatest element.  (In a set without one, *)
(* the map to the next greater element is an injection, hence onto; but    *)
(* nothing maps to the least element.)                                     *)

LEMMA LeastNatural ==
  ASSUME NEW S \in SUBSET Nat, S # {}
  PROVE  \E x \in S : \A y \in S : x <= y
<1>1. PICK x \in S : \A y \in S : ~(<<y, x>> \in OpToRel(<, Nat))
  BY NatLessThanWellFounded, WFMin, Zenon
<1>2. ASSUME NEW y \in S PROVE x <= y
  <2>1. <<y, x>> \in Nat \X Nat /\ ~(y < x)
    BY <1>1 DEF OpToRel
  <2> QED BY <2>1
<1> QED BY <1>2

LEMMA GreatestOfFinite ==
  ASSUME NEW S \in SUBSET Nat, IsFiniteSet(S), S # {}
  PROVE  \E x \in S : \A y \in S : y <= x
<1> SUFFICES ASSUME \A x \in S : \E y \in S : x < y PROVE FALSE
  OBVIOUS
<1>1. ASSUME NEW x \in S
      PROVE  \E y \in S : x < y /\ \A z \in S : x < z => y <= z
  <2>1. PICK above : above = {y \in S : x < y}
    OBVIOUS
  <2>2. above \in SUBSET Nat /\ above # {}
    BY <2>1
  <2>3. PICK y \in above : \A z \in above : y <= z
    BY <2>2, LeastNatural
  <2> QED BY <2>1, <2>3
<1>2. PICK next : next = [x \in S |-> CHOOSE y \in S : x < y /\ \A z \in S : x < z => y <= z]
  OBVIOUS
<1>3. \A x \in S : next[x] \in S /\ x < next[x] /\ \A z \in S : x < z => next[x] <= z
  BY <1>1, <1>2
<1>4. next \in [S -> S] /\ IsInjective(next)
  <2>1. next \in [S -> S]
    BY <1>2, <1>3
  <2>2. ASSUME NEW x \in S, NEW y \in S, next[x] = next[y] PROVE x = y
    <3>1. /\ x \in Nat /\ y \in Nat /\ next[x] \in Nat
          /\ y < next[x] /\ x < next[y]
          /\ x < y => next[x] <= y
          /\ y < x => next[y] <= x
      BY <1>3, <2>2
    <3> QED BY <2>2, <3>1
  <2> QED BY <2>1, <2>2 DEF IsInjective
<1>5. next \in Surjection(S, S)
  BY <1>4, FS_Injection DEF Injection
<1>6. PICK least \in S : \A y \in S : least <= y
  BY LeastNatural
<1>7. PICK x \in S : next[x] = least
  BY <1>5 DEF Surjection
<1>8. x \in Nat /\ least \in Nat /\ x < least /\ least <= x
  BY <1>3, <1>6, <1>7
<1> QED BY <1>8

-----------------------------------------------------------------------------
(* Rules and limits.                                                       *)

MaybeRules == RuleValues \cup {SeedRule, NoRule}
Fields == {"running", "timeout", "rate"}

LEMMA RuleTypes ==
  ASSUME NEW v \in MaybeRules
  PROVE  /\ v.running \in Limits /\ v.timeout \in Limits \ {0} /\ v.rate \in Limits
         /\ v = NoRule <=> v.scope = "none"
         /\ v \in RuleValues \/ v = SeedRule \/ v = NoRule
BY QuotaAssumption DEF MaybeRules, Rules, SeedRule, NoRule, Limits, Scopes, Global

LEMMA RuleInIs ==
  ASSUME NEW table \in [RuleIds -> MaybeRules], NEW scope
  PROVE  /\ RuleIn(table, scope) \in MaybeRules
         /\ RuleIn(table, scope) = NoRule \/ RuleIn(table, scope).scope = scope
<1> DEFINE found == {i \in RuleIds : table[i].scope = scope}
<1>1. CASE found = {}
  <2>1. RuleIn(table, scope) = NoRule
    BY <1>1 DEF RuleIn
  <2> QED BY <2>1 DEF MaybeRules
<1>2. CASE found # {}
  <2>1. PICK i : i = CHOOSE j \in found : TRUE
    OBVIOUS
  <2>2. i \in found /\ RuleIn(table, scope) = table[i]
    BY <1>2, <2>1 DEF RuleIn
  <2> QED BY <2>2
<1> QED BY <1>1, <1>2

LEMMA RuleOfIs ==
  ASSUME rules \in [RuleIds -> MaybeRules], NEW scope
  PROVE  /\ RuleOf(scope) \in MaybeRules
         /\ RuleOf(scope) = NoRule \/ RuleOf(scope).scope = scope
BY RuleInIs DEF RuleOf

(* The highest limit bounds the default and every rule's.                  *)
LEMMA HighestIs ==
  ASSUME IsFiniteSet(RuleValues), NEW field \in Fields, NEW default \in Nat
  PROVE  /\ Highest(field, default) \in Nat
         /\ default <= Highest(field, default)
         /\ \A v \in RuleValues :
              v[field] # NoLimit => v[field] \in Nat /\ v[field] <= Highest(field, default)
<1>1. PICK said : said = {v[field] : v \in RuleValues}
  OBVIOUS
<1>2. PICK values : values = {default} \cup (said \ {NoLimit})
  OBVIOUS
<1>3. \A v \in RuleValues : v[field] \in Limits
  BY QuotaAssumption DEF Rules, Fields
<1>4. values \in SUBSET Nat /\ values # {}
  BY <1>1, <1>2, <1>3 DEF Limits
<1>5. IsFiniteSet(values)
  <2>1. PICK f : f = [v \in RuleValues |-> v[field]]
    OBVIOUS
  <2>2. f \in Surjection(RuleValues, said)
    BY <1>1, <2>1 DEF Surjection
  <2>3. IsFiniteSet(said)
    BY <2>2, FS_Surjection
  <2>4. IsFiniteSet(said \ {NoLimit})
    BY <2>3, FS_Difference
  <2>5. values = (said \ {NoLimit}) \cup {default}
    BY <1>2
  <2> QED BY <2>4, <2>5, FS_AddElement
<1>6. Highest(field, default) = CHOOSE x \in values : \A y \in values : y <= x
  BY <1>1, <1>2 DEF Highest
<1>7. Highest(field, default) \in values /\ \A y \in values : y <= Highest(field, default)
  <2>1. \E x \in values : \A y \in values : y <= x
    BY <1>4, <1>5, GreatestOfFinite
  <2> QED BY <1>6, <2>1
<1>8. default \in values /\ \A v \in RuleValues : v[field] # NoLimit => v[field] \in values
  BY <1>1, <1>2
<1> QED BY <1>4, <1>7, <1>8

(* A limit that never is lifted is a number, and no higher than the        *)
(* highest.                                                                *)
Bounded(field, default, x) ==
  IsFiniteSet(RuleValues) /\ NeverLifted(field) =>
    x \in Nat /\ x <= Highest(field, default)

(* The merge of two rules read at different times gives a limit that one   *)
(* of them, or the default, had.                                           *)
LEMMA MergedLimitIs ==
  ASSUME NEW user \in MaybeRules, NEW global \in MaybeRules,
         global = NoRule \/ global.scope = Global,
         NEW field \in Fields, NEW default \in Nat, SeedRule[field] = default,
         NEW limit, limit = MergedLimit(user[field], global, global[field], default)
  PROVE  /\ limit \in Limits
         /\ Bounded(field, default, limit)
         /\ default # 0 /\ user[field] # 0 /\ global[field] # 0 => limit # 0
<1>1. user[field] \in Limits /\ global[field] \in Limits
  BY RuleTypes DEF Fields
<1>2. limit \in {user[field], global[field], default}
  BY DEF MergedLimit
<1>3. NoRule[field] = NoLimit /\ NoLimit \notin Nat
  BY QuotaAssumption DEF NoRule, Fields
<1>4. ASSUME NEW v \in MaybeRules, v[field] # NoLimit, IsFiniteSet(RuleValues)
      PROVE  v[field] \in Nat /\ v[field] <= Highest(field, default)
  BY <1>3, <1>4, HighestIs DEF MaybeRules
<1>5. ASSUME IsFiniteSet(RuleValues), NeverLifted(field)
      PROVE  limit \in Nat /\ limit <= Highest(field, default)
  <2>1. CASE user[field] # NoLimit
    <3>1. limit = user[field]
      BY <2>1 DEF MergedLimit
    <3> QED BY <1>4, <1>5, <2>1, <3>1
  <2>2. CASE user[field] = NoLimit /\ global # NoRule
    <3>1. limit = global[field]
      BY <2>2 DEF MergedLimit
    <3>2. global[field] # NoLimit
      BY <1>3, <1>5, <2>2 DEF NeverLifted, MaybeRules
    <3> QED BY <1>4, <1>5, <3>1, <3>2
  <2>3. CASE user[field] = NoLimit /\ global = NoRule
    <3>1. limit = default
      BY <2>3 DEF MergedLimit
    <3> QED BY <1>5, <3>1, HighestIs
  <2> QED BY <2>1, <2>2, <2>3
<1>6. limit \in Limits
  BY <1>1, <1>2 DEF Limits
<1> QED BY <1>2, <1>5, <1>6 DEF Bounded

-----------------------------------------------------------------------------
(* The inductive invariant: what a handler remembers between two statements *)
(* came from rules, whichever there were when it read them.                *)

Pcs == {"idle", "global", "quota", "active", "call"}
RowType == [owner : Subjects, created : Nat, active : BOOLEAN]
ReqType == [pc : Pcs, who : Subjects \cup {"none"}, asked : Nat \cup {NoTimeout},
            global : MaybeRules,
            quota : [running : Limits, timeout : Limits, rate : Limits],
            active : Nat, since : Nat]

SeenType == [global : SUBSET MaybeRules, user : SUBSET MaybeRules]

Types ==
  /\ rules \in [RuleIds -> MaybeRules]
  /\ now \in 0 .. MaxTime
  /\ rows \in [RowIds -> RowType \cup {NoRow}]
  /\ \A i \in RowIds : rows[i].created <= now
  /\ req \in [Requests -> ReqType]
  /\ seen \in [Requests -> SeenType]

(* The limit a create was held to is that of two rules it has seen.        *)
LimitSeen(s, limit) ==
  \E global \in s.global, user \in s.user :
    limit = MergeQuotaRules(global, user).timeout

(* What the handler of q has at hand, by how far it is, when s is what was *)
(* in force meanwhile.                                                     *)
Remembers(q, s) ==
  /\ q.pc # "idle" => q.who \in Subjects
  /\ q.pc = "global" =>
       /\ q.global = NoRule \/ q.global.scope = Global
       /\ q.global \in s.global
  /\ q.pc \in {"quota", "active"} =>
       /\ q.quota.timeout # 0 /\ LimitSeen(s, q.quota.timeout)
       /\ Bounded("rate", DefaultRate, q.quota.rate)
       /\ q.since = 0 \/ q.since + Window <= now
  /\ q.pc = "call" =>
       /\ q.asked \in Lifetimes
       /\ \E limit \in Limits :
            /\ LimitSeen(s, limit)
            /\ limit # NoLimit => q.asked # NoTimeout /\ q.asked <= limit

(* The user's rule now in force is one of those seen.                      *)
SeesUser(q, s) == q.pc = "global" => RuleOf(q.who) \in s.user

QuotaInv == /\ Types
            /\ \A r \in Requests : Remembers(req[r], seen[r]) /\ SeesUser(req[r], seen[r])

LEMMA IdleIs ==
  /\ Idle \in ReqType /\ Idle.pc = "idle" /\ Idle.who = "none"
  /\ Nothing \in SeenType
  /\ \A s : Remembers(Idle, s) /\ SeesUser(Idle, s)
BY QuotaAssumption DEF Idle, ReqType, Pcs, Remembers, MaybeRules, NoQuota, Limits, Nothing,
                       SeenType, SeesUser

LEMMA RowCounts ==
  ASSUME NEW S, S \subseteq RowIds
  PROVE  IsFiniteSet(S) /\ Cardinality(S) \in Nat
<1>1. IsFiniteSet(RowIds)
  BY QuotaAssumption, FS_Interval DEF RowIds
<1> QED BY <1>1, FS_Subset, FS_CardinalityType

(* A statement of a create, reduced to what the handler then remembers and *)
(* has seen.                                                               *)
LEMMA StatementKeeps ==
  ASSUME QuotaInv, NEW r \in Requests, NEW q \in ReqType, NEW s \in SeenType,
         Remembers(q, s), SeesUser(q, s),
         req' = [req EXCEPT ![r] = q], seen' = [seen EXCEPT ![r] = s],
         UNCHANGED <<rules, now, rows>>
  PROVE  QuotaInv'
<1>1. /\ req'[r] = q /\ \A p \in Requests : p # r => req'[p] = req[p]
      /\ seen'[r] = s /\ \A p \in Requests : p # r => seen'[p] = seen[p]
  BY DEF QuotaInv, Types
<1>2. Types'
  BY DEF QuotaInv, Types
<1>3. ASSUME NEW p \in Requests
      PROVE  Remembers(req[p], seen[p])' /\ SeesUser(req[p], seen[p])'
  <2>1. Remembers(req'[p], seen'[p]) /\ SeesUser(req'[p], seen'[p])
    BY <1>1 DEF QuotaInv
  <2> QED BY <2>1 DEF Remembers, Bounded, SeesUser, RuleOf, LimitSeen
<1> QED BY <1>2, <1>3 DEF QuotaInv

(* The handler is done: nothing of the create is left.                     *)
LEMMA EndKeeps ==
  ASSUME QuotaInv, NEW r \in Requests, Ends(r), UNCHANGED <<rules, now, rows>>
  PROVE  QuotaInv'
BY IdleIs, StatementKeeps DEF Ends

(* What a handler has seen stays as it is.                                 *)
LEMMA SeenStays ==
  ASSUME QuotaInv, NEW r \in Requests, UNCHANGED seen
  PROVE  seen[r] \in SeenType /\ seen' = [seen EXCEPT ![r] = seen[r]]
BY DEF QuotaInv, Types

LEMMA ReadGlobalRuleKeeps ==
  ASSUME QuotaInv, NEW r \in Requests, NEW u \in Subjects, NEW t \in Timeouts,
         ReadGlobalRule(r, u, t)
  PROVE  QuotaInv'
<1>1. PICK g, v, q, s : /\ g = RuleOf(Global) /\ v = RuleOf(u)
                  /\ q = [Idle EXCEPT !.pc = "global", !.who = u, !.asked = t, !.global = g]
                  /\ s = [global |-> {g}, user |-> {v}]
  OBVIOUS
<1>2. /\ req' = [req EXCEPT ![r] = q] /\ seen' = [seen EXCEPT ![r] = s]
      /\ UNCHANGED <<rules, now, rows>>
  BY <1>1 DEF ReadGlobalRule
<1>3. g \in MaybeRules /\ (g = NoRule \/ g.scope = Global) /\ v \in MaybeRules
  BY <1>1, RuleOfIs DEF QuotaInv, Types
<1>4. /\ q \in ReqType /\ q.pc = "global" /\ q.who = u /\ q.global = g
      /\ s \in SeenType /\ g \in s.global /\ v \in s.user
  BY <1>1, <1>3, IdleIs, QuotaAssumption DEF ReqType, Pcs, SeenType
<1>5. Remembers(q, s) /\ SeesUser(q, s)
  BY <1>1, <1>3, <1>4 DEF Remembers, SeesUser
<1> QED BY <1>2, <1>4, <1>5, StatementKeeps

LEMMA ReadUserRuleKeeps ==
  ASSUME QuotaInv, NEW r \in Requests, ReadUserRule(r)
  PROVE  QuotaInv'
<1>1. PICK g, v, m, since, q :
        /\ g = req[r].global /\ v = RuleOf(req[r].who)
        /\ m = MergeQuotaRules(g, v) /\ since = Since
        /\ q = [req[r] EXCEPT !.pc = "quota", !.global = NoRule, !.since = since, !.quota = m]
  OBVIOUS
<1>2. /\ req[r] \in ReqType /\ Remembers(req[r], seen[r]) /\ SeesUser(req[r], seen[r])
      /\ req[r].pc = "global" /\ now \in Nat
  BY DEF ReadUserRule, QuotaInv, Types
<1>3. req' = [req EXCEPT ![r] = q] /\ UNCHANGED <<rules, now, rows, seen>>
  BY <1>1 DEF ReadUserRule, QuotaInv, Types
<1>4. /\ g \in MaybeRules /\ (g = NoRule \/ g.scope = Global)
      /\ v \in MaybeRules
      /\ g \in seen[r].global /\ v \in seen[r].user
  BY <1>1, <1>2, RuleOfIs DEF QuotaInv, Types, ReqType, Remembers, SeesUser
<1>5. /\ m.running \in Limits
      /\ m.timeout \in Limits /\ m.timeout # 0
      /\ m.rate \in Limits /\ Bounded("rate", DefaultRate, m.rate)
      /\ m \in [running : Limits, timeout : Limits, rate : Limits]
  <2>1. /\ m.running = MergedLimit(v["running"], g, g["running"], DefaultRunning)
        /\ m.timeout = MergedLimit(v["timeout"], g, g["timeout"], DefaultTimeout)
        /\ m.rate = MergedLimit(v["rate"], g, g["rate"], DefaultRate)
        /\ m = [running |-> m.running, timeout |-> m.timeout, rate |-> m.rate]
    BY <1>1 DEF MergeQuotaRules
  <2>2. /\ "running" \in Fields /\ "timeout" \in Fields /\ "rate" \in Fields
        /\ SeedRule["running"] = DefaultRunning /\ SeedRule["timeout"] = DefaultTimeout
        /\ SeedRule["rate"] = DefaultRate
        /\ DefaultRunning \in Nat /\ DefaultTimeout \in Nat \ {0} /\ DefaultRate \in Nat
    BY QuotaAssumption DEF Fields, SeedRule
  <2>3. m.running \in Limits
    BY <1>4, <2>1, <2>2, MergedLimitIs
  <2>4. m.timeout \in Limits /\ m.timeout # 0
    BY <1>4, <2>1, <2>2, MergedLimitIs, RuleTypes
  <2>5. m.rate \in Limits /\ Bounded("rate", DefaultRate, m.rate)
    BY <1>4, <2>1, <2>2, MergedLimitIs
  <2> QED BY <2>1, <2>3, <2>4, <2>5
<1>6. since \in Nat /\ (since = 0 \/ since + Window <= now)
  BY <1>1, <1>2, QuotaAssumption DEF Since
<1>7. /\ q \in ReqType /\ q.pc = "quota" /\ q.who = req[r].who
      /\ q.quota = m /\ q.since = since
  BY <1>1, <1>2, <1>5, <1>6 DEF ReqType, Pcs, MaybeRules
<1>8. Remembers(q, seen[r]) /\ SeesUser(q, seen[r])
  <2>1. LimitSeen(seen[r], m.timeout)
    BY <1>1, <1>4 DEF LimitSeen
  <2> QED BY <1>2, <1>5, <1>6, <1>7, <2>1 DEF Remembers, SeesUser
<1> QED BY <1>3, <1>7, <1>8, StatementKeeps, SeenStays

LEMMA CountActiveSandboxesKeeps ==
  ASSUME QuotaInv, NEW r \in Requests, CountActiveSandboxes(r)
  PROVE  QuotaInv'
<1>1. PICK n, q : /\ n = CountActive(req[r].who)
                  /\ q = [req[r] EXCEPT !.pc = "active", !.active = n]
  OBVIOUS
<1>2. req[r] \in ReqType /\ Remembers(req[r], seen[r]) /\ req[r].pc = "quota"
  BY DEF CountActiveSandboxes, QuotaInv, Types
<1>3. req' = [req EXCEPT ![r] = q] /\ UNCHANGED <<rules, now, rows, seen>>
  BY <1>1 DEF CountActiveSandboxes, QuotaInv, Types
<1>4. n \in Nat
  BY <1>1, RowCounts DEF CountActive
<1>5. /\ q \in ReqType /\ q.pc = "active" /\ q.who = req[r].who
      /\ q.quota = req[r].quota /\ q.since = req[r].since
  BY <1>1, <1>2, <1>4 DEF ReqType, Pcs
<1>6. Remembers(q, seen[r]) /\ SeesUser(q, seen[r])
  BY <1>2, <1>5 DEF Remembers, SeesUser
<1> QED BY <1>3, <1>5, <1>6, StatementKeeps, SeenStays

LEMMA EnforceCreateQuotaKeeps ==
  ASSUME QuotaInv, NEW r \in Requests, EnforceCreateQuota(r)
  PROVE  QuotaInv'
<1>1. PICK t, limit, asked, q :
        /\ t = req[r].asked /\ limit = req[r].quota.timeout
        /\ asked = ApplyTimeoutPolicy(t, limit)
        /\ q = [Idle EXCEPT !.pc = "call", !.who = req[r].who, !.asked = asked]
  OBVIOUS
<1>2. /\ req[r] \in ReqType /\ Remembers(req[r], seen[r]) /\ req[r].pc = "active"
      /\ UNCHANGED <<rules, now, rows>>
  BY DEF EnforceCreateQuota, QuotaInv, Types
<1>3. CASE TimeoutAllowed(t, limit) /\ req' = [req EXCEPT ![r] = q] /\ UNCHANGED seen
  <2>1. /\ t \in Nat \cup {NoTimeout} /\ t # 0
        /\ t = NoTimeout \/ limit = NoLimit \/ t <= limit
        /\ limit \in Limits \ {0} /\ LimitSeen(seen[r], limit)
    BY <1>1, <1>2, <1>3 DEF TimeoutAllowed, ValidTimeout, ReqType, Remembers
  <2>2. asked \in Lifetimes /\ (limit # NoLimit => asked # NoTimeout /\ asked <= limit)
    BY <1>1, <2>1, QuotaAssumption DEF ApplyTimeoutPolicy, Lifetimes, Limits
  <2>3. q \in ReqType /\ q.pc = "call" /\ q.who = req[r].who /\ q.asked = asked
    BY <1>1, <1>2, <2>2, IdleIs DEF ReqType, Pcs, Lifetimes
  <2>4. Remembers(q, seen[r]) /\ SeesUser(q, seen[r])
    BY <1>2, <2>1, <2>2, <2>3 DEF Remembers, SeesUser
  <2> QED BY <1>2, <1>3, <2>3, <2>4, StatementKeeps, SeenStays
<1>4. CASE Ends(r)
  BY <1>2, <1>4, EndKeeps
<1> QED BY <1>1, <1>3, <1>4 DEF EnforceCreateQuota

LEMMA CreateFailsKeeps ==
  ASSUME QuotaInv, NEW r \in Requests, CreateFails(r)
  PROVE  QuotaInv'
BY EndKeeps DEF CreateFails

(* Which row a create records.                                             *)
LEMMA RecordedRow ==
  ASSUME QuotaInv, NEW r \in Requests, RecordCreated(r)
  PROVE  \E i \in RowIds, w \in RowType :
           /\ rows[i] = NoRow /\ rows' = [rows EXCEPT ![i] = w]
           /\ w.owner = req[r].who /\ w.created = now
<1>1. /\ req[r] \in ReqType /\ Remembers(req[r], seen[r]) /\ req[r].pc = "call"
      /\ now \in Nat
  BY DEF RecordCreated, QuotaInv, Types
<1>2. PICK w : w = [owner |-> req[r].who, created |-> now, active |-> TRUE]
  OBVIOUS
<1>3. PICK i \in RowIds : rows[i] = NoRow /\ rows' = [rows EXCEPT ![i] = w]
  BY <1>2 DEF RecordCreated
<1>4. /\ w \in RowType /\ w.owner = req[r].who /\ w.created = now
  BY <1>1, <1>2 DEF RowType, Remembers
<1> QED BY <1>3, <1>4

LEMMA RecordCreatedKeeps ==
  ASSUME QuotaInv, NEW r \in Requests, RecordCreated(r)
  PROVE  QuotaInv'
<1>1. /\ now \in Nat /\ UNCHANGED <<rules, now>>
      /\ req' = [req EXCEPT ![r] = Idle] /\ seen' = [seen EXCEPT ![r] = Nothing]
  BY DEF RecordCreated, Ends, QuotaInv, Types
<1>2. PICK i \in RowIds, w \in RowType :
        /\ rows[i] = NoRow /\ rows' = [rows EXCEPT ![i] = w]
        /\ w.owner = req[r].who /\ w.created = now
  BY RecordedRow
<1>3. rows'[i] = w /\ \A j \in RowIds : j # i => rows'[j] = rows[j]
  BY <1>2 DEF QuotaInv, Types
<1>4. Types'
  BY <1>1, <1>2, <1>3, IdleIs DEF QuotaInv, Types
<1>5. ASSUME NEW p \in Requests
      PROVE  Remembers(req[p], seen[p])' /\ SeesUser(req[p], seen[p])'
  <2>1. req'[p] = Idle \/ (req'[p] = req[p] /\ seen'[p] = seen[p])
    BY <1>1 DEF QuotaInv, Types
  <2>2. Remembers(req'[p], seen'[p]) /\ SeesUser(req'[p], seen'[p])
    BY <2>1, IdleIs DEF QuotaInv
  <2> QED BY <1>1, <2>2 DEF Remembers, Bounded, SeesUser, RuleOf, LimitSeen
<1> QED BY <1>4, <1>5 DEF QuotaInv

LEMMA PutQuotaRuleKeeps ==
  ASSUME QuotaInv, NEW id \in RuleIds, NEW v \in RuleValues, PutQuotaRule(id, v)
  PROVE  QuotaInv'
<1>1. /\ rules' \in [RuleIds -> MaybeRules] /\ UNCHANGED <<now, rows, req>>
  BY DEF PutQuotaRule, QuotaInv, Types, MaybeRules
<1>2. ASSUME NEW r \in Requests
      PROVE  /\ seen'[r] \in SeenType
             /\ seen[r].global \subseteq seen'[r].global /\ seen[r].user \subseteq seen'[r].user
             /\ req[r].pc = "global" => RuleOf(req[r].who)' \in seen'[r].user
  <2>1. PICK g, u : g = RuleIn(rules', Global) /\ u = RuleIn(rules', req[r].who)
    OBVIOUS
  <2>2. g \in MaybeRules /\ u \in MaybeRules /\ seen[r] \in SeenType
    BY <1>1, <2>1, RuleInIs DEF QuotaInv, Types
  <2>3. seen'[r] = IF req[r].pc \in Checking
                     THEN [global |-> seen[r].global \cup {g}, user |-> seen[r].user \cup {u}]
                     ELSE seen[r]
    BY <2>1 DEF PutQuotaRule
  <2>4. RuleOf(req[r].who)' = u
    BY <1>1, <2>1 DEF RuleOf
  <2> QED BY <2>2, <2>3, <2>4 DEF SeenType, Checking
<1>3. seen' \in [Requests -> SeenType]
  <2>1. seen' = [r \in Requests |-> seen'[r]]
    BY DEF PutQuotaRule
  <2> QED BY <1>2, <2>1
<1>4. ASSUME NEW r \in Requests
      PROVE  Remembers(req[r], seen[r])' /\ SeesUser(req[r], seen[r])'
  <2>1. Remembers(req[r], seen[r]) /\ UNCHANGED <<now, req[r]>>
    BY <1>1 DEF QuotaInv
  <2>2. \A limit : LimitSeen(seen[r], limit) => LimitSeen(seen[r], limit)'
    BY <1>2 DEF LimitSeen
  <2>3. seen[r].global \subseteq seen'[r].global
    BY <1>2
  <2>4. Remembers(req[r], seen[r])'
    BY <2>1, <2>2, <2>3 DEF Remembers, Bounded
  <2> QED BY <1>1, <1>2, <2>4 DEF SeesUser
<1> QED BY <1>1, <1>3, <1>4 DEF QuotaInv, Types

LEMMA RecordEndedKeeps ==
  ASSUME QuotaInv, NEW i \in RowIds, RecordEnded(i)
  PROVE  /\ QuotaInv'
         /\ \A j \in RowIds : rows'[j].owner = rows[j].owner /\ rows'[j].created = rows[j].created
<1>1. PICK w : w = [rows[i] EXCEPT !.active = FALSE]
  OBVIOUS
<1>2. /\ rows' = [rows EXCEPT ![i] = w] /\ UNCHANGED <<rules, now, req, seen>>
      /\ rows[i] \in RowType
  BY <1>1 DEF RecordEnded, QuotaInv, Types, NoRow
<1>3. /\ w \in RowType /\ w.owner = rows[i].owner /\ w.created = rows[i].created
  BY <1>1, <1>2 DEF RowType
<1>4. rows'[i] = w /\ \A j \in RowIds : j # i => rows'[j] = rows[j]
  BY <1>2 DEF QuotaInv, Types
<1>5. Types'
  BY <1>2, <1>3, <1>4 DEF QuotaInv, Types
<1>6. \A r \in Requests : Remembers(req[r], seen[r])' /\ SeesUser(req[r], seen[r])'
  BY <1>2 DEF QuotaInv, Remembers, Bounded, SeesUser, RuleOf, LimitSeen
<1> QED BY <1>3, <1>4, <1>5, <1>6 DEF QuotaInv

LEMMA TickKeeps ==
  ASSUME QuotaInv, Tick
  PROVE  QuotaInv'
<1>1. now \in Nat /\ now' = now + 1 /\ now < MaxTime /\ UNCHANGED <<rules, rows, req, seen>>
  BY DEF Tick, QuotaInv, Types
<1>2. Types'
  <2>1. now' \in 0 .. MaxTime
    BY <1>1, QuotaAssumption
  <2>2. \A i \in RowIds : rows'[i].created <= now'
    <3> TAKE i \in RowIds
    <3>1. rows[i].created \in Nat /\ rows[i].created <= now
      BY DEF QuotaInv, Types, RowType, NoRow
    <3> QED BY <1>1, <3>1
  <2> QED BY <1>1, <2>1, <2>2 DEF QuotaInv, Types
<1>3. ASSUME NEW r \in Requests
      PROVE  Remembers(req[r], seen[r])' /\ SeesUser(req[r], seen[r])'
  <2>1. req[r].since \in Nat /\ Remembers(req[r], seen[r]) /\ SeesUser(req[r], seen[r])
    BY DEF QuotaInv, Types, ReqType
  <2>2. req[r].since + Window <= now => req[r].since + Window <= now'
    BY <1>1, <2>1, QuotaAssumption
  <2> QED BY <1>1, <2>1, <2>2 DEF Remembers, Bounded, SeesUser, RuleOf, LimitSeen
<1> QED BY <1>2, <1>3 DEF QuotaInv

LEMMA QuotaInvInit == Init => QuotaInv
<1> SUFFICES ASSUME Init PROVE QuotaInv
  OBVIOUS
<1>1. SeedRule \in MaybeRules /\ NoRule \in MaybeRules /\ NoRow.created = 0
  BY DEF MaybeRules, NoRow
<1>2. Types
  BY <1>1, IdleIs, QuotaAssumption DEF Init, Types
<1> QED BY <1>2, IdleIs DEF Init, QuotaInv

LEMMA QuotaInvNext == QuotaInv /\ [Next]_vars => QuotaInv'
<1> SUFFICES ASSUME QuotaInv, [Next]_vars PROVE QuotaInv'
  OBVIOUS
<1>1. CASE UNCHANGED vars
  BY <1>1 DEF vars, QuotaInv, Types, Remembers, Bounded, SeesUser, RuleOf, LimitSeen
<1>2. CASE \E id \in RuleIds, v \in RuleValues : PutQuotaRule(id, v)
  BY <1>2, PutQuotaRuleKeeps
<1>3. CASE \E r \in Requests, u \in Subjects, t \in Timeouts : ReadGlobalRule(r, u, t)
  BY <1>3, ReadGlobalRuleKeeps
<1>4. CASE \E r \in Requests : ReadUserRule(r) \/ CountActiveSandboxes(r)
  BY <1>4, ReadUserRuleKeeps, CountActiveSandboxesKeeps
<1>5. CASE \E r \in Requests : EnforceCreateQuota(r) \/ RecordCreated(r) \/ CreateFails(r)
  BY <1>5, EnforceCreateQuotaKeeps, RecordCreatedKeeps, CreateFailsKeeps
<1>6. CASE \E i \in RowIds : RecordEnded(i)
  BY <1>6, RecordEndedKeeps
<1>7. CASE Tick
  BY <1>7, TickKeeps
<1> QED BY <1>1, <1>2, <1>3, <1>4, <1>5, <1>6, <1>7 DEF Next

LEMMA QuotaCorrect == Spec => []QuotaInv
BY QuotaInvInit, QuotaInvNext, PTL DEF Spec

(* Every variable holds what the code can store in it, whatever rules      *)
(* administrators write under creates in progress: no create goes to the   *)
(* backend with a timeout of zero (apply_create_timeout_policy).           *)
THEOREM TypeCorrect == Spec => []TypeOK
<1>1. QuotaInv => TypeOK
  <2> SUFFICES ASSUME QuotaInv PROVE TypeOK
    OBVIOUS
  <2>1. ASSUME NEW i \in RowIds, rows[i] # NoRow
        PROVE  /\ rows[i].owner \in Subjects /\ rows[i].created \in 0 .. now
               /\ rows[i].active \in BOOLEAN
    <3>1. rows[i] \in RowType /\ rows[i].created <= now /\ now \in Nat
      BY <2>1 DEF QuotaInv, Types
    <3> QED BY <3>1 DEF RowType
  <2>2. ASSUME NEW r \in Requests
        PROVE  /\ req[r].pc \in Pcs /\ (req[r].pc = "call" => req[r].asked \in Lifetimes)
               /\ seen[r].global \cup seen[r].user \subseteq MaybeRules
    BY DEF QuotaInv, Types, ReqType, SeenType, Remembers
  <2> QED BY <2>1, <2>2 DEF QuotaInv, Types, TypeOK, MaybeRules, Pcs
<1> QED BY <1>1, QuotaCorrect, PTL

(* Whatever rules are written while a create is checked, the timeout it    *)
(* goes to the backend with is one that the rules in force during the      *)
(* check allow (enforce_sandbox_create_quota reads each of the two once).  *)
THEOREM LifetimesCorrect == Spec => []LifetimesWithinQuota
<1>1. QuotaInv => LifetimesWithinQuota
  <2> SUFFICES ASSUME QuotaInv, NEW r \in Requests, req[r].pc = "call"
               PROVE  \E global \in seen[r].global, user \in seen[r].user :
                        AllowedBy(global, user, req[r].asked)
    BY DEF LifetimesWithinQuota
  <2>1. PICK limit \in Limits : LimitSeen(seen[r], limit) /\ NoLongerThan(req[r].asked, limit)
    BY DEF QuotaInv, Remembers, NoLongerThan
  <2>2. PICK global \in seen[r].global, user \in seen[r].user :
          limit = MergeQuotaRules(global, user).timeout
    BY <2>1 DEF LimitSeen
  <2>3. limit = MergedLimit(user.timeout, global, global.timeout, DefaultTimeout)
    BY <2>2 DEF MergeQuotaRules
  <2>4. AllowedBy(global, user, req[r].asked)
    BY <2>1, <2>3 DEF MergedLimit, AllowedBy, NoLongerThan
  <2> QED BY <2>4
<1> QED BY <1>1, QuotaCorrect, PTL

(* What remains of a limit is nothing exactly when the limit refuses.      *)
LEMMA RemainingIs ==
  ASSUME NEW limit \in Limits, NEW used \in Nat
  PROVE  Remaining(limit, used) = 0 <=> ~WithinLimit(limit, used)
BY QuotaAssumption DEF Limits, Remaining, WithinLimit

(* What GET /me/usage shows is what a create meets, in every state the     *)
(* rules, the rows and the clock can be in.                                *)
THEOREM UsageCorrect == Spec => []UsageAgreesWithEnforcement
<1>1. QuotaInv => UsageAgreesWithEnforcement
  <2> SUFFICES ASSUME QuotaInv, NEW u \in Subjects
               PROVE  /\ QuotaStatus(u).remaining.running = 0
                           <=> ~WithinLimit(QuotaStatus(u).quota.running, CountActive(u))
                      /\ QuotaStatus(u).remaining.rate = 0
                           <=> ~WithinLimit(QuotaStatus(u).quota.rate, CountCreatedSince(u, Since))
    BY DEF UsageAgreesWithEnforcement
  <2>1. PICK global, user : global = RuleOf(Global) /\ user = RuleOf(u)
    OBVIOUS
  <2>2. global \in MaybeRules /\ user \in MaybeRules
    BY <2>1, RuleOfIs DEF QuotaInv, Types
  <2>3. PICK q : q = EffectiveQuota(u)
    OBVIOUS
  <2>4. q.running \in Limits /\ q.rate \in Limits
    BY <2>1, <2>2, <2>3, RuleTypes, QuotaAssumption
    DEF EffectiveQuota, MergeQuotaRules, MergedLimit, Limits
  <2>5. CountActive(u) \in Nat /\ CountCreatedSince(u, Since) \in Nat
    BY RowCounts DEF CountActive, CountCreatedSince
  <2>6. /\ QuotaStatus(u).quota = q
        /\ QuotaStatus(u).remaining.running = Remaining(q.running, CountActive(u))
        /\ QuotaStatus(u).remaining.rate = Remaining(q.rate, CountCreatedSince(u, Since))
    BY <2>3 DEF QuotaStatus
  <2> QED BY <2>4, <2>5, <2>6, RemainingIs
<1> QED BY <1>1, QuotaCorrect, PTL

-----------------------------------------------------------------------------
(* The creation rate.  As long as a minute is not over, what it has seen   *)
(* created and the creates that are admitted and may still fall into it    *)
(* stay together below the ceiling: an admitted create counted less than   *)
(* the limit, and there are no more creates in progress than requests.     *)

CreatedIn(u, t) == {i \in RowIds : /\ rows[i].owner = u
                                   /\ rows[i].created >= t
                                   /\ rows[i].created <= t + Window}
Admitted(u) == {r \in Requests : req[r].pc = "call" /\ req[r].who = u}
Ceiling == Highest("rate", DefaultRate) + Cardinality(Requests)

RateFor(u, t) ==
  /\ Cardinality(CreatedIn(u, t)) < Ceiling
  /\ now <= t + Window => Cardinality(CreatedIn(u, t)) + Cardinality(Admitted(u)) < Ceiling

RateCounted == \A u \in Subjects, t \in Nat : RateFor(u, t)

LEMMA CeilingIs ==
  ASSUME IsFiniteSet(RuleValues), IsFiniteSet(Requests)
  PROVE  /\ Ceiling \in Nat /\ Highest("rate", DefaultRate) \in Nat
         /\ Cardinality(Requests) \in Nat
         /\ Ceiling = Highest("rate", DefaultRate) + Cardinality(Requests)
<1>1. "rate" \in Fields /\ DefaultRate \in Nat
  BY QuotaAssumption DEF Fields
<1>2. Highest("rate", DefaultRate) \in Nat
  BY <1>1, HighestIs
<1>3. Cardinality(Requests) \in Nat
  BY FS_CardinalityType
<1> QED BY <1>2, <1>3 DEF Ceiling

LEMMA AdmittedCount ==
  ASSUME IsFiniteSet(Requests), NEW S, S \subseteq Requests
  PROVE  IsFiniteSet(S) /\ Cardinality(S) \in Nat /\ Cardinality(S) <= Cardinality(Requests)
BY FS_Subset, FS_CardinalityType

(* A step that records nothing and admits nobody.                          *)
LEMMA RateShrinks ==
  ASSUME IsFiniteSet(RuleValues), IsFiniteSet(Requests), QuotaInv, QuotaInv',
         NEW u, NEW t \in Nat, RateFor(u, t), now <= now',
         CreatedIn(u, t)' \subseteq CreatedIn(u, t), Admitted(u)' \subseteq Admitted(u)
  PROVE  RateFor(u, t)'
<1>1. PICK C, D, A, B : /\ C = CreatedIn(u, t) /\ D = CreatedIn(u, t)'
                        /\ A = Admitted(u) /\ B = Admitted(u)'
  OBVIOUS
<1>2. C \subseteq RowIds /\ D \subseteq C /\ A \subseteq Requests /\ B \subseteq A
  BY <1>1 DEF CreatedIn, Admitted
<1>3. /\ Cardinality(D) \in Nat /\ Cardinality(C) \in Nat /\ Cardinality(D) <= Cardinality(C)
  BY <1>2, RowCounts, FS_Subset
<1>4. /\ Cardinality(B) \in Nat /\ Cardinality(A) \in Nat /\ Cardinality(B) <= Cardinality(A)
  BY <1>2, AdmittedCount, FS_Subset
<1>5. now \in Nat /\ now' \in Nat /\ (now' <= t + Window => now <= t + Window)
  BY QuotaAssumption DEF QuotaInv, Types
<1>6. /\ Cardinality(C) < Ceiling
      /\ now <= t + Window => Cardinality(C) + Cardinality(A) < Ceiling
  BY <1>1 DEF RateFor
<1>7. /\ Cardinality(D) < Ceiling
      /\ now' <= t + Window => Cardinality(D) + Cardinality(B) < Ceiling
  BY <1>3, <1>4, <1>5, <1>6, CeilingIs
<1>8. Ceiling' = Ceiling
  BY DEF Ceiling, Highest
<1> QED BY <1>1, <1>7, <1>8 DEF RateFor

(* A create is admitted: whatever minute now is in, the create counted at  *)
(* least what that minute has seen.                                        *)
LEMMA EnforceKeepsRate ==
  ASSUME IsFiniteSet(RuleValues), IsFiniteSet(Requests), NeverLifted("rate"),
         QuotaInv, QuotaInv', NEW r \in Requests, EnforceCreateQuota(r),
         NEW u \in Subjects, NEW t \in Nat, RateFor(u, t)
  PROVE  RateFor(u, t)'
<1>1. /\ UNCHANGED <<rules, now, rows>> /\ req[r] \in ReqType /\ Remembers(req[r], seen[r])
      /\ req[r].pc = "active" /\ now \in Nat /\ req \in [Requests -> ReqType]
  BY DEF EnforceCreateQuota, QuotaInv, Types
<1>2. /\ CreatedIn(u, t)' = CreatedIn(u, t)
      /\ now <= now'
      /\ \A p \in Requests : p # r => req'[p] = req[p]
      /\ req'[r] = Idle \/ req'[r].who = req[r].who
  <2>1. PICK q : q = [Idle EXCEPT !.pc = "call", !.who = req[r].who,
                        !.asked = ApplyTimeoutPolicy(req[r].asked, req[r].quota.timeout)]
    OBVIOUS
  <2>2. req' = [req EXCEPT ![r] = q] \/ req' = [req EXCEPT ![r] = Idle]
    BY <2>1 DEF EnforceCreateQuota, Ends
  <2>3. q.who = req[r].who
    BY <2>1 DEF Idle
  <2> QED BY <1>1, <2>2, <2>3 DEF CreatedIn
<1>3. CASE req'[r] = Idle \/ req[r].who # u
  <2>1. Admitted(u)' \subseteq Admitted(u)
    BY <1>1, <1>2, <1>3, IdleIs DEF Admitted
  <2> QED BY <1>2, <2>1, RateShrinks
<1>4. CASE req'[r] # Idle /\ req[r].who = u
  <2>1. PICK C, counted, B : /\ C = CreatedIn(u, t) /\ B = Admitted(u)'
          /\ counted = {i \in RowIds : rows[i].owner = u /\ rows[i].created >= req[r].since}
    OBVIOUS
  <2>2. PICK rate : rate = req[r].quota.rate
    OBVIOUS
  <2>3. WithinLimit(rate, Cardinality(counted))
    <3>1. req'[r] # Idle => WithinLimit(req[r].quota.rate, CountCreatedSince(req[r].who, req[r].since))
      BY DEF EnforceCreateQuota, Ends, QuotaInv, Types
    <3> QED BY <1>4, <2>1, <2>2, <3>1 DEF CountCreatedSince
  <2>4. rate \in Nat /\ rate <= Highest("rate", DefaultRate)
    BY <1>1, <2>2 DEF Remembers, Bounded
  <2>5. counted \subseteq RowIds /\ B \subseteq Requests
    BY <2>1 DEF Admitted
  <2>6. Cardinality(counted) \in Nat /\ Cardinality(counted) < rate
    BY <2>3, <2>4, <2>5, RowCounts, QuotaAssumption DEF WithinLimit
  <2>7. ASSUME now <= t + Window
        PROVE  Cardinality(C) \in Nat /\ Cardinality(C) <= Cardinality(counted)
    <3>1. req[r].since \in Nat /\ req[r].since <= t
      <4>1. req[r].since = 0 \/ req[r].since + Window <= now
        BY <1>1 DEF Remembers
      <4>2. req[r].since \in Nat /\ Window \in Nat
        BY <1>1, QuotaAssumption DEF ReqType
      <4> QED BY <1>1, <2>7, <4>1, <4>2
    <3>2. \A i \in RowIds : rows[i].created \in Nat
      BY DEF QuotaInv, Types, RowType, NoRow
    <3>3. C \subseteq counted
      BY <2>1, <3>1, <3>2 DEF CreatedIn
    <3> QED BY <2>5, <3>3, RowCounts, FS_Subset
  <2>8. Cardinality(B) \in Nat /\ Cardinality(B) <= Cardinality(Requests)
    BY <2>5, AdmittedCount
  <2>9. now <= t + Window => Cardinality(C) + Cardinality(B) < Ceiling
    BY <2>4, <2>6, <2>7, <2>8, CeilingIs
  <2>10. Ceiling' = Ceiling /\ Cardinality(C) < Ceiling
    BY <2>1 DEF Ceiling, Highest, RateFor
  <2> QED BY <1>1, <1>2, <2>1, <2>9, <2>10 DEF RateFor
<1> QED BY <1>3, <1>4

(* A create is recorded: it was counted as admitted.                       *)
LEMMA RecordCreatedKeepsRate ==
  ASSUME IsFiniteSet(RuleValues), IsFiniteSet(Requests),
         QuotaInv, QuotaInv', NEW r \in Requests, RecordCreated(r),
         NEW u \in Subjects, NEW t \in Nat, RateFor(u, t)
  PROVE  RateFor(u, t)'
<1>1. /\ req[r].pc = "call" /\ req' = [req EXCEPT ![r] = Idle] /\ UNCHANGED <<rules, now>>
      /\ now \in Nat /\ now <= now'
  BY DEF RecordCreated, Ends, QuotaInv, Types
<1>2. PICK i \in RowIds, w \in RowType :
        /\ rows[i] = NoRow /\ rows' = [rows EXCEPT ![i] = w]
        /\ w.owner = req[r].who /\ w.created = now
  BY RecordedRow
<1>3. /\ rows'[i] = w /\ \A j \in RowIds : j # i => rows'[j] = rows[j]
      /\ req'[r] = Idle /\ \A p \in Requests : p # r => req'[p] = req[p]
  BY <1>1, <1>2 DEF QuotaInv, Types
<1>4. Admitted(u)' = Admitted(u) \ {r}
  BY <1>3, IdleIs DEF Admitted
<1>5. CASE req[r].who # u \/ now > t + Window
  <2>1. CreatedIn(u, t)' \subseteq CreatedIn(u, t)
    BY <1>1, <1>2, <1>3, <1>5, QuotaAssumption DEF CreatedIn
  <2> QED BY <1>1, <1>4, <2>1, RateShrinks
<1>6. CASE req[r].who = u /\ now <= t + Window
  <2>1. PICK C, D, A, B : /\ C = CreatedIn(u, t) /\ D = CreatedIn(u, t)'
                          /\ A = Admitted(u) /\ B = Admitted(u)'
    OBVIOUS
  <2>2. D \subseteq C \cup {i} /\ C \subseteq RowIds /\ D \subseteq RowIds
    BY <1>3, <2>1 DEF CreatedIn
  <2>3. /\ Cardinality(C) \in Nat /\ Cardinality(D) \in Nat
        /\ Cardinality(D) <= Cardinality(C) + 1
    <3>1. IsFiniteSet(C \cup {i}) /\ Cardinality(C \cup {i}) <= Cardinality(C) + 1
      BY <2>2, RowCounts, FS_AddElement
    <3> QED BY <2>2, <3>1, RowCounts, FS_Subset
  <2>4. r \in A /\ A \subseteq Requests
    BY <1>1, <1>6, <2>1 DEF Admitted
  <2>5. Cardinality(A) \in Nat /\ Cardinality(B) \in Nat /\ Cardinality(B) = Cardinality(A) - 1
    <3>1. IsFiniteSet(A) /\ Cardinality(A) \in Nat /\ B \subseteq Requests
      BY <1>4, <2>1, <2>4, AdmittedCount
    <3> QED BY <1>4, <2>1, <2>4, <3>1, AdmittedCount, FS_RemoveElement
  <2>6. Cardinality(C) + Cardinality(A) < Ceiling
    BY <1>6, <2>1 DEF RateFor
  <2>7. Cardinality(D) + Cardinality(B) < Ceiling /\ Cardinality(D) < Ceiling
    BY <2>3, <2>5, <2>6, CeilingIs
  <2>8. Ceiling' = Ceiling
    BY DEF Ceiling, Highest
  <2> QED BY <2>1, <2>7, <2>8 DEF RateFor
<1>7. t + Window \in Nat
  BY QuotaAssumption
<1> QED BY <1>1, <1>5, <1>6, <1>7

LEMMA OthersKeepRate ==
  ASSUME IsFiniteSet(RuleValues), IsFiniteSet(Requests), QuotaInv, QuotaInv',
         NEW u \in Subjects, NEW t \in Nat, RateFor(u, t),
         \/ UNCHANGED vars
         \/ \E id \in RuleIds, v \in RuleValues : PutQuotaRule(id, v)
         \/ \E r \in Requests :
              \/ \E w \in Subjects, asked \in Timeouts : ReadGlobalRule(r, w, asked)
              \/ ReadUserRule(r) \/ CountActiveSandboxes(r) \/ CreateFails(r)
         \/ \E i \in RowIds : RecordEnded(i)
         \/ Tick
  PROVE  RateFor(u, t)'
<1>1. now <= now'
  <2>1. now \in Nat
    BY DEF QuotaInv, Types
  <2>2. CASE Tick
    BY <2>1, <2>2 DEF Tick
  <2>3. CASE ~Tick
    <3>1. now' = now
      BY <2>3 DEF vars, PutQuotaRule, ReadGlobalRule, ReadUserRule, CountActiveSandboxes,
                  CreateFails, RecordEnded
    <3> QED BY <2>1, <3>1
  <2> QED BY <2>2, <2>3
<1>2. CreatedIn(u, t)' \subseteq CreatedIn(u, t)
  <2>1. CASE \E i \in RowIds : RecordEnded(i)
    BY <2>1, RecordEndedKeeps DEF CreatedIn
  <2>2. CASE ~\E i \in RowIds : RecordEnded(i)
    <3>1. rows' = rows
      BY <2>2 DEF vars, PutQuotaRule, ReadGlobalRule, ReadUserRule, CountActiveSandboxes,
                  CreateFails, Tick
    <3> QED BY <3>1 DEF CreatedIn
  <2> QED BY <2>1, <2>2
<1>3. ASSUME NEW r \in Requests, NEW q, req' = [req EXCEPT ![r] = q], q.pc # "call"
      PROVE  Admitted(u)' \subseteq Admitted(u)
  <2>1. req'[r] = q /\ \A p \in Requests : p # r => req'[p] = req[p]
    BY <1>3 DEF QuotaInv, Types
  <2> QED BY <1>3, <2>1 DEF Admitted
<1>4. CASE \E r \in Requests, w \in Subjects, asked \in Timeouts : ReadGlobalRule(r, w, asked)
  <2>1. PICK r \in Requests, w \in Subjects, asked \in Timeouts : ReadGlobalRule(r, w, asked)
    BY <1>4
  <2>2. PICK q : q = [Idle EXCEPT !.pc = "global", !.who = w, !.asked = asked,
                                  !.global = RuleOf(Global)]
    OBVIOUS
  <2>3. q.pc = "global" /\ req' = [req EXCEPT ![r] = q]
    BY <2>1, <2>2 DEF ReadGlobalRule, Idle
  <2> QED BY <1>1, <1>2, <1>3, <2>3, RateShrinks
<1>5. CASE \E r \in Requests : ReadUserRule(r)
  <2>1. PICK r \in Requests : ReadUserRule(r)
    BY <1>5
  <2>2. PICK q : q = [req[r] EXCEPT !.pc = "quota", !.global = NoRule, !.since = Since,
                        !.quota = MergeQuotaRules(req[r].global, RuleOf(req[r].who))]
    OBVIOUS
  <2>3. q.pc = "quota" /\ req' = [req EXCEPT ![r] = q]
    BY <2>1, <2>2 DEF ReadUserRule, QuotaInv, Types, ReqType
  <2> QED BY <1>1, <1>2, <1>3, <2>3, RateShrinks
<1>6. CASE \E r \in Requests : CountActiveSandboxes(r)
  <2>1. PICK r \in Requests : CountActiveSandboxes(r)
    BY <1>6
  <2>2. PICK q : q = [req[r] EXCEPT !.pc = "active", !.active = CountActive(req[r].who)]
    OBVIOUS
  <2>3. q.pc = "active" /\ req' = [req EXCEPT ![r] = q]
    BY <2>1, <2>2 DEF CountActiveSandboxes, QuotaInv, Types, ReqType
  <2> QED BY <1>1, <1>2, <1>3, <2>3, RateShrinks
<1>7. CASE \E r \in Requests : CreateFails(r)
  BY <1>1, <1>2, <1>3, <1>7, IdleIs, RateShrinks DEF CreateFails, Ends
<1>8. CASE req' = req
  <2>1. Admitted(u)' \subseteq Admitted(u)
    BY <1>8 DEF Admitted
  <2> QED BY <1>1, <1>2, <2>1, RateShrinks
<1> QED BY <1>4, <1>5, <1>6, <1>7, <1>8 DEF vars, PutQuotaRule, RecordEnded, Tick

LEMMA RateInit ==
  ASSUME IsFiniteSet(RuleValues), IsFiniteSet(Requests), Requests # {}, Init
  PROVE  RateCounted
<1> SUFFICES ASSUME NEW u \in Subjects, NEW t \in Nat PROVE RateFor(u, t)
  BY DEF RateCounted
<1>1. CreatedIn(u, t) = {} /\ Admitted(u) = {}
  BY QuotaAssumption DEF Init, CreatedIn, Admitted, NoRow, Idle, Scopes
<1>2. Cardinality(Requests) # 0
  BY FS_EmptySet
<1>3. Ceiling > 0
  BY <1>2, CeilingIs
<1> QED BY <1>1, <1>3, FS_EmptySet, CeilingIs DEF RateFor

LEMMA RateNext ==
  ASSUME IsFiniteSet(RuleValues), IsFiniteSet(Requests), NeverLifted("rate"),
         QuotaInv, QuotaInv', RateCounted, [Next]_vars
  PROVE  RateCounted'
<1> SUFFICES ASSUME NEW u \in Subjects, NEW t \in Nat PROVE RateFor(u, t)'
  BY DEF RateCounted
<1>1. RateFor(u, t)
  BY DEF RateCounted
<1>2. CASE \E r \in Requests : EnforceCreateQuota(r)
  BY <1>1, <1>2, EnforceKeepsRate
<1>3. CASE \E r \in Requests : RecordCreated(r)
  BY <1>1, <1>3, RecordCreatedKeepsRate
<1> QED BY <1>1, <1>2, <1>3, OthersKeepRate DEF Next

(* How far concurrent creates can push a user past the creation rate in    *)
(* any minute, torn reads of rules included (enforce_sandbox_create_quota  *)
(* counts before the backend call, the rows are written after it): for any *)
(* number of users, creates and rows, and however long it goes on.         *)
THEOREM RateCorrect ==
  ASSUME IsFiniteSet(RuleValues), IsFiniteSet(Requests), Requests # {}
  PROVE  Spec => []RateOvershootBounded
<1>1. CASE NeverLifted("rate")
  <2>1. Init => RateCounted
    BY RateInit
  <2>2. QuotaInv /\ QuotaInv' /\ RateCounted /\ [Next]_vars => RateCounted'
    BY <1>1, RateNext
  <2>3. QuotaInv /\ RateCounted => RateOvershootBounded
    <3> SUFFICES ASSUME QuotaInv, RateCounted, NEW u \in Subjects, NEW t \in 0 .. now
                 PROVE  Cardinality(CreatedIn(u, t))
                          < Highest("rate", DefaultRate) + Cardinality(Requests)
      BY DEF RateOvershootBounded, CreatedIn
    <3>1. t \in Nat
      BY DEF QuotaInv, Types
    <3> QED BY <3>1 DEF RateCounted, RateFor, Ceiling
  <2> QED BY <2>1, <2>2, <2>3, QuotaCorrect, PTL DEF Spec
<1>2. CASE ~NeverLifted("rate")
  <2>1. RateOvershootBounded
    BY <1>2 DEF RateOvershootBounded
  <2> QED BY <2>1, PTL
<1> QED BY <1>1, <1>2
=============================================================================
