-------------------------------- MODULE Quotas --------------------------------
(***************************************************************************)
(* Quota rules and how a create is checked against them: quotas/service.py *)
(* and quotas/repository.py, the administrator's PUT of                    *)
(* api/management/quotas.py, and the part of the create handler that       *)
(* decides how long a sandbox may live.                                    *)
(*                                                                         *)
(* A create reads the global rule, the user's rule, the active rows and    *)
(* the rows of the last minute in four statements.  Each sees what is      *)
(* committed when it runs, so a rule can change in between.                *)
(***************************************************************************)
EXTENDS Naturals, FiniteSets

CONSTANTS
  Requests,        \* the creates that can be in progress at once
  Subjects,        \* the users
  RuleIds,         \* the ids administrators give to rules
  RuleValues,      \* the rules they write
  SeedId,          \* the id of the rule the migration puts in
  NoLimit,         \* a field left null
  DefaultRunning,  \* the seeded rule, and what holds without a global rule
  DefaultTimeout,
  DefaultRate,
  Timeouts,        \* the timeouts clients ask for
  NoTimeout,       \* a request without a timeout
  Window,          \* how far back the creation rate looks
  MaxTime,         \* bound: the time at which the clock stops
  MaxRows          \* bound: sandboxes ever created

Limits == Nat \cup {NoLimit}
Global == "*"
Scopes == Subjects \cup {Global}
Rules == [scope : Scopes, running : Limits, timeout : Limits, rate : Limits]
NoRule == [scope |-> "none", running |-> NoLimit, timeout |-> NoLimit,
           rate |-> NoLimit]
SeedRule == [scope |-> Global, running |-> DefaultRunning,
             timeout |-> DefaultTimeout, rate |-> DefaultRate]

ASSUME QuotaAssumption ==
  /\ RuleValues \subseteq Rules /\ SeedId \in RuleIds
  /\ \A v \in RuleValues : v.timeout # 0
  /\ "none" \notin Scopes /\ Global \notin Subjects
  /\ NoLimit \notin Nat /\ NoTimeout \notin Nat
  /\ DefaultRunning \in Nat /\ DefaultTimeout \in Nat \ {0} /\ DefaultRate \in Nat
  /\ Timeouts \subseteq Nat \cup {NoTimeout}
  /\ Window \in Nat /\ MaxTime \in Nat /\ MaxRows \in Nat

VARIABLES
  rules,  \* the table of rules
  now,    \* the clock
  rows,   \* the sandbox index, as far as quotas look at it
  req,    \* what the handler of each create is doing
  seen    \* history: the rules in force while each create was checked

vars == <<rules, now, rows, req, seen>>

RowIds == 1 .. MaxRows
NoRow == [owner |-> "none", created |-> 0, active |-> FALSE]
NoQuota == [running |-> NoLimit, timeout |-> NoLimit, rate |-> NoLimit]
Idle == [pc |-> "idle", who |-> "none", asked |-> NoTimeout,
         global |-> NoRule, quota |-> NoQuota, active |-> 0, since |-> 0]
Nothing == [global |-> {}, user |-> {}]
Checking == {"global", "quota", "active"}

-----------------------------------------------------------------------------
(* The rules that apply to a user.                                         *)

RuleIn(table, scope) ==
  LET found == {i \in RuleIds : table[i].scope = scope}
  IN IF found = {} THEN NoRule ELSE table[CHOOSE i \in found : TRUE]
RuleOf(scope) == RuleIn(rules, scope)

(* Mutant: the global rule put before the user's own.                      *)
MergedLimit_GlobalFirst(userValue, global, globalValue, default) ==
  IF global # NoRule THEN globalValue
  ELSE IF userValue # NoLimit THEN userValue
  ELSE default

(* A field of the user's rule, else of the global rule (null there means   *)
(* no limit), else the built-in default.                                   *)
MergedLimit(userValue, global, globalValue, default) ==
  IF userValue # NoLimit THEN userValue
  ELSE IF global # NoRule THEN globalValue
  ELSE default

MergeQuotaRules(global, user) ==
  [running |-> MergedLimit(user.running, global, global.running, DefaultRunning),
   timeout |-> MergedLimit(user.timeout, global, global.timeout, DefaultTimeout),
   rate    |-> MergedLimit(user.rate, global, global.rate, DefaultRate)]

EffectiveQuota(u) == MergeQuotaRules(RuleOf(Global), RuleOf(u))

CountActive(u) == Cardinality({i \in RowIds : rows[i].owner = u /\ rows[i].active})
CountCreatedSince(u, t) ==
  Cardinality({i \in RowIds : rows[i].owner = u /\ rows[i].created >= t})
Since == IF now < Window THEN 0 ELSE now - Window

(* Mutant: a user who used up a limit is shown one more.                   *)
Remaining_Rounded(limit, used) ==
  IF limit = NoLimit THEN NoLimit ELSE IF limit > used THEN limit - used ELSE 1

(* What the user is shown to have left.                                    *)
Remaining(limit, used) ==
  IF limit = NoLimit THEN NoLimit ELSE IF limit > used THEN limit - used ELSE 0

QuotaStatus(u) ==
  LET q == EffectiveQuota(u)
  IN [quota     |-> q,
      remaining |-> [running |-> Remaining(q.running, CountActive(u)),
                     rate    |-> Remaining(q.rate, CountCreatedSince(u, Since))]]

-----------------------------------------------------------------------------
(* Administrators write rules.  The table allows one rule per scope.  What *)
(* they write is in force at once, for the creates being checked too.      *)

ScopeFree(id, scope) == \A i \in RuleIds \ {id} : rules[i].scope # scope

PutQuotaRule(id, value) ==
  /\ ScopeFree(id, value.scope)
  /\ rules' = [rules EXCEPT ![id] = value]
  /\ seen' = [r \in Requests |->
       IF req[r].pc \in Checking
         THEN [global |-> seen[r].global \cup {RuleIn(rules', Global)},
               user   |-> seen[r].user \cup {RuleIn(rules', req[r].who)}]
         ELSE seen[r]]
  /\ UNCHANGED <<now, rows, req>>

-----------------------------------------------------------------------------
(* A create, statement by statement.                                       *)

ReadGlobalRule(r, u, t) ==
  /\ req[r] = Idle
  /\ req' = [req EXCEPT ![r] = [Idle EXCEPT !.pc = "global", !.who = u,
                !.asked = t, !.global = RuleOf(Global)]]
  /\ seen' = [seen EXCEPT ![r] =
       [global |-> {RuleOf(Global)}, user |-> {RuleOf(u)}]]
  /\ UNCHANGED <<rules, now, rows>>

(* The start of the rate window is taken here, before both counts.         *)
ReadUserRule(r) ==
  /\ req[r].pc = "global"
  /\ req' = [req EXCEPT ![r].pc = "quota", ![r].global = NoRule,
                        ![r].since = Since,
              ![r].quota = MergeQuotaRules(req[r].global, RuleOf(req[r].who))]
  /\ UNCHANGED <<rules, now, rows, seen>>

CountActiveSandboxes(r) ==
  /\ req[r].pc = "quota"
  /\ req' = [req EXCEPT ![r].pc = "active", ![r].active = CountActive(req[r].who)]
  /\ UNCHANGED <<rules, now, rows, seen>>

(* Mutant: the limit compared with the wrong sign.                         *)
WithinLimit_OffByOne(limit, used) == limit = NoLimit \/ used <= limit

WithinLimit(limit, used) == limit = NoLimit \/ used < limit

(* Mutant: a timeout of zero accepted.                                     *)
ValidTimeout_AllowsZero(t) == TRUE

ValidTimeout(t) == t # 0

(* The timeout sent on to the backend: the limit when none was asked for.  *)
ApplyTimeoutPolicy(t, limit) ==
  IF t = NoTimeout /\ limit # NoLimit THEN limit ELSE t

TimeoutAllowed(t, limit) ==
  /\ ValidTimeout(t)
  /\ t = NoTimeout \/ limit = NoLimit \/ t <= limit

Ends(r) == /\ req' = [req EXCEPT ![r] = Idle]
           /\ seen' = [seen EXCEPT ![r] = Nothing]

(* The last count and the verdict.  An admitted create goes to the backend *)
(* and waits; a refused one is answered 400 or 429.                        *)
EnforceCreateQuota(r) ==
  LET q == req[r].quota
      t == req[r].asked
  IN /\ req[r].pc = "active"
     /\ IF /\ WithinLimit(q.running, req[r].active)
           /\ WithinLimit(q.rate, CountCreatedSince(req[r].who, req[r].since))
           /\ TimeoutAllowed(t, q.timeout)
        THEN /\ req' = [req EXCEPT ![r] =
                  [Idle EXCEPT !.pc = "call", !.who = req[r].who,
                               !.asked = ApplyTimeoutPolicy(t, q.timeout)]]
             /\ UNCHANGED seen
        ELSE Ends(r)
     /\ UNCHANGED <<rules, now, rows>>

(* The backend created the sandbox and its row is committed.               *)
RecordCreated(r) ==
  /\ req[r].pc = "call"
  /\ \E i \in RowIds :
       /\ rows[i] = NoRow /\ \A j \in 1 .. (i - 1) : rows[j] # NoRow
       /\ rows' = [rows EXCEPT ![i] =
            [owner |-> req[r].who, created |-> now, active |-> TRUE]]
  /\ Ends(r)
  /\ UNCHANGED <<rules, now>>

(* The backend refused, timed out, or the handler died.                    *)
CreateFails(r) ==
  /\ req[r] # Idle
  /\ Ends(r)
  /\ UNCHANGED <<rules, now, rows>>

-----------------------------------------------------------------------------
(* The rest of a sandbox's life.                                           *)

RecordEnded(i) ==
  /\ rows[i].active
  /\ rows' = [rows EXCEPT ![i].active = FALSE]
  /\ UNCHANGED <<rules, now, req, seen>>

Tick ==
  /\ now < MaxTime
  /\ now' = now + 1
  /\ UNCHANGED <<rules, rows, req, seen>>

-----------------------------------------------------------------------------
Init ==
  /\ rules = [i \in RuleIds |-> IF i = SeedId THEN SeedRule ELSE NoRule]
  /\ now = 0
  /\ rows = [i \in RowIds |-> NoRow]
  /\ req = [r \in Requests |-> Idle]
  /\ seen = [r \in Requests |-> Nothing]

Next ==
  \/ \E id \in RuleIds, v \in RuleValues : PutQuotaRule(id, v)
  \/ \E r \in Requests :
       \/ \E u \in Subjects, t \in Timeouts : ReadGlobalRule(r, u, t)
       \/ ReadUserRule(r)
       \/ CountActiveSandboxes(r)
       \/ EnforceCreateQuota(r)
       \/ RecordCreated(r)
       \/ CreateFails(r)
  \/ \E i \in RowIds : RecordEnded(i)
  \/ Tick

Spec == Init /\ [][Next]_vars

-----------------------------------------------------------------------------
(* Properties.                                                             *)

Lifetimes == (Nat \ {0}) \cup {NoTimeout}

(* Every variable holds what the code can store in it; in particular a     *)
(* timeout that goes to the backend is a positive number or absent.        *)
TypeOK ==
  /\ \A i \in RuleIds : rules[i] \in RuleValues \cup {SeedRule, NoRule}
  /\ now \in 0 .. MaxTime
  /\ \A i \in RowIds : \/ rows[i] = NoRow
                       \/ /\ rows[i].owner \in Subjects
                          /\ rows[i].created \in 0 .. now
                          /\ rows[i].active \in BOOLEAN
  /\ \A r \in Requests :
       /\ req[r].pc \in {"idle", "global", "quota", "active", "call"}
       /\ req[r].pc = "call" => req[r].asked \in Lifetimes
       /\ seen[r].global \cup seen[r].user \subseteq RuleValues \cup {SeedRule, NoRule}

(* The largest limit any rule, or the default, can put on a field.         *)
Highest(field, default) ==
  LET values == {default} \cup ({v[field] : v \in RuleValues} \ {NoLimit})
  IN CHOOSE x \in values : \A y \in values : y <= x
NeverLifted(field) ==
  \A v \in RuleValues : v.scope = Global => v[field] # NoLimit

(* How far concurrent creates can push a user past the creation rate: in   *)
(* any minute, even one in which the rules changed and reads were torn     *)
(* between the two rules, every other create in progress adds at most one  *)
(* to what the highest limit allows.                                       *)
RateOvershootBounded ==
  NeverLifted("rate") =>
    \A u \in Subjects, t \in 0 .. now :
      Cardinality({i \in RowIds : /\ rows[i].owner = u
                                  /\ rows[i].created >= t
                                  /\ rows[i].created <= t + Window})
        < Highest("rate", DefaultRate) + Cardinality(Requests)

(* What GET /me/usage shows is what a create meets: nothing remains of a   *)
(* limit exactly when a create counted in the same state is refused.       *)
UsageAgreesWithEnforcement ==
  \A u \in Subjects :
    LET shown == QuotaStatus(u)
    IN /\ shown.remaining.running = 0
            <=> ~WithinLimit(shown.quota.running, CountActive(u))
       /\ shown.remaining.rate = 0
            <=> ~WithinLimit(shown.quota.rate, CountCreatedSince(u, Since))

(* A timeout that two rules allow: no longer than the user's own limit, or *)
(* the global one if the user has none, or the default without a rule.     *)
NoLongerThan(t, limit) == limit # NoLimit => t # NoTimeout /\ t <= limit
AllowedBy(global, user, t) ==
  /\ NoLongerThan(t, user.timeout)
  /\ user.timeout = NoLimit =>
       IF global = NoRule THEN NoLongerThan(t, DefaultTimeout)
                          ELSE NoLongerThan(t, global.timeout)

(* An admitted create goes to the backend with a timeout that the rules in *)
(* force while it was checked allow.  As the two are read one after the    *)
(* other, each held at some moment of the check, but not always both at    *)
(* the same one.  A limit lowered before the create arrived is never       *)
(* passed over, and a request without a timeout does not get round it.     *)
(* (Renewals are not limited by anything: module Sandboxes has them.)      *)
LifetimesWithinQuota ==
  \A r \in Requests : req[r].pc = "call" =>
    \E global \in seen[r].global, user \in seen[r].user :
      AllowedBy(global, user, req[r].asked)
=============================================================================
