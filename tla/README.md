# Verification of OpenSandbox Plus

OpenSandbox Plus is a control plane in front of an OpenSandbox backend. Users
sign in through Casdoor and issue themselves *cloud sandbox credentials*; their
agents call the OpenSandbox-compatible *native API* with such a key; the control
plane checks key, ownership and quota, forwards the call, keeps an index of
sandboxes in PostgreSQL and writes an audit trail. This directory holds TLA+
models of it, their TLC configurations, and proofs checked by TLAPS.

Paths below are relative to `src/server/opensandbox_plus/` unless they begin
with `src/` or `docs/`.

## 1. The system

| Part | State it keeps | Operations | What makes it correct |
| --- | --- | --- | --- |
| Native API (`api/native/sandboxes.py`, `sandboxes/`, `adapter/client.py`) | the `sandboxes` table; per request, the row read before the backend call | create, list, get, delete, patch, pause, resume, renew, endpoint, proxy | a call that stays on the sandbox it was checked for reaches nobody else's; a final row stands for a sandbox that does not run; the index forgets nothing; the trail claims only what happened; every call is answered |
| Quotas (`quotas/`, `api/management/quotas.py`) | the `quota_rules` table | PUT of a rule; merge; enforcement at create; usage | limits are kept, or exceeded by a known bound; what is shown is what is enforced |
| Credentials (`credentials/`, `api/management/credentials.py`) | the `cloud_sandbox_credentials` table | issue, rotate, disable, revoke, verify | a key speaks for its holder only; dead keys stay dead; the limit |
| Identities (`api/dependencies.py`, `users/`, `auth/`) | the `user_identities` table | verify a token, store what it says, authorize | a user who may not call is not let in |
| Audit (`audits/`) | the `audit_events` table | best-effort insert; query | truthful, complete |
| Platform status (`platform_status/`, `api/management/admin.py`) | `runtime_backends` rows | health check, counters, admin listings, admin disable | a health check delays creates and loses none; the recorded health is the latest |
| Proxy (`adapter/proxy.py`) | the upstream client of a streamed answer | filter headers, open, stream, close | only the internal key goes to the backend; a caller who stays leaves no client open, as long as the headers can be written out |
| Sessions (`db/session.py`, `db/models.py`) | the connection pool, open transactions | one session per request | nobody waits while holding; an answer is recorded although the pool is dry |
| Start and jobs (`entrypoint.py`, `main.py`, `jobs/runner.py`) | the runner task | wait for the database, migrate, serve; a runner that only sleeps | one migration at a time; reconciliation (promised by the documents, not written) |
| Console (`src/console/src`) | what is on the screen | loads and commands | the screen shows the latest answer |
| External: OpenSandbox, Casdoor, PostgreSQL | sandboxes; users and tokens; committed rows | | modelled as what the code relies on |

**How they interact.** A management call carries a Casdoor token:
`get_current_principal` verifies it and stores the identity it tells. A native
call carries a key: one statement reads the credential and its owner's *stored*
identity. A create then reads quotas, waits for the backend, inserts the row and
writes the audit event; the list waits for the backend and filters its answer;
every other operation reads the caller's row, waits for
the backend, updates the row and writes the event. Each of these is a
transaction or statement of its own; handlers of one process interleave at
every `await`, and several processes may serve the same database.

**What is hard.** Everything read before the backend call is used after it.
Calls time out at the caller and land at the backend. Processes die between the
backend's answer, the row and the event. Rules, keys and identities change
under requests in progress. Requests hold connections and row locks while they
wait for HTTP answers. `PROJECT.json` lists these hazards line by line.

## 2. The modules

### Sandboxes

The native API. `row` is the index (owner, state, whether `terminated_at` is
set), `req` the handlers in progress, `backend` and `maker` the backend's
sandboxes and (a history variable no guard reads) who made them, `late` the
calls whose handler stopped waiting, `audit` the events of successful creates
and deletes, `revived` (a history variable too) the rows that an update made
active again. A handler goes `call` (admitted, forwarded), `reply` (the backend
answered), `audit` (row committed, event to be written), `idle`.

| Action | Code |
| --- | --- |
| `EnforceQuota` | POST up to the forwarded call: `enforce_sandbox_create_quota`, or 429 and its event |
| `EnsureOwned` | `ensure_owned_sandbox` of the other handlers, and the path they forward (`BackendPath`); GET and DELETE audit their own 404 |
| `BackendCreates`, `BackendServes`, `BackendRefuses` | the backend answers: 2xx, or 3xx, 4xx, 5xx |
| `CallFails` | `httpx.HTTPError`: three handlers audit an error and answer 502, in the others it escapes |
| `LateCallLands`, `LateCallDropped` | an abandoned call takes effect, or does not |
| `RecordCreated` | `record_created_sandbox`: insert, 409 for an indexed id, 502 without an id |
| `RecordDeleted`, `RecordState`, `RecordPayload` | the updates of delete, pause and resume, patch and renew |
| `PassOn` | nothing to record; which answers are audited, with which decision |
| `RecordAudit` | `try_record_audit_event`: the event, or nothing |
| `BackendMove` | a sandbox starts, expires, fails, vanishes |
| `Abort` | the database fails under a handler, or the process dies |

**Where a call goes.** `_backend_path` puts the id of the checked row in its
place and leaves the rest of the path as the caller wrote it. Only the proxy
route has a free remainder, and httpx resolves the dot segments in what the
proxy hands it, so such a call can end at another sandbox, or at none (and then
be any call of the backend's API, a create included). The operation `"stray"` is
a proxied call of this kind: `BackendPath` is then any sandbox. Properties about
whose sandbox a call is on speak of the other calls and say so;
`CallsStayOnOwnSandboxes` is what the documents promise, and is not kept.

**What an answer means.** The backend answers a delete, a pause or a resume when
it is done or has begun (`Afters`): after an accepted delete the sandbox may
still be stopping, whereas the row is final. Answers to patch and renew hold the
state the sandbox is in, an object without one (which reads as `unknown`, an
active state), or nothing. A row can thus come back to life after its delete;
`revived` has those rows.

Abstracted: payloads, image, timeouts and error codes; ids are model values;
statuses are classes (1xx answers never reach a handler). `EnforceQuota` may refuse
below the limit: that is the rate and the timeout policy, which module Quotas
has. A 404 that is not audited changes nothing and is no step. The model keeps
the events of the operations in `KeptOps`; of the others it takes the step and
forgets the event. Reads that precede a decision in the same statement are one
step with it, because nothing yields in between.

### Quotas

Rules, their merge, the four statements a create runs before its call
(`ReadGlobalRule`, `ReadUserRule`, `CountActiveSandboxes`, and the rate count
with the verdict in `EnforceCreateQuota`), the clock, and the rows as far as
quotas look at them. `seen` is a history variable: for each create being
checked, the global and the user rules that were in force since it arrived.
The table starts with the global rule the first migration
inserts (`SeedRule`), whose values are also the built-in defaults. A rule is
written by id and may change its scope, as the upsert does; the table's unique
constraint is `ScopeFree`, the guard of `PutQuotaRule`. A rule's fields are
`null` (`NoLimit`) or a number. `created_at` is taken by the code just before
the insert commits; the model takes both in one step. The lists a rule has
(`allowed_runtime_profile_ids`, `allowed_image_patterns`) are left out: they are
stored, merged and shown, and no decision reads them. A renewal looks at no
quota; it is an operation of module Sandboxes.

### Credentials

Tokens (Casdoor's word about a user at some time, usable until they expire, in
any order), stored identities, credentials, and the handlers between their
transactions (`signed`, `counted`, `audit`). `VerifyKey` is the one statement
that turns a key into a principal; the native call is then in progress until
`Serve`. `expires_in_days` above the maximum and failing inserts are `Abort`;
failure events are not kept. A rotation reads the owned row and then updates it
under the same owner; rows are never deleted or handed on, so the two are one
step. An administrator's disable ends without an event, as in the code. `holder`
and `refused` are history variables. Hashes are taken as injective and keys as
never generated twice.

### Registry

The abstract promise of the index and the trail to whoever reads the tables: an
id is claimed once, by one subject; what ended has ended; the trail reports only
claims and ends that happened; all of this changes one id at a time. `Sandboxes`
implements it: `Index` in that module maps `owner` to the owners of the rows,
`ended` to the rows with a `terminated_at` and `log` to `audit`. Handlers, calls
and the backend are steps that change nothing there.

### Keyring

The abstract promise of the keys to those who hold them: a key is shown to one
user and never to another, opens calls of that user only and only while it
works, and never works again once it has stopped; each change is of one key, or
puts one in the place of another. `Credentials` implements it: `Ring` in that
module maps `working` to the keys of live credentials and `caller` to the users
whose native calls are in progress. Tokens, identities, counts, names and events
are steps that change nothing there.

### Listing

GET `/sandboxes`, the one native handler that is not in module Sandboxes: it
reads no row before the call, so it can disturb nothing, and what matters is what
it shows. `FilterToOwner` is `filter_list_payload_to_owner` with the three keys
it looks under and the two it writes back; `Payload` and `BackendResponse` are
`opensandbox_payload` and `_backend_response`, which decide whether the caller
gets the filtered object or the backend's own bytes. The rows are read after the
answer came, while creates are recorded (`RecordCreated`); `known` remembers
those of the caller when the request came in. A list is a function from
positions to items; filtering restricts it to the positions of the caller's own,
and the order of what remains is the order of the positions.

### Principals

From the decoded claims of a token to a status, roles and the verdict of
`get_current_principal`. A claim's value is a sequence of entries, strings (split
into names) and objects (whose name is one role). A list of roles is a function
from the places where roles are said (which key, which entry, which word of it),
in their order; `ExtractRoles` keeps the first place of each role and drops empty
ones. Module Credentials takes the outcome as given (`Words`).

### Proxying

One proxied request (`adapter/proxy.py`): the headers sent to the backend, as
pairs of a name and whose value it is; those returned; and the httpx client,
which the handler opens and the generator closes that streams the answer after
the handler has returned. `SendFails` is `httpx.HTTPError`, the one exception
for which the handler closes the client. The others leave it open: `BodyBreaks`
is a caller that leaves while its body is read, `BuildFails` a request httpx
cannot build (`InvalidURL`, a header value it cannot encode), `AnswerNotPassedOn`
an answer whose headers Starlette cannot write in latin-1. `StreamNeverBegins`
is a caller that leaves before the generator runs. What the connection header
names is what the code reads: of several such headers in a request the first.

### Resources

What requests hold while they wait. `conn` is the set of requests that hold a
connection of the pool, `lock` the one whose open transaction has written the
default backend's row, `health` the recorded status of that backend. A session
takes a connection at its first statement and returns it when the transaction
ends; statements that wait for nothing but the database are one step with the
end of their transaction.

| Action | Code |
| --- | --- |
| `Arrive`, `Authenticate` | the key or token, checked in a transaction of its own |
| `Read` | the quota counts of a create, the row of the others; the transaction stays open, or the request is refused |
| `BackendAnswers`, `BackendFails` | the answer, or none (60 s, a proxied call has no limit) |
| `UpsertBackend` | `ensure_default_backend`: before a create's insert, before a health check, in the listing of backends |
| `Filter`, `Record`, `Audit` | the owned ids; the row with its commit; the event, in the open transaction or a new one |
| `Connect`, `BackendHealthy`, `HealthCheckFails`, `UpdateHealth`, `Counts` | the platform status: one backend after the other, each with a commit |
| `CheckIsLost` | the handler dies, or the database fails, between the answer to a health check and its commit: the outcome is rolled back |
| `PoolTimeout` | the pool gives up after 30 s: an error, or an event that is dropped |

The requests of the management API on credentials, quotas and users wait for
nothing but the database: each of their transactions behaves as `Authenticate`.

### ControlPlane

Credentials and Sandboxes composed. A native request is one coroutine: `Verify`
turns a key into a subject, `Start` begins the handler for that subject, and
`Handle` is any of its steps, the last of which answers the request. The key is
not looked at again, while `ManagementStep` rotates, disables and revokes
credentials and changes identities around it. `Sb` and `Cr` are the two modules.
That the composition is a behaviour of Sandboxes (`ImplementsSandboxes`) is
checked: a handler's caller has to be a subject, which it is because verified
keys are. That it is one of Credentials follows from the form of its actions; it
is a lemma, used to cite that module's theorems, and no property of a run.

### Proofs and instances

`SandboxesProofs`, `QuotasProofs`, `CredentialsProofs`, `ControlPlaneProofs`,
`ResourcesProofs`, `ListingProofs`, `PrincipalsProofs` and `ProxyingProofs` hold
the theorems about the module they are named after, and `SandboxesProofs` and
`CredentialsProofs` also that Registry and Keyring are implemented; see section 5.
`MCSandboxes`, `MCQuotas`, `MCCredentials`, `MCControlPlane`, `MCResources` and
`MCEdges` only give values to constants; `MCEdges` has Listing, Principals and
Proxying side by side, and a behaviour of it is of one of them. Operators named `X_Something` next to `X` are mutated forms of `X`
that no specification uses: replacing `X` by them must violate the property the
manifest names, which shows that the property can fail.

## 3. The runs

The runs finish within about two minutes with two workers, `credentials_keys`
within three. Symmetry is used over interchangeable model values, never in a run
with a liveness property.

### Properties that hold

| Run | Checks | Bounds and why they are enough |
| --- | --- | --- |
| `sandboxes_quota` | `TypeOK`; `QuotaOvershootBounded`: active rows, revived ones aside, stay below limit + requests | 1 user, 2 requests that create, delete and patch, 3 ids, limit 1: three creates can be admitted one after another around deleted rows, and a patch can bring each of those back, in a body with a state or without one |
| `sandboxes_ownership` | `Isolation`; `EndedRowsNeverRun` | 2 users, 2 requests that create, delete and stray, 2 ids, one late call, sandboxes that stop some time after their delete: each user has a sandbox, and stray calls and late deletes land on either |
| `sandboxes_audit` | `AuditTruth`; `CallersHoldTheirRows`; `RowsArePermanent`; `ImplementsRegistry` | 2 users, 3 requests that create and delete, one late call, events kept; 1 id that may be given again and again (a row and its events concern one id): a create is answered with an id whose first row is there, while another deletes it and a third is about to write its event |
| `sandboxes_oneatatime` | `RequestsFinish` | 1 request, all ten operations, a backend that starts, expires, fails, stops, vanishes, one abandoned call: every branch of every handler but the conflict of an id given twice, which `sandboxes_audit` has |
| `quotas_create` | `TypeOK`; `RateOvershootBounded`; `UsageAgreesWithEnforcement`; `LifetimesWithinQuota` | 2 creates, 3 rows, times 0 to 2 with a window of 1; timeouts absent, zero, and 2, which the seeded rule allows and the others do not; rules that lower the timeout and the rate, lift a limit, and inherit: a rule can change between any two reads of a create, and the window can pass over a row |
| `credentials_keys` | `KeysSpeakForTheirHolder`; `AuditNamesTheOwner`; `DeadKeysStayDead`; `ImplementsKeyring` | 2 users who are also administrators and are dismissed, 2 requests, all operations, three keys generated on one credential |
| `credentials_issue` | `TypeOK`; `OvershootBounded` | 2 requests, 3 credentials, limit 1, a user who loses the role and gets it back |
| `controlplane_calls` | `KeysReachOwnSandboxes`; `ImplementsSandboxes` | 2 users, 2 requests, a sandbox each may try to reach by create and delete, two credentials and keys, rotations: a key can be rotated at every point of a call made with it, and both users' keys be in use at once. Stray calls are in `sandboxes_ownership`, and in the theorem about this property |
| `controlplane_deadkeys` | `DeadKeysFadeOut` | 1 user, 2 requests that create, proxy, issue and rotate, expiry, one abandoned call: a key can die before, during and after the call that uses it |
| `resources_waiting` | `TypeOK`; `NobodyHoldsAndWaits`; `AnswersFindAConnection`; `HealthIsLatest`; `CreatesAreRecorded`; `RequestsFinish` | 3 requests of all six kinds, a pool of 2, 2 backends: the pool runs dry while one waits for the row lock and a third checks a backend; two health checks overlap, and the outcome of one may be lost |
| `edges_documents` | `OwnersSeeTheirOwn`; `RolesAreWhatIsSaid`; `NobodyIsLetInByDefault`; `OurKeyOnly`; `StayersLeaveNothingOpen` | lists of up to three items, with repeated, foreign and missing ids, under every combination of the three keys; three of the ten role keys (one of each group, since all are read alike) with six values each; seven header names, of every class, in every combination, in requests and answers that can be written out and in ones that cannot |

The bounds named in the modules are `MaxLate`, `KeptOps` (Sandboxes), `MaxTime`,
`MaxRows` (Quotas) and `MaxSecret` (Credentials). Runs of Quotas, Credentials
and ControlPlane switch the deadlock check off because the clock, the rows and
the keys run out; the run of the edges because a token is verified once.
`sandboxes_quota` has no late calls: an abandoned create writes no row.

### Promises of the documents that the code does not keep

`PROJECT.json` quotes the lines. The run `sandboxes_expired` finds a
counterexample that needs fairness: a vanished sandbox counts for good, although
its owner keeps deleting it. Seven more have an instance that ends with a
counterexample within seconds, and is kept outside the list of runs:

| `tlc -config ...` | What happens |
| --- | --- |
| `MCSandboxes_undelete.cfg MCSandboxes` | `DeletedIsFinal`: an answer recorded after a delete revives the row |
| `MCSandboxes_stray.cfg MCSandboxes` | `CallsStayOnOwnSandboxes`: a proxied path with dot segments leads to a sandbox of somebody else |
| `MCSandboxes_stopping.cfg MCSandboxes` | `EndedRowsAreDead`: the row is final when the backend accepts the delete, and the sandbox still stopping |
| `MCSandboxes_revived.cfg MCSandboxes` | `QuotaRespected`: with one request at a time, a patch of a deleted row makes it count again |
| `MCSandboxes_orphan.cfg MCSandboxes` | `LiveIsIndexed`: the backend made a sandbox that no row knows |
| `MCCredentials_rotate.cfg MCCredentials` | `LimitRespected`: a rotation lifts a user above the limit |
| `MCCredentials_refused.cfg MCCredentials` | `RefusedUsersStayOut`: a user told "not active" is let in by his key |

Other disagreements show in the code, or in a bound that holds, and have no
instance of their own:

- a list under `data`, a second list beside the first, a bare array, and a list
  under another content type are passed on unfiltered (`docs/技术方案.md:86`):
  `OwnersSeeTheirOwn` is about the `Documented` answers;
- `X-Forwarded-User` and the internal headers of `docs/技术方案.md:1244` go
  through to the backend: `FilterRequestHeaders` has the names the code drops;
- two creates pass the same count, so the limits of `docs/技术方案.md:1165` and
  `:1176` are exceeded; `QuotaOvershootBounded` and `RateOvershootBounded` say by
  how much, at most;
- an audit event that cannot be written is dropped (`docs/技术方案.md:1208`);
  `RecordAudit` may always write nothing, and `AuditTruth` says that what is
  written is true;
- a renewal looks at no quota (`docs/技术方案.md:92`): `LifetimesWithinQuota` is
  about creates only;
- the two rules a create is held to are read one after the other, so each was in
  force during the check, but not always both at once; `LifetimesWithinQuota`
  claims no more;
- nothing reads `allowed_image_patterns`
  (`docs/MVP API契约与数据库DDL.md:512`);
- an administrator's disable leaves no event
  (`docs/MVP API契约与数据库DDL.md:750`, `docs/技术方案.md:680`): `AdminDisable`.

## 4. Fairness

`FairSpec` asks four things for each request: a handler whose answer has arrived
records it, a pending event is written or dropped, a call ends (with an answer
or without one), and an abandoned call lands or is dropped. The first two are
the event loop: a ready coroutine is resumed, and a failing database makes it
end too. The third rests on `timeout=60.0` in `adapter/client.py`. It is a limit
on each operation of httpx (connecting, each read, each write), not on the call,
so the condition also assumes that the backend does not send an answer byte by
byte for ever. `adapter/proxy.py` has `timeout=None`, so proxied calls are
excluded and `RequestsFinish` does not claim them. Nothing makes clients call,
or the backend answer rather than fail. All of it is weak fairness: each of
these actions, once possible for a handler, stays so until the handler moves.

`FairSpec` of ControlPlane asks the same of the composed handlers, and that a
request that has verified its key starts its handler or is dropped; it is weak
fairness too.

`FairSpec` of Resources asks: who waits for the pool gets a connection or the
pool's timeout (30 s, the default of SQLAlchemy); a backend call ends (60 s
without a byte, as above), a proxied one excepted; a health check ends (3 s); the database runs a statement
that waits for nothing. The statements that may wait for the row lock get strong
fairness: PostgreSQL serves the waiters of a lock in their order.

`PersistentSpec` adds strong fairness of the owner's deletes, of the backend's
answers and of their recording. It serves one run, `sandboxes_expired`, which is
a counterexample even so: the row would be released only by a delete the backend
accepts, and it answers 404.

## 5. Proofs

Every invariant, action property and refinement that a passing run checks on a
small instance is proved for all values of the constants. The constants are
constrained by the named assumptions of the modules, which TLC evaluates in the
runs, and by what a theorem itself assumes, given in the tables.

### Sandboxes

From `ConstantsAssumption` and `BackendAssumption`:

| Theorem | Says | Assumes |
| --- | --- | --- |
| `TypeCorrect` | `Spec => []TypeOK` | |
| `CallersCorrect` | `Spec => []CallersHoldTheirRows` | |
| `AuditCorrect` | `Spec => []AuditTruth` | |
| `RowsPermanent` | `Spec => RowsArePermanent` | |
| `RegistryImplemented` | `Spec => ImplementsRegistry` | |
| `IsolationCorrect` | `Spec => []Isolation` | `~ReuseIds` |
| `EndedRowsCorrect` | `Spec => []EndedRowsNeverRun` | `~ReuseIds` |
| `OvershootCorrect` | `Spec => []QuotaOvershootBounded` | finitely many requests, at least one |

The first invariant is `IndexInv`: `TypeOK`, `CallersHoldTheirRows`,
`PendingEventsAreTrue` and `AuditTruth`. `AuditTruth` is not inductive: the
event is written a step after the row, from what the handler remembers, so the
invariant has to say that a handler about to write an event already has the row
that makes it true (`PendingEventsAreTrue`). That in turn needs the caller to
own the row when the answer is recorded, which was read before the call
(`CallersHoldTheirRows`); and all of them survive the steps of others because a
row's owner and its termination never change, which is `RowsPermanent`, proved
action by action. Lemmas `Frame` and `ForwardReq` to `AnsweredReq` say what the
helpers do to `req`, one lemma `...Keeps` per action shows that it preserves the
invariant, and `NextKeeps` puts them together.

`IndexInv` is also what the refinement needs: an event about to be written is
true, so `RecordAudit` is a `Report`; `RecordCreated` of a new row is a `Claim`;
`RecordDeleted` is an `End`; every other action leaves owners, ends and trail
alone.

`IsolationCorrect` and `EndedRowsCorrect` are about a backend that gives every id
once (`~ReuseIds`). Without that they are false: a second create can be answered
with an id whose row belongs to another user. The invariant is `BackendInv`. A
row is written a step after the backend acted, from what the answer said, so the
invariant says what an answer that is not recorded yet is worth (`AnswersHold`):
a create's names a sandbox its caller made, a delete's a sandbox that is over, a
final state in a body is the state of one that is over. Over (`Over`) means made,
and not running any more nor able to: it may be stopping still. This stays true
while others act, stray calls included, because the backend never gives a
sandbox another maker and none that is over runs again (`Ages`, from
`BackendAssumption`). `CheckedCallsReachOwnSandboxes` then follows from
`CallersHoldTheirRows`. Of stray calls `Isolation` says only that they do not
disturb the index: whom they reach is up to the caller.

The bound on the running sandboxes of a user needs more than the active rows.
`Charged(u)` has those that were never revived, `Creating(u)` the creates admitted
and not recorded. `QuotaInv` says that the two together stay below the limit and
one for each request: a create is admitted while fewer rows than the limit are
active; when its row is written the create is no longer in progress; and an
update can make a row active only by reviving it. Revived rows have no bound:
each deleted row may be one (the instance for `QuotaRespected` in section 3).

### Quotas

From `QuotaAssumption`:

| Theorem | Says | Assumes |
| --- | --- | --- |
| `TypeCorrect` | `Spec => []TypeOK` | |
| `UsageCorrect` | `Spec => []UsageAgreesWithEnforcement` | |
| `LifetimesCorrect` | `Spec => []LifetimesWithinQuota` | |
| `RateCorrect` | `Spec => []RateOvershootBounded` | finitely many rule values; finitely many requests, at least one |

The bound on the rate is in terms of the highest rate any rule sets: the rules
change within the minute it speaks of, and without finitely many values there
need be no highest. The bound on a create's timeout is in terms of the rules seen
while it was checked. The invariant is `QuotaInv`: the types; what a handler has
at hand at each stage (`Remembers`: the timeout limit it merged from two rules,
read at different times, is that of two rules it has seen, and never zero); and
that the user's rule now in force is among those seen until it is read
(`SeesUser`), because a write adds itself to what the creates in progress have
seen. `MergedLimitIs` is the lemma about the merge. `RateCounted` adds the count: for every instant `t`, the rows of a user
created in the window from `t` stay below the highest rate and one for each
request, and, until the clock has left the window, so do they together with the
creates already admitted. The lemmas `LeastNatural`, `GreatestOfFinite` and
`HighestIs` give the highest limit its meaning; they go through a bijection onto
a set of numbers, because the induction theorems of the library are out of
reach.

### Credentials

For any users, credentials, names, requests and anything Casdoor says, from
`CredentialsAssumption`:

| Theorem | Says | Assumes |
| --- | --- | --- |
| `TypeCorrect` | `Spec => []TypeOK` | |
| `KeysCorrect` | `Spec => []KeysSpeakForTheirHolder` | |
| `AuditCorrect` | `Spec => []AuditNamesTheOwner` | |
| `DeadKeysCorrect` | `Spec => DeadKeysStayDead` | |
| `KeyLimitCorrect` | `Spec => []OvershootBounded` | finitely many requests, at least one |
| `KeyringImplemented` | `Spec => ImplementsKeyring` | |

The invariant `CredInv` adds that an event about to be written names the owner:
it is written a transaction after the change. `Lasting` is what no step undoes
(a key keeps its holder, a credential its owner, a dead key is dead); lemmas
`StatusChanged` and `KeyGenerated` show it for the two ways the table of
credentials changes, and the proof of `DeadKeysStayDead` is that part of it.

`OvershootBounded` is about systems in which nobody rotates. Its invariant
`IssueInv` counts a user's live credentials and the issues that have counted and
not written yet.

The refinement needs that no two credentials have the same key
(`KeysDistinct`): only then is the end of a credential the end of one key.
`KeyWithdrawn` and `KeyShown` say what a change of the table is to the keys,
`TableStepsImplement` and `CallStepsImplement` map the actions.

### ControlPlane

For any values of all constants of both modules, from their assumptions:

| Theorem | Says | Assumes |
| --- | --- | --- |
| `SandboxesImplemented` | `Spec => ImplementsSandboxes` | |
| `KeysReachOwnCorrect` | `Spec => []KeysReachOwnSandboxes` | `~ReuseIds` |
| `LimitsInherited` | both bounds on what concurrent requests overshoot | finitely many requests, at least one |
| `TrailsInherited` | `AuditTruth` and `AuditNamesTheOwner` | |
| `PromisesInherited` | Registry and Keyring are implemented | |

`SandboxesImplemented` maps each step of the composition to a step or a stutter of
Sandboxes; it needs that a verified key's user is a subject (`KeysInv`). That the
composition is a behaviour of Credentials (lemma `CredentialsImplemented`)
needs no invariant, since its actions are written as that module's. The two let
the theorems of `SandboxesProofs` and `CredentialsProofs`
be cited for the composition (the lemmas before them say that the modules
instantiated there are the same, and `PartsAreWithinTheirAssumptions` that their
constants are as assumed). `KeysReachOwnSandboxes` speaks of calls that stay on
the sandbox they were checked for; it follows from
`KeysSpeakForTheirHolder` and `Isolation` so inherited, and from what the
composition adds: a handler works for the subject its key was verified for and
for nobody else until it answers (`Tied`, `Linked`).

### Resources

From `ResourcesAssumption` (the names of the backends are unique, the configured
one is among them), for any number of requests and backends and any pool:

| Theorem | Says |
| --- | --- |
| `TypeCorrect` | `Spec => []TypeOK`, the size of the pool included |
| `WaitingCorrect` | `Spec => []NobodyHoldsAndWaits` |
| `AnswersCorrect` | `Spec => []AnswersFindAConnection` |
| `HealthCorrect` | `Spec => []HealthIsLatest` |

The invariant is `ResourcesInv`. `ConnectionsFit` says by stage and kind who holds
a connection; it is what the waiting theorems need. `HealthIsLatest` needs that
whoever checks the first row, or has an outcome to record, still holds the lock
of the default row (`FirstCheckLocks`), so that there is only one such request,
and that its outcome is the last one seen (`FirstCheckIsLatest`). The listing and
the creates keep it because they take the same lock; `UpdateHealth` releases it
only together with the write. An outcome that is lost (`CheckIsLost`) was never
recorded, so the latest one is again the recorded one. Lemmas `EndKeeps` and `GotoKeeps` treat the steps
that leave the health checks alone; there is one lemma for each action.

### Listing, Principals, Proxying

| Theorem | Says | Assumes |
| --- | --- | --- |
| `ListsCorrect` (Listing) | `Spec => []OwnersSeeTheirOwn` | `ListingAssumption` |
| `RolesCorrect` (Principals) | `TokenSpec => []RolesAreWhatIsSaid` | `PrincipalsAssumption`: what a key holds is a sequence of entries |
| `AdmissionCorrect` (Principals) | `TokenSpec => []NobodyIsLetInByDefault` | the same |
| `HeadersCorrect` (Proxying) | `ProxySpec => []OurKeyOnly` | |
| `ClosingCorrect` (Proxying) | `ProxySpec => []StayersLeaveNothingOpen` | |

They hold for lists of any length, claims of any number of entries and words,
and any headers a connection header may name. `ListingInv` adds that the rows the
caller had when the request came in are still the caller's when they are read
(`RowsRemain`). For the roles, `FirstPlace` shows that among the places where a
role is said one comes first (places are ordered by key, entry and word), so that
each role said is kept, and kept once; `WhatIsSaid` and `WhatIsKept` say what the
list then holds. `HeadersInv` says that what was sent was made of the request as
it came; `OutboundNames` names what remains under whose value. `ClientInv` is the
state of client and answer by the stage of the request: one that is done has
closed both, or its caller left, or its headers or the answer's could not be
written out.

### Only model-checked

The liveness properties `RequestsFinish` (of Sandboxes and of Resources),
`CreatesAreRecorded` and `DeadKeysFadeOut`: liveness under fairness is out of the
prover's reach. The counterexamples of section 3 are runs by nature. That the
filters of Listing and Principals do what they do to a *sequence*, one element
after the other, is not stated: lists are functions from positions there, and
what a recursive definition computes for every input cannot be proved here.

## 6. Not modelled

- Listings of users, credentials, quotas and events, health, schemas, settings and
  request ids: they read, or keep no state of their own.
- Token signatures, hashing and SQL are taken at their word.
- The entry point: it waits for the database and calls Alembic once; what
  replicas that start together do to each other is decided in Alembic and
  PostgreSQL. The job runner only sleeps.
- The console: no state of the control plane depends on it. Its pages set what
  an answer says when the answer comes, so an older answer may overwrite a newer
  one; the documents promise nothing about that.
- The bytes of proxied bodies. WebSockets are answered 501.
- Locks of rows other than the default backend's: they are taken and released
  within one step of these models. Health checks of *other* backends that overlap
  are recorded in any order; `HealthIsLatest` does not claim them.
- Deployment files are out of scope.

## 7. Plan

Done: Sandboxes, Credentials, Quotas, Registry, Keyring, ControlPlane, Resources,
Listing, Principals, Proxying; every invariant, action property and refinement
of the passing runs proved.

To extend the model: `Quotas` composed with `Sandboxes`, so that the limit a
create is held to is the one the rules give at that time; an abstract
specification of what Resources promises to an administrator who reads the
health of a backend.
