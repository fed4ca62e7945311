# api-cli: a verification project

TLA+ models of `api-cli`, a broker that keeps API credentials on a machine and
lets people and MCP clients run approved HTTP actions with them. TLC checks the
models on small instances; TLAPS proves the results that matter most for every
instance. Paths below are relative to the repository.

## 1. Inventory

| Component | Source | State it keeps | Operations | Correct when |
|---|---|---|---|---|
| Approval tickets | `src/app/approval.rs`, `src/infra/db/metadata.rs` | `approval_tickets` rows: status, binding, deadline | prepare, approve, deny, consume, finish, expiry sweep, revocation | a ticket is claimed at most once, by whom and for what it was approved, in time; a settled one never changes |
| Action execution | `src/app/action.rs` | the claimed ticket, an armed `TicketExecutionGuard` | `prepare`, `approve`, `deny`, `run_for` | one claim sends at most one request; the outcome recorded is true; a claimed ticket settles |
| Audit log | `approval.rs`, `metadata.rs` | `audit_events` rows | `audit`, `list`, `show` | nothing is sent before its `started` row; rows agree with tickets |
| Credential sessions | `src/app/auth.rs` | `sessions` rows, `refresh_lock` | login (API key, OAuth PKCE), refresh | a session names a secret that exists; no refresh overwrites a newer login; the live refresh token is the stored one |
| Vault database | `src/infra/db/vault.rs` | encrypted secrets | insert, get, delete | no secret is lost while referenced, none left behind |
| Providers | `src/app/provider.rs` | `providers` rows | add, remove | removal revokes tickets, sessions and secrets |
| API client | `src/app/api.rs` | none | `call_with_options` | uses a current credential; tells ambiguous from definite failures |
| Local MCP server | `src/mcp/mod.rs` | none; many concurrent calls | `invoke`, tool list | a write needs a confirmation for exactly that call |
| Command line | `src/main.rs`, `src/cli` | one process per command | run, prepare, approve, login, provider, audit | as above |
| Remote MCP gateway | `src/mcp/remote.rs` | session bindings, token buckets, semaphore; rmcp's transport sessions | authenticate, verify, touch, open, bind, delete, prune | a session serves its subject only and ends for good; limits hold; no session is forgotten |
| Redis store | `src/mcp/redis_store.rs` | keys with expiry, active set | Lua scripts | the same across several gateways |
| Vault key | `src/infra/crypto.rs` | key file, keyring entry, marker, lock | load or create | a vault with secrets never gets another key |
| Migration, pools | `src/infra/db/*` | schema version | open, migrate | concurrent openers migrate once |
| Action registry | `action.rs`, `src/domain` | definitions in memory | load, validate, build request, mask | the registry is whole or refused; a request says what was approved; masked fields never leave |
| OpenAPI import | `src/app/openapi.rs` | draft files | validate, import | drafts are disabled and closed; an import writes all of its files or none, and no one else's |
| TypeScript library | `server/src` | none per request | proxy, client | limits and timeouts hold |
| Configuration | `src/infra/config.rs` | directories | resolve | pure I/O |

**How they interact.** A CLI command is a process that opens `metadata.db` and
`vault.db`; the MCP server is one process whose tool calls are concurrent tasks.
They share nothing but the two SQLite files, except that the tasks of one process
share `refresh_lock`. No transaction spans the two files, and every method of
`MetadataDb` and `VaultDb` is one transaction or one statement. So whatever takes
more than one of them can be interleaved with anything, and can stop in the middle.

The gateway stands in front of rmcp's HTTP transport, which opens, restores and
deletes sessions by itself; bindings in memory, keys in Redis and sessions of the
transport are changed one await after the other. The Action directory is shared by
importers, the operator's editor and every process that starts.

**Hard behaviours.** Two invocations claiming one ticket; deadlines read before a
lock is awaited; answers lost after the upstream has acted; futures dropped at an
await; database errors in the middle of error handling; processes killed between
claim and outcome; two databases updated one after the other; refreshes racing
with logins, removals and each other in and across processes; rotating refresh
tokens; capacity checks with awaits between them and the insertion; Redis keys and
scores that expire by different clocks; processes that migrate one database and mint
one vault key at the same time, killed half way; files read while they are written;
a timer that races a reply. `PROJECT.json` lists each at its line under `hazards`.

## 2. Plan

| Stage | Modules | Content |
|---|---|---|
| 1 (done) | `ApprovalTicket`, `ActionExecution`, `CredentialStore`, `ActionExecutionProofs`, `ActionLedgerProofs` | the approval-gated execution, its abstract ticket, the two-database credential store; the execution's safety and refinement proved |
| 2 (done) | `RemoteGateway`, `RateLimit`, `Startup` | gateway admission with local and Redis bindings that expire; token buckets that are forgotten; migration and key creation with crashes |
| 3 (done) | `ProxyRequest`, `ActionFiles`, `ActionRequest`, `ResponseMask`, `MCParts` | timeout and limits of the TypeScript proxy; imports beside loads; requests built from validated definitions; masking against a reference |
| 4 (done) | `CredentialStoreProofs`, `RemoteGatewayProofs` | the credential invariants with and without faults, every property of the gateway |
| 5 (done) | `StartupProofs`, `RateLimitProofs`, `ProxyProofs` | the vault key and the schemas, the honest wait, the proxy's limits and answers |
| 6 (done) | `RateLimitProofs`, `DefinitionProofs` | the rate limit's budget; imports and loads of the directory of Action files; the arguments of a request; its masks |
| open | | `$ref` resolution and the choice of an output schema, JWT verification, configuration (section 6) |

`ActionExecution` composes tickets, audit log, provider rows and the front doors,
because the properties are about all of them at once; the credential store is a
module of its own, since an execution sees of it only whether a session exists.
`RemoteGateway` composes the middleware, the transport's session manager and Redis.
The other modules are parts that share no state with these or with each other;
`MCParts` puts them side by side and checks one at a time, under one run.

## 3. Modules

### ApprovalTicket

What a ticket promises, with no clock, process, database or network: offered,
granted, claimed at most once, and ended with `succeeded` only after the upstream
has changed, with `failed` only if it has not and never will, otherwise `unknown`.
`phase` is the `status` column; `effect` is what the upstream has done.

### ActionExecution

| Model | Code |
|---|---|
| `status`, `grant` | a row of `approval_tickets`; `grant` is the binding: client, request, deadline |
| a *request* | an Action (name, version, definition) with its arguments; two different hashes are two different requests. Principal, tenant and policy version are the same for all local callers |
| `stage` | how far `run_for` has got; `call` its arguments; `result` the outcome being recorded |
| `wire` | the HTTP request as the upstream sees it: `inflight`, `applied` or `rejected` |
| `audit` | rows of `audit_events`, by invocation |
| `registered`, `loggedIn` | the rows of `providers` and `sessions` that matter here |
| `generation` | a ghost: which registration of a provider id this is |

| Action | Code |
|---|---|
| `RunFor`, `CliApprove` | `action run`, `prepare`, `approve` (`main.rs`), and MCP calls without `requestState` |
| `McpConfirm`, `McpDecline` | the two branches of `invoke` with `requestState`: approve then run, or deny |
| `CheckSession`, `CheckProvider`, `Refuse` | the two reads of `is_available`; every error return before the claim |
| `Prepare`, `Claim` | `create_approval_ticket`; `consume_ticket` with its expiry sweep |
| `AuditStart(Fails)` | the `started` row; if it fails the guard finishes with `failed` |
| `ResolveProvider`, `ResolveSession`, `FailBeforeSend`, `Send` | `call_with_options` up to `send()` |
| `ReceiveSuccess`, `ReceiveError`, `LoseAnswer` | a 2xx answer, an error status, and everything ambiguous |
| `Finish(Fails)`, `DropGuard(Fails)` | `TicketExecutionGuard::finish`, and its `Drop` |
| `AuditEnd(Fails)` | the terminal row |
| `Cancel`, `Crash` | a future dropped at an await of the MCP server; a killed process with all its calls |
| `RemoveProvider`, `AddProvider`, `Login` | other commands that touch the same rows |

`ClockReads` is the set of times a transaction may compare with: `approve_ticket`
and `consume_ticket` read the clock before their first statement, which may wait
for SQLite's write lock (`busy_timeout`), so the time may be `LockWait` old.

Abstractions. `ActionApp::prepare` and `run_for` without a ticket differ only in
what they return, so both are `RunFor` ... `Prepare`. Database errors before the
claim end in the same `Refuse` as any other refusal. Any HTTP error status, even a
504 of a gateway, counts as the upstream having rejected the request, as in the
code. The wall clock does not run backwards. A login is one step here.

### CredentialStore

| Model | Code |
|---|---|
| `registered`, `sessions` | rows of `metadata.db` |
| `vault` | secret ids in `vault.db`; `used` the ids ever drawn |
| `token`, `spent` | the refresh token in a secret; the processes that have used it up at a rotating endpoint |
| `lineage` | a ghost: the login a secret descends from |
| `lock` | `refresh_lock` of each process |
| `stage`, `snap`, `fresh`, `doomed` | a worker's place, the row it read, the secret it stored, the secrets it still has to delete |

Each action is one statement or transaction of one database, one lock operation
or one exchange with the token endpoint: login (`LoginBegin` ... `LoginCommit`),
cleanup (`Sweep`, `SweepDone`), removal, the lookup of a call (`CallBegin`,
`Fetch`, `Reread`), and a refresh (`AcquireRefresh`, `ReadRefreshToken`,
`StoreRefreshed`, `Swap`, `ReleaseRefresh`). `Fault` bounds the injected faults:
database errors, lost answers, dropped tasks and killed processes. The provider
row and the session row a call reads are read in one step, since provider rows
have no content here. The token endpoint is external: it grants a live refresh
token, replaces it if it rotates, and refuses a spent one.

### RemoteGateway

| Model | Code |
|---|---|
| `redis`, `up` | whether `--redis-url` was given, and the gateways deployed: one without it |
| `req` | a request's handler in `authenticate_request`: `stage`, gateway, subject, session, and what its pruning found |
| `bound` | `session_bindings`: subject and `last_seen` |
| `transport` | the sessions in rmcp's `LocalSessionManager` |
| `binding`, `stored`, `active` | the keys `binding:<s>` and `session:<s>` with their expiry, and the scores of the sorted set `sessions:active` |
| `owner`, `ended`, `revived`, `abandoned` | ghosts: who opened a session, which were deleted with success, which came back into the active set after a sweep, which a gateway lost track of and through which fault |

| Action | Code |
|---|---|
| `Admit` | the semaphore's `try_acquire`, authentication and rate limit; a request refused here changes nothing |
| `VerifyLocal`, `VerifyShared`, `TouchLocal` | `verify_session_binding`, its script, and the local touch after it |
| `Prune`, `CloseExpired` | the bindings' expiry under their lock, the sessions closed after it, one await each |
| `CheckCapacity`, `Recheck` | `session_capacity_reached` before the transport runs and before the session is bound |
| `Serve`, `OpenSession`, `EndSession`, `TransportFails` | `next.run`: a call, which may restore the session; `initialize`; `DELETE`; errors |
| `BindLocal`, `BindShared` | `bind_session` with the count under the lock, and the script that refuses at capacity |
| `RemoveBinding` | `remove_session_binding` after a `DELETE` |
| `VerifyFails`, `CheckFails`, `BindFails`, `RemoveFails` | Redis errors; the command may have run, only its answer lost |
| `Disconnect`, `Restart`, `Tick` | a handler dropped at an await, a gateway restarted, the clock with Redis' expiry |

Stages are the awaits: idle, verify, touch, run for a request that names a session;
check, run, recheck, bind, touchNew for one that opens it; remove after a deletion.
A gateway's lock over its bindings is never held over an await, so what happens
under it is one step, and `last_seen` is read under it.

Two clocks meet in Redis. Keys expire by Redis' own, which is `now`, in ticks. The scores
of the active set and the time a sweep compares them with come from the gateway:
`unix_time_seconds` is read before the script is awaited (`redis_store.rs:74`, `108`,
`126`), and is a whole number of seconds. `ClockReads` is the set of the seconds a script
may come with: those of a clock that is at most `MaxLag` ticks behind `now` when the
script runs - the gateway's clock is slow, or the script was late - or at most `MaxLead`
ahead. Nothing in the code bounds either, so they are parameters, and the properties say
what depends on them. That a binding outlives its score is therefore part of the model.
Redis' clock does not run backwards, and no gateway's is before the epoch.

### RateLimit

`bucket` is a subject's `TokenBucket`, `inRedis` whether it is the map's or the
script's. The map is locked and a script runs alone, so counting a request is one step
(`Consume`, `TurnAway`); the two differ in when an idle bucket is forgotten. The time a
request counts with is another matter: `Instant::now()` is read before
`rate_limits.lock().await` (`remote.rs:515`), so a request that waited brings an older
time than the one before it, sets `last_refill` back, and lets the same time be refilled
again. `second` is the latest time a clock has shown and `ClockReads` the times a request
may count with, none of them later. A clock of Redis that was set back is treated in the
same way; a key that had expired before that may come back there.

`admitted`, `lateness` and `promised` are ghosts: since each second, how many requests of
a subject were let through, and by how many seconds the times they were counted with were
late in all; and when it was told to come back. Tokens are whole units: `Cost` per request
and `Rate` per second.

### Startup

| Model | Code |
|---|---|
| `at`, `db`, `seen`, `had`, `key`, `why` | a starting process: step, database, version read, `has_secrets` as read, its key, its error |
| `applied`, `wal`, `writer` | a database's migrations, journal mode and write lock |
| `initLock`, `marker`, `keyFile`, `entry` | `vault.lock`, `vault.keyring`, `vault.key` and the keyring's entry |
| `secrets` | the keys that stored secrets are encrypted with |

`OpenDatabases` is `migrate` of both databases: version table, journal mode with its
retries, `BEGIN IMMEDIATE`, the version read under it, the pending migrations in one
commit. `LoadKey` is `load_or_create_preferred_for_vault` with each file operation a
step. `UseVault` is what follows a start. Processes are killed anywhere; any file
operation or statement may fail with an I/O error, which ends the start (`DiskFails`);
`write_all` or `sync_all` may fail on a file that `create_new` has just made, which leaves
it short or whole (`FileWriteFails`); and the user may lose the key file, the marker or
the keyring entry. `exists()` is taken to say whether the file exists: that it answers
no for one it cannot look at is left out.

### ProxyRequest

One request through `proxy.ts` and `client.ts`; `phase` is the await it is at, `body`
and `got` the units in memory, `timer` the `AbortController`'s, `answer` code and status,
and whether the error was the application's `own`.
Each test of text (paths, identifiers, headers, URLs) may go either way, so every
early return is taken; limits, timer, policy and error codes are exact. A server
is created with each policy that `validateProxyConfig` accepts. What the application
supplies may throw: `contextResolver`, the body's stream, `allowTargetPath`, the provider
resolver, `toJSON` of a body, a `fetch` of its own. An `ApiCliError` keeps its code and
status wherever it is thrown (`PassOn`); anything else becomes the code of the place, and
whatever the auth adapter throws is a bad request.

### ActionFiles

`dir` is the directory; `stage`, `plan`, `todo`, `output` a process's place in
`import_document`, `actions` the registry a `load` is building. An import parses, checks
every target, serializes, then creates and writes file by file, and undoes on a
failure (`UndoTarget`, `UndoCreated`); a load lists and reads file by file; the operator
saves and deletes files at any time; processes are killed and file operations fail.

### ActionRequest

`action` is a definition, written by hand (`Write`, `ReadDefinition`) or drafted from an
OpenAPI operation (`Import`), validated by `Valid`, reviewed (`Enable`) and run with
arguments its schema admits (`Run`). `given` and `built` are the arguments and where
each of them went.

### ResponseMask

`masks` are sorted by `GoesFirst` into `pending`, and `ApplyMask` removes them one by one
from `remaining`. An answer is the set of the positions of its nodes, and `remaining`
says of every node that is left where it is by now. The reference reads all pointers in
the answer as it was: `Hit` is what they denote there, `Kept` what is neither that nor
below it, and `MovedTo` where a kept node belongs, each index less the elements before
it that are gone.

## 4. Runs

| Run | Instance | Shows |
|---|---|---|
| `exec_safety` | 3 invocations, 1 ticket, 2 requests, 2 database errors, cancel, crash, a provider registered twice | the seven safety properties below, and that the executions implement `ApprovalTicket` |
| `exec_liveness` | 3 invocations, 1 ticket, 2 database errors, cancel, clock 0..2, `LockWait` 1 | every claimed ticket settles; deadlines with stale clock reads |
| `exec_crash` | as above with crashes | finding: an executing ticket of a killed process stays so |
| `exec_cancel_audit` | cancel only | finding: a cancelled call leaves no terminal audit row |
| `exec_removal` | removal and registration | finding: a ticket prepared during a removal is not revoked |
| `cred_faults` | a CLI process and an MCP task on one account, 3 secrets, rotating or not, 1 fault | the credential invariants under every single fault |
| `cred_quiet` | a CLI process and two MCP tasks, no faults | no leftovers, no replayed refresh token |
| `cred_removal` | two CLI processes | finding: a login outlives the removal of its provider |
| `gateway` | 2 gateways, 3 requests of which 2 at once, 2 sessions, 2 subjects, `MaxSessions` 1, `MaxConcurrency` 2, a TTL of 3 s at 1 tick a second, 5 instants, clocks up to a second behind, 1 fault | subjects, both capacities, no leak, deleted sessions stay deleted; in memory and in Redis |
| `gateway_limit` | as above with one subject, a TTL of 2 s at 2 ticks a second, 7 instants, exact clocks, no fault | finding: a touch makes the active set larger than its limit |
| `parts` | the six parts below, one at a time | their properties, two of them liveness |
| `import_race` | two imports, no fault, no edit | finding: an import deletes another's file |

| Part | Instance |
|---|---|
| rate | 2 subjects, cost 3, rate 2, burst 2, TTL 2 s, room for 1 subject, 5 seconds, requests late by 1 second in all |
| startup | 3 processes, one of an older program, 2 migrations, 1 killed or stopped by an I/O error, 1 loss |
| proxy | sizes up to 3, limits 2, 2 and 1; every policy, method and surface |
| files | 2 importers, or one and a loader; 2 operations, 2 names, 1 edit, 1 fault |
| request | an argument and the one called `body`, every schema and location |
| mask | up to 3 of 9 pointers over two documents with 12 rows, one index spelled in two ways |

**Properties of the execution.** `AtMostOneSend`: one ticket, one request on the
wire. `SentUnderApproval`: it is the one that was approved. `OutcomeIsTruthful`:
`succeeded` and `failed` are never wrong, whatever was lost. `AuditMatchesTicket`:
the log and the table agree. `ExecutingIsAccountedFor`: a ticket stays executing
only with a live holder, a killed one, or one whose last write failed.
`SettledIsFinal` and `ClaimBeforeDeadline` are about steps. `ImplementsTicket` is
the refinement. `ExecutingSettles` is the liveness property.

**Properties of the credentials.** `NoDanglingSession`, `OneSessionPerAccount`,
`SessionKeepsItsLogin`, `MissingOnlyWhenSuperseded`, `NoOrphanSecret`,
`StoredTokenIsLive`, `NoReplayInProcess`, each described where it is defined.

**Properties of the gateway.** `SessionKeepsItsSubject`: a binding is of the subject
that opened the session, wherever it is kept. `LocalCapacity`, `SharedCapacity`: no
interleaving of checks and insertions binds more than `MaxSessions`. `NoLeakedSession`:
a session in a transport is bound there, in a handler's hands, or was lost to a
fault that is named. `EndedStaysEnded`: after a successful `DELETE` no request for
the session passes its verification any more.

`SharedCapacity` says two things. The active set, apart from the `revived` sessions,
stays within `MaxSessions`, whatever clocks the scripts bring. And a session that can be
used without being in the set expires within a second, plus `MaxLag` and `MaxLead`: a
score is rounded down to a second, one set by a late script or a slow clock is too low,
and a sweep by a fast one comes too early. With clocks a minute apart this is a minute; a
gateway ahead by a whole TTL sweeps every session of the others. The code has no measure
against it.

The exception is real. `verify_and_touch_binding` (`redis_store.rs:64`) adds a session to
the active set without counting. If a sweep has dropped the session and another one
taken its place, a request that touches the first makes the set larger than
`--max-sessions`. `README.md:244` and `docs/operations.md:28` state the limit without this
exception: `ActiveWithinLimit` is what they say, and `gateway_limit` shows it violated
with exact clocks and no fault, in the last second of a key. The proof of
`SharedCapacity` shows that it is the only way: every member beyond the limit is such a
session.

**Properties of the parts.** `RateHolds` bounds what any stretch of time admits: a burst,
what the rate brings, and one more burst for every TTL; the stretch counts as longer by the
seconds its requests were late together. A request that waited d seconds for the lock of
the buckets lets its subject's stretch be refilled for d seconds more; nothing in the code
bounds that wait, but the lock is never held over an await. `RetryAfterIsHonest`: who
waits as told is not limited, late requests or not. `SchemaInOrder`: every migration
once and in order. `OneVaultKey`: the running processes and the secrets share one key
and the next start will find it. `RefusalsAreExplained`: no start is refused
because of a race alone: a half-written file is that of a process that was killed or of
one whose own start an I/O error ended. `StartupEnds`. `BuffersAreBounded`: no body larger than its limit is
kept or sent. `AnswerIsTruthful`: the code of an error that the library
raises tells whether the upstream may have seen the request. It does not tell this of an
error that the application throws: a `contextResolver` may throw `FETCH_ERROR` before
anything is sent (`proxy.test.ts:635-655`), a `fetch` of its own `BAD_REQUEST` after. Of
those the property says only that they never pass for a success. `CallSettles`. `ImportIsAllOrNothing`, `LoadIsComplete`: an import and a
load beside everything else. `ArgumentsAreSentOnce`: what validation promises is what
building a request needs. `MaskRemovesExactly`: the removals agree with the reference.

**Bounds.** Three invocations are enough for one that prepares, one that holds the
claim and one that competes with it; a fourth only repeats a role. Two requests
are needed for a wrong one. Two database errors are what it takes to lose both
writes of a guard. Clock 0..2 with a lifetime of 1 reaches before, at and after a
deadline, with a read that is one tick old. Two workers and three secrets cover a
session, its successor and a competing one; three workers put two of them under
one lock. Invocations, tickets, ids and MCP tasks are interchangeable, so safety
runs use symmetry; liveness runs do not.
With one ticket `exec_safety` has no sweep that hits another one; the theorem `Refines`
is about any number of tickets.

Two gateways are one that opens or deletes a session and one that only restores it;
`MaxSessions` 1 with 2 sessions makes every capacity check matter; three requests, two
of them at once, are an opening, and two that race to use, delete or open. A clock a
second behind puts the score and the expiry of a key apart in `gateway`; the rounding of
a score to a second does in `gateway_limit`, with ticks of half a second. The proofs hold
for all values of these constants. For the parts: at rate 2 and cost 3 a bucket refills
more slowly than it is forgotten, and the room for one subject is contended; of three
starting processes one may be killed or meet an error while two compete; the limits of
the proxy's two kinds of reply differ, and each limit can be met exactly and exceeded;
two operations are one written before the one that fails. Names 1, 10, 2 and 1x are
those whose order as text and as indexes differ.
`CHECK_DEADLOCK FALSE` is set because invocations, ids and processes are finite and a
request ends: when they are used up the modelled system rests.

**Fairness.** `exec_liveness` assumes weak fairness of `Proceed(r)`: what a live
process does next. tokio polls every runnable task and every wait has a timeout
(`reqwest` for the request, `busy_timeout` for SQLite), so an invocation never
rests in the middle. Nothing is assumed of the upstream, the user, other commands
or faults.

`StartupFairness` is weak fairness of each process' next step: the system schedules it,
and frees SQLite's and the file's lock when a holder dies, in the step that kills it.
`ProxyFairness` is weak fairness of the timer and of the rejection it causes, which
is the event loop; that the upstream ever answers, or stops, is not assumed.

**Findings.** The six violation runs and `findings` in `PROJECT.json` quote what is
claimed and what the code does. Four more things are worth knowing. The guard's
`Drop` ignores the error of its write, so a cancelled call and one database error
leave a ticket executing (`stranded` in the model). Sweeps of the active
set trust the clocks of the gateways, and refills of the rate limit a time read before a
lock, as said above. An `ApiCliError` of the application's own is answered as if it were
the library's. And the masks' comparison is no order when indexes and
names that begin with a digit meet under one parent, and one spelling of an index is not
known to be beside another (section 6).

**Hazards without a property.** Three of the list are accepted by the code, and no
document promises otherwise: the one live refresh token is lost when a process dies
between the endpoint's answer and the swap (`auth.rs:589`); `refresh_lock` does not
reach other processes (`auth.rs:498`); the loser of a refresh race fails when the
winner's session has no expiry (`api.rs:242`). The models contain all three.

## 5. Proofs

Every property that TLC checks of the passing runs is proved, liveness apart, for all
values of the constants that the modules' assumptions allow: any number of invocations,
tickets, workers, secrets, gateways, requests, sessions, processes, migrations, files,
arguments, masks, faults and ticks, any answers, and any rates and limits.

| Module | Theorem | States |
|---|---|---|
| `ActionExecutionProofs` | `Types` | `Spec => []TypeOK` |
| | `SettledStays` | `Spec => SettledIsFinal` |
| | `ApprovedSends` | `Spec => []SentUnderApproval` |
| | `OneSend` | `Spec => []AtMostOneSend` |
| | `ClaimsAreTimely` | `Spec => ClaimBeforeDeadline` |
| `ActionLedgerProofs` | `TruthfulOutcomes` | `Spec => []OutcomeIsTruthful` |
| | `ExecutingAccounted` | `Spec => []ExecutingIsAccountedFor` |
| | `AuditAgrees` | `Spec => []AuditMatchesTicket` |
| | `Refines` | `Spec => ImplementsTicket` |
| `CredentialStoreProofs` | `StoreTypes` | `Spec => []TypeOK` |
| | `SecretsAreThere` | `Spec => []NoDanglingSession` |
| | `OneSession` | `Spec => []OneSessionPerAccount` |
| | `LoginsAreKept` | `Spec => []SessionKeepsItsLogin` |
| | `MissingIsSuperseded` | `Spec => []MissingOnlyWhenSuperseded` |
| | `NothingIsLeft` | `Spec => []NoOrphanSecret` |
| | `StoredTokensLive` | `Spec => []StoredTokenIsLive`, if the endpoint always rotates |
| | `NoReplays` | `Spec => []NoReplayInProcess`, if the endpoint always rotates |
| `RemoteGatewayProofs` | `GatewayTypes` | `Spec => []TypeOK` |
| | `SubjectsStay` | `Spec => []SessionKeepsItsSubject` |
| | `GatewayCapacity` | `Spec => []LocalCapacity` |
| | `SharedSetCapacity` | `Spec => []SharedCapacity` |
| | `NoSessionLeaks` | `Spec => []NoLeakedSession` |
| | `EndedForGood` | `Spec => EndedStaysEnded` |
| `StartupProofs` | `StartupTypes` | `StartupSpec => []StartupTypeOK` |
| | `SchemasInOrder` | `StartupSpec => []SchemaInOrder` |
| | `OneKey` | `StartupSpec => []OneVaultKey` |
| | `RefusalsExplained` | `StartupSpec => []RefusalsAreExplained` |
| `RateLimitProofs` | `SubjectsBounded` | `RateSpec => []RateTypeOK` |
| | `WaitsAreHonest` | `RateSpec => RetryAfterIsHonest` |
| | `RateIsHeld` | `RateSpec => []RateHolds` |
| `ProxyProofs` | `ProxyTypes` | `ProxySpec => []ProxyTypeOK` |
| | `BuffersBounded` | `ProxySpec => []BuffersAreBounded` |
| | `AnswersTruthful` | `ProxySpec => []AnswerIsTruthful` |
| `DefinitionProofs` | `AllOrNothing` | `FilesSpec => []ImportIsAllOrNothing` |
| | `LoadedIsComplete` | `FilesSpec => []LoadIsComplete` |
| | `SentOnce` | `RequestSpec => []ArgumentsAreSentOnce` |
| | `MasksRemoveExactly` | `MaskSpec => []MaskRemovesExactly` |

**The claim.** `TypeOK` is inductive once it is known that an invocation that has
begun has its arguments and that an existing ticket has its whole row (`TypeInv`).
`SentUnderApproval` and `AtMostOneSend` are not inductive: the step that sends
looks neither at the ticket nor at the other invocations. `ClaimInv` says what the
claim left behind: a write past its claim holds a ticket that is claimed and was
approved for it, no two such writes hold the same one, reads hold none, and
nothing is on the wire before `Send`. It is preserved because no step takes a
claimed ticket back (`TicketsKept`) and because a claim needs an approved ticket,
which nobody past a claim can hold (`ClaimClaims`).

**The ledger.** What tickets, wire and audit log say of one another rests on
`LedgerInv`: while a write holds its claim its ticket is executing, and the result
it is about to record is what happened. The second half is local; the first needs
exclusiveness, since another invocation's guard could settle the ticket
(`ExecutingEnds`, `NextHolders`). Then a ticket gets its outcome from its one holder
(`OutcomeBegins`), a failed ticket has nobody left who could send (`NextOutcomes`),
and a terminal audit row is written only after the ticket has settled
(`AuditedIsSettled`).

**The refinement.** Each step moves each ticket along `Lifecycle` (`TicketsLive`) or
changes the upstream on its behalf (`EffectSteps`), never both; `TruthfulOutcomes`
gives the guards of the abstract `Succeed` and `Fail`.

**The credential store.** `NoDanglingSession` relates two databases that no
transaction spans, so the proof follows each secret: it is *fresh* in the hands of the
worker that stored it, *in force* when a session row names it, *doomed* when a worker
holds it to delete it, or gone. `HandInv` says that a fresh secret exists, is its
worker's own, and is neither doomed nor in force; `RowInv` that the secrets of the rows
exist and are not doomed, with one row per account. A step moves a secret along this
line only. Ids are drawn once (`IdsWereDrawn`), so a doomed secret never comes back.
A refresh hands its secret the login of the one it read, and swaps only the row that
still names that one (`LoginsAreKept`); and a secret that is missing cannot be in force.

Without faults more holds. Every secret of the vault is in force or held by a worker
that will put it into force or delete it (`Accounted`), so none is left when all is
quiet. Where the endpoint always rotates, a secret's refresh token is its own
(`TokensAreOwn`); a token in a row is spent only by a worker between its answer and
its swap (`SpentIsReplaced`); and that worker has the lock of its process
(`RefreshesAreLocked`), so whoever gets the lock reads a token its process has not spent
(`PresentsUnspent`). With an endpoint that rotates only sometimes `StoredTokenIsLive` is
false: two processes refresh at once, the first is given no new token and stores
the old one again, the second has just spent it.

**The gateway.** `ShapeInv` says what each stage of a handler holds and that without
Redis there is one gateway. The lemmas `HandlerSteps`, `BoundSteps`, `BindingSteps`,
`ActiveSteps`, `StoredSteps` and `OwnerSteps` say once for all actions how each part of
the state may change, and the invariants are proved from those. A binding's subject
is the session's owner because a handler carries the subject that opened its session
(`SubjectInv`). Without Redis the bindings are counted and extended under one lock, so
they grow by one only when there is room (`LocalInv`). With Redis, a session enters the
active set by a counted script, or by a touch; `CountInv` counts the members other than
those revived. `ScoreInv` bounds how long a binding outlives its score: a binding and its
score are set by one script, whose clock is at most `MaxLag` behind (`Clocks`), so the
binding ends within `MaxLag` of the end of the score's second; a sweep comes at most
`MaxLead` early, so one that leaves a binding behind leaves it less than a second,
`MaxLag` and `MaxLead` (`Slack`); later the clock only gets closer. A touch and a binding
start it anew with whatever clock they bring, even if the score goes down.
A session in a transport is *cared* for: bound, or held by a handler that will bind
or close it; what breaks this is exactly a fault recorded in `abandoned`. For
`EndedStaysEnded`, `OpeningInv` says that a session still being opened cannot be verified
and only its opener has it, and `EndedInv` that an ended one cannot be verified and
nobody is opening it: only an opener could bind it again (`PutToUse`). Where Redis
decides, a request that had passed its verification may still put back a local
binding; it is of no use, and goes with the next pruning.

**The start.** A migration is read and committed under one write lock, so the open
transaction knows how long the list is (`Schema`), and nobody who is past a database
knows more versions than it has. For the key, `Stage` says what each stage under
`vault.lock` has found or left in the two files, `Agreed` that a key in use is the one
that the file, or the keyring through the marker, names, and `Remembered` that who has
seen secrets finds one of them. They hold together as long as neither file is
lost: a key gets into use only by one of the four steps that end the initialisation,
and each finds either no other key in use or the same one. A half-written file has its
writer, or a process that was killed or ended by an I/O error (`TornHasWriter`), and whoever
reads it holds the lock, so the writer is gone.

**The rate limit.** `PromiseKept` says that by the time a subject was told its bucket
has a request's worth of tokens: the wait is rounded up (`WaitIsEnough`), the refill
grows with the clock, and a bucket forgotten meanwhile comes back full. A request that
counts with an older time only makes a refill larger.

`RateHolds` speaks of every stretch of time at once and is not inductive: what a stretch
may still admit depends on what its bucket holds. `Covers` adds that: for every start, what
was let through since plus what the bucket holds is within the allowance of its `Progress`,
the time from the start to the second the bucket was counted with, and the lateness since.
A request that sets this second back adds as much to the lateness, so `Progress` never
goes back, and a refill earns no more than the allowance grows by (`RefillCovers`); a
request takes from the bucket what it adds to the total (`ConsumeBudget`), and a second
that passes changes neither (`SecondBudget`). A bucket is forgotten only after its
subject was idle for a lifetime, and comes back full: that is the one more burst which the
allowance has for every lifetime in the stretch, so what the forgotten bucket may give is
covered again (`RetainedCovers`). The lemma on quotients and products (`AllowanceGrows`) is
what makes this hold for every rate, burst, lifetime and stretch.

**The proxy.** `CallInv` and `AnswerInv` split a request's phases in before, during and
after the upstream call; a refusal happens only before (`Refused`), its codes are not
used after (`CallFailed`), and an error of the application's own has one of the statuses
of an error (`PassedOn`).

**The Action files.** `OwnIsKnown` says that an import knows of every file it has put
there and not yet given up: it is one it has created before, the one it is about, or
one it could not remove. So an import that fails with nothing left to undo has
nothing left behind. `WrittenIsThere` cuts its document in what is written and what is
to do; a draft that was written is there unless somebody removed it, and a new one can
take no written one's place, since `create_new` asks for no file. An import disturbs
another's files only through its clean-up, which `deleted` records (`OthersSpare`,
`SparedKeeps`). For a load, `Listed` says that the rest of the listing and what was read make up
all that did not change since; the listing itself names every file, as an injection
between finite sets of one size is onto (`ListingIsComplete`). Two definitions of one name
never get in (`OneOfEach`), so the registry counts as many names as definitions
(`OneOfEachCounts`). No bound on edits, faults or the length of a document is used.

**The requests.** A definition that was accepted stays valid: enabling it touches nothing
that validation looks at (`EnableStep`), and a draft is one that validation has seen
(`ImportStep`). `ValidBuilds` then shows that for any arguments that the schema admits
every placeholder is given and is a scalar, and every other argument has one place.

**The masks.** `MaskInv` says that what is left at any time is what the reference says of
the masks applied so far. Its step has one question: does the next pointer still find
what it denoted in the answer as it was (`SameTarget`)? The longest go first, so nothing
above its depth has moved (`DeepHits`, `FrontStays`). At its depth, what is gone beside
its node was denoted by a pointer under the same parent with a higher index
(`HigherGone`), so its own node has not moved, and a node behind it has not come to its
place or before it (`PlaceAtDepth`). Nobody has removed it either, since no two pointers
denote one node (`OnePointer`, `TargetIsKept`) and one pointer denotes no two
(`OneNode`). So each removal takes one node more from what is kept, and moves up by one
just those that the reference counts it for (`OneMore`). Positions instead of nested
values make this a matter of sequences and finite sets: no induction over documents.
The hypothesis `OneSpelling` was found this way. `HigherGone` needs equal positions to be
equal pointers, and TLC shows that without it the property is false.

Only model-checked: liveness under fairness (`ExecutingSettles`, `StartupEnds`,
`CallSettles`), which is out of the prover's reach.

## 6. Not modelled

- **Text.** URL, address, header, name, size and path-segment rules, schema validation
  of values, hashing, printing and encryption are functions of one input without
  shared state. In `ProxyRequest` a test of text goes either way; in `ActionRequest` a
  definition such a rule condemns is one that is refused. An argument named `body` that
  is alone is sent unwrapped (`action.rs:1156`), which is the same place in the model.
- **OpenAPI.** Resolution of `$ref` and the choice of an output schema.
- **Gateway.** Verification of a JWT and introspection: `Admit` takes any subject. The
  HTTP server's wiring and its shutdown. A clock of Redis that is set back
  matters only to the rate limit. The reply `-2` of the script that
  binds means another subject has the id; ids are drawn once, so it cannot occur.
- **Files.** Editors replace a file as a whole. A draft is empty until its one write, so
  a half-written file is one that does not parse. Limits on the number and size of
  files end in the same failure as others.
- **Masks.** Two tokens under one parent are compared as indexes if both are numbers
  and as text otherwise, so `/2`, `/1x` and `/10` form a circle, and `/1` and `/01` are
  equal. `MaskRemovesExactly` speaks of masks without such a circle (`Ordered`); with
  one, the sort's result is unspecified, and Rust's sort may panic. It also speaks of
  masks that write each index one way (`OneSpelling`): `02` is read as 2, but the parents
  of `/2/1` and `/02/2` are compared as text, so `/2/1` may go first, and `/02/2` then
  misses its element and takes the next. The model has such masks.
- **Pools and configuration.** The r2d2 pool only delays; database errors of every
  statement are in the models. Paths and permissions are I/O.

`PROJECT.json` gives the reason for each component.
