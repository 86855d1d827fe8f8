# Verification of the SigNoz self-ingestion proxy

The program under `src/` is a Go proxy in front of a SigNoz collector. It
authenticates tenants (API keys over HTTP, client certificates over syslog/mTLS),
limits them, stamps and forwards their telemetry, counts what they used, and has
an administrator interface for tenants, keys and certificates. This directory
holds TLA+ models of its parts with state, TLC runs on small instances, and
TLAPS proofs for every size.

## 1. Inventory

| Component | State | Operations | Hard behaviour | What makes it correct |
|---|---|---|---|---|
| Usage accounting (`store/usage.go`) | channel, aggregate map, snapshot, open transaction, `usage_counters` | RecordUsage, accumulate, flush, FlushCounters, Stop, CleanupOldCounters | a flush fails at any statement and merges back; a full channel; restart; tenant deleted under it; Stop and FlushCounters racing the writer | a sample is counted once or given up for a stated reason; what Stop covers is persisted |
| Tenants and keys (`store/tenants.go`, `apikeys.go`) | tables `tenants`, `api_keys` | CreateTenant, RegenerateKey, UpdateTenant, DeleteTenant, LookupTenantByKey | several statements without a transaction, interleaved requests | keys stay with their tenant; old keys die; only live keys authenticate |
| Rate limiter (`ratelimit/`) | buckets, quota cache | AllowRPS, AllowBytes, eviction, cache refresh | checks interleave at every unlock; stale cache; midnight | rate and quota are bounded in spite of eviction and caching |
| Syslog collector pool (`syslog/pool.go`) | idle connections, health flag | Forward, getConn, returnConn, markDead, Close | writes outside the mutex, broken connections, retry | no connection is shared or leaked; a frame is answered |
| Syslog server (`syslog/server.go`, `conn.go`) | semaphore, per-tenant counts, handlers | ListenAndServe, handleConnection | caps, stale tenants, shutdown while clients are connected | exact counters, one record per frame, a shutdown that ends and is clean |
| Certificates (`web/handlers_certs.go`, `store/certs.go`, `pki/client.go`, `pki/renewal.go`) | table `certificates`, the CA's state | issue, keygen, renew, revoke, device renewal | a network call between check and write; lost answers of the CA; cancelled requests | renewals keep their tenant; revocations stick and reach both sides |
| Download links (`pki/download.go`) | map of tokens with private keys | Create, Consume, sweep, Stop | racing readers, expiry, slices shared with the map | single use, intact keys, keys leave memory |
| OTLP ingest (`ingest/`) | none of its own | ServeHTTP, stamping | composes keys, limiter, proxy and usage; an answer that breaks off; the end of the process under it | what is forwarded carries the server's identity and is counted |
| Syslog framing and stamping (`syslog/frame.go`, `rfc5424.go`) | the bytes read of a frame | ReadFrame, StampSyslogMessage | two framings in one stream, deadlines inside a frame, structured data in any shape | frames are the messages; one tenant block, the server's |
| Administrator sessions (`auth/session.go`, `loginlimiter.go`, `web/handlers_auth.go`, `middleware.go`, `store/users.go`) | table `users`, login windows, cookies | setup, login, logout, requireAuth, userCreate, userDelete | a slow hash between check and insert, users deleted under their sessions, windows that meet | sessions are earned and end; setup closes; attempts are bounded |
| Migrations (`store/migrate.go`) | `schema_migrations`, the shape of `tenants`, where keys are, the pragma | migrate, rebuild, hashing of plaintext keys | failures and crashes between statements, errors that are ignored, one connection | no tenant or key is lost; Open succeeds with a complete schema or fails |
| Process (`cmd/proxy/main.go`) | goroutines, listeners, contexts | run | listeners that start late, deadlines, early returns, order of the shutdown | the store is closed last; the shutdown ends |
| CSRF and flash cookies (`auth/csrf.go`, `web/flash.go`) | none in the server | HMACs | none | not modelled |
| Configuration, pages, bundle, JWT | none | pure functions, rendering | none | not modelled |

Interaction: request handlers call the store directly; the store has **one**
SQLite connection, so an open transaction excludes every other statement. Usage
goes through a channel to one goroutine. The syslog handlers share the pool and
the limiter. The administrator's handlers run concurrently with everything.
`hazards` in `PROJECT.json` lists, line by line, what can go wrong in a way a unit
test would hardly reach, with the properties aimed at it.

## 2. Modules

| Module | Models | Notes |
|---|---|---|
| `UsageLedger` | abstract specification: each sample has a status | what usage accounting promises |
| `UsageWriter` | `store/usage.go` | one action per step of the writer and per SQL statement of `flush` |
| `TenantKeys` | `store/tenants.go`, `apikeys.go`, the handlers that call them | one action per SQL statement |
| `RateLimiter` | `ratelimit/` | one action per critical section |
| `CollectorPool` | `syslog/pool.go` | extended by `SyslogServer`; the collector is external |
| `SyslogServer` | `syslog/server.go`, `conn.go` | composes the pool, the handlers, the loop and the administrator |
| `DownloadManager` | `pki/download.go` | extended by `Certificates` |
| `Certificates` | `web/handlers_certs.go`, `store/certs.go`, `pki/client.go`, `pki/renewal.go` | composes handlers, table, CA (external) and links |
| `Migrate` | `store/migrate.go`, `Open` of `store.go` | one action per SQL statement |
| `Ingest` | `ingest/` | extends `Migrate` for the table of keys; instantiates `UsageLedger` for what usage accounting promises |
| `Process` | `cmd/proxy/main.go`, the listener of `pki/renewal.go` | composes `Migrate`, `Ingest` and the parts that run() starts |
| `AdminAuth` | `auth/session.go`, `loginlimiter.go`, `web/handlers_auth.go`, `middleware.go`, `store/users.go` | one action per statement and per critical section |
| `SyslogFrames` | `syslog/frame.go`, `rfc5424.go` | the stream below the frames of `SyslogServer` |
| `MC*` | | instances for TLC |
| `*Proofs` | | TLAPS proofs about the module of that name |

`PROJECT.json` maps each definition to its lines. Definitions introduced with the
comment `Fault:` are plausible bugs; they are not used by any specification. Each
replaces the definition after it in a mutant, and TLC must then find the property
violated.

**UsageWriter.** An aggregate is modelled by how often each sample is in it
(`[Sample -> Nat]`), so loss and double counting are visible in all three sums at
once. `wpc` is the program counter of the writer; `tx` is what the open
transaction has added, `db` what is committed. `TxOpen` keeps every other
statement out, as the single connection does. `Restart` drops memory and the open
transaction.

**TenantKeys.** `pc[r]` is the statement a request has reached; `RequestFails`
stops it there and keeps what the statements before did. A credential is a pair of
a tenant id and a secret, and `HashKey` covers both, as the hash of the whole key
text does. `inc`, `kinc` and `rinc` are history: which bearer of an id something
was made for.

**RateLimiter.** `chk[h]` is what a check has read so far. `rate.Limiter` is
external: a bucket that refills by its rate each tick up to its burst. `most` is
history: the highest rate or burst among the limits the tenant has had, which is
what a bucket that keeps old limits can be held to.

**CollectorPool, SyslogServer.** `pool` is the slice of idle connections as a set,
`sock[c]` what handler `c` holds. A write may fail only on a broken connection; a
write that succeeds is not a delivery. A write (`Writing`) has no deadline in the
code and no fairness in `Spec`: the collector may hold it up for ever. `cpc[c]` is
the step of the handler. The administrator changes a tenant's `standing` at any
time.

**DownloadManager, Certificates.** A token stands for the certificate whose bundle
it holds. `keyPEM[c]` is the content of the slice that map and handler share:
`zero` changes it in place. A call to the CA has three outcomes: done, not done,
and done with the answer lost. A restart may change whether the CA is enabled. The
table may hold certificates from before.

**Migrate, Ingest, Process.** A key is named by its tenant, and `db` says where it
is: in plaintext in `tenants`, hashed in `api_keys`, or both while it is moved.
`tx` is the view of the rebuild's transaction, `fk` the pragma of the only
connection; `Disconnect` loses both. `ignored` remembers the errors that the code
does not look at, so that `Adopted` can except them by name. A request of `Ingest`
reads the same table, and its usage sample goes through the actions of
`UsageLedger` (`Usage!Accept`, `Usage!Post`, ...), which `UsageWriter` is shown and
proved to implement: the composition uses the promise and not the writer. A
payload is a sequence of resources with attributes and log bodies. In `Process`,
`launched` is the wait group, `listening` the open listeners, and `busy` the parts
that have a handler at work. `CloseStore` is the writer's last flush, which posts
what is pending or fails (`unsaved`), and the close of the database. `Die` ends all
of it, and the next `Boot` finds the database as it was left.

**AdminAuth.** A session is its signed payload: id, holder, whether it is old.
Whoever chose a user's password is its `owner`. `met`, `late` and `blind` are
history: what was true when a request began; `tries[n][a]` counts the logins let
through for a name that are at most `a` ticks old, and `restarts[a]` the restarts.
`Restart` empties the throttle's windows, which are in memory, and keeps both
histories: what was tried was tried. Of the two keys of the throttle
only the username's is kept (see Divergences).

**SyslogFrames.** A stream is a sequence of tokens, each a byte or a piece of text
that the code looks at as a whole. `client.msgs` is what a client means to send and
`Encoded` its bytes; `msg` and `pos` say how far the connection is read, `mode`,
`part` and `need` where `ReadFrame` is. `from` is history: which part of which
message each frame is, and whether a deadline or the end of the stream cut it;
`torn` remembers that the rest of a cut line began with a digit and was taken for a
length, after which frames follow the digit and not the client. The reference for
stamping is the relation in `StampedOnce`, which does not use the parser.

## 3. Runs

Passing runs (all within the bounds named in the `.cfg`):

| Run | Bounds | Shows |
|---|---|---|
| `usage_safety` | 3 samples, 2 tenants, channel of 2, 3 hours, 1 database error, 1 restart, deletes | exactly-once, rows leave for a reason, the ledger is implemented |
| `usage_calls` | 3 samples, channel of 2, 1 FlushCounters, Stop, 1 database error | Stop and acknowledged flushes persist; Stop ends, FlushCounters returns (unless the writer exits under it, see Divergences); pending samples are persisted in the end |
| `tenant_keys` | 2 tenants, 1 migrated and 3 new keys, 3 requests, 1 client | the key properties |
| `limiter` | 2 handlers, 1 tenant with a rate or a quota, 3 ticks, eviction after an idle tick, cache life of a tick, 1 failing query, limits that are lowered, midnight | one burst plus the rate of the highest limit, never two bursts; the overrun of the quota lasts a cache life at most |
| `syslog` | 3 clients, 2 tenants, pool of 1, caps 2 and 1, a collector that comes and goes | ownership, caps, records, answers, and a shutdown that is clean and ends; answers and the end of the shutdown under `BenignSpec`, with clients that fall silent and a collector that reads from the connections it keeps |
| `wire` | every section of up to 5 tokens behind a header; every text of up to 4 tokens that may look like a length or a line, before one of 4 others; both framings; cap of 5, so that sections of up to 4 tokens are stamped and longer ones rejected | frames are the messages, or the pieces of a cut line in order; stamped once |
| `certificates` | 2 tenants, 2 certificates, any of them there at the start, 2 requests, 2 readers, 2 ticks | tenant of renewals, final revocations, order of revocation, registered, single-use, intact and short-lived keys |
| `admin` | 2 browsers, 2 names, 3 users ever, 2 attempts per window of 2 ticks, 1 restart in that time; once a user was created, 1 login per name in that time (`Focus`) | throttle across windows that meet and a restart, sessions, setup |
| `process` | no database or one of two legacy ones of 2 tenants, 1 request with a forged identity, any number of crashes and restarts | keys survive migrations, complete schema, identity, counting, order of the shutdown, and its end unless a syslog handler never returns |

The bounds let the interesting cases happen: the channel is smaller than the
number of samples; two requests suffice for each race and, for keys, a third is
the one that deletes in between; a certificate from before can be renewed by one
request while the other revokes it; a pool smaller than the number of handlers
overflows; the clock runs past the life of a link and the sweep after it; three
users are what it takes for a name to change hands under a setup; the legacy
databases have a blank and a plaintext key under the UNIQUE constraint, and two
plaintext keys without it, so that the loop over them can stop half-way; the cap
on a frame lies below the longest message. Each mutant shows that its property
can fail within the bounds. `Socket` has at least as many members as handlers
that dial, so running out of them never blocks a handler.

Runs that end in a violation, each a disagreement between the code and what it or
its documents say (`findings` quotes the lines):

| Run | What happens |
|---|---|
| `usage_poison` | a pending sample of a deleted tenant rolls back every later flush of all tenants |
| `syslog_shutdown` | a client in its handshake, one that keeps sending, or a collector that stops reading holds the shutdown |
| `open_hangs` | a failing statement of the rebuild leaves Open waiting for its own connection |

### Divergences without a run of their own

The models contain these behaviours too; each is a short sequence of their steps
in which the code does something else than the text beside it says.

| Where | Sequence |
|---|---|
| `store/usage.go:224-229` | `FlushCounters` finds `w.done` open; `Stop` closes it and the writer exits; the send then has no receiver and blocks for ever. `FlushCountersReturns` excepts this case and no other |
| `store/usage.go:225` | "already stopped - Stop() drained and flushed": `w.done` is closed before the drain, so a call during the drain returns while accepted samples are not in the table yet |
| `store/usage.go:82-85`, `store.go:51` | "stops the usage writer (flushing buffered counters)": the last flush may fail like any other, at its begin, at a statement (a foreign key as in `usage_poison`) or at its commit; it merges its snapshot back into a map that nobody will flush, and `Close` returns without an error. `StopPersists` and `ForwardedIsCounted` except this case by name |
| `ratelimit/limiter.go:2`, `bucket.go:14` | "Limits are read from the store on each check": a bucket keeps the rate and burst of the check that made it until it is evicted, so a tenant that keeps sending keeps its old limits. `RateIsBounded` says what holds instead |
| `syslog/pool.go:127`, `conn.go:67` | "Healthy reports whether the collector is currently reachable": a failed dial clears the flag, only a dial sets it, only `Forward` dials, and new connections are refused while it is clear; with no other connection open it stays clear |
| `syslog/pool.go:96-97` | "retries once with a fresh connection": the retry calls `getConn`, which prefers a pooled connection, possibly broken by the same restart of the collector; the second write then fails too |
| `syslog/conn.go:88`, `docs/rewrite-spec.md:76-77` | "inactive tenants reject all requests": the tenant is resolved once per connection; one deactivated, or whose certificate is revoked, later goes on forwarding |
| `syslog/conn.go:88`, `ratelimit/limiter.go:22-23` | "lookup_failed" is to be "a server error (500), not a client rate-limit (429)": a frame of a tenant deleted meanwhile is recorded as 429 |
| `web/handlers_certs.go:217, 236` | "revokes via step-ca AND marks revoked_at locally": an error of the local UPDATE is logged and the administrator redirected as after a success; the certificate still resolves to its tenant |
| `web/handlers_certs.go:164, 190`, `pki/renewal.go:130` | "cannot renew a revoked certificate": a revocation during the call to the CA comes too late for the check, and the renewal is registered |
| `store/tenants.go:135` | "revokes all active keys for a tenant and issues a new one": two regenerations each revoke and then each insert, and the tenant has two live keys. `OldKeysAreDead` is about the keys from before |
| `store/migrate.go:162` | an error of `tableExists` is a "no": a legacy database is recorded as migrated, and its plaintext keys are never hashed, so they authenticate nobody, at this start and every later one |
| `store/migrate.go:175, 203` | an ALTER that fails for another reason than a duplicate column leaves the column out, and a failed restore leaves foreign keys off for the life of the process; Open succeeds |
| `cmd/proxy/main.go:146, 174`, `docs/rewrite-spec.md:478` | "fatal before any listener binds": a listener that cannot bind is a line in the log while the rest serves on; a bad syslog or renewal certificate ends run() after the proxy and the admin server were started, under whose handlers the store is then closed |
| `pki/renewal.go:89` | `Serve` returns without waiting for `handleRenew`, so a device's renewal may find the store closed between the CA's signature and its insert |
| `ingest/handler.go:195-198` | an answer that breaks off makes the proxy panic past `RecordUsage`: forwarded and not counted |
| `syslog/frame.go:56, 72` | "Oversized declared lengths are rejected": lines have no cap; and a deadline inside a line makes two frames of it |
| `syslog/frame.go:39, 72` | "the next frame": when the rest of such a line begins with a digit it is read as a length, and the frames after it are the client's bytes cut where the digit says, until a length does not parse. `FramesAreExact` excepts this case (`torn`) and no other |
| `syslog/rfc5424.go:17` | "all other SD-IDs are preserved": a block ends at its first `]`, also at an escaped one inside a value; the rest becomes text |
| `auth/loginlimiter.go:14, 25` | "max 5 failures": successes count too, and two windows that meet admit 9 within 15 minutes, and since the windows are in memory each restart in that time 5 more: 14 with one. `ThrottleHolds` says what holds instead. The address key holds the port (`handlers_auth.go:26`), so a new connection is a new key; the model keeps the username's key alone |
| `web/handlers_auth.go:84-109` | two setups may both count no users and both create one; a failing count is taken for none; a setup whose user was deleted before the lookup by name gets no session, or that of a new bearer of the name. Deleting the last user opens setup again |

**Deadlock** is checked in `process`, where a restart is always possible, and in
`admin`. The environments of the other instances are finite, and the system may
come to rest when they are used up; waiting for ever is a liveness property there.

**Fairness.** `UsageWriter`: the writer goroutine runs on (weak), and a `select`
case that is ready again and again is taken (strong), because Go chooses among
ready cases at random and the ticker fires periodically. Callers are not fair.
`SyslogServer`: loop and handlers run on, a dial ends because it has a timeout, and
a read ends or returns a frame because each read has a deadline
(`ConnIdleTimeout`); nothing is assumed of handshakes and of writes to the
collector, which have none. `QuietSpec` adds that clients finish their handshake and
fall silent some day, and `BenignSpec` that the collector reads from the connections
it keeps. `syslog` uses `BenignSpec`, the benign case in which frames must be
answered and the shutdown must end; `syslog_shutdown` (under `Spec`) shows that it
need not end without them, and finds the same under `QuietSpec`: a collector that
stops reading is enough. `Process`: the steps of migrate and of run(), and
the goroutines that close a listener or end, run on (weak). No fairness for
requests, signals, crashes or any handler: the deadline of Shutdown makes those of
the proxy and the admin server harmless, nobody waits for those of the renewal
server, and a syslog handler that never returns is the exception that
`ShutdownEnds` states. No safety property rests on fairness, and
the proofs use none.

## 4. Proofs

All theorems hold for any finite or infinite sets of tenants, requests and so on
(the set of samples, and of connections where a count is bounded, is finite) and
any bounds. The assumptions are the named `ASSUME`s of the modules, which TLC
evaluates in each run.

- **UsageWriterProofs.** `FlushShape` ties `accum`, `snapshot`, `tx` and `todo` to
  the writer's program counter: without it a merge back could add what was never
  taken. With it `ExactlyOnce` is inductive; `NoOrphanRows` needs in addition that
  an open transaction keeps deletes out. `StopShape` and `AckShape` say what has
  left the channel on the way through a final or requested flush, and give
  `StopPersists` and `AckedFlushPersists`. `RowsLeaveForAReason` follows from the
  types: only a commit, a delete and retention touch `db`, and a commit only adds.
  `WriterImplementsLedger` shows, action
  by action, that the writer implements `UsageLedger` under the mapping from where
  a sample is to its status.
- **TenantKeysProofs.** `KeysInv`: an id is given out once, rows were issued, and
  what a regeneration has to revoke belongs to its tenant. From it: keys stay with
  their tenant, old keys are dead, dead keys stay dead, and a lookup matches live
  keys of active tenants only.
- **SyslogServerProofs.** `ServerInv`: types, ownership, exact counters, records,
  and two shapes (handler and Forward are in step; the loop has joined before it
  returns). The counters are cardinalities; each action adds or removes one
  connection from the set that is counted.
- **CertificatesProofs.** `CertInv`: a request that holds a new certificate is the
  only one to hold it (`Apart`), the certificate has no row before the insert and
  no link before `Create` (`RequestOK`), parents have had rows (`Parents`), and the
  next sweep is due within a period of every expiry (`Timely`). From it: renewals
  keep their tenant, revocations are final, the mark follows the CA, links are
  single-use and deliver their key whole, and keys are erased and short-lived.
- **AdminAuthProofs.** `AuthInv` rests on ids that are given out once: no id is
  above `lastId`, and rows are told apart by id and by name (`Rows`). So what a
  request, a session or a setup remembers of a user cannot come to mean another:
  a request about to sign holds its own user's row (`AboutToSign`, `OneName`), a
  session that had ended stays ended (`Ended`, which needs that a browser has one
  session, `OneCookie`), and a setup that may create has seen the users it met go
  (`Opened`). From it: sessions are earned, ended sessions are not served, setup
  closes. `ThrottleHolds` has an invariant of its own, `ThrottleInv`: a window
  begins with the attempt that opened it, and that one is too old to count when
  the window is over (`Counted`), so at most `MaxAttempts - 1` attempts are left
  over from the window before (`Rested`) to be added to those of the open one. A
  restart forgets the window and raises what is allowed (`Allowance`) by one
  window's worth, for the stretches that contain it and no others, so both
  are stated for every age and not only for a whole window.
- **RateLimiterProofs.** `RateInv`: each tick since a tenant's first check pays for
  `most` requests, and `Paid` says that what was granted *and what the bucket still
  holds* is paid for; a bucket that is missing leaves a whole tick's pay over, which
  is what the new, full one costs. That an evicted bucket was idle for a tick, and
  is not one that a check holds, comes from `ChecksAreTimed`; that no bucket and no
  check knows a limit above `most`, from `LimitsAreKnown`. `QuotaInv`: `overSince`
  is exact (`OverIsTimed`), a cache entry that would still admit a byte expires a
  cache life after the quota was used up at the latest (`EntriesExpire`), and a
  reading that is about to be stored is of this tick (`ReadingsAreFresh`), so a fill
  that stores an older value later does no harm. The step of arithmetic is a product
  of two unknowns, which the provers need in lemmas of its own (`TimesMono`).
- **ProcessProofs.** `MigrateInv`: the rebuild's transaction sees the database as it
  is, with foreign keys off (`RebuildIsExact`), so that its commit, like its loss,
  keeps every row; the loop over the plaintext keys has before it exactly what is
  still in plaintext, and blanks only what is hashed (`LoopIsExact`); a version is
  recorded after its objects were made (`VersionsAreApplied`) and after the tenants
  are normal and have their columns (`NormalFirst`, `ColumnsFirst`, each up to an
  error the code ignores). A crash keeps all of it, so the next start resumes from a
  state it can finish. `ProcessInv` adds where run(), migrate and the parts are with
  respect to each other (`StagesAgree`, `PartsAreLaunched`), what each stage of an
  orderly shutdown has behind it (`DownInOrder`), and where a request that was sent
  has its sample (`RequestsAreRecorded`: none is pending after an orderly exit whose
  last flush did not fail). From it: no key is lost, an opened database is complete,
  the store is closed last, what was forwarded is counted.
  `IdentityIsServers` needs what the loop of `stampSingleResource` leaves of a list
  of any length: `LoopKeepsOrder` finds, along the loop, the place of each attribute
  that is kept (increasing, and onto what is left), `StampIsExact` adds the two that
  the server writes, and `PayloadIsStamped` lifts it to resources and log bodies.
- **SyslogFramesProofs.** `FramesInv` has two layers. Of any stream: the types, what
  a length and a body are while they are read (`PartsAgree`: the length begins with
  a number, a body is shorter than `need`, `need` is within the cap), and that what
  was forwarded is what was returned, stamped (`Forwarding`). While the stream is in
  step: `Aligned` says, for each place in `ReadFrame`, which part of which message
  has been read and that the frames so far end where it begins (`Ready`); `Placed`
  says the same of each frame that was returned. Without `Aligned` nothing tells a
  body's last byte from the next length. `WholeUnlessCut` closes the gap that `torn`
  opens: a stream gets out of step only after a cut. Per action there is a lemma
  (`StartInStep`, `LengthInStep`, `BodyInStep`, `LineInStep`, `StopInStep`).
  `OneTenantBlock` is about the stamping alone: `LeadingIs` for the loops that skip
  blocks and spaces, `ParseIs` for the three shapes of structured data, `FilterIs`
  for the loop that drops tenant blocks, `StampIsExact` for the frame put together.

Induction over data is done with the one theorem of the library that takes a set
where the others take an operator (`WFMin`): a set of numbers has a least member
(`LeastNumber`), so a set that contains 0 and, with each position below `n`, the
next one contains all of them (`Climb`). The recursive functions are first shown to
exist (`LoopRuns`), then to be what the loop leaves (`FilteredIsLoop`).

Every invariant and every action property of a run that passes is stated by a
theorem. Left to TLC alone is liveness (`PendingIsPersisted`, `StopTerminates`,
`FlushCountersReturns`, `FramesAreAnswered`, `ShutdownCompletes`, `ShutdownEnds`,
`OpenReturns`): the provers have no fairness or ENABLED.

## 5. Limits of the models

- A failed commit is taken to have rolled back; SQLite reports one only then.
- A check of the limiter takes less than a tick, and a sweep that is due runs
  before the next tick.
- Rows of `certificates` do not expire, and `last_seen_at` is left out: nothing
  reads them to decide. TLS refuses expired certificates before these handlers.
- Random tokens, secrets and fingerprints do not collide, and signatures are not
  forged.
- Read-only queries for pages and charts, and logging, are left out.
- A number in a stream of frames is one token and arrives as a whole: a deadline
  between two of its digits is not modelled. A client does not send two numbers in a
  row, or a line that begins with a number. A header is one token.
- The database of `process` has the tenants it began with; creating and deleting
  them is the subject of `TenantKeys` and `UsageWriter`.

**Not modelled.** Configuration (`config/config.go`): a function of the environment
that is called once. Pages (`web/server.go`, templates): routing and rendering.
`pki/bundle.go` and `pki/provisioner.go`: a zip archive and a signed JWT, each a step
that may fail in the handlers that are modelled. CSRF and flash cookies: HMACs over
a cookie, with no state in the server to get out of step. `install.sh` and the
container files.

## 6. Plan

The system is modelled as far as it has state, and every safety property of the
runs is proved. What would come next are results between the modules:

1. `Process`: the order within a shutdown as an action property (no request begins
   after its listener was closed, no statement after the store was), and which
   errors alone make the writer's last flush fail.
2. `SyslogServer` over `SyslogFrames`: that the frames the server takes as whole
   things are those the scanner returns, as a refinement.
