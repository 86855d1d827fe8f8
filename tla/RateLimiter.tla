---------------------------- MODULE RateLimiter ----------------------------
(***************************************************************************)
(* internal/ratelimit: per-tenant token buckets for requests and bytes, a  *)
(* daily byte quota with a cache in front of the usage query, and the      *)
(* background loop that evicts idle buckets and clears the cache.          *)
(*                                                                         *)
(* Every check reads the tenant's limits, takes the mutex for the bucket   *)
(* and releases it, consumes tokens, and so on: handlers interleave with   *)
(* each other, with the loop and with the administrator at those points.   *)
(* Time is in ticks; one tick refills a bucket by its rate.  A check takes *)
(* less than a tick (Tick waits for the checks under way), so the bucket   *)
(* that a check holds is never idle enough to be evicted under it.         *)
(***************************************************************************)
EXTENDS Integers

CONSTANTS Tenant,
          Handler,       \* goroutines that check limits
          Limits,        \* the limits an administrator may set: records
                         \* [rps, burst, quota], 0 for NULL
          InitialLimits, \* the limits a tenant may have at the start
          DefaultRate,   \* bucket of a tenant without rps limit: its rate
          DefaultBurst,  \* ... and its burst
          DefaultBytes,  \* byte bucket of a tenant without burst_bytes
          FrameSizes,    \* byteCount of the requests
          IdleTicks,     \* a bucket is evicted when idle for longer (1h)
          CacheTicks,    \* life of a quota cache entry (60s)
          DayTicks,      \* length of a UTC day
          MaxTime,       \* bound on the clock
          MaxUsage,      \* bound on the bytes the usage writer persists
          MaxFailures    \* bound on failures of the usage query

LimitRecord == [rps : Nat, burst : Nat, quota : Nat]

ASSUME LimiterAssumption ==
    /\ Limits \subseteq LimitRecord /\ InitialLimits \subseteq LimitRecord
    /\ DefaultRate \in Nat /\ DefaultBurst \in Nat /\ DefaultBytes \in Nat
    /\ FrameSizes \subseteq Nat
    /\ IdleTicks \in Nat /\ CacheTicks \in Nat /\ DayTicks \in Nat \ {0}
    /\ MaxTime \in Nat /\ MaxUsage \in Nat /\ MaxFailures \in Nat

VARIABLES
    now,           \* the clock
    exists,        \* tenants with a row
    lim,           \* their limit columns
    usage,         \* bytes usage_counters holds for the current UTC day
    bucket,        \* l.buckets: 0 or 1 bucket per tenant, as a set
    cache,         \* l.quotaCache: 0 or 1 entry per tenant, as a set
    quotaFailures, \* l.quotaFailures
    loop,          \* where the background loop is
    hpc,           \* where each handler is in its check
    hdec,          \* its decision, once the check has returned
    chk,           \* the check: tenant t, byteCount n, the limits l and the
                   \* usage u it has read
    granted,       \* history: requests the rps bucket has granted
    since,         \* history: the time of the first check against it
    most,          \* history: the highest rate or burst of the limits so far
    overSince      \* history: since when the quota is used up

handlervars == <<hpc, hdec, chk>>
storevars == <<exists, lim, usage>>
limitervars == <<bucket, cache, quotaFailures>>
historyvars == <<granted, since, most, overSince>>
vars == <<now, exists, lim, usage, bucket, cache, quotaFailures, loop, hpc,
          hdec, chk, granted, since, most, overSince>>

Never == MaxTime + 1
AtMost(a, b) == IF a < b THEN a ELSE b
AtLeast(a, b) == IF a < b THEN b ELSE a

\* Rate and burst of a bucket that is made with limits l: a NULL limit gives the
\* defaults.
Rate(l) == IF l.rps > 0 THEN l.rps ELSE DefaultRate
Burst(l) == IF l.rps > 0 THEN l.rps ELSE DefaultBurst
Ceiling(l) == AtLeast(Rate(l), Burst(l))

HandlerPC == {"idle", "rpsBucket", "rpsTake", "byteBucket", "byteTake",
              "quotaCache", "quotaQuery", "quotaStore"}
Reason == {"none", "allowed", "rps", "burst_bytes", "daily_quota", "lookup_failed"}

NoCheck(t) == [t |-> t, n |-> 0, l |-> [rps |-> 0, burst |-> 0, quota |-> 0], u |-> 0]

Init ==
    /\ now = 0 /\ exists = Tenant
    /\ lim \in [Tenant -> InitialLimits]
    /\ usage = [t \in Tenant |-> 0]
    /\ bucket = [t \in Tenant |-> {}] /\ cache = [t \in Tenant |-> {}]
    /\ quotaFailures = 0 /\ loop = "select"
    /\ hpc = [h \in Handler |-> "idle"]
    /\ chk \in [Handler -> {NoCheck(t) : t \in Tenant}]
    /\ hdec = [h \in Handler |-> "none"]
    /\ granted = [t \in Tenant |-> 0]
    /\ since = [t \in Tenant |-> Never]
    /\ most = [t \in Tenant |-> Ceiling(lim[t])]
    /\ overSince = [t \in Tenant |-> Never]

-----------------------------------------------------------------------------
(***************************************************************************)
(* Steps of a check.                                                       *)
(***************************************************************************)

\* The check c of handler h goes on at p.
Goto(h, p, c) == /\ hpc' = [hpc EXCEPT ![h] = p]
                 /\ chk' = [chk EXCEPT ![h] = c]
                 /\ hdec' = [hdec EXCEPT ![h] = "none"]

\* The check returns a Decision.
Decide(h, d) == /\ hpc' = [hpc EXCEPT ![h] = "idle"]
                /\ chk' = [chk EXCEPT ![h] = NoCheck(@.t)]
                /\ hdec' = [hdec EXCEPT ![h] = d]

\* The tenant is looked up and its limits are read.  The check ends here, when
\* there is no such tenant, the lookup fails, or no limit is set; or it goes on
\* at p.
Begin(h, t, n, unlimited, p) ==
    /\ hpc[h] = "idle"
    /\ \/ Decide(h, "lookup_failed")
       \/ /\ t \in exists
          /\ IF unlimited THEN Decide(h, "allowed")
             ELSE Goto(h, p, [t |-> t, n |-> n, l |-> lim[t], u |-> 0])

\* AllowRPS, up to the lock.
AllowRPS(h, t) ==
    /\ Begin(h, t, 0, lim[t].rps = 0, "rpsBucket")
    /\ since' = [since EXCEPT ![t] = IF lim[t].rps > 0 THEN AtMost(@, now) ELSE @]
    /\ UNCHANGED <<now, loop, granted, most, overSince, storevars, limitervars>>

\* AllowBytes, up to the lock.
AllowBytes(h, t, n) ==
    /\ Begin(h, t, n, lim[t].burst = 0 /\ lim[t].quota = 0, "byteBucket")
    /\ UNCHANGED <<now, loop, historyvars, storevars, limitervars>>

\* A new bucket is full.
NewBucket(l) ==
    LET bytes == IF l.burst > 0 THEN l.burst ELSE DefaultBytes
    IN  [rate |-> Rate(l), cap |-> Burst(l), tokens |-> Burst(l),
         bytes |-> bytes, btokens |-> bytes, last |-> now]

\* getOrCreateBucket and the lastAccess update, under l.mu: the limits of the
\* check count only if there is no bucket yet.
GetOrCreateBucket(h) ==
    /\ hpc[h] \in {"rpsBucket", "byteBucket"}
    /\ bucket' = [bucket EXCEPT ![chk[h].t] =
                    IF @ = {} THEN {NewBucket(chk[h].l)}
                    ELSE {[b EXCEPT !.last = now] : b \in @}]
    /\ Goto(h, IF hpc[h] = "rpsBucket" THEN "rpsTake" ELSE "byteTake", chk[h])
    /\ UNCHANGED <<now, loop, cache, quotaFailures, storevars, historyvars>>

HasToken(b) == b.tokens >= 1

\* rate.Limiter.Allow takes one token.
TakeToken(b) == [b EXCEPT !.tokens = @ - 1]

RPSTake(h) ==
    /\ hpc[h] = "rpsTake"
    /\ \E b \in bucket[chk[h].t] :
         IF HasToken(b)
         THEN /\ bucket' = [bucket EXCEPT ![chk[h].t] = {TakeToken(b)}]
              /\ granted' = [granted EXCEPT ![chk[h].t] = @ + 1]
              /\ Decide(h, "allowed")
         ELSE /\ UNCHANGED <<bucket, granted>>
              /\ Decide(h, "rps")
    /\ UNCHANGED <<now, loop, cache, quotaFailures, since, most, overSince, storevars>>

\* AllowN takes byteCount tokens or none, and only when burst_bytes is set.
ByteTake(h) ==
    /\ hpc[h] = "byteTake"
    /\ \E b \in bucket[chk[h].t] :
         IF chk[h].l.burst > 0 /\ b.btokens < chk[h].n
         THEN UNCHANGED bucket /\ Decide(h, "burst_bytes")
         ELSE /\ bucket' = [bucket EXCEPT ![chk[h].t] =
                              {IF chk[h].l.burst > 0
                               THEN [b EXCEPT !.btokens = @ - chk[h].n] ELSE b}]
              /\ IF chk[h].l.quota > 0 THEN Goto(h, "quotaCache", chk[h])
                                    ELSE Decide(h, "allowed")
    /\ UNCHANGED <<now, loop, cache, quotaFailures, storevars, historyvars>>

DecideQuota(h, used) ==
    Decide(h, IF used + chk[h].n > chk[h].l.quota THEN "daily_quota" ELSE "allowed")

\* Fault: an entry stays valid for ever.
FreshForever(e) == TRUE

Fresh(e) == now < e.expires

\* getDailyUsage: a cached value that has not expired, or the query.
QuotaCache(h) ==
    /\ hpc[h] = "quotaCache"
    /\ \/ \E e \in cache[chk[h].t] : Fresh(e) /\ DecideQuota(h, e.used)
       \/ /\ \A e \in cache[chk[h].t] : ~Fresh(e)
          /\ Goto(h, "quotaQuery", chk[h])
    /\ UNCHANGED <<now, loop, storevars, limitervars, historyvars>>

\* GetDailyByteUsage.
QuotaQuery(h) ==
    /\ hpc[h] = "quotaQuery"
    /\ Goto(h, "quotaStore", [chk[h] EXCEPT !.u = usage[chk[h].t]])
    /\ UNCHANGED <<now, loop, storevars, limitervars, historyvars>>

\* Fail open: a failed query counts and the usage is taken to be zero.
QuotaQueryFails(h) ==
    /\ hpc[h] = "quotaQuery"
    /\ quotaFailures < MaxFailures
    /\ quotaFailures' = quotaFailures + 1
    /\ DecideQuota(h, 0)
    /\ UNCHANGED <<now, loop, bucket, cache, storevars, historyvars>>

QuotaStore(h) ==
    /\ hpc[h] = "quotaStore"
    /\ cache' = [cache EXCEPT ![chk[h].t] = {[used |-> chk[h].u, expires |-> now + CacheTicks]}]
    /\ DecideQuota(h, chk[h].u)
    /\ UNCHANGED <<now, loop, bucket, quotaFailures, storevars, historyvars>>

-----------------------------------------------------------------------------
(***************************************************************************)
(* The background loop, the administrator, the usage writer and time.      *)
(***************************************************************************)

\* Fault: every bucket is evicted, idle or not.
IdleAlways(b) == TRUE

Idle(b) == b.last < now - IdleTicks

EvictBuckets ==
    /\ loop = "select"
    /\ loop' = "refresh"
    /\ bucket' = [t \in Tenant |-> {b \in bucket[t] : ~Idle(b)}]
    /\ UNCHANGED <<now, cache, quotaFailures, storevars, handlervars, historyvars>>

RefreshQuotaCache ==
    /\ loop = "refresh"
    /\ loop' = "select"
    /\ cache' = [t \in Tenant |-> {}]
    /\ UNCHANGED <<now, bucket, quotaFailures, storevars, handlervars, historyvars>>

LimiterStop ==
    /\ loop = "select"
    /\ loop' = "stopped"
    /\ UNCHANGED <<now, storevars, limitervars, handlervars, historyvars>>

\* overSince records since when the persisted usage has left no room for one
\* byte under the quota now in force.
Over(u, l) == l.quota > 0 /\ u + 1 > l.quota

UpdateTenant(t, l) ==
    /\ t \in exists /\ l # lim[t]
    /\ lim' = [lim EXCEPT ![t] = l]
    /\ overSince' = [overSince EXCEPT ![t] = IF Over(usage[t], l) THEN now ELSE Never]
    /\ most' = [most EXCEPT ![t] = AtLeast(@, Ceiling(l))]
    /\ UNCHANGED <<now, loop, exists, usage, granted, since, limitervars, handlervars>>

DeleteTenant(t) ==
    /\ t \in exists
    /\ exists' = exists \ {t}
    /\ UNCHANGED <<now, loop, lim, usage, limitervars, handlervars, historyvars>>

\* The usage writer persists n more bytes for the tenant.
UsageGrows(t, n) ==
    /\ usage[t] + n <= MaxUsage
    /\ usage' = [usage EXCEPT ![t] = @ + n]
    /\ overSince' = [overSince EXCEPT ![t] =
                       IF Over(usage[t] + n, lim[t]) THEN AtMost(@, now) ELSE Never]
    /\ UNCHANGED <<now, loop, exists, lim, granted, since, most, limitervars, handlervars>>

Refill(b) == [b EXCEPT !.tokens = AtMost(b.cap, @ + b.rate),
                       !.btokens = AtMost(b.bytes, @ + b.bytes)]

\* One tick: buckets refill; at midnight the day's usage is zero again.
Tick ==
    /\ now < MaxTime
    /\ \A h \in Handler : hpc[h] = "idle"
    /\ now' = now + 1
    /\ bucket' = [t \in Tenant |-> {Refill(b) : b \in bucket[t]}]
    /\ IF now' % DayTicks = 0
       THEN /\ usage' = [t \in Tenant |-> 0]
            /\ overSince' = [t \in Tenant |-> Never]
       ELSE UNCHANGED <<usage, overSince>>
    /\ UNCHANGED <<loop, exists, lim, cache, quotaFailures, granted, since, most, handlervars>>

Next ==
    \/ \E h \in Handler :
         \/ \E t \in Tenant : AllowRPS(h, t)
         \/ \E t \in Tenant, n \in FrameSizes : AllowBytes(h, t, n)
         \/ GetOrCreateBucket(h)
         \/ RPSTake(h)
         \/ ByteTake(h)
         \/ QuotaCache(h)
         \/ QuotaQuery(h)
         \/ QuotaQueryFails(h)
         \/ QuotaStore(h)
    \/ EvictBuckets
    \/ RefreshQuotaCache
    \/ LimiterStop
    \/ \E t \in Tenant : \/ \E l \in Limits : UpdateTenant(t, l)
                         \/ DeleteTenant(t)
                         \/ \E n \in FrameSizes : UsageGrows(t, n)
    \/ Tick

Spec == Init /\ [][Next]_vars

-----------------------------------------------------------------------------
(***************************************************************************)
(* Properties.                                                             *)
(***************************************************************************)

Bucket == [rate : Nat, cap : Nat, tokens : Nat, bytes : Nat, btokens : Nat, last : Nat]
Entry == [used : Nat, expires : Nat]

\* Every variable has its type; no bucket is overdrawn, and a tenant has one
\* bucket and one cache entry at most.
TypeOK ==
    /\ now \in Nat /\ exists \subseteq Tenant
    /\ lim \in [Tenant -> LimitRecord]
    /\ usage \in [Tenant -> Nat] /\ quotaFailures \in Nat
    /\ bucket \in [Tenant -> SUBSET Bucket] /\ cache \in [Tenant -> SUBSET Entry]
    /\ \A t \in Tenant : /\ \A b, d \in bucket[t] : b = d
                        /\ \A e, d \in cache[t] : e = d
    /\ loop \in {"select", "refresh", "stopped"}
    /\ hpc \in [Handler -> HandlerPC] /\ hdec \in [Handler -> Reason]
    /\ chk \in [Handler -> [t : Tenant, n : Nat, l : LimitRecord, u : Nat]]
    /\ granted \in [Tenant -> Nat] /\ since \in [Tenant -> Nat]
    /\ most \in [Tenant -> Nat] /\ overSince \in [Tenant -> Nat]

\* A tenant is never granted more than one burst and its rate since its first
\* request: evicting a bucket and creating it again, full, gives nothing that
\* waiting would not have given (bucket.go:41-51 with limiter.go:94-113).  A
\* bucket keeps the limits it was made with, so once they were changed the rate
\* is that of the highest limit the tenant has had.
RateIsBounded ==
    \A t \in Tenant :
        granted[t] > 0 => granted[t] <= most[t] * (1 + now - since[t])

\* The daily quota is overrun for the life of one cache entry at most
\* (quota.go:9 "cached for 60s"), unless the usage query failed and the failure
\* was counted (quota.go:10-12).
QuotaOverrunIsBounded ==
    [][\A h \in Handler :
          /\ hpc[h] \in {"quotaCache", "quotaQuery", "quotaStore"}
          /\ hpc'[h] = "idle" /\ hdec'[h] = "allowed" /\ chk[h].n > 0
          /\ quotaFailures' = quotaFailures
          /\ lim[chk[h].t] = chk[h].l
          => now <= overSince[chk[h].t] + CacheTicks]_vars
=============================================================================
