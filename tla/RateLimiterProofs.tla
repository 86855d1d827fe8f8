------------------------- MODULE RateLimiterProofs -------------------------
(***************************************************************************)
(* The limiter's two promises, for any tenants, handlers and limits: how   *)
(* many requests its buckets let through, and for how long a quota that is *)
(* used up can still be overrun.                                           *)
(***************************************************************************)
EXTENDS RateLimiter, TLAPS

-----------------------------------------------------------------------------
\* Arithmetic that the provers need to be told.
LEMMA TimesSucc == ASSUME NEW m \in Nat, NEW k \in Nat PROVE m * (k + 1) = m * k + m
  OBVIOUS

LEMMA TimesNat == ASSUME NEW m \in Nat, NEW k \in Nat PROVE m * k \in Nat
  OBVIOUS

LEMMA TimesMono ==
    ASSUME NEW m \in Nat, NEW p \in Nat, NEW k \in Nat, NEW j \in Nat, m <= p, k <= j
    PROVE  m * k <= p * j
<1>1. m * k <= p * k
  OBVIOUS
<1>2. p * k <= p * j
  OBVIOUS
<1> QED
  BY <1>1, <1>2, TimesNat

\* What a bucket's limits are made of.
LEMMA CeilingFacts ==
    ASSUME NEW l \in LimitRecord
    PROVE  /\ Rate(l) \in Nat /\ Burst(l) \in Nat /\ Ceiling(l) \in Nat
           /\ Rate(l) <= Ceiling(l) /\ Burst(l) <= Ceiling(l)
<1>1. Rate(l) \in Nat /\ Burst(l) \in Nat
  BY LimiterAssumption DEF Rate, Burst, LimitRecord
<1> QED
  BY <1>1 DEF Ceiling, AtLeast

\* Refilling adds to the tokens, up to the cap, and changes no limit.
LEMMA RefillFacts ==
    ASSUME NEW b \in Bucket
    PROVE  /\ Refill(b) \in Bucket
           /\ Refill(b).tokens <= b.tokens + b.rate /\ Refill(b).tokens <= b.cap
           /\ Refill(b).rate = b.rate /\ Refill(b).cap = b.cap /\ Refill(b).last = b.last
<1> DEFINE x == AtMost(b.cap, b.tokens + b.rate)
           y == AtMost(b.bytes, b.btokens + b.bytes)
<1>1. x \in Nat /\ y \in Nat /\ x <= b.tokens + b.rate /\ x <= b.cap
  BY DEF AtMost, Bucket
<1>2. Refill(b) = [b EXCEPT !.tokens = x, !.btokens = y]
  BY DEF Refill, Bucket
<1> HIDE DEF x, y
<1> QED
  BY <1>1, <1>2 DEF Bucket

-----------------------------------------------------------------------------
Check == [t : Tenant, n : Nat, l : LimitRecord, u : Nat]

Handlers == /\ hpc \in [Handler -> HandlerPC] /\ hdec \in [Handler -> Reason]
            /\ chk \in [Handler -> Check]

\* A check that goes on or returns stays one.
LEMMA GotoType ==
    ASSUME Handlers, NEW h \in Handler, NEW p \in HandlerPC, NEW c \in Check, Goto(h, p, c)
    PROVE  Handlers'
  BY DEF Handlers, Goto, Reason

LEMMA DecideType ==
    ASSUME Handlers, NEW h \in Handler, NEW d \in Reason, Decide(h, d)
    PROVE  Handlers'
<1>1. \A c \in Check : NoCheck(c.t) \in Check
  BY DEF NoCheck, Check, LimitRecord
<1> QED
  BY <1>1 DEF Handlers, Decide, HandlerPC

\* Every step keeps the types.
LEMMA TypeInit == Init => TypeOK
<1> SUFFICES ASSUME Init PROVE TypeOK
    OBVIOUS
<1>1. \A t \in Tenant : NoCheck(t) \in Check
  BY DEF NoCheck, Check, LimitRecord
<1>2. most \in [Tenant -> Nat] /\ lim \in [Tenant -> LimitRecord]
  BY LimiterAssumption, CeilingFacts DEF Init
<1> QED
  BY <1>1, <1>2, LimiterAssumption DEF Init, TypeOK, HandlerPC, Reason, Never, Check

LEMMA TypeStep == TypeOK /\ [Next]_vars => TypeOK'
<1> SUFFICES ASSUME TypeOK, [Next]_vars PROVE TypeOK'
    OBVIOUS
<1> USE LimiterAssumption
<1>0. /\ Handlers /\ \A h \in Handler : chk[h] \in Check
      /\ \A t \in Tenant : lim[t] \in LimitRecord
  BY DEF TypeOK, Handlers, Check
<1> DEFINE Store == /\ exists \subseteq Tenant /\ lim \in [Tenant -> LimitRecord]
                    /\ usage \in [Tenant -> Nat]
           Mine == /\ quotaFailures \in Nat /\ loop \in {"select", "refresh", "stopped"}
                   /\ bucket \in [Tenant -> SUBSET Bucket] /\ cache \in [Tenant -> SUBSET Entry]
                   /\ \A t \in Tenant : /\ \A b, d \in bucket[t] : b = d
                                       /\ \A e, d \in cache[t] : e = d
           Histories == /\ granted \in [Tenant -> Nat] /\ since \in [Tenant -> Nat]
                        /\ most \in [Tenant -> Nat] /\ overSince \in [Tenant -> Nat]
<1>a. now \in Nat /\ Store /\ Mine /\ Histories
  BY DEF TypeOK
<1>b. ASSUME now' \in Nat, Store', Mine', Histories', Handlers' PROVE TypeOK'
  BY <1>b DEF TypeOK, Handlers, Check
<1>c. UNCHANGED storevars => Store'
  BY <1>a DEF storevars
<1>d. UNCHANGED <<loop, limitervars>> => Mine'
  BY <1>a DEF limitervars
<1>e. UNCHANGED historyvars => Histories'
  BY <1>a DEF historyvars
<1>f. UNCHANGED handlervars => Handlers'
  BY <1>0 DEF handlervars, Handlers
<1>g. ASSUME NEW h \in Handler, NEW t \in Tenant, NEW n \in Nat, NEW u \in BOOLEAN,
             NEW p \in HandlerPC, Begin(h, t, n, u, p)
      PROVE  Handlers'
  <2>1. [t |-> t, n |-> n, l |-> lim[t], u |-> 0] \in Check
    BY <1>0 DEF Check
  <2>2. {"lookup_failed", "allowed"} \subseteq Reason
    BY DEF Reason
  <2> QED
    BY <1>0, <1>g, <2>1, <2>2, GotoType, DecideType DEF Begin
<1>h. ASSUME NEW h \in Handler, NEW used, DecideQuota(h, used) PROVE Handlers'
  BY <1>0, <1>h, DecideType DEF DecideQuota, Reason
<1>1. ASSUME NEW h \in Handler, NEW t \in Tenant, AllowRPS(h, t) PROVE TypeOK'
  <2>1. Handlers'
    BY <1>1, <1>g DEF AllowRPS, HandlerPC
  <2>2. Histories'
    BY <1>1, <1>a DEF AllowRPS, AtMost
  <2> QED
    BY <1>1, <1>a, <1>b, <1>c, <1>d, <2>1, <2>2 DEF AllowRPS
<1>2. ASSUME NEW h \in Handler, NEW t \in Tenant, NEW n \in FrameSizes, AllowBytes(h, t, n)
      PROVE  TypeOK'
  <2>1. Handlers'
    BY <1>2, <1>g DEF AllowBytes, HandlerPC
  <2> QED
    BY <1>2, <1>a, <1>b, <1>c, <1>d, <1>e, <2>1 DEF AllowBytes
<1>3. ASSUME NEW h \in Handler, GetOrCreateBucket(h) PROVE TypeOK'
  <2>1. Handlers'
    BY <1>0, <1>3, GotoType DEF GetOrCreateBucket, HandlerPC
  <2>2. NewBucket(chk[h].l) \in Bucket /\ chk[h].t \in Tenant
    BY <1>0, <1>a, CeilingFacts DEF NewBucket, Bucket, Check, LimitRecord
  <2>3. ASSUME NEW B \in SUBSET Bucket, \A b, d \in B : b = d
        PROVE  /\ {[b EXCEPT !.last = now] : b \in B} \in SUBSET Bucket
               /\ \A b, d \in {[b EXCEPT !.last = now] : b \in B} : b = d
    BY <1>a, <2>3 DEF Bucket
  <2>4. PICK B \in SUBSET Bucket : /\ \A b, d \in B : b = d
                                   /\ bucket' = [bucket EXCEPT ![chk[h].t] = B]
    <3>1. CASE bucket[chk[h].t] = {}
      BY <1>3, <2>2, <3>1 DEF GetOrCreateBucket
    <3>2. CASE bucket[chk[h].t] # {}
      BY <1>3, <1>a, <2>2, <2>3, <3>2 DEF GetOrCreateBucket
    <3> QED
      BY <3>1, <3>2
  <2>5. Mine'
    BY <1>3, <1>a, <2>2, <2>4 DEF GetOrCreateBucket
  <2> QED
    BY <1>3, <1>a, <1>b, <1>c, <1>e, <2>1, <2>5 DEF GetOrCreateBucket
<1>4. ASSUME NEW h \in Handler, RPSTake(h) PROVE TypeOK'
  <2>1. chk[h].t \in Tenant
    BY <1>0 DEF Check
  <2>2. PICK b \in bucket[chk[h].t] :
          IF HasToken(b)
          THEN /\ bucket' = [bucket EXCEPT ![chk[h].t] = {TakeToken(b)}]
               /\ granted' = [granted EXCEPT ![chk[h].t] = @ + 1]
               /\ Decide(h, "allowed")
          ELSE UNCHANGED <<bucket, granted>> /\ Decide(h, "rps")
    BY <1>4 DEF RPSTake
  <2>3. Handlers'
    BY <1>0, <2>2, DecideType DEF Reason
  <2>4. HasToken(b) => TakeToken(b) \in Bucket
    BY <1>a, <2>1 DEF HasToken, TakeToken, Bucket
  <2>5. Mine'
    BY <1>4, <1>a, <2>1, <2>2, <2>4 DEF RPSTake
  <2>6. Histories'
    BY <1>4, <1>a, <2>1, <2>2 DEF RPSTake
  <2> QED
    BY <1>4, <1>a, <1>b, <1>c, <2>3, <2>5, <2>6 DEF RPSTake
<1>5. ASSUME NEW h \in Handler, ByteTake(h) PROVE TypeOK'
  <2>1. chk[h].t \in Tenant /\ chk[h].n \in Nat
    BY <1>0 DEF Check
  <2>2. PICK b \in bucket[chk[h].t] :
         IF chk[h].l.burst > 0 /\ b.btokens < chk[h].n
         THEN UNCHANGED bucket /\ Decide(h, "burst_bytes")
         ELSE /\ bucket' = [bucket EXCEPT ![chk[h].t] =
                              {IF chk[h].l.burst > 0
                               THEN [b EXCEPT !.btokens = @ - chk[h].n] ELSE b}]
              /\ IF chk[h].l.quota > 0 THEN Goto(h, "quotaCache", chk[h])
                                    ELSE Decide(h, "allowed")
    BY <1>5 DEF ByteTake
  <2>3. Handlers'
    BY <1>0, <2>2, DecideType, GotoType DEF Reason, HandlerPC
  <2>4. ~(b.btokens < chk[h].n) => [b EXCEPT !.btokens = @ - chk[h].n] \in Bucket
    BY <1>a, <2>1 DEF Bucket
  <2>5. Mine'
    BY <1>5, <1>a, <2>1, <2>2, <2>4 DEF ByteTake
  <2> QED
    BY <1>5, <1>a, <1>b, <1>c, <1>e, <2>3, <2>5 DEF ByteTake
<1>6. ASSUME NEW h \in Handler, QuotaCache(h) PROVE TypeOK'
  <2>1. Handlers'
    BY <1>0, <1>6, <1>h, GotoType DEF QuotaCache, HandlerPC
  <2> QED
    BY <1>6, <1>a, <1>b, <1>c, <1>d, <1>e, <2>1 DEF QuotaCache
<1>7. ASSUME NEW h \in Handler, QuotaQuery(h) PROVE TypeOK'
  <2>1. [chk[h] EXCEPT !.u = usage[chk[h].t]] \in Check
    BY <1>0, <1>a DEF Check
  <2>2. Handlers'
    BY <1>0, <1>7, <2>1, GotoType DEF QuotaQuery, HandlerPC
  <2> QED
    BY <1>7, <1>a, <1>b, <1>c, <1>d, <1>e, <2>2 DEF QuotaQuery
<1>8. ASSUME NEW h \in Handler, QuotaQueryFails(h) PROVE TypeOK'
  <2>1. Handlers' /\ Mine'
    BY <1>8, <1>a, <1>h DEF QuotaQueryFails
  <2> QED
    BY <1>8, <1>a, <1>b, <1>c, <1>e, <2>1 DEF QuotaQueryFails
<1>9. ASSUME NEW h \in Handler, QuotaStore(h) PROVE TypeOK'
  <2>1. Handlers'
    BY <1>9, <1>h DEF QuotaStore
  <2>2. [used |-> chk[h].u, expires |-> now + CacheTicks] \in Entry /\ chk[h].t \in Tenant
    BY <1>0, <1>a DEF Entry, Check
  <2>3. Mine'
    BY <1>9, <1>a, <2>2 DEF QuotaStore
  <2> QED
    BY <1>9, <1>a, <1>b, <1>c, <1>e, <2>1, <2>3 DEF QuotaStore
<1>10. CASE EvictBuckets \/ RefreshQuotaCache \/ LimiterStop
  <2>1. Mine'
    BY <1>10, <1>a DEF EvictBuckets, RefreshQuotaCache, LimiterStop, limitervars
  <2> QED
    BY <1>10, <1>a, <1>b, <1>c, <1>e, <1>f, <2>1 DEF EvictBuckets, RefreshQuotaCache, LimiterStop
<1>11. ASSUME NEW t \in Tenant, NEW l \in Limits, UpdateTenant(t, l) PROVE TypeOK'
  <2>1. l \in LimitRecord /\ Ceiling(l) \in Nat
    BY CeilingFacts
  <2>2. Store'
    BY <1>11, <1>a, <2>1 DEF UpdateTenant
  <2>3. Histories'
    BY <1>11, <1>a, <2>1 DEF UpdateTenant, AtLeast, Never
  <2> QED
    BY <1>11, <1>a, <1>b, <1>d, <1>f, <2>2, <2>3 DEF UpdateTenant
<1>12. ASSUME NEW t \in Tenant, DeleteTenant(t) PROVE TypeOK'
  BY <1>12, <1>a, <1>b, <1>d, <1>e, <1>f DEF DeleteTenant
<1>13. ASSUME NEW t \in Tenant, NEW n \in FrameSizes, UsageGrows(t, n) PROVE TypeOK'
  <2>1. Store'
    BY <1>13, <1>a DEF UsageGrows
  <2>2. Histories'
    BY <1>13, <1>a DEF UsageGrows, AtMost, Never
  <2> QED
    BY <1>13, <1>a, <1>b, <1>d, <1>f, <2>1, <2>2 DEF UsageGrows
<1>14. CASE Tick
  <2>1. \A b \in Bucket : Refill(b) \in Bucket
    BY RefillFacts
  <2>2. Mine'
    <3>1. bucket' \in [Tenant -> SUBSET Bucket]
      BY <1>14, <1>a, <2>1 DEF Tick
    <3>2. \A t \in Tenant : \A b, d \in bucket'[t] : b = d
      BY <1>14, <1>a DEF Tick
    <3> QED
      BY <1>14, <1>a, <3>1, <3>2 DEF Tick
  <2>3. Store' /\ Histories'
    BY <1>14, <1>a DEF Tick, Never
  <2> QED
    BY <1>14, <1>a, <1>b, <1>f, <2>2, <2>3 DEF Tick
<1>15. CASE UNCHANGED vars
  BY <1>15 DEF vars, TypeOK
<1> QED
  BY <1>1, <1>2, <1>3, <1>4, <1>5, <1>6, <1>7, <1>8, <1>9, <1>10, <1>11, <1>12, <1>13, <1>14,
     <1>15 DEF Next

-----------------------------------------------------------------------------
(***************************************************************************)
(* The rate.  A bucket is paid for by the time that has passed since the   *)
(* first check; what it still holds is paid for as well, and so is a new   *)
(* bucket in the place of an evicted one, which was idle for a tick.       *)
(***************************************************************************)
\* Limits that a check has read, and those of a bucket, were the tenant's once.
LimitsAreKnown ==
    /\ \A t \in Tenant : Ceiling(lim[t]) <= most[t]
    /\ \A h \in Handler : hpc[h] # "idle" => Ceiling(chk[h].l) <= most[chk[h].t]
    /\ \A t \in Tenant : \A b \in bucket[t] :
         b.tokens <= b.cap /\ b.cap <= most[t] /\ b.rate <= most[t]

\* A check has begun the tenant's time, and its bucket was used in this very tick.
ChecksAreTimed ==
    /\ \A h \in Handler : hpc[h] \in {"rpsBucket", "rpsTake"} => since[chk[h].t] <= now
    /\ \A h \in Handler : hpc[h] = "rpsTake" => \A b \in bucket[chk[h].t] : b.last = now
    /\ \A t \in Tenant : \A b \in bucket[t] : b.last <= now
    /\ \A t \in Tenant : granted[t] > 0 => since[t] <= now

\* What was granted, and what the bucket holds, is paid for.
Paid(t) ==
    /\ \A b \in bucket[t] :
         /\ since[t] <= now => granted[t] + b.tokens <= most[t] * (1 + now - since[t])
         /\ granted[t] > 0 => /\ since[t] <= b.last
                              /\ granted[t] <= most[t] * (1 + b.last - since[t])
    /\ granted[t] > 0 /\ bucket[t] = {} => granted[t] <= most[t] * (now - since[t])

AllPaid == \A t \in Tenant : Paid(t)

RateInv == TypeOK /\ LimitsAreKnown /\ ChecksAreTimed /\ AllPaid

(***************************************************************************)
(* The quota.  overSince is since when the persisted usage has filled it;  *)
(* what a check has read, or the cache holds, from before that time is     *)
(* used for a cache entry's life at most.                                  *)
(***************************************************************************)
OverIsTimed ==
    \A t \in Tenant : IF Over(usage[t], lim[t]) THEN overSince[t] <= now
                                               ELSE overSince[t] = Never

EntriesExpire ==
    \A t \in Tenant : \A e \in cache[t] :
        /\ e.expires <= now + CacheTicks
        /\ e.used + 1 <= lim[t].quota => e.expires <= overSince[t] + CacheTicks

ReadingsAreFresh ==
    \A h \in Handler :
        hpc[h] = "quotaStore" /\ chk[h].u + 1 <= lim[chk[h].t].quota
            => now <= overSince[chk[h].t]

QuotaInv == /\ TypeOK /\ now <= MaxTime
            /\ OverIsTimed /\ EntriesExpire /\ ReadingsAreFresh

-----------------------------------------------------------------------------
\* One handler moves, and the others stay where they are.
Moves(h) == \A g \in Handler \ {h} : hpc'[g] = hpc[g] /\ chk'[g] = chk[g]

LEMMA GotoFacts ==
    ASSUME TypeOK, NEW h \in Handler, NEW p, NEW c, Goto(h, p, c)
    PROVE  hpc'[h] = p /\ chk'[h] = c /\ Moves(h)
  BY DEF TypeOK, Goto, Moves

LEMMA DecideFacts ==
    ASSUME TypeOK, NEW h \in Handler, NEW d, Decide(h, d)
    PROVE  hpc'[h] = "idle" /\ hdec'[h] = d /\ Moves(h)
  BY DEF TypeOK, Decide, Moves

LEMMA BeginFacts ==
    ASSUME TypeOK, NEW h \in Handler, NEW t \in Tenant, NEW n, NEW u \in BOOLEAN, NEW p,
           Begin(h, t, n, u, p)
    PROVE  /\ Moves(h)
           /\ \/ hpc'[h] = "idle"
              \/ ~u /\ hpc'[h] = p /\ chk'[h].t = t /\ chk'[h].l = lim[t]
  BY GotoFacts, DecideFacts DEF Begin

LEMMA NewBucketFacts ==
    ASSUME NEW l \in LimitRecord, NewBucket(l) \in Bucket
    PROVE  /\ NewBucket(l).tokens = Burst(l) /\ NewBucket(l).cap = Burst(l)
           /\ NewBucket(l).rate = Rate(l) /\ NewBucket(l).last = now
  BY DEF NewBucket

\* The bucket of tenant t after a step: taken over, with at most the tokens it had.
Spends(t) ==
    \A b \in bucket'[t] : \E d \in bucket[t] :
        /\ b.tokens <= d.tokens /\ b.cap = d.cap /\ b.rate = d.rate /\ b.last = d.last

LEMMA SpendFacts ==
    ASSUME TypeOK, NEW h \in Handler, RPSTake(h) \/ ByteTake(h) \/ EvictBuckets
    PROVE  \A t \in Tenant : Spends(t)
<1>1. CASE EvictBuckets
  BY <1>1 DEF EvictBuckets, Spends, TypeOK, Bucket
<1>2. \A t \in Tenant : bucket'[t] = bucket[t] => Spends(t)
  BY DEF TypeOK, Spends, Bucket
<1>3. CASE RPSTake(h)
  <2>1. PICK b \in bucket[chk[h].t] :
          \/ bucket' = bucket
          \/ bucket' = [bucket EXCEPT ![chk[h].t] = {TakeToken(b)}]
    BY <1>3 DEF RPSTake
  <2>2. b \in Bucket
    BY DEF TypeOK
  <2>3. \A t \in Tenant : \/ bucket'[t] = bucket[t]
                          \/ t = chk[h].t /\ bucket'[t] = {TakeToken(b)}
    BY <2>1 DEF TypeOK
  <2>4. /\ TakeToken(b).tokens <= b.tokens /\ TakeToken(b).cap = b.cap
        /\ TakeToken(b).rate = b.rate /\ TakeToken(b).last = b.last
    BY <2>2 DEF TakeToken, Bucket
  <2> QED
    BY <1>2, <2>3, <2>4 DEF Spends
<1>4. CASE ByteTake(h)
  <2> DEFINE Less(b) == [b EXCEPT !.btokens = @ - chk[h].n]
  <2>1. PICK b \in bucket[chk[h].t] :
          \/ bucket' = bucket
          \/ bucket' = [bucket EXCEPT ![chk[h].t] = {IF chk[h].l.burst > 0 THEN Less(b) ELSE b}]
    BY <1>4 DEF ByteTake
  <2>2. b \in Bucket
    BY DEF TypeOK
  <2>3. \A t \in Tenant : \/ bucket'[t] = bucket[t]
                          \/ t = chk[h].t /\ bucket'[t] \in {{b}, {Less(b)}}
    BY <2>1 DEF TypeOK
  <2>4. /\ Less(b).tokens = b.tokens /\ Less(b).cap = b.cap
        /\ Less(b).rate = b.rate /\ Less(b).last = b.last /\ b.tokens \in Nat
    BY <2>2 DEF Bucket
  <2> HIDE DEF Less
  <2> QED
    BY <1>2, <2>3, <2>4 DEF Spends
<1> QED
  BY <1>1, <1>3, <1>4

\* Limits stay known.
LEMMA LimitsStep == RateInv /\ TypeOK' /\ [Next]_vars => LimitsAreKnown'
<1> SUFFICES ASSUME RateInv, TypeOK', [Next]_vars PROVE LimitsAreKnown'
    OBVIOUS
<1>0. /\ TypeOK /\ LimitsAreKnown
      /\ \A h \in Handler : chk[h].t \in Tenant /\ chk[h].l \in LimitRecord
  BY DEF RateInv, TypeOK
<1> DEFINE OfTenants == \A t \in Tenant : Ceiling(lim[t]) <= most[t]
           OfChecks == \A h \in Handler : hpc[h] # "idle" => Ceiling(chk[h].l) <= most[chk[h].t]
           OfBuckets == \A t \in Tenant : \A b \in bucket[t] :
                          b.tokens <= b.cap /\ b.cap <= most[t] /\ b.rate <= most[t]
<1>a. OfTenants /\ OfChecks /\ OfBuckets
  BY <1>0 DEF LimitsAreKnown
<1>b. ASSUME OfTenants', OfChecks', OfBuckets' PROVE LimitsAreKnown'
  BY <1>b DEF LimitsAreKnown
<1>c. ASSUME NEW h \in Handler, Moves(h), UNCHANGED most,
             \/ hpc'[h] = "idle"
             \/ hpc[h] # "idle" /\ chk'[h].l = chk[h].l /\ chk'[h].t = chk[h].t
             \/ chk'[h].t \in Tenant /\ chk'[h].l = lim[chk'[h].t]
      PROVE  OfChecks'
  BY <1>a, <1>c DEF Moves
<1>d. UNCHANGED <<lim, most>> => OfTenants'
  BY <1>a
<1>e. UNCHANGED <<hpc, chk, most>> => OfChecks'
  BY <1>a
<1>f. UNCHANGED <<bucket, most>> => OfBuckets'
  BY <1>a
<1> HIDE DEF OfTenants, OfChecks, OfBuckets
<1>1. ASSUME NEW h \in Handler, NEW t \in Tenant, AllowRPS(h, t) PROVE LimitsAreKnown'
  <2>1. OfChecks'
    BY <1>0, <1>1, <1>c, BeginFacts DEF AllowRPS
  <2> QED
    BY <1>1, <1>b, <1>d, <1>f, <2>1 DEF AllowRPS, storevars, limitervars
<1>2. ASSUME NEW h \in Handler, NEW t \in Tenant, NEW n \in FrameSizes, AllowBytes(h, t, n)
      PROVE  LimitsAreKnown'
  <2>1. OfChecks'
    BY <1>0, <1>2, <1>c, BeginFacts DEF AllowBytes, historyvars
  <2> QED
    BY <1>2, <1>b, <1>d, <1>f, <2>1 DEF AllowBytes, storevars, limitervars, historyvars
<1>3. ASSUME NEW h \in Handler, GetOrCreateBucket(h) PROVE LimitsAreKnown'
  <2> DEFINE t == chk[h].t
  <2>1. OfChecks'
    BY <1>0, <1>3, <1>c, GotoFacts DEF GetOrCreateBucket, historyvars
  <2>2. hpc[h] # "idle" /\ t \in Tenant
    BY <1>0, <1>3 DEF GetOrCreateBucket
  <2>3. Burst(chk[h].l) <= most[t] /\ Rate(chk[h].l) <= most[t]
    BY <1>0, <1>a, <2>2, CeilingFacts DEF OfChecks, TypeOK
  <2>4. ASSUME NEW s \in Tenant, NEW b \in bucket'[s]
        PROVE  b.tokens <= b.cap /\ b.cap <= most[s] /\ b.rate <= most[s]
    <3>1. CASE s # t
      BY <1>0, <1>3, <1>a, <2>2, <3>1 DEF GetOrCreateBucket, OfBuckets, TypeOK
    <3>2. CASE s = t /\ bucket[t] = {}
      <4>1. b = NewBucket(chk[h].l)
        BY <1>0, <1>3, <2>2, <3>2 DEF GetOrCreateBucket, TypeOK
      <4>2. b \in Bucket
        BY DEF TypeOK
      <4> QED
        BY <1>0, <2>3, <3>2, <4>1, <4>2, NewBucketFacts, CeilingFacts
    <3>3. CASE s = t /\ bucket[t] # {}
      <4>1. PICK d \in bucket[t] : b = [d EXCEPT !.last = now]
        BY <1>0, <1>3, <2>2, <3>3 DEF GetOrCreateBucket, TypeOK
      <4>2. d \in Bucket
        BY <1>0, <2>2 DEF TypeOK
      <4> QED
        BY <1>a, <2>2, <3>3, <4>1, <4>2 DEF OfBuckets, Bucket
    <3> QED
      BY <3>1, <3>2, <3>3
  <2>5. OfBuckets'
    BY <1>3, <2>4 DEF OfBuckets, GetOrCreateBucket, historyvars
  <2> QED
    BY <1>3, <1>b, <1>d, <2>1, <2>5 DEF GetOrCreateBucket, storevars, historyvars
<1>g. ASSUME UNCHANGED most, \A t \in Tenant : Spends(t) PROVE OfBuckets'
  <2> SUFFICES ASSUME NEW t \in Tenant, NEW b \in bucket'[t]
               PROVE  b.tokens <= b.cap /\ b.cap <= most[t] /\ b.rate <= most[t]
    BY <1>g DEF OfBuckets
  <2>1. PICK d \in bucket[t] :
           b.tokens <= d.tokens /\ b.cap = d.cap /\ b.rate = d.rate /\ b.last = d.last
    BY <1>g DEF Spends
  <2>2. b \in Bucket /\ d \in Bucket
    BY <1>0 DEF TypeOK
  <2> QED
    BY <1>a, <2>1, <2>2 DEF OfBuckets, Bucket
<1>4. ASSUME NEW h \in Handler, RPSTake(h) \/ ByteTake(h) PROVE LimitsAreKnown'
  <2>1. OfBuckets'
    BY <1>0, <1>4, <1>g, SpendFacts DEF RPSTake, ByteTake, historyvars
  <2>2. OfChecks'
    BY <1>0, <1>4, <1>c, GotoFacts, DecideFacts DEF RPSTake, ByteTake, historyvars
  <2> QED
    BY <1>4, <1>b, <1>d, <2>1, <2>2 DEF RPSTake, ByteTake, storevars, historyvars
<1>5. ASSUME NEW h \in Handler,
             QuotaCache(h) \/ QuotaQuery(h) \/ QuotaQueryFails(h) \/ QuotaStore(h)
      PROVE  LimitsAreKnown'
  <2>1. UNCHANGED <<lim, most, bucket>>
    BY <1>5 DEF QuotaCache, QuotaQuery, QuotaQueryFails, QuotaStore, storevars, historyvars,
                limitervars
  <2>2. /\ Moves(h)
        /\ \/ hpc'[h] = "idle"
           \/ hpc[h] # "idle" /\ chk'[h].l = chk[h].l /\ chk'[h].t = chk[h].t
    <3>1. CASE QuotaQuery(h)
      BY <1>0, <3>1, GotoFacts DEF QuotaQuery, TypeOK
    <3>2. CASE \E used : DecideQuota(h, used)
      BY <1>0, <3>2, DecideFacts DEF DecideQuota
    <3>3. CASE hpc[h] = "quotaCache" /\ Goto(h, "quotaQuery", chk[h])
      BY <1>0, <3>3, GotoFacts
    <3> QED
      BY <1>5, <3>1, <3>2, <3>3 DEF QuotaCache, QuotaQueryFails, QuotaStore
  <2> QED
    BY <1>b, <1>c, <1>d, <1>f, <2>1, <2>2
<1>6. CASE EvictBuckets
  <2>1. \A t \in Tenant : Spends(t)
    BY <1>0, <1>6 DEF EvictBuckets, Spends, TypeOK, Bucket
  <2> QED
    BY <1>6, <1>b, <1>d, <1>e, <1>g, <2>1 DEF EvictBuckets, storevars, historyvars, handlervars
<1>7. CASE RefreshQuotaCache \/ LimiterStop \/ UNCHANGED vars
  BY <1>7, <1>b, <1>d, <1>e, <1>f
     DEF RefreshQuotaCache, LimiterStop, vars, storevars, historyvars, handlervars, limitervars
<1>8. ASSUME NEW t \in Tenant, NEW l \in Limits, UpdateTenant(t, l) PROVE LimitsAreKnown'
  <2>1. l \in LimitRecord /\ Ceiling(l) \in Nat
    BY LimiterAssumption, CeilingFacts
  <2>2. /\ \A s \in Tenant : most'[s] \in Nat /\ most[s] \in Nat /\ most[s] <= most'[s]
        /\ Ceiling(l) <= most'[t]
    BY <1>0, <1>8, <2>1 DEF UpdateTenant, AtLeast, TypeOK
  <2>3. ASSUME NEW s \in Tenant PROVE Ceiling(lim'[s]) <= most'[s]
    <3>1. CASE s = t
      BY <1>0, <1>8, <2>2, <3>1 DEF UpdateTenant, TypeOK
    <3>2. CASE s # t
      BY <1>0, <1>8, <1>a, <2>2, <3>2 DEF UpdateTenant, TypeOK, OfTenants
    <3> QED
      BY <3>1, <3>2
  <2>4. OfTenants'
    BY <2>3 DEF OfTenants
  <2>5. OfChecks'
    BY <1>0, <1>8, <1>a, <2>2, CeilingFacts DEF OfChecks, UpdateTenant, handlervars
  <2>6. OfBuckets'
    <3>1. ASSUME NEW s \in Tenant, NEW b \in bucket[s]
          PROVE  b.tokens <= b.cap /\ b.cap <= most'[s] /\ b.rate <= most'[s]
      <4>1. b \in Bucket
        BY <1>0 DEF TypeOK
      <4> QED
        BY <1>a, <2>2, <4>1 DEF OfBuckets, Bucket
    <3> QED
      BY <1>8, <3>1 DEF OfBuckets, UpdateTenant, limitervars
  <2> QED
    BY <1>b, <2>4, <2>5, <2>6
<1>9. ASSUME NEW t \in Tenant, DeleteTenant(t) \/ \E n \in FrameSizes : UsageGrows(t, n)
      PROVE  LimitsAreKnown'
  BY <1>9, <1>b, <1>d, <1>e, <1>f
     DEF DeleteTenant, UsageGrows, historyvars, handlervars, limitervars
<1>10. CASE Tick
  <2>1. ASSUME NEW s \in Tenant, NEW b \in bucket'[s]
        PROVE  b.tokens <= b.cap /\ b.cap <= most[s] /\ b.rate <= most[s]
    <3>1. PICK d \in bucket[s] : b = Refill(d)
      BY <1>0, <1>10 DEF Tick, TypeOK
    <3>2. d \in Bucket
      BY <1>0 DEF TypeOK
    <3> QED
      BY <1>a, <3>1, <3>2, RefillFacts DEF OfBuckets
  <2>2. OfBuckets'
    BY <1>10, <2>1 DEF OfBuckets, Tick
  <2> QED
    BY <1>10, <1>b, <1>d, <1>e, <2>2 DEF Tick, handlervars
<1> QED
  BY <1>1, <1>2, <1>3, <1>4, <1>5, <1>6, <1>7, <1>8, <1>9, <1>10 DEF Next

\* Checks stay timed: while one is under way there is no tick.
LEMMA TimedStep == RateInv /\ TypeOK' /\ [Next]_vars => ChecksAreTimed'
<1> SUFFICES ASSUME RateInv, TypeOK', [Next]_vars PROVE ChecksAreTimed'
    OBVIOUS
<1>0. /\ TypeOK /\ ChecksAreTimed /\ now \in Nat
      /\ \A h \in Handler : chk[h].t \in Tenant
      /\ \A t \in Tenant : since[t] \in Nat /\ lim[t].rps \in Nat
  BY DEF RateInv, TypeOK, LimitRecord
<1> DEFINE Begun == \A h \in Handler : hpc[h] \in {"rpsBucket", "rpsTake"} => since[chk[h].t] <= now
           Current == \A h \in Handler : hpc[h] = "rpsTake"
                                         => \A b \in bucket[chk[h].t] : b.last = now
           Past == \A t \in Tenant : \A b \in bucket[t] : b.last <= now
           Opened == \A t \in Tenant : granted[t] > 0 => since[t] <= now
<1>a. Begun /\ Current /\ Past /\ Opened
  BY <1>0 DEF ChecksAreTimed
<1>b. ASSUME Begun', Current', Past', Opened' PROVE ChecksAreTimed'
  BY <1>b DEF ChecksAreTimed
<1>c. ASSUME NEW h \in Handler, Moves(h), UNCHANGED <<since, now>>,
             \/ hpc'[h] \notin {"rpsBucket", "rpsTake"}
             \/ hpc[h] = "rpsBucket" /\ chk'[h] = chk[h]
      PROVE  Begun'
  BY <1>a, <1>c DEF Moves
<1>d. ASSUME NEW h \in Handler, Moves(h), UNCHANGED <<bucket, now>>, hpc'[h] # "rpsTake"
      PROVE  Current'
  BY <1>a, <1>d DEF Moves
<1>e. UNCHANGED <<hpc, chk, since, now>> => Begun'
  BY <1>a
<1>f. UNCHANGED <<hpc, chk, bucket, now>> => Current'
  BY <1>a
<1>g. UNCHANGED <<bucket, now>> => Past'
  BY <1>a
<1>h. UNCHANGED <<granted, since, now>> => Opened'
  BY <1>a
<1> HIDE DEF Begun, Current, Past, Opened
<1>1. ASSUME NEW h \in Handler, NEW t \in Tenant, AllowRPS(h, t) PROVE ChecksAreTimed'
  <2>1. /\ Moves(h) /\ now' = now /\ bucket' = bucket /\ granted' = granted
        /\ \/ hpc'[h] = "idle"
           \/ lim[t].rps # 0 /\ hpc'[h] = "rpsBucket" /\ chk'[h].t = t
    BY <1>0, <1>1, BeginFacts DEF AllowRPS, limitervars
  <2>2. /\ \A s \in Tenant : since[s] <= now => since'[s] <= now
        /\ lim[t].rps # 0 => since'[t] <= now
    BY <1>0, <1>1 DEF AllowRPS, AtMost, TypeOK
  <2>3. Begun'
    BY <1>0, <1>a, <2>1, <2>2 DEF Begun, Moves
  <2>4. Current' /\ Past'
    BY <1>d, <1>g, <2>1
  <2>5. Opened'
    BY <1>a, <2>1, <2>2 DEF Opened
  <2> QED
    BY <1>b, <2>3, <2>4, <2>5
<1>2. ASSUME NEW h \in Handler, NEW t \in Tenant, NEW n \in FrameSizes, AllowBytes(h, t, n)
      PROVE  ChecksAreTimed'
  <2>0. PICK u \in BOOLEAN : Begin(h, t, n, u, "byteBucket")
    BY <1>2 DEF AllowBytes
  <2>1. /\ Moves(h) /\ hpc'[h] \notin {"rpsBucket", "rpsTake"}
        /\ UNCHANGED <<now, bucket, granted, since>>
    BY <1>0, <1>2, <2>0, BeginFacts DEF AllowBytes, limitervars, historyvars
  <2> QED
    BY <1>b, <1>c, <1>d, <1>g, <1>h, <2>1
<1>3. ASSUME NEW h \in Handler, GetOrCreateBucket(h) PROVE ChecksAreTimed'
  <2> DEFINE t == chk[h].t
  <2>0. /\ Goto(h, IF hpc[h] = "rpsBucket" THEN "rpsTake" ELSE "byteTake", chk[h])
        /\ UNCHANGED <<now, granted, since>>
    BY <1>3 DEF GetOrCreateBucket, historyvars
  <2>1. /\ Moves(h) /\ t \in Tenant /\ chk'[h] = chk[h]
        /\ \/ hpc[h] = "rpsBucket" /\ hpc'[h] = "rpsTake"
           \/ hpc'[h] = "byteTake"
        /\ UNCHANGED <<now, granted, since>>
    BY <1>0, <2>0, GotoFacts
  <2>2. \A s \in Tenant \ {t} : bucket'[s] = bucket[s]
    BY <1>0, <1>3 DEF GetOrCreateBucket, TypeOK
  <2>3. ASSUME NEW b \in bucket'[t] PROVE b.last = now
    <3>1. CASE bucket[t] = {}
      <4>1. b = NewBucket(chk[h].l)
        BY <1>0, <1>3, <2>1, <3>1 DEF GetOrCreateBucket, TypeOK
      <4> QED
        BY <4>1 DEF NewBucket
    <3>2. CASE bucket[t] # {}
      <4>1. PICK d \in bucket[t] : b = [d EXCEPT !.last = now]
        BY <1>0, <1>3, <2>1, <3>2 DEF GetOrCreateBucket, TypeOK
      <4>2. d \in Bucket
        BY <1>0, <2>1 DEF TypeOK
      <4> QED
        BY <4>1, <4>2 DEF Bucket
    <3> QED
      BY <3>1, <3>2
  <2> HIDE DEF t
  <2>4. Begun'
    BY <1>c, <2>1
  <2>5. Current'
    <3> SUFFICES ASSUME NEW g \in Handler, hpc'[g] = "rpsTake", NEW b \in bucket'[chk'[g].t]
                 PROVE  b.last = now
      BY <2>1 DEF Current
    <3>1. CASE chk'[g].t = t
      BY <2>3, <3>1
    <3>2. CASE chk'[g].t # t
      <4>1. hpc[g] = "rpsTake" /\ chk'[g] = chk[g]
        BY <2>1, <3>2 DEF Moves, t
      <4> QED
        BY <1>0, <1>a, <2>2, <3>2, <4>1 DEF Current
    <3> QED
      BY <3>1, <3>2
  <2>6. Past'
    <3> SUFFICES ASSUME NEW u \in Tenant, NEW b \in bucket'[u] PROVE b.last <= now
      BY <2>1 DEF Past
    <3> QED
      BY <1>0, <1>a, <2>2, <2>3 DEF Past
  <2> QED
    BY <1>b, <1>h, <2>1, <2>4, <2>5, <2>6
<1>i. ASSUME \A t \in Tenant : Spends(t), UNCHANGED now PROVE Past'
  BY <1>a, <1>i DEF Past, Spends
<1>4. ASSUME NEW h \in Handler, RPSTake(h) \/ ByteTake(h) PROVE ChecksAreTimed'
  <2>1. /\ Moves(h) /\ hpc'[h] \notin {"rpsBucket", "rpsTake"}
        /\ UNCHANGED <<now, since>>
    BY <1>0, <1>4, GotoFacts, DecideFacts DEF RPSTake, ByteTake, historyvars
  <2>2. \A t \in Tenant : Spends(t)
    BY <1>0, <1>4, SpendFacts
  <2>3. Begun' /\ Past'
    BY <1>c, <1>i, <2>1, <2>2
  <2>4. Current'
    BY <1>0, <1>a, <2>1, <2>2 DEF Current, Moves, Spends
  <2>5. Opened'
    <3>1. \A t \in Tenant : granted'[t] = granted[t] \/ since[t] <= now
      <4>1. CASE ByteTake(h)
        BY <4>1 DEF ByteTake, historyvars
      <4>2. CASE RPSTake(h)
        <5>1. since[chk[h].t] <= now
          BY <1>a, <4>2 DEF Begun, RPSTake
        <5>2. \A t \in Tenant \ {chk[h].t} : granted'[t] = granted[t]
          BY <1>0, <4>2 DEF RPSTake, TypeOK
        <5> QED
          BY <5>1, <5>2
      <4> QED
        BY <1>4, <4>1, <4>2
    <3> QED
      BY <1>a, <2>1, <3>1 DEF Opened
  <2> QED
    BY <1>b, <2>3, <2>4, <2>5
<1>5. ASSUME NEW h \in Handler,
             QuotaCache(h) \/ QuotaQuery(h) \/ QuotaQueryFails(h) \/ QuotaStore(h)
      PROVE  ChecksAreTimed'
  <2>1. UNCHANGED <<now, since, granted, bucket>>
    BY <1>5 DEF QuotaCache, QuotaQuery, QuotaQueryFails, QuotaStore, historyvars, limitervars
  <2>2. Moves(h) /\ hpc'[h] \notin {"rpsBucket", "rpsTake"}
    BY <1>0, <1>5, GotoFacts, DecideFacts
       DEF QuotaCache, QuotaQuery, QuotaQueryFails, QuotaStore, DecideQuota
  <2> QED
    BY <1>b, <1>c, <1>d, <1>g, <1>h, <2>1, <2>2
<1>6. CASE EvictBuckets
  <2>1. \A t \in Tenant : bucket'[t] \subseteq bucket[t]
    BY <1>0, <1>6 DEF EvictBuckets, TypeOK
  <2>2. UNCHANGED <<now, since, granted, hpc, chk>>
    BY <1>6 DEF EvictBuckets, historyvars, handlervars
  <2>3. Current' /\ Past'
    BY <1>0, <1>a, <2>1, <2>2 DEF Current, Past
  <2> QED
    BY <1>b, <1>e, <1>h, <2>2, <2>3
<1>7. CASE RefreshQuotaCache \/ LimiterStop \/ UNCHANGED vars
  BY <1>7, <1>b, <1>e, <1>f, <1>g, <1>h
     DEF RefreshQuotaCache, LimiterStop, vars, historyvars, handlervars, limitervars
<1>8. ASSUME NEW t \in Tenant,
             \/ \E l \in Limits : UpdateTenant(t, l)
             \/ DeleteTenant(t) \/ \E n \in FrameSizes : UsageGrows(t, n)
      PROVE  ChecksAreTimed'
  <2>1. UNCHANGED <<now, since, granted, bucket, hpc, chk>>
    BY <1>8 DEF UpdateTenant, DeleteTenant, UsageGrows, historyvars, handlervars, limitervars
  <2> QED
    BY <1>b, <1>e, <1>f, <1>g, <1>h, <2>1
<1>9. CASE Tick
  <2>1. /\ \A h \in Handler : hpc'[h] = "idle"
        /\ now' = now + 1 /\ UNCHANGED <<since, granted>>
    BY <1>9 DEF Tick, handlervars
  <2>2. Begun' /\ Current'
    BY <2>1 DEF Begun, Current
  <2>3. Opened'
    BY <1>0, <1>a, <2>1 DEF Opened
  <2>4. Past'
    <3> SUFFICES ASSUME NEW t \in Tenant, NEW b \in bucket'[t] PROVE b.last <= now + 1
      BY <2>1 DEF Past
    <3>1. PICK d \in bucket[t] : b = Refill(d)
      BY <1>0, <1>9 DEF Tick, TypeOK
    <3>2. d \in Bucket /\ d.last \in Nat
      BY <1>0 DEF TypeOK, Bucket
    <3> QED
      BY <1>0, <1>a, <3>1, <3>2, RefillFacts DEF Past
  <2> QED
    BY <1>b, <2>2, <2>3, <2>4
<1> QED
  BY <1>1, <1>2, <1>3, <1>4, <1>5, <1>6, <1>7, <1>8, <1>9 DEF Next

\* Every step keeps what was granted, and what is held, paid for.
LEMMA PaidStep == RateInv /\ TypeOK' /\ [Next]_vars => AllPaid'
<1> SUFFICES ASSUME RateInv, TypeOK', [Next]_vars, NEW t \in Tenant PROVE Paid(t)'
    BY DEF AllPaid
<1>0. /\ TypeOK /\ LimitsAreKnown /\ ChecksAreTimed /\ Paid(t)
      /\ \A h \in Handler : chk[h].t \in Tenant /\ chk[h].l \in LimitRecord
  BY DEF RateInv, TypeOK, AllPaid
<1>a. /\ now \in Nat /\ granted[t] \in Nat /\ since[t] \in Nat /\ most[t] \in Nat
      /\ granted'[t] \in Nat /\ since'[t] \in Nat /\ most'[t] \in Nat
      /\ \A b \in bucket[t] : b \in Bucket /\ b.tokens \in Nat /\ b.last \in Nat /\ b.rate \in Nat
      /\ \A b \in bucket'[t] : b \in Bucket /\ b.tokens \in Nat /\ b.last \in Nat
  BY <1>0 DEF TypeOK, Bucket
<1>b. /\ granted[t] > 0 => since[t] <= now
      /\ \A b \in bucket[t] : /\ b.last <= now /\ b.rate <= most[t]
                              /\ b.tokens <= most[t]
  <2>1. \A b \in bucket[t] : b.tokens <= b.cap /\ b.cap <= most[t] /\ b.cap \in Nat
    BY <1>0, <1>a DEF LimitsAreKnown, Bucket
  <2> QED
    BY <1>0, <1>a, <2>1 DEF LimitsAreKnown, ChecksAreTimed
<1>n. since[t] <= now => most[t] * (1 + now - since[t]) \in Nat
  <2> DEFINE k == 1 + now - since[t]
  <2>1. since[t] <= now => k \in Nat
    BY <1>a
  <2>2. most[t] \in Nat
    BY <1>a
  <2> HIDE DEF k
  <2>3. since[t] <= now => most[t] * k \in Nat
    BY <2>1, <2>2, TimesNat
  <2> QED
    BY <2>3 DEF k
<1>m. ASSUME NEW k \in Nat, NEW j \in Nat, k <= j, NEW p \in Nat, most[t] <= p
      PROVE  most[t] * k <= p * j /\ most[t] * k \in Nat /\ p * j \in Nat
  <2> DEFINE m == most[t]
  <2>1. m \in Nat /\ m <= p
    BY <1>a, <1>m
  <2> HIDE DEF m
  <2>2. m * k <= p * j /\ m * k \in Nat /\ p * j \in Nat
    BY <1>m, <2>1, TimesMono, TimesNat
  <2> QED
    BY <2>2 DEF m
<1>c. ASSUME \A b \in bucket'[t] : \E d \in bucket[t] : b.tokens <= d.tokens /\ b.last = d.last,
             bucket'[t] = {} => bucket[t] = {}, now' = now,
             granted'[t] = granted[t], since'[t] = since[t], most'[t] = most[t]
      PROVE  Paid(t)'
  <2>1. ASSUME NEW b \in bucket'[t]
        PROVE  /\ since[t] <= now => granted[t] + b.tokens <= most[t] * (1 + now - since[t])
               /\ granted[t] > 0 => /\ since[t] <= b.last
                                    /\ granted[t] <= most[t] * (1 + b.last - since[t])
    <3>1. PICK d \in bucket[t] : b.tokens <= d.tokens /\ b.last = d.last
      BY <1>c
    <3>2. CASE since[t] <= now
      <4>1. most[t] * (1 + now - since[t]) \in Nat
        BY <1>n, <3>2
      <4> QED
        BY <1>0, <1>a, <3>1, <3>2, <4>1 DEF Paid
    <3> QED
      BY <1>0, <1>b, <3>1, <3>2 DEF Paid
  <2> QED
    BY <1>0, <1>c, <2>1 DEF Paid
<1>d. ASSUME bucket'[t] = bucket[t], now' = now, granted'[t] = granted[t],
             since'[t] = since[t], most'[t] = most[t]
      PROVE  Paid(t)'
  BY <1>a, <1>c, <1>d
<1>1. ASSUME NEW h \in Handler, NEW u \in Tenant, AllowRPS(h, u) PROVE Paid(t)'
  <2>1. UNCHANGED <<now, bucket, granted, most>>
    BY <1>1 DEF AllowRPS, limitervars
  <2>2. since'[t] = since[t] \/ (since'[t] = now /\ ~(since[t] <= now))
    <3>1. PICK x \in Nat : /\ x = since[u] \/ x = AtMost(since[u], now)
                           /\ since' = [since EXCEPT ![u] = x]
      BY <1>0, <1>1, <1>a DEF AllowRPS, AtMost, TypeOK
    <3>2. t # u => since'[t] = since[t]
      BY <1>0, <3>1 DEF TypeOK
    <3>3. t = u => since'[t] = x
      BY <1>0, <3>1 DEF TypeOK
    <3> QED
      BY <1>a, <3>1, <3>2, <3>3 DEF AtMost
  <2>3. CASE since'[t] = now /\ ~(since[t] <= now)
    <3>1. granted[t] = 0
      BY <1>a, <1>b, <2>3
    <3>2. most[t] * (1 + now - now) = most[t]
      BY <1>a
    <3> QED
      BY <1>a, <1>b, <2>1, <2>3, <3>1, <3>2 DEF Paid
  <2> QED
    BY <1>d, <2>1, <2>2, <2>3
<1>2. ASSUME NEW h \in Handler, GetOrCreateBucket(h) PROVE Paid(t)'
  <2>1. UNCHANGED <<now, since, granted, most>>
    BY <1>2 DEF GetOrCreateBucket, historyvars
  <2>2. CASE t # chk[h].t
    BY <1>0, <1>2, <1>d, <2>1, <2>2 DEF GetOrCreateBucket, TypeOK
  <2>3. CASE t = chk[h].t /\ bucket[t] = {}
    <3>1. bucket'[t] = {NewBucket(chk[h].l)}
      BY <1>0, <1>2, <2>3 DEF GetOrCreateBucket, TypeOK
    <3> DEFINE b == NewBucket(chk[h].l)
    <3>2. b \in Bucket /\ b.last = now /\ b.tokens = Burst(chk[h].l)
      BY <1>0, <1>a, <3>1, NewBucketFacts
    <3>3. b.tokens <= most[t] /\ b.tokens \in Nat
      BY <1>0, <1>2, <1>a, <2>3, <3>2, CeilingFacts DEF LimitsAreKnown, GetOrCreateBucket
    <3> HIDE DEF b
    <3>4. ASSUME since[t] <= now
          PROVE  granted[t] + b.tokens <= most[t] * (1 + now - since[t])
      <4> DEFINE k == now - since[t]
      <4>1. k \in Nat /\ 1 + now - since[t] = k + 1
        BY <1>a, <3>4
      <4>2. granted[t] <= most[t] * k
        BY <1>0, <1>a, <2>3, <4>1, TimesNat DEF Paid
      <4> HIDE DEF k
      <4>3. most[t] * (k + 1) = most[t] * k + most[t] /\ most[t] * k \in Nat
        BY <1>a, <4>1, TimesSucc, TimesNat
      <4> QED
        BY <1>a, <3>3, <4>1, <4>2, <4>3
    <3>5. granted[t] > 0 => granted[t] <= most[t] * (1 + now - since[t])
      <4>1. since[t] <= now => most[t] * (1 + now - since[t]) \in Nat
        BY <1>n
      <4> QED
        BY <1>a, <1>b, <3>3, <3>4, <4>1
    <3>6. bucket'[t] = {b}
      BY <3>1 DEF b
    <3> QED
      BY <1>b, <2>1, <3>2, <3>4, <3>5, <3>6 DEF Paid
  <2>4. CASE t = chk[h].t /\ bucket[t] # {}
    <3>1. bucket'[t] = {[b EXCEPT !.last = now] : b \in bucket[t]}
      BY <1>0, <1>2, <2>4 DEF GetOrCreateBucket, TypeOK
    <3>2. ASSUME NEW b \in bucket'[t]
          PROVE  /\ since[t] <= now => granted[t] + b.tokens <= most[t] * (1 + now - since[t])
                 /\ b.last = now
                 /\ granted[t] > 0 => granted[t] <= most[t] * (1 + now - since[t])
      <4>1. PICK d \in bucket[t] : b = [d EXCEPT !.last = now]
        BY <3>1
      <4>2. b.tokens = d.tokens /\ b.last = now
        BY <1>a, <4>1 DEF Bucket
      <4>3. since[t] <= now => most[t] * (1 + now - since[t]) \in Nat
        BY <1>n
      <4>4. since[t] <= now => granted[t] + d.tokens <= most[t] * (1 + now - since[t])
        BY <1>0 DEF Paid
      <4> QED
        BY <1>a, <1>b, <4>2, <4>3, <4>4
    <3>3. bucket'[t] # {}
      BY <2>4, <3>1
    <3> QED
      BY <1>b, <2>1, <3>2, <3>3 DEF Paid
  <2> QED
    BY <2>2, <2>3, <2>4
<1>3. ASSUME NEW h \in Handler, RPSTake(h) PROVE Paid(t)'
  <2>1. UNCHANGED <<now, since, most>>
    BY <1>3 DEF RPSTake
  <2>2. PICK b \in bucket[chk[h].t] :
          \/ UNCHANGED <<bucket, granted>>
          \/ /\ HasToken(b)
             /\ bucket' = [bucket EXCEPT ![chk[h].t] = {TakeToken(b)}]
             /\ granted' = [granted EXCEPT ![chk[h].t] = @ + 1]
    BY <1>3 DEF RPSTake
  <2>3. CASE t # chk[h].t \/ UNCHANGED <<bucket, granted>>
    BY <1>0, <1>d, <2>1, <2>2, <2>3 DEF TypeOK
  <2>4. CASE t = chk[h].t /\ ~UNCHANGED <<bucket, granted>>
    <3>1. bucket'[t] = {TakeToken(b)} /\ granted'[t] = granted[t] + 1 /\ HasToken(b)
      BY <1>0, <2>2, <2>4 DEF TypeOK
    <3>2. b \in bucket[t] /\ b.last = now /\ since[t] <= now
      BY <1>0, <1>3, <2>4 DEF RPSTake, ChecksAreTimed
    <3>3. TakeToken(b).tokens = b.tokens - 1 /\ TakeToken(b).last = b.last /\ b.tokens >= 1
      BY <1>a, <3>1, <3>2 DEF TakeToken, HasToken, Bucket
    <3>4. granted[t] + b.tokens <= most[t] * (1 + now - since[t])
      BY <1>0, <3>2 DEF Paid
    <3>5. most[t] * (1 + now - since[t]) \in Nat
      BY <1>n, <3>2
    <3>6. /\ granted'[t] + TakeToken(b).tokens <= most[t] * (1 + now - since[t])
          /\ granted'[t] <= most[t] * (1 + now - since[t])
      BY <1>a, <3>1, <3>2, <3>3, <3>4, <3>5
    <3> QED
      BY <2>1, <3>1, <3>2, <3>3, <3>6 DEF Paid
  <2> QED
    BY <2>3, <2>4
<1>4. ASSUME NEW h \in Handler, ByteTake(h) PROVE Paid(t)'
  <2>1. UNCHANGED <<now, since, granted, most>>
    BY <1>4 DEF ByteTake, historyvars
  <2>2. bucket'[t] = {} => bucket[t] = {}
    <3>1. PICK b : bucket' = bucket \/ bucket' = [bucket EXCEPT ![chk[h].t] = {b}]
      BY <1>4 DEF ByteTake
    <3>2. DOMAIN bucket = Tenant
      BY <1>0 DEF TypeOK
    <3>3. bucket'[t] = bucket[t] \/ bucket'[t] = {b}
      BY <3>1, <3>2
    <3> QED
      BY <3>3
  <2>3. Spends(t)
    BY <1>0, <1>4, SpendFacts
  <2> QED
    BY <1>c, <2>1, <2>2, <2>3 DEF Spends
<1>5. CASE EvictBuckets
  <2>1. UNCHANGED <<now, since, granted, most>> /\ bucket'[t] = {b \in bucket[t] : ~Idle(b)}
    BY <1>5 DEF EvictBuckets, historyvars
  <2>2. CASE \A b \in bucket[t] : ~Idle(b)
    BY <1>d, <2>1, <2>2
  <2>3. ASSUME NEW b \in bucket[t], Idle(b) PROVE Paid(t)'
    <3>1. bucket'[t] = {}
      BY <1>0, <2>1, <2>3 DEF TypeOK
    <3>2. b.last + 1 <= now
      BY <1>a, <2>3, LimiterAssumption DEF Idle
    <3>3. ASSUME granted[t] > 0 PROVE granted[t] <= most[t] * (now - since[t])
      <4> DEFINE k == 1 + b.last - since[t]
                 j == now - since[t]
      <4>1. since[t] <= b.last /\ granted[t] <= most[t] * k
        BY <1>0, <3>3 DEF Paid
      <4>2. k \in Nat /\ j \in Nat /\ k <= j
        BY <1>a, <3>2, <4>1
      <4> HIDE DEF k, j
      <4>3. most[t] * k <= most[t] * j /\ most[t] * k \in Nat /\ most[t] * j \in Nat
        BY <1>a, <1>m, <4>2
      <4>4. granted[t] <= most[t] * j
        BY <1>a, <4>1, <4>3
      <4> QED
        BY <4>4 DEF j
    <3> QED
      BY <2>1, <3>1, <3>3 DEF Paid
  <2> QED
    BY <2>2, <2>3
<1>6. ASSUME NEW u \in Tenant, NEW l \in Limits, UpdateTenant(u, l) PROVE Paid(t)'
  <2>1. UNCHANGED <<now, since, granted, bucket>>
    BY <1>6 DEF UpdateTenant, limitervars
  <2>2. most[t] <= most'[t]
    <3>1. Ceiling(l) \in Nat
      BY LimiterAssumption, CeilingFacts
    <3> QED
      BY <1>0, <1>6, <1>a, <3>1 DEF UpdateTenant, AtLeast, TypeOK
  <2>3. ASSUME NEW k \in Nat, NEW x \in Nat, x <= most[t] * k PROVE x <= most'[t] * k
    <3>1. most[t] * k <= most'[t] * k /\ most[t] * k \in Nat /\ most'[t] * k \in Nat
      BY <1>a, <1>m, <2>2
    <3> QED
      BY <2>3, <3>1
  <2>4. ASSUME NEW b \in bucket[t], since[t] <= now
        PROVE  granted[t] + b.tokens <= most'[t] * (1 + now - since[t])
    <3>1. 1 + now - since[t] \in Nat /\ granted[t] + b.tokens \in Nat
      BY <1>a, <2>4
    <3>2. granted[t] + b.tokens <= most[t] * (1 + now - since[t])
      BY <1>0, <2>4 DEF Paid
    <3> QED
      BY <2>3, <3>1, <3>2
  <2>5. ASSUME NEW b \in bucket[t], granted[t] > 0
        PROVE  since[t] <= b.last /\ granted[t] <= most'[t] * (1 + b.last - since[t])
    <3>1. since[t] <= b.last /\ granted[t] <= most[t] * (1 + b.last - since[t])
      BY <1>0, <2>5 DEF Paid
    <3>2. 1 + b.last - since[t] \in Nat
      BY <1>a, <3>1
    <3> QED
      BY <1>a, <2>3, <3>1, <3>2
  <2>6. ASSUME granted[t] > 0, bucket[t] = {} PROVE granted[t] <= most'[t] * (now - since[t])
    <3>1. now - since[t] \in Nat
      BY <1>a, <1>b, <2>6
    <3>2. granted[t] <= most[t] * (now - since[t])
      BY <1>0, <2>6 DEF Paid
    <3> QED
      BY <1>a, <2>3, <3>1, <3>2
  <2> QED
    BY <2>1, <2>4, <2>5, <2>6 DEF Paid
<1>7. CASE Tick
  <2>1. /\ now' = now + 1 /\ UNCHANGED <<since, granted, most>>
        /\ bucket'[t] = {Refill(b) : b \in bucket[t]}
        /\ \A h \in Handler : hpc[h] = "idle"
    BY <1>7 DEF Tick
  <2> DEFINE k == now - since[t]
  <2>2. since[t] <= now => /\ k \in Nat /\ 1 + now - since[t] = k + 1
                           /\ 1 + (now + 1) - since[t] = (k + 1) + 1
                           /\ (now + 1) - since[t] = k + 1
    BY <1>a
  <2>3. ASSUME since[t] <= now
        PROVE  /\ most[t] * k \in Nat /\ most[t] * (k + 1) = most[t] * k + most[t]
               /\ most[t] * ((k + 1) + 1) = most[t] * (k + 1) + most[t]
    <3>1. k \in Nat /\ k + 1 \in Nat
      BY <2>2, <2>3
    <3> HIDE DEF k
    <3> QED
      BY <1>a, <3>1, TimesSucc, TimesNat
  <2>4. ASSUME NEW d \in bucket[t], since[t] <= now + 1
        PROVE  granted[t] + Refill(d).tokens <= most[t] * (1 + (now + 1) - since[t])
    <3>1. /\ Refill(d).tokens <= d.tokens + d.rate /\ Refill(d).tokens \in Nat
          /\ Refill(d).tokens <= d.cap /\ d.cap \in Nat
      BY <1>a, RefillFacts DEF Bucket
    <3>2. CASE since[t] <= now
      <4>1. granted[t] + d.tokens <= most[t] * (k + 1)
        BY <1>0, <2>2, <3>2 DEF Paid
      <4>2. granted[t] + Refill(d).tokens <= most[t] * (k + 1) + most[t]
        <5> HIDE DEF k
        <5>1. most[t] * (k + 1) \in Nat
          BY <1>a, <2>3, <3>2
        <5> QED
          BY <1>a, <1>b, <3>1, <4>1, <5>1
      <4> QED
        BY <2>2, <2>3, <3>2, <4>2
    <3>3. CASE since[t] = now + 1
      <4>1. granted[t] = 0
        BY <1>a, <1>b, <3>3
      <4>2. d.cap <= most[t]
        BY <1>0 DEF LimitsAreKnown
      <4>3. most[t] * (1 + (now + 1) - since[t]) = most[t]
        BY <1>a, <3>3
      <4> QED
        BY <1>a, <3>1, <4>1, <4>2, <4>3
    <3> QED
      BY <1>a, <2>4, <3>2, <3>3
  <2>5. ASSUME granted[t] > 0, bucket[t] = {}
        PROVE  granted[t] <= most[t] * ((now + 1) - since[t])
    <3>1. since[t] <= now /\ granted[t] <= most[t] * k
      BY <1>0, <1>b, <2>5 DEF Paid
    <3>2. most[t] * k \in Nat /\ most[t] * ((now + 1) - since[t]) = most[t] * k + most[t]
      BY <2>2, <2>3, <3>1
    <3> HIDE DEF k
    <3> QED
      BY <1>a, <3>1, <3>2
  <2>6. ASSUME NEW d \in bucket[t], granted[t] > 0
        PROVE  /\ since[t] <= Refill(d).last
               /\ granted[t] <= most[t] * (1 + Refill(d).last - since[t])
    BY <1>0, <1>a, <2>6, RefillFacts DEF Paid
  <2> HIDE DEF k
  <2>7. ASSUME NEW b \in bucket'[t]
        PROVE  /\ since'[t] <= now' => granted'[t] + b.tokens <= most'[t] * (1 + now' - since'[t])
               /\ granted'[t] > 0 => /\ since'[t] <= b.last
                                     /\ granted'[t] <= most'[t] * (1 + b.last - since'[t])
    <3>1. PICK d \in bucket[t] : b = Refill(d)
      BY <2>1
    <3> QED
      BY <2>1, <2>4, <2>6, <3>1
  <2>8. granted'[t] > 0 /\ bucket'[t] = {} => granted'[t] <= most'[t] * (now' - since'[t])
    <3>1. UNCHANGED <<since, granted, most>> /\ now' = now + 1
      BY <2>1
    <3>2. bucket'[t] = {} => bucket[t] = {}
      BY <2>1
    <3> QED
      BY <2>5, <3>1, <3>2
  <2> QED
    BY <2>7, <2>8 DEF Paid
<1>8. CASE UNCHANGED <<now, bucket, granted, since, most>>
  BY <1>d, <1>8
<1>9. ASSUME NEW h \in Handler,
             \/ \E u \in Tenant, n \in FrameSizes : AllowBytes(h, u, n)
             \/ QuotaCache(h) \/ QuotaQuery(h) \/ QuotaQueryFails(h) \/ QuotaStore(h)
      PROVE  UNCHANGED <<now, bucket, granted, since, most>>
  BY <1>9 DEF AllowBytes, QuotaCache, QuotaQuery, QuotaQueryFails, QuotaStore, limitervars,
              historyvars
<1>10. ASSUME \/ RefreshQuotaCache \/ LimiterStop \/ UNCHANGED vars
              \/ \E u \in Tenant : DeleteTenant(u) \/ \E n \in FrameSizes : UsageGrows(u, n)
       PROVE  UNCHANGED <<now, bucket, granted, since, most>>
  BY <1>10 DEF RefreshQuotaCache, LimiterStop, vars, DeleteTenant, UsageGrows, limitervars,
               historyvars
<1> QED
  BY <1>1, <1>2, <1>3, <1>4, <1>5, <1>6, <1>7, <1>8, <1>9, <1>10 DEF Next

\* At the start nothing has been granted.
LEMMA RateInit == Init => RateInv
<1> SUFFICES ASSUME Init PROVE RateInv
    OBVIOUS
<1>1. TypeOK
  BY TypeInit
<1>2. \A t \in Tenant : lim[t] \in LimitRecord /\ most[t] = Ceiling(lim[t])
  BY <1>1 DEF Init, TypeOK
<1>3. LimitsAreKnown
  BY <1>2, CeilingFacts DEF Init, LimitsAreKnown
<1>4. ChecksAreTimed
  BY DEF Init, ChecksAreTimed
<1>5. AllPaid
  <2> SUFFICES ASSUME NEW t \in Tenant PROVE Paid(t)
    BY DEF AllPaid
  <2>1. bucket[t] = {} /\ granted[t] = 0
    BY DEF Init
  <2> QED
    BY <2>1 DEF Paid
<1> QED
  BY <1>1, <1>3, <1>4, <1>5 DEF RateInv

LEMMA RateIsPaid == RateInv => RateIsBounded
<1> SUFFICES ASSUME RateInv, NEW t \in Tenant, granted[t] > 0
             PROVE  granted[t] <= most[t] * (1 + now - since[t])
    BY DEF RateIsBounded
<1>1. /\ now \in Nat /\ granted[t] \in Nat /\ since[t] \in Nat /\ most[t] \in Nat
      /\ since[t] <= now /\ Paid(t)
  <2>1. now \in Nat /\ granted[t] \in Nat /\ since[t] \in Nat /\ most[t] \in Nat
    BY DEF RateInv, TypeOK
  <2>2. since[t] <= now
    BY DEF RateInv, ChecksAreTimed
  <2>3. Paid(t)
    BY DEF RateInv, AllPaid
  <2> QED
    BY <2>1, <2>2, <2>3
<1> DEFINE m == most[t]
           k == now - since[t]
<1>2. k \in Nat /\ m \in Nat /\ 1 + now - since[t] = k + 1
  BY <1>1
<1>3. m * (k + 1) = m * k + m /\ m * k \in Nat
  <2> HIDE DEF m, k
  <2> QED
    BY <1>2, TimesSucc, TimesNat
<1>4. CASE bucket[t] = {}
  <2>1. granted[t] <= m * k
    BY <1>1, <1>4 DEF Paid
  <2>2. granted[t] <= m * (k + 1)
    <3> HIDE DEF m, k
    <3> QED
      BY <1>1, <1>2, <1>3, <2>1
  <2> QED
    BY <1>2, <2>2
<1>5. ASSUME NEW b \in bucket[t] PROVE granted[t] <= most[t] * (1 + now - since[t])
  <2>1. b.tokens \in Nat
    BY DEF RateInv, TypeOK, Bucket
  <2>2. granted[t] + b.tokens <= m * (k + 1)
    BY <1>1, <1>2, <1>5 DEF Paid
  <2>3. granted[t] <= m * (k + 1)
    <3> HIDE DEF m, k
    <3> QED
      BY <1>1, <1>2, <1>3, <2>1, <2>2
  <2> QED
    BY <1>2, <2>3
<1> QED
  BY <1>4, <1>5

\* Every variable of the limiter keeps its type: no bucket is ever overdrawn, and
\* a tenant has one bucket and one cache entry at most, however the checks, the
\* loop and the administrator interleave.
THEOREM LimiterTypeCorrect == Spec => []TypeOK
  BY TypeInit, TypeStep, PTL DEF Spec

\* No tenant is ever granted more requests than one burst and its highest rate
\* since its first request pay for, evictions and new limits included.
THEOREM RateBound == Spec => []RateIsBounded
<1>1. RateInv /\ [Next]_vars => RateInv'
  BY TypeStep, LimitsStep, TimedStep, PaidStep DEF RateInv
<1> QED
  BY <1>1, RateInit, RateIsPaid, PTL DEF Spec

-----------------------------------------------------------------------------
\* Handler h moves, and to no place where it holds a usage it has read.
Leaves(h) == Moves(h) /\ hpc'[h] # "quotaStore"

LEMMA QuotaInit == Init => QuotaInv
<1> SUFFICES ASSUME Init PROVE QuotaInv
    OBVIOUS
<1>1. TypeOK
  BY TypeInit
<1>2. now = 0 /\ now <= MaxTime
  BY LimiterAssumption DEF Init
<1>3. OverIsTimed
  <2> SUFFICES ASSUME NEW t \in Tenant PROVE ~Over(usage[t], lim[t]) /\ overSince[t] = Never
    BY DEF OverIsTimed
  <2>1. usage[t] = 0 /\ lim[t].quota \in Nat
    BY <1>1 DEF Init, TypeOK, LimitRecord
  <2> QED
    BY <2>1 DEF Init, Over
<1>4. EntriesExpire /\ ReadingsAreFresh
  BY DEF Init, EntriesExpire, ReadingsAreFresh
<1> QED
  BY <1>1, <1>2, <1>3, <1>4 DEF QuotaInv

\* Every step keeps the stale readings bounded.
LEMMA QuotaStep == QuotaInv /\ [Next]_vars => QuotaInv'
<1> SUFFICES ASSUME QuotaInv, [Next]_vars PROVE QuotaInv'
    OBVIOUS
<1>0. /\ TypeOK /\ TypeOK' /\ now \in Nat /\ now <= MaxTime
      /\ OverIsTimed /\ EntriesExpire /\ ReadingsAreFresh
  BY TypeStep DEF QuotaInv, TypeOK
<1>1. /\ \A t \in Tenant : /\ lim[t].quota \in Nat /\ usage[t] \in Nat /\ overSince[t] \in Nat
                           /\ \A e \in cache[t] : e.used \in Nat /\ e.expires \in Nat
      /\ \A h \in Handler : chk[h].t \in Tenant /\ chk[h].n \in Nat /\ chk[h].u \in Nat
  BY <1>0 DEF TypeOK, LimitRecord, Entry
<1>2. CacheTicks \in Nat /\ MaxTime \in Nat /\ Never \in Nat /\ now < Never
  BY <1>0, LimiterAssumption DEF Never
<1>a. ASSUME now' <= MaxTime, OverIsTimed', EntriesExpire', ReadingsAreFresh' PROVE QuotaInv'
  BY <1>0, <1>a DEF QuotaInv
<1>b. UNCHANGED <<now, usage, lim, overSince>> => OverIsTimed'
  BY <1>0 DEF OverIsTimed, Over
<1>c. UNCHANGED <<now, lim, overSince>> /\ (\A t \in Tenant : cache'[t] \subseteq cache[t])
      => EntriesExpire'
  BY <1>0 DEF EntriesExpire
<1>d. ASSUME NEW h \in Handler, Leaves(h), UNCHANGED <<now, lim, overSince>>
      PROVE  ReadingsAreFresh'
  BY <1>0, <1>d DEF ReadingsAreFresh, Moves, Leaves
<1>e. UNCHANGED <<now, lim, overSince, hpc, chk>> => ReadingsAreFresh'
  BY <1>0 DEF ReadingsAreFresh
<1>f. UNCHANGED cache => \A t \in Tenant : cache'[t] \subseteq cache[t]
  OBVIOUS
<1>3. ASSUME NEW h \in Handler, Leaves(h), UNCHANGED <<now, usage, lim, overSince, cache>>
      PROVE  QuotaInv'
  BY <1>0, <1>3, <1>a, <1>b, <1>c, <1>d, <1>f
<1>4. ASSUME NEW h \in Handler, NEW t \in Tenant,
             AllowRPS(h, t) \/ \E n \in FrameSizes : AllowBytes(h, t, n)
      PROVE  QuotaInv'
  <2>1. ASSUME AllowRPS(h, t) PROVE Leaves(h)
    <3>1. PICK u \in BOOLEAN : Begin(h, t, 0, u, "rpsBucket")
      BY <2>1 DEF AllowRPS
    <3> QED
      BY <1>0, <3>1, BeginFacts DEF Leaves
  <2>2. ASSUME NEW n \in FrameSizes, AllowBytes(h, t, n) PROVE Leaves(h)
    <3>1. PICK u \in BOOLEAN : Begin(h, t, n, u, "byteBucket")
      BY <2>2 DEF AllowBytes
    <3> QED
      BY <1>0, <3>1, BeginFacts DEF Leaves
  <2>3. Leaves(h)
    BY <1>4, <2>1, <2>2
  <2> QED
    BY <1>3, <1>4, <2>3 DEF AllowRPS, AllowBytes, storevars, limitervars, historyvars
<1>5. ASSUME NEW h \in Handler,
             GetOrCreateBucket(h) \/ RPSTake(h) \/ ByteTake(h) \/ QuotaCache(h)
             \/ QuotaQueryFails(h)
      PROVE  QuotaInv'
  <2>1. Leaves(h)
    BY <1>0, <1>5, GotoFacts, DecideFacts
       DEF GetOrCreateBucket, RPSTake, ByteTake, QuotaCache, QuotaQueryFails, DecideQuota, Leaves
  <2> QED
    BY <1>3, <1>5, <2>1 DEF GetOrCreateBucket, RPSTake, ByteTake, QuotaCache, QuotaQueryFails,
       storevars, limitervars, historyvars
<1>6. ASSUME NEW h \in Handler, QuotaQuery(h) PROVE QuotaInv'
  <2> DEFINE c == [chk[h] EXCEPT !.u = usage[chk[h].t]]
  <2>1. UNCHANGED <<now, usage, lim, overSince, cache>> /\ Goto(h, "quotaStore", c)
    BY <1>6 DEF QuotaQuery, storevars, limitervars, historyvars
  <2>2. c.t = chk[h].t /\ c.u = usage[chk[h].t]
    BY <1>0 DEF TypeOK
  <2> HIDE DEF c
  <2>3. Moves(h) /\ chk'[h] = c
    BY <1>0, <2>1, GotoFacts
  <2>4. usage[c.t] + 1 <= lim[c.t].quota => now <= overSince[c.t]
    BY <1>0, <1>1, <1>2, <2>2 DEF OverIsTimed, Over
  <2>5. ReadingsAreFresh'
    BY <1>0, <2>1, <2>2, <2>3, <2>4 DEF ReadingsAreFresh, Moves
  <2> QED
    BY <1>0, <1>a, <1>b, <1>c, <1>f, <2>1, <2>5
<1>7. ASSUME NEW h \in Handler, QuotaStore(h) PROVE QuotaInv'
  <2> DEFINE e == [used |-> chk[h].u, expires |-> now + CacheTicks]
  <2>1. /\ UNCHANGED <<now, usage, lim, overSince>> /\ hpc[h] = "quotaStore"
        /\ cache' = [cache EXCEPT ![chk[h].t] = {e}]
    BY <1>7 DEF QuotaStore, storevars, historyvars
  <2>2. Leaves(h)
    BY <1>0, <1>7, DecideFacts DEF QuotaStore, DecideQuota, Leaves
  <2>3. e.used + 1 <= lim[chk[h].t].quota => e.expires <= overSince[chk[h].t] + CacheTicks
    BY <1>0, <1>1, <1>2, <2>1 DEF ReadingsAreFresh
  <2>4. e.expires <= now + CacheTicks
    BY <1>0, <1>2
  <2> HIDE DEF e
  <2>5. \A t \in Tenant : cache'[t] = cache[t] \/ (t = chk[h].t /\ cache'[t] = {e})
    BY <1>0, <2>1 DEF TypeOK
  <2>6. EntriesExpire'
    BY <1>0, <2>1, <2>3, <2>4, <2>5 DEF EntriesExpire
  <2> QED
    BY <1>0, <1>a, <1>b, <1>d, <2>1, <2>2, <2>6
<1>8. ASSUME EvictBuckets \/ RefreshQuotaCache \/ LimiterStop
             \/ (\E t \in Tenant : DeleteTenant(t)) \/ UNCHANGED vars
      PROVE  QuotaInv'
  <2>1. UNCHANGED <<now, usage, lim, overSince, hpc, chk>>
    BY <1>8 DEF EvictBuckets, RefreshQuotaCache, LimiterStop, DeleteTenant, vars, storevars,
       historyvars, handlervars
  <2>2. \A t \in Tenant : cache'[t] \subseteq cache[t]
    BY <1>8 DEF EvictBuckets, RefreshQuotaCache, LimiterStop, DeleteTenant, vars, limitervars
  <2> QED
    BY <1>0, <1>a, <1>b, <1>c, <1>e, <2>1, <2>2
<1>9. ASSUME NEW t \in Tenant, NEW l \in Limits, UpdateTenant(t, l) PROVE QuotaInv'
  <2>1. /\ UNCHANGED <<now, usage, cache, hpc, chk>>
        /\ lim'[t] = l /\ overSince'[t] = (IF Over(usage[t], l) THEN now ELSE Never)
        /\ \A s \in Tenant \ {t} : lim'[s] = lim[s] /\ overSince'[s] = overSince[s]
    BY <1>0, <1>9 DEF UpdateTenant, TypeOK, limitervars, handlervars
  <2>2. now <= overSince'[t] /\ overSince'[t] \in Nat
    BY <1>0, <1>2, <2>1
  <2>3. OverIsTimed'
    BY <1>0, <2>1 DEF OverIsTimed
  <2>4. EntriesExpire'
    <3>1. \A e \in cache[t] : e.expires <= overSince'[t] + CacheTicks
      BY <1>0, <1>1, <1>2, <2>2 DEF EntriesExpire
    <3> QED
      BY <1>0, <2>1, <3>1 DEF EntriesExpire
  <2>5. ReadingsAreFresh'
    BY <1>0, <1>1, <2>1, <2>2 DEF ReadingsAreFresh
  <2> QED
    BY <1>0, <1>a, <2>1, <2>3, <2>4, <2>5
<1>10. ASSUME NEW t \in Tenant, NEW n \in FrameSizes, UsageGrows(t, n) PROVE QuotaInv'
  <2>1. /\ UNCHANGED <<now, lim, cache, hpc, chk>>
        /\ usage'[t] = usage[t] + n
        /\ overSince'[t] = (IF Over(usage[t] + n, lim[t]) THEN AtMost(overSince[t], now) ELSE Never)
        /\ \A s \in Tenant \ {t} : usage'[s] = usage[s] /\ overSince'[s] = overSince[s]
    BY <1>0, <1>10 DEF UsageGrows, TypeOK, limitervars, handlervars
  <2>2. /\ overSince'[t] \in Nat
        /\ overSince[t] <= overSince'[t] \/ overSince'[t] = now \/ overSince'[t] = Never
    BY <1>0, <1>1, <1>2, <2>1 DEF AtMost
  <2>3. OverIsTimed'
    <3>1. IF Over(usage'[t], lim[t]) THEN overSince'[t] <= now ELSE overSince'[t] = Never
      BY <1>0, <1>1, <2>1 DEF AtMost
    <3> QED
      BY <1>0, <2>1, <3>1 DEF OverIsTimed
  <2>4. EntriesExpire'
    <3>1. \A e \in cache[t] : e.used + 1 <= lim[t].quota
                               => e.expires <= overSince'[t] + CacheTicks
      BY <1>0, <1>1, <1>2, <2>2 DEF EntriesExpire
    <3> QED
      BY <1>0, <2>1, <3>1 DEF EntriesExpire
  <2>5. ReadingsAreFresh'
    <3>1. now <= overSince[t] => now <= overSince'[t]
      BY <1>0, <1>1, <1>2, <2>2
    <3> QED
      BY <1>0, <1>1, <2>1, <3>1 DEF ReadingsAreFresh
  <2> QED
    BY <1>0, <1>a, <2>1, <2>3, <2>4, <2>5
<1>11. CASE Tick
  <2>1. /\ now' = now + 1 /\ now + 1 <= MaxTime /\ UNCHANGED <<lim, cache, hpc, chk>>
        /\ \A h \in Handler : hpc[h] = "idle"
    BY <1>0, <1>2, <1>11 DEF Tick, handlervars
  <2>2. \A t \in Tenant :
          \/ usage'[t] = usage[t] /\ overSince'[t] = overSince[t]
          \/ usage'[t] = 0 /\ overSince'[t] = Never
    BY <1>11 DEF Tick
  <2>3. OverIsTimed'
    <3> SUFFICES ASSUME NEW t \in Tenant
                 PROVE  IF Over(usage'[t], lim[t]) THEN overSince'[t] <= now + 1
                                                  ELSE overSince'[t] = Never
      BY <2>1 DEF OverIsTimed
    <3>1. ~Over(0, lim[t])
      BY <1>1 DEF Over
    <3>2. IF Over(usage[t], lim[t]) THEN overSince[t] <= now + 1 ELSE overSince[t] = Never
      BY <1>0, <1>1 DEF OverIsTimed
    <3> QED
      BY <2>2, <3>1, <3>2
  <2>4. EntriesExpire'
    <3> SUFFICES ASSUME NEW t \in Tenant, NEW e \in cache[t]
                 PROVE  /\ e.expires <= (now + 1) + CacheTicks
                        /\ e.used + 1 <= lim[t].quota => e.expires <= overSince'[t] + CacheTicks
      BY <2>1 DEF EntriesExpire
    <3>1. /\ e.expires <= now + CacheTicks
          /\ e.used + 1 <= lim[t].quota => e.expires <= overSince[t] + CacheTicks
      BY <1>0 DEF EntriesExpire
    <3> QED
      BY <1>0, <1>1, <1>2, <2>2, <3>1
  <2>5. ReadingsAreFresh'
    BY <2>1 DEF ReadingsAreFresh
  <2> QED
    BY <1>a, <2>1, <2>3, <2>4, <2>5
<1> QED
  BY <1>4, <1>5, <1>6, <1>7, <1>8, <1>9, <1>10, <1>11 DEF Next

\* An allowance that the quota check gives rests on a usage it has read itself or
\* found in the cache, and neither is older than a cache entry lives.
LEMMA OverrunStep ==
    ASSUME QuotaInv, [Next]_vars, NEW h \in Handler,
           hpc[h] \in {"quotaCache", "quotaQuery", "quotaStore"},
           hpc'[h] = "idle", hdec'[h] = "allowed", chk[h].n > 0,
           quotaFailures' = quotaFailures, lim[chk[h].t] = chk[h].l
    PROVE  now <= overSince[chk[h].t] + CacheTicks
<1> DEFINE t == chk[h].t
<1>0. TypeOK /\ EntriesExpire /\ ReadingsAreFresh /\ now \in Nat
  BY DEF QuotaInv, TypeOK
<1>1. /\ t \in Tenant /\ chk[h].n \in Nat /\ chk[h].u \in Nat
      /\ chk[h].l.quota \in Nat /\ overSince[t] \in Nat /\ CacheTicks \in Nat
      /\ \A e \in cache[t] : e.used \in Nat /\ e.expires \in Nat
  BY <1>0, LimiterAssumption DEF TypeOK, LimitRecord, Entry
<1>2. ASSUME NEW used \in Nat, DecideQuota(h, used) PROVE used + 1 <= lim[t].quota
  <2>1. hdec'[h] = IF used + chk[h].n > chk[h].l.quota THEN "daily_quota" ELSE "allowed"
    BY <1>0, <1>2, DecideFacts DEF DecideQuota
  <2> QED
    BY <1>1, <2>1
<1>3. ASSUME NEW g \in Handler, Moves(g) PROVE g = h
  BY <1>3 DEF Moves
<1>4. CASE QuotaCache(h)
  <2>1. PICK e \in cache[t] : Fresh(e) /\ DecideQuota(h, e.used)
    BY <1>0, <1>4, GotoFacts DEF QuotaCache
  <2>2. e.used + 1 <= lim[t].quota
    BY <1>1, <1>2, <2>1
  <2> QED
    BY <1>0, <1>1, <2>1, <2>2 DEF EntriesExpire, Fresh
<1>5. CASE QuotaStore(h)
  <2>1. chk[h].u + 1 <= lim[t].quota /\ hpc[h] = "quotaStore"
    BY <1>1, <1>2, <1>5 DEF QuotaStore
  <2> QED
    BY <1>0, <1>1, <2>1 DEF ReadingsAreFresh
<1>6. ~QuotaQuery(h)
  BY <1>0, GotoFacts DEF QuotaQuery
<1>7. ~QuotaQueryFails(h)
  BY <1>0 DEF QuotaQueryFails, TypeOK
<1>8. ASSUME NEW g \in Handler, NEW s \in Tenant,
             AllowRPS(g, s) \/ \E n \in FrameSizes : AllowBytes(g, s, n)
      PROVE  FALSE
  <2>1. hpc[g] = "idle"
    BY <1>8 DEF AllowRPS, AllowBytes, Begin
  <2>2. Moves(g)
    <3>1. \E n, p : \E u \in BOOLEAN : Begin(g, s, n, u, p)
      <4>1. CASE AllowRPS(g, s)
        BY <4>1 DEF AllowRPS
      <4>2. ASSUME NEW n \in FrameSizes, AllowBytes(g, s, n)
            PROVE  \E u \in BOOLEAN : Begin(g, s, n, u, "byteBucket")
        BY <4>2 DEF AllowBytes
      <4> QED
        BY <1>8, <4>1, <4>2
    <3> QED
      BY <1>0, <3>1, BeginFacts
  <2> QED
    BY <1>3, <2>1, <2>2
<1>9. ASSUME NEW g \in Handler, GetOrCreateBucket(g) \/ RPSTake(g) \/ ByteTake(g) PROVE FALSE
  <2>1. Moves(g) /\ hpc[g] \in {"rpsBucket", "byteBucket", "rpsTake", "byteTake"}
    BY <1>0, <1>9, GotoFacts, DecideFacts DEF GetOrCreateBucket, RPSTake, ByteTake
  <2> QED
    BY <1>3, <2>1
<1>10. ASSUME NEW g \in Handler,
              QuotaCache(g) \/ QuotaQuery(g) \/ QuotaQueryFails(g) \/ QuotaStore(g)
       PROVE  g = h
  <2>1. Moves(g)
    BY <1>0, <1>10, GotoFacts, DecideFacts
       DEF QuotaCache, QuotaQuery, QuotaQueryFails, QuotaStore, DecideQuota
  <2> QED
    BY <1>3, <2>1
<1>11. ASSUME \/ EvictBuckets \/ RefreshQuotaCache \/ LimiterStop \/ Tick \/ UNCHANGED vars
              \/ \E s \in Tenant : \/ \E l \in Limits : UpdateTenant(s, l)
                                   \/ DeleteTenant(s)
                                   \/ \E n \in FrameSizes : UsageGrows(s, n)
       PROVE  FALSE
  <2>1. hpc' = hpc
    BY <1>11 DEF EvictBuckets, RefreshQuotaCache, LimiterStop, Tick, vars, UpdateTenant,
       DeleteTenant, UsageGrows, handlervars
  <2> QED
    BY <2>1
<1> HIDE DEF t
<1>12. QuotaCache(h) \/ QuotaStore(h)
  BY <1>6, <1>7, <1>8, <1>9, <1>10, <1>11 DEF Next
<1> QED
  BY <1>4, <1>5, <1>12 DEF t

\* A tenant whose quota is used up is let through for the life of one cache entry
\* at most, unless the usage query has failed and the failure was counted: for any
\* number of handlers, any limits, and whenever the administrator changes them.
THEOREM QuotaOverrun == Spec => QuotaOverrunIsBounded
<1>1. QuotaInv /\ [Next]_vars =>
        [\A h \in Handler :
            /\ hpc[h] \in {"quotaCache", "quotaQuery", "quotaStore"}
            /\ hpc'[h] = "idle" /\ hdec'[h] = "allowed" /\ chk[h].n > 0
            /\ quotaFailures' = quotaFailures
            /\ lim[chk[h].t] = chk[h].l
            => now <= overSince[chk[h].t] + CacheTicks]_vars
  BY OverrunStep
<1> QED
  BY <1>1, QuotaInit, QuotaStep, PTL DEF Spec, QuotaOverrunIsBounded
=============================================================================
