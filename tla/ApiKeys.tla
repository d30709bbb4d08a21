------------------------------- MODULE ApiKeys ------------------------------
(***************************************************************************)
(* Read-only API keys and their query budget (business/domain/apikeybus,   *)
(* app/domain/apikeyapp, app/sdk/mid/authenticateapikey.go and             *)
(* ratelimitapikey.go, business/sdk/ratelimit).                            *)
(*                                                                         *)
(* A request is authenticated against the key's row and its organization,  *)
(* and then charged to the key's bucket, which is created when it is first *)
(* charged, refilled when it is next charged and dropped by a sweep when   *)
(* nobody charged it for a while.  One tick is a minute.                   *)
(***************************************************************************)
EXTENDS Integers, FiniteSetsExt

CONSTANTS
    ApiKeyIDs,      \* keys
    Readers,        \* concurrent requests to the query API
    DefaultRate,    \* tokens a minute; 0 is unlimited
    DefaultBurst,
    KeyRates,       \* overrides a key may be created with, 0 for none
    KeyBursts,
    CostExport,     \* an export costs this many reads
    IdleMinutes,    \* an unused bucket is kept this long
    TouchInterval,  \* last_used_at is written this often
    LastMinute      \* bound on the clock

ASSUME ApiKeysAssumption ==
    /\ DefaultRate \in Nat /\ DefaultBurst \in Nat /\ CostExport \in Nat \ {0}
    /\ KeyRates \subseteq Nat /\ KeyBursts \subseteq Nat
    /\ IdleMinutes \in Nat /\ TouchInterval \in Nat /\ LastMinute \in Nat

VARIABLES
    minute,     \* the clock
    apiKey,     \* api_keys: [status, rate, burst, expiresAt, lastUsed]
    orgEnabled, \* the organization the keys belong to
    reader,     \* requests that have authenticated and not been charged
    bucket,     \* Limiter.buckets
    swept,      \* Limiter.swept
    lastTouch,  \* the authenticator's own memory of its touches
    allowance   \* history: the tokens of a bucket that refills every minute

apiKeyVars == <<minute, apiKey, orgEnabled, reader, bucket, swept, lastTouch, allowance>>

NeverExpires == 0
Unminted == [status |-> "none", rate |-> 0, burst |-> 0, expiresAt |-> NeverExpires, lastUsed |-> 0]
NoBucket == [tokens |-> 0, last |-> 0]
NotReading == [key |-> "none"]

ApiKeysInit ==
    /\ minute = 1
    /\ apiKey = [k \in ApiKeyIDs |-> Unminted]
    /\ orgEnabled = TRUE
    /\ reader = [r \in Readers |-> NotReading]
    /\ bucket = [k \in ApiKeyIDs |-> NoBucket]
    /\ swept = 0 - IdleMinutes
    /\ lastTouch = [k \in ApiKeyIDs |-> 0]
    /\ allowance = [k \in ApiKeyIDs |-> 0]
----------------------------------------------------------------------------
(* The limiter. *)

\* What the key is allowed: the default, its own rate, its own burst.
KeyPolicy(row) ==
    [rate  |-> IF row.rate > 0 THEN row.rate ELSE DefaultRate,
     burst |-> IF row.burst > 0 THEN row.burst
               ELSE IF row.rate > 0 THEN 0 ELSE DefaultBurst]

\* A policy that names only a rate allows a minute's worth at once.
WithDefaults(p) == IF p.burst = 0 THEN [p EXCEPT !.burst = p.rate] ELSE p

PolicyOf(row) == WithDefaults(KeyPolicy(row))

QueryCost(export) == IF export THEN CostExport ELSE 1

\* A bug: a sweep drops every bucket.
SweepAll(b) == [k \in ApiKeyIDs |-> NoBucket]

\* Buckets nobody charged for longer than IdleMinutes go.
Sweep(b) ==
    IF minute - swept < IdleMinutes THEN b
    ELSE [k \in ApiKeyIDs |-> IF minute - b[k].last > IdleMinutes THEN NoBucket ELSE b[k]]

\* What a bucket holds now: a bucket not held is a full one.
Refilled(b, p) ==
    IF b = NoBucket THEN p.burst ELSE Min({p.burst, b.tokens + (minute - b.last) * p.rate})

\* No request is too big: it is charged the burst at most.
Charge(cost, p) == Min({cost, p.burst})

\* Allow, under a policy that limits.
Allow(k, p, cost) ==
    LET held   == Sweep(bucket)
        tokens == Refilled(held[k], p)
        due    == Charge(cost, p)
        paid   == IF tokens < due THEN 0 ELSE due
    IN  /\ bucket' = [held EXCEPT ![k] = [tokens |-> tokens - paid, last |-> minute]]
        /\ swept' = IF minute - swept < IdleMinutes THEN swept ELSE minute
        /\ allowance' = [allowance EXCEPT ![k] = allowance[k] - paid]
----------------------------------------------------------------------------
(* Operations on keys. *)

KeyExpired(row) == row.expiresAt # NeverExpires /\ minute > row.expiresAt

\* create, with Business.Create and Store.Create
InsertKey(k, row) == apiKey' = [apiKey EXCEPT ![k] = row]

NewKeyRow(rate, burst, life) ==
    [status |-> "live", rate |-> rate, burst |-> burst, lastUsed |-> 0,
     expiresAt |-> IF life = 0 THEN NeverExpires ELSE minute + life]

CreateKey(k, rate, burst, life) ==
    /\ apiKey[k].status = "none"
    /\ InsertKey(k, NewKeyRow(rate, burst, life))
    /\ allowance' = [allowance EXCEPT ![k] = PolicyOf(apiKey'[k]).burst]
    /\ UNCHANGED <<minute, orgEnabled, reader, bucket, swept, lastTouch>>

\* revoke deletes the row; a request already past the authenticator is served.
DeleteKey(k) == apiKey' = [apiKey EXCEPT ![k].status = "gone"]

RevokeKey(k) ==
    /\ apiKey[k].status = "live"
    /\ DeleteKey(k)
    /\ UNCHANGED <<minute, orgEnabled, reader, bucket, swept, lastTouch, allowance>>

\* Business.Authenticate: the row by the key's hash, not revoked and not expired
KeyAuthenticates(k) == apiKey[k].status = "live" /\ ~KeyExpired(apiKey[k])

\* TouchLastUsed is best effort: the row may be gone, the statement may fail.
TouchLastUsed(k, written) ==
    apiKey' = IF written /\ apiKey[k].status = "live" THEN [apiKey EXCEPT ![k].lastUsed = minute] ELSE apiKey

TouchDue(k) == lastTouch[k] = 0 \/ minute - lastTouch[k] >= TouchInterval

\* A suspended organization serves no reads.
AuthenticateAPIKey(r, k, written) ==
    /\ reader[r] = NotReading /\ KeyAuthenticates(k) /\ orgEnabled
    /\ IF TouchDue(k)
       THEN lastTouch' = [lastTouch EXCEPT ![k] = minute] /\ TouchLastUsed(k, written)
       ELSE UNCHANGED <<lastTouch, apiKey>>
    /\ reader' = [reader EXCEPT ![r] = [key |-> k]]
    /\ UNCHANGED <<minute, orgEnabled, bucket, swept, allowance>>

\* RateLimitAPIKey charges the key in the request's context.
RateLimitAPIKey(r, export) ==
    /\ reader[r] # NotReading
    /\ LET k == reader[r].key  p == PolicyOf(apiKey[reader[r].key])
       IN  IF p.rate = 0 THEN UNCHANGED <<bucket, swept, allowance>>
           ELSE Allow(k, p, QueryCost(export))
    /\ reader' = [reader EXCEPT ![r] = NotReading]
    /\ UNCHANGED <<minute, apiKey, orgEnabled, lastTouch>>

\* orgbus.Update suspends the organization and resumes it.
Suspend ==
    /\ orgEnabled' = ~orgEnabled
    /\ UNCHANGED <<minute, apiKey, reader, bucket, swept, lastTouch, allowance>>

NextMinute ==
    /\ minute < LastMinute
    /\ minute' = minute + 1
    /\ allowance' = [k \in ApiKeyIDs |->
           IF apiKey[k].status = "none" THEN 0
           ELSE Min({PolicyOf(apiKey[k]).burst, allowance[k] + PolicyOf(apiKey[k]).rate})]
    /\ UNCHANGED <<apiKey, orgEnabled, reader, bucket, swept, lastTouch>>

KeyRoutes ==
    \E k \in ApiKeyIDs :
       \/ RevokeKey(k)
       \/ \E rate \in KeyRates, burst \in KeyBursts, life \in {0, 2} : CreateKey(k, rate, burst, life)

QueryRoutes ==
    \E r \in Readers :
       \/ \E k \in ApiKeyIDs, written \in BOOLEAN : AuthenticateAPIKey(r, k, written)
       \/ \E export \in BOOLEAN : RateLimitAPIKey(r, export)

ApiKeysNext == KeyRoutes \/ QueryRoutes \/ Suspend \/ NextMinute

ApiKeysSpec == ApiKeysInit /\ [][ApiKeysNext]_apiKeyVars
----------------------------------------------------------------------------
(* Properties. *)

\* The lazy bucket of ratelimit.Limiter, created, refilled and swept away only when
\* some request is charged, holds at every instant what a bucket refilled every
\* minute would: no sweep, cap or order of requests gives a key more than its policy,
\* or less.  Proviso: a minute's rate fills the burst within IdleMinutes.
BucketIsExact == \A k \in ApiKeyIDs :
    LET p == PolicyOf(apiKey[k])
    IN  apiKey[k].status # "none" /\ p.rate > 0 /\ p.burst <= p.rate * IdleMinutes
            => Refilled(bucket[k], p) = allowance[k]
----------------------------------------------------------------------------
(* What comments say and the code does not do (README, section 4). *)

\* Policy: "PerMinute is the sustained rate", also of a key whose burst takes longer
\* than the idle time to refill: its bucket is swept and comes back full.
SustainedRateHolds == \A k \in ApiKeyIDs : allowance[k] >= 0
=============================================================================
