---------------------------- MODULE RateLimiter ----------------------------
(***************************************************************************)
(* The token buckets in front of the HTTP pipeline: class RateLimiter of   *)
(* pc-service/src/wol_unlock/ratelimit.py, called once per request with    *)
(* the source address and once with the device as key.                     *)
(*                                                                         *)
(* allow() contains no await, so one call is one step.  Time is            *)
(* time.monotonic() in seconds.  Tokens are counted in sixtieths: one      *)
(* request costs 60, a bucket holds 60 * Burst, and a second brings        *)
(* PerMinute; the rounding of the code's floats is left out.               *)
(***************************************************************************)
EXTENDS Integers, FiniteSets

CONSTANTS
  Keys,       \* source addresses and devices
  PerMinute,  \* http.rate_limit_per_minute
  Burst,      \* http.rate_limit_burst
  MaxKeys,    \* max_keys
  MaxTime,    \* bound: the clock stops there
  MaxHalvings \* bound: how often a full table forgets its oldest half

ASSUME RateLimiterAssumption ==
  /\ IsFiniteSet(Keys)
  /\ PerMinute \in Nat \ {0}
  /\ Burst \in Nat \ {0}
  /\ MaxKeys \in Nat \ {0, 1}
  /\ MaxTime \in Nat
  /\ MaxHalvings \in Nat

VARIABLES
  clock,    \* time.monotonic()
  tracked,  \* the keys of _buckets
  tokens,   \* bucket.tokens
  updated,  \* bucket.updated
  ideal,    \* history: tokens at idealAt in a limiter that forgets no key
  idealAt,  \* history: when the key was last seen
  extra,    \* history: requests granted here less those granted there
  halved,   \* history: keys forgotten while their bucket was not full
  halvings  \* history: how often a full table forgot its oldest half

history == <<ideal, idealAt, extra, halved, halvings>>
vars == <<clock, tracked, tokens, updated, history>>

Cost == 60
Full == 60 * Burst

Times == 0 .. MaxTime

AtMost(a, b) == IF a <= b THEN a ELSE b

\* What a bucket left with n tokens at time t holds now.
Refilled(n, t) == AtMost(Full, n + (clock - t) * PerMinute)

TypeOK ==
  /\ clock \in Times
  /\ tracked \subseteq Keys
  /\ tokens \in [Keys -> 0 .. Full]
  /\ updated \in [Keys -> Times]
  /\ ideal \in [Keys -> 0 .. Full]
  /\ idealAt \in [Keys -> Times]
  /\ extra \in [Keys -> Int]
  /\ halved \subseteq Keys
  /\ halvings \in 0 .. MaxHalvings

Init ==
  /\ clock = 0
  /\ tracked = {}
  /\ tokens = [k \in Keys |-> Full]
  /\ updated = [k \in Keys |-> 0]
  /\ ideal = [k \in Keys |-> Full]
  /\ idealAt = [k \in Keys |-> 0]
  /\ extra = [k \in Keys |-> 0]
  /\ halved = {}
  /\ halvings = 0

-----------------------------------------------------------------------------
\* Mutant: a bucket half full counts as refilled.
StaleEarly == {k \in tracked : 2 * (tokens[k] + (clock - updated[k]) * PerMinute) >= Full}

\* The buckets that have refilled completely.
Stale == {k \in tracked : tokens[k] + (clock - updated[k]) * PerMinute >= Full}

\* The sets that `ordered[: len(ordered) // 2]` can be: half of the keys, none of
\* them touched after one that stays.
OldestHalves(keys) ==
  {old \in SUBSET keys :
     /\ Cardinality(old) = Cardinality(keys) \div 2
     /\ \A k \in old, j \in keys \ old : updated[k] <= updated[j]}

\* Mutant: the table is left full when no bucket has refilled.
EvictStaleOnly(gone) == gone = Stale

\* _evict: the refilled buckets go; if the table is still full, so does the least
\* recently touched half of the others.
Evict(gone) ==
  IF Cardinality(tracked \ Stale) >= MaxKeys
  THEN \E old \in OldestHalves(tracked \ Stale) : gone = Stale \cup old
  ELSE gone = Stale

\* Mutant: the bucket of a key seen for the first time is empty.
StartEmpty(k) == IF k \in tracked THEN Refilled(tokens[k], updated[k]) ELSE 0

\* The tokens allow() finds for a key: a new bucket is full.
Found(k) == IF k \in tracked THEN Refilled(tokens[k], updated[k]) ELSE Full

\* The buckets forgotten to make room for k.
Forgotten(k, gone) ==
  IF k \notin tracked /\ Cardinality(tracked) >= MaxKeys THEN Evict(gone) ELSE gone = {}

\* Requests granted to a bucket holding n tokens, and what it holds afterwards.
Passes(n) == IF n >= Cost THEN 1 ELSE 0
Spend(n) == n - Cost * Passes(n)

\* allow(k): make room for a new key, refill, and take one request's worth if the
\* bucket holds it.
Allow(k, gone) ==
  /\ Forgotten(k, gone)
  /\ tracked' = (tracked \ gone) \cup {k}
  /\ tokens' = [tokens EXCEPT ![k] = Spend(Found(k))]
  /\ updated' = [updated EXCEPT ![k] = clock]
  /\ LET own == Refilled(ideal[k], idealAt[k])
     IN  /\ ideal' = [ideal EXCEPT ![k] = Spend(own)]
         /\ extra' = [extra EXCEPT ![k] = @ + Passes(Found(k)) - Passes(own)]
  /\ idealAt' = [idealAt EXCEPT ![k] = clock]
  /\ halved' = halved \cup (gone \ Stale)
  /\ halvings' = IF gone \subseteq Stale THEN halvings ELSE halvings + 1
  /\ halvings' <= MaxHalvings
  /\ UNCHANGED clock

Tick ==
  /\ clock < MaxTime
  /\ clock' = clock + 1
  /\ UNCHANGED <<tracked, tokens, updated, history>>

Next == Tick \/ \E k \in Keys, gone \in SUBSET tracked : Allow(k, gone)

Spec == Init /\ [][Next]_vars

-----------------------------------------------------------------------------
(* Properties.                                                             *)

\* "Bounds memory so a peer cycling through source addresses cannot grow the table
\* without limit" (_evict).
TableBounded == Cardinality(tracked) <= MaxKeys

\* Forgetting buckets and the traffic of other keys never cost a key anything: at
\* any time it has been granted at least the requests that a bucket of its own,
\* never forgotten, would have granted.
NeverStricter == \A k \in Keys : extra[k] >= 0

\* "Drop buckets that have refilled completely -- they carry no state" (_evict): a
\* key that never was in a forgotten half is served exactly as by a bucket of its
\* own.
ExactUnlessHalved ==
  \A k \in Keys \ halved :
    extra[k] = 0 /\ Found(k) = Refilled(ideal[k], idealAt[k])

=============================================================================
