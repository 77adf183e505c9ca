------------------------- MODULE RateLimiterProofs -------------------------
(***************************************************************************)
(* Proofs about RateLimiter, for any keys, rates and bounds: the table is  *)
(* bounded, and what it forgets costs no key a request.                    *)
(***************************************************************************)
EXTENDS RateLimiter, FiniteSetTheorems, TLAPS

-----------------------------------------------------------------------------
(* Buckets.                                                                *)

LEMMA ProductNat == \A a, b \in Nat : a * b \in Nat
OBVIOUS

\* A bucket holds between none and a burst.
LEMMA RefilledType ==
  ASSUME clock \in Nat, NEW n \in 0 .. Full, NEW t \in 0 .. clock
  PROVE  /\ Refilled(n, t) \in 0 .. Full
         /\ Refilled(n, t) >= n
<1>1. (clock - t) * PerMinute \in Nat
  BY ProductNat, RateLimiterAssumption
<1>2. Full \in Nat
  BY RateLimiterAssumption DEF Full
<1> QED
  BY <1>1, <1>2 DEF Refilled, AtMost

\* A second brings PerMinute to every bucket that is not full.
LEMMA RefilledLater ==
  ASSUME clock \in Nat, clock' = clock + 1, NEW n \in 0 .. Full, NEW t \in 0 .. clock
  PROVE  Refilled(n, t)' = AtMost(Full, Refilled(n, t) + PerMinute)
<1> DEFINE brought == (clock - t) * PerMinute
<1>1. (clock' - t) * PerMinute = brought + PerMinute
  BY RateLimiterAssumption
<1>2. brought \in Nat /\ Full \in Nat /\ PerMinute \in Nat
  BY ProductNat, RateLimiterAssumption DEF Full
<1>3. Refilled(n, t)' = AtMost(Full, n + (clock' - t) * PerMinute)
  BY DEF Refilled, Full, AtMost
<1>4. Refilled(n, t) = AtMost(Full, n + brought)
  BY DEF Refilled
<1> HIDE DEF brought
<1> QED
  BY <1>1, <1>2, <1>3, <1>4 DEF AtMost

\* What a grant costs, and what it leaves.
LEMMA Spending ==
  ASSUME NEW n \in 0 .. Full
  PROVE  /\ Passes(n) \in {0, 1}
         /\ Spend(n) = n - 60 * Passes(n)
         /\ Spend(n) \in 0 .. Full
         /\ Passes(n) = 1 <=> n >= 60
<1>1. Full \in Nat
  BY RateLimiterAssumption DEF Full
<1> QED
  BY <1>1 DEF Passes, Spend, Cost

-----------------------------------------------------------------------------
(* The table.                                                              *)

LEMMA TrackedFinite == TypeOK => IsFiniteSet(tracked)
BY FS_Subset, RateLimiterAssumption DEF TypeOK

\* Making room makes room: a table that was not overfull is not overfull after a
\* new key has been added to what _evict leaves.
LEMMA RoomMade ==
  ASSUME TypeOK, TableBounded, NEW k \in Keys, NEW gone \in SUBSET tracked,
         Forgotten(k, gone)
  PROVE  Cardinality((tracked \ gone) \cup {k}) <= MaxKeys
<1> DEFINE kept == tracked \ gone
           rest == tracked \ Stale
<1> SUFFICES Cardinality(kept \cup {k}) <= MaxKeys
  OBVIOUS
<1>1. IsFiniteSet(tracked) /\ IsFiniteSet(kept) /\ IsFiniteSet(rest)
  BY TrackedFinite, FS_Subset
<1>2. Cardinality(tracked) \in Nat /\ Cardinality(kept) \in Nat /\ Cardinality(rest) \in Nat
  BY <1>1, FS_CardinalityType
<1>3. Cardinality(rest) <= Cardinality(tracked)
  BY <1>1, FS_Subset
<1>4. MaxKeys \in Nat /\ MaxKeys >= 2
  BY RateLimiterAssumption
<1>5. Cardinality(kept \cup {k}) = IF k \in kept THEN Cardinality(kept) ELSE Cardinality(kept) + 1
  BY <1>1, FS_AddElement
<1>6. CASE k \in tracked
  <2>1. kept = tracked
    BY <1>6 DEF Forgotten
  <2> QED BY <1>5, <1>6, <2>1 DEF TableBounded
<1>7. CASE k \notin tracked /\ Cardinality(tracked) < MaxKeys
  <2>1. kept = tracked
    BY <1>7, <1>2, <1>4 DEF Forgotten
  <2> QED BY <1>2, <1>4, <1>5, <1>7, <2>1
<1>8. CASE k \notin tracked /\ Cardinality(tracked) >= MaxKeys
  <2>1. Evict(gone)
    BY <1>8 DEF Forgotten
  <2>2. CASE Cardinality(rest) < MaxKeys
    <3>1. gone = Stale
      BY <1>2, <1>4, <2>1, <2>2 DEF Evict
    <3>2. kept = rest
      BY <3>1
    <3> HIDE DEF kept, rest
    <3> QED BY <1>2, <1>4, <1>5, <2>2, <3>2
  <2>3. CASE Cardinality(rest) >= MaxKeys
    <3>1. PICK old \in OldestHalves(rest) : gone = Stale \cup old
      BY <2>1, <2>3 DEF Evict
    <3>2. old \subseteq rest /\ Cardinality(old) = Cardinality(rest) \div 2
      BY DEF OldestHalves
    <3>3. kept = rest \ old
      BY <3>1
    <3>4. IsFiniteSet(old)
      BY <1>1, <3>2, FS_Subset
    <3>5. Cardinality(rest \ old) = Cardinality(rest) - Cardinality(rest \cap old)
      BY <1>1, <3>4, FS_Difference
    <3>6. rest \cap old = old
      BY <3>2
    <3>7. Cardinality(kept) = Cardinality(rest) - Cardinality(rest) \div 2
      BY <3>2, <3>3, <3>5, <3>6
    <3>8. Cardinality(rest) = MaxKeys
      BY <1>2, <1>3, <1>4, <2>3 DEF TableBounded
    <3> HIDE DEF kept, rest
    <3>9. Cardinality(kept) + 1 <= MaxKeys
      BY <1>4, <3>7, <3>8
    <3> QED BY <1>2, <1>4, <1>5, <3>9
  <2> QED BY <1>2, <1>4, <2>2, <2>3
<1> QED
  BY <1>2, <1>4, <1>6, <1>7, <1>8

-----------------------------------------------------------------------------
(* The inductive invariant.  What a key was granted in advance, its extra  *)
(* grants at Cost each, makes up for what its bucket holds less than one   *)
(* of its own.                                                             *)

OnTime == \A k \in Keys : updated[k] <= clock /\ idealAt[k] <= clock

Owned(k) == Refilled(ideal[k], idealAt[k])

CreditInv == \A k \in Keys : Found(k) + 60 * extra[k] >= Owned(k)

IInv ==
  /\ TypeOK
  /\ OnTime
  /\ TableBounded
  /\ NeverStricter
  /\ CreditInv
  /\ ExactUnlessHalved

LEMMA BucketTypes ==
  ASSUME TypeOK, OnTime, NEW k \in Keys
  PROVE  Found(k) \in 0 .. Full /\ Owned(k) \in 0 .. Full
<1>1. clock \in Nat /\ updated[k] \in 0 .. clock /\ idealAt[k] \in 0 .. clock
  BY DEF TypeOK, OnTime, Times
<1>2. tokens[k] \in 0 .. Full /\ ideal[k] \in 0 .. Full /\ Full \in 0 .. Full
  BY RateLimiterAssumption DEF TypeOK, Full
<1> QED
  BY <1>1, <1>2, RefilledType DEF Found, Owned

\* A second preserves the invariant.
LEMMA TickStep == IInv /\ Tick => IInv'
<1> SUFFICES ASSUME IInv, Tick PROVE IInv'
  OBVIOUS
<1> USE DEF IInv
<1>1. /\ clock \in Nat /\ clock' = clock + 1 /\ clock < MaxTime
      /\ UNCHANGED <<tracked, tokens, updated, ideal, idealAt, extra, halved, halvings>>
  BY DEF Tick, history, TypeOK, Times
<1>2. TypeOK'
  BY <1>1, RateLimiterAssumption DEF TypeOK, Times, Full
<1>3. OnTime'
  BY <1>1 DEF TypeOK, OnTime, Times
<1>4. TableBounded' /\ NeverStricter'
  BY <1>1 DEF TableBounded, NeverStricter
<1>5. Full \in Nat /\ PerMinute \in Nat
  BY RateLimiterAssumption DEF Full
<1>6. ASSUME NEW k \in Keys
      PROVE  /\ Found(k)' = AtMost(Full, Found(k) + PerMinute)
             /\ Owned(k)' = AtMost(Full, Owned(k) + PerMinute)
  <2>1. updated[k] \in 0 .. clock /\ idealAt[k] \in 0 .. clock
    BY <1>1 DEF TypeOK, OnTime, Times
  <2>2. tokens[k] \in 0 .. Full /\ ideal[k] \in 0 .. Full
    BY DEF TypeOK
  <2>3. Refilled(tokens[k], updated[k])' = AtMost(Full, Refilled(tokens[k], updated[k]) + PerMinute)
    <3>1. ASSUME NEW n \in 0 .. Full, NEW t \in 0 .. clock, n = tokens[k], t = updated[k]
          PROVE  Refilled(n, t)' = AtMost(Full, Refilled(n, t) + PerMinute)
      BY <1>1, RefilledLater
    <3>2. tokens'[k] = tokens[k] /\ updated'[k] = updated[k]
      BY <1>1
    <3> QED BY <2>1, <2>2, <3>1, <3>2 DEF Refilled, AtMost, Full
  <2>4. Refilled(ideal[k], idealAt[k])' = AtMost(Full, Refilled(ideal[k], idealAt[k]) + PerMinute)
    <3>1. ASSUME NEW n \in 0 .. Full, NEW t \in 0 .. clock, n = ideal[k], t = idealAt[k]
          PROVE  Refilled(n, t)' = AtMost(Full, Refilled(n, t) + PerMinute)
      BY <1>1, RefilledLater
    <3>2. ideal'[k] = ideal[k] /\ idealAt'[k] = idealAt[k]
      BY <1>1
    <3> QED BY <2>1, <2>2, <3>1, <3>2 DEF Refilled, AtMost, Full
  <2>5. Found(k)' = IF k \in tracked THEN Refilled(tokens[k], updated[k])' ELSE Full
    BY <1>1 DEF Found, Full
  <2>6. AtMost(Full, Full + PerMinute) = Full
    BY <1>5 DEF AtMost
  <2> QED BY <2>3, <2>4, <2>5, <2>6 DEF Found, Owned
<1>7. CreditInv'
  <2> SUFFICES ASSUME NEW k \in Keys PROVE Found(k)' + 60 * extra[k]' >= Owned(k)'
    BY DEF CreditInv
  <2>1. Found(k) \in 0 .. Full /\ Owned(k) \in 0 .. Full
    BY BucketTypes
  <2>2. extra[k] \in Nat /\ extra[k]' = extra[k] /\ Found(k) + 60 * extra[k] >= Owned(k)
    BY <1>1 DEF TypeOK, NeverStricter, CreditInv
  <2> QED BY <1>5, <1>6, <2>1, <2>2 DEF AtMost
<1>8. ExactUnlessHalved'
  <2> SUFFICES ASSUME NEW k \in Keys \ halved PROVE extra[k]' = 0 /\ Found(k)' = Owned(k)'
    BY <1>1 DEF ExactUnlessHalved, Owned
  <2>1. extra[k] = 0 /\ Found(k) = Owned(k)
    BY DEF ExactUnlessHalved, Owned
  <2> QED BY <1>1, <1>6, <2>1
<1> QED
  BY <1>2, <1>3, <1>4, <1>7, <1>8

\* A request preserves the invariant.  The key's own bucket is charged here and in
\* the ideal limiter; the other keys keep what they would find, or find more.
LEMMA AllowStep ==
  ASSUME IInv, NEW k \in Keys, NEW gone \in SUBSET tracked, Allow(k, gone)
  PROVE  IInv'
<1> USE DEF IInv
<1> DEFINE found == Found(k)
           own == Owned(k)
<1>1. /\ clock \in Nat /\ clock' = clock
      /\ Full \in Nat /\ PerMinute \in Nat /\ Full' = Full
  BY RateLimiterAssumption DEF Allow, TypeOK, Times, Full
<1>2. /\ tracked' = (tracked \ gone) \cup {k}
      /\ tokens' = [tokens EXCEPT ![k] = Spend(found)]
      /\ updated' = [updated EXCEPT ![k] = clock]
      /\ ideal' = [ideal EXCEPT ![k] = Spend(own)]
      /\ idealAt' = [idealAt EXCEPT ![k] = clock]
      /\ extra' = [extra EXCEPT ![k] = @ + Passes(found) - Passes(own)]
      /\ halved' = halved \cup (gone \ Stale)
  BY DEF Allow, Owned
<1>3. found \in 0 .. Full /\ own \in 0 .. Full
  BY BucketTypes
<1>4. /\ Passes(found) \in {0, 1} /\ Passes(own) \in {0, 1}
      /\ Spend(found) \in 0 .. Full /\ Spend(own) \in 0 .. Full
      /\ Spend(found) = found - 60 * Passes(found) /\ Spend(own) = own - 60 * Passes(own)
      /\ (Passes(found) = 1 <=> found >= 60) /\ (Passes(own) = 1 <=> own >= 60)
  BY <1>3, Spending
<1>5. extra[k] \in Nat /\ found + 60 * extra[k] >= own
  BY DEF TypeOK, NeverStricter, CreditInv
<1> HIDE DEF found, own
<1>6. TypeOK'
  <2>1. halvings' \in 0 .. MaxHalvings
    BY RateLimiterAssumption DEF Allow, TypeOK
  <2> QED BY <1>1, <1>2, <1>4, <2>1 DEF TypeOK, Times
<1>7. OnTime'
  BY <1>1, <1>2 DEF TypeOK, OnTime, Times
<1>8. TableBounded'
  BY <1>2, RoomMade DEF Allow, TableBounded
<1>9. NeverStricter'
  <2>1. extra'[k] = extra[k] + Passes(found) - Passes(own)
    BY <1>2 DEF TypeOK
  <2>2. extra'[k] >= 0
    BY <1>3, <1>4, <1>5, <2>1
  <2> QED BY <1>2, <2>2 DEF TypeOK, NeverStricter
<1>10. Found(k)' = Spend(found) /\ Owned(k)' = Spend(own)
  <2>1. \A n \in 0 .. Full : Refilled(n, clock)' = n
    BY <1>1 DEF Refilled, AtMost
  <2>2. tokens'[k] = Spend(found) /\ updated'[k] = clock /\ ideal'[k] = Spend(own)
        /\ idealAt'[k] = clock /\ k \in tracked'
    BY <1>2 DEF TypeOK
  <2> QED BY <1>1, <1>4, <2>1, <2>2 DEF Found, Owned, Refilled, AtMost
<1>11. ASSUME NEW j \in Keys \ {k}
       PROVE  /\ Owned(j)' = Owned(j) /\ extra'[j] = extra[j]
              /\ Found(j)' >= Found(j)
              /\ j \notin halved' => Found(j)' = Found(j)
  <2>1. /\ tokens'[j] = tokens[j] /\ updated'[j] = updated[j] /\ ideal'[j] = ideal[j]
        /\ idealAt'[j] = idealAt[j] /\ extra'[j] = extra[j]
    BY <1>2 DEF TypeOK
  <2>2. Owned(j)' = Owned(j) /\ Refilled(tokens[j], updated[j])' = Refilled(tokens[j], updated[j])
    BY <1>1, <2>1 DEF Owned, Refilled
  <2>3. Found(j)' = IF j \in tracked' THEN Refilled(tokens[j], updated[j]) ELSE Full
    BY <1>1, <2>2 DEF Found
  <2>4. Found(j) \in 0 .. Full
    BY BucketTypes
  <2>5. j \in tracked' <=> j \in tracked \ gone
    BY <1>2
  <2>6. j \in Stale => Found(j) = Full
    <3>1. /\ clock - updated[j] \in Int /\ tokens[j] \in Int
          /\ (clock - updated[j]) * PerMinute \in Int
      BY <1>1 DEF TypeOK, Times
    <3> QED BY <1>1, <3>1 DEF Stale, Found, Refilled, AtMost
  <2> QED BY <1>1, <1>2, <2>1, <2>2, <2>3, <2>4, <2>5, <2>6 DEF Found
<1>12. CreditInv'
  <2> SUFFICES ASSUME NEW j \in Keys PROVE Found(j)' + 60 * extra'[j] >= Owned(j)'
    BY DEF CreditInv
  <2>1. CASE j = k
    <3>1. extra'[k] = extra[k] + Passes(found) - Passes(own)
      BY <1>2 DEF TypeOK
    <3> QED BY <1>3, <1>4, <1>5, <1>10, <2>1, <3>1
  <2>2. CASE j # k
    <3>1. Found(j) + 60 * extra[j] >= Owned(j) /\ Found(j) \in 0 .. Full /\ Owned(j) \in 0 .. Full
      BY BucketTypes DEF CreditInv
    <3>2. Found(j)' \in Int /\ extra[j] \in Int
      BY <1>1, <1>6, <1>7, <1>11, <2>2 DEF TypeOK, OnTime, Times, Found, Refilled, AtMost
    <3> QED BY <1>1, <1>11, <2>2, <3>1, <3>2
  <2> QED BY <2>1, <2>2
<1>13. ExactUnlessHalved'
  <2> SUFFICES ASSUME NEW j \in Keys \ halved' PROVE extra'[j] = 0 /\ Found(j)' = Owned(j)'
    BY DEF ExactUnlessHalved, Owned
  <2>1. extra[j] = 0 /\ Found(j) = Owned(j)
    BY <1>2 DEF ExactUnlessHalved, Owned
  <2>2. CASE j = k
    <3>1. found = own
      BY <2>1, <2>2 DEF found, own
    <3> QED BY <1>2, <1>4, <1>10, <2>1, <2>2, <3>1 DEF TypeOK
  <2> QED BY <1>11, <2>1, <2>2
<1> QED
  BY <1>6, <1>7, <1>8, <1>9, <1>12, <1>13

\* The invariant holds in every behaviour of the limiter.
THEOREM Invariance == Spec => []IInv
<1>1. Init => IInv
  <2> SUFFICES ASSUME Init PROVE IInv
    OBVIOUS
  <2>1. Full \in Nat /\ MaxTime \in Nat /\ MaxHalvings \in Nat /\ MaxKeys \in Nat
    BY RateLimiterAssumption DEF Full
  <2>2. Cardinality({}) = 0
    BY FS_EmptySet
  <2>3. \A k \in Keys : Found(k) = Full /\ Owned(k) = Full
    BY <2>1, RateLimiterAssumption DEF Init, Found, Owned, Refilled, AtMost
  <2> QED
    BY <2>1, <2>2, <2>3 DEF Init, IInv, TypeOK, Times, OnTime, TableBounded, NeverStricter,
                            CreditInv, ExactUnlessHalved, Owned
<1>2. IInv /\ [Next]_vars => IInv'
  <2> SUFFICES ASSUME IInv, [Next]_vars PROVE IInv'
    OBVIOUS
  <2>1. CASE UNCHANGED vars
    BY <2>1 DEF vars, history, IInv, TypeOK, OnTime, TableBounded, NeverStricter, CreditInv,
                ExactUnlessHalved, Owned, Found, Refilled, Stale, Times
  <2> QED BY <2>1, TickStep, AllowStep DEF Next
<1> QED
  BY <1>1, <1>2, PTL DEF Spec

\* The bookkeeping keeps its types, a bucket between none and a burst.
THEOREM TypesTheorem == Spec => []TypeOK
BY Invariance, PTL DEF IInv

\* A peer that cycles through addresses never makes the table grow past max_keys.
THEOREM BoundTheorem == Spec => []TableBounded
BY Invariance, PTL DEF IInv

\* No key is ever granted less than by a bucket of its own that nothing forgets.
THEOREM StricterTheorem == Spec => []NeverStricter
BY Invariance, PTL DEF IInv

\* Refilled buckets carry no state: forgetting them changes nothing for their keys.
THEOREM ExactTheorem == Spec => []ExactUnlessHalved
BY Invariance, PTL DEF IInv

=============================================================================
