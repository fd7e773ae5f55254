------------------------- MODULE SessionCacheProofs -------------------------
(***************************************************************************)
(* The revocation bound of SessionCache, for any processes, families, time *)
(* to live and cache size.  The bound is not inductive: it needs that live *)
(* entries and pending live verdicts do not reach beyond the commit by     *)
(* more than the time to live, which holds because a check reads the clock *)
(* before it queries.                                                      *)
(***************************************************************************)
EXTENDS SessionCache, TLAPS, FiniteSetTheorems

(* A live entry expires in time, a revoked one is true. *)
EntryInTime(entry, f) ==
  /\ entry.verdict = "live" =>
       entry.until <= Ttl + (IF revokedAt[f] = Never THEN clock ELSE revokedAt[f])
  /\ entry.verdict = "revoked" => revokedAt[f] # Never

(* A check began in the past; what it found was so when it began, or after. *)
CheckInTime(c) ==
  /\ c.now <= clock
  /\ c.stage = "queried" \/ (c.stage = "answered" /\ c.sid \in Families) =>
       IF c.revoked THEN revokedAt[c.sid] # Never
       ELSE revokedAt[c.sid] # Never =>
              IF c.stage = "queried" THEN c.now <= revokedAt[c.sid]
              ELSE c.now < revokedAt[c.sid] + Ttl

InTime ==
  /\ \A p \in Processes, f \in Families : EntryInTime(cache[p][f], f)
  /\ \A p \in Processes : CheckInTime(check[p])
  /\ \A f \in Families : revokedAt[f] <= clock

FiniteCaches == \A p \in Processes : IsFiniteSet(CachedBy(cache[p]))

IInv == TypeOK /\ FiniteCaches /\ InTime

-----------------------------------------------------------------------------
(* A verdict stored in a cache leaves it an in-bounds cache: the clearing  *)
(* makes room for the one entry that is added.                             *)
LEMMA StoredBounded ==
  ASSUME NEW c \in [Families -> Entry], NEW f \in Families, NEW e \in Entry,
         IsFiniteSet(CachedBy(c)), Cardinality(CachedBy(c)) <= CacheMax
  PROVE  /\ Stored(c, f, e) \in [Families -> Entry]
         /\ IsFiniteSet(CachedBy(Stored(c, f, e)))
         /\ Cardinality(CachedBy(Stored(c, f, e))) <= CacheMax
<1> DEFINE room == IF Cardinality(CachedBy(c)) >= CacheMax THEN EmptyCache ELSE c
<1>1. room \in [Families -> Entry]
  BY DEF EmptyCache, NoEntry, Entry
<1>2. CachedBy(EmptyCache) = {}
  BY DEF EmptyCache, NoEntry, CachedBy
<1>3. IsFiniteSet(CachedBy(room)) /\ Cardinality(CachedBy(room)) < CacheMax
      /\ Cardinality(CachedBy(room)) \in Nat
  <2>1. CASE Cardinality(CachedBy(c)) >= CacheMax
    BY <1>2, <2>1, FS_EmptySet, SessionCacheAssumption
  <2>2. CASE ~(Cardinality(CachedBy(c)) >= CacheMax)
    BY <2>2, FS_CardinalityType, SessionCacheAssumption
  <2> QED
    BY <2>1, <2>2
<1>4. Stored(c, f, e) = [room EXCEPT ![f] = e]
  BY DEF Stored
<1> HIDE DEF room
<1>5. CachedBy(Stored(c, f, e)) \subseteq CachedBy(room) \cup {f}
  BY <1>1, <1>4 DEF CachedBy
<1>6. /\ IsFiniteSet(CachedBy(room) \cup {f})
      /\ Cardinality(CachedBy(room) \cup {f}) \in Nat
      /\ Cardinality(CachedBy(room) \cup {f}) <= CacheMax
  <2> DEFINE S == CachedBy(room)
             n == Cardinality(S)
             m == Cardinality(S \cup {f})
  <2>1. IsFiniteSet(S \cup {f}) /\ (m = n \/ m = n + 1)
    BY <1>3, FS_AddElement
  <2>2. n \in Nat /\ n < CacheMax
    BY <1>3
  <2> HIDE DEF n, m
  <2>3. m \in Nat /\ m <= CacheMax
    BY <2>1, <2>2, SessionCacheAssumption
  <2> QED
    BY <2>1, <2>3 DEF m
<1>7. /\ IsFiniteSet(CachedBy(Stored(c, f, e)))
      /\ Cardinality(CachedBy(Stored(c, f, e))) <= Cardinality(CachedBy(room) \cup {f})
      /\ Cardinality(CachedBy(Stored(c, f, e))) \in Nat
  BY <1>5, <1>6, FS_Subset, FS_CardinalityType
<1>8. Stored(c, f, e) \in [Families -> Entry]
  BY <1>1, <1>4
<1> QED
  BY <1>6, <1>7, <1>8, SessionCacheAssumption

(* The empty cache is in bounds. *)
LEMMA EmptyBounded ==
  /\ EmptyCache \in [Families -> Entry]
  /\ IsFiniteSet(CachedBy(EmptyCache))
  /\ Cardinality(CachedBy(EmptyCache)) <= CacheMax
<1>1. CachedBy(EmptyCache) = {}
  BY DEF EmptyCache, NoEntry, CachedBy
<1>2. EmptyCache \in [Families -> Entry]
  BY DEF EmptyCache, NoEntry, Entry
<1> QED
  BY <1>1, <1>2, FS_EmptySet, SessionCacheAssumption

-----------------------------------------------------------------------------
(* Nothing is revoked, cached or asked in the beginning. *)
LEMMA InitIInv == Init => IInv
<1> SUFFICES ASSUME Init PROVE IInv
  OBVIOUS
<1>1. TypeOK
  BY EmptyBounded, SessionCacheAssumption DEF Init, TypeOK, Never, Idle, Check
<1>2. FiniteCaches
  BY EmptyBounded DEF Init, FiniteCaches
<1>3. InTime
  BY SessionCacheAssumption
     DEF Init, InTime, EntryInTime, CheckInTime, EmptyCache, NoEntry, Idle, Never
<1> QED
  BY <1>1, <1>2, <1>3 DEF IInv

(* Time passes: a bound that depends on the clock only grows. *)
LEMMA TickIInv == IInv /\ Tick => IInv'
<1> SUFFICES ASSUME IInv, Tick PROVE IInv'
  OBVIOUS
<1> USE SessionCacheAssumption DEF IInv, Tick
<1>1. TypeOK'
  BY DEF TypeOK
<1>2. FiniteCaches'
  BY DEF FiniteCaches
<1>3. \A p \in Processes, f \in Families : EntryInTime(cache[p][f], f)'
  <2> SUFFICES ASSUME NEW p \in Processes, NEW f \in Families
               PROVE  EntryInTime(cache[p][f], f)'
    OBVIOUS
  <2>1. cache[p][f] \in Entry /\ revokedAt[f] \in Int /\ clock \in Int
    BY DEF TypeOK, Never
  <2> QED
    BY <2>1 DEF InTime, EntryInTime, Entry
<1>4. \A p \in Processes : CheckInTime(check[p])'
  <2> SUFFICES ASSUME NEW p \in Processes PROVE CheckInTime(check[p])'
    OBVIOUS
  <2>1. check[p] \in Check /\ clock \in Int
    BY DEF TypeOK
  <2> QED
    BY <2>1 DEF InTime, CheckInTime, Check
<1>5. \A f \in Families : revokedAt'[f] <= clock'
  BY DEF TypeOK, InTime, Never
<1> QED
  BY <1>1, <1>2, <1>3, <1>4, <1>5 DEF InTime

(* A step that only changes the check of p leaves the rest in time. *)
LEMMA CheckStepIInv ==
  ASSUME IInv, NEW p \in Processes, NEW c \in Check,
         check' = [check EXCEPT ![p] = c],
         UNCHANGED <<clock, revokedAt, pending, cache>>,
         CheckInTime(c),
         c.stage \in {"asked", "queried"} => c.sid \in Families
  PROVE  IInv'
<1> USE DEF IInv
<1>1. check'[p] = c /\ \A q \in Processes \ {p} : check'[q] = check[q]
  BY DEF TypeOK
<1>2. TypeOK'
  BY <1>1 DEF TypeOK
<1>3. FiniteCaches'
  BY DEF FiniteCaches
<1>4. \A q \in Processes : CheckInTime(check[q])'
  BY <1>1 DEF InTime, CheckInTime
<1>5. InTime'
  BY <1>4 DEF InTime, EntryInTime
<1> QED
  BY <1>2, <1>3, <1>5

(* Asking and querying. *)
LEMMA AskIInv ==
  ASSUME IInv, NEW p \in Processes,
         \/ \E sid \in {Malformed, NoSid} : AnswerWithoutFamily(p, sid)
         \/ \E f \in Families : Ask(p, f)
         \/ Query(p)
  PROVE  IInv'
<1>1. clock \in Int /\ check[p] \in Check /\ IInv
  BY DEF IInv, TypeOK
<1>2. CASE \E sid \in {Malformed, NoSid} : AnswerWithoutFamily(p, sid)
  <2> PICK sid \in {Malformed, NoSid} : AnswerWithoutFamily(p, sid)
    BY <1>2
  <2> DEFINE c == Answered(sid, clock, sid = Malformed)
  <2>1. c \in Check /\ c.stage = "answered" /\ c.sid \notin Families /\ c.now = clock
    BY <1>1, SessionCacheAssumption DEF Answered, Check
  <2>2. CheckInTime(c)
    BY <1>1, <2>1 DEF CheckInTime
  <2>3. check' = [check EXCEPT ![p] = c]
        /\ UNCHANGED <<clock, revokedAt, pending, cache>>
    BY DEF AnswerWithoutFamily
  <2> HIDE DEF c
  <2> QED
    BY <1>1, <2>1, <2>2, <2>3, CheckStepIInv
<1>3. CASE \E f \in Families : Ask(p, f)
  <2> PICK f \in Families : Ask(p, f)
    BY <1>3
  <2>1. cache[p][f] \in Entry /\ EntryInTime(cache[p][f], f)
        /\ revokedAt[f] \in Int /\ revokedAt[f] <= clock
    BY <1>1 DEF IInv, TypeOK, InTime, Never
  <2>2. CASE Valid(cache[p][f], clock)
    <3> DEFINE c == Answered(f, clock, cache[p][f].verdict = "revoked")
    <3>1. c \in Check /\ c.stage = "answered" /\ c.sid = f /\ c.now = clock
          /\ c.revoked = (cache[p][f].verdict = "revoked")
      BY <1>1 DEF Answered, Check
    <3>2. CheckInTime(c)
      <4>1. CASE cache[p][f].verdict = "revoked"
        <5>1. revokedAt[f] # Never /\ c.revoked
          BY <2>1, <3>1, <4>1 DEF EntryInTime
        <5> QED
          BY <1>1, <3>1, <5>1 DEF CheckInTime
      <4>2. CASE cache[p][f].verdict # "revoked"
        <5>1. cache[p][f].until > clock /\ cache[p][f].verdict = "live" /\ ~c.revoked
          BY <2>2, <3>1, <4>2 DEF Valid
        <5>2. revokedAt[f] # Never => clock < revokedAt[f] + Ttl
          BY <1>1, <2>1, <5>1, SessionCacheAssumption DEF EntryInTime, Entry
        <5> QED
          BY <1>1, <3>1, <5>1, <5>2 DEF CheckInTime
      <4> QED
        BY <4>1, <4>2
    <3>3. check' = [check EXCEPT ![p] = c]
          /\ UNCHANGED <<clock, revokedAt, pending, cache>>
      BY <2>2 DEF Ask
    <3> HIDE DEF c
    <3> QED
      BY <1>1, <3>1, <3>2, <3>3, CheckStepIInv
  <2>3. CASE ~Valid(cache[p][f], clock)
    <3> DEFINE c == [stage |-> "asked", sid |-> f, now |-> clock, revoked |-> FALSE]
    <3>1. c \in Check /\ c.stage = "asked" /\ c.sid = f /\ c.now = clock
      BY <1>1 DEF Check
    <3>2. CheckInTime(c)
      BY <1>1, <3>1 DEF CheckInTime
    <3>3. check' = [check EXCEPT ![p] = c]
          /\ UNCHANGED <<clock, revokedAt, pending, cache>>
      BY <2>3 DEF Ask
    <3> HIDE DEF c
    <3> QED
      BY <1>1, <3>1, <3>2, <3>3, CheckStepIInv
  <2> QED
    BY <2>2, <2>3
<1>4. CASE Query(p)
  <2> DEFINE c == [check[p] EXCEPT !.stage = "queried",
                                   !.revoked = revokedAt[check[p].sid] # Never]
  <2>1. c \in Check /\ c.stage = "queried" /\ c.sid = check[p].sid /\ c.now = check[p].now
        /\ c.revoked = (revokedAt[check[p].sid] # Never)
    BY <1>1 DEF Check
  <2>2. check[p].sid \in Families /\ check[p].now <= clock
    BY <1>1, <1>4 DEF IInv, TypeOK, Query, InTime, CheckInTime
  <2>3. CheckInTime(c)
    BY <2>1, <2>2 DEF CheckInTime
  <2>4. check' = [check EXCEPT ![p] = c]
        /\ UNCHANGED <<clock, revokedAt, pending, cache>>
    BY <1>4 DEF Query, IInv, TypeOK
  <2> HIDE DEF c
  <2> QED
    BY <1>1, <2>1, <2>2, <2>3, <2>4, CheckStepIInv
<1> QED
  BY <1>2, <1>3, <1>4

(* Storing a verdict: it is good from when the check began, which is not   *)
(* after the commit that it missed.                                        *)
LEMMA StoreIInv == ASSUME IInv, NEW p \in Processes, Store(p) PROVE IInv'
<1> DEFINE f == check[p].sid
           e == Verdict(check[p])
           s == Stored(cache[p], f, e)
<1>1. /\ f \in Families /\ check[p] \in Check /\ check[p].now \in Int /\ clock \in Int
      /\ check[p].stage = "queried"
      /\ CheckInTime(check[p])
      /\ cache[p] \in [Families -> Entry]
      /\ revokedAt[f] \in Int /\ revokedAt[f] <= clock
  BY DEF IInv, TypeOK, InTime, Store, Never, Check
<1>2. e \in Entry
  BY <1>1, SessionCacheAssumption DEF Verdict, RevokedEntry, LiveEntry, Entry
<1>3. EntryInTime(e, f)
  BY <1>1, SessionCacheAssumption
     DEF EntryInTime, CheckInTime, Verdict, RevokedEntry, LiveEntry, Check
<1>4. /\ s \in [Families -> Entry]
      /\ IsFiniteSet(CachedBy(s)) /\ Cardinality(CachedBy(s)) <= CacheMax
  BY <1>1, <1>2, StoredBounded DEF IInv, TypeOK, FiniteCaches
<1>5. \A g \in Families : EntryInTime(s[g], g)
  <2> SUFFICES ASSUME NEW g \in Families PROVE EntryInTime(s[g], g)
    OBVIOUS
  <2>1. (s[g] = e /\ g = f) \/ s[g] = cache[p][g] \/ s[g] = NoEntry
    BY <1>1 DEF Stored, EmptyCache
  <2>2. EntryInTime(cache[p][g], g)
    BY DEF IInv, InTime
  <2>3. EntryInTime(NoEntry, g)
    BY DEF EntryInTime, NoEntry
  <2> QED
    BY <1>3, <2>1, <2>2, <2>3
<1>6. /\ cache' = [cache EXCEPT ![p] = s]
      /\ UNCHANGED <<clock, revokedAt, pending>>
      /\ check' = [check EXCEPT ![p] = [check[p] EXCEPT !.stage = "answered"]]
  BY DEF Store, IInv, TypeOK
<1> HIDE DEF f, e, s
<1> DEFINE c == [check[p] EXCEPT !.stage = "answered"]
<1>7. c \in Check /\ c.stage = "answered" /\ c.now = check[p].now /\ c.sid = check[p].sid
      /\ c.revoked = check[p].revoked
  BY <1>1 DEF Check
<1>8. CheckInTime(c)
  BY <1>1, <1>7, SessionCacheAssumption DEF CheckInTime, f
<1> HIDE DEF c
<1>9. /\ check'[p] = c /\ \A q \in Processes \ {p} : check'[q] = check[q]
      /\ cache'[p] = s /\ \A q \in Processes \ {p} : cache'[q] = cache[q]
  BY <1>6 DEF IInv, TypeOK, c
<1>10. TypeOK'
  BY <1>4, <1>6, <1>7, <1>9 DEF IInv, TypeOK, c
<1>11. FiniteCaches'
  BY <1>4, <1>9 DEF IInv, FiniteCaches
<1>12. \A q \in Processes, g \in Families : EntryInTime(cache[q][g], g)'
  BY <1>5, <1>6, <1>9 DEF IInv, InTime, EntryInTime
<1>13. \A q \in Processes : CheckInTime(check[q])'
  BY <1>6, <1>8, <1>9, ZenonT(60) DEF IInv, InTime, CheckInTime
<1>14. InTime'
  BY <1>6, <1>12, <1>13 DEF IInv, InTime
<1> QED
  BY <1>10, <1>11, <1>14 DEF IInv

(* A revocation before its commit only empties a cache. *)
LEMMA RevokeIInv ==
  ASSUME IInv, NEW p \in Processes, NEW F \in SUBSET Families, RevokeUserSessions(p, F)
  PROVE  IInv'
<1>1. /\ cache'[p] = EmptyCache /\ \A q \in Processes \ {p} : cache'[q] = cache[q]
      /\ pending' \in [Processes -> SUBSET Families]
      /\ UNCHANGED <<clock, revokedAt, check>>
      /\ cache' = [cache EXCEPT ![p] = EmptyCache]
  BY DEF RevokeUserSessions, IInv, TypeOK
<1>2. TypeOK'
  BY <1>1, EmptyBounded DEF IInv, TypeOK
<1>3. FiniteCaches'
  BY <1>1, EmptyBounded DEF IInv, FiniteCaches
<1>4. \A g \in Families : EntryInTime(EmptyCache[g], g)
  BY DEF EntryInTime, EmptyCache, NoEntry
<1>5. \A q \in Processes, g \in Families : EntryInTime(cache[q][g], g)'
  BY <1>1, <1>4 DEF IInv, InTime, EntryInTime
<1>6. InTime'
  BY <1>1, <1>5 DEF IInv, InTime, CheckInTime
<1> QED
  BY <1>2, <1>3, <1>6 DEF IInv

(* The commit stamps the present, which no check or entry is ahead of by   *)
(* more than the time to live; a rollback changes nothing else.            *)
LEMMA CommitIInv ==
  ASSUME IInv, NEW p \in Processes, Commit(p) \/ Rollback(p)
  PROVE  IInv'
<1> USE SessionCacheAssumption
<1>1. CASE Commit(p)
  <2>1. /\ \A f \in Families : revokedAt'[f] = IF f \in pending[p] THEN clock ELSE revokedAt[f]
        /\ revokedAt' \in [Families -> Nat \cup {Never}]
        /\ pending' \in [Processes -> SUBSET Families]
        /\ UNCHANGED <<clock, cache, check>>
    BY <1>1 DEF Commit, IInv, TypeOK
  <2>2. TypeOK' /\ FiniteCaches'
    BY <2>1 DEF IInv, TypeOK, FiniteCaches
  <2>3. ASSUME NEW f \in Families
        PROVE  /\ revokedAt[f] \in Int /\ revokedAt[f] <= clock /\ clock \in Int
               /\ revokedAt'[f] \in Int /\ revokedAt'[f] <= clock
               /\ revokedAt[f] # Never => revokedAt'[f] # Never /\ revokedAt'[f] >= revokedAt[f]
               /\ revokedAt[f] = Never /\ revokedAt'[f] # Never => revokedAt'[f] = clock
    BY <2>1 DEF IInv, TypeOK, InTime, Never
  <2>4. \A q \in Processes, f \in Families : EntryInTime(cache[q][f], f)'
    <3> SUFFICES ASSUME NEW q \in Processes, NEW f \in Families
                 PROVE  EntryInTime(cache[q][f], f)'
      OBVIOUS
    <3>1. cache[q][f] \in Entry /\ EntryInTime(cache[q][f], f)
      BY DEF IInv, TypeOK, InTime
    <3> QED
      BY <2>1, <2>3, <3>1 DEF EntryInTime, Entry
  <2>5. \A q \in Processes : CheckInTime(check[q])'
    <3> SUFFICES ASSUME NEW q \in Processes PROVE CheckInTime(check[q])'
      OBVIOUS
    <3>1. /\ check[q] \in Check /\ CheckInTime(check[q]) /\ clock \in Int
          /\ check[q].stage = "queried" => check[q].sid \in Families
      BY DEF IInv, TypeOK, InTime
    <3> QED
      BY <2>1, <2>3, <3>1 DEF CheckInTime, Check
  <2>6. InTime'
    BY <2>1, <2>3, <2>4, <2>5 DEF InTime
  <2> QED
    BY <2>2, <2>6 DEF IInv
<1>2. CASE Rollback(p)
  <2>1. /\ pending' \in [Processes -> SUBSET Families]
        /\ UNCHANGED <<clock, revokedAt, cache, check>>
    BY <1>2 DEF Rollback, IInv, TypeOK
  <2>2. TypeOK' /\ FiniteCaches'
    BY <2>1 DEF IInv, TypeOK, FiniteCaches
  <2>3. InTime'
    BY <2>1 DEF IInv, InTime, EntryInTime, CheckInTime
  <2> QED
    BY <2>2, <2>3 DEF IInv
<1> QED
  BY <1>1, <1>2

(* Every step keeps the inductive invariant. *)
LEMMA StepIInv == IInv /\ [Next]_vars => IInv'
<1> SUFFICES ASSUME IInv, [Next]_vars PROVE IInv'
  OBVIOUS
<1>1. CASE Tick
  BY <1>1, TickIInv
<1>2. ASSUME NEW p \in Processes,
             \/ \E sid \in {Malformed, NoSid} : AnswerWithoutFamily(p, sid)
             \/ \E f \in Families : Ask(p, f)
             \/ Query(p)
      PROVE  IInv'
  BY <1>2, AskIInv
<1>3. ASSUME NEW p \in Processes, Store(p) PROVE IInv'
  BY <1>3, StoreIInv
<1>4. ASSUME NEW p \in Processes, NEW F \in SUBSET Families, RevokeUserSessions(p, F)
      PROVE  IInv'
  BY <1>4, RevokeIInv
<1>5. ASSUME NEW p \in Processes, Commit(p) \/ Rollback(p) PROVE IInv'
  BY <1>5, CommitIInv
<1>6. CASE UNCHANGED vars
  BY <1>6 DEF vars, IInv, TypeOK, FiniteCaches, InTime, EntryInTime, CheckInTime
<1> QED
  BY <1>1, <1>2, <1>3, <1>4, <1>5, <1>6 DEF Next

-----------------------------------------------------------------------------
(***************************************************************************)
(* Types, and no process's cache ever outgrows _CACHE_MAX.                 *)
(***************************************************************************)
THEOREM TypeCorrect == Spec => []TypeOK
<1>1. IInv => TypeOK
  BY DEF IInv
<1> QED
  BY <1>1, InitIInv, StepIInv, PTL DEF Spec

(***************************************************************************)
(* SESSION_CACHE_SECONDS bounds the latency of a revocation in every       *)
(* process, however checks, revocations and their commits interleave.      *)
(***************************************************************************)
THEOREM RevocationBoundHolds == Spec => []RevocationBound
<1>1. IInv => RevocationBound
  BY DEF IInv, InTime, CheckInTime, RevocationBound, Accepted
<1> QED
  BY <1>1, InitIInv, StepIInv, PTL DEF Spec

(***************************************************************************)
(* A refusal is always about a committed revocation, although revoked      *)
(* verdicts are cached for good and revocations may be rolled back.        *)
(***************************************************************************)
THEOREM RefusalsAreTrue == Spec => []RefusedOnlyIfRevoked
<1>1. IInv => RefusedOnlyIfRevoked
  BY DEF IInv, InTime, CheckInTime, RefusedOnlyIfRevoked
<1> QED
  BY <1>1, InitIInv, StepIInv, PTL DEF Spec
=============================================================================
