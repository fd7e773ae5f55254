---------------------------- MODULE SessionCache ----------------------------
(***************************************************************************)
(* Access-token revocation (utils/sessions.py).  Each process keeps a      *)
(* cache of verdicts about refresh token families; a revocation is a       *)
(* transaction that the caller of revoke_user_sessions commits.            *)
(*                                                                         *)
(* A check runs in the event loop of its process, one at a time, but its   *)
(* query blocks while other processes, and endpoints in the process's      *)
(* thread pool, go on.  One clock stands for every process's monotonic     *)
(* clock: only differences within a process are used.                      *)
(***************************************************************************)
EXTENDS Integers, FiniteSets

CONSTANTS
  Processes,      \* of the API and of the authentication service
  Families,       \* refresh token families, the `sid` of access tokens
  Malformed,      \* a sid that is no UUID
  NoSid,          \* the absent sid of a legacy token
  Ttl,            \* SESSION_CACHE_SECONDS
  CacheMax,       \* _CACHE_MAX
  MaxTime         \* bound on the clock, for TLC

ASSUME SessionCacheAssumption ==
  /\ Ttl \in Nat \ {0}
  /\ CacheMax \in Nat \ {0}
  /\ MaxTime \in Nat
  /\ Malformed \notin Families /\ NoSid \notin Families /\ NoSid # Malformed

VARIABLES
  clock,
  revokedAt,      \* when a family's revocation was committed, or Never
  pending,        \* the families each process revoked and has not committed
  cache,          \* _cache of each process
  check           \* the check each process is in or answered last

vars == <<clock, revokedAt, pending, cache, check>>

-----------------------------------------------------------------------------
Never == -1

(* An entry of _cache, (revoked, valid_until).  A revoked one is valid     *)
(* until infinity, which needs no number.                                  *)
NoEntry == [verdict |-> "none", until |-> 0]
RevokedEntry == [verdict |-> "revoked", until |-> 0]
LiveEntry(until) == [verdict |-> "live", until |-> until]

Entry == [verdict : {"none", "live", "revoked"}, until : Int]

EmptyCache == [f \in Families |-> NoEntry]

CachedBy(c) == {f \in Families : c[f].verdict # "none"}

(* hit[1] > now *)
Valid(entry, now) ==
  \/ entry.verdict = "revoked"
  \/ entry.verdict = "live" /\ entry.until > now

Check ==
  [stage : {"idle", "asked", "queried", "answered"},
   sid : Families \cup {Malformed, NoSid}, now : Int, revoked : BOOLEAN]

Idle == [stage |-> "idle", sid |-> NoSid, now |-> 0, revoked |-> FALSE]

(* The verdict about sid of a check that read the clock at now. *)
Answered(sid, now, revoked) ==
  [stage |-> "answered", sid |-> sid, now |-> now, revoked |-> revoked]

Init ==
  /\ clock = 0
  /\ revokedAt = [f \in Families |-> Never]
  /\ pending = [p \in Processes |-> {}]
  /\ cache = [p \in Processes |-> EmptyCache]
  /\ check = [p \in Processes |-> Idle]

Tick ==
  /\ clock < MaxTime
  /\ clock' = clock + 1
  /\ UNCHANGED <<revokedAt, pending, cache, check>>

-----------------------------------------------------------------------------
(* check_session and is_session_revoked.                                   *)

MayCheck(p) == check[p].stage \in {"idle", "answered"}

(* A legacy token is accepted, a malformed sid refused: neither is looked  *)
(* up, neither is cached.                                                  *)
AnswerWithoutFamily(p, sid) ==
  /\ MayCheck(p)
  /\ check' = [check EXCEPT ![p] = Answered(sid, clock, sid = Malformed)]
  /\ UNCHANGED <<clock, revokedAt, pending, cache>>

(* Read the clock, then the cache; a valid entry answers. *)
Ask(p, f) ==
  /\ MayCheck(p)
  /\ check' = [check EXCEPT ![p] =
       IF Valid(cache[p][f], clock)
       THEN Answered(f, clock, cache[p][f].verdict = "revoked")
       ELSE [stage |-> "asked", sid |-> f, now |-> clock, revoked |-> FALSE]]
  /\ UNCHANGED <<clock, revokedAt, pending, cache>>

(* The query sees committed rows. *)
Query(p) ==
  /\ check[p].stage = "asked"
  /\ check' = [check EXCEPT ![p].stage = "queried",
                            ![p].revoked = revokedAt[check[p].sid] # Never]
  /\ UNCHANGED <<clock, revokedAt, pending, cache>>

\* Mutant: the cache is not cleared when it is full.
StoredUnbounded(c, f, entry) == [c EXCEPT ![f] = entry]

(* Cleared wholesale when full, then the verdict. *)
Stored(c, f, entry) ==
  LET room == IF Cardinality(CachedBy(c)) >= CacheMax THEN EmptyCache ELSE c
  IN  [room EXCEPT ![f] = entry]

\* Mutant: a live verdict is good from when it is stored, not from when the
\* check began.
VerdictFromNow(c) == IF c.revoked THEN RevokedEntry ELSE LiveEntry(clock + Ttl)

Verdict(c) == IF c.revoked THEN RevokedEntry ELSE LiveEntry(c.now + Ttl)

Store(p) ==
  /\ check[p].stage = "queried"
  /\ cache' = [cache EXCEPT ![p] = Stored(@, check[p].sid, Verdict(check[p]))]
  /\ check' = [check EXCEPT ![p].stage = "answered"]
  /\ UNCHANGED <<clock, revokedAt, pending>>

-----------------------------------------------------------------------------
(* revoke_user_sessions and its caller.                                    *)

(* The row locks of another revocation make this one wait. *)
Updatable(p, F) ==
  /\ pending[p] = {}
  /\ \A q \in Processes : pending[q] \cap F = {}

\* Mutant: the families are marked revoked in the cache instead of dropped.
RevokeAndRemember(p, F) ==
  /\ Updatable(p, F)
  /\ pending' = [pending EXCEPT ![p] = {f \in F : revokedAt[f] = Never}]
  /\ cache' = [cache EXCEPT ![p] =
       [f \in Families |-> IF f \in F \cap CachedBy(@) THEN RevokedEntry ELSE @[f]]]
  /\ UNCHANGED <<clock, revokedAt, check>>

(* The families of a user or of a company that are not revoked yet; the    *)
(* cache is cleared at once, the caller commits later.                     *)
RevokeUserSessions(p, F) ==
  /\ Updatable(p, F)
  /\ pending' = [pending EXCEPT ![p] = {f \in F : revokedAt[f] = Never}]
  /\ cache' = [cache EXCEPT ![p] = EmptyCache]
  /\ UNCHANGED <<clock, revokedAt, check>>

Commit(p) ==
  /\ pending[p] # {}
  /\ revokedAt' = [f \in Families |-> IF f \in pending[p] THEN clock ELSE revokedAt[f]]
  /\ pending' = [pending EXCEPT ![p] = {}]
  /\ UNCHANGED <<clock, cache, check>>

(* The caller's transaction fails; the cache stays cleared. *)
Rollback(p) ==
  /\ pending[p] # {}
  /\ pending' = [pending EXCEPT ![p] = {}]
  /\ UNCHANGED <<clock, revokedAt, cache, check>>

-----------------------------------------------------------------------------
Next ==
  \/ Tick
  \/ \E p \in Processes :
       \/ \E sid \in {Malformed, NoSid} : AnswerWithoutFamily(p, sid)
       \/ \E f \in Families : Ask(p, f)
       \/ Query(p)
       \/ Store(p)
       \/ \E F \in SUBSET Families \ {{}} : RevokeUserSessions(p, F)
       \/ Commit(p)
       \/ Rollback(p)

Spec == Init /\ [][Next]_vars

-----------------------------------------------------------------------------
(* Properties.                                                             *)

(* The variables have their types and no cache outgrows _CACHE_MAX, however *)
(* many families are asked for.                                            *)
TypeOK ==
  /\ clock \in 0 .. MaxTime
  /\ revokedAt \in [Families -> Nat \cup {Never}]
  /\ pending \in [Processes -> SUBSET Families]
  /\ cache \in [Processes -> [Families -> Entry]]
  /\ check \in [Processes -> Check]
  /\ \A p \in Processes : check[p].stage \in {"asked", "queried"} => check[p].sid \in Families
  /\ \A p \in Processes : Cardinality(CachedBy(cache[p])) <= CacheMax

Accepted(p, f) == check[p].stage = "answered" /\ check[p].sid = f /\ ~check[p].revoked

(***************************************************************************)
(* "At most SESSION_CACHE_SECONDS": no check that begins Ttl after the     *)
(* commit of a revocation accepts the session, in any process: also when a *)
(* slow query straddles the commit and its verdict is stored late, and     *)
(* when the revoking process fills the cache it cleared before its commit. *)
(***************************************************************************)
RevocationBound ==
  \A p \in Processes, f \in Families :
    Accepted(p, f) /\ revokedAt[f] # Never => check[p].now < revokedAt[f] + Ttl

(***************************************************************************)
(* Nobody is locked out by a revocation that did not happen: a session is  *)
(* refused only when its revocation is committed, since a revoked verdict  *)
(* stays in the cache for good.                                            *)
(***************************************************************************)
RefusedOnlyIfRevoked ==
  \A p \in Processes, f \in Families :
    check[p].stage = "answered" /\ check[p].sid = f /\ check[p].revoked => revokedAt[f] # Never
=============================================================================
