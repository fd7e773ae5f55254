--------------------------- MODULE TenantRequests ---------------------------
(***************************************************************************)
(* Requests of one tenant that look first and write later, with nothing    *)
(* locked in between: the creations check_tier_limit guards                *)
(* (utils/tier_limits.py) and the connectivity probe, whose system         *)
(* playbook is created at first use (utils/connectivity.py).               *)
(***************************************************************************)
EXTENDS Integers, FiniteSets

CONSTANTS
  Procs,        \* the processes, API and workers: each serves one request at a time
  Features,     \* tier.features: limit key -> value, -1 for unlimited
  Overrides,    \* subscription.limit_overrides: limit key -> value
  QuoteAbove,   \* tier.quote_above_clients
  Devices,      \* the core devices that are probed
  NameOf,       \* [Devices -> playbook name]: protocol and dial target
  MaxClients,   \* bound: clients of a tenant that has its quote
  MaxRelease    \* bound: versions of _connectivity_definition

ASSUME TenantAssumption ==
  /\ IsFiniteSet(Procs) /\ Procs # {}
  /\ QuoteAbove \in Nat
  /\ MaxClients \in Nat /\ MaxRelease \in Nat

Unlimited == -1

(* None or -1 is unlimited; any other value of a limit is a number of      *)
(* things, client_cap_ratio a number of tenths.                            *)
ASSUME LimitAssumption ==
  /\ \A key \in DOMAIN Features : Features[key] \in Nat \cup {Unlimited}
  /\ \A key \in DOMAIN Overrides : Overrides[key] \in Nat \cup {Unlimited}

VARIABLES
  users,      \* active users that are not machine accounts
  idle,       \* clients not deactivated, with no service that is not cancelled
  billable,   \* clients not deactivated, with such a service
  quoted,     \* custom_monthly_price is set
  release,    \* the version of _connectivity_definition each process runs
  playbooks,  \* the connectivity playbooks
  jobs,       \* the devices with a probe job in flight
  req         \* what each request has seen so far

vars == <<users, idle, billable, quoted, release, playbooks, jobs, req>>

NoRequest == [kind |-> "none"]

-----------------------------------------------------------------------------
(* Limits. *)

(* An override replaces the tier's value; None, like -1, is unlimited.     *)
EffectiveLimit(key) ==
  IF key \in DOMAIN Overrides THEN Overrides[key]
  ELSE IF key \in DOMAIN Features THEN Features[key] ELSE Unlimited

(* ratio is in tenths.  The product of two floats is off by a rounding     *)
(* error: err, in units of 10^-7.                                          *)
Product(ratio, n, err) == ratio * 1000000 * n + err
RoundTo6(x) == (x + 5) \div 10                      \* in units of 10^-6
Ceil6(x) == (x + 999999) \div 1000000

(* Mutant: the ceiling of the raw product.                                 *)
CeilUnrounded(ratio, n, err) == (Product(ratio, n, err) + 9999999) \div 10000000

CeilProduct(ratio, n, err) == Ceil6(RoundTo6(Product(ratio, n, err)))

OrZero(limit) == IF limit = Unlimited THEN 0 ELSE limit
Maximum(a, b) == IF a > b THEN a ELSE b

ClientCap(n, err) ==
  LET low   == EffectiveLimit("client_cap_min")
      ratio == EffectiveLimit("client_cap_ratio")
  IN IF low = Unlimited /\ ratio = Unlimited THEN Unlimited
     ELSE Maximum(OrZero(low), CeilProduct(OrZero(ratio), n, err))

\* Mutant: the tenant may pass the threshold by one.
QuoteRequiredLate == billable > QuoteAbove /\ ~quoted

QuoteRequired == billable >= QuoteAbove /\ ~quoted

Below(count, limit) == limit = Unlimited \/ count < limit

(* Mutant: the limit itself may still be exceeded by one.                  *)
BelowOrAt(count, limit) == limit = Unlimited \/ count <= limit

WithinLimit(count, limit) == Below(count, limit)

-----------------------------------------------------------------------------
(* The requests. *)

Rest == UNCHANGED <<users, idle, billable, quoted, release, playbooks, jobs>>

(* check_tier_limit passes for "users", "services" or "clients".           *)
CheckUsers(p) ==
  /\ req[p] = NoRequest
  /\ WithinLimit(users, EffectiveLimit("max_users"))
  /\ req' = [req EXCEPT ![p] = [kind |-> "users"]]
  /\ Rest

(* A new service: for a client that has none, or for one that has.         *)
CheckServices(p) ==
  /\ req[p] = NoRequest
  /\ ~QuoteRequired
  /\ req' = [req EXCEPT ![p] = [kind |-> "services"]]
  /\ Rest

CheckClients(p) ==
  /\ req[p] = NoRequest
  /\ ~QuoteRequired
  /\ \E err \in {-1, 0, 1} :
       /\ WithinLimit(idle + billable, ClientCap(billable, err))
       /\ req' = [req EXCEPT ![p] = [kind |-> "clients", cap |-> ClientCap(billable, err),
                                     seen |-> billable]]
  /\ WithinLimit(idle + billable, EffectiveLimit("max_clients"))
  /\ Rest

Create(p) ==
  /\ \/ /\ req[p].kind = "users"
        /\ users' = users + 1
        /\ UNCHANGED <<idle, billable>>
     \/ /\ req[p].kind = "clients"
        /\ idle + billable < MaxClients
        /\ idle' = idle + 1
        /\ UNCHANGED <<users, billable>>
     \/ /\ req[p].kind = "services"
        /\ \/ idle > 0 /\ idle' = idle - 1 /\ billable' = billable + 1
           \/ UNCHANGED <<idle, billable>>   \* the client has one already
        /\ UNCHANGED users
  /\ req' = [req EXCEPT ![p] = NoRequest]
  /\ UNCHANGED <<quoted, release, playbooks, jobs>>

(* The office gives seats and clients back, or agrees on a price.          *)
Shrink ==
  /\ \/ users > 0 /\ users' = users - 1 /\ UNCHANGED <<idle, billable>>
     \/ idle > 0 /\ idle' = idle - 1 /\ UNCHANGED <<users, billable>>
     \/ /\ billable > 0 /\ billable' = billable - 1
        /\ idle' \in {idle, idle + 1}   \* client deactivated, service cancelled
        /\ UNCHANGED users
  /\ UNCHANGED <<quoted, release, playbooks, jobs, req>>

SetQuote ==
  /\ ~quoted /\ quoted' = TRUE
  /\ UNCHANGED <<users, idle, billable, release, playbooks, jobs, req>>

-----------------------------------------------------------------------------
(* The connectivity probe. *)

Rows(n) == {r \in playbooks : r.name = n}

(* Mutant: a row with another definition is not recognised.                *)
LookupByDefinition(n, def) == {r \in Rows(n) : r.def = def}

(* The name is the key of the get-or-create, the definition is not.        *)
Lookup(n, def) == Rows(n)

(* The lookup: any row of that name, or none.                              *)
ProbeLook(p, d) ==
  /\ req[p] = NoRequest
  /\ \/ /\ Lookup(NameOf[d], release[p]) = {}
        /\ req' = [req EXCEPT ![p] = [kind |-> "probe", device |-> d, found |-> 0]]
     \/ \E r \in Lookup(NameOf[d], release[p]) :
          req' = [req EXCEPT ![p] = [kind |-> "probe", device |-> d, found |-> r.id]]
  /\ Rest

(* A gate refuses, or the device's key has a job in flight: the            *)
(* transaction is rolled back, the playbook with it.                       *)
ProbeRefused(p) ==
  /\ req[p].kind = "probe"
  /\ req' = [req EXCEPT ![p] = NoRequest]
  /\ Rest

(* The row a probe uses, with the definition of its own process: a new     *)
(* one, or the one it found, refreshed in place if it had drifted.         *)
PlaybookFor(p) ==
  LET row == [id |-> req[p].found, name |-> NameOf[req[p].device], def |-> release[p]]
  IN IF req[p].found = 0 THEN [row EXCEPT !.id = 1 + Cardinality(playbooks)] ELSE row

ProbeCommit(p) ==
  /\ req[p].kind = "probe"
  /\ req[p].device \notin jobs
  /\ playbooks' = {r \in playbooks : r.id # PlaybookFor(p).id} \cup {PlaybookFor(p)}
  /\ jobs' = jobs \cup {req[p].device}
  /\ req' = [req EXCEPT ![p] = NoRequest]
  /\ UNCHANGED <<users, idle, billable, quoted, release>>

(* The worker (external) finishes the job.                                 *)
JobEnds(d) ==
  /\ jobs' = jobs \ {d}
  /\ UNCHANGED <<users, idle, billable, quoted, release, playbooks, req>>

(* A process restarts with the next definition and loses its request; API  *)
(* and workers are deployed one by one, so the others may run the old one. *)
Deploy(p) ==
  /\ release[p] < MaxRelease
  /\ release' = [release EXCEPT ![p] = @ + 1]
  /\ req' = [req EXCEPT ![p] = NoRequest]
  /\ UNCHANGED <<users, idle, billable, quoted, playbooks, jobs>>

-----------------------------------------------------------------------------
Init ==
  /\ users = 0 /\ idle = 0 /\ billable = 0 /\ quoted = FALSE
  /\ release = [p \in Procs |-> 1] /\ playbooks = {} /\ jobs = {}
  /\ req = [p \in Procs |-> NoRequest]

Next ==
  \/ \E p \in Procs : \/ CheckUsers(p) \/ CheckServices(p) \/ CheckClients(p) \/ Create(p)
                      \/ ProbeRefused(p) \/ ProbeCommit(p) \/ Deploy(p)
                      \/ \E d \in Devices : ProbeLook(p, d)
  \/ Shrink \/ SetQuote
  \/ \E d \in jobs : JobEnds(d)

Spec == Init /\ [][Next]_vars

-----------------------------------------------------------------------------
(* Properties. *)

(* Counting before inserting lets requests that arrive together pass the   *)
(* same check, but never more than one each: the seats in use exceed       *)
(* max_users by less than the requests served at a time.                   *)
SeatOvershootIsBounded ==
  EffectiveLimit("max_users") # Unlimited =>
    users < EffectiveLimit("max_users") + Cardinality(Procs)

(* The billable clients of a tenant that needs a quote and has none exceed *)
(* quote_above_clients by less than that number, although the check of a   *)
(* new service counts clients and two kinds of request feed the count.     *)
QuoteOvershootIsBounded == ~quoted => billable < QuoteAbove + Cardinality(Procs)

(* The cap a request was measured against is the exact ceiling of ratio    *)
(* times the billable clients it counted, whatever the rounding error of   *)
(* the float product (client_cap rounds before it takes the ceiling).      *)
CapIsExact ==
  \A p \in Procs : req[p].kind = "clients" /\ req[p].cap # Unlimited =>
    req[p].cap = Maximum(OrZero(EffectiveLimit("client_cap_min")),
                         (OrZero(EffectiveLimit("client_cap_ratio")) * req[p].seen + 9) \div 10)

(* No unique index guards the name of a system playbook, so first probes   *)
(* that overlap create it once each; once one of them is committed no      *)
(* later probe creates another, also while processes of two releases       *)
(* rewrite the definition of the rows they find to their own.              *)
DuplicatesOnlyFromFirstProbes ==
  \A d \in Devices : Cardinality(Rows(NameOf[d])) <= Cardinality(Procs)
=============================================================================
