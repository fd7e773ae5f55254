------------------------ MODULE TenantRequestsProofs ------------------------
(***************************************************************************)
(* What looking first and writing later can and cannot do, for any number  *)
(* of requests at a time, any limits and any devices.                      *)
(*                                                                         *)
(* A check that passed is a promise its request still holds: the           *)
(* invariants count the rows together with the promises, so that a         *)
(* creation turns one into the other and leaves the sum as it was.         *)
(***************************************************************************)
EXTENDS TenantRequests, FiniteSetTheorems, TLAPS

Request ==
  [kind : {"none", "users", "services"}]
    \cup [kind : {"clients"}, cap : Int, seen : Nat]
    \cup [kind : {"probe"}, device : Devices, found : Nat]

Playbook == [id : Nat \ {0}, name : {NameOf[d] : d \in Devices}, def : Nat]

(* Every count is a number, and the table of playbooks is finite.          *)
TypeOK ==
  /\ users \in Nat /\ idle \in Nat /\ billable \in Nat
  /\ quoted \in BOOLEAN /\ release \in [Procs -> Nat]
  /\ playbooks \in SUBSET Playbook /\ IsFiniteSet(playbooks)
  /\ req \in [Procs -> Request]

(* The requests that have passed a check of that kind and not yet written. *)
Pending(kind) == {p \in Procs : req[p].kind = kind}

(* The probes that have found no playbook of that name.                    *)
FirstProbes(n) ==
  {p \in Procs : req[p].kind = "probe" /\ req[p].found = 0 /\ NameOf[req[p].device] = n}

(* The seats in use and those promised.                                    *)
SeatsPromised ==
  EffectiveLimit("max_users") # Unlimited =>
    users + Cardinality(Pending("users"))
      < EffectiveLimit("max_users") + Cardinality(Procs)

(* The billable clients and those promised before the quote.               *)
ServicesPromised ==
  ~quoted => billable + Cardinality(Pending("services")) < QuoteAbove + Cardinality(Procs)

(* Playbook ids are given out in order and never shared.                   *)
IdsInOrder ==
  /\ \A r \in playbooks : r.id <= Cardinality(playbooks)
  /\ \A r, s \in playbooks : r.id = s.id => r = s

(* A probe holds on to a row of its own name.                              *)
FoundIsThere ==
  \A p \in Procs : req[p].kind = "probe" /\ req[p].found # 0 =>
    \E r \in playbooks : r.id = req[p].found /\ r.name = NameOf[req[p].device]

(* The rows of a name and the probes about to add one.                     *)
ProbesPromised ==
  \A n \in {NameOf[d] : d \in Devices} :
    Cardinality(Rows(n)) + Cardinality(FirstProbes(n)) <= Cardinality(Procs)

IInv ==
  /\ TypeOK
  /\ SeatsPromised /\ ServicesPromised
  /\ CapIsExact
  /\ IdsInOrder /\ FoundIsThere /\ ProbesPromised

-----------------------------------------------------------------------------
(* Counting. *)

(* The requests served at a time are a positive number.                    *)
LEMMA ProcsCounted ==
  Cardinality(Procs) \in Nat \ {0}
<1>1. IsFiniteSet(Procs) /\ Procs # {}
  BY TenantAssumption
<1>2. Cardinality(Procs) \in Nat
  BY <1>1, FS_CardinalityType
<1>3. Cardinality(Procs) # 0
  BY <1>1, FS_EmptySet
<1>4. QED
  BY <1>2, <1>3

(* So is any part of them, and no part exceeds the whole.                  *)
LEMMA PartCounted ==
  ASSUME NEW S \in SUBSET Procs
  PROVE  /\ IsFiniteSet(S)
         /\ Cardinality(S) \in Nat /\ Cardinality(S) <= Cardinality(Procs)
<1>1. IsFiniteSet(Procs)
  BY TenantAssumption
<1>2. IsFiniteSet(S) /\ Cardinality(S) <= Cardinality(Procs)
  BY <1>1, FS_Subset
<1>3. QED
  BY <1>2, FS_CardinalityType

(* One request more raises a count by one at most; one that was counted    *)
(* and leaves lowers it by one.                                            *)
LEMMA PartGrows ==
  ASSUME NEW S \in SUBSET Procs, NEW p \in Procs
  PROVE  Cardinality(S \cup {p}) <= Cardinality(S) + 1
<1>1. IsFiniteSet(S) /\ Cardinality(S) \in Nat
  BY PartCounted
<1>2. Cardinality(S \cup {p}) = IF p \in S THEN Cardinality(S) ELSE Cardinality(S) + 1
  BY <1>1, FS_AddElement, Zenon
<1>3. QED
  BY <1>1, <1>2

LEMMA PartShrinks ==
  ASSUME NEW S \in SUBSET Procs, NEW p \in Procs
  PROVE  /\ Cardinality(S \ {p}) <= Cardinality(S)
         /\ p \in S => Cardinality(S \ {p}) = Cardinality(S) - 1
<1>1. IsFiniteSet(S) /\ Cardinality(S) \in Nat
  BY PartCounted
<1>2. Cardinality(S \ {p}) = IF p \in S THEN Cardinality(S) - 1 ELSE Cardinality(S)
  BY <1>1, FS_RemoveElement, Zenon
<1>3. QED
  BY <1>1, <1>2

(* Only the request of p moves.                                            *)
Alone(p) == \A q \in Procs \ {p} : req'[q] = req[q]

(* What a request becomes moves it into or out of the counted ones.        *)
LEMMA PendingAfter ==
  ASSUME NEW p \in Procs, NEW kind, Alone(p)
  PROVE  Pending(kind)' = IF req'[p].kind = kind THEN Pending(kind) \cup {p}
                                                 ELSE Pending(kind) \ {p}
  BY DEF Pending, Alone

(* What each step of a request makes of it.                                *)
LEMMA RequestMoves ==
  ASSUME TypeOK, NEW p \in Procs
  PROVE  /\ CheckUsers(p) => Alone(p) /\ req'[p].kind = "users"
         /\ CheckServices(p) => Alone(p) /\ req'[p].kind = "services"
         /\ CheckClients(p) => Alone(p) /\ req'[p].kind = "clients"
         /\ \A d \in Devices : ProbeLook(p, d) =>
              /\ Alone(p) /\ req'[p].kind = "probe" /\ req'[p].device = d
              /\ \/ Rows(NameOf[d]) = {} /\ req'[p].found = 0
                 \/ \E r \in Rows(NameOf[d]) : req'[p].found = r.id
         /\ Create(p) \/ ProbeRefused(p) \/ ProbeCommit(p) \/ Deploy(p) =>
              Alone(p) /\ req'[p].kind = "none"
<1>1. req \in [Procs -> Request]
  BY DEF TypeOK
<1>2. ASSUME NEW d \in Devices, ProbeLook(p, d)
      PROVE  /\ Alone(p) /\ req'[p].kind = "probe" /\ req'[p].device = d
             /\ \/ Rows(NameOf[d]) = {} /\ req'[p].found = 0
                \/ \E r \in Rows(NameOf[d]) : req'[p].found = r.id
  BY <1>1, <1>2 DEF ProbeLook, Lookup, Alone
<1>3. CheckUsers(p) => Alone(p) /\ req'[p].kind = "users"
  BY <1>1 DEF CheckUsers, Alone
<1>4. CheckServices(p) => Alone(p) /\ req'[p].kind = "services"
  BY <1>1 DEF CheckServices, Alone
<1>5. CheckClients(p) => Alone(p) /\ req'[p].kind = "clients"
  BY <1>1 DEF CheckClients, Alone
<1>6. Create(p) \/ ProbeRefused(p) \/ ProbeCommit(p) \/ Deploy(p) =>
        Alone(p) /\ req'[p].kind = "none"
  BY <1>1 DEF Create, ProbeRefused, ProbeCommit, Deploy, NoRequest, Alone
<1>7. QED
  BY <1>2, <1>3, <1>4, <1>5, <1>6

(* The effective limit is a number or unlimited.                           *)
LEMMA LimitType ==
  ASSUME NEW key
  PROVE  EffectiveLimit(key) \in Nat \cup {Unlimited}
  BY LimitAssumption DEF EffectiveLimit

(* Rounding the product to six decimals before the ceiling absorbs the     *)
(* error of a float product: the result is the exact ceiling.              *)
LEMMA CeilProductExact ==
  ASSUME NEW ratio \in Nat, NEW n \in Nat, NEW err \in {-1, 0, 1}
  PROVE  CeilProduct(ratio, n, err) = (ratio * n + 9) \div 10
<1> DEFINE k == ratio * n
<1>1. k \in Nat
  OBVIOUS
<1>2. ratio * 1000000 * n = 1000000 * k
  OBVIOUS
<1>3. RoundTo6(Product(ratio, n, err)) = 100000 * k
  <2>1. Product(ratio, n, err) = 1000000 * k + err
    BY <1>2 DEF Product
  <2> HIDE DEF k
  <2>2. (1000000 * k + err + 5) \div 10 = 100000 * k
    BY <1>1
  <2>3. QED
    BY <2>1, <2>2 DEF RoundTo6
<1> HIDE DEF k
<1>4. (100000 * k + 999999) \div 1000000 = (k + 9) \div 10
  BY <1>1
<1>5. QED
  BY <1>3, <1>4 DEF CeilProduct, Ceil6, k

-----------------------------------------------------------------------------
(* Type correctness. *)

LEMMA InitIInv == Init => IInv
<1> SUFFICES ASSUME Init PROVE IInv
  OBVIOUS
<1>1. TypeOK
  BY FS_EmptySet DEF Init, TypeOK, Request, NoRequest
<1>2. \A p \in Procs : req[p].kind = "none"
  BY DEF Init, NoRequest
<1>3. Cardinality(Procs) \in Nat \ {0}
  BY ProcsCounted
<1>4. SeatsPromised
  <2>1. Pending("users") = {}
    BY <1>2 DEF Pending
  <2>2. Cardinality(Pending("users")) = 0
    BY <2>1, FS_EmptySet
  <2>3. QED
    BY <2>2, <1>3, LimitType DEF SeatsPromised, Init, Unlimited
<1>5. ServicesPromised
  <2>1. Pending("services") = {}
    BY <1>2 DEF Pending
  <2>2. Cardinality(Pending("services")) = 0
    BY <2>1, FS_EmptySet
  <2>3. QED
    BY <2>2, <1>3, TenantAssumption DEF ServicesPromised, Init
<1>6. CapIsExact /\ FoundIsThere
  BY <1>2 DEF CapIsExact, FoundIsThere
<1>7. IdsInOrder
  BY DEF Init, IdsInOrder
<1>8. ProbesPromised
  <2> SUFFICES ASSUME NEW n
               PROVE  Cardinality(Rows(n)) + Cardinality(FirstProbes(n)) <= Cardinality(Procs)
    BY DEF ProbesPromised
  <2>1. Rows(n) = {} /\ FirstProbes(n) = {}
    BY <1>2 DEF Init, Rows, FirstProbes
  <2>2. Cardinality(Rows(n)) = 0 /\ Cardinality(FirstProbes(n)) = 0
    BY <2>1, FS_EmptySet
  <2>3. QED
    BY <2>2, <1>3
<1>9. QED
  BY <1>1, <1>4, <1>5, <1>6, <1>7, <1>8 DEF IInv

(* A finite table with one row added, or one row replaced, is finite.      *)
LEMMA TableFinite ==
  ASSUME IsFiniteSet(playbooks), NEW r, NEW S \in SUBSET playbooks
  PROVE  IsFiniteSet(S \cup {r})
<1>1. IsFiniteSet(S)
  BY FS_Subset
<1>2. QED
  BY <1>1, FS_AddElement

LEMMA HealedType ==
  ASSUME TypeOK, NEW p \in Procs, req[p].kind = "probe"
  PROVE  /\ PlaybookFor(p) \in Playbook
         /\ PlaybookFor(p).name = NameOf[req[p].device]
         /\ PlaybookFor(p).def = release[p]
         /\ req[p].found # 0 => PlaybookFor(p).id = req[p].found
         /\ req[p].found = 0 => PlaybookFor(p).id = 1 + Cardinality(playbooks)
<1>1. req[p].device \in Devices /\ req[p].found \in Nat
  BY DEF TypeOK, Request
<1>2. Cardinality(playbooks) \in Nat
  BY FS_CardinalityType DEF TypeOK
<1>3. QED
  BY <1>1, <1>2 DEF TypeOK, PlaybookFor, Playbook

(* The cap of a client creation is a number or unlimited.                  *)
LEMMA ClientCapType ==
  ASSUME NEW n \in Nat, NEW err \in {-1, 0, 1}
  PROVE  /\ ClientCap(n, err) \in Int
         /\ ClientCap(n, err) # Unlimited =>
              ClientCap(n, err) = Maximum(OrZero(EffectiveLimit("client_cap_min")),
                                    (OrZero(EffectiveLimit("client_cap_ratio")) * n + 9) \div 10)
<1> DEFINE low   == OrZero(EffectiveLimit("client_cap_min"))
           ratio == OrZero(EffectiveLimit("client_cap_ratio"))
<1>1. low \in Nat /\ ratio \in Nat
  BY LimitType DEF OrZero, Unlimited
<1>2. CeilProduct(ratio, n, err) = (ratio * n + 9) \div 10
  BY <1>1, CeilProductExact
<1> HIDE DEF low, ratio
<1>3. (ratio * n + 9) \div 10 \in Int
  <2>1. ratio * n \in Nat
    BY <1>1
  <2>2. QED
    BY <2>1
<1>4. Maximum(low, (ratio * n + 9) \div 10) \in Int
  BY <1>1, <1>3 DEF Maximum
<1>5. ClientCap(n, err) = Unlimited \/ ClientCap(n, err) = Maximum(low, (ratio * n + 9) \div 10)
  BY <1>2 DEF ClientCap, low, ratio
<1>6. QED
  BY <1>4, <1>5 DEF low, ratio, Unlimited

LEMMA TypeStep == TypeOK /\ [Next]_vars => TypeOK'
<1> SUFFICES ASSUME TypeOK, [Next]_vars PROVE TypeOK'
  OBVIOUS
<1> USE DEF TypeOK
<1>1. ASSUME NEW p \in Procs, CheckUsers(p) PROVE TypeOK'
  BY <1>1 DEF CheckUsers, Rest, Request
<1>2. ASSUME NEW p \in Procs, CheckServices(p) PROVE TypeOK'
  BY <1>2 DEF CheckServices, Rest, Request
<1>3. ASSUME NEW p \in Procs, CheckClients(p) PROVE TypeOK'
  <2>1. PICK err \in {-1, 0, 1} :
          req' = [req EXCEPT ![p] = [kind |-> "clients", cap |-> ClientCap(billable, err),
                                     seen |-> billable]]
    BY <1>3 DEF CheckClients
  <2>2. ClientCap(billable, err) \in Int
    BY ClientCapType
  <2>3. req' \in [Procs -> Request]
    BY <2>1, <2>2 DEF Request
  <2>4. QED
    BY <1>3, <2>3 DEF CheckClients, Rest
<1>4. ASSUME NEW p \in Procs, Create(p) PROVE TypeOK'
  BY <1>4 DEF Create, Request, NoRequest
<1>5. ASSUME NEW p \in Procs, ProbeRefused(p) PROVE TypeOK'
  BY <1>5 DEF ProbeRefused, Rest, Request, NoRequest
<1>6. ASSUME NEW p \in Procs, ProbeCommit(p) PROVE TypeOK'
  <2>1. PlaybookFor(p) \in Playbook
    BY <1>6, HealedType DEF ProbeCommit
  <2>2. playbooks' \in SUBSET Playbook
    BY <1>6, <2>1 DEF ProbeCommit
  <2>3. IsFiniteSet(playbooks')
    <3> DEFINE S == {r \in playbooks : r.id # PlaybookFor(p).id}
    <3>1. S \in SUBSET playbooks
      OBVIOUS
    <3> HIDE DEF S
    <3>2. IsFiniteSet(S \cup {PlaybookFor(p)})
      BY <3>1, TableFinite
    <3>3. QED
      BY <1>6, <3>2 DEF ProbeCommit, S
  <2>4. req' \in [Procs -> Request]
    BY <1>6 DEF ProbeCommit, Request, NoRequest
  <2>5. QED
    BY <1>6, <2>2, <2>3, <2>4 DEF ProbeCommit
<1>7. ASSUME NEW p \in Procs, NEW d \in Devices, ProbeLook(p, d) PROVE TypeOK'
  BY <1>7 DEF ProbeLook, Rest, Lookup, Rows, Request, Playbook
<1>8. CASE Shrink
  BY <1>8 DEF Shrink
<1>9. CASE SetQuote
  BY <1>9 DEF SetQuote
<1>10. ASSUME NEW p \in Procs, Deploy(p) PROVE TypeOK'
  BY <1>10 DEF Deploy, Request, NoRequest
<1>11. ASSUME NEW d \in jobs, JobEnds(d) PROVE TypeOK'
  BY <1>11 DEF JobEnds
<1>12. CASE UNCHANGED vars
  BY <1>12 DEF vars
<1>13. QED
  BY <1>1, <1>2, <1>3, <1>4, <1>5, <1>6, <1>7, <1>8, <1>9, <1>10, <1>11, <1>12 DEF Next

-----------------------------------------------------------------------------
(* Limits. *)

(* A passed check for users: the seat it promises is within the bound.     *)
LEMMA SeatsStep == TypeOK /\ SeatsPromised /\ [Next]_vars => SeatsPromised'
<1> SUFFICES ASSUME TypeOK, SeatsPromised, [Next]_vars,
                    EffectiveLimit("max_users") # Unlimited
             PROVE  (users + Cardinality(Pending("users")))'
                      < EffectiveLimit("max_users") + Cardinality(Procs)
  BY DEF SeatsPromised, EffectiveLimit
<1> DEFINE Holders == Pending("users")
           Limit == EffectiveLimit("max_users")
           N == Cardinality(Procs)
<1>1. /\ Limit \in Nat /\ N \in Nat \ {0} /\ users \in Nat
      /\ req \in [Procs -> Request]
  BY LimitType, ProcsCounted DEF TypeOK, Unlimited
<1>2. /\ Holders \in SUBSET Procs /\ Holders' \in SUBSET Procs
  BY DEF Pending
<1>3. /\ Cardinality(Holders) \in Nat /\ Cardinality(Holders) <= N
      /\ Cardinality(Holders') \in Nat /\ Cardinality(Holders') <= N
  BY <1>2, PartCounted
<1>4. users + Cardinality(Holders) < Limit + N
  BY DEF SeatsPromised
<1> HIDE DEF Limit, N
<1>5. ASSUME NEW p \in Procs, CheckUsers(p)
      PROVE  users' + Cardinality(Holders') < Limit + N
  <2>1. users < Limit /\ users' = users
    BY <1>5 DEF CheckUsers, WithinLimit, Below, Rest, Limit
  <2>2. QED
    BY <2>1, <1>1, <1>3
<1>6. ASSUME NEW p \in Procs, Alone(p), req'[p].kind # "users", users' = users
      PROVE  users' + Cardinality(Holders') < Limit + N
  <2>1. Holders' = Holders \ {p}
    BY <1>6, PendingAfter
  <2>2. Cardinality(Holders') <= Cardinality(Holders)
    BY <1>2, <2>1, PartShrinks
  <2>3. QED
    BY <1>1, <1>3, <1>4, <1>6, <2>2
<1>7. ASSUME NEW p \in Procs, Create(p)
      PROVE  users' + Cardinality(Holders') < Limit + N
  <2>1. Alone(p) /\ req'[p].kind = "none"
    BY <1>7, RequestMoves
  <2>2. CASE req[p].kind = "users"
    <3>1. users' = users + 1
      BY <1>7, <2>2 DEF Create
    <3>2. Holders' = Holders \ {p}
      BY <2>1, PendingAfter
    <3>3. p \in Holders
      BY <2>2 DEF Pending
    <3>4. Cardinality(Holders') = Cardinality(Holders) - 1
      BY <1>2, <3>2, <3>3, PartShrinks
    <3>5. QED
      BY <1>1, <1>3, <1>4, <3>1, <3>4
  <2>3. CASE req[p].kind # "users"
    <3>1. users' = users
      BY <1>7, <2>3 DEF Create
    <3>2. QED
      BY <1>6, <2>1, <3>1
  <2>4. QED
    BY <2>2, <2>3
<1>8. ASSUME users' <= users, users' \in Nat, req' = req
      PROVE  users' + Cardinality(Holders') < Limit + N
  <2>1. Holders' = Holders
    BY <1>8 DEF Pending
  <2>2. QED
    BY <1>1, <1>3, <1>4, <1>8, <2>1
<1> HIDE DEF Holders
<1>10. users' + Cardinality(Holders') < Limit + N
  <2>1. ASSUME NEW p \in Procs, CheckServices(p)
        PROVE  users' + Cardinality(Holders') < Limit + N
    BY <1>6, <2>1, RequestMoves DEF CheckServices, Rest
  <2>2. ASSUME NEW p \in Procs, CheckClients(p)
        PROVE  users' + Cardinality(Holders') < Limit + N
    BY <1>6, <2>2, RequestMoves DEF CheckClients, Rest
  <2>3. ASSUME NEW p \in Procs, ProbeRefused(p) \/ ProbeCommit(p) \/ Deploy(p)
        PROVE  users' + Cardinality(Holders') < Limit + N
    BY <1>6, <2>3, RequestMoves DEF ProbeRefused, ProbeCommit, Deploy, Rest
  <2>4. ASSUME NEW p \in Procs, NEW d \in Devices, ProbeLook(p, d)
        PROVE  users' + Cardinality(Holders') < Limit + N
    BY <1>6, <2>4, RequestMoves DEF ProbeLook, Rest
  <2>5. ASSUME Shrink \/ SetQuote \/ UNCHANGED vars \/ \E d \in jobs : JobEnds(d)
        PROVE  users' + Cardinality(Holders') < Limit + N
    BY <1>1, <1>8, <2>5 DEF Shrink, SetQuote, JobEnds, vars
  <2>6. QED
    BY <1>5, <1>7, <2>1, <2>2, <2>3, <2>4, <2>5 DEF Next
<1>11. QED
  BY <1>10 DEF Holders, Limit, N

(* A passed check for services: the billable client it may add.            *)
LEMMA ServicesStep == TypeOK /\ ServicesPromised /\ [Next]_vars => ServicesPromised'
<1> SUFFICES ASSUME TypeOK, ServicesPromised, [Next]_vars, ~quoted'
             PROVE  (billable + Cardinality(Pending("services")))'
                      < QuoteAbove + Cardinality(Procs)
  BY DEF ServicesPromised
<1> DEFINE Holders == Pending("services")
           N == Cardinality(Procs)
<1>1. /\ QuoteAbove \in Nat /\ N \in Nat \ {0} /\ billable \in Nat
      /\ req \in [Procs -> Request]
  BY TenantAssumption, ProcsCounted DEF TypeOK
<1>2. /\ Holders \in SUBSET Procs /\ Holders' \in SUBSET Procs
  BY DEF Pending
<1>3. /\ Cardinality(Holders) \in Nat /\ Cardinality(Holders) <= N
      /\ Cardinality(Holders') \in Nat /\ Cardinality(Holders') <= N
  BY <1>2, PartCounted
<1>4. ~quoted /\ billable + Cardinality(Holders) < QuoteAbove + N
  <2>1. quoted => quoted'
    BY DEF Next, vars, CheckUsers, CheckServices, CheckClients, Create, ProbeRefused,
           ProbeCommit, ProbeLook, Rest, Shrink, SetQuote, Deploy, JobEnds
  <2>2. QED
    BY <2>1 DEF ServicesPromised
<1> HIDE DEF N
<1>5. ASSUME NEW p \in Procs, CheckServices(p)
      PROVE  billable' + Cardinality(Holders') < QuoteAbove + N
  <2>1. billable < QuoteAbove /\ billable' = billable
    BY <1>1, <1>4, <1>5 DEF CheckServices, QuoteRequired, Rest
  <2>2. QED
    BY <2>1, <1>1, <1>3
<1>6. ASSUME NEW p \in Procs, Alone(p), req'[p].kind # "services", billable' = billable
      PROVE  billable' + Cardinality(Holders') < QuoteAbove + N
  <2>1. Holders' = Holders \ {p}
    BY <1>6, PendingAfter
  <2>2. Cardinality(Holders') <= Cardinality(Holders)
    BY <1>2, <2>1, PartShrinks
  <2>3. QED
    BY <1>1, <1>3, <1>4, <1>6, <2>2
<1>7. ASSUME NEW p \in Procs, Create(p)
      PROVE  billable' + Cardinality(Holders') < QuoteAbove + N
  <2>1. Alone(p) /\ req'[p].kind = "none"
    BY <1>7, RequestMoves
  <2>2. CASE req[p].kind = "services"
    <3>1. billable' \in {billable, billable + 1}
      BY <1>7, <2>2 DEF Create
    <3>2. Holders' = Holders \ {p}
      BY <2>1, PendingAfter
    <3>3. p \in Holders
      BY <2>2 DEF Pending
    <3>4. Cardinality(Holders') = Cardinality(Holders) - 1
      BY <1>2, <3>2, <3>3, PartShrinks
    <3>5. QED
      BY <1>1, <1>3, <1>4, <3>1, <3>4
  <2>3. CASE req[p].kind # "services"
    <3>1. billable' = billable
      BY <1>7, <2>3 DEF Create
    <3>2. QED
      BY <1>6, <2>1, <3>1
  <2>4. QED
    BY <2>2, <2>3
<1>8. ASSUME billable' <= billable, billable' \in Nat, req' = req
      PROVE  billable' + Cardinality(Holders') < QuoteAbove + N
  <2>1. Holders' = Holders
    BY <1>8 DEF Pending
  <2>2. QED
    BY <1>1, <1>3, <1>4, <1>8, <2>1
<1> HIDE DEF Holders
<1>10. billable' + Cardinality(Holders') < QuoteAbove + N
  <2>1. ASSUME NEW p \in Procs, CheckUsers(p)
        PROVE  billable' + Cardinality(Holders') < QuoteAbove + N
    BY <1>6, <2>1, RequestMoves DEF CheckUsers, Rest
  <2>2. ASSUME NEW p \in Procs, CheckClients(p)
        PROVE  billable' + Cardinality(Holders') < QuoteAbove + N
    BY <1>6, <2>2, RequestMoves DEF CheckClients, Rest
  <2>3. ASSUME NEW p \in Procs, ProbeRefused(p) \/ ProbeCommit(p) \/ Deploy(p)
        PROVE  billable' + Cardinality(Holders') < QuoteAbove + N
    BY <1>6, <2>3, RequestMoves DEF ProbeRefused, ProbeCommit, Deploy, Rest
  <2>4. ASSUME NEW p \in Procs, NEW d \in Devices, ProbeLook(p, d)
        PROVE  billable' + Cardinality(Holders') < QuoteAbove + N
    BY <1>6, <2>4, RequestMoves DEF ProbeLook, Rest
  <2>5. ASSUME Shrink \/ SetQuote \/ UNCHANGED vars \/ \E d \in jobs : JobEnds(d)
        PROVE  billable' + Cardinality(Holders') < QuoteAbove + N
    BY <1>1, <1>8, <2>5 DEF Shrink, SetQuote, JobEnds, vars
  <2>6. QED
    BY <1>5, <1>7, <2>1, <2>2, <2>3, <2>4, <2>5 DEF Next
<1>11. QED
  BY <1>10 DEF Holders, N

(* The cap a request remembers is set by CheckClients alone.               *)
LEMMA CapStep == TypeOK /\ CapIsExact /\ [Next]_vars => CapIsExact'
<1> DEFINE Exact(q) ==
      q.kind = "clients" /\ q.cap # Unlimited =>
        q.cap = Maximum(OrZero(EffectiveLimit("client_cap_min")),
                        (OrZero(EffectiveLimit("client_cap_ratio")) * q.seen + 9) \div 10)
<1> SUFFICES ASSUME TypeOK, CapIsExact, [Next]_vars, NEW p \in Procs
             PROVE  Exact(req'[p])
  BY DEF CapIsExact, Maximum, OrZero, EffectiveLimit
<1>1. Exact(req[p])
  BY DEF CapIsExact
<1>2. ASSUME CheckClients(p) PROVE Exact(req'[p])
  <2>1. PICK err \in {-1, 0, 1} :
          req' = [req EXCEPT ![p] = [kind |-> "clients", cap |-> ClientCap(billable, err),
                                     seen |-> billable]]
    BY <1>2 DEF CheckClients
  <2>2. req'[p].cap = ClientCap(billable, err) /\ req'[p].seen = billable
    BY <2>1 DEF TypeOK
  <2>3. QED
    BY <2>2, ClientCapType DEF TypeOK
<1> HIDE DEF Exact
<1>3. req'[p] = req[p] \/ CheckClients(p) \/ req'[p].kind # "clients"
  <2>1. ASSUME NEW q \in Procs, NEW d \in Devices,
               \/ CheckUsers(q) \/ CheckServices(q) \/ CheckClients(q) \/ Create(q)
               \/ ProbeRefused(q) \/ ProbeCommit(q) \/ Deploy(q) \/ ProbeLook(q, d)
        PROVE  req'[p] = req[p] \/ CheckClients(p) \/ req'[p].kind # "clients"
    <3>1. Alone(q) /\ (q = p => CheckClients(p) \/ req'[p].kind # "clients")
      BY <2>1, RequestMoves
    <3>2. QED
      BY <3>1 DEF Alone
  <2>2. CASE UNCHANGED req
    BY <2>2
  <2>3. QED
    BY <2>1, <2>2, RequestMoves DEF Next, vars, Shrink, SetQuote, JobEnds, Alone
<1>4. QED
  BY <1>1, <1>2, <1>3 DEF Exact

-----------------------------------------------------------------------------
(* The connectivity playbooks. *)

(* A row taken out and another put in its place: the count stays.          *)
LEMMA Replaced ==
  ASSUME NEW S, IsFiniteSet(S), NEW old \in S, NEW new, new \notin S \ {old}
  PROVE  /\ IsFiniteSet((S \ {old}) \cup {new})
         /\ Cardinality((S \ {old}) \cup {new}) = Cardinality(S)
<1>1. IsFiniteSet(S \ {old}) /\ Cardinality(S \ {old}) = Cardinality(S) - 1
  BY FS_RemoveElement, Zenon
<1>2. /\ IsFiniteSet((S \ {old}) \cup {new})
      /\ Cardinality((S \ {old}) \cup {new}) = Cardinality(S \ {old}) + 1
  BY <1>1, FS_AddElement, Zenon
<1>3. Cardinality(S) \in Nat
  BY FS_CardinalityType
<1>4. QED
  BY <1>1, <1>2, <1>3

(* What a committed probe does to the table: a row more under the next id, *)
(* or the row it had found, refreshed.                                     *)
LEMMA CommittedTable ==
  ASSUME TypeOK, IdsInOrder, FoundIsThere, NEW p \in Procs, ProbeCommit(p)
  PROVE  \/ /\ req[p].found = 0 /\ PlaybookFor(p) \notin playbooks
            /\ PlaybookFor(p).id = 1 + Cardinality(playbooks)
            /\ playbooks' = playbooks \cup {PlaybookFor(p)}
            /\ Cardinality(playbooks') = Cardinality(playbooks) + 1
         \/ /\ req[p].found # 0
            /\ \E old \in playbooks :
                 /\ old.id = PlaybookFor(p).id /\ old.name = PlaybookFor(p).name
                 /\ PlaybookFor(p) \notin playbooks \ {old}
                 /\ playbooks' = (playbooks \ {old}) \cup {PlaybookFor(p)}
                 /\ Cardinality(playbooks') = Cardinality(playbooks)
<1> DEFINE new == PlaybookFor(p)
<1>1. /\ req[p].kind = "probe"
      /\ playbooks' = {r \in playbooks : r.id # new.id} \cup {new}
  BY DEF ProbeCommit
<1>2. /\ new \in Playbook /\ new.name = NameOf[req[p].device]
      /\ req[p].found # 0 => new.id = req[p].found
      /\ req[p].found = 0 => new.id = 1 + Cardinality(playbooks)
  BY <1>1, HealedType
<1>3. IsFiniteSet(playbooks) /\ Cardinality(playbooks) \in Nat /\ playbooks \in SUBSET Playbook
  BY FS_CardinalityType DEF TypeOK
<1> HIDE DEF new
<1>4. CASE req[p].found = 0
  <2>1. \A r \in playbooks : r.id # new.id
    BY <1>2, <1>3, <1>4 DEF IdsInOrder, Playbook
  <2>2. new \notin playbooks /\ playbooks' = playbooks \cup {new}
    BY <1>1, <2>1
  <2>3. Cardinality(playbooks \cup {new}) = Cardinality(playbooks) + 1
    BY <1>3, <2>2, FS_AddElement, Zenon
  <2>4. QED
    BY <1>2, <1>4, <2>2, <2>3 DEF new
<1>5. CASE req[p].found # 0
  <2>1. PICK old \in playbooks : old.id = new.id /\ old.name = new.name
    BY <1>1, <1>2, <1>5 DEF FoundIsThere
  <2>2. {r \in playbooks : r.id # new.id} = playbooks \ {old}
    BY <2>1 DEF IdsInOrder
  <2>3. new \notin playbooks \ {old}
    BY <2>2
  <2>4. playbooks' = (playbooks \ {old}) \cup {new}
    BY <1>1, <2>2
  <2>5. Cardinality(playbooks') = Cardinality(playbooks)
    BY <1>3, <2>3, <2>4, Replaced
  <2>6. QED
    BY <1>5, <2>1, <2>3, <2>4, <2>5 DEF new
<1>6. QED
  BY <1>4, <1>5

(* Only a committed probe writes the table.                                *)
LEMMA TableStep ==
  ASSUME [Next]_vars
  PROVE  playbooks' = playbooks \/ \E p \in Procs : ProbeCommit(p)
  BY DEF Next, vars, CheckUsers, CheckServices, CheckClients, Create, ProbeRefused,
         ProbeLook, Rest, Shrink, SetQuote, Deploy, JobEnds

LEMMA IdsStep == TypeOK /\ IdsInOrder /\ FoundIsThere /\ [Next]_vars => IdsInOrder'
<1> SUFFICES ASSUME TypeOK, IdsInOrder, FoundIsThere, [Next]_vars PROVE IdsInOrder'
  OBVIOUS
<1>1. CASE playbooks' = playbooks
  BY <1>1 DEF IdsInOrder
<1>2. ASSUME NEW p \in Procs, ProbeCommit(p) PROVE IdsInOrder'
  <2>1. Cardinality(playbooks) \in Nat /\ playbooks \in SUBSET Playbook
    BY FS_CardinalityType DEF TypeOK
  <2> DEFINE new == PlaybookFor(p)
  <2>2. CASE /\ new.id = 1 + Cardinality(playbooks)
             /\ playbooks' = playbooks \cup {new}
             /\ Cardinality(playbooks') = Cardinality(playbooks) + 1
    BY <2>1, <2>2 DEF IdsInOrder, Playbook
  <2>3. ASSUME NEW old \in playbooks, old.id = new.id,
               playbooks' = (playbooks \ {old}) \cup {new},
               Cardinality(playbooks') = Cardinality(playbooks)
        PROVE  IdsInOrder'
    BY <2>1, <2>3 DEF IdsInOrder
  <2> HIDE DEF new
  <2>4. QED
    BY <1>2, <2>2, <2>3, CommittedTable DEF new
<1>3. QED
  BY <1>1, <1>2, TableStep

(* A row keeps its id and its name for good.                               *)
LEMMA RowsStay ==
  ASSUME TypeOK, IdsInOrder, FoundIsThere, [Next]_vars, NEW r \in playbooks
  PROVE  \E s \in playbooks' : s.id = r.id /\ s.name = r.name
<1>1. CASE playbooks' = playbooks
  BY <1>1
<1>2. ASSUME NEW p \in Procs, ProbeCommit(p)
      PROVE  \E s \in playbooks' : s.id = r.id /\ s.name = r.name
  BY <1>2, CommittedTable
<1>3. QED
  BY <1>1, <1>2, TableStep

LEMMA FoundStep == TypeOK /\ IdsInOrder /\ FoundIsThere /\ [Next]_vars => FoundIsThere'
<1> SUFFICES ASSUME TypeOK, IdsInOrder, FoundIsThere, [Next]_vars,
                    NEW p \in Procs, req'[p].kind = "probe", req'[p].found # 0
             PROVE  \E r \in playbooks' : r.id = req'[p].found /\ r.name = NameOf[req'[p].device]
  BY DEF FoundIsThere
<1>1. \E r \in playbooks : r.id = req'[p].found /\ r.name = NameOf[req'[p].device]
  <2>1. CASE req'[p] = req[p]
    BY <2>1 DEF FoundIsThere
  <2>2. ASSUME NEW d \in Devices, ProbeLook(p, d)
        PROVE  \E r \in playbooks : r.id = req'[p].found /\ r.name = NameOf[req'[p].device]
    BY <2>2, RequestMoves DEF Rows
  <2>3. req'[p] = req[p] \/ \E d \in Devices : ProbeLook(p, d)
    <3>1. ASSUME NEW q \in Procs,
                 \/ CheckUsers(q) \/ CheckServices(q) \/ CheckClients(q) \/ Create(q)
                 \/ ProbeRefused(q) \/ ProbeCommit(q) \/ Deploy(q)
                 \/ \E d \in Devices : ProbeLook(q, d)
          PROVE  req'[p] = req[p] \/ \E d \in Devices : ProbeLook(p, d)
      <4>1. Alone(q) /\ (q = p => \E d \in Devices : ProbeLook(p, d))
        BY <3>1, RequestMoves
      <4>2. QED
        BY <4>1 DEF Alone
    <3>2. CASE UNCHANGED req
      BY <3>2
    <3>3. QED
      BY <3>1, <3>2 DEF Next, vars, Shrink, SetQuote, JobEnds
  <2>4. QED
    BY <2>1, <2>2, <2>3
<1>2. QED
  BY <1>1, RowsStay

(* Rows of a name and probes about to add one: a first probe looks while   *)
(* there is no row, and a committed one trades its promise for the row.    *)
LEMMA ProbesStep ==
  TypeOK /\ IdsInOrder /\ FoundIsThere /\ ProbesPromised /\ [Next]_vars => ProbesPromised'
<1> SUFFICES ASSUME TypeOK, IdsInOrder, FoundIsThere, ProbesPromised, [Next]_vars,
                    NEW n \in {NameOf[d] : d \in Devices}
             PROVE  Cardinality(Rows(n)') + Cardinality(FirstProbes(n)') <= Cardinality(Procs)
  BY DEF ProbesPromised
<1> DEFINE First == FirstProbes(n)
           Table == Rows(n)
           N == Cardinality(Procs)
<1>1. First \in SUBSET Procs /\ First' \in SUBSET Procs
  BY DEF FirstProbes
<1>2. /\ Cardinality(First) \in Nat /\ Cardinality(First) <= N
      /\ Cardinality(First') \in Nat /\ Cardinality(First') <= N
  BY <1>1, PartCounted
<1>3. IsFiniteSet(Table) /\ Cardinality(Table) \in Nat
  <2>1. Table \in SUBSET playbooks /\ IsFiniteSet(playbooks)
    BY DEF Rows, TypeOK
  <2>2. IsFiniteSet(Table)
    BY <2>1, FS_Subset
  <2>3. QED
    BY <2>2, FS_CardinalityType
<1>4. Cardinality(Table) + Cardinality(First) <= N /\ N \in Nat
  BY ProcsCounted DEF ProbesPromised
<1> HIDE DEF N
<1>5. ASSUME First' \in SUBSET First, playbooks' = playbooks
      PROVE  Cardinality(Table') + Cardinality(First') <= N
  <2>1. Table' = Table
    BY <1>5 DEF Rows
  <2>2. Cardinality(First') <= Cardinality(First)
    BY <1>1, <1>5, PartCounted, FS_Subset
  <2>3. QED
    BY <1>2, <1>3, <1>4, <2>1, <2>2
<1>6. ASSUME NEW p \in Procs, Alone(p), req'[p].kind # "probe", playbooks' = playbooks
      PROVE  Cardinality(Table') + Cardinality(First') <= N
  <2>1. First' \in SUBSET First
    BY <1>6 DEF Alone, FirstProbes
  <2>2. QED
    BY <1>5, <1>6, <2>1
<1>7. ASSUME NEW p \in Procs, NEW d \in Devices, ProbeLook(p, d)
      PROVE  Cardinality(Table') + Cardinality(First') <= N
  <2>1. playbooks' = playbooks
    BY <1>7 DEF ProbeLook, Rest
  <2>2. /\ Alone(p) /\ req'[p].kind = "probe" /\ req'[p].device = d
        /\ \/ Rows(NameOf[d]) = {} /\ req'[p].found = 0
           \/ \E r \in Rows(NameOf[d]) : req'[p].found = r.id
    BY <1>7, RequestMoves
  <2>3. CASE NameOf[d] = n /\ Table = {}
    <3>1. Table' = {}
      BY <2>1, <2>3 DEF Rows
    <3>2. Cardinality(Table') = 0
      BY <3>1, FS_EmptySet
    <3>3. QED
      BY <1>2, <3>2
  <2>4. CASE ~(NameOf[d] = n /\ Table = {})
    <3>1. \A r \in playbooks : r.id # 0
      BY DEF TypeOK, Playbook
    <3>2. NameOf[d] = n => req'[p].found # 0
      BY <2>2, <2>4, <3>1 DEF Rows
    <3>3. First' \in SUBSET First
      BY <2>2, <3>2 DEF Alone, FirstProbes
    <3>4. QED
      BY <1>5, <2>1, <3>3
  <2>5. QED
    BY <2>3, <2>4
<1>8. ASSUME NEW p \in Procs, ProbeCommit(p)
      PROVE  Cardinality(Table') + Cardinality(First') <= N
  <2> DEFINE new == PlaybookFor(p)
  <2>1. Alone(p) /\ req'[p].kind = "none" /\ req[p].kind = "probe"
    BY <1>8, RequestMoves DEF ProbeCommit
  <2>2. First' = First \ {p}
    BY <2>1 DEF Alone, FirstProbes
  <2>3. new.name = NameOf[req[p].device]
    BY <2>1, HealedType
  <2> HIDE DEF new
  <2>4. ASSUME req[p].found = 0, new \notin playbooks, playbooks' = playbooks \cup {new}
        PROVE  Cardinality(Table') + Cardinality(First') <= N
    <3>1. CASE new.name = n
      <4>1. p \in First
        BY <2>1, <2>3, <2>4, <3>1 DEF FirstProbes
      <4>2. Cardinality(First') = Cardinality(First) - 1
        BY <1>1, <2>2, <4>1, PartShrinks
      <4>3. Table' = Table \cup {new} /\ new \notin Table
        BY <2>4, <3>1 DEF Rows
      <4>4. Cardinality(Table \cup {new}) = Cardinality(Table) + 1
        BY <1>3, <4>3, FS_AddElement, Zenon
      <4>5. QED
        BY <1>2, <1>3, <1>4, <4>2, <4>3, <4>4
    <3>2. CASE new.name # n
      <4>1. Table' = Table
        BY <2>4, <3>2 DEF Rows
      <4>2. Cardinality(First') <= Cardinality(First)
        BY <1>1, <2>2, PartShrinks
      <4>3. QED
        BY <1>2, <1>3, <1>4, <4>1, <4>2
    <3>3. QED
      BY <3>1, <3>2
  <2>5. ASSUME NEW old \in playbooks, old.name = new.name, new \notin playbooks \ {old},
               playbooks' = (playbooks \ {old}) \cup {new}
        PROVE  Cardinality(Table') + Cardinality(First') <= N
    <3>1. Cardinality(Table') = Cardinality(Table)
      <4>1. CASE new.name = n
        <5>1. old \in Table /\ new \notin Table \ {old}
          BY <2>5, <4>1 DEF Rows
        <5>2. Table' = (Table \ {old}) \cup {new}
          BY <2>5, <4>1 DEF Rows
        <5>3. QED
          BY <1>3, <5>1, <5>2, Replaced
      <4>2. CASE new.name # n
        <5>1. Table' = Table
          BY <2>5, <4>2 DEF Rows
        <5>2. QED
          BY <5>1
      <4>3. QED
        BY <4>1, <4>2
    <3>2. Cardinality(First') <= Cardinality(First)
      BY <1>1, <2>2, PartShrinks
    <3>3. QED
      BY <1>2, <1>3, <1>4, <3>1, <3>2
  <2>6. QED
    BY <1>8, <2>4, <2>5, CommittedTable DEF new
<1> HIDE DEF First, Table
<1>9. Cardinality(Table') + Cardinality(First') <= N
  <2>1. ASSUME NEW p \in Procs,
               \/ CheckUsers(p) \/ CheckServices(p) \/ CheckClients(p) \/ Create(p)
               \/ ProbeRefused(p) \/ Deploy(p)
        PROVE  Cardinality(Table') + Cardinality(First') <= N
    <3>1. Alone(p) /\ req'[p].kind # "probe"
      BY <2>1, RequestMoves
    <3>2. playbooks' = playbooks
      BY <2>1 DEF CheckUsers, CheckServices, CheckClients, Create, ProbeRefused,
                   Deploy, Rest
    <3>3. QED
      BY <1>6, <3>1, <3>2
  <2>2. CASE Shrink \/ SetQuote \/ UNCHANGED vars \/ \E d \in jobs : JobEnds(d)
    <3>1. req' = req /\ playbooks' = playbooks
      BY <2>2 DEF Shrink, SetQuote, vars, JobEnds
    <3>2. First' \in SUBSET First
      BY <3>1 DEF First, FirstProbes
    <3>3. QED
      BY <1>5, <3>1, <3>2
  <2>3. QED
    BY <1>7, <1>8, <2>1, <2>2 DEF Next
<1>10. QED
  BY <1>9 DEF First, Table, N

-----------------------------------------------------------------------------
(* The theorems. *)

LEMMA InvariantHolds == Spec => []IInv
<1>1. IInv /\ [Next]_vars => IInv'
  BY TypeStep, SeatsStep, ServicesStep, CapStep, IdsStep, FoundStep, ProbesStep DEF IInv
<1>2. QED
  BY InitIInv, <1>1, PTL DEF Spec

(* check_tier_limit counts before the caller inserts: whatever the number  *)
(* of requests at a time, max_users is exceeded by less than that number.  *)
THEOREM SeatOvershootHolds == Spec => []SeatOvershootIsBounded
<1>1. IInv => SeatOvershootIsBounded
  <2> SUFFICES ASSUME IInv PROVE SeatOvershootIsBounded
    OBVIOUS
  <2>1. Pending("users") \in SUBSET Procs
    BY DEF Pending
  <2>2. Cardinality(Pending("users")) \in Nat
    BY <2>1, PartCounted
  <2>3. Cardinality(Procs) \in Nat /\ users \in Nat
    BY ProcsCounted DEF IInv, TypeOK
  <2>4. EffectiveLimit("max_users") # Unlimited => EffectiveLimit("max_users") \in Nat
    BY LimitType
  <2>5. QED
    BY <2>2, <2>3, <2>4 DEF IInv, SeatsPromised, SeatOvershootIsBounded
<1>2. QED
  BY InvariantHolds, <1>1, PTL

(* So is quote_above_clients by the billable clients of a tenant without a *)
(* quote, whoever creates clients and services and cancels them meanwhile. *)
THEOREM QuoteOvershootHolds == Spec => []QuoteOvershootIsBounded
<1>1. IInv => QuoteOvershootIsBounded
  <2> SUFFICES ASSUME IInv PROVE QuoteOvershootIsBounded
    OBVIOUS
  <2>1. Pending("services") \in SUBSET Procs
    BY DEF Pending
  <2>2. Cardinality(Pending("services")) \in Nat
    BY <2>1, PartCounted
  <2>3. Cardinality(Procs) \in Nat /\ QuoteAbove \in Nat /\ billable \in Nat
    BY ProcsCounted, TenantAssumption DEF IInv, TypeOK
  <2>4. QED
    BY <2>2, <2>3 DEF IInv, ServicesPromised, QuoteOvershootIsBounded
<1>2. QED
  BY InvariantHolds, <1>1, PTL

(* client_cap is the exact ceiling for every ratio, every minimum and      *)
(* every number of billable clients, whatever the float rounding error.    *)
THEOREM CapHolds == Spec => []CapIsExact
<1>1. IInv => CapIsExact
  BY DEF IInv
<1>2. QED
  BY InvariantHolds, <1>1, PTL

(* However many devices share a name, and with processes of any releases   *)
(* side by side, a name never has more connectivity playbooks than there   *)
(* are requests at a time, although nothing unique stands behind           *)
(* _get_or_create_connectivity_playbook.                                   *)
THEOREM DuplicatesHold == Spec => []DuplicatesOnlyFromFirstProbes
<1>1. IInv => DuplicatesOnlyFromFirstProbes
  <2> SUFFICES ASSUME IInv, NEW d \in Devices
               PROVE  Cardinality(Rows(NameOf[d])) <= Cardinality(Procs)
    BY DEF DuplicatesOnlyFromFirstProbes
  <2> DEFINE n == NameOf[d]
  <2>1. Cardinality(Rows(n)) + Cardinality(FirstProbes(n)) <= Cardinality(Procs)
    BY DEF IInv, ProbesPromised
  <2>2. FirstProbes(n) \in SUBSET Procs
    BY DEF FirstProbes
  <2>3. Cardinality(FirstProbes(n)) \in Nat /\ Cardinality(Procs) \in Nat
    BY <2>2, PartCounted, ProcsCounted
  <2>4. Rows(n) \in SUBSET playbooks /\ IsFiniteSet(playbooks)
    BY DEF Rows, IInv, TypeOK
  <2>5. Cardinality(Rows(n)) \in Nat
    BY <2>4, FS_Subset, FS_CardinalityType
  <2>6. QED
    BY <2>1, <2>3, <2>5
<1>2. QED
  BY InvariantHolds, <1>1, PTL
=============================================================================
