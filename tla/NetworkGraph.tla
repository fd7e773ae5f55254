---------------------------- MODULE NetworkGraph ----------------------------
(***************************************************************************)
(* The plant of a company: inventory_item rows joined by parent_id         *)
(* (utils/network_graph.py), kept a forest by the triggers and constraints *)
(* that alembic revision ng1_network_graph installs.                       *)
(*                                                                         *)
(* A recursive CTE is the function from depths to the row it finds there:  *)
(* a walk.  A row that is not in the plant stands for one not inserted     *)
(* yet, deleted or in a warehouse: the guards treat them alike.            *)
(*                                                                         *)
(* A step is a whole transaction: the trigger of a writer sees the plant   *)
(* its own commit changes.  That is the code as long as writers do not     *)
(* overlap; GraphRace has those that do.                                   *)
(***************************************************************************)
EXTENDS Integers, Sequences

CONSTANTS
  Items,          \* inventory_item rows
  Company,        \* company_id of each
  MaxPathDepth,   \* MAX_PATH_DEPTH, of the traversals and of the trigger
  NoItem          \* NULL

ASSUME NetworkGraphAssumption ==
  /\ MaxPathDepth \in Nat \ {0}
  /\ NoItem \notin Items
  /\ \A i \in Items : Company[i] # NoItem

VARIABLES
  parent,         \* inventory_item.parent_id
  attached        \* inventory_item.network_attached

vars == <<parent, attached>>

-----------------------------------------------------------------------------
(* Traversals.                                                             *)

(* The row a recursive term joins to: the parent, of the same company. *)
Above(i, company) ==
  IF i # NoItem /\ parent[i] # NoItem /\ Company[parent[i]] = company
  THEN parent[i] ELSE NoItem

(* The rows of an ancestor CTE from `start`, `last` levels above it. *)
Walks(start, company, last) ==
  {w \in [0 .. last -> Items \cup {NoItem}] :
     /\ w[0] = start
     /\ \A n \in 0 .. (last - 1) : w[n + 1] = Above(w[n], company)}

(***************************************************************************)
(* _ancestor_cte of i and the trigger's own CTE for i under p: each set    *)
(* holds the one walk there is.  The first has one row more than the       *)
(* longest path, to tell it too deep; it starts at an item of the plant.   *)
(***************************************************************************)
AncestorWalks(i, company) ==
  Walks(IF Company[i] = company /\ attached[i] THEN i ELSE NoItem, company, MaxPathDepth)

GuardWalks(i, p) ==
  Walks(IF Company[p] = Company[i] THEN p ELSE NoItem, Company[i], MaxPathDepth - 1)

Rows(w) == {n \in DOMAIN w : w[n] # NoItem}
Meets(w, i) == \E n \in DOMAIN w : w[n] = i

\* Mutant: a walk that was cut off is taken for a path.
NeverTooDeep(i) == FALSE

(* resolve_path raises PATH_TOO_DEEP. *)
TooDeep(i) == \E w \in AncestorWalks(i, Company[i]) : w[MaxPathDepth] # NoItem

(* resolve_path: the item and its ancestors, leaf first; <<>> when it is   *)
(* not in the plant.                                                       *)
ResolvePath(i) ==
  LET w == CHOOSE walk \in AncestorWalks(i, Company[i]) : TRUE
  IN  [n \in {m + 1 : m \in Rows(w)} |-> w[n - 1]]

\* Mutant: the pre-check stops at the depth the trigger stops at.
PreCheckOneShort(i, p) ==
  i = p \/ \E w \in AncestorWalks(p, Company[i]) : \E n \in 0 .. (MaxPathDepth - 2) : w[n] = i

(* would_create_cycle: the service layer's pre-check, in the company of i. *)
WouldCreateCycle(i, p) == i = p \/ \E w \in AncestorWalks(p, Company[i]) : Meets(w, i)

-----------------------------------------------------------------------------
(* The triggers.                                                           *)

(* NETWORK_GRAPH_CYCLE and NETWORK_GRAPH_TOO_DEEP for i under p. *)
CycleFound(i, p) == \E w \in GuardWalks(i, p) : Meets(w, i)

\* Mutant: the last row of the walk is not looked at.
EndsInSightOneOff(w) == TRUE

EndsInSight(w) == w[MaxPathDepth - 1] = NoItem

(* inventory_item_graph_guard lets parent_id of i become p. *)
GraphGuard(i, p) ==
  p # NoItem =>
    /\ p # i
    /\ Company[p] = Company[i]
    /\ attached[p]
    /\ \E w \in GuardWalks(i, p) : ~Meets(w, i) /\ EndsInSight(w)

\* Mutant: an item with children may be detached.
DetachUnguarded(i) == TRUE

(* inventory_item_detach_guard lets network_attached of i become FALSE. *)
DetachGuard(i) == \A j \in Items : parent[j] # i

-----------------------------------------------------------------------------
(* Writers (external), one at a time: any statement that the constraints   *)
(* admit, checked by its trigger and committed in one step.                *)

Init ==
  /\ parent = [i \in Items |-> NoItem]
  /\ attached = [i \in Items |-> FALSE]

(* Attach, or re-parent together with everything behind the item. *)
SetParent(i, p) ==
  /\ p # parent[i] \/ ~attached[i]
  /\ GraphGuard(i, p)
  /\ parent' = [parent EXCEPT ![i] = p]
  /\ attached' = [attached EXCEPT ![i] = TRUE]

(* A detached item has no parent: ck_inventory_item_parent_attached. *)
Detach(i) ==
  /\ attached[i]
  /\ DetachGuard(i)
  /\ parent' = [parent EXCEPT ![i] = NoItem]
  /\ attached' = [attached EXCEPT ![i] = FALSE]

Next == \E i \in Items : Detach(i) \/ \E p \in Items \cup {NoItem} : SetParent(i, p)

Spec == Init /\ [][Next]_vars

-----------------------------------------------------------------------------
(* Properties.                                                             *)

(***************************************************************************)
(* As long as writers do not overlap, the columns hold what they may hold, *)
(* no item of the plant hangs from one that left it, and no path leaves    *)
(* its company, whatever is attached, moved and detached: traversals may   *)
(* follow parent_id.  An attach under p that overlaps the detach of p      *)
(* passes its trigger, as the detach does, and leaves an item below one    *)
(* outside the plant: neither trigger sees the other's row (GraphRace).    *)
(***************************************************************************)
WithinThePlant ==
  /\ parent \in [Items -> Items \cup {NoItem}]
  /\ attached \in [Items -> BOOLEAN]
  /\ \A i \in Items : parent[i] # NoItem =>
       attached[i] /\ attached[parent[i]] /\ Company[parent[i]] = Company[i]

(* A set of items each of which hangs from another of them. *)
Loop(S) == S # {} /\ \A i \in S : parent[i] \in S

(***************************************************************************)
(* The trigger keeps the plant a forest although its walk is bounded, as   *)
(* long as writers do not overlap: it refuses what it cannot see the end   *)
(* of.                                                                     *)
(***************************************************************************)
Forest == \A S \in SUBSET Items : ~Loop(S)

(***************************************************************************)
(* "Both must stay in agreement": what would_create_cycle refuses, the     *)
(* trigger refuses, and what the trigger refuses as a cycle the pre-check  *)
(* has refused, also where their walks end at different depths.            *)
(***************************************************************************)
PreCheckAgrees ==
  \A i, p \in Items :
    /\ WouldCreateCycle(i, p) /\ attached[p] => ~GraphGuard(i, p)
    /\ attached[p] /\ Company[p] = Company[i] /\ CycleFound(i, p) => WouldCreateCycle(i, p)

(***************************************************************************)
(* A path that resolve_path returns ends at a root: no subscriber silently *)
(* resolves a shorter path, however deep moved subtrees have made it.      *)
(***************************************************************************)
PathReachesRoot ==
  \A i \in Items :
    attached[i] /\ ~TooDeep(i) => parent[ResolvePath(i)[Len(ResolvePath(i))]] = NoItem
=============================================================================
