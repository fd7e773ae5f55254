----------------------------- MODULE GraphRace -----------------------------
(***************************************************************************)
(* Writers of the plant whose transactions overlap.  Under READ COMMITTED  *)
(* a trigger reads the rows other transactions have committed; an update   *)
(* locks its own row and, through the foreign key, only the key of the     *)
(* parent's, so a transaction that moves or detaches the parent is not     *)
(* kept out.                                                               *)
(***************************************************************************)
EXTENDS MCNetworkGraph

VARIABLES
  moved,          \* the new parent of each item whose update is not committed
  leaving         \* the items whose detach is not committed

Locked == DOMAIN moved \cup leaving

RaceInit == Init /\ moved = <<>> /\ leaving = {}

(* The update passes its trigger and waits for its commit. *)
Update(i, p) ==
  /\ i \notin Locked
  /\ p # parent[i]
  /\ GraphGuard(i, p)
  /\ moved' = (i :> p) @@ moved
  /\ UNCHANGED <<vars, leaving>>

UpdateDetached(i) ==
  /\ i \notin Locked
  /\ attached[i]
  /\ DetachGuard(i)
  /\ leaving' = leaving \cup {i}
  /\ UNCHANGED <<vars, moved>>

CommitUpdate(i) ==
  /\ i \in DOMAIN moved
  /\ parent' = [parent EXCEPT ![i] = moved[i]]
  /\ attached' = [attached EXCEPT ![i] = TRUE]
  /\ moved' = [j \in DOMAIN moved \ {i} |-> moved[j]]
  /\ UNCHANGED leaving

CommitDetached(i) ==
  /\ i \in leaving
  /\ parent' = [parent EXCEPT ![i] = NoItem]
  /\ attached' = [attached EXCEPT ![i] = FALSE]
  /\ leaving' = leaving \ {i}
  /\ UNCHANGED moved

RaceNext ==
  \E i \in Items :
    \/ \E p \in Items : Update(i, p)
    \/ CommitUpdate(i)
    \/ UpdateDetached(i)
    \/ CommitDetached(i)
    \/ /\ i \notin Locked
       /\ SetParent(i, NoItem)
       /\ UNCHANGED <<moved, leaving>>

RaceSpec == RaceInit /\ [][RaceNext]_<<vars, moved, leaving>>

(***************************************************************************)
(* "The trigger remains the guarantee" (would_create_cycle): the plant is  *)
(* a forest whoever else is writing to it.                                 *)
(***************************************************************************)
ForestDespiteOverlap == Forest
=============================================================================
