-------------------------- MODULE MCWorkflowEngine --------------------------
(***************************************************************************)
(* Two processes and one client service.  "install" has an order, a path   *)
(* and a job step, drawn without edges (so that two executions may take    *)
(* them in opposite orders) and with a join; both its triggers match when  *)
(* the service becomes active.  "follow" creates an order when an order is *)
(* created, so it triggers itself, by a condition and by one with an       *)
(* operator the engine does not know.  "notify" is a chain of other step   *)
(* types, one of which the database may reject and one of which may raise, *)
(* beside a step that waits for itself.                                    *)
(***************************************************************************)
EXTENDS WorkflowEngine, TLC

CONSTANTS p1, p2

MCProcs == {p1, p2}
MCWorkflows == {"install", "follow", "notify"}

OnUpdate(op) == [res |-> "client_service", type |-> "UPDATED",
                 cond |-> [operator |-> op, value |-> "ACTIVE"]]
OnOrder(op) == [res |-> "order", type |-> "CREATED",
                cond |-> [operator |-> op, value |-> "ACTIVE"]]

MCTriggers == [install |-> {OnUpdate("changed_to"), OnUpdate("equals")},
               follow  |-> {OnOrder("equals"), OnOrder("is")},
               notify  |-> {OnUpdate("changed_from")}]

MCSteps == [install |-> {"o", "a", "j"}, follow |-> {"f"},
            notify |-> {"t", "e", "u", "h", "y"}]

MCKinds == [o |-> "order", a |-> "path", j |-> "job", f |-> "sale",
            t |-> "task", e |-> "entity", u |-> "update", h |-> "http", y |-> "http"]

MCEdges ==
  [install |-> {{}, {<<"o", "j">>, <<"o", "a">>, <<"j", "a">>}},
   follow  |-> {{}},
   notify  |-> {{<<"t", "e">>, <<"e", "u">>, <<"u", "h">>, <<"y", "y">>}}]

Sym == Permutations(MCProcs)
=============================================================================
