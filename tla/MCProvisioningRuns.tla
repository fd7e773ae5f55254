------------------------- MODULE MCProvisioningRuns -------------------------
(***************************************************************************)
(* Small instances of ProvisioningRuns for TLC.  A path is a CPE ("cpe")   *)
(* below an OLT ("olt"); a playbook has one or two steps per phase, enough *)
(* for a device to be half configured, and one attempt per step, enough    *)
(* for a job to be retried and to run out of attempts.                     *)
(***************************************************************************)
EXTENDS RunSagaRefinement, TLC

MCStep(n, driver, undoes) ==
  [name |-> n, driver |-> driver, undoes |-> undoes, idempotent |-> FALSE]

MCSteps(pre, cfg, ver, back) ==
  (PhasePreconditions :> pre) @@ (PhaseConfiguration :> cfg)
    @@ (PhaseVerification :> ver) @@ (PhaseRollback :> back)

MCEverywhere(def) == [d \in Devices |-> [v \in Versions |-> def]]

\* One command that must not be resent, and an undo that always runs.
MCOneCommand == MCEverywhere(MCSteps(
  <<>>, <<MCStep("a", "tr069", NoStep)>>, <<>>, <<MCStep("ra", "tr069", NoStep)>>))

\* Two commands, the second idempotent; each has its own undo.
MCTwoCommands == MCEverywhere(MCSteps(
  <<>>,
  <<MCStep("a", "tr069", NoStep), [MCStep("b", "tr069", NoStep) EXCEPT !.idempotent = TRUE]>>,
  <<>>,
  <<MCStep("rb", "tr069", "b"), MCStep("ra", "tr069", "a")>>))

\* A CLI playbook (so its PRECONDITIONS start with the session probe) with a
\* manual step and a check afterwards; its rollback pings the device and undoes
\* the command, and leaves what the person did.
MCManual == MCEverywhere(MCSteps(
  <<>>, <<MCStep("b", "manual", NoStep), MCStep("a", "ssh", NoStep)>>,
  <<MCStep("v", "ping", NoStep)>>,
  <<MCStep("rb", "ping", NoStep), MCStep("ra", "ssh", "a")>>))

\* Two services side by side: one over two devices with two commands each; the
\* other over a radio with the manual step and a wall box that cannot be undone.
MCFaults == [d \in Devices |-> [v \in Versions |->
  CASE d \in {"cpe", "olt"} -> MCTwoCommands[d][v]
    [] d = "wall" -> MCSteps(<<MCStep("p", "ping", NoStep)>>,
                             <<MCStep("a", "tr069", NoStep)>>, <<>>, <<>>)
    [] OTHER -> MCManual[d][v]]]
MCOwnDevices == [s \in Services |-> [n \in PathRevisions |->
  IF s \in LegacyServices THEN <<"radio", "wall">> ELSE <<"cpe", "olt">>]]

\* The radio's playbook has nothing to execute.
MCManualOrNothing == [MCManual EXCEPT !["radio"] =
  [v \in Versions |-> MCSteps(<<>>, <<>>, <<>>, <<>>)]]

\* The radio has a system playbook: a ping, which leaves nothing to roll back.
MCSystemPing == [MCOneCommand EXCEPT !["radio"] =
  [v \in Versions |-> MCSteps(<<>>, <<MCStep("p", "ping", NoStep)>>, <<>>, <<>>)]]
MCCpeAndSystem == [s \in Services |-> [n \in PathRevisions |-> <<"cpe", "radio">>]]

MCMoved == [s \in Services |-> [n \in PathRevisions |->
  IF n = 0 THEN <<"cpe">> ELSE <<"radio">>]]
MCJustTheCpe == [s \in Services |-> [n \in PathRevisions |-> <<"cpe">>]]

MCAttempts == [p \in Phases |-> 1]
MCTwoAttempts == [p \in Phases |-> 2]
=============================================================================
