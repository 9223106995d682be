---------------------------- MODULE MCTaskRunner -----------------------------
(***************************************************************************)
(* Instances of TaskRunner: small catalogues of actions to plan from, and  *)
(* a council of three with one governor on the fast path.                  *)
(***************************************************************************)
EXTENDS TaskRunner

CONSTANTS sec, eth, log

MCCouncil  == {sec, eth, log}
MCFastPath == {sec}

\* With every governor, and without the one the fast path needs.
MCCouncils == {MCCouncil, {eth, log}}
\* Where the vote does not matter, a council of one.
OneVoter   == {MCFastPath}

Act(type, k, space, target, stage, price) ==
  [type |-> type, key |-> k, space |-> space, target |-> target, stage |-> stage,
   cost |-> price]

Say     == Act("respond", NoKey, None, None, "no", 0)
Pay     == Act("memory_mutation", 10, None, None, "no", 1)
Skill   == Act("create_skill", NoKey, None, None, "no", 1)
Install == Act("shell_command", NoKey, "app", None, "yes", 1)
Library == Act("shell_command", NoKey, "lib", None, "yes", 1)
Test    == Act("shell_command", NoKey, "app", None, "no", 1)
Keyed   == Act("shell_command", 10, None, None, "no", 1)
Start   == Act("start_process", NoKey, None, "p1", "no", 1)
Probe   == Act("probe_port", NoKey, None, "p1", "no", 1)
Spare   == Act("probe_port", NoKey, None, "p2", "no", 1)

Mixed     == {Say, Skill, Keyed, Pay}
Preview   == {Install, Library, Test, Start, Probe, Spare}
Retry     == {Start, Probe}
=============================================================================
