---------------------------- MODULE MCHostedRun ----------------------------
(* Instances of HostedRun for TLC. *)
EXTENDS HostedRun, TLC

CONSTANTS r1, r2

\* A Node repository with a lock file, under the profile "node".
NodeRepair ==
  [validation |-> <<"install-node", "validate-node">>, automatic |-> FALSE,
   closing |-> <<>>, publication |-> "pull_request"]

\* A branch of a repository with a governance script, under the profile "auto".
AutomaticBranch ==
  [validation |-> <<"validate-go">>, automatic |-> TRUE,
   closing |-> <<"governance-impact">>, publication |-> "branch"]

AllObjectives == {NodeRepair, AutomaticBranch}

=============================================================================
