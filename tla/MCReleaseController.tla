------------------------ MODULE MCReleaseController ------------------------
\* The run "a" may be replaced by "b", whose workflow was reviewed later; "c"
\* is another run of the workflow of "a".
EXTENDS ReleaseController, TLC

MCWorkflowOf == [g \in GithubRuns |-> IF g = "b" THEN "w2" ELSE "w1"]
Plain == [subject |-> "s", trust |-> [pins |-> "p", workflow |-> "w1"],
          from |-> None, fromWorkflow |-> None]
MCDeployments ==
  {Plain,
   [Plain EXCEPT !.trust.pins = "q"],
   [Plain EXCEPT !.trust.workflow = "w2", !.from = "a", !.fromWorkflow = "w1"]}
RequestSymmetry == Permutations(Requests)
=============================================================================
