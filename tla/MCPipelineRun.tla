---------------------------- MODULE MCPipelineRun ----------------------------
(* Instances of PipelineRun for TLC.                                       *)
EXTENDS PipelineRun

Jobdef(name, stage_name, prev, fallback, own_env) ==
  [name |-> name, stage |-> stage_name, prev |-> prev, fallback |-> fallback,
   own_env |-> own_env]

\* Two stages; the second has two jobs, the last of which follows the first.
TwoStages ==
  << Jobdef("openshift", "ocp", {}, TRUE, FALSE),
     Jobdef("example-cnf", "cnf", {"ocp"}, FALSE, FALSE),
     Jobdef("other-cnf", "cnf", {"ocp", "example-cnf"}, FALSE, FALSE) >>

ASSUME TwoStagesOrdered == Ordered
=============================================================================
