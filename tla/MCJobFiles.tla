----------------------------- MODULE MCJobFiles -----------------------------
(* Instances of JobFiles for TLC.                                          *)
EXTENDS JobFiles

Jobdef(name, stage_name, prev, fallback, own_env) ==
  [name |-> name, stage |-> stage_name, prev |-> prev, fallback |-> fallback,
   own_env |-> own_env]

Files(ins, outs, tag) ==
  [inputs |-> ins, outputs |-> outs, success_tag |-> tag]

\* A cluster, and a stage of three jobs: the first replaces the kubeconfig of
\* the cluster, the last takes the one of either.
Chain ==
  << Jobdef("openshift", "ocp", {}, FALSE, FALSE),
     Jobdef("operator", "cnf", {"ocp"}, TRUE, TRUE),
     Jobdef("example-cnf", "cnf", {}, FALSE, FALSE),
     Jobdef("other-cnf", "cnf", {"ocp", "cnf"}, FALSE, FALSE) >>

\* The playbook of the cluster reports its success.
ClusterReports == <<{"success"}, {}, {}, {}>>

Kubeconfig == <<"kubecfg", "kubeconfig">>

ChainFiles ==
  << Files(<<>>, {Kubeconfig}, TRUE),
     Files(<< <<"kubecfg", "kubeconfig_path">> >>, {Kubeconfig}, TRUE),
     Files(<<>>, {}, FALSE),
     Files(<< <<"kubecfg", "kubeconfig_path">> >>, {}, FALSE) >>
=============================================================================
