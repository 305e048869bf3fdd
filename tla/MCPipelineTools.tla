--------------------------- MODULE MCPipelineTools ---------------------------
(* Pipelines to run, run again and rebuild, for TLC.                       *)
EXTENDS AgentSettings

Name(s) == Str(Text(s))
File(defs) == [arg |-> "file", defs |-> defs]
Settings_(values) == [arg |-> "settings", values |-> values]

Openshift ==
  [name |-> Name("openshift"), type |-> Name("ocp"),
   components |-> List(<<Text("ocp"), Text("plugin")>>),
   fallback_last_success |-> Name("ok")]
\* A component with a limit of age, and a package.
Cnf ==
  [name |-> Name("example-cnf"), stage |-> Name("cnf"),
   components |-> List(<<Prioritised("cnf", <<"build:ga">>, 2), Text("rpm")>>)]
\* A component that need not be active any more.
Old ==
  [name |-> Name("old"), stage |-> Name("ocp"),
   components |-> List(<<Query("ocp", {{"4.13"}}, {})>>)]
Certified ==
  [name |-> Name("certified"), stage |-> Name("cnf"),
   components |-> List(<<Prioritised("cnf", <<>>, 0)>>)]

MCPlainLines ==
  { <<File(<<Openshift, Certified>>)>>, <<File(<<Openshift>>), File(<<Cnf>>)>>,
    <<File(<<Certified, Old>>)>> }

Type(type) == [part |-> "type", type |-> type]
Tag(t) == [part |-> "tag", tag |-> t]
Version(versions) == [part |-> "version", versions |-> versions]

Cluster ==
  [dci_name |-> Name("cluster"), dci_agent |-> Name("openshift"),
   type |-> Name("ocp"), dci_topic |-> Name("4.16"), wait |-> Name("true"),
   dci_components_by_query |-> [kind |-> "queries", queries |->
     << <<Version({"4.16", "4.17"}), Tag("build:dev"), Type("ocp")>> >>]]
Again ==
  [dci_name |-> Name("again"), dci_agent |-> Name("openshift"),
   type |-> Name("ocp"), components |-> List(<<Text("ocp")>>)]
App(name) ==
  [dci_name |-> Name(name), dci_agent |-> Name("openshift-app"),
   fallback_last_success |-> Name("ok"),
   dci_components_by_query |-> [kind |-> "queries", queries |->
     << <<Type("cnf")>>, <<Type("plugin"), Tag("stable")>> >>]]
NoType ==
  [dci_agent |-> Name("rhel"),
   dci_components_by_query |-> [kind |-> "queries",
                                queries |-> << <<Tag("stable")>> >>]]

MCAgentLines ==
  { <<Settings_(Cluster), Settings_(App("one")), Settings_(App("two"))>>,
    <<File(<<Old>>), Settings_(App("one")), Settings_(Again)>>,
    <<Settings_(App("one")), Settings_(App("one"))>>,
    <<Settings_(Cluster), Settings_(NoType)>> }

MCCommandLines == MCPlainLines \cup Started
MCDefaultFile == <<Openshift>>

Component(type, version, tag_set, active, released, created) ==
  [type |-> type, version |-> version, name |-> version, tags |-> tag_set,
   active |-> active, released |-> released, created |-> created]
Package(first_word, version, released, created) ==
  [type |-> "rpm", version |-> version, name |-> first_word \o " " \o version,
   words |-> <<first_word, version>>, tags |-> {}, active |-> TRUE,
   released |-> released, created |-> created]

\* The last three are published while the pipelines run.
MCRegistry ==
  { Component("ocp", "4.16", {"build:candidate"}, TRUE, 12, 12),
    Component("ocp", "4.15", {"build:ga", "ok"}, TRUE, 10, 10),
    Component("ocp", "4.13", {"build:ga"}, FALSE, 4, 4),
    Component("plugin", "0.9", {"stable", "ok"}, TRUE, 3, 3),
    Component("cnf", "1.0", {"build:ga", "ok"}, TRUE, 11, 11),
    Package("bash", "5.1", 2, 2),
    Package("kernel", "6.0", 13, 13),
    Component("ocp", "4.17", {"build:candidate"}, TRUE, 15, 14),
    Component("cnf", "2.0", {"build:ga"}, TRUE, 14, 15) }
=============================================================================
