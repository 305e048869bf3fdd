------------------------- MODULE MCPipelineStart -------------------------
(* Command lines, pipeline files and a registry for TLC.                   *)
EXTENDS PipelineStart

File(defs) == [arg |-> "file", defs |-> defs]
Set(name, key, raw) == [arg |-> "set", name |-> name, key |-> key, raw |-> raw]

Plain(items) == [json |-> FALSE, sub |-> "", url |-> FALSE, items |-> items]
Sub(sub, items) == [json |-> FALSE, sub |-> sub, url |-> FALSE, items |-> items]
Url(s) == [json |-> FALSE, sub |-> "http", url |-> TRUE, items |-> <<s>>]
Json(value) == [json |-> TRUE, value |-> value]

Name(s) == Str(Text(s))

\* The first file of a job, and two that continue it.
Openshift ==
  [name |-> Name("openshift"), type |-> Name("ocp"), topic |-> Name("4.14"),
   components |-> List(<<Text("ocp"), Versioned("plugin", "1.0")>>),
   ansible_extravars |-> Dict([var |-> Name("42"),
                               repo |-> Dict([url |-> Name("orig")])]),
   fallback_last_success |-> List(<<Text("ok"),
                                    Scoped("ocp", "build:candidate", {})>>)]
More ==
  [name |-> Name("openshift"), topic |-> Name("4.15"),
   components |-> List(<<Query("ocp", {{"4.14", "4.15", "4.16"}},
                               {"daily", "build:dev"})>>),
   ansible_extravars |-> Dict([var |-> Name("43"), var2 |-> Name("42")]),
   fallback_last_success |-> List(<<Scoped("plugin", "stable", {"build:ga"})>>)]
Again ==
  [name |-> Name("openshift"), stage |-> Name("deploy"),
   components |-> List(<<Prioritised("cnf", <<"build:ga", "build:candidate",
                                              "build:nightly">>, 3)>>),
   ansible_extravars |-> Dict([var2 |-> Name("44")])]
Cnf ==
  [name |-> Name("example-cnf"), stage |-> Name("cnf"),
   components |-> List(<<Prioritised("cnf", <<"build:ga", "build:nightly">>, 0),
                         Prioritised("plugin", <<>>, 0)>>),
   fallback_last_success |-> Name("ok")]
Bare == [name |-> Name("bare"), stage |-> Name("ocp"), prev_stages |-> Name("ocp")]

MCDefaultFile == <<Openshift>>

FileLists ==
  { <<>>, <<File(<<Openshift, Cnf>>)>>,
    <<File(<<Bare, Openshift>>), File(<<More>>), File(<<Cnf>>)>>,
    <<File(<<Openshift>>), File(<<More, Again>>), File(<<Cnf>>), File(<<More>>)>> }

OneSetting ==
  { Set("openshift", "components", Plain(<<Versioned("ocp", "4.14")>>)),
    Set("openshift", "components", Plain(<<Versioned("ocp", "4.13"), Text("cnf")>>)),
    Set("openshift", "components", Plain(<<Versioned("plugin", "1.1"), Text("")>>)),
    Set("openshift", "components",
        Json(List(<<Prioritised("ocp", <<"build:ga">>, 0)>>))),
    Set("openshift", "ansible_extravars", Sub("var", <<Text("1")>>)),
    Set("openshift", "ansible_extravars",
        Json(Dict([repo |-> Dict([branch |-> Name("main")])]))),
    Set("ocp", "topic", Plain(<<Text("4.16")>>)),
    Set("openshift", "fallback_last_success", Plain(<<Text("build:ga"), Text("ok")>>)),
    Set("example-cnf", "components", Plain(<<Text("cnf")>>)),
    Set("example-cnf", "url", Url(Text("http://lwn.net/"))),
    Set("@pipeline", "name", Plain(<<Text("mine")>>)) }

MCCommandLines ==
  {f \o s : f \in FileLists,
            s \in {<<>>} \cup {<<a>> : a \in OneSetting}
                  \cup {<<a, b>> : a, b \in OneSetting}}
  \cup {<<[arg |-> "help"]>>, <<File(<<Openshift>>), [arg |-> "bad"]>>,
        <<Set("other", "topic", Plain(<<Text("4.16")>>))>>}

Component(type, version, tag_set, active, released, created) ==
  [type |-> type, version |-> version, name |-> version, tags |-> tag_set, active |-> active,
   released |-> released, created |-> created]

\* Several components carry the version 1.0: versions are compared without
\* their type.
MCRegistry ==
  { Component("ocp", "4.16", {"build:nightly"}, TRUE, 12, 12),
    Component("ocp", "4.15", {"build:dev", "daily"}, TRUE, 11, 3),
    Component("ocp", "4.14", {"build:candidate", "ok", "daily"}, TRUE, 10, 9),
    Component("ocp", "4.13", {"build:ga", "ok"}, TRUE, 5, 8),
    Component("ocp", "1.0", {"build:ga", "ok", "daily"}, FALSE, 4, 2),
    Component("plugin", "1.1", {"stable"}, TRUE, 9, 7),
    Component("plugin", "1.0", {"stable", "ok", "build:ga"}, TRUE, 3, 1),
    Component("cnf", "2.1", {"build:nightly"}, TRUE, 8, 11),
    Component("cnf", "2.0", {"build:candidate", "ok"}, TRUE, 7, 10),
    Component("cnf", "1.0", {"build:ga", "ok"}, TRUE, 6, 5) }
=============================================================================
