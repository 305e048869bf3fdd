---------------------------- MODULE AgentSettings ----------------------------
(***************************************************************************)
(* dci-agent-ctl: the settings files of agents among its arguments become  *)
(* one pipeline file, which dci-pipeline is started with.                  *)
(*                                                                         *)
(* Settings map keys to the values of PipelineConfig, but for              *)
(* dci_components_by_query, a list of queries; a query is the sequence of  *)
(* its parts between commas: a type, a tag or a field.                     *)
(***************************************************************************)
EXTENDS PipelineTools

CONSTANT AgentLines \* command lines of dci-agent-ctl; besides the arguments
                    \* of dci-pipeline, [arg |-> "settings", values]

-----------------------------------------------------------------------------
KEYS == {"ansible_inventory", "ansible_playbook", "dci_agent",
         "dci_credentials", "name", "type"}
OPT_KEYS ==
  {"ansible_cfg", "ansible_envvars", "ansible_skiptags", "ansible_tags",
   "comment", "components", "configuration", "dci_components_by_query",
   "fallback_last_success", "inputs", "outputs", "success_tag", "url", "topic"}
WithPrefix(key) == "dci_" \o key

OfPart(query, part) == SelectSeq(query, LAMBDA p : p.part = part)

\* A query without type ends dci-agent-ctl; the last of several is taken.
Untyped(settings) ==
  /\ ~Has(settings, "components") /\ Has(settings, "dci_components_by_query")
  /\ \E i \in DOMAIN settings["dci_components_by_query"].queries :
       OfPart(settings["dci_components_by_query"].queries[i], "type") = <<>>

\* A query is translated to a component string: "type?part&part".
ComponentOf(query) ==
  LET type == Last(OfPart(query, "type")).type
      given_tags == OfPart(query, "tag")
      fields == OfPart(query, "version")
  IN IF given_tags = <<>> /\ fields = <<>> THEN Text(type)
     ELSE Query(type, {fields[i].versions : i \in DOMAIN fields},
                {given_tags[i].tag : i \in DOMAIN given_tags})

\* The optional keys, the one with dci_ before the other; dci_components does
\* not keep the queries from being translated.
Copied(settings) ==
  [key \in {k \in OPT_KEYS : Has(settings, k) \/ Has(settings, WithPrefix(k))} |->
     IF Has(settings, WithPrefix(key)) THEN settings[WithPrefix(key)]
                                       ELSE settings[key]]
Translated(settings) ==
  IF ~Has(settings, "components") /\ Has(settings, "dci_components_by_query")
  THEN LET queries == settings["dci_components_by_query"].queries
       IN "components" :> List([i \in DOMAIN queries |-> ComponentOf(queries[i])])
  ELSE <<>>

\* The settings that are not for dci-pipeline go to the playbook.
Extravars(settings) ==
  LET taken == KEYS \cup OPT_KEYS
               \cup {WithPrefix(k) : k \in KEYS \cup OPT_KEYS}
  IN [k \in DOMAIN settings \ taken |-> settings[k]]

TypeOf(settings) ==
  (IF Has(settings, "type") THEN settings["type"] ELSE settings["dci_agent"]).str.key
NameFrom(settings) ==
  IF Has(settings, "dci_name") THEN settings["dci_name"] ELSE settings["dci_agent"]

\* Mutant of PreviousStage: the stage of the settings before.
PreviousIsCurrent(type, current, previous) == current

\* The stage whose jobs come before this one, "" in the first stage.
PreviousStage(type, current, previous) ==
  IF current # "" /\ current # type THEN current ELSE previous

\* process_settings
Definition(settings, previous) ==
  (IF previous = "" THEN <<>>
   ELSE "prev_stages" :> List(<<Text(previous)>>))
  @@ ("ansible_extravars" :> Dict(Extravars(settings)))
  @@ Translated(settings)
  @@ Copied(settings)
  @@ [name |-> NameFrom(settings), type |-> Str(Text(TypeOf(settings)))]

process_settings(acc, settings) ==
  LET type == TypeOf(settings)
      previous == PreviousStage(type, acc.current, acc.previous)
  IN [defs |-> Append(acc.defs, Definition(settings, previous)),
      current |-> type, previous |-> previous]

\* process_args: the generated file comes first, whatever the order of the
\* arguments.
SettingsIn(arguments) ==
  LET named == SelectSeq(arguments, LAMBDA a : a.arg = "settings")
  IN [i \in DOMAIN named |-> named[i].values]
process_args(arguments) ==
  LET all == FoldLeft(process_settings,
                      [defs |-> <<>>, current |-> "", previous |-> ""],
                      SettingsIn(arguments))
  IN <<[arg |-> "file", defs |-> all.defs]>>
     \o SelectSeq(arguments, LAMBDA a : a.arg # "settings")

\* The command lines dci-pipeline is started with.
Typed == {l \in AgentLines :
            \A i \in DOMAIN SettingsIn(l) : ~Untyped(SettingsIn(l)[i])}
Started == {process_args(l) : l \in Typed}

-----------------------------------------------------------------------------
(* Properties.                                                             *)

\* Settings files that one after the other give the same name to their jobs
\* make one job (get_config).
NothingMerged == Len(pipeline) = Len(Loaded)

\* A component that a query asks for.
Satisfies(c, query) ==
  /\ c.type = Last(OfPart(query, "type")).type
  /\ \A i \in DOMAIN query :
       /\ query[i].part = "version" => c.version \in query[i].versions
       /\ query[i].part = "tag" =>
            IF Rank(query[i].tag) = 0 THEN query[i].tag \in c.tags
            ELSE \E u \in c.tags : Rank(u) >= Rank(query[i].tag)

\* The job of a settings file runs with a component for each of its queries,
\* and looks up the jobs before it in the last stage that is not its own.
SettingsMeant ==
  \A l \in Typed :
    /\ pc = "scheduled" /\ argv = process_args(l)
    /\ NothingMerged /\ job \in DOMAIN SettingsIn(l)
    =>
      LET all == SettingsIn(l)
          mine == all[job]
          others == {i \in 1..(job - 1) : TypeOf(all[i]) # TypeOf(mine)}
      IN /\ ~Has(mine, "components") /\ Has(mine, "dci_components_by_query") =>
              LET queries == mine["dci_components_by_query"].queries
              IN /\ Len(chosen) = Len(queries)
                 /\ \A i \in DOMAIN queries : Satisfies(chosen[i], queries[i])
         /\ IF others = {} THEN ~Has(pipeline[job], "prev_stages")
            ELSE pipeline[job]["prev_stages"]
                   = List(<<Text(TypeOf(all[Max(others)]))>>)
=============================================================================
