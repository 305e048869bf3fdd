---------------------------- MODULE PipelineConfig ----------------------------
(***************************************************************************)
(* The start of dci-pipeline: process_args reads the command line,         *)
(* get_config loads the pipeline files, merges the consecutive definitions *)
(* of a job and applies the settings of the command line.                  *)
(***************************************************************************)
EXTENDS JobDefinitions, SequencesExt

CONSTANTS
  CommandLines, \* the command lines: sequences of arguments
  DefaultFile   \* the definitions of dcipipeline/pipeline.yml

VARIABLES
  argv,     \* the command line, which nothing changes
  args,     \* the arguments process_args has not read
  files,    \* the pipeline files named so far, each with its definitions
  lst,      \* the settings still to apply
  opt,      \* the options of @pipeline
  idx,      \* the definition get_config compares with the one before
  exit

configVars == <<argv, args, files, lst, opt, pipeline, idx, exit>>

-----------------------------------------------------------------------------
(* The names of definitions.                                               *)

NameOf(jobdef) == jobdef["name"].str.key
StageOf(jobdef) ==
  IF Has(jobdef, "stage") THEN jobdef["stage"].str.key
  ELSE IF Has(jobdef, "type") THEN jobdef["type"].str.key ELSE "none"

\* The definitions that answer to a name or a stage.
Answers(name, defs) ==
  {i \in DOMAIN defs : NameOf(defs[i]) = name \/ StageOf(defs[i]) = name}

-----------------------------------------------------------------------------
(* The command line.  An argument is [arg |-> "help"], [arg |-> "file",    *)
(* defs], [arg |-> "set", name, key, raw] for <name>:<key>=<value>, or     *)
(* [arg |-> "bad"]: no "=", no name, or a name in "@" but @pipeline.  A    *)
(* raw value is JSON, or the parts between commas of what follows "sub:".  *)

WithoutBlank(items) ==
  IF Last(items) = Text("") THEN Front(items) ELSE items
Listed(items) ==
  IF Len(items) = 1 THEN Str(items[1]) ELSE List(WithoutBlank(items))
Value(raw) ==
  IF raw.json THEN raw.value
  ELSE IF raw.sub = "" \/ raw.url THEN Listed(raw.items)
  ELSE Dict(raw.sub :> Listed(raw.items))

Setting(a) == [name |-> a.name, key |-> a.key, value |-> Value(a.raw)]

Reads(kind) == pc = "args" /\ args # <<>> /\ Head(args).arg = kind

Quit(code) ==
  /\ pc' = "exit" /\ exit' = code
  /\ UNCHANGED <<argv, args, files, lst, opt, pipeline, idx>>

Help == Reads("help") /\ Quit("usage")
BadArgument == Reads("bad") /\ Quit("invalid")

ReadFile ==
  /\ Reads("file")
  /\ files' = Append(files, Head(args).defs)
  /\ args' = Tail(args)
  /\ UNCHANGED <<argv, lst, opt, pipeline, idx, pc, exit>>

ReadSetting ==
  /\ Reads("set")
  /\ LET s == Setting(Head(args))
     IN IF s.name = "@pipeline"
        THEN opt' = (s.key :> s.value) @@ opt /\ UNCHANGED lst
        ELSE lst' = Append(lst, s) /\ UNCHANGED opt
  /\ args' = Tail(args)
  /\ UNCHANGED <<argv, files, pipeline, idx, pc, exit>>

-----------------------------------------------------------------------------
(* The files.                                                              *)

Load ==
  /\ pc = "args" /\ args = <<>>
  /\ pipeline' = IF files = <<>> THEN DefaultFile ELSE FlattenSeq(files)
  /\ idx' = Len(pipeline')
  /\ pc' = "merge"
  /\ UNCHANGED <<argv, args, files, lst, opt, exit>>

\* Mutant of MergeValue: the first file wins in a dictionary.
MergeFirstWins(before, after) ==
  IF before.kind = "dict" /\ after.kind = "dict"
  THEN Dict(before.dict @@ after.dict)
  ELSE IF before.kind = "list" /\ after.kind = "list"
  THEN List(before.list \o after.list)
  ELSE after

\* The value of a key that both definitions have.
MergeValue(before, after) ==
  IF before.kind = "list" /\ after.kind = "list"
  THEN List(before.list \o after.list)
  ELSE IF before.kind = "dict" /\ after.kind = "dict"
  THEN Dict(after.dict @@ before.dict)
  ELSE after

Merge(before, after) ==
  [k \in DOMAIN before \cup DOMAIN after |->
     IF ~Has(after, k) THEN before[k]
     ELSE IF ~Has(before, k) THEN after[k]
     ELSE MergeValue(before[k], after[k])]

\* From the last definition to the second, so that what follows is merged.
MergePrevious ==
  /\ pc = "merge" /\ idx > 1
  /\ pipeline' =
       IF NameOf(pipeline[idx - 1]) = NameOf(pipeline[idx])
       THEN RemoveAt([pipeline EXCEPT ![idx - 1] = Merge(@, pipeline[idx])],
                     idx)
       ELSE pipeline
  /\ idx' = idx - 1
  /\ UNCHANGED <<argv, args, files, lst, opt, pc, exit>>

MergeDone ==
  /\ pc = "merge" /\ idx <= 1
  /\ pc' = "overload"
  /\ UNCHANGED configVars

-----------------------------------------------------------------------------
(* The settings.                                                           *)

\* Mutant of OverloadString: what the list has of this key stays.
OverloadStringKeeps(acc, s) ==
  LET same == {i \in DOMAIN acc.list : acc.list[i].key = s.key}
  IN IF same = {}
     THEN [list |-> acc.list, to_add |-> Append(acc.to_add, s)]
     ELSE acc

\* One string of an overload: it takes the place of the first string of the
\* list with the same eq_key, or goes at the end, after the others.
OverloadString(acc, s) ==
  LET same == {i \in DOMAIN acc.list : acc.list[i].key = s.key}
  IN IF same = {}
     THEN [list |-> acc.list, to_add |-> Append(acc.to_add, s)]
     ELSE [list |-> [acc.list EXCEPT ![Min(same)] = s], to_add |-> acc.to_add]

\* Mutant of OverloadList: a setting replaces the list.
OverloadListReplaces(over, target) == over

OverloadList(over, target) ==
  LET done == FoldLeft(OverloadString, [list |-> target, to_add |-> <<>>], over)
  IN done.list \o done.to_add

\* A single component stands for a list of one.
Components(over) ==
  IF Has(over, "components") /\ over["components"].kind = "str"
  THEN [over EXCEPT !["components"] = List(<<over["components"].str>>)]
  ELSE over

\* overload_dicts, which merges nested dictionaries.
RECURSIVE OverloadDicts(_, _)
OverloadValue(over, target) ==
  IF over.kind = "list" /\ target.kind = "list"
  THEN List(OverloadList(over.list, target.list))
  ELSE IF over.kind = "dict" /\ target.kind = "dict"
  THEN Dict(OverloadDicts(over.dict, target.dict))
  ELSE over
OverloadDicts(given, target) ==
  LET over == Components(given)
  IN [k \in DOMAIN target \cup DOMAIN over |->
        IF ~Has(over, k) THEN target[k]
        ELSE IF ~Has(target, k) THEN over[k]
        ELSE OverloadValue(over[k], target[k])]

\* The elements of an overloaded list are taken for strings: a dictionary
\* among them raises.
RECURSIVE Raises(_, _)
Raises(over, target) ==
  \E k \in DOMAIN over \cap DOMAIN target :
    \/ /\ over[k].kind = "list" /\ target[k].kind = "list"
       /\ \E i \in DOMAIN over[k].list : over[k].list[i].form = "dict"
    \/ /\ over[k].kind = "dict" /\ target[k].kind = "dict"
       /\ Raises(over[k].dict, target[k].dict)

Overload(s) == s.key :> s.value
Target(s) == Min(Answers(s.name, pipeline))
Overloads == pc = "overload" /\ lst # <<>>

NoSuchJobdef ==
  /\ Overloads
  /\ Answers(Head(lst).name, pipeline) = {}
  /\ Quit("no such jobdef")

OverloadRaises ==
  /\ Overloads
  /\ Answers(Head(lst).name, pipeline) # {}
  /\ Raises(Overload(Head(lst)), pipeline[Target(Head(lst))])
  /\ Quit("raised")

OverloadJobdef ==
  /\ Overloads
  /\ Answers(Head(lst).name, pipeline) # {}
  /\ LET s == Head(lst)
     IN /\ ~Raises(Overload(s), pipeline[Target(s)])
        /\ pipeline' = [pipeline EXCEPT
                          ![Target(s)] = OverloadDicts(Overload(s), @)]
  /\ lst' = Tail(lst)
  /\ UNCHANGED <<argv, args, files, opt, idx, pc, exit>>

ConfigDone ==
  /\ pc = "overload" /\ lst = <<>>
  /\ pc' = "ready"
  /\ UNCHANGED configVars

ConfigInit ==
  /\ argv \in CommandLines
  /\ args = argv
  /\ files = <<>> /\ lst = <<>> /\ pipeline = <<>> /\ idx = 0
  /\ opt = ("name" :> Str(Text("pipeline")))
  /\ pc = "args" /\ exit = "no"

ConfigStep == \/ Help \/ BadArgument \/ ReadFile \/ ReadSetting
              \/ Load \/ MergePrevious \/ MergeDone
              \/ NoSuchJobdef \/ OverloadRaises \/ OverloadJobdef \/ ConfigDone

-----------------------------------------------------------------------------
(* What the configuration must be.                                         *)

Asked == SelectSeq(argv, LAMBDA a : a.arg = "set" /\ a.name # "@pipeline")
Loaded ==
  LET named == SelectSeq(argv, LAMBDA a : a.arg = "file")
  IN IF named = <<>> THEN DefaultFile
     ELSE FlattenSeq([i \in DOMAIN named |-> named[i].defs])

\* The definitions that continue the one loaded as the i-th, and the places
\* where a new one begins.
Begins == {i \in DOMAIN Loaded :
             i = 1 \/ NameOf(Loaded[i - 1]) # NameOf(Loaded[i])}
Begin(n) == CHOOSE i \in Begins : Cardinality({j \in Begins : j <= i}) = n
Block(n) ==
  {j \in DOMAIN Loaded : Begin(n) <= j /\ \A i \in Begins : i <= j => i <= Begin(n)}

\* The values of a key in a block, in the order of the files.
Values(n, k) ==
  LET i == Begin(n)
      all == [j \in 1..Cardinality(Block(n)) |-> Loaded[i + j - 1]]
      having == SelectSeq(all, LAMBDA d : Has(d, k))
  IN [j \in DOMAIN having |-> having[j][k]]
OfKind(values, kind) == \A i \in DOMAIN values : values[i].kind = kind

\* What the files say of a key whose values have one kind.
FilesSay(value, values) ==
  /\ OfKind(values, "list") =>
       value = List(FlattenSeq([i \in DOMAIN values |-> values[i].list]))
  /\ OfKind(values, "dict") =>
       /\ DOMAIN value.dict = UNION {DOMAIN values[i].dict : i \in DOMAIN values}
       /\ \A s \in DOMAIN value.dict :
            LET saying == {i \in DOMAIN values : s \in DOMAIN values[i].dict}
            IN value.dict[s] = values[Max(saying)].dict[s]
  /\ OfKind(values, "str") => value = Last(values)

\* get_config merges every run of definitions of the same name into one,
\* whatever their number: their lists one after the other, their
\* dictionaries and strings from the last file that has them.
BlocksMerged ==
  pc = "overload" /\ Len(lst) = Len(Asked) =>
    /\ Len(pipeline) = Cardinality(Begins)
    /\ \A n \in DOMAIN pipeline :
         /\ NameOf(pipeline[n]) = NameOf(Loaded[Begin(n)])
         /\ DOMAIN pipeline[n] = UNION {DOMAIN Loaded[i] : i \in Block(n)}
         /\ \A k \in DOMAIN pipeline[n] :
              FilesSay(pipeline[n][k], Values(n, k))

Settings == [i \in DOMAIN Asked |-> Components(Overload(Setting(Asked[i])))]
TargetOf(i) == Min(Answers(Asked[i].name, pipeline))

\* A value holds what a setting asks: the string, every subkey, and for every
\* eq_key of the list its last string.
RECURSIVE Holds(_, _)
Holds(value, asked) ==
  /\ value.kind = asked.kind
  /\ asked.kind = "str" => value = asked
  /\ asked.kind = "dict" =>
       \A s \in DOMAIN asked.dict :
         s \in DOMAIN value.dict /\ Holds(value.dict[s], asked.dict[s])
  /\ asked.kind = "list" =>
       \A i \in DOMAIN asked.list :
         (\A j \in DOMAIN asked.list :
            asked.list[j].key = asked.list[i].key => j <= i)
         => \E m \in DOMAIN value.list : value.list[m] = asked.list[i]

\* A setting of the command line has the last word on its key, over the files
\* and over the settings before it ("the highest precedence" of the README).
LastSettingWins ==
  pc = "ready" =>
    \A i \in DOMAIN Settings : \A k \in DOMAIN Settings[i] :
      (\A j \in DOMAIN Settings :
         i < j /\ TargetOf(j) = TargetOf(i) => ~Has(Settings[j], k))
      => Holds(pipeline[TargetOf(i)][k], Settings[i][k])

Keys(l) == [i \in DOMAIN l |-> l[i].key]

\* All that the files and the settings give to a key has one kind.
Uniform(n, k, kind) ==
  /\ Values(n, k) # <<>> /\ OfKind(Values(n, k), kind)
  /\ \A i \in DOMAIN Settings :
       TargetOf(i) = n /\ Has(Settings[i], k) => Settings[i][k].kind = kind

\* A setting adds and replaces, it takes nothing away: the subkeys of the
\* files stay, and the components of the files stay, in their order and
\* before those that the settings add.
NothingForgotten ==
  pc = "ready" =>
    \A n \in DOMAIN pipeline : \A k \in DOMAIN pipeline[n] :
      LET values == Values(n, k)
      IN /\ Uniform(n, k, "list") =>
              IsPrefix(FlattenSeq([i \in DOMAIN values |-> Keys(values[i].list)]),
                       Keys(pipeline[n][k].list))
         /\ Uniform(n, k, "dict") =>
              \A i \in DOMAIN values :
                DOMAIN values[i].dict \subseteq DOMAIN pipeline[n][k].dict
=============================================================================
