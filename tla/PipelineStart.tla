----------------------------- MODULE PipelineStart -----------------------------
(***************************************************************************)
(* From the command line to the components of a job: PipelineConfig makes  *)
(* the definitions, and ComponentSelection finds the components of one.    *)
(***************************************************************************)
EXTENDS PipelineConfig, ComponentSelection

vars == <<configVars, pc, selectionVars>>

Init == ConfigInit /\ Idle

Next == \/ ConfigStep /\ UNCHANGED selectionVars
        \/ Select /\ UNCHANGED configVars

Spec == Init /\ [][Next]_vars

-----------------------------------------------------------------------------

TypeOK ==
  /\ argv \in CommandLines /\ IsSuffix(args, argv)
  /\ idx \in 0..Len(Loaded) /\ Len(lst) <= Len(argv)
  /\ exit \in {"no", "usage", "invalid", "no such jobdef", "raised"}
  /\ SelectionTypeOK

\* The components found are those of the first entries at every call, and
\* the definitions that are made of files and settings are such that the
\* selection can rely on them.
Inductive == TypeOK /\ SelectionInductive

\* A version asked on the command line, and not by a later setting again, is
\* among the components of the job, in its fallback too.
RunsAsAsked ==
  pc = "scheduled" =>
    \A i \in DOMAIN Settings :
      /\ TargetOf(i) = job /\ Has(Settings[i], "components")
      /\ \A j \in DOMAIN Settings :
           i < j /\ TargetOf(j) = job => ~Has(Settings[j], "components")
      => LET asked == Settings[i]["components"].list
         IN \A k \in DOMAIN asked :
              asked[k].form = "version" =>
                \E c \in ToSet(chosen) :
                  c.type = asked[k].key /\ c.version = asked[k].version
=============================================================================
