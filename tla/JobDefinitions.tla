---------------------------- MODULE JobDefinitions ----------------------------
(***************************************************************************)
(* The job definitions of a pipeline, which get_config makes from files    *)
(* and settings, and which are read when a job is scheduled.               *)
(*                                                                         *)
(* A definition maps keys to values: a string, a list of strings or a      *)
(* dictionary.  What the code looks at in a string is what precedes its    *)
(* first "=" or "?" (eq_key); the rest is a field that only the selection  *)
(* of components reads.                                                    *)
(***************************************************************************)
EXTENDS Integers, Sequences, FiniteSets

VARIABLES
  pipeline, \* the definitions
  pc        \* where the program is

\* A string with no "=" and no "?", and a component with its version.
Text(s) == [key |-> s, form |-> "plain"]
Versioned(type, version) ==
  [key |-> type, form |-> "version", version |-> version]

\* "ocp?..." with tags and other fields, each of which lets some versions
\* through; a tag "ocp?a,b" whose first piece is for one type; a dictionary
\* with a type.
Query(type, fields, query_tags) ==
  [key |-> type, form |-> "query", fields |-> fields, tags |-> query_tags]
Scoped(type, first_tag, others) ==
  [key |-> type, form |-> "scoped", tag |-> first_tag, others |-> others]
Prioritised(type, priority_tags, max_age) ==
  [key |-> type, form |-> "dict", priority_tags |-> priority_tags,
   max_age |-> max_age]

Str(s)  == [kind |-> "str", str |-> s]
List(l) == [kind |-> "list", list |-> l]
Dict(d) == [kind |-> "dict", dict |-> d]

Has(jobdef, key) == key \in DOMAIN jobdef
=============================================================================
