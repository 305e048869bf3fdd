-------------------------- MODULE ComponentSelection --------------------------
(***************************************************************************)
(* get_components and the part of schedule_job around it: the components a *)
(* job runs with, asked from the control server one after the other, for   *)
(* one of the definitions that get_config has made (PipelineConfig).  When *)
(* the job fails, fallback_last_success asks them again with its tags.     *)
(*                                                                         *)
(* A query is the set of conditions the code writes in its text; the       *)
(* server, which is not part of the repository, answers with the newest    *)
(* component that meets them, or refuses the call.                         *)
(***************************************************************************)
EXTENDS JobDefinitions, FiniteSetsExt

CONSTANTS
  Registry, \* the components of the topic, published or to come
  Today     \* the day the program starts

\* released and created are days; no two components share one.  A component
\* may have a name that is not its version.
ASSUME RegistryAssumption ==
  /\ \A c \in Registry :
       /\ c.type \in STRING /\ c.version \in STRING /\ c.name \in STRING
       /\ c.tags \in SUBSET STRING /\ c.active \in BOOLEAN
       /\ c.released \in Nat /\ c.created \in Nat
  /\ \A c, d \in Registry :
       c # d => c.released # d.released /\ c.created # d.created
  /\ IsFiniteSet(Registry) /\ Today \in Nat

VARIABLES
  job,     \* the definition that is scheduled, 0 before
  tags,    \* the fields of tags of the fallback, {} in the first attempt
  at,      \* the component of the definition that is asked, from 1
  tag,     \* the priority tag that is asked, from 1
  chosen,  \* the components found
  prev,    \* the components of the job that failed, <<>> before
  refused, \* the server has refused a call
  today    \* the current day

selectionVars == <<job, tags, at, tag, chosen, prev, refused, today>>

-----------------------------------------------------------------------------
(* Tags.  A field of tags is cut at its commas: it is the piece before the *)
(* first comma, which may be for one type, and the other pieces.           *)

Field(scope, first, others) ==
  [scope |-> scope, tag |-> first, others |-> others]
Unscoped(t) == Field("", t, {})

FieldOf(s) ==
  IF s.form = "scoped" THEN Field(s.key, s.tag, s.others) ELSE Unscoped(s.key)

ORDERED_TAGS ==
  <<"build:nightly", "build:dev", "build:candidate", "build:ga">>

\* The place of a build tag, 0 for another tag.
Rank(t) ==
  IF t \in Range(ORDERED_TAGS)
  THEN CHOOSE r \in DOMAIN ORDERED_TAGS : ORDERED_TAGS[r] = t
  ELSE 0

Cut(f) == {Field(f.scope, f.tag, {})} \cup {Unscoped(t) : t \in f.others}

\* extract_build_tags: a piece with a type is no build tag.
IsBuildTag(p) == p.scope = "" /\ Rank(p.tag) > 0
extract_build_tags(fields) ==
  LET pieces == UNION {Cut(f) : f \in fields}
  IN [build |-> {p.tag : p \in {q \in pieces : IsBuildTag(q)}},
      other |-> {p \in pieces : ~IsBuildTag(p)}]

\* The fields of the type or of every type, without the type.
filter_type_tags(fields, type) ==
  {[f EXCEPT !.scope = ""] : f \in {g \in fields : g.scope \in {"", type}}}

\* Mutant of AtLeast: as good as the worst of those given.
AtLeastWorst(build) ==
  IF build = {} THEN {}
  ELSE LET worst == Min({Rank(t) : t \in build})
       IN {ORDERED_TAGS[r] : r \in worst..Len(ORDERED_TAGS)}

\* The build tags as good as the best of those given.
AtLeast(build) ==
  IF build = {} THEN {}
  ELSE LET best == Max({Rank(t) : t \in build})
       IN {ORDERED_TAGS[r] : r \in best..Len(ORDERED_TAGS)}

\* All the tags, and one of the build tags if any.
generate_query_from_tags(fallback_tags, build_tags, type) ==
  LET extra == extract_build_tags(filter_type_tags(fallback_tags, type))
  IN [all |-> {p.tag : p \in extra.other},
      build |-> AtLeast(build_tags \cup extra.build)]

\* A query with fields does not ask for an active component.
generate_query(s, fallback_tags) ==
  IF s.form = "query"
  THEN LET c_query == extract_build_tags({Unscoped(t) : t \in s.tags}
                                         \cup fallback_tags)
       IN [type |-> s.key, active |-> FALSE, fields |-> s.fields,
           tags |-> generate_query_from_tags(c_query.other, c_query.build,
                                             s.key)]
  ELSE [type |-> s.key, active |-> TRUE,
        fields |-> IF s.form = "version" THEN {{s.version}} ELSE {},
        tags |-> generate_query_from_tags(fallback_tags, {}, s.key)]

\* The server: what it knows of, and what meets a query.
Published(day) == {c \in Registry : c.created <= day}

Meets(c, q) ==
  /\ c.type = q.type
  /\ q.active => c.active
  /\ \A versions \in q.fields : c.version \in versions
  /\ q.tags.all \subseteq c.tags
  /\ q.tags.build # {} => c.tags \cap q.tags.build # {}

\* _get_components_by_age_and_tag: a max_age of 0 is no limit, wanted is the
\* empty set without priority_tags.
OfAgeAndTag(s, wanted, day) ==
  {c \in Published(day) :
     /\ c.type = s.key
     /\ wanted \subseteq c.tags
     /\ s.max_age # 0 => c.created >= day - s.max_age}

-----------------------------------------------------------------------------
(* Scheduling.                                                             *)

\* A definition without components gets an empty list.
ComponentsOf(d) ==
  IF Has(d, "components") THEN d["components"].list ELSE <<>>
Entries == ComponentsOf(pipeline[job])
Entry == Entries[at]

\* fallback_last_success, which may be a single string.
FallbackTags(d) ==
  LET v == d["fallback_last_success"]
      strings == IF v.kind = "str" THEN <<v.str>> ELSE v.list
  IN {FieldOf(strings[i]) : i \in DOMAIN strings}

\* is_jobdef_with_fixed_components: "=" in every component.
Fixed(d) ==
  \A i \in DOMAIN ComponentsOf(d) : ComponentsOf(d)[i].form = "version"

Schedule(d) ==
  /\ pc = "ready"
  /\ job' = d
  /\ pc' = "select"
  /\ UNCHANGED <<pipeline, tags, at, tag, chosen, prev, refused, today>>

\* Mutant of Miss: the next component starts at the current tag.
MissKeepsTag == at' = at + 1 /\ UNCHANGED <<tag, chosen>>

\* A component is found, or there is none: the next one.
Take(found) == at' = at + 1 /\ tag' = 1 /\ chosen' = Append(chosen, found)
Miss == at' = at + 1 /\ tag' = 1 /\ UNCHANGED chosen

Asks == pc = "select" /\ at <= Len(Entries)
Continue == UNCHANGED <<pipeline, pc, job, tags, prev, today>>

Newest(S) == CHOOSE c \in S : \A d \in S : d.released <= c.released
LastCreated(S) == CHOOSE c \in S : \A d \in S : d.created <= c.created

\* get_comp.
AskComponent ==
  /\ Asks /\ Entry.form # "dict"
  /\ LET query == generate_query(Entry, tags)
         found == {c \in Published(today) : Meets(c, query)}
     IN IF found = {} THEN Miss ELSE Take(Newest(found))
  /\ UNCHANGED refused /\ Continue

Refuse ==
  /\ Asks /\ Entry.form # "dict"
  /\ Miss /\ refused' = TRUE /\ Continue

\* Mutant of NextTag: the second tag is never asked.
NextTagSkips ==
  IF tag + 1 < Len(Entry.priority_tags)
  THEN tag' = tag + 2 /\ UNCHANGED <<at, chosen>>
  ELSE Miss

\* The priority tags are asked until one of them has components.
NextTag ==
  IF tag < Len(Entry.priority_tags)
  THEN tag' = tag + 1 /\ UNCHANGED <<at, chosen>>
  ELSE Miss

AskPriority ==
  /\ Asks /\ Entry.form = "dict"
  /\ LET wanted == IF Entry.priority_tags = <<>> THEN {}
                   ELSE {Entry.priority_tags[tag]}
         found == OfAgeAndTag(Entry, wanted, today)
     IN IF found = {} THEN NextTag ELSE Take(LastCreated(found))
  /\ UNCHANGED refused /\ Continue

\* A refused call is taken for an empty answer.
RefusePriority ==
  /\ Asks /\ Entry.form = "dict"
  /\ NextTag /\ refused' = TRUE /\ Continue

\* Mutant of Complete: the job runs with the components found.
CompleteEnough == chosen # <<>>

Selected == pc = "select" /\ at > Len(Entries)
Complete == Len(chosen) = Len(Entries)

\* A version that the failed job did not have.
Different ==
  \E i \in DOMAIN chosen : \A j \in DOMAIN prev :
    chosen[i].version # prev[j].version

NotScheduled ==
  /\ Selected /\ ~(Complete /\ (prev # <<>> => Different))
  /\ pc' = "unscheduled"
  /\ UNCHANGED <<pipeline, selectionVars>>

Scheduled ==
  /\ Selected /\ Complete /\ (prev # <<>> => Different)
  /\ pc' = "scheduled"
  /\ UNCHANGED <<pipeline, selectionVars>>

\* run_stage: a job that has failed falls back once.
MayFallBack ==
  /\ prev = <<>>
  /\ Has(pipeline[job], "fallback_last_success") /\ ~Fixed(pipeline[job])

FallBack ==
  /\ pc = "scheduled" /\ MayFallBack
  /\ tags' = FallbackTags(pipeline[job])
  /\ prev' = chosen /\ chosen' = <<>> /\ at' = 1 /\ tag' = 1
  /\ pc' = "select"
  /\ UNCHANGED <<pipeline, job, refused, today>>

-----------------------------------------------------------------------------

(* The machine.                                                            *)

Idle ==
  /\ job = 0 /\ tags = {} /\ at = 1 /\ tag = 1
  /\ chosen = <<>> /\ prev = <<>> /\ refused = FALSE
  /\ today = Today

Select == \/ \E d \in DOMAIN pipeline : Schedule(d)
          \/ AskComponent \/ Refuse \/ AskPriority \/ RefusePriority
          \/ NotScheduled \/ Scheduled \/ FallBack

\* What the selection takes for granted of definitions: the components are a
\* list, and so are the priority tags of each.
Selectable(defs) ==
  \A d \in DOMAIN defs :
    LET entries == ComponentsOf(defs[d])
    IN /\ entries \in Seq(Range(entries))
       /\ \A i \in DOMAIN entries : entries[i].form = "dict" =>
            entries[i].priority_tags \in Seq(STRING)

\* get_config, whose steps PipelineConfig has.
Configuring == {"args", "merge", "overload"}
Configure ==
  /\ pc \in Configuring /\ pc' \in Configuring \cup {"ready", "exit"}
  /\ pc' = "ready" => Selectable(pipeline')
  /\ UNCHANGED selectionVars

SelectionInit == pc \in Configuring /\ Idle
SelectionNext == Configure \/ Select
selectVars == <<pipeline, pc, selectionVars>>
SelectionSpec == SelectionInit /\ [][SelectionNext]_selectVars

-----------------------------------------------------------------------------
(* What the selection must do.                                             *)

TagsOf(f) == {f.tag} \cup f.others

\* The tags that a component of this entry must have: those of its query, and
\* those of the fallback that are for its type or for all.
TagsFor(s, fallback_tags) ==
  (UNION {TagsOf(f) : f \in {g \in fallback_tags : g.scope \in {"", s.key}}})
    \cup IF s.form = "query" THEN s.tags ELSE {}

\* c has the type of the entry, the version and fields asked, all the tags
\* asked, and a build tag at least as good as each of those asked.
Fits(c, s, fallback_tags) ==
  /\ c.type = s.key
  /\ s.form = "version" => c.version = s.version
  /\ s.form = "query" => \A versions \in s.fields : c.version \in versions
  /\ s.form # "dict" =>
       \A t \in TagsFor(s, fallback_tags) :
         IF Rank(t) = 0 THEN t \in c.tags
         ELSE \E u \in c.tags : Rank(u) >= Rank(t)

\* A component that has a priority tag is not passed over for c, which has
\* only tags of lower priority.
Preferred(c, s, day) ==
  s.form = "dict" =>
    \A k \in DOMAIN s.priority_tags :
      OfAgeAndTag(s, {s.priority_tags[k]}, day) # {} =>
        \E j \in 1..k : s.priority_tags[j] \in c.tags

\* Every job runs with one component per entry of its definition, in order,
\* which fits the entry.  A fallback does not run again what has just failed.
SelectedFits ==
  pc = "scheduled" =>
    /\ Len(chosen) = Len(Entries)
    /\ \A i \in DOMAIN chosen : Fits(chosen[i], Entries[i], tags)
    /\ prev # <<>> => ~(Range(chosen) \subseteq Range(prev))

\* The priority of tags is kept, unless the server has refused a call.
PriorityKept ==
  pc = "scheduled" /\ ~refused =>
    \A i \in DOMAIN chosen : Preferred(chosen[i], Entries[i], today)

-----------------------------------------------------------------------------
(* The inductive invariant behind these.                                   *)

Selecting == {"select", "unscheduled", "scheduled"}

SelectionTypeOK ==
  /\ pc \in Configuring \cup Selecting \cup {"ready", "exit"}
  /\ pc \notin Selecting => Idle
  /\ pc \in Selecting \cup {"ready"} => Selectable(pipeline)
  /\ pc \in Selecting =>
       job \in DOMAIN pipeline /\ at \in 1..Len(Entries) + 1
  /\ pc = "select" =>
       \/ tag = 1
       \/ /\ at <= Len(Entries) /\ Entry.form = "dict"
          /\ tag \in 1..Len(Entry.priority_tags)
  /\ chosen \in Seq(Registry) /\ Len(chosen) < at
  /\ prev \in Seq(Registry)
  /\ \A f \in tags : f = Field(f.scope, f.tag, f.others)
  /\ refused \in BOOLEAN /\ today \in Nat

\* As long as no component is missing, those found are for the first entries.
Aligned ==
  pc \in Selecting /\ Len(chosen) = at - 1 =>
    \A i \in DOMAIN chosen :
      /\ Fits(chosen[i], Entries[i], tags)
      /\ ~refused => Preferred(chosen[i], Entries[i], today)

\* No component of the age asked has a priority tag that was asked before.
Passed ==
  pc = "select" /\ tag > 1 /\ ~refused =>
    \A k \in 1..(tag - 1) :
      OfAgeAndTag(Entry, {Entry.priority_tags[k]}, today) = {}

Judged ==
  pc = "scheduled" =>
    /\ Complete /\ at = Len(Entries) + 1
    /\ prev # <<>> => Different

SelectionInductive == SelectionTypeOK /\ Aligned /\ Passed /\ Judged
=============================================================================
