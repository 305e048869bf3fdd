---------------------- MODULE ComponentSelectionProofs ----------------------
(***************************************************************************)
(* Proofs about ComponentSelection: whatever the definitions, the          *)
(* components of the server and the calls it refuses, a job is scheduled   *)
(* with components that fit its definition.                                *)
(***************************************************************************)
EXTENDS ComponentSelection, FiniteSetTheorems, WellFoundedInduction, TLAPS

-----------------------------------------------------------------------------
(* The server answers with a component, if it has one that meets the query.*)

\* Of finitely many numbers one is the greatest.
LEMMA Greatest ==
  ASSUME NEW S, IsFiniteSet(S), S # {}, NEW f \in [S -> Nat]
  PROVE  \E c \in S : \A d \in S : f[d] <= f[c]
<1> DEFINE Above(c) == {d \in S : f[d] > f[c]}
           T == {Above(c) : c \in S}
<1>1. IsWellFoundedOn(StrictSubsetOrdering(S), SUBSET S)
  BY FS_StrictSubsetOrderingWellFounded, FS_FiniteSubsetsOfFinite
<1>2. T \subseteq SUBSET S /\ T # {}
  <2>1. \A c \in S : Above(c) \in SUBSET S OBVIOUS
  <2> HIDE DEF Above
  <2>2. PICK s \in S : TRUE OBVIOUS
  <2>3. Above(s) \in T OBVIOUS
  <2> QED BY <2>1, <2>3
<1>3. PICK x \in T : \A y \in T : <<y, x>> \notin StrictSubsetOrdering(S)
  <2> HIDE DEF T
  <2> QED BY <1>1, <1>2, WFMin
<1>4. PICK c \in S : x = Above(c)
  BY <1>3
<1>5. ASSUME NEW d \in S, f[d] > f[c] PROVE FALSE
  <2>1. Above(d) \subseteq Above(c) /\ d \in Above(c) /\ d \notin Above(d)
    BY <1>5
  <2>2. <<Above(d), Above(c)>> \in StrictSubsetOrdering(S)
    <3> HIDE DEF Above
    <3>1. Above(c) \subseteq S /\ Above(d) \subseteq S BY DEF Above
    <3> QED BY <2>1, <3>1 DEF StrictSubsetOrdering
  <2>3. Above(d) \in T
    OBVIOUS
  <2> QED BY <1>3, <1>4, <2>2, <2>3
<1>6. \A d \in S : f[d] \in Nat /\ f[c] \in Nat
  OBVIOUS
<1> QED BY <1>5, <1>6

\* The newest of some components is one of them.
LEMMA NewestIn ==
  ASSUME NEW S \in SUBSET Registry, S # {}
  PROVE  Newest(S) \in S
<1> DEFINE f == [c \in S |-> c.released]
<1>1. IsFiniteSet(S) BY RegistryAssumption, FS_Subset
<1>2. f \in [S -> Nat] BY RegistryAssumption
<1>3. \E c \in S : \A d \in S : f[d] <= f[c]
  <2> HIDE DEF f
  <2> QED BY <1>1, <1>2, Greatest
<1>4. \E c \in S : \A d \in S : d.released <= c.released
  BY <1>3
<1> QED BY <1>4 DEF Newest

\* So is the one created last.
LEMMA LastCreatedIn ==
  ASSUME NEW S \in SUBSET Registry, S # {}
  PROVE  LastCreated(S) \in S
<1> DEFINE f == [c \in S |-> c.created]
<1>1. IsFiniteSet(S) BY RegistryAssumption, FS_Subset
<1>2. f \in [S -> Nat] BY RegistryAssumption
<1>3. \E c \in S : \A d \in S : f[d] <= f[c]
  <2> HIDE DEF f
  <2> QED BY <1>1, <1>2, Greatest
<1>4. \E c \in S : \A d \in S : d.created <= c.created
  BY <1>3
<1> QED BY <1>4 DEF LastCreated

-----------------------------------------------------------------------------
(* Build tags.                                                             *)

\* A tag has a place from 1 to 4 if it is a build tag, and 0 if not.
LEMMA RankFacts ==
  /\ \A t : Rank(t) \in 0..4
  /\ \A r \in 1..4 : Rank(ORDERED_TAGS[r]) = r
<1>1. DOMAIN ORDERED_TAGS = 1..4 BY DEF ORDERED_TAGS
<1>2. \A q, r \in 1..4 : ORDERED_TAGS[q] = ORDERED_TAGS[r] => q = r
  BY DEF ORDERED_TAGS
<1>3. \A t : t \in Range(ORDERED_TAGS) <=> \E r \in 1..4 : ORDERED_TAGS[r] = t
  BY <1>1 DEF Range
<1>4. \A t : t \in Range(ORDERED_TAGS) =>
        Rank(t) \in 1..4 /\ ORDERED_TAGS[Rank(t)] = t
  BY <1>1, <1>3 DEF Rank
<1>5. \A t : t \notin Range(ORDERED_TAGS) => Rank(t) = 0
  BY DEF Rank
<1> QED BY <1>2, <1>3, <1>4, <1>5

\* What AtLeast asks is as good as each of the build tags it is given.
LEMMA AtLeastGood ==
  ASSUME NEW build, build # {}, \A t \in build : Rank(t) > 0
  PROVE  /\ AtLeast(build) # {}
         /\ \A t \in build, u \in AtLeast(build) : Rank(u) >= Rank(t)
<1> DEFINE ranks == {Rank(t) : t \in build}
<1>1. ranks \subseteq 1..4 /\ ranks # {} BY RankFacts
<1>2. \E x \in ranks : \A y \in ranks : x >= y
  <2> HIDE DEF ranks
  <2>1. CASE 4 \in ranks BY <1>1, <2>1
  <2>2. CASE 4 \notin ranks /\ 3 \in ranks BY <1>1, <2>2
  <2>3. CASE 4 \notin ranks /\ 3 \notin ranks /\ 2 \in ranks BY <1>1, <2>3
  <2>4. CASE 4 \notin ranks /\ 3 \notin ranks /\ 2 \notin ranks
    <3>1. \A y \in ranks : y = 1 BY <1>1, <2>4
    <3>2. PICK x \in ranks : TRUE BY <1>1
    <3> QED BY <3>1, <3>2
  <2> QED BY <2>1, <2>2, <2>3, <2>4
<1>3. Max(ranks) \in ranks /\ \A y \in ranks : Max(ranks) >= y
  BY <1>2 DEF Max
<1>4. AtLeast(build) = {ORDERED_TAGS[r] : r \in Max(ranks)..4}
  BY DEF AtLeast, ORDERED_TAGS
<1>5. Max(ranks) \in 1..4 BY <1>1, <1>3
<1>6. Max(ranks) \in Max(ranks)..4 BY <1>5
<1>7. ASSUME NEW t \in build, NEW u \in AtLeast(build)
      PROVE  Rank(u) >= Rank(t)
  <2>1. PICK r \in Max(ranks)..4 : u = ORDERED_TAGS[r] BY <1>4
  <2>2. r \in 1..4 /\ r >= Max(ranks) BY <1>5
  <2>3. Rank(u) = r BY <2>1, <2>2, RankFacts
  <2>4. Max(ranks) >= Rank(t) /\ Rank(t) \in 0..4 BY <1>3, RankFacts
  <2> QED BY <1>5, <2>2, <2>3, <2>4
<1> QED BY <1>4, <1>6, <1>7

-----------------------------------------------------------------------------
(* The tags of a query.                                                    *)

\* What a query asks of tags makes sure of t.
Wants(q, t) ==
  IF Rank(t) = 0 THEN t \in q.all
  ELSE q.build # {} /\ \A u \in q.build : Rank(u) >= Rank(t)

Fields(fields) == \A f \in fields : f = Field(f.scope, f.tag, f.others)

\* A tag is extracted as a build tag or as a piece, for a type at most.
Extracted(fields, scope, t) ==
  \/ t \in extract_build_tags(fields).build
  \/ \E p \in extract_build_tags(fields).other :
       p.tag = t /\ p.scope \in {"", scope}

\* No tag of a field is lost.
LEMMA ExtractKeeps ==
  ASSUME NEW fields, NEW f \in fields, NEW t \in TagsOf(f)
  PROVE  Extracted(fields, f.scope, t)
<1> DEFINE pieces == UNION {Cut(g) : g \in fields}
<1>1. \E p \in Cut(f) : p.tag = t /\ p.scope \in {"", f.scope}
  <2>1. CASE t = f.tag
    <3>1. Field(f.scope, t, {}) \in Cut(f) BY <2>1 DEF Cut
    <3> QED BY <3>1 DEF Field
  <2>2. CASE t # f.tag
    <3>1. Unscoped(t) \in Cut(f) BY <2>2 DEF Cut, TagsOf
    <3> QED BY <3>1 DEF Unscoped, Field
  <2> QED BY <2>1, <2>2
<1>2. PICK p \in pieces : p.tag = t /\ p.scope \in {"", f.scope}
  BY <1>1
<1>3. CASE IsBuildTag(p)
  BY <1>2, <1>3 DEF extract_build_tags, Extracted
<1>4. CASE ~IsBuildTag(p)
  BY <1>2, <1>4 DEF extract_build_tags, Extracted
<1> QED BY <1>3, <1>4

\* What is extracted is what it says.
LEMMA ExtractGives ==
  ASSUME NEW fields
  PROVE  /\ \A t \in extract_build_tags(fields).build : Rank(t) > 0
         /\ \A p \in extract_build_tags(fields).other :
              /\ p = Field(p.scope, p.tag, p.others) /\ p.others = {}
              /\ p.scope = "" => Rank(p.tag) = 0
<1> DEFINE pieces == UNION {Cut(g) : g \in fields}
<1>1. ASSUME NEW p \in pieces
      PROVE  p = Field(p.scope, p.tag, p.others) /\ p.others = {}
  <2>1. PICK g \in fields : p \in Cut(g) OBVIOUS
  <2>2. \E a, b : p = Field(a, b, {}) BY <2>1 DEF Cut, Unscoped
  <2> QED BY <2>2 DEF Field
<1>2. \A t \in extract_build_tags(fields).build : Rank(t) > 0
  BY DEF extract_build_tags, IsBuildTag
<1>3. \A p \in extract_build_tags(fields).other :
        p \in pieces /\ ~IsBuildTag(p)
  BY DEF extract_build_tags
<1>4. \A t : Rank(t) \in 0..4 BY RankFacts
<1> HIDE DEF pieces
<1>5. ASSUME NEW p \in extract_build_tags(fields).other, p.scope = ""
      PROVE  Rank(p.tag) = 0
  <2>1. ~(Rank(p.tag) > 0) BY <1>3, <1>5 DEF IsBuildTag
  <2> QED BY <2>1, <1>4
<1> QED BY <1>1, <1>2, <1>3, <1>5

\* A query asks a build tag as good as those it is given, and all the tags of
\* the fields that are for its type.
LEMMA FromBuild ==
  ASSUME NEW fields, NEW build, \A u \in build : Rank(u) > 0, NEW type,
         NEW t \in build
               \cup extract_build_tags(filter_type_tags(fields, type)).build
  PROVE  Wants(generate_query_from_tags(fields, build, type), t)
<1> DEFINE extra == extract_build_tags(filter_type_tags(fields, type))
           all == build \cup extra.build
           q == generate_query_from_tags(fields, build, type)
<1>1. q.build = AtLeast(all)
  BY DEF generate_query_from_tags
<1>2. \A u \in all : Rank(u) > 0
  BY ExtractGives
<1>3. t \in all
  OBVIOUS
<1> HIDE DEF all, q
<1>4. /\ AtLeast(all) # {}
      /\ \A u \in AtLeast(all) : Rank(u) >= Rank(t)
  BY <1>2, <1>3, AtLeastGood
<1>5. Rank(t) # 0
  BY <1>2, <1>3, RankFacts
<1>6. Wants(q, t)
  BY <1>1, <1>4, <1>5 DEF Wants
<1> QED BY <1>6 DEF q

\* The same of a tag in one of these fields.
LEMMA FromFields ==
  ASSUME NEW fields, Fields(fields), NEW build, \A u \in build : Rank(u) > 0,
         NEW type, NEW f \in fields, f.scope \in {"", type},
         NEW t \in TagsOf(f)
  PROVE  Wants(generate_query_from_tags(fields, build, type), t)
<1> DEFINE kept == filter_type_tags(fields, type)
           extra == extract_build_tags(kept)
           q == generate_query_from_tags(fields, build, type)
           g == [f EXCEPT !.scope = ""]
<1>1. g \in kept
  BY DEF filter_type_tags
<1>2. g.tag = f.tag /\ g.others = f.others /\ g.scope = ""
  <2>1. f = [scope |-> f.scope, tag |-> f.tag, others |-> f.others]
    BY DEF Fields, Field
  <2>2. DOMAIN f = {"scope", "tag", "others"}
    BY <2>1
  <2> QED BY <2>2
<1>3. t \in TagsOf(g)
  BY <1>2 DEF TagsOf
<1>4. \/ t \in extra.build
      \/ \E p \in extra.other : p.tag = t /\ p.scope = ""
  <2> HIDE DEF kept, g
  <2>1. Extracted(kept, g.scope, t) BY <1>1, <1>3, ExtractKeeps
  <2> QED BY <2>1, <1>2 DEF Extracted
<1>5. CASE t \in extra.build
  BY <1>5, FromBuild
<1>6. CASE \E p \in extra.other : p.tag = t /\ p.scope = ""
  <2>1. PICK p \in extra.other : p.tag = t /\ p.scope = ""
    BY <1>6
  <2>2. Rank(t) = 0
    <3> HIDE DEF kept
    <3> QED BY <2>1, ExtractGives
  <2>3. q.all = {r.tag : r \in extra.other}
    BY DEF generate_query_from_tags
  <2>4. t \in q.all
    <3> HIDE DEF extra, q
    <3> QED BY <2>1, <2>3
  <2> QED BY <2>2, <2>4 DEF Wants
<1> QED BY <1>4, <1>5, <1>6

\* The query of an entry asks all the tags that are for it.
LEMMA QueryAsks ==
  ASSUME NEW fallback, Fields(fallback), NEW s, NEW t \in TagsFor(s, fallback)
  PROVE  Wants(generate_query(s, fallback).tags, t)
<1> DEFINE For(f) == f.scope \in {"", s.key} /\ t \in TagsOf(f)
<1>1. \/ \E f \in fallback : For(f)
      \/ s.form = "query" /\ t \in s.tags
  BY DEF TagsFor
<1>2. CASE s.form # "query"
  <2>1. generate_query(s, fallback).tags
          = generate_query_from_tags(fallback, {}, s.key)
    BY <1>2 DEF generate_query
  <2>2. PICK f \in fallback : For(f)
    BY <1>1, <1>2
  <2>3. Wants(generate_query_from_tags(fallback, {}, s.key), t)
    BY <2>2, FromFields
  <2> QED BY <2>1, <2>3
<1>3. CASE s.form = "query"
  <2> DEFINE fields == {Unscoped(u) : u \in s.tags} \cup fallback
             cut == extract_build_tags(fields)
             q == generate_query_from_tags(cut.other, cut.build, s.key)
  <2>1. generate_query(s, fallback).tags = q
    BY <1>3 DEF generate_query
  <2>2. Fields(cut.other) /\ \A u \in cut.build : Rank(u) > 0
    <3> HIDE DEF fields
    <3> QED BY ExtractGives DEF Fields
  <2>3. \E f \in fields : For(f)
    <3>1. CASE t \in s.tags
      <4>1. Unscoped(t) \in fields BY <3>1
      <4>2. For(Unscoped(t)) BY <3>1 DEF Unscoped, Field, TagsOf
      <4> QED BY <4>1, <4>2
    <3>2. CASE t \notin s.tags
      <4> HIDE DEF For
      <4> QED BY <1>1, <3>2
    <3> QED BY <3>1, <3>2
  <2>4. \/ t \in cut.build
        \/ \E p \in cut.other : p.tag = t /\ p.scope \in {"", s.key}
    <3>1. PICK f \in fields : For(f)
      BY <2>3
    <3>2. t \in TagsOf(f)
      BY <3>1
    <3> HIDE DEF fields
    <3>3. Extracted(fields, f.scope, t) BY <3>2, ExtractKeeps
    <3> QED BY <3>1, <3>3 DEF Extracted
  <2>5. Wants(q, t)
    <3>1. CASE t \in cut.build
      <4> HIDE DEF cut
      <4> QED BY <2>2, <3>1, FromBuild
    <3>2. CASE \E p \in cut.other : p.tag = t /\ p.scope \in {"", s.key}
      <4>1. PICK p \in cut.other : p.tag = t /\ p.scope \in {"", s.key}
        BY <3>2
      <4>2. t \in TagsOf(p)
        BY <4>1 DEF TagsOf
      <4> HIDE DEF cut
      <4> QED BY <2>2, <4>1, <4>2, FromFields
    <3> QED BY <2>4, <3>1, <3>2
  <2> QED BY <2>1, <2>5
<1> QED BY <1>2, <1>3

\* A component that meets the query of an entry fits the entry.
LEMMA MeetsFits ==
  ASSUME NEW fallback, Fields(fallback), NEW c, NEW s, s.form # "dict",
         Meets(c, generate_query(s, fallback))
  PROVE  Fits(c, s, fallback)
<1> DEFINE q == generate_query(s, fallback)
<1>1. q.type = s.key BY DEF generate_query
<1>2. s.form = "version" => c.version = s.version
  BY DEF generate_query, Meets
<1>3. s.form = "query" => \A versions \in s.fields : c.version \in versions
  BY DEF generate_query, Meets
<1>4. ASSUME NEW t \in TagsFor(s, fallback)
      PROVE  IF Rank(t) = 0 THEN t \in c.tags
             ELSE \E u \in c.tags : Rank(u) >= Rank(t)
  <2>1. Wants(q.tags, t) BY QueryAsks
  <2>2. /\ q.tags.all \subseteq c.tags
        /\ q.tags.build # {} => c.tags \cap q.tags.build # {}
    BY DEF Meets
  <2> HIDE DEF q
  <2> QED BY <2>1, <2>2 DEF Wants
<1>5. c.type = s.key BY <1>1 DEF Meets
<1> QED BY <1>2, <1>3, <1>4, <1>5 DEF Fits

-----------------------------------------------------------------------------
(* The steps.                                                              *)

\* What the components found so far have in common with those asked.
Suit(comps, entries) ==
  \A i \in DOMAIN comps :
    /\ Fits(comps[i], entries[i], tags)
    /\ ~refused => Preferred(comps[i], entries[i], today)

\* The components of a selectable definition, which may be none.
LEMMA ComponentsType ==
  ASSUME NEW defs, Selectable(defs), NEW d \in DOMAIN defs
  PROVE  /\ Len(ComponentsOf(defs[d])) \in Nat
         /\ \A i \in 1..Len(ComponentsOf(defs[d])) :
              ComponentsOf(defs[d])[i].form = "dict" =>
                ComponentsOf(defs[d])[i].priority_tags \in Seq(STRING)
<1> DEFINE entries == ComponentsOf(defs[d])
<1>1. entries \in Seq(Range(entries))
  BY DEF Selectable
<1>2. \A i \in DOMAIN entries : entries[i].form = "dict" =>
        entries[i].priority_tags \in Seq(STRING)
  BY DEF Selectable
<1>3. DOMAIN entries = 1..Len(entries)
  BY <1>1
<1> QED BY <1>1, <1>2, <1>3

\* The same of the definition that is scheduled.
LEMMA EntriesType ==
  ASSUME Selectable(pipeline), job \in DOMAIN pipeline
  PROVE  /\ Len(Entries) \in Nat
         /\ \A i \in 1..Len(Entries) : Entries[i].form = "dict" =>
              Entries[i].priority_tags \in Seq(STRING)
BY ComponentsType DEF Entries

\* One more component that suits the entry it was asked for.
LEMMA OneMore ==
  ASSUME chosen \in Seq(Registry), Suit(chosen, Entries), NEW c \in Registry,
         LET i == Len(chosen) + 1
         IN /\ Fits(c, Entries[i], tags)
            /\ ~refused => Preferred(c, Entries[i], today)
  PROVE  Suit(Append(chosen, c), Entries)
<1> DEFINE more == Append(chosen, c)
<1>1. /\ DOMAIN more = 1..(Len(chosen) + 1)
      /\ Len(chosen) \in Nat
      /\ more[Len(chosen) + 1] = c
      /\ \A i \in 1..Len(chosen) : more[i] = chosen[i] /\ i \in DOMAIN chosen
  OBVIOUS
<1> HIDE DEF more
<1>2. \A i \in DOMAIN more : i = Len(chosen) + 1 \/ i \in 1..Len(chosen)
  BY <1>1
<1>3. Suit(more, Entries)
  BY <1>1, <1>2 DEF Suit
<1> QED BY <1>3 DEF more

\* In a step that asks for a component.
AskStep == AskComponent \/ Refuse \/ AskPriority \/ RefusePriority

\* What a call for a component starts from and leaves alone.
LEMMA Asking ==
  ASSUME SelectionTypeOK, AskStep
  PROVE  /\ pc = "select" /\ pc' = pc
         /\ Selectable(pipeline) /\ job \in DOMAIN pipeline
         /\ Len(Entries) \in Nat /\ at \in 1..Len(Entries)
         /\ UNCHANGED <<pipeline, job, tags, prev, today>>
         /\ Entries' = Entries
<1>1. Asks /\ Continue
  BY DEF AskStep, AskComponent, Refuse, AskPriority, RefusePriority
<1>2. /\ pc = "select" /\ pc' = pc /\ at <= Len(Entries)
      /\ UNCHANGED <<pipeline, job, tags, prev, today>>
  BY <1>1 DEF Asks, Continue
<1>3. /\ Selectable(pipeline) /\ job \in DOMAIN pipeline
      /\ at \in 1..Len(Entries) + 1
  BY <1>2 DEF SelectionTypeOK, Selecting
<1>4. Len(Entries) \in Nat
  BY <1>3, EntriesType
<1>5. Entries' = Entries
  BY <1>2 DEF Entries
<1> QED BY <1>2, <1>3, <1>4, <1>5

\* It finds a component that suits the entry, none, or asks the next tag.
Found ==
  \E c \in Registry :
    /\ Take(c) /\ refused' = refused
    /\ Fits(c, Entry, tags)
    /\ ~refused => Preferred(c, Entry, today)
Tried ==
  /\ Entry.form = "dict" /\ tag < Len(Entry.priority_tags)
  /\ tag' = tag + 1 /\ UNCHANGED <<at, chosen>>
  /\ \/ refused'
     \/ refused' = refused
        /\ OfAgeAndTag(Entry, {Entry.priority_tags[tag]}, today) = {}

\* A call finds a component that suits the entry, or gives the entry up, or goes
\* on to the next priority tag.
LEMMA AskOutcome ==
  ASSUME SelectionInductive, AskStep
  PROVE  /\ refused => refused'
         /\ refused' \in BOOLEAN
         /\ Found \/ Miss \/ Tried
<1>p. SelectionTypeOK /\ Passed BY DEF SelectionInductive
<1>a. /\ pc = "select" /\ at \in 1..Len(Entries)
      /\ Selectable(pipeline) /\ job \in DOMAIN pipeline
  BY <1>p, Asking
<1>b. refused \in BOOLEAN BY <1>p DEF SelectionTypeOK
<1>1. CASE AskComponent
  <2> DEFINE found == {c \in Published(today) :
                         Meets(c, generate_query(Entry, tags))}
  <2>1. /\ Entry.form # "dict" /\ refused' = refused
        /\ IF found = {} THEN Miss ELSE Take(Newest(found))
    BY <1>1 DEF AskComponent
  <2>2. CASE found # {}
    <3>1. found \in SUBSET Registry BY DEF Published
    <3>2. Newest(found) \in found
      <4> HIDE DEF found
      <4> QED BY <3>1, <2>2, NewestIn
    <3>3. Newest(found) \in Registry BY <3>1, <3>2
    <3>4. Meets(Newest(found), generate_query(Entry, tags)) BY <3>2
    <3>5. Fields(tags) BY <1>p DEF SelectionTypeOK, Fields
    <3> HIDE DEF found
    <3>6. Fits(Newest(found), Entry, tags) BY <2>1, <3>4, <3>5, MeetsFits
    <3>7. Preferred(Newest(found), Entry, today) BY <2>1 DEF Preferred
    <3> QED BY <1>b, <2>1, <2>2, <3>3, <3>6, <3>7 DEF Found
  <2> QED BY <1>b, <2>1, <2>2
<1>2. CASE Refuse
  BY <1>2 DEF Refuse
<1>3. CASE AskPriority
  <2> DEFINE wanted == IF Entry.priority_tags = <<>> THEN {}
                       ELSE {Entry.priority_tags[tag]}
             found == OfAgeAndTag(Entry, wanted, today)
  <2>1. /\ Entry.form = "dict" /\ refused' = refused
        /\ IF found = {} THEN NextTag ELSE Take(LastCreated(found))
    BY <1>3 DEF AskPriority
  <2>2. Entry.priority_tags \in Seq(STRING)
    BY <1>a, <2>1, EntriesType DEF Entry
  <2>3. tag = 1 \/ tag \in 1..Len(Entry.priority_tags)
    BY <1>p, <1>a DEF SelectionTypeOK
  <2>4. CASE found = {}
    <3>1. CASE tag < Len(Entry.priority_tags)
      <4>1. Entry.priority_tags # <<>> BY <2>2, <2>3, <3>1
      <4>2. wanted = {Entry.priority_tags[tag]} BY <4>1
      <4> HIDE DEF wanted
      <4> QED BY <1>b, <2>1, <2>4, <3>1, <4>2 DEF NextTag, Tried
    <3>2. CASE ~(tag < Len(Entry.priority_tags))
      BY <1>b, <2>1, <2>4, <3>2 DEF NextTag
    <3> QED BY <3>1, <3>2
  <2>5. CASE found # {}
    <3>1. found \in SUBSET Registry BY DEF OfAgeAndTag, Published
    <3>2. LastCreated(found) \in found
      <4> HIDE DEF found
      <4> QED BY <3>1, <2>5, LastCreatedIn
    <3>3. LastCreated(found) \in Registry BY <3>1, <3>2
    <3> DEFINE c == LastCreated(found)
    <3>4. c.type = Entry.key /\ wanted \subseteq c.tags
      BY <3>2 DEF OfAgeAndTag
    <3>5. Fits(c, Entry, tags)
      <4> HIDE DEF c
      <4> QED BY <2>1, <3>4 DEF Fits
    <3>6. ASSUME ~refused PROVE Preferred(c, Entry, today)
      <4>1. SUFFICES ASSUME NEW k \in DOMAIN Entry.priority_tags,
                OfAgeAndTag(Entry, {Entry.priority_tags[k]}, today) # {}
              PROVE  \E j \in 1..k : Entry.priority_tags[j] \in c.tags
        BY DEF Preferred
      <4>2. k \in 1..Len(Entry.priority_tags) /\ Entry.priority_tags # <<>>
        BY <2>2
      <4>3. tag \in 1..Len(Entry.priority_tags)
        BY <2>2, <2>3, <4>2
      <4>4. Entry.priority_tags[tag] \in c.tags
        BY <3>4, <4>2
      <4>5. ~(k < tag)
        <5>1. tag > 1 => \A m \in 1..(tag - 1) :
                OfAgeAndTag(Entry, {Entry.priority_tags[m]}, today) = {}
          BY <1>p, <1>a, <3>6 DEF Passed
        <5> QED BY <4>1, <4>2, <4>3, <5>1
      <4>6. tag \in 1..k BY <4>2, <4>3, <4>5
      <4> QED BY <4>4, <4>6
    <3> HIDE DEF c
    <3>7. Take(c) BY <2>1, <2>5 DEF c
    <3>8. c \in Registry BY <3>3 DEF c
    <3> QED BY <1>b, <2>1, <3>5, <3>6, <3>7, <3>8 DEF Found
  <2> QED BY <2>4, <2>5
<1>4. CASE RefusePriority
  <2>1. Entry.form = "dict" /\ refused' = TRUE /\ NextTag
    BY <1>4 DEF RefusePriority
  <2> QED BY <2>1 DEF NextTag, Tried
<1> QED BY <1>1, <1>2, <1>3, <1>4 DEF AskStep

\* Aligned, in terms of the components and the entries alone.
LEMMA AlignedSuits ==
  Aligned <=> (pc \in Selecting /\ Len(chosen) = at - 1 => Suit(chosen, Entries))
BY DEF Aligned, Suit

\* Whatever a call brings, the invariant is kept.
LEMMA AskSteps ==
  ASSUME SelectionInductive, AskStep
  PROVE  SelectionInductive'
<1>p. SelectionTypeOK /\ Aligned /\ Passed BY DEF SelectionInductive
<1>a. /\ pc = "select" /\ pc' = pc
      /\ Selectable(pipeline) /\ job \in DOMAIN pipeline
      /\ Len(Entries) \in Nat /\ at \in 1..Len(Entries)
      /\ UNCHANGED <<pipeline, job, tags, prev, today>>
      /\ Entries' = Entries
  BY <1>p, Asking
<1>b. /\ refused \in BOOLEAN /\ chosen \in Seq(Registry) /\ Len(chosen) < at
      /\ Len(chosen) \in Nat
  BY <1>p DEF SelectionTypeOK
<1>c. /\ refused => refused'
      /\ refused' \in BOOLEAN
      /\ Found \/ Miss \/ Tried
  BY AskOutcome
<1>d. Len(chosen) = at - 1 => Suit(chosen, Entries)
  BY <1>p, <1>a, AlignedSuits DEF Selecting
\* What is left to show of the types.
<1>e. ASSUME chosen' \in Seq(Registry), Len(chosen') < at',
             at' \in 1..Len(Entries) + 1,
             \/ tag' = 1
             \/ /\ at' <= Len(Entries) /\ Entries[at'].form = "dict"
                /\ tag' \in 1..Len(Entries[at'].priority_tags)
      PROVE  SelectionTypeOK'
  <2>1. Entry' = Entries[at'] BY <1>a DEF Entry
  <2>2. SelectionTypeOK BY <1>p
  <2> QED BY <1>a, <1>c, <1>e, <2>1, <2>2
    DEF SelectionTypeOK, Selecting, Configuring, Idle
<1>f. Judged' BY <1>a DEF Judged
<1>1. CASE Miss
  <2>1. at' = at + 1 /\ tag' = 1 /\ chosen' = chosen BY <1>1 DEF Miss
  <2>2. SelectionTypeOK' BY <1>a, <1>b, <1>e, <2>1
  <2>3. Len(chosen') # at' - 1 BY <1>a, <1>b, <2>1
  <2>4. Aligned' BY <2>3 DEF Aligned
  <2>5. Passed' BY <2>1 DEF Passed
  <2> QED BY <1>f, <2>2, <2>4, <2>5 DEF SelectionInductive
<1>2. CASE Found
  <2>1. PICK c \in Registry :
          /\ Take(c) /\ refused' = refused
          /\ Fits(c, Entry, tags)
          /\ ~refused => Preferred(c, Entry, today)
    BY <1>2 DEF Found
  <2>2. at' = at + 1 /\ tag' = 1 /\ chosen' = Append(chosen, c)
    BY <2>1 DEF Take
  <2>3. chosen' \in Seq(Registry) /\ Len(chosen') = Len(chosen) + 1
    BY <1>b, <2>2
  <2>4. SelectionTypeOK' BY <1>a, <1>b, <1>e, <2>2, <2>3
  <2>5. Aligned'
    <3>1. CASE Len(chosen') = at' - 1
      <4>1. Len(chosen) + 1 = at BY <1>a, <1>b, <2>2, <2>3, <3>1
      <4>2. Suit(chosen, Entries) BY <1>a, <1>b, <1>d, <4>1
      <4>3. Entry = Entries[Len(chosen) + 1] BY <4>1 DEF Entry
      <4>4. Suit(chosen', Entries)
        BY <1>b, <2>1, <2>2, <4>2, <4>3, OneMore
      <4> QED BY <1>a, <2>1, <4>4 DEF Suit, Aligned
    <3>2. CASE Len(chosen') # at' - 1
      BY <3>2 DEF Aligned
    <3> QED BY <3>1, <3>2
  <2>6. Passed' BY <2>2 DEF Passed
  <2> QED BY <1>f, <2>4, <2>5, <2>6 DEF SelectionInductive
<1>3. CASE Tried
  <2>1. /\ Entry.form = "dict" /\ tag < Len(Entry.priority_tags)
        /\ tag' = tag + 1 /\ at' = at /\ chosen' = chosen
        /\ ~refused' =>
             OfAgeAndTag(Entry, {Entry.priority_tags[tag]}, today) = {}
    BY <1>3, <1>c DEF Tried
  <2>2. Entry = Entries[at] /\ Entry' = Entry BY <1>a, <2>1 DEF Entry
  <2>3. Len(Entry.priority_tags) \in Nat
    BY <1>a, <2>1, <2>2, EntriesType
  <2>4. tag \in 1..Len(Entry.priority_tags)
    BY <1>p, <1>a, <2>1, <2>3 DEF SelectionTypeOK
  <2>5. tag' \in 1..Len(Entry.priority_tags)
    BY <2>1, <2>3, <2>4
  <2>6. SelectionTypeOK' BY <1>a, <1>b, <1>e, <2>1, <2>2, <2>5
  <2>7. Aligned'
    BY <1>a, <1>c, <1>d, <2>1 DEF Suit, Aligned
  <2>8. Passed'
    <3>1. SUFFICES ASSUME ~refused', NEW k \in 1..(tag' - 1)
                   PROVE  OfAgeAndTag(Entry, {Entry.priority_tags[k]}, today) = {}
      BY <1>a, <2>2 DEF Passed
    <3>2. CASE k = tag BY <2>1, <3>1, <3>2
    <3>3. CASE k # tag
      <4>1. k \in 1..(tag - 1) /\ tag > 1 BY <2>1, <2>4, <3>3
      <4> QED BY <1>p, <1>a, <1>c, <3>1, <4>1 DEF Passed
    <3> QED BY <3>2, <3>3
  <2> QED BY <1>f, <2>6, <2>7, <2>8 DEF SelectionInductive
<1> QED BY <1>c, <1>1, <1>2, <1>3

\* The definitions are not made while components are asked.
LEMMA ConfigureStep ==
  ASSUME SelectionInductive, Configure
  PROVE  SelectionInductive'
<1>p. SelectionTypeOK BY DEF SelectionInductive
<1>1. /\ pc \in Configuring /\ pc' \in Configuring \cup {"ready", "exit"}
      /\ pc' = "ready" => Selectable(pipeline')
      /\ UNCHANGED selectionVars
  BY DEF Configure
<1>2. pc \notin Selecting /\ pc' \notin Selecting
  BY <1>1 DEF Configuring, Selecting
<1>3. Idle' /\ Idle
  BY <1>p, <1>1, <1>2 DEF SelectionTypeOK, Idle, selectionVars
<1>4. SelectionTypeOK'
  BY <1>p, <1>1, <1>2, <1>3
    DEF SelectionTypeOK, selectionVars, Selecting, Configuring
<1>5. Aligned' /\ Passed' /\ Judged'
  BY <1>2 DEF Aligned, Passed, Judged, Selecting
<1> QED BY <1>4, <1>5 DEF SelectionInductive

\* Nothing has been found when a definition is picked.
LEMMA ScheduleStep ==
  ASSUME SelectionInductive, NEW d \in DOMAIN pipeline, Schedule(d)
  PROVE  SelectionInductive'
<1>p. SelectionTypeOK BY DEF SelectionInductive
<1>1. /\ pc = "ready" /\ pc' = "select" /\ job' = d
      /\ UNCHANGED <<pipeline, tags, at, tag, chosen, prev, refused, today>>
  BY DEF Schedule
<1>2. Idle /\ Selectable(pipeline)
  BY <1>p, <1>1 DEF SelectionTypeOK, Selecting
<1>3. Selectable(pipeline)' /\ job' \in DOMAIN pipeline'
  BY <1>1, <1>2
<1>4. Len(Entries)' \in Nat
  BY <1>3, ComponentsType DEF Entries
<1>5. at' = 1 /\ tag' = 1 /\ chosen' = <<>>
  BY <1>1, <1>2 DEF Idle
<1>6. SelectionTypeOK'
  BY <1>p, <1>1, <1>3, <1>4, <1>5
    DEF SelectionTypeOK, Selecting, Configuring
<1>7. Aligned' /\ Passed' /\ Judged'
  BY <1>1, <1>5 DEF Aligned, Passed, Judged
<1> QED BY <1>6, <1>7 DEF SelectionInductive

\* The selection is over, one way or the other.
LEMMA OverStep ==
  ASSUME SelectionInductive, NotScheduled \/ Scheduled
  PROVE  SelectionInductive'
<1>p. SelectionTypeOK /\ Aligned BY DEF SelectionInductive
<1>1. /\ pc = "select" /\ at > Len(Entries)
      /\ UNCHANGED <<pipeline, selectionVars>>
      /\ \/ pc' = "unscheduled"
         \/ pc' = "scheduled" /\ Complete /\ (prev # <<>> => Different)
  BY DEF NotScheduled, Scheduled, Selected
<1>2. Entries' = Entries /\ UNCHANGED selectionVars
  BY <1>1 DEF Entries, selectionVars
<1>3. /\ Selectable(pipeline) /\ job \in DOMAIN pipeline
      /\ at \in 1..Len(Entries) + 1
  BY <1>p, <1>1 DEF SelectionTypeOK, Selecting
<1>4. Len(Entries) \in Nat BY <1>3, EntriesType
<1>5. at = Len(Entries) + 1 BY <1>1, <1>3, <1>4
<1>6. SelectionTypeOK'
  BY <1>p, <1>1, <1>2, <1>3
    DEF SelectionTypeOK, Selecting, Configuring, Idle, selectionVars
<1>7. Aligned'
  BY <1>p, <1>1, <1>2 DEF Aligned, Selecting, selectionVars
<1>8. Passed' BY <1>1 DEF Passed
<1>9. Judged'
  BY <1>1, <1>2, <1>5 DEF Judged, Complete, Different, selectionVars
<1> QED BY <1>6, <1>7, <1>8, <1>9 DEF SelectionInductive

\* A fallback starts from the first entry, with nothing found.
LEMMA FallBackStep ==
  ASSUME SelectionInductive, FallBack
  PROVE  SelectionInductive'
<1>p. SelectionTypeOK BY DEF SelectionInductive
<1>1. /\ pc = "scheduled" /\ pc' = "select"
      /\ tags' = FallbackTags(pipeline[job])
      /\ prev' = chosen /\ chosen' = <<>> /\ at' = 1 /\ tag' = 1
      /\ UNCHANGED <<pipeline, job, refused, today>>
  BY DEF FallBack
<1>2. Selectable(pipeline) /\ job \in DOMAIN pipeline
  BY <1>p, <1>1 DEF SelectionTypeOK, Selecting
<1>3. Len(Entries) \in Nat /\ Entries' = Entries
  BY <1>1, <1>2, EntriesType DEF Entries
<1>4. \A f \in tags' : f = Field(f.scope, f.tag, f.others)
  <2>1. \A s : \E a, b, c : FieldOf(s) = Field(a, b, c)
    BY DEF FieldOf, Unscoped
  <2>2. \A f \in tags' : \E s : f = FieldOf(s)
    BY <1>1 DEF FallbackTags
  <2> QED BY <2>1, <2>2 DEF Field
<1>5. SelectionTypeOK'
  BY <1>p, <1>1, <1>2, <1>3, <1>4
    DEF SelectionTypeOK, Selecting, Configuring
<1>6. Aligned' /\ Passed' /\ Judged'
  BY <1>1 DEF Aligned, Passed, Judged
<1> QED BY <1>5, <1>6 DEF SelectionInductive

\* The invariant is inductive.
LEMMA SelectionStep ==
  SelectionInductive /\ [SelectionNext]_selectVars => SelectionInductive'
<1> SUFFICES ASSUME SelectionInductive, [SelectionNext]_selectVars
             PROVE  SelectionInductive'
  OBVIOUS
<1>1. CASE UNCHANGED selectVars
  BY <1>1 DEF selectVars, selectionVars, SelectionInductive, SelectionTypeOK,
    Aligned, Passed, Judged, Idle, Entries, Entry, Complete, Different
<1> QED BY <1>1, ConfigureStep, ScheduleStep, AskSteps, OverStep,
  FallBackStep DEF SelectionNext, Select, AskStep

-----------------------------------------------------------------------------
(* The theorems.                                                           *)

\* As long as no component is missing, those found suit the first entries of
\* the definition.
THEOREM SelectionInductiveCorrect == SelectionSpec => []SelectionInductive
<1>1. SelectionInit => SelectionInductive
  <2> SUFFICES ASSUME SelectionInit PROVE SelectionInductive
    OBVIOUS
  <2>1. pc \in Configuring /\ Idle BY DEF SelectionInit
  <2>2. pc \notin Selecting /\ pc \notin {"select", "scheduled", "ready"}
    BY <2>1 DEF Configuring, Selecting
  <2>3. /\ chosen = <<>> /\ prev = <<>> /\ at = 1 /\ tags = {}
        /\ refused = FALSE /\ today = Today
    BY <2>1 DEF Idle
  <2>4. <<>> \in Seq(Registry) /\ Len(<<>>) = 0 OBVIOUS
  <2>5. chosen \in Seq(Registry) /\ Len(chosen) < at /\ prev \in Seq(Registry)
    BY <2>3, <2>4
  <2>6. /\ \A f \in tags : f = Field(f.scope, f.tag, f.others)
        /\ refused \in BOOLEAN
    BY <2>3
  <2>7. today \in Nat BY <2>3, RegistryAssumption
  <2>8. SelectionTypeOK BY <2>1, <2>2, <2>5, <2>6, <2>7 DEF SelectionTypeOK
  <2>9. Aligned /\ Passed /\ Judged BY <2>2 DEF Aligned, Passed, Judged
  <2> QED BY <2>8, <2>9 DEF SelectionInductive
<1> QED BY <1>1, SelectionStep, PTL DEF SelectionSpec

\* A job runs with one component per entry of its definition, each of which
\* has what the entry and the fallback ask, and a fallback with another
\* component than the job that failed.
THEOREM SelectedFitsCorrect == SelectionSpec => []SelectedFits
<1>1. SelectionInductive => SelectedFits
  <2> SUFFICES ASSUME SelectionInductive, pc = "scheduled"
               PROVE  /\ Len(chosen) = Len(Entries)
                      /\ \A i \in DOMAIN chosen :
                           Fits(chosen[i], Entries[i], tags)
                      /\ prev # <<>> => ~(Range(chosen) \subseteq Range(prev))
    BY DEF SelectedFits
  <2>1. /\ Len(chosen) = Len(Entries) /\ at = Len(Entries) + 1
        /\ prev # <<>> => Different
    BY DEF SelectionInductive, Judged, Complete
  <2>2. chosen \in Seq(Registry) BY DEF SelectionInductive, SelectionTypeOK
  <2>3. Len(chosen) = at - 1 BY <2>1, <2>2
  <2>4. \A i \in DOMAIN chosen : Fits(chosen[i], Entries[i], tags)
    BY <2>3 DEF SelectionInductive, Aligned, Selecting
  <2>5. Different => ~(Range(chosen) \subseteq Range(prev))
    BY DEF Different, Range
  <2> QED BY <2>1, <2>4, <2>5
<1> QED BY <1>1, SelectionInductiveCorrect, PTL

\* A component with a priority tag is never passed over for one with tags of
\* lower priority only, unless the server has refused a call.
THEOREM PriorityKeptCorrect == SelectionSpec => []PriorityKept
<1>1. SelectionInductive => PriorityKept
  <2> SUFFICES ASSUME SelectionInductive, pc = "scheduled", ~refused
               PROVE  \A i \in DOMAIN chosen :
                        Preferred(chosen[i], Entries[i], today)
    BY DEF PriorityKept
  <2>1. Len(chosen) = Len(Entries) /\ at = Len(Entries) + 1
    BY DEF SelectionInductive, Judged, Complete
  <2>2. chosen \in Seq(Registry) BY DEF SelectionInductive, SelectionTypeOK
  <2>3. Len(chosen) = at - 1 BY <2>1, <2>2
  <2> QED BY <2>3 DEF SelectionInductive, Aligned, Selecting
<1> QED BY <1>1, SelectionInductiveCorrect, PTL
=============================================================================
