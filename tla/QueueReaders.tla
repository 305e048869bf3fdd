---------------------------- MODULE QueueReaders ----------------------------
(***************************************************************************)
(* The commands that look at a queue while it is used: list, search and    *)
(* searchdir.  They take the lock to read .seq and no lock to read the     *)
(* files, most of which are first seen to exist and then opened.           *)
(***************************************************************************)
EXTENDS DciQueue, Functions

CONSTANT Questions \* invocations: the tool, the pool and, for the searches,
                   \* the command looked for

ASSUME QuestionsAssumption ==
  /\ \A q \in Questions : /\ q.tool \in {"list", "search", "searchdir"}
                          /\ q.pool \in Pools
  /\ None \notin Questions

VARIABLES
  asked,   \* the invocation, None before
  section, \* where the command is; FileNotFoundError ends it in "failed"
  window,  \* first and next of .seq when the command looked at it; for the
           \* properties, they are there for searchdir too, that does not,
           \* and so are the jobs that were wanted at that moment
  todo,    \* the files the current loop has still to look at
  open,    \* the file that has been seen to exist, or None
  pri,     \* what get_pri has returned so far
  told     \* what has been printed: the section, the id, what the file held

progress == <<section, todo, open>>
readerVars == <<asked, progress, window, pri, told>>

-----------------------------------------------------------------------------
File(dir, i) == [dir |-> dir, id |-> i]

\* What queue/<p>/<i> or queue/<p>/<i>.exec holds.
Content(f) ==
  LET c == <<asked.pool, f.id>>
  IN IF f.dir = "queue" THEN queue[c]
     ELSE IF exec[c] = None THEN None ELSE exec[c].sub

Listing(dirs) ==
  {f \in {File(d, i) : d \in dirs, i \in Ids} : Content(f) # None}

Held(dir) == {i \in Ids : Content(File(dir, i)) # None}

Wanted(sub) == sub.cmd = asked.cmd

\* No file of job i is of the command that is looked for.
Unwanted(i) ==
  \A dir \in {"queue", "exec"} : i \in Held(dir) => ~Wanted(Content(File(dir, i)))

\* listdir has no order.
Orders(S) == Bijection(1..Cardinality(S), S)

\* range(first, next).
Inside(i) == window.first <= i /\ i < window.next

InWindow(dir) == [n \in 1..(window.next - window.first) |->
                    File(dir, window.first + n - 1)]

\* sorted() with get_pri as key, reversed: it is stable.
Sooner(i, j) == pri[i] > pri[j] \/ (pri[i] = pri[j] /\ i < j)

ByPriority ==
  {s \in Orders({File("queue", i) : i \in {k \in Ids : Inside(k)}}) :
     \A m, n \in DOMAIN s : m < n => Sooner(s[m].id, s[n].id)}

\* Mutant of FirstLook: the .exec file before the queued one.
FirstLookExec == "exec"

\* Of the two files of an id, the one search looks for first.
FirstLook == "queue"
SecondLook == CHOOSE dir \in {"queue", "exec"} : dir # FirstLook

\* Mutant of After: list prints what is queued before what is executed.
AfterQueuedFirst(s) ==
  IF s = "start" THEN IF asked.tool = "list" THEN "priority" ELSE "search"
  ELSE [exec |-> "done", priority |-> "queued", queued |-> "exec",
        search |-> "done", searchdir |-> "done"][s]

\* The loops of list, in their order, and the one of each search.
After(s) ==
  IF s = "start" THEN IF asked.tool = "list" THEN "exec" ELSE "search"
  ELSE [exec |-> "priority", priority |-> "queued", queued |-> "done",
        search |-> "done", searchdir |-> "done"][s]

\* The files of a loop.
Files(s) ==
  CASE s = "exec"      -> Orders(Listing({"exec"}))
    [] s = "priority"  -> {InWindow("queue")}
    [] s = "queued"    -> ByPriority
    [] s = "search"    -> {InWindow(FirstLook)}
    [] s = "searchdir" -> Orders(Listing({"queue", "exec"}))
    [] s = "done"      -> {<<>>}

Enter(s) == section' = s /\ todo' \in Files(s) /\ open' = None
Stay(files) == section' = section /\ todo' = files /\ open' = None

Seen == [first |-> first[asked.pool], next |-> next[asked.pool],
         wanted |-> {i \in Ids : i < next[asked.pool] /\ ~Unwanted(i)}]

-----------------------------------------------------------------------------
\* The command is started.
Ask(q) ==
  /\ asked = None
  /\ asked' = q
  /\ section' = IF q.tool = "searchdir" THEN "dir" ELSE "seq"
  /\ UNCHANGED <<todo, open, window, pri, told, vars>>

\* lib.get_seq, under the lock.
GetSeq ==
  /\ section = "seq" /\ section' = "start"
  /\ lock[asked.pool] = None
  /\ window' = Seen
  /\ UNCHANGED <<asked, todo, open, pri, told, vars>>

ListDir ==
  /\ section = "dir" /\ Enter("searchdir")
  /\ window' = Seen
  /\ UNCHANGED <<asked, pri, told, vars>>

NextSection ==
  /\ section \in {"start", "exec", "priority", "queued", "search", "searchdir"}
  /\ todo = <<>> /\ Enter(After(section))
  /\ UNCHANGED <<asked, window, pri, told, vars>>

\* os.path.exists; search then looks at the other file of the id.
Look ==
  /\ section # "searchdir" /\ todo # <<>> /\ open = None
  /\ LET f == Head(todo)
     IN IF Content(f) # None
        THEN open' = f /\ UNCHANGED <<section, todo>>
        ELSE Stay(IF section = "search" /\ f.dir = FirstLook
                  THEN <<File(SecondLook, f.id)>> \o Tail(todo)
                  ELSE Tail(todo))
  /\ UNCHANGED <<asked, window, pri, told, vars>>

\* The file that is opened next: searchdir does not look before.
Opened == IF section = "searchdir" THEN Head(todo) ELSE open
Opening == todo # <<>> /\ (section = "searchdir" \/ open # None)

Gone ==
  /\ Opening /\ Content(Opened) = None
  /\ section' = "failed" /\ todo' = <<>> /\ open' = None
  /\ UNCHANGED <<asked, window, pri, told, vars>>

Read(s) == section = s /\ Opening /\ Content(Opened) # None
Tell == told' = Append(told, [section |-> section, id |-> Opened.id,
                               sub |-> Content(Opened)])

GetPriority ==
  /\ Read("priority")
  /\ pri' = [pri EXCEPT ![Opened.id] = Content(Opened).priority]
  /\ Stay(Tail(todo))
  /\ UNCHANGED <<asked, window, told, vars>>

Display ==
  /\ Read("exec") \/ Read("queued")
  /\ Tell /\ Stay(Tail(todo))
  /\ UNCHANGED <<asked, window, pri, vars>>

\* search prints every id of the command, searchdir the first one found.
Compare ==
  /\ Read("search") \/ Read("searchdir")
  /\ IF Wanted(Content(Opened))
     THEN /\ Tell
          /\ IF section = "search" THEN Stay(Tail(todo)) ELSE Enter("done")
     ELSE Stay(Tail(todo)) /\ UNCHANGED told
  /\ UNCHANGED <<asked, window, pri, vars>>

-----------------------------------------------------------------------------
ReadersInit ==
  /\ Init
  /\ asked = None /\ section = "" /\ todo = <<>> /\ open = None
  /\ window = [first |-> 1, next |-> 1, wanted |-> {}]
  /\ pri = [i \in Ids |-> 0] /\ told = <<>>

ReaderStep ==
  \/ \E q \in Questions : Ask(q)
  \/ GetSeq \/ ListDir \/ NextSection \/ Look \/ Gone
  \/ GetPriority \/ Display \/ Compare

ReadersNext == ReaderStep \/ (Next /\ UNCHANGED readerVars)

ReadersSpec == ReadersInit /\ [][ReadersNext]_<<readerVars, vars>>

-----------------------------------------------------------------------------
(* Properties.                                                             *)

Answered(tools) == section = "done" /\ asked.tool \in tools
Shown(s) == {told[n].id : n \in {m \in DOMAIN told : told[m].section = s}}

\* Whatever starts, ends or is unscheduled while list reads: no job is printed
\* twice, every job that is still queued at the end is printed, so is every
\* one that was executed before the window and still is, and the queued ones
\* come in the order in which the runners take them.
ListingTrue ==
  Answered({"list"}) =>
    /\ \A m, n \in DOMAIN told : told[m].id = told[n].id => m = n
    /\ \A i \in Held("queue") : Inside(i) => i \in Shown("queued")
    /\ \A i \in Held("exec") : i < window.first => i \in Shown("exec")
    /\ \A m, n \in DOMAIN told :
         m < n /\ told[m].section = "queued" /\ told[n].section = "queued" =>
           \/ told[m].sub.priority > told[n].sub.priority
           \/ /\ told[m].sub.priority = told[n].sub.priority
              /\ told[m].id < told[n].id

\* A search that ends has found every job that was of the command when it began
\* and still is, queued or consumed while it was looking, and a searchdir that
\* finds nothing has missed none: a runner that renames the file between two of
\* its accesses makes it fail, not answer wrongly.
SearchFinds ==
  /\ Answered({"search"}) =>
       \A i \in window.wanted : Inside(i) => i \in Shown("search") \/ Unwanted(i)
  /\ Answered({"searchdir"}) =>
       /\ \A n \in DOMAIN told : Wanted(told[n].sub)
       /\ told = <<>> => \A i \in window.wanted : Unwanted(i)
=============================================================================
