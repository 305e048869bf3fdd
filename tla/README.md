# A TLA+ model of dci-pipeline

The repository holds two programs that matter here and a set of tools around
them.  **dci-queue** keeps queues of commands for pools of resources (clusters,
inventories) in a directory tree and runs them; **dci-pipeline** runs the jobs
of a pipeline of stages against a DCI control server.  People queue
`dci-pipeline` commands with `dci-queue`, which gives each of them a resource.

This directory models them in TLA+, checks the models with TLC on small
instances, and proves the most important invariants with TLAPS for every value
of the constants.  `PROJECT.json` lists the runs, the mutants, the source lines
behind every definition, the hazards and the theorems.

## 1. Inventory

### dci-queue (`src/dciqueue`)

State: a directory tree, nothing else.  There is no daemon; every command is a
short-lived process.

| path | meaning |
|------|---------|
| `pool/<p>/<res>` | the resources of pool `p` |
| `available/<p>/<res>` | symlink: nobody uses the resource |
| `reason/<p>/<res>` | why it was taken out of the pool |
| `queue/<p>/.seq`, `.seq.lck` | `{first, next}`, the window of ids; an advisory lock |
| `queue/<p>/<i>` | a queued submission |
| `queue/<p>/<i>.exec` | a submission a runner has consumed |

| component | operations | what makes it correct |
|-----------|------------|-----------------------|
| the queue (`lib.py`, `schedule_cmd.py`, `unschedule_cmd.py`) | lock, read and write `.seq`; refuse duplicates; write the queue file; `-b` runs the queue and waits; unschedule a queued or a running job | ids are never reused, a submission is never overwritten, lost outside of the window, or served before a better one |
| the runner (`run_cmd.py`) | peek, check extra pools, book, consume, book extras, start, wait, free | a resource is in one place, a command has all it asked for and runs under its own id, everything booked comes back, the loop ends |
| `remove_resource_cmd.py` | take a resource out of its pool | it is not offered again |
| `add_resource_cmd.py`, `clean_cmd.py`, crontab | put a resource (back) in the pool; after a reboot sweep `.exec` files | what a dead command held comes back, once |
| `list_cmd.py`, `search_cmd.py`, `searchdir_cmd.py` | read the window under the lock, then the files without it | what is printed is true of a queue that moves meanwhile |
| `add_pool`, `remove_pool`, `add/remove_crontab`, `log`, `dci-job`, `install` | life of a pool; show a log | not modelled (section 7) |

Hard behaviour: cron starts `dci-queue run p` every minute and a run lasts as
long as its commands, so several runners of a pool, a few `schedule`,
`unschedule` and maintenance commands interleave at the granularity of one
system call; only three short sections hold the lock; a process may be killed
anywhere and the host may reboot.

### dci-pipeline (`src/dcipipeline`)

State: the job definitions of the pipeline and the `job_info` of those that
have run, in memory; jobs, their states and the pipeline on the control server.

| component | operations | what makes it correct |
|-----------|------------|-----------------------|
| `main.py`: `main`, `run_stage`, `schedule_job`, `run_jobdef`, `set_job_to_final_state`, `dci` | stages in order; per job: find the previous job, create the job, run the playbooks, fall back on other components, put the job in a final state; signals; retry of 5xx answers | no job is left without a final state, a stage starts only after the previous one has succeeded, the exit code tells the truth |
| `main.py`: `process_args`, `get_config`, `overload_dicts` | read the command line, load the files, merge the definitions of a job, apply the settings | the files of a job make one definition, the last setting wins and undoes nothing else |
| `main.py`: `get_components`, `generate_query` | ask the components of a job one by one, by query or by priority tags; again with the fallback tags | a job has one component per entry, with the version and tags asked; a fallback runs something else |
| `main.py`: `create_inputs`, `add_outputs_paths`, `compute_tags`, `set_success_tag`, `upload_junit_files_from_dir` | files from job to job, tags of jobs and components, test results | an input comes from the last job that has it and lands in the workspace of its own job; a success tag marks components of jobs that succeeded; no result is lost |
| `rebuild_pipeline.py`, `pipeline_utils.py` | write a pipeline file from the jobs of a pipeline | the rebuilt pipeline runs with the components of the original, whatever has been published since |
| `diff_pipeline.py`, `pipeline_utils.py` | compare the components of two pipelines of the same structure | a line where they differ, and nowhere else |
| `dciagent/main.py` | settings files of agents to one pipeline file, given to `dci-pipeline` | a job per file, with the components its queries ask for, chained to the stage before it |
| `auto.py`, `settings.py` | start one command per line of a description; read a setting | not modelled |

### Tools (`src/tools`), containers, dev-setup, packaging

Shell scripts: `dci-pipeline-check` and `test-runner` queue pipelines for a
change and send a status; the others are one-shot filters and wrappers.

## 2. Plan

1. `DciQueue`: queue and runner, the core of the system.
2. `DciQueueAdmin`: composes maintenance and reboots with `DciQueue`.
3. `DciQueueProofs`, `DciQueueLeaseProofs`, `DciQueueAdminProofs`: type
   correctness, exclusive use of resources, the window of ids, what a job is started
   on, and what of it survives maintenance and reboots.
4. `PipelineRun`, `PipelineRunProofs`: `main`, `run_stage`, the state of a job on the
   server, signals and failing calls, with their invariants.
5. `JobDefinitions`, `PipelineConfig`, `ComponentSelection`, `PipelineStart`: from the
   command line to the definitions, and from a definition to the components of its
   job; `ComponentSelectionProofs`: what a job runs with.
6. `PoolService`, `DciQueueService`, `DciQueueServiceProofs`: what a pool promises,
   and the directory tree shown to implement it.
7. `JobFiles`, `JobFilesProofs`: inputs, outputs, tags and test results, composed
   with `PipelineRun`.
8. `PipelineTools`, `AgentSettings`: pipelines that follow each other, rebuilt
   and compared, and those that settings of agents describe.
9. `QueueReaders`, `QueueReadersProofs`: the commands that read a queue in use.

All of these are done.  Left: `add-pool`, `remove-pool` and the crontab next to
runners; `dci-pipeline-check` and `test-runner` on top of `PoolService`.

## 3. The modules and the code

### DciQueue

The variables are the directory tree (`pool`, `avail`, `reason`, `first`,
`next`, `queue`, `exec`), the advisory lock of each pool (`lock`), the commands
the runners have started (`child`) and, per process, its program counter and
locals.  A process is a slot of `Procs` that runs `schedule` or `run`, and
leaves the slot when it ends.

One step is one access to the tree that another process can see.  A section
under `Seq.lock` is one step when it reads only (`Peek`), and several when it
writes (`ScheduleLock` .. `BumpNext`, `GetLock` .. `GetAdvance`): a process may
die between two of them, and `unschedule`, which takes no lock, may interleave.

| actions | code |
|---------|------|
| `ScheduleLock`, `ScheduleDuplicate`, `ScheduleUnknownPool`, `ScheduleAccepted`, `WriteQueueFile`, `BumpNext`, `BlockAgain`, `BlockReturn` | `schedule_cmd.py`, `lib.py` (`Seq`) |
| `Peek`, `ReadData`, `ReadMissing`, `CheckExtra`, `SkipJob`, `CheckDone` | `execute_command`, `peek_next_command`, `has_available_resource` |
| `BookList`, `BookTake`, `BookMissed`, `BookFailed`, `BookDone` | `book_resource` |
| `GetLock`, `GetNothing`, `GetRename`, `GetMissing`, `GetAdvance` | `get_command` |
| `RemoveBooked`, `WriteExec`, `WriteNowhere`, `Popen`, `PopenFailed`, `WritePid` | `execute_command` |
| `FreeCheck`, `FreeRemoved`, `FreeSymlink`, `FreeDone`, `DropExec`, `CommandOver`, `Reap`, `RunDone` | `free_resource(s)`, the `os.wait` loop |
| `Unschedule*`, `RemoveLink`, `RemoveResource` | `unschedule_cmd.py`, `remove_resource_cmd.py` |
| `ChildExit`, `Die` | a command ends; a process is killed |

`FreeSymlink` has the case of an existing symlink: it cannot happen in this
module (`Exclusive`), it does with maintenance.

### DciQueueAdmin

`AdminNext` adds to `Next`:

- `AddCreate` .. `AddReason`, the steps of `add-resource`: it lists the `.exec` files
  of the pool (`AddList`) and opens them one by one in any order (`AddLook`, where a
  file that has gone, or that names no resource yet, ends it); `islink` and `symlink`
  are two steps.
- `CleanList` .. `CleanDone`, the steps of `clean`.  `sweep` says where the clean of a
  pool is: `due` after a boot until the process that cron starts has listed the
  files, `on` while it looks at them one by one, `failed` when a file has gone
  (`CleanMissing`) or a link exists (`CleanExists`).
- `Reboot`: no process is left, the tree is what it was and the clean of each pool
  is due.  Nothing orders it before the runners cron starts again: they may
  start, book and end jobs before it lists, while it looks, and after.
- `WritePidFails`: the second write of the `.exec` file raises, and the `except`
  clause frees what the command, which runs, uses, and removes its file.

`mishap` is a history that no action reads.  It is `none` until one of the steps that
give away a resource which is in use or which somebody else frees; the properties say
what holds until then.  It is `shared` once a clean has taken the file of a command that
its runner had waited for and was about to remove, or `add-resource` has linked what
somebody has or a clean would give back, and `unrecorded` once a pid was not written.

### PoolService, DciQueueService

`PoolService` says what users of a pool rely on, with no file, lock or process:
a token (a resource of a pool) is free, carried by a broker or given to a
command; a job is submitted, taken, runs with exactly what its submission asks
for, ends, and its resources go back.  A broker may vanish with what it carries.
`DciQueueService` maps the tree to it: `free` is `available/`, the brokers are the
runners and carry what they have `held`, the state of a job is read from its two
files and its process.  `ImplementsService` is the specification of
`PoolService` under this mapping; each access of a runner is a step of it or a
stutter.

### QueueReaders

One `list`, `search` or `searchdir` next to the steps of `DciQueue`.  `GetSeq` is
the only section under the lock; a loop over files (`Files`) is `Look`
(`os.path.exists`) and a read (`GetPriority`, `Display`, `Compare`) per file, with
any step of the queue in between, and `Gone` is the `FileNotFoundError` of a file
that was renamed or removed after it had been seen.  `After` is the order of the
three loops of `list`: executing, priorities, queued.  What `listdir` returns may
come in any of its `Orders`; `sorted` is `ByPriority`.  `window` is what the command
has read of `.seq`; its field `wanted`, the jobs of the command at that moment, is
there for `SearchFinds` alone and no action reads it.

### PipelineRun

One process.  `jobs` is what the server holds; `info`, `failed`, `link`,
`first`, `second` are `job_info`, `failed_job_info`, `previous_job_id`,
`_job_id` and `_job_id_2`.  `pc` follows `run_stage`: `loop` (next definition
or end of the stage), `start` (previous job), `pipeline`, `create` and `get`
(`schedule_job`), `run`, `playing` and `report` (`run_jobdef`), `judge` (success,
fallback or error), `close` (`set_job_to_final_state`).  A call the server
refuses is a disjunct of its own; an exception nobody catches is `Raise`,
`PreviousIsNone` or `NoDataDir`, and ends the program.  The callback of the
playbook and the signals interleave with every step.

### JobFiles

Extends `PipelineRun` with what jobs leave for each other: the files playbooks
write, the `inputs` directory of each job, the paths put in
`ansible_extravars` of a definition (which outlive the job), the tags of jobs, the
components given the success tag, and what became of the junit files.
`ScheduledWithFiles` conjoins `Scheduled` with `create_inputs` and `compute_tags`,
`ReportWithJunit`, `InventoryFailsWithJunit` and `SucceedWithTag` likewise; the other
steps leave files alone.  The files of a run are `uploaded` or `refused` (nobody looks
at the answer, and the directory is removed), `lost` where the run has no
directory of its own to look into, and `left` by an inventory playbook that fails,
after which nothing is uploaded nor removed.  `Reporting` bounds what the callback
reports of a job.  The loop of
`create_inputs` is given by its result (`InputsDir`, `InputsPaths`): an input is
copied over an earlier one of the same base name, a variable is set by the last
input that could be copied, and what an earlier run of the definition left in its
`ansible_extravars` stays where nothing replaces it.

### JobDefinitions, PipelineConfig, ComponentSelection, PipelineStart

A definition is a function from keys to strings, lists and dictionaries; a string
is its `eq_key` and a tail that only the selection reads (`JobDefinitions`).
`PipelineConfig` is the start of `main`: one step per argument read
(`process_args`), `Load`, one step per turn of the loop that merges definitions
(`MergePrevious`), one per setting (`OverloadJobdef`, `NoSuchJobdef`,
`OverloadRaises`).
`ComponentSelection` goes on from `ready`: `Schedule` picks the definition
`run_stage` is at, and each step is one call for a component (`AskComponent`,
`AskPriority`, or the same refused) until `Scheduled` or `NotScheduled`;
`FallBack` starts again with the tags of `fallback_last_success`.  A query is the
record of the conditions its text states, `Meets` what the server makes of it; a
field of tags is its first piece, which may be for one type, and the set of the
other pieces (`Field`), for all that is asked of tags is whether they are there.

`ComponentSelection` is a machine of its own, `SelectionSpec`, in which
`Configure` stands for all of `get_config`: any definitions may come out, as long as
the selection can read them (`Selectable`).  `PipelineStart` composes the two
modules and has `get_config` in its place; `Inductive`, which the run `config` checks,
says that what it makes is `Selectable`.
`PipelineRun` takes over what the job does with them: there a selection that
fails is `ScheduleFails`.  `today` is the day of the calls: ages are counted from it
and the components created later are not published yet (`Published`).

### PipelineTools, AgentSettings

`PipelineTools` runs whole pipelines on top of `PipelineStart`: `NextJobdef`
follows `main` and `run_stage` through the stages (`RunOrder`), a job succeeds,
fails, falls back or is not scheduled, and `server` keeps, per pipeline, what
the control server does: each job with the definition saved in `data.pipeline`
and its components.  `NewDay` lets time pass and components appear.  When a
pipeline has ended, `RunAgain` starts the same command line and `Rebuild` the
file `dci-rebuild-pipeline` writes (`RebuiltFile`).  `Lines` are the lines
`dci-diff-pipeline` prints for a pair of jobs.

`AgentSettings` is `process_args` of `dci-agent-ctl`: a fold of `process_settings`
over the settings files with the two variables that carry the stages, and
`ComponentOf`, which turns a query into a component string.  Its command lines
(`Started`) are run by `PipelineTools`, so that settings are judged by the jobs
they end in.

## 4. What the runs check

Deadlock checking is off in every run: the queue is idle when nobody submits
within the bound, and the pipeline ends.

| run | instance | what it shows |
|-----|----------|---------------|
| `one_pool` | 1 pool, 2 resources, 2 processes that may die anywhere, 2 ids, 2 priorities, an unschedule | type invariant, a resource is in one place, no submission lost from the window or overwritten, ids never reused, order of priorities, `.seq` never goes back |
| `two_pools` | 2 pools, 2 processes one of which may die anywhere, 1 id per pool, a job with two extra resources, one with an unknown pool, one that throws its resource away | the inductive invariant of the proofs; the tree implements `PoolService`, so that a command has exactly what it asked for and what is given back was leased |
| `serial` | 2 pools, 1 process at a time, 2 ids, `-b` with and without `-C`, a removal | liveness: the first job of a queue is served unless a better one overtakes it, next to jobs of a negative priority too; resources come back, runs end; a command runs under its own id |
| `recovery` | 1 pool with a resource and a second to add, 1 process, 2 ids, 1 reboot, cleans by hand, add-resource, a pid that cannot be written | the inductive invariant of the proofs about maintenance (`AdminInductive`); the clean of the boot, whenever it lists, gives back the resource of every recorded command |
| `readers` | 1 pool, 2 resources, 1 process, 2 ids of 2 priorities, an unschedule; one `list`, `search` of either command or `searchdir` | what `list` prints is each job once and in order, no search misses a job |
| `pipeline` | 2 stages of 3 definitions, a fallback, a job that follows one of its stage | final states, order of stages, previous jobs, signals, exit code 2, termination; the inductive invariant of the proofs |
| `files` | 2 stages of 4 definitions that hand a kubeconfig on, a fallback with its own environment, success tags | inputs come from the last job that has them, into the right workspace; junit files sent to the server, but in the case section 6 names |
| `config` | 535 command lines: no file, one, three or four of them, at most two of 11 settings; 10 components of 3 types | the definitions are what files and settings say; first jobs and fallbacks run with the components asked, whatever calls are refused; the inductive invariant of the proofs about the selection, and that definitions are as they take them for granted (`Inductive`) |
| `tools` | 6 command lines of at most three jobs, half of them of settings of agents; 9 components, 3 of which are published between days 12 and 15; 2 pipelines | rebuilt pipelines have the components of the original where nothing fell back; the diff tells two pipelines apart; settings mean what they say |

The runs that end in a violation are disagreements between the code and what
the repository says of it; `PROJECT.json` quotes both.

| run | what happens |
|-----|--------------|
| `own_command` | two runners: the command peeked by one is run under the id of another submission (`run_cmd.py:72` and `:100`) |
| `extra_race` | the extra resource goes between check and booking: the job has left the queue and is not run (`run_cmd.py:108`) |
| `clean_race` | the clean of the boot lists after a new runner has started, and frees the resource of a command whose runner has waited for it and frees it too (`clean_cmd.py:60`) |

**Bounds.**  Two processes are enough for every race between the holder of a
stale value and the one who makes it stale; the code never relates three.
`MaxId` = 2 gives a queue with a first and a last job, a hole in the window and
two priorities; with one id per pool, `two_pools` still has two commands that
compete for the pair of resources of `E`.  `MaxLost` bounds the 5xx answers to a
creation, which only add jobs that nobody knows of.  The property that
needs an id to be given out after a crash has this in `one_pool`.  In `recovery` one
process is enough, for the clean and `add-resource` are the others: after a reboot a
new command runs, and ends, next to the file of an old one.  Two runners are in
`clean_race`, and any number of both in the proofs.  `Served` is about the first job of a queue and not about every
queued one: better jobs that keep coming starve the others, in the code as in the
model, and no bound on ids would show it.

In `config`, three files of one job are what the merge needs to go wrong (two
merges into one definition), two settings what the order of settings needs; the
values of `config` are one of each form the parser and the queries tell apart,
and three components share a version.  Settings do not rename a job or its
stage, and definitions give a list to `components`.

In `files`, the chain has an input whose file two jobs write, one of them before
a fallback, and a job that takes it from either; calls whose answer is lost
change no file, so there are none (`MaxLost` = 0), and the
callback only reports the success of the first job (`Reporting`): none of the three
properties reads a jobstate, and `pipeline` has them all.  In `tools`, two pipelines
(`MaxPipelines`) are an original and what is made of it; a component is published
on each of the days 13 to `LastDay`, one that a query would prefer, one of a
package and one that makes the age limit of a priority tag pass.  In `readers`,
one process is enough to move every file while it is read, and two jobs to
have an order, a hole and a job before the window.

**Symmetry** (`ProcSymmetry`) is used in `one_pool`, where processes are
interchangeable and no property is about liveness; the other runs do without.

**Fairness.**  A started process goes on (`SF` of its steps): one that waits for
the lock polls it every second while it is held for milliseconds, so a schedule
in which it never finds it free is not one of the system.  Cron starts a run of
every pool again and again.  A command ends and a removal is carried through
(`WF`).  In `recovery` the clean that cron starts at the boot lists some day, and one
that has listed goes on (`WF`): it waits for nothing.  Nothing is assumed of users, of kills
and of reboots.  In `PipelineRun` the program goes on (`WF(Step)`): the server
answers in the end, be it with a refusal, and playbooks end; nothing is assumed
of the callback and of signals.

## 5. What is proved

For every value of the constants that satisfies the assumptions of the modules.

**`DciQueueProofs`.**  `Typed` is `TypeOK` with `LocalsOK`: what the locals of a
process hold at each of its control points, in particular that what was read
under the lock is still in `.seq` while the lock is held.  `Exclusive` is
inductive with `Typed` and `Freeing` (what a process is about to free, it has
booked): the one step that puts a resource in the hands of a process, `BookTake`,
takes it out of `avail`, and those that move it on (`Popen`, `Reap`,
`FreeSymlink`) take it from where it was.

`IdsOK`: queued ids are in the window (`Reachable`) and
fresh (`QueuedIsFresh`), `first <= next` (`Window`), ids from `next` on are
untouched (`Untouched`), and the id a runner has consumed is below `next` and not
queued (`Consumed`).  The action properties `NeverOverwritten` and `SeqMonotone`
follow from it and from the lock.

**`DciQueueLeaseProofs`.**  What a runner does for a job, in three parts that
complete the invariant of the module.

- `InOrder` needs `Chosen`: from the scan to the renaming the lock is held, so
  nothing can be queued before the job that was picked; `unschedule` takes no lock
  but only takes jobs away.
- `FullyEquipped` needs `Equipped`: at each control point, `held` is one resource
  of the own pool and of each extra pool booked so far, counted by `book.k`.
- An `.exec` file and a command have one owner: `Owned` (two processes never
  work on the same id, and the id one works on has no command yet) and `Parents`
  (a process waits for commands of its own pool).  `NoneAssumption` (None is not a
  file) keeps "no file" apart from what a file may hold.
- `RunningRecorded`: the `.exec` file of a command that runs exists and names a
  resource the command uses.  It needs `Recording`: what a runner puts in the file is
  what it has booked first and what its command then uses.

`AloneKeepsCommand`: when a single process uses the queue and nothing is
unscheduled, a command runs under the id it was queued under.  Its invariant,
`Foreseen`, says that what was peeked is still the first of the queue when
`get_command` looks again.  The hypothesis is that of the run `serial`; with a second
runner the property is refuted by `own_command`.

**`DciQueueAdminProofs`.**  The invariants above were proved of `Next`; here the tree
is also changed by maintenance and by reboots, and the proofs take up the steps
of the two modules before.  Every step is one of the queue, a `Sweep` (resources
come and go, and only the `.exec` files of commands that have ended disappear), a
`WritePidFails` or a `Reboot`.

- Without a hypothesis, whatever is added, removed or cleaned by hand: types
  (`AdminTypeOK`), the window and the order of ids (`Reachable`, `QueuedIsFresh`,
  `SeqMonotone`, `NeverOverwritten`) and the order of priorities (`InOrder`).
- As long as every pid could be written: `Owned` and `RunningRecorded`
  (`AdminOwned`, `AdminRunningRecorded`), next to any clean.  A runner that cannot
  write one removes the `.exec` file of a command that runs.
- `AdminFullyEquipped`, under `PoolsApart` (no submission names a pool twice).
  `add-resource` breaks `Exclusive`, on which `Equipped` rested; `Asked` replaces
  it: the submission a runner has read names each pool once, so that what it takes
  cannot be something it holds.
- `AdminInductiveCorrect`, without a hypothesis.  There may be any number of reboots, of
  `add-resource` and of cleans, of the boot or by hand, which list and look next to
  the runners.  As long as `mishap` is `none`, `Exclusive` and all of the invariant of
  the queue hold, for any number of processes killed anywhere.  What a clean
  frees comes from files, so the invariant must say what files mean: the resource a
  file names is used by the command, booked by the runner that has waited for it
  (`Returning`), or nobody's when the command is over and no runner is about to remove
  its file (`Lost`, `Lasting`); no two files left behind name the same one; and what a
  clean is about to free nobody has and no such file names any more (`Sweeping`).
  Nothing is said of when a clean has listed: a file is looked at when it is
  taken.  The condition is needed: after a clean has snatched a file from a
  runner (run `clean_race`), an `add-resource` of a booked resource, or the loss of a
  pid, a resource may have two users (section 6).

**`DciQueueServiceProofs`.**  `ServiceImplemented`: every behaviour of `DciQueue` is
one of `PoolService` under the mapping of `DciQueueService`.  A lemma per action
of the abstract specification says when a step of the tree is that action; the
others are grouped by what they leave alone (`SameLeases`, `SameJobs`) and are
stutters.  Taking a job is a step of the service only because the id is `Owned`,
running it because it is `Equipped`.

**`QueueReadersProofs`.**  `ReadersImplementQueue`: the readers only read, so all of
the above holds next to them.  `ListingTrue` and `SearchFinds` hold without a
hypothesis.

- Of the queue they need, beyond its own invariant, `Launched` (until the pid is
  in it, nobody removes the `.exec` file of a command that has started, so that a
  job without files never has one again) and `Recorded` (what `WriteExec` has put
  there is what its runner goes on with).  `Capped` bounds `next` by `MaxId`.
- `WindowTrue`: `window` is behind `.seq`, so that what was outside of it before can
  only have been submitted since.
- `Listed`: what is left to read (`todo`) and what was printed are of different
  jobs and in order; a job that is still queued is ahead or printed (`QueuedSeen`),
  for it was in the window all along; so is one that was executed before it
  (`ExecSeen`).
- `Searched`: a wanted job is ahead, or printed, or has been left for good
  (`Left`).  A job that is not wanted any more may not become so again, and this is
  the point of the proof: launching may put another command in the file of a job
  (`own_command`), but the renaming keeps the command and `WriteExec` changes it at
  most once, so a file that was read before cannot come back.

**`PipelineRunProofs`.**  `Typed` adds to `TypeOK` what the locals point at.
`AllClosed` rests on `Unclosed`: a job whose state is not final is `first`,
`second` or refused, and both are 0 whenever the program is between two
definitions.  `StagesSucceeded` rests on `Progress` (as long as no error has been
counted, every definition behind the current one has won) and `Undecided` (so
that a success is never taken back).  `SignalStops` needs `Late`: in a stage that
began after the signal the first definition fails, whichever it is.
`ErrorIsTrue` rests on `Told`: what `update_job_info` has seen in error stays so.

`PipelineInductive` is the whole invariant of the
module.  `PreviousIsLast` is proved under `Ordered`: the stages are contiguous and
no definition is named like another stage, so that definitions run once each and
in the order of the pipeline (elsewhere "the last jobdef that has been run" is
another one, see below).  It rests on `Turn` (whose turn it is and who has had
one), `Lasts` (jobs come in the order of their definitions, and `job_info` is the
last), `Winners` (what is behind the current definition has won), `Newest` and
`Linked`, what `previous_job_id` is until the job is created.

**`JobFilesProofs`.**  `FilesImplementRun`: what is proved of `PipelineRun` holds with
files.  `JunitKept` rests on `Untouched` and `OwnJunitDir`: the directory that has
been of an earlier run is only that of a fallback; that a job whose results were left
behind is no success, on `Undecided`.  `InputsFromLast` rests on
the order of the pipeline (`Ordered`); that an input some definition offers has one
last provider is a least-element argument, from the library theorem on
well-founded relations.  `OwnWorkspace` adds `NamesApart`, without which an
input may be replaced by another (see below); its invariants are `Rebindable` (what
an earlier run left in the variables will be set again) and `Workspace`.

**`ComponentSelectionProofs`.**  `SelectedFits` and `PriorityKept` of `SelectionSpec`,
for every registry, every `Selectable` definition and calls refused at any moment.

- `SelectedFits` rests on `Aligned`: as long as no component is missing, the i-th
  one found is for the i-th entry.  A component that is not found breaks it for
  good, and `Judged` says that such a job does not run.
- That the answer of the server suits the entry: `ExtractKeeps` follows every tag of
  the query and of the fallback through `extract_build_tags`, the types and the
  comma-separated pieces, and `AtLeastGood` says that a build tag taken from those as
  good as the best is as good as each.  That there is a newest component (`Newest`,
  `LastCreated`) is a greatest-element argument on a finite set, from the
  library theorem on well-founded relations.
- `PriorityKept` needs `Passed`: what was asked before the current priority tag has no
  component of the age asked, if no call was refused.

The theorems are about one pipeline, in which the day does not change; what
happens as days pass (`NewDay`) is only in `PipelineTools`, whose properties TLC checks.

The strengthenings of the queue and of the pipeline are in the conjunction
`Inductive` of their module, which TLC checks in `two_pools` and `pipeline`,
those of maintenance in `AdminInductive`, checked in `recovery`, and those
of the selection in `Inductive` of `PipelineStart`, checked in `config`.

**Only model-checked:** the liveness properties (`Served`, `Returned`, `RunsEnd`,
`RecordedRecovered`, `Terminates`), out of the reach of the prover;
the properties of `PipelineConfig` (`BlocksMerged`, `LastSettingWins`,
`NothingForgotten`), whose definitions recurse over data, and with them those of the
modules that build on it: `RunsAsAsked`, `RebuiltPins`, `DiffTells`, `SettingsMeant`.

## 6. Known divergences without a run

Seen in the models or while writing them, next to those that the runs of section 4
that end in a violation show.  The properties say where they step
aside for one of these.

dci-queue:

- When the job that was peeked has been consumed by another runner,
  `get_command` may return nothing: `open(None, "w")` raises with the resource
  booked, and nobody gives it back (`run_cmd.py:129`).  `Returned` is therefore
  checked with one process at a time.
- `clean` gives back `data["resource"]` and not the extra resources in
  `data["booked"]` (`clean_cmd.py:61`): they stay unavailable after a reboot.
  `RecordedRecovered` is about the former.
- A job whose extra pool is empty stops the whole run: jobs of lower priority
  are not looked at (`run_cmd.py:67`).  `Served` therefore excludes pools that
  have lost all their resources.
- Without `-C`, the loop at `run_cmd.py:153` reuses `idx` and `RET_CODE` is
  indexed by the number of resources: `schedule -b` may return another code.
- `remove-resource` between the test and the symlink of `free_resource`
  (`run_cmd.py:237`) leaves a resource available that is in no pool.
- A negative priority is never served (`run_cmd.py:258`).  `Served` is about the jobs of
  the others, and `serial` queues one of a negative priority next to them.
- A pid that cannot be written to the `.exec` file frees the resources of a command that
  runs, and frees them again when it ends (`run_cmd.py:178`): what `AdminInductive` and
  the theorems say of leases ends there.
- `clean` ignores a `.exec` file without a pid (`clean_cmd.py:50`): the resource of a
  job that died before its pid was written is not given back.
- `add-resource` of a resource lent to a job of another pool makes it available
  while in use (`add_resource_cmd.py:54`): it only looks at its own pool.  So does one
  that lists the files after a runner has booked the resource and before it has
  renamed the job; one that opens a file without a resource dies of a `KeyError`.
- After that, a job whose submission names the extra pool twice may book the
  same resource twice: with `add-resource`, `FullyEquipped` is therefore proved for
  submissions that name no pool twice (`PoolsApart`).
- The clean of the boot may list the file of a new command and find it gone, or find
  an available link, for a file it took from a runner (`clean_race`): it dies
  (`clean_cmd.py:46`, `:72`) and the files left are kept until the next boot or clean by
  hand.  `RecordedRecovered` steps aside for it (`sweep` is `failed`).
- `list` reads the `.exec` files before the queued ones: a job renamed in between is
  in neither section.  `list`, `search` and `searchdir` die of `FileNotFoundError` when
  a file goes between `listdir` or `exists` and `open` (`list_cmd.py:118`,
  `search_cmd.py:52`, `searchdir_cmd.py:46`); `dci-pipeline-check` then finds no job id
  and gives up.  `search` looks in the window only: a job that runs and is
  before the first queued one is not found.
- A search goes by what the `.exec` file holds: a job that was launched with
  another command (`own_command`) is found under that one.  `SearchFinds` is about
  the jobs that are of the command from beginning to end.
- `log` of a job that is unscheduled while it waits for the log file waits for
  ever (`log_cmd.py:58`); between the renaming of the job and the creation of its
  log it answers "No such file".

dci-pipeline:

- The environment of a definition with its own `ansible_envvars` is changed in
  place by its first run (`main.py:103`): the fallback runs with the path of a
  temporary directory that has been removed, and its junit files are lost.  The
  README promises "a new temporary directory before running the job".
- Two inputs whose files have the same base name overwrite each other
  (`main.py:1107`): `OwnWorkspace` is proved for names that are kept apart
  (`NamesApart`).  A copy that fails leaves an empty file in `inputs` and the
  variable as it was (`main.py:1099`).
- The success tag is set when the playbook returns 0, before the job is closed: a
  job whose callback never reported success is closed as a failure and its
  components keep the tag (`main.py:1271`, README "on successful jobs").  No property
  is about the tag.
- An upload of a junit file that the server refuses is not noticed, and the directory
  is removed (`main.py:130`, `:120`).  An inventory playbook that fails leaves its results
  where they are (`main.py:869`), and a fallback with an environment of its own then
  looks at none.  `JunitKept` counts the former as sent.
- A job whose input comes from a definition that could not be scheduled raises a
  `TypeError` (`main.py:1098`, `job_info` is `None`) after it has been created, and is
  left open.
- "The last jobdef that has been run" (`main.py:1203`) is the last in the order of
  the pipeline; they agree as long as a stage is contiguous.
- The fallback compares versions without the types of the components
  (`main.py:617`): when a component has the version that another one had in the
  failed job, it is refused with "No different components" although they differ.
- In a query with fields, the tags of the fallback are cut at their commas before
  those of other types are dropped (`main.py:388`): `storage?a,build:ga` also
  asks `build:ga` of `ocp?...`, and the fallback may find nothing.
- A query with fields does not ask for `state:active`, the others do.
- A setting goes to the first definition that has its name or its stage
  (`main.py:1063`); the README speaks of the name only.
- A list of dictionaries in JSON, for a key that has a list already, raises
  (`main.py:1007`); `components=type:value` makes a dictionary of the list.
- A refused call is taken for "no component" (`main.py:432`): with priority tags
  the next tag is asked.  `PriorityKept` is therefore about runs without refusal.
- A definition named like the stage of another is run once for each stage.

Tools:

- A pipeline in which a definition fell back is rebuilt with one definition per
  job, which `get_config` merges as they have the same name: one job with the
  components of both (`rebuild_pipeline.py:37`, README "will pin the components
  version to the original one").  `RebuiltPins` says nothing of the components of such
  a definition.
- `dci-rebuild-pipeline` pins the *name* of a component and `dci-pipeline` asks for a
  *version* (`pipeline_utils.py:45`, `main.py:389`): a package or a repository, whose
  name is more than its version, is not found again.  Nor is a component that is not
  active any more and that the original got from a query with fields, which does
  not ask for active ones.
- The jobs of stages that were never reached are not in the rebuilt pipeline.
- `dci-diff-pipeline` pairs jobs by position (`diff_pipeline.py:143`): two pipelines
  with a fallback of different definitions pass the test of structure and are
  compared shifted.  Of several components of one type only one is compared.
- `dci-agent-ctl`: the generated file comes first, whatever the order of the
  arguments; settings files with the same agent and no `dci_name` become one job;
  a tag with a comma in a query is cut (`dciagent/main.py:119`); `dci_components`
  does not keep `dci_components_by_query` from being translated
  (`dciagent/main.py:114`).
- `dci-settings2pipeline` writes the pipeline to its second argument
  (`dciagent/main.py:198`): with two settings files, as in the README, it
  overwrites the second one.
- `settings.get` returns `settings[settings]`, which raises (`settings.py`).

## 7. Not modelled

- `.seq`, queue and `.exec` files are written in one step; in the code a reader
  may find a truncated JSON document and dies of it.
- Two cleans of the same pool at the same time.
- Process ids are not reused; after a reboot `clean` may take another process
  for the command.
- `log` and `dci-job` (one log file that nobody rewrites), the text `list` prints.
- `add-pool`, `remove-pool`, the crontab: `Init` is what `add-pool` leaves.  To remove
  a pool that is in use makes every access of `DciQueue` fail in a way of its
  own; a pool created again counts from 1, so that an old runner that ends
  removes the `.exec` file of a new job: nothing in the code keeps users from it.
- In `PipelineConfig`: YAML, vault, credentials, `_pipeline_path_`; in
  `ComponentSelection`: `get_topic_id`, the text of queries, `%3a` and the like.
- In `PipelineRun`: the text of command lines, `previous_job_id` given as an option,
  `SIGKILL` (jobs then stay open, as after an exception).
- In `JobFiles`: the contents of files, the tags from the environment.
- In `PipelineTools`: the jobs the tools take when they are given no id, the name
  of the pipeline, the `failed_job_info` that is saved with the definition of a
  fallback.  In `AgentSettings`: paths, vault, the playbook.
- The shell tools (`dci-pipeline-check` finds the job of a change with `searchdir`,
  unschedules it, removes its directory, and queues a new one; `test-runner` removes the
  directory at its end), containers and packaging; `auto` and the
  settings, which convert text.
