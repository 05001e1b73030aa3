# TLA+ models of trigger-pipeline

`tp` triggers the `Jenkinsfile` of a git repository on a Jenkins server that it
finds in a Kubernetes cluster.  It is a command line program: every command is a
sequence of remote calls (Kubernetes, Jenkins) with no transaction around them,
run next to other copies of itself, other users, the Jenkins Operator and the
executors of Jenkins.  What can go wrong lies between two calls.  The modules here
have one action per remote call, and any number of commands and users in between.

## The system

| Part | Source | State | Operations | Talks to |
|---|---|---|---|---|
| Pipeline creation | `pkg/cmd/trigger/trigger.go:183-257`, `pkg/helpers/retry.go` | the item tree of Jenkins; the loop's index, the tries | look a segment of `--jenkins-path` up, create it under `Retry`, fetch the job | Jenkins |
| Multi branch pipelines | `trigger.go:259-287` | the project, its branch jobs | look the branch up, scan, poll | Jenkins |
| Triggering | `trigger.go:135-167, 316-358` | the queue and builds of a job; the previous number | read the last build, request, poll, tail, verdict | Jenkins, selection (a second time, for the log) |
| Cancelling | `trigger.go:289-314` | the same | read the last build, stop, poll | Jenkins |
| Registry | `pkg/cmd/server/server_add.go`, `server_delete.go` | one Secret per server, with its version | get and update or create; find and delete | Kubernetes |
| Discovery and choice | `pkg/jenkinsutil/discovery.go`, `helpers.go:70-129`, `client.go`, `server_list.go`, `server_jobs.go` | Services and Secrets; what has been listed | three lists, a choice by flag, environment, uniqueness or prompt | Kubernetes, the user |
| Job listing | `helpers.go:52-68, 131-165` | the item tree | a recursive walk | Jenkins |
| Shell | `cmd/`, `pkg/cmd/cmd.go`, `pkg/common`, `factory` | options | flags, log level, clients | - |
| Fake client | `pkg/jenkinsutil/fake` | recorded calls | test double | - |

The parts interact through the servers' state and by calls: `TriggerOptions.Run`
selects a server, creates or finds the job there (a stand-alone pipeline or a
branch of a multi branch project), triggers or cancels, and with
`--tail` calls `TailJenkinsBuildLog`, which selects a server again.  `tp add` and
`tp delete` change the Secrets that discovery reads.

What makes each part correct, and what is hard about it:

* Pipeline creation: what the loop has passed exists; a command leaves nothing
  but items of its own path; concurrent commands do not all fail; requests are
  bounded.  Hard: two commands create the same folder, a creation's reply is lost,
  a lookup fails although the item is there, users delete folders meanwhile.
* Triggering: the build reported is a new one, the request behind a success is not
  lost, a new build is not missed, a verdict is on a finished build.  Jenkins
  builds no more than once for a command.  Hard: other builds start and end between
  the calls, Jenkins merges queued requests and discards old builds, builds and jobs
  are deleted, replies are lost, waits run out.
* Cancelling: only the build that was read is stopped; success means it stopped.
* Registry: adds and deletes are atomic though they are several calls; a deleted
  server does not come back, and one that was reported as added can be deleted;
  names are handled the same everywhere.
* Multi branch pipelines: a request for a scan is not lost in a scan that runs
  already, and a branch that stays gets its job.  Hard: scans are merged, run while
  branches come and go, fail, and drop jobs; the poll has five minutes.
* The command as a whole: the rest of `TriggerPipeline` works with the job the
  factory returned, though scans and users may drop it or make it anew meanwhile.
* Job listing: what stays is found, what is listed was a pipeline, and the walk ends,
  though the tree changes between its calls and a call may fail.
* Discovery: three lists see three moments; what stays is found; batch mode does
  not guess; the log comes from the build's server.

## Modules

| Module | Models | Role |
|---|---|---|
| `JenkinsTree` | the items of a Jenkins server, as the code uses it | external service |
| `StandalonePipeline` | `getOrCreateStandalonePipeline`, `helpers.Retry` | detailed |
| `MultiBranchPipeline` | `getOrCreateMultiBranchPipeline` | detailed |
| `BuildTrigger` | `TriggerPipeline`, with the factory as one step | detailed; abstract for `TriggerCommand` |
| `TriggerCommand` | `getOrCreatePipelineFactory` and `TriggerPipeline` of `--multi-branch-project` | composes `MultiBranchPipeline` and `BuildTrigger`, implements the latter |
| `AtomicRegistry` | what `tp add` and `tp delete` promise | abstract |
| `Registry` | `AddOptions.Run`, `DeleteOptions.Run` | detailed, implements `AtomicRegistry` |
| `ServerSelection` | `FindJenkinsServers`, `PickCustomJenkinsName`, `Run` of trigger, list and jobs | detailed |
| `JobListing` | `GetJenkinsJobs`, `AddJenkinsJobs`, `GetAllPipelineJobNames`, over `JenkinsTree` | detailed |
| `MC...` | instances of these for TLC | |
| `..._proof` | theorems about these for TLAPS | |

In each detailed module `pc[c]` is the remote call command `c` makes next, and one
action is that call, everything the code does with its answer, and the way to the
next call.  `Fault` is a call that fails for a reason of its own (connection, proxy,
5xx); where a call changes the server there is a disjunct in which the change was
made and the answer lost.  A command that is killed takes no further step, which
every safety property covers since no step is ever forced.

**StandalonePipeline** extends JenkinsTree.  `seg[c]` is the loop's `i` (from 1),
`tries[c]` the failures in the current `Retry`.  `LookUpItem` is `GetJobByPath` at
line 192: any item ensures the segment (a wrong class only logs a warning) and
any error leads to a creation.  `CreateItem` is the closure that `Retry` calls;
`RetryOrFail` is what `Retry` does with an error: the same creation again, without a
lookup, up to three.  `FetchJob` is line 250.  `maker`, `removed` and `sent` are
history variables.  `UserAdds` and `UserRemoves` are other people on the server.

**MultiBranchPipeline** keeps what Jenkins has at owner/repo (`project`), the
branches with a job below it, and its branch indexing: `queued` and `scanning`, and
`found`, the branches the running scan listed when it began.  A scan makes the jobs
of what it found and at its end may drop others; requests made before it begins are
one.  `owed` (history) has the commands whose branch and project have stayed since
their request.  The actions are the four calls of the code; a 404 is the branch
without a job.  `ScanProject` shows what `Build` does to an item that is no multi
branch project, which the code does not check: a pipeline is built.

**TriggerCommand** extends MultiBranchPipeline and instantiates BuildTrigger as `T`,
with "the branch has its job" for `job`.  `pc[c]` is where a command is in the
factory, `at[c]` where it is in `TriggerPipeline`; `HandOver` is the return of the
factory.  A job that a scan or a user drops takes its requests and builds with it
(`JobsChange`).  It implements `T!Spec`: a lookup or poll that finds the job is
BuildTrigger's `Prepare`, the dropping of the job `DeleteJob`, its making `CreateJob`.

**BuildTrigger** keeps one job: `queue` is the set of requests without a build
(Jenkins merges several into one build), `builds` the state of each number,
`by[n]` (history) the requests build `n` was started for.  The answer of
`GetLastBuild` is a number, 0 for a 404, as in `previousBuildNumber`.  Jenkins'
discarder of old builds (`DiscardBuild`, which never takes the last one; so may
users), deletion of the last build and of the job, other users and the executors are
the environment.  `stale` (history) has the commands whose job was deleted after they
had it, or whose last build was after they had read a number.  The code compares
numbers, and cannot tell such a deletion from a new build: the properties about builds
are about the other commands, and so about every command up to such a deletion.
`Prepare` is the factory: all that the rest of the command relies on is that the job
is there at the moment the factory returns it.

**Registry** keeps for every server its Secret: `rv` is the ResourceVersion (0: no
Secret), `author` the command whose URL and credentials it holds, `extra` what
others keep in it.  `AddGet` and `AddSave` are two calls; `Current` is the
optimistic lock of Kubernetes.  `ValidName` stands for `naming.ToValidName`: all
the code needs of it is that it is idempotent and may map two names to one.
`gone`, `failed`, `since` and `lost` are history: when a delete removed its server
(not when it found nothing to remove), which commands had a call of their own fail,
who changed the server of an add last between its Get and its save, and which adds
had their server removed after they had ended well.  The properties use them to say
who is to blame, instead of looking only at runs in which nothing fails.
`MissingOption` is every error return of `populateJenkinsService`: for a missing
option of any kind in batch mode, or a prompt for it that is interrupted.
`Promise` is the refinement mapping to AtomicRegistry: the map of servers is the
store without versions, a command is running, ok or failed, and changes no server but
one it was given or asked for (`Targets`).

**ServerSelection** has one command and a changing cluster: `cluster` is the set of
Services and Secrets about Jenkins servers, `seen` what this selection has listed,
`picked[1]` and `picked[2]` the choices for the build and for the log.  `kept` is
history: what has been there since the selection began.  A server is a name, whether
it is from the registry, the namespaces of its Service or registry Secret and of its
credentials, and where its URL leads.  A name does not identify a server:
`FindJenkinsServers` lets a registry Secret replace a discovered server of its name,
and of several Services or Secrets with one name keeps one.  So the properties compare
servers by what they were made of (`ItemsOf`, `Same`), and `Rivals` are the items that
may take a server's name from it.  In particular `tp add` under the name of a
discovered server, between the two selections of a trigger, moves the log to the added
one with nothing removed: `TailMovesOnlyIfReplaced` says that this and a removal are
the only ways.

**JobListing** runs one of the two walks.  `pending` has the items whose call is
still to come (the stack of the recursion, in any order), `found` the result.
`Collect` is the loop of `AddJenkinsJobs` over the jobs of one answer: a pipeline that
matches is taken, an item that is listed with its jobs is walked as it is listed,
everything else is read, and what cannot be read is passed over.  Which folders an
answer lists with their jobs is up to Jenkins: `nested` is any set of them, and
`Shown` what the answer then has.  `ReadNames`
is one call of `GetAllPipelineJobNames`, where it is an error.  `steady`, `seen`,
`asked` and `unread` are history: what has been there since the walk began, what was
ever a pipeline meanwhile, how often an item was read or walked as listed, and which
items were passed over because the call for them failed.  A path contains the filter or
not (`Matching`).

## What the runs check

| Run | Question | Bounds |
|---|---|---|
| `standalone_race` | who fails when commands and a user interfere, what is left behind, does somebody win, does every call count, do all end | 3 commands (two for a branch, which is the third one's folder), 3 segments, any initial tree, 1 fault, 1 edit |
| `build_safety` | is the reported build new and the verdict right, is a new build ever missed, is there one build for a command, does a cancel stop the right build | tail and cancel, 3 numbers of which up to 1 old, 1 fault, 2 deletions, 1 other request, timeouts |
| `multibranch_scan` | is a request for a scan lost, does a branch that stays get its job | 2 commands with a branch each, any initial project, 1 fault, 2 edits, timeouts that need not come |
| `command_ends` | does the composition keep to `BuildTrigger`, does every wait end | tail and cancel of one branch, 2 numbers, 1 fault, 1 edit, 1 deletion, timeouts |
| `command_served` | is a new job or a new build ever missed | 2 triggers of one branch, 3 numbers, 1 other request |
| `registry_race` | are adds and deletes atomic, who wins, can a deleted server come back, can an added one be deleted | 2 adds (one with the wizard), 2 deletes (one by a picked name) on two servers, 1 fault, 1 edit |
| `selection_steady` | what do three lists at three moments find | 2 names that servers share, 2 namespaces, 6 Services and Secrets, all options, 1 fault, 2 edits |
| `jobs_listing` | what does a walk of a changing tree find, what does one failed call cost it | 5 paths of up to 3 segments, any initial tree, either walk, answers with any folders nested, 1 fault, 2 edits |

The races in the code are between two commands, or a command and a user, and
between two adjacent calls; two actors of each kind and one change between each
pair of calls produce every order of them.  A third command is there where a
property speaks of a winner who may himself have lost elsewhere (`standalone_race`);
two that ask for builds of one job at once are in `command_served`.  Two edits are what it takes to replace a server
by another between two lists, or an item between two reads; two deletions, to make
one before a command has read a number and one after.  Three build numbers let
the last build be old or new, and new and overtaken; the theorems hold for any
number.  The initial
states are all the trees, build lists and stores an earlier history may leave.

Four runs show what the documentation, comments, messages or tests
say and the code does not do; each is a finding in `PROJECT.json`:

* `standalone_giveup`: `Retry` calls the creation again, not the lookup, so the
  loser of a creation, or a command whose lookup failed once, gives up after three
  refusals on a folder that is there (`trigger.go:197` "lets ensure there's a folder").
* `build_verdict`: an error of the second selection is dropped, and the verdict is
  on a build that is still running (`helpers.go:170`, `trigger.go:75`).
* `registry_delete`: add normalises the name, delete does not (`server_list_test.go:49`).
* `selection_url`: `tp trigger` replaces the current namespace by an empty option
  (`trigger.go:94`), and the in-cluster URL of a Service found in another namespace
  then leads to the current one (`client.go:96`, `server.go:17`).

Other divergences the modelled definitions make plain, without a run of their own:
a deletion by a user of the last build or of the job, while a command waits for a new
build, ends that wait in success (`trigger.go:334`; so `NewBuildReported` leaves out
the commands in whose middle there is one); a 404 of the request is passed over, and
the wait goes on for a build nobody asked for (`trigger.go:330`); the poll
of `--cancel` follows whichever build is last (`trigger.go:302`; so
`CancelOkMeansStoppedOrNewer` allows for a newer one); a pipeline at owner/repo is
built when it is to be scanned (`trigger.go:270`); `GetAllPipelineJobNames` also names
folders with nothing in them (`helpers.go:52`);
the last segment of `--jenkins-path` is the pipeline, not a folder to create it
inside (`trigger.go:72`); the build reported may be another command's
(`trigger.go:346`); two names that `ToValidName` maps to one are one server
(`server_add.go:105`); the environment variable counts only in batch mode
(`README.md:43`); without `--namespace` a trigger searches all namespaces, not the
current one (`README.md:24`); outside batch mode the second selection, for the log,
asks the user again (`helpers.go:169`).

## Fairness

Safety properties use none, nor does `BuildTrigger`, whose liveness is that of
`TriggerCommand`.  `StandalonePipeline`, `MultiBranchPipeline`, `TriggerCommand` and
`JobListing` state weak fairness of each command's own steps: a process that is not
killed goes on, and the calls of its clients return.  Weak fairness of the time limits
(`gojenkins.Poll` has five minutes, `TailLog` a hundred hours) is stated in
`TriggerCommand` only, where `MayTimeOut`: whether every wait ends is its question.  In
`MultiBranchPipeline` a poll may run out of time or not, so that `SteadyBranchFound`
is about the poll noticing the job and not about the limit.  That calls return is an assumption: `JenkinsServer.CreateClient` sets no HTTP
timeout (`server.go:31`).  `command_ends` assumes nothing else, and so shows that
every command ends though Jenkins may do nothing.  `multibranch_scan` adds that
Jenkins works its queue of scans off (`ServedSpec`), `command_served` that it starts
queued builds too (`ServedCommandSpec`), with no timeout, fault or deletion: without
these a trigger rightly ends in an error.  `Registry` and `ServerSelection` state no
fairness and no liveness: their commands have no loop.

## Proofs

All theorems hold for every set of commands, names, paths and items and every
bound; they assume only the named assumptions on the constants.

* `StandalonePipeline_proof`: `TypeOK`, `RequestsBounded`, `SegmentsEnsured`,
  `OwnFootprint`, `LoserHasWinner`, `SomeoneSucceeds`, and of steps `EveryCallCounts`.
  `RequestsBounded` needs `LoopIndex` and `RequestsCounted`, which counts the tries of the current segment.  `LoserHasWinner`
  needs `QuietInv`: without faults and users, what a command made it has gone past,
  and a refused creation means that the item is there.  `SomeoneSucceeds` follows for a
  finite set of commands that is not empty (`CommandsAssumption`): one is furthest
  down its path, and the winner of whoever lost is further down.  `EveryCallCounts`
  is what can be proved of `EveryCommandEnds`: `CallsLeft`, the calls a command has
  still to make at most, gets less with each of them, so that nothing but a call that
  does not return can keep the command from its end.
* `BuildTrigger_proof`: `TypeOK` and all safety properties of `build_safety`.  Most come
  from `OrderInv`: for a command that is not `stale` its job is there from the factory
  on, the numbers it has read were given out and of such a build this one or a later
  one is still there (`Begun`: the discarder takes old builds, and never the last),
  and once it polls its request is queued or started (`AskedKept`).  The number before the request is then never ahead of the
  builds, and the first poll that differs from it shows a later one.  `WaitsOnlyWhileQueued` adds `StartedStays`: of a build that was
  started for a request this one or a later one is still there, so that the next poll
  cannot answer the number before the request.  `OneBuildPerCommand` holds whatever
  is deleted; it needs `NotYetAsked`: a command that has still to make its request is
  in no queue and no build, so that a lost reply, which ends the command, cannot lead
  to a second one.  So does `OnlyTargetsStop`, which is about numbers.
* `MultiBranchPipeline_proof`: `TypeOK` and `ScanNotLost`, which is inductive as it
  stands.
* `TriggerCommand_proof`: `ImplementsBuildTrigger`, step by step under the mapping,
  from `HandedOver` (a command is in the factory until that returns).  With it the
  theorems of `BuildTrigger_proof`, instantiated, give the same promises for the
  whole command (`CommandKeepsPromises`).
* `JenkinsTree_proof`: prefixes of paths, and that additions and removals keep a tree
  well formed; used by
* `JobListing_proof`: `TypeOK`, `ReadOnce`, `SteadyPipelinesFound`,
  `ListedWerePipelines`.  `ReadOnce` needs `ReadInv`: whatever an item that has been
  reached is in has been read or walked as listed (`ReachedFromAbove`), so nothing in a
  pending item has been reached, and no answer about it shows anything twice.
  `SteadyPipelinesFound` needs `WalkInv`: the way down to a pipeline that stays
  never leaves what is pending, since all it is in are folders that stay too: an answer
  shows the pipeline itself, or the uppermost of these folders that it lists without
  its jobs.  Only a failed call for one of these loses it (`PassedOver`).
* `Registry_proof`: `TypeOK`, the refinement of `AtomicRegistry` (`KeepsPromise`) and
  `NoResurrection`.  Both need that the copy an add holds still has the stored extra
  data when versions are equal (`CopyIsCurrent`), and that versions only grow
  (`Versions`, `GoneBefore`).  Faults and lost replies are part of it.  `OneCreator`
  follows from `SavedOver`: what an add saved is newer than what it had read, until
  somebody removes it.  `ConflictHasWinner` follows from `OvertakenByWinner`: a copy
  that is out of date is so because, since it was read, its server was changed by other
  users or by a command that got through, with or without its answer; changes before
  the Get, and a delete that found nothing, excuse nothing.  `AddedCanBeDeleted`, of
  steps, follows from `SavedOver` and from `NamedAsGiven`, which ties the name given to
  the server worked on: a server is there from the moment its add is reported until
  somebody removes it, and so in the list of every delete.
* `ServerSelection_proof`: `SteadyServersFound`, `BatchNeverGuesses`,
  `TailMovesOnlyIfReplaced`, from `SelectionInv`: what was kept has been listed, the
  first server is made of items in the namespace the second selection lists too, and
  has the name that was asked for.  They rest on two lemmas: more items never hide a
  name (`NamesAreMonotone`), and a server all of whose items were listed, and none of
  its rivals, is the only one of its name (`Unrivalled`).

Every invariant and every action property of a passing run is proved.  Only
model-checked: the liveness properties (`EveryCommandEnds`, `SteadyBranchBuilt`,
`SteadyBranchFound`, `OwedJobComes`, `WalkEnds`), since leading an eventuality back to
weak fairness needs ENABLED and induction over a measure, both beyond the prover.
What is proved of them is the part about steps: `EveryCallCounts` for the commands of
`StandalonePipeline`, `ReadOnce` for `WalkEnds` (each of finitely many items is read
at most once), `ScanNotLost` for `OwedJobComes`,
`WaitsOnlyWhileQueued` for `SteadyBranchBuilt`.

The operators named as faulty variants (`RetryOnceMore`, `ReadNumberToCome`,
`LastWriteWins`, ...) are not part of any specification: each is a plausible mistake
in the definition after it, with which a property of a run fails.

## Not modelled

* Which keys of a Secret hold the credentials (`PopulateAuth`), labels other than
  names, and the selection of Services by port: `ServerSelection` takes a server's
  Service and Secrets as items with a kind, a namespace and a name.
* The composition of the stand-alone pipeline with `BuildTrigger`: the item
  `getOrCreateStandalonePipeline` returns may be of any class, and several commands
  work on several paths; both parts are modelled, the job between them is
  `BuildTrigger`'s `Prepare`.
* The fake Jenkins client: a test double that records calls, finds what was created
  by comparing prefixes of its path and panics on most of the rest.
* The contents of pipelines and folders (XML), URLs, log output, tables: no property
  is about them.
* `GetJenkinsJobName`, `GetBranchName`, `ClientFactory.CreateJenkinsClient` and
  `JenkinsURL`: no caller in the repository.  Flags, log levels and `main`: no state.

## Plan

Done, in this order: `StandalonePipeline` over `JenkinsTree`, `BuildTrigger`,
`Registry` with its abstract specification, `ServerSelection`, and their proofs;
`MultiBranchPipeline`, its composition with `BuildTrigger` in `TriggerCommand`, and
`JobListing`, and theirs.

Next:

1. The keys of a Secret in `Registry` and in discovery: what `PopulateAuth` reads
   after `tp add` wrote.
2. Selection in front of `TriggerCommand`: one command from `FindJenkinsServers` to
   the log, over a cluster with several servers.
