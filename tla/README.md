# A verification project for dockerfile-x

dockerfile-x expands Dockerfiles that include other Dockerfiles: `INCLUDE f`,
`FROM ./f AS s`, `COPY --from=./f#stage`, `INCLUDE_ARGS / _ENVS / _LABELS f`,
where `f` is a local path, a URL, or a path in a git repository or an OCI
artifact. A Node.js command (`src/`) does the expansion; a Go frontend for
BuildKit (`main.go`, `pkg/`) runs the command inside `docker build`. This
directory holds TLA+ models of that system, their TLC configurations, and proofs
for TLAPS. `PROJECT.json` lists the runs, the lines each definition models, the
disagreements found and the hazards the properties are aimed at.

## The system

| Part | State | Operations | Interacts with |
|---|---|---|---|
| Command (`src/cli`, `src/core/limits.js`, `src/errors`) | options, exit code, a temporary file for standard input in a directory shared by all runs | parse options, read stdin, run the root load, print the result or a JSON error (exit 2) or any other error (exit 1), remove the temporary file | the loader; its output is read by the frontend |
| Loader (`src/core`, `src/instruction`) | the recursion of `loadDockerfile`: per call the source, `scope`, `includeChain`, `lines` | depth guard, `resolve`, cycle guard, `read`, one processor per instruction, post-processing | sources, stage pipeline, itself |
| Sources (`src/sources`) | `_oid` / `_digest` of a source; `refResolveCache`, `digestResolveCache`, `repoCache`, `artifactCache` of the process | `resolve`, `key`, `read`, `joinRelative`, `displayPath`, `stageAliasBase` | caches on disk, network |
| Stage pipeline (`postProcessDockerfile`, `scopeStages`, `deduplicateStages`, `sanitizeStageNames`, `redeclareArgTop`) | none | text to text, at the end of each file and of the run | the loader |
| Git cache (`GitSource.js`) | a clone per repository and ref, shared by all runs; `sparseSet` per run | `ensureRepo`, `ensurePath`, access, read | `git`, other runs |
| OCI cache (`OciSource.js`) | a directory per reference, shared by all runs; `artifactCache`, `digestResolveCache` per run | `resolve`, `ensureArtifact`, access, read | `oras`, other runs |
| HTTP cache (`downloadWithCache.js`) | a file per URL, shared by all runs; `inflight` per run | conditional GET, redirects, fall back, write | server, other runs |
| Path containment (`assertContained.js`, `sanitizeRelativePath.js`) | none | join relative references, refuse `..` and symlinks that lead out | sources |
| Subprocesses (`spawnCmd.js`) | none | run, kill after a timeout | `git`, `oras` |
| Frontend (`main.go`, `pkg/`) | the working directory, the temporary copy of the Dockerfile, `lastMissingFile` | run the command, fetch the file it misses from the build context, run it again | BuildKit, the command |

What is hard about it: the guards of a recursion that mixes kinds of files and
keys that are only known after a network request; text transformations that
depend on each other's order; caches that many runs share without locks while
branches, tags and URLs move, processes die and commands are killed; a retry loop
that runs through a proxy which calls it back. What has to be correct:

- **Loader**: a loop is caught, and nothing else is taken for one; the recursion
  is bounded and ends; a success means that every file was expanded; what is
  handed down to a file is what it is nested in.
- **Sources**: identities are the ones determined for the repository.
- **Stage pipeline**: the images of the result are those the files mean.
- **Caches**: a run reads one commit, or one artifact; what is read under a
  digest has that digest; what exists is found; no outdated answer unless the
  network is down; interrupted runs do no harm; redirects lead where they may.
- **Paths**: the path of a source is where its references lead, and what is
  refused is what leads out.
- **Command**: its exit code says what the reader of its output finds; it ends,
  and leaves no temporary file; it expands the text it was given.
- **Frontend**: it ends, gives BuildKit the expansion of the file it asked for,
  and fails only where the command would.

## Modules

| Module | Models | State and actions |
|---|---|---|
| `StagePipeline` | the text transformations | no state; one operator per function. A Dockerfile is a sequence of lines, a name a sequence of atoms that stands for their concatenation, so that prefixing, slugs and `startsWith` are what they are in the code |
| `IncludeLoader` (extends it) | `rootLoadDockerfile`, `loadDockerfile`, the processors, the sources as the loader sees them | `stack` is the JavaScript call stack of `loadDockerfile`, `lines` the array of each call, `resolved` and `cloned` the memoized identities, `verdict` and `output` how the command ends. Each stretch of code between two awaits is one action: `DepthExceeded`, `Resolve`, `CycleDetected`, `Open`, `Keep`, `Call`, `IncludeEnv`, `Return`, `Write`, and the error exits |
| `StageMeaning` (extends it) | what a Dockerfile builds | no state; `FlatImage` by BuildKit's rules for the text handed to it, `FileImage` by the documentation's for the files the user wrote |
| `GitCache` | `ensureRepo`, `ensurePath`, `_resolveFile`, `read` of `GitSource` | `upstream` the branch, `clone` the cache directory (commit, directories checked out, cone, `index.lock`), `proc` the memory of each run; one action per await and way out, and `Crash`, `CommandKilled`, `Push` |
| `OciCache` | `resolve`, `ensureArtifact`, `_resolveFile`, `read` of `OciSource` | `tag` the artifact the tag is at, `dir` the cache directories by reference, `indexed` whether pulls leave an `index.json`, `run` the memory of each run; one action per await, and `Crash`, `Retag` |
| `PinnedContent` | what both caches promise (abstract): a reference is pinned to the first content it is fetched with, and every read gives what is pinned | what is pinned, what each run has read; implemented by `GitCache` and by `OciCache` |
| `RemoteFile` | the promise of a remote read (abstract) | server version, whether the file is there, gone or out of reach, reads |
| `HttpCache` | `HttpSource.read` and `downloadWithCache` for one URL; implements `RemoteFile` | `server`, `file` (the cache file), `fetch` (with the place its request has been redirected to); one action per await, and the server's and the runs' own |
| `CommandLine` | `program.js`, `limits.js`, `getDataFromStdin`, `emitJsonErrorAndExit` around an expansion that may end in any way | `clock`, `temps` the temporary files by name, `cmd` the runs; one action per await or way out, and `Kill` |
| `SourcePaths` | `joinRelative` of each source, `sanitizeRelativePath`, `assertContained` | `source` at the end of a chain of references; `place`, where one gets by walking along the chain, is the reference the paths are compared with |
| `BuildFrontend` | the Go frontend | `disk` the working directory, `temp` the temporary files, `stack` the transforms in progress, `outcome`; `started`, `killed`, `unread` and `shared` only record, for the properties, what went wrong on the way: a command that did not start or was killed, files that could not be read, a nested transform in the second of the outer one. `Command` says how a run of the command ends on a given directory, its guards against cycles and deep nests included |
| `StagePipelineProofs`, `IncludeLoaderProofs`, `GitCacheProofs`, `OciCacheProofs`, `HttpCacheProofs`, `CommandLineProofs`, `SourcePathsProofs`, `BuildFrontendProofs` | the TLAPS proofs, each about the module it is named after; the second extends the first | |
| `MCIncludes`, `MCStageMeaning`, `MCGitCache`, `MCOciCache`, `MCCommandLine`, `MCSourcePaths`, `MCBuildFrontend` | small instances | |

`IncludeLoader` composes with `StagePipeline` by EXTENDS, as the code does by
calls. `BuildFrontend` uses the command through an operator, `Command`, instead
of composing the two state machines: the frontend sees nothing of a run but
its exit. `CommandLine` in turn lets the expansion end in any way, which
`IncludeLoader` narrows down, and guarantees what `IncludeLoader` assumes of
`MaxIncludeDepth`. The sources meet `IncludeLoader` in the same way: it lets the
identity a read tells be any, and the caches say which it is. Operators whose comment begins with "Variant" are not part of
a specification: each is a definition as a plausible mistake would have it, and
serves to check that the property it names depends on the code.

### Abstractions

- A reference is a location; syntax, path arithmetic and hashing are reduced to
  which location is named, and whether it is relative to the including file.
  `Rejected` are the locations `resolveSource` and `sanitizeRelativePath` refuse.
- In `IncludeLoader` the key of a source is its location and its identity. The code
  drops the branch or tag from the key once the identity is known
  (`GitSource.js:348`, `OciSource.js:470`), so that a file reached by two refs that
  are at one commit has one key. Locations stand for files under one ref each, and
  no two of them for the same file under two refs; then both keys tell the same
  apart. A loop that changes refs on its way is not among the worlds.
- The parser is its result: instructions as records. Parsed text is written back
  as it was, apart from what the pipeline changes.
- A marker line (the comments around an included text) has the attributes the
  code puts in it; they matter because deduplication compares them.
- The file name and the hash of a slug are two atoms; the name may also be the
  name of a stage, the hash may not. No atom's text is a prefix of another's.
- For OCI, `oras pull` leaves no `index.json`, as the comment at
  `src/src/sources/OciSource.js:148` says: reading then tells no identity.
- A repository pinned to a commit is a branch that never moves.
- In `GitCache` and `OciCache` a file stands for the two names `tryWithExtension`
  tries.
- In `OciCache` the second attempt over plain HTTP is left out. It is made only
  for registries that are spoken to over plain HTTP from the beginning
  (`OciSource.js:96` and `OciSource.js:104` decide alike), so never.
- In `GitCache` a killed command may have done any part of what it was to do to the
  cone and the work tree, and leaves `index.lock`. Which paths and links lead out of a clone
  is for `SourcePaths` to say; here any read may be refused for it (`RefusePath`).
- In `HttpCache` a place is scheme and host; which addresses are private, and
  what the allow list lists, are parameters. More than `maxContentLength` is a
  refusal.
- In `CommandLine` a limit is a text with what `parseInt` makes of it; a run is
  its own text; writing a file is one step, which may leave it torn. Standard output
  may be closed: the payload of exit code 2 is then `lost`, and the code is still 2.
- In `SourcePaths` a path is its steps. A reference that ends in `.` or `..`
  names a directory and is left out.
- In `HttpCache` each fetch belongs to a run of its own: `inflight` only merges
  fetches of one run that overlap, and includes are awaited one by one.
- `BuildFrontend`'s working directory starts empty (a frontend runs in a container
  of its own), and nothing else writes to it. Its own writes succeed: an error of
  `MkdirAll` or `WriteFile` would end the transform as `RunFails` does.
- In `BuildFrontend` the errors that carry a `chain`, include-cycle and
  include-depth-exceeded, are one: the frontend cannot decode either.

## Runs

Passing:

| Run | Question | Bounds |
|---|---|---|
| `includes` | Do the guards stop the loops and the deep nests and nothing else? Has every error a reason in the files? Does success mean complete? What becomes of identities when the branch or the tag moves? Does the expansion end? | 3 as depth limit. Local: four names of three files, every combination of the listed texts, among them missing, unreadable, self-including, diamonds; three files that each include two of them. Remote: two git files, two OCI files, two commits, absolute and relative references |
| `stage_meaning` | Is the result what the files mean? Has every instruction its line in it? | roots of up to three stages that import a two-stage library and a second file and include a snippet |
| `frontend` | Does the retry loop give what the command would give in the context? | contexts of up to seven files, up to two references per file, 2 as depth limit, files under both names of a reference, directories named like files, the main Dockerfile as an environment file, one nested transform, in the same second or later; any read may fail, and any run of the command may be killed or fail to start |
| `git_cache` | Is the shared clone safe? Does it implement `PinnedContent`? | two runs at a time, two each, two reads per run, two commits, files in two directories, one in the other |
| `oci_cache` | Are the shared artifacts safe? Do they implement `PinnedContent`? | two runs, two reads each, two artifacts of which one lacks a file, with and without `index.json`; the runs are symmetric |
| `http_cache` | Does the shared cache keep the promise of a remote read? Where can redirects lead? | two fetches, two versions, two redirects, four places (the URL's, one over http, one private, one private and listed); no bound on repetitions |
| `command_line` | Do exit codes mean what the frontend takes them for? What becomes of the temporary files? | two runs, two milliseconds, limits that are a number, one with letters after it, zero, letters, and empty, by flag and environment, every kind of input and output |
| `source_paths` | Do paths follow the references? What is refused? | chains of any length, references of up to three steps, paths of up to four, three names of which one begins with two dots, three links |

Why these bounds are enough to see the interesting cases: a cycle, a diamond
and a repeated name need three files; a limit of 3 lets nests both reach and pass
it, among three files that include each other, and in the frontend a limit of 2 does; a commit can only be wrong if there are two; races need two
runs, and remembering something outdated needs a second read; a relative redirect
differs from an absolute one from the second redirect on; with three steps a
reference goes up twice and down again, from files that lie deep enough for it and
from files that do not; what goes wrong
between imports of a file shows with two of them and one stage in between. The
violations below are found in instances of the same size or smaller, and each property of a
passing run is violated when the definition named in `PROJECT.json` is replaced
by its variant.

Deadlock is checked in all passing runs but `git_cache` and `oci_cache`, where the
bounds on runs and reads make the system stop, `command_line`, which is over when
both runs are, and `source_paths`, where a chain ends with a reference that is
refused or missing. A run of the expansion that is over (`Done`) stutters.

### Preconditions

- `stage_meaning` considers the worlds that `Avoids` admits: no file is copied
  from and later imported, none is copied from at two stages, none is
  imported at a stage again after another stage of it, no file with a COPY of its
  own is imported at two stages; and in its texts snippets have no COPY --from of
  a file, imported files include no stage, no base image begins with the name of a
  stage, no stage is called like its file. All but the fourth are dropped in
  `stage_losses`, one family of worlds each, and each of the seven families
  alone violates `FinalImagePreserved`. Without the fourth, a copy of a stage
  that is not needed any more names a stage further down (`CopySourcesAbove`).
- `NeverFailsInVain` supposes that environment files are named in full and are not
  the main Dockerfile (`EnvInFull`): the frontend only ever tries the name it was
  given and that name with `.dockerfile` (`dockerfile-x.go:142`), and transforms
  the main Dockerfile whoever reads it. It supposes that no file is asked for under
  its full name beside one that has the name without the extension (`Unambiguous`,
  which `OkMeansExpandable` supposes too), and that no directory has the name of a
  file with the extension (`NoDirectoryTwin`). Remote references may fail at any
  time (`RemoteErrors`). Each of the three is needed, see below.
- A command that cannot be started counts as a success with an empty text
  (`dockerfile-x.go:113`): `OkMeansExpandable` allows for it by `started`.
- `OkMeansExpandable` says what success means in all other cases, and allows for what
  the code does in them, case by case. After a read that failed (`unread`) it speaks
  of the context without that file, as another file has been taken for it
  (`dockerfile-x.go:142`); it leaves out that such a file is read later all the
  same (`StaysUnread`), which takes a file that is asked for once as a Dockerfile or
  environment file under its short name and found with `.dockerfile`, and then
  once more by its full name. If a nested transform began in the second of the outer
  one (`shared`) and replaced its copy, the text may be that of the nested file. If the
  main Dockerfile was transformed in turn, the levels below it were counted anew
  (`DepthAllowed`).
- `NeverFailsInVain` is about builds whose reads succeed and whose commands nobody
  kills (`unread`, `killed`).
- `MissingIsMissing` has directories one in the other. With sibling directories
  it fails (`git_siblings`).
- `OneCurrentByTag` is about includes by tag, not about `INCLUDE_ENVS` and its
  siblings (see below). No property says that the temporary directories of pulls
  are removed: when the credentials fail, nothing removes them (`OciSource.js:202`).
- `OwnText` excepts runs that read standard input in the same millisecond, and
  `TempRemoved` those that were killed or could not write the file: in each of
  these the code does what the property excludes.
- `RedirectsAllowed` is about a URL with the scheme https. For one with http,
  redirects may change between both (`downloadWithCache.js:271`).
- `OutsideIsRefused` excepts what the code refuses beyond what leads out: at the
  top of a repository a name that begins with two dots (`assertContained.js:21`
  takes `..c` for a step up), and an absolute reference with a step up anywhere,
  which is not normalized before it is looked at.
- `ImportedArgsStayGlobal` is about the ARGs above the first FROM, import or include
  of a file, and leaves out files that copy from other files: the stages copied
  from are put above those ARGs.
- `NothingSkipped` compares a line with its instruction apart from the stages it
  names; which stage those are is what the images say.
- `LapsBounded` allows two laps through a git reference: `read` replaces the oid
  of `resolve` by that of the clone (`GitSource.js:296`), which is older or newer
  when the branch has moved.

### Disagreements

Runs that are expected to fail, each with what a document or a comment of the
repository says and the code does not do; `PROJECT.json` has the quotations.

| Run | What happens |
|---|---|
| `stage_losses` | a file copied from and later imported is redefined below its use; two uses of a file at different stages end up at the same stage; a snippet with a COPY --from of a file splits the stage that includes it; an imported file does not find the stage it includes; `FROM node:18 AS node` in an imported file builds on itself; a stage named like its file is taken for the base of the next |
| `frontend_reentry` | a Dockerfile that includes itself starts the frontend's transform again and again |
| `git_siblings` | a file is reported missing after a file of another directory was read |
| `limits_disagree` | `--max-include-depth 3abc` is 3, `DOCKERFILEX_MAX_INCLUDE_DEPTH=3abc` is an error |

Seen while modelling, with no run of their own:

- An include-cycle is reported by the frontend as a JSON error: the payload's
  `chain` is an array and is decoded into a map of strings
  (`pkg/build/dockerfile-x.go:125`, against `README.md:329`, "The Go BuildKit
  frontend distinguishes the codes below"). `CodesDistinguished` of
  `BuildFrontend` says the contrary.
- `INCLUDE_ENVS oci://...:tag` reads the directory of the tag, which no later build
  replaces (`OciSource.js:189` and `:241`), against `README.md:288`, a future build
  pulls whatever the tag then points to. `FreshEnvs` of `OciCache` says the
  contrary.
- The loser of the race for a clone reads the winner's commit under its own oid
  (`GitSource.js:171`, against the comment at 162).
- A file that is fetched under its full name, `a.dockerfile`, is what the command
  finds from then on for `a`, although the context has a file `a`: it tries the
  extension as soon as `a` is missing from the working directory
  (`LocalSource.js:36`), before the frontend gets to know of it. The wrong file is
  expanded, or a cycle is reported that is none. `OkMeansExpandable` and
  `NeverFailsInVain` without `Unambiguous` fail in contexts of three files.
- A file `a` that is there but cannot be read is replaced by `a.dockerfile`
  (`dockerfile-x.go:142` tries the second name after any error).
- A transform that begins in the second of the one it is nested in overwrites its
  copy of the Dockerfile (`dockerfile-x.go:90`); when the outer one goes on, it expands
  the text of the inner one, and that is what BuildKit gets.
- A nested transform counts its levels from 0 (`proxy.go:47`, `loadDockerfile.js:34`):
  the frontend builds nests of up to twice the depth the command allows, of which
  a run of the command on the same files says include-depth-exceeded.
- As with the file `a.dockerfile`, a directory `a.dockerfile`, made for a file in it, stops the
  command with EISDIR while `a` has not been fetched (`dockerfile-x.go:150`).
- The error of a nested transform is replaced by the error of reading its second
  name, `Dockerfile.dockerfile` (`dockerfile-x.go:143`): a remote error surfaces as a
  file that is not in the context.
- `INCLUDE_ENVS` of the main Dockerfile makes the frontend expand it, so that
  a reference it cannot follow fails a build that has no use for it
  (`proxy.go:47`).
- The cycle key of a relative include in a git file is the commit of the clone,
  not the resolved one (`GitSource.js:296`, against `README.md:266`).

## Fairness

- `IncludeLoader`: `WF(Step)`, spelt out as `Fairness`: `Step` is enabled exactly
  while the verdict is `Running`, so either the verdict comes, or steps go on being
  taken. The program is sequential; the event loop resumes a
  promise that is settled, and every promise awaited is settled in the end, since
  axios and `spawnCmd` have timeouts. Which error or answer comes is never
  subject to fairness.
- `BuildFrontend`: `WF(Step)`, a sequential loop. RPCs to BuildKit are assumed to
  return.
- `HttpCache`: `WF(Work(f))` for each fetch; nothing is assumed of the server, nor
  of other runs, which may stop for ever or begin anew.
- `GitCache`, `OciCache`, `CommandLine` and `SourcePaths` state no liveness: a run may
  always be interrupted, and none of them has a loop but that over the includes,
  whose end `IncludeLoader` shows.

## Proofs

Eight modules prove, for every value of the constants, all the invariants and
refinements the passing runs check, except three about the images a text builds
and the liveness properties (see Only model-checked). All of them are laid out alike: an inductive invariant, that
it holds at first and is kept by every action, what follows from it, and one
temporal step. The assumptions are the named ASSUMEs of the modules, which TLC
evaluates in the runs: special values differ from ordinary ones, functions have
the domains the code gives them, limits are numbers; those that say more are
named below. The theorems with a hypothesis have it for the same reason as the
cfg of their run.

### The expansion (`IncludeLoaderProofs`)

For every set of locations, repositories, texts and file systems and every
`MaxIncludeDepth`:

| Theorem | |
|---|---|
| `StackInvariant` | `Spec => []StackInv` |
| `TypesCorrect` | `TypeOK` |
| `NeverOpenedTwice` | `OpenOnce`: the cycle guard is complete |
| `NestingBounded` | `DepthBounded` |
| `ErrorChainsReal`, `DepthErrorsReal` | the chains in the errors are walks that exist |
| `FailuresReal`, `AllErrorsReal` | `ErrorsAreReal`: every error has its reason in the files |
| `SuccessMeansExpandable` | `OkMeansExpandable`: success skips nothing |
| `ContextMatchesStack` | `ContextIsStack`: chain and scope are those of the pending calls |
| `IdentitiesKnown` | `IdentityKnown` |
| `LapsStayBounded` | `LapsBounded` |
| `NothingIsSkipped` | `NothingSkipped`: every instruction has its line in the text |
| `ImportedArgsGlobal` | `ImportedArgsStayGlobal` |

None of the properties is inductive: that the chain of a call has the keys of
the calls below it depends on those calls having waited at the instruction that
made the next one, and that the guard is complete on the chain being without
repetition. `StackInv` collects this: types; `CalledBy`, each call was made by
the instruction its caller waits at; `OpenedFile`, a call expands the file its key
names; `ChainIsKeys`, the chain is the keys; `PassedDepth`, calls past the guard
are within the limit. The proof has a lemma per action that changes
the stack (`Resolve`, `Open`, the ones that advance, `Call`, `Return`), one for
those that only end the run, and lemmas about replacing and pushing the top of a
sequence. `OpenOnce` then follows as two equal keys would make one of them a
member of its own chain; the error theorems follow from the state the error is
raised in.

Success is shown without following the recursion: a set of files is *expandable*
if the includes in it lead into it, and the union of all such sets (`Settled`) is one.
`Progress` says that each pending call has behind it only instructions that
lead into `Settled`; when a call returns, its own file joins the union.

For the scope, `ScopeIsFiles` says entry by entry which call it is of. For the
identities, `IdentityKnown` had to be strengthened from "none, or known" to
`CallsIdentified`, which says by the phase of a call when it has one. `LapsBounded`
follows by counting: the calls open at a location are mapped injectively, by
`OpenOnce`, to the identities known of it.

The converse of `SuccessMeansExpandable` is `AllErrorsReal`. What it needs beside
`StackInv` is that each pending call stands in a file the root leads to
(`StackReached`) and that a stage a call is asked for was named by an instruction of
such a file (`TargetsAsked`). `Reason` then says for each code what must be so in
the files, and there is one step for each way out.

### The text (`StagePipelineProofs`, `IncludeLoaderProofs`)

`NothingIsSkipped` and `ImportedArgsGlobal` are about what is written in the end, for
texts of any length and any nesting. `StagePipelineProofs` first says what one call
of each function does to any text:

| Theorem | |
|---|---|
| `PostProcessKeeps` | scoping, aliasing and dropping repeated stages keep every line, apart from the stage names in it, together with the lines of its stage above it |
| `ImportedArgOnTop` | what an import declares before its first stage is above every stage once `redeclareArgTop` is done |

`Keeps(t, u)` is a relation between two texts that composes, so that each function
has a lemma of its own. It is about pairs of lines with no FROM between them
(`StaysTogether`) and lines with no FROM above them (`StaysOnTop`): single lines
would not do, as the ARGs of an import are recognized by the start comment above
them. For dropping repeated stages that means an equal block that is kept, the
first one (`FirstOfKind`), and a place in it that corresponds. Where a function is
defined by the places it keeps, the proof is an induction over places
(`InductionUpTo`), not over texts.

`TextInv` carries this through the recursion. It says of each pending call that there
is a set of files (`Gathered`) such that the instructions of those files, and those
its own file has before `pc`, are in its text or lead into the set (`Expanded`,
`Covered`); and that the ARGs the file begins with lead its text, which has no stage
before its first import (`Leading`). When a call returns, its set and its own file
join the set of its caller; `Integrate` puts its text below or above the caller's,
never in the midst of it, so that lines that were together stay together.

### The caches (`GitCacheProofs`, `OciCacheProofs`, `HttpCacheProofs`)

For any number of runs, commits or artifacts, and files:

| Module | Theorem | |
|---|---|---|
| `GitCacheProofs` | `CloneInvariant`, `TypesCorrect` | `Spec => []CloneInv`, `TypeOK` |
| | `OneCommit` | all a run reads from a branch is of one commit |
| | `ImplementsPinned` | `ReadsPinned`: the clone implements `PinnedContent` |
| | `MissingFilesMissing` | `MissingIsMissing`, if `NestedCones` |
| `OciCacheProofs` | `CacheInvariant`, `TypesCorrect` | `Spec => []CacheInv`, `TypeOK` |
| | `DigestsHonest` | `DigestHonest` |
| | `OneCurrent` | `OneCurrentByTag`: what a run reads by the tag is of one artifact, a current one |
| | `ImplementsPinned` | `ReadsPinned`: the cache implements `PinnedContent` |
| | `MissingFilesMissing` | `MissingIsMissing` |
| `HttpCacheProofs` | `FetchInvariant`, `TypesCorrect` | `Spec => []FetchInv`, `TypeOK` |
| | `RedirectsStayAllowed` | `RedirectsAllowed` |
| | `ImplementsRemoteFile` | `KeepsPromise`: the cache implements `RemoteFile` |

In each, a read is right because of what was settled several awaits before, and
other runs act in between. The invariants say of each run what its next steps
rely on (`Sound`), and the proofs that nothing other runs do can disturb it:

- git: a clone, once there, stays and keeps its commit (`Lasts`), whatever is done
  to its cone, and what a run has read is of that commit. `NestedCones`, that the
  directories read are in each other's cones, as they are along one path, is the
  situation of the run `git_cache`; in `git_siblings` it fails, and so does the
  property. Under it `ConeInv` says that a run has the clone it has asked for
  checked out at all directories.
- OCI: directories appear and never change; what a run is about to rename is what
  its reference names, the digest it asks by is the one it once resolved and one
  the tag was at meanwhile. `MissInv` adds that a file found missing was looked for
  in the directory it names.
- HTTP: versions that were published stay so, and what a fetch has downloaded was
  published since it began; the cache file holds something published, or nothing.
  A redirect is followed only to a place that is `Allowed`.

`OwnStep` settles the steps that change only a run's own memory; those that change
what is shared have lemmas of their own. The refinements are by step
simulation: `Rename` into a free place is `Pin`, `Read` is `Read`, the start and
the crash of a run are `Forget`, the rest stutters; in `HttpCache`, `ReadCache` is
`Open`, `Leave` is `Close`, the steps that end a fetch are `Answer`, and those in
between stutter.

### The command and the paths (`CommandLineProofs`, `SourcePathsProofs`)

| Module | Theorem | |
|---|---|---|
| `CommandLineProofs` | `CommandInvariant`, `TypesCorrect` | `Spec => []CommandInv`, `TypeOK` |
| | `ExitsMeanOutput` | `ExitMeansOutput` |
| | `TempsRemoved` | `TempRemoved` |
| | `TextsOwn` | `OwnText` |
| `SourcePathsProofs` | `PathInvariant`, `TypesCorrect` | `Spec => []PathInv`, `TypeOK` |
| | `PathsAreWalks` | `PathIsWalk` |
| | `OutsideRefused` | `OutsideIsRefused` |

`CommandInv` says of each run, by its phase, what it has done and left undone
(`Sound`), and ties the temporary files to the runs (`Honest`): whose text one
holds has written it and still has to remove it. Two runs of one millisecond are
what `Own` has to except, and all it has to.

`PathIsWalk` compares three loops over the steps of a path: `Join`, `Resolve`, and
`Walk`, which says what the path means. They are recursive functions here, and what
they compute is shown by induction on the number of steps, in the form of sets of
numbers (`InductionUpTo`). The step that matters is `FollowsOn`: as long as walking
stays in the repository, the joined path is the place itself; as soon as it leads
out, the joined path begins with `..`, and no further step takes that away. So it
is refused exactly when it leads out. References and paths may be of any length:
`MaxSteps` and `MaxPath` are any numbers.

### The frontend (`BuildFrontendProofs`)

For every build context and every reference between its files:

| Theorem | |
|---|---|
| `FrontendInvariant`, `TypesCorrect` | `Spec => []Held`, `TypeOK` |
| `SuccessMeansExpandable` | `OkMeansExpandable` |
| `BuildsAllowedSucceed` | `NeverFailsInVain` |

None of them supposes anything of the seconds in which nested transforms begin, of
the reads, or of the commands, beyond what the properties say. `NameAssumption` says
that there are finitely many names, that appending the extension to a name that has
it changes nothing, and that two names get the same one only if one of them is it.

`Held` says that the working directory is a part of the context and a tree, that
every pending transform but the last is reading the main Dockerfile, and what the
recorded history may be. `CopiesRight` adds whose text each has: the nested ones that
of the file in the context, the first the one it was given, or that file's if
a nested one shared its second (`Asked`). The last two theorems compare what the
command says of the working directory with what it says of the context, and rest on
lemmas about `Command`, which are about the code of the command rather than the
frontend's:

- `Levels`: the command is modelled by what it finds in each file with 0, 1, 2, ...
  levels left below it. The operator computes this with a recursive function; the
  lemma says it without, and what follows is by induction on the levels, in the
  form of sets of numbers (`SetInduction`).
- `LevelsAgree`, `CommandAgrees`: where a part of the context has all that is asked
  for in it (a run found nothing missing), the whole context has no missing file and
  no chain either, with as many levels more as its main Dockerfile may need. With
  `Fetched` and `Reading`, which say that the working directory has nothing but what
  was asked for or took the place of what could not be read, and `NestedExpandable`,
  that the main Dockerfile is only there expanded if it can be, within levels of its
  own, this gives `OkMeansExpandable`, for the context without the files that
  could not be read (`Readable`).
- `LevelsMild`, `CommandMild`: conversely, if the context has no problem, a part of
  it has none but a missing file, which the context has. `Sound` says of each
  pending transform that what it is about to read is there under one of the names
  it tries; and `MainIsNoPart`, that a context that can be expanded has no way from
  the main Dockerfile back to itself, by the least number of levels it can be
  expanded with.

The attempts to prove `OkMeansExpandable` and `NeverFailsInVain` failed in contexts
the runs had not had: files under both names of a reference, directories named like
files, the main Dockerfile as an environment file, reads that fail and a second name
that is there. TLC confirms each; the properties say what they leave out or allow
for, the runs have such contexts, and the list of disagreements has what the code
does in them.

### Only model-checked

- Liveness (`Terminates`, `FetchEnds`), which needs ENABLED.
- Which stage a name means in the end (`FinalImagePreserved`, `RootTargetsPreserved`,
  `CopySourcesAbove`). The first two compare images, which are RECURSIVE operators
  over texts and over files: their equality would take an induction over data, and
  the modules that declare them admit no proofs. All three hold under preconditions
  on the texts and the files (above) that `stage_losses` shows to be needed. That
  no line gets lost or changes its stage on the way is proved
  (`NothingIsSkipped`, `PostProcessKeeps`).

## Not modelled

- The classification of addresses and the syntax of the allow list
  (`downloadWithCache.js:41` to 148): pure text and number handling that its own
  unit tests cover value by value.
- The parser and the wording of what is written.
- Vendored code, `docker-file-parser`, axios, git, oras, dotenv, BuildKit, except
  for what the models say of them as an environment.

## Plan

Order of work, most important behaviour first; all done, but for what 13 leaves.

1. `StagePipeline`, `IncludeLoader`, `MCIncludes`: the recursion and its guards.
2. The same with identities of moving references.
3. `StageMeaning`, `MCStageMeaning`: what the result builds.
4. `IncludeLoaderProofs`: types, guards, error chains.
5. `BuildFrontend`; `GitCache`; `HttpCache` implementing `RemoteFile`.
6. Runs for the disagreements met.
7. `OciCache`, and `PinnedContent`, which both caches implement; redirects in
   `HttpCache`.
8. `CommandLine`; `SourcePaths`.
9. `OciCacheProofs`: types, `DigestHonest`, `OneCurrentByTag`, `PinnedContent`.
10. `GitCacheProofs`, `HttpCacheProofs`, `CommandLineProofs`,
    `SourcePathsProofs`, `BuildFrontendProofs`; identities and what a successful
    expansion means (`IncludeLoaderProofs`); `MissingIsMissing` (`GitCacheProofs`,
    `OciCacheProofs`).
11. `StagePipelineProofs`; `NothingSkipped` and `ErrorsAreReal`, stated, checked and
    proved; `ImportedArgsStayGlobal` proved.
12. `BuildFrontend` with the depth guard of the command, reads that fail, commands that
    are killed and transforms of one second; the disagreement of the limits.
13. Left: `CopySourcesAbove` for files that meet its preconditions, by an invariant
    about the order of the stages in the text; keys without refs, for loops
    that change from one ref of a repository to another.
