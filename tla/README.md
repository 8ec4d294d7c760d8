# Formal models of the release and fixture tools

This directory holds TLA+ models of the two Python tools of the repository:

- `src/elasticsearch/x-dev-tools/create_bwc_indexes.py` is the fixture
  generator. It builds the zipped security indices that the x-pack
  backwards-compatibility tests import.
- `src/dev-tools/prepare_release_candidate.py` prepares a release candidate.

The models were checked with TLC on small instances. Some results are also
proved with TLAPS for every value of the constants.

## 1. The system and its parts

### The fixture generator

`create_bwc_indexes.py` is one sequential Python process. It interacts with
three other actors:

- **The node process** is the Elasticsearch binary. `start_node` starts it
  with `subprocess.Popen` and returns at once. The node then starts up in
  parallel with the script. It binds ports 9200 and 9300, or exits when they
  are taken. It logs to two pipes that the script never reads. It may crash.
  On SIGTERM it logs its shutdown and exits.
- **Another instance** is a developer's node, or a node orphaned by an
  earlier killed run. It may hold or take the two ports at any moment. The
  `connect_ex` probes of `start_node` look for it.
- **The user** may press Ctrl-C, which raises `KeyboardInterrupt` in
  whatever statement is running. Inside the try block, the finally block
  handles it. Elsewhere in `main()`, nothing in `main()` catches it, and the
  handler of `__main__` (281–284) logs and exits. "Elsewhere" means between
  `mkdtemp` (245) and `try:` (250), or inside the finally block. The user may
  also kill the script outright, so that no `finally` block runs, and may
  start the script again.

State that outlives one invocation:

- the release directories `backwards/elasticsearch-<v>` and the plugins,
  shield config and admin user in them;
- the archives `x-pack-<v>.zip` in the output directory;
- temporary directories leaked by killed or late-interrupted runs;
- a node orphaned by a killed run, which keeps the ports.

For each version, `main()` does the following:

1. Skip the version if it is below 2.3.0 (`parse_version`).
2. Fail if the release directory is missing.
3. Create a temporary directory.
4. Remove the license and shield plugins, remove the shield config, and
   install both plugins again.
5. Add the `es_admin` user.
6. Probe the ports and spawn the node.
7. Poll `cluster.health` up to 30 times (`create_client`).
8. PUT a user and a role, index five documents, and wait for yellow
   (`generate_security_index`).
9. Terminate the node and wait for it (`shutdown_node`).
10. Delete the old archive, `chdir` into the temporary directory, zip, and
    `chdir` back (`compress`).

The `finally` block terminates a live node, waits for it and removes the
temporary directory. Any exception ends the whole run.

### The release candidate tool

`prepare_release_candidate.py` runs a fixed sequence of steps:

1. Check that the checkout is clean.
2. Find the `-SNAPSHOT` version in `pom.xml`.
3. Run `mvn versions:set` on three trees.
4. Rewrite `Version.java` through `process_file`, which writes a temporary
   file, removes the original and moves the temporary file in.
5. Depending on flags, build, deploy, rename metadata and push to S3.
6. Print the announcement mail.

It runs once per invocation and has no cleanup: any failing command raises
`RuntimeError` and leaves the checkout, `/tmp` and the local Maven
repository as they are. The next invocation meets that state through its
own clean-checkout check. It is modelled in `ReleaseCandidate` (see §2).

## 2. Modules

| Module | Models | Source |
|---|---|---|
| `VersionOrder` | `parse_version`, Python's `<` on its results, the skip test of `main()`, the decimal strings of versions | `create_bwc_indexes.py` 189–191, 202–209, 235 |
| `MC_VersionOrder` | a TLC instance: every version string from majors {0,1,2,5,10}, minors {0,2,3,4,10}, patches {0,1,13}, qualifiers {none, alpha1, rc1} | |
| `BwcFixture` | the whole fixture workflow together with the node process, another instance, Ctrl-C, SIGKILL and re-invocation | `create_bwc_indexes.py` 58–284 |
| `MC_BwcFixture` | a TLC instance with four versions: 1.7.0 (skipped), 2.3.4 (has a release directory), 2.4.0 (has none) and the two-part 2.3 (rejected by `parse_version`) | |
| `BwcFixture_proofs` | TLAPS proofs about `BwcFixture` | |
| `ReleaseCandidateAbstract` | what the release tool promises: a checkout committed, released or modified; artifacts built and published only from a released checkout | |
| `ReleaseCandidate` | every statement of `prepare_release_candidate.py` that changes state, several runs, Ctrl-C between statements, and the user's `git checkout`/`git clean` between runs | `prepare_release_candidate.py` 28–272 |
| `MC_ReleaseCandidate` | TLC instances: `MCAllArgSets` (every flag combination) for the core and push runs, `MCArgSets` (`-p` only with `-d`) for the diverged run | |
| `ReleaseCandidate_proofs` | TLAPS proofs about `ReleaseCandidate`, including the refinement | |

### VersionOrder

- Strings are sequences of code points, because Python compares `str` code
  point by code point.
- `Split` is `re.split('[.-]', s)`, defined through the positions of the
  separators.
- `Padded` appends `'ga'`, `Lower` is `.lower()`, and `ParseOK` is the
  `assert len(splitted) == 4`.
- `SeqLess(a, b, Less)` is Python's ordering of sequences. It is used with
  `NatLess` for `str` and with `StrLess` for `list`.
- `Decimal` is a recursive *function*, not a RECURSIVE operator, so the
  module can be reached from a module with proofs.

### BwcFixture

Variables:

| Variable | Models |
|---|---|
| `pc` | the statement of the script about to run |
| `vers`, `idx` | `cfg.versions` and the loop position |
| `exc` | the exception being propagated |
| `node` | `node is not None` |
| `cwd` | original directory or temporary directory |
| `attempts` | `create_client`'s tries |
| `proc` | the node process: none, starting, up, stopping, exited |
| `pipe` | unread output |
| `other` | another instance holds the ports |
| `tmp`, `leaked` | the temporary directory, and directories left by invocations that ended without removing theirs |
| `data` | what was written into the node |
| `release` | the contents of each release directory |
| `archive` | per version: present, the items zipped, and whether the node had exited |
| `runs`, `kills` | invocations and kills so far |
| `had` | the archives present when the current invocation started |

Each statement of the script is one action, with its failure as a
disjunct. A failure is `Raise(e)`, which moves to `finally`:

- `RemovePlugin` is `check_call` of `plugin remove`. It always succeeds.
  Spec §4.3 records that removing a plugin that is not installed fails
  silently: the plugin tool exits 0. The header (21–24) runs the script on
  a fresh release, which ships neither plugin.
- `RemoveShieldConfig` and `UserAdd` go through `run()`, which raises
  RuntimeError on a non-zero status.
- `InstallPlugin` may fail (download).
- `ProbePorts` fails when `other` holds the ports.
- `PollFails` counts attempts and raises at the last one. The error is
  NameError: the assert message refers to the undefined name `timeout`.
- `Request` is one PUT or index call. It stores an item in our node when
  our node answers, succeeds without storing anything when another instance
  answers, or raises.
- `Compress` is `os.remove` and `chdir`. `Zip` writes the archive from
  `data` and restores `cwd`, or raises without restoring it.
- `Finally`, `FinallyWait` and `RemoveTmp` are the `finally` block.

Besides the script:

- `NodeUp`, `NodeBindFails`, `NodeCrash` and `NodeStop` are the node
  process. A step that logs needs room in the pipe.
- `ForeignStart` is the other instance taking the ports.
- `BeginVersion` is `mkdtemp`. `EnterTry` is the log line, `node = None`
  and `try:`.
- `Interrupt` is Ctrl-C inside the try block.
- `InterruptOutsideTry` is Ctrl-C at a statement of `main()` outside the
  try block (`OutsideTry`), enabled when the constant `LateInterrupts` is
  TRUE. It ends `main()` with `KeyboardInterrupt`.
- `Kill` is SIGKILL: the temporary directory leaks and a live node is
  orphaned.
- `Exit` ends the interpreter. A temporary directory still on disk then
  counts in `leaked`. `InvokeWithVersions` and `InvokeAll` start
  an invocation.
- `InvokeAll` takes the existing archives in any order, because
  `glob.glob` does not sort.

Data is abstracted:

- request bodies and documents become the items `user`, `role` and `docs`;
- release directory contents become `license`, `shield`, `config` and
  `admin`;
- log text and command lines are left out.

Fairness:

- Weak fairness on `Script`: the script is a single thread that never
  waits except on what the model makes explicit.
- Weak fairness on `NodeUp`, `NodeBindFails` and `NodeStop`: a started
  node finishes its start-up, and a signalled node finishes its shutdown,
  given room in its pipe.
- Crashes, Ctrl-C, kills, the other instance and new invocations are not
  fair.
- Weak fairness on `NodeStop` assumes that a node that got SIGTERM
  exits. A node that ignores SIGTERM would hang `wait()` (hazard at 277).
  That case is assumed away. Only the full-pipe cause of a hang is checked
  (`bwc_pipe_deadlock`).

### ReleaseCandidate

Variables:

| Variable | Models |
|---|---|
| `pc` | the statement the running script is about to execute, or `idle` between runs |
| `args`, `outcome` | the parsed flags (`-d`, `-i`, `-p`, and python's `-B`) and how the last run ended (which `RuntimeError`, `ok`, or `killed`) |
| `runs`, `crashes` | bounded counters of invocations and of killed runs |
| `pom`, `versionFile` | the version of the three pom trees (`dev-tools`, `rest-api-spec`, root) and what `Version.java` holds: the snapshot line of the release, the released line, a line named differently, or `missing` |
| `committedPom`, `committedVF`, `localMods` | what HEAD holds, and the user's own changes, which together decide `git diff --shortstat` |
| `untracked`, `pycache` | the user's untracked files and `dev-tools/__pycache__` |
| `branch` | how `git status` reports the branch against origin |
| `tmps`, `tmpMine` | the `mkstemp` files in `/tmp` by content, and the one the running process holds |
| `repo`, `staged`, `s3`, `repos` | the local Maven repository, the Sonatype staging repository, the S3 staging area (the states of the local repository it was synced from) and the apt/yum repositories |

Actions, in the order of `main()`:

- `Invoke`/`Start`: the import at line 31 writes `__pycache__` unless `-B`
  (`ImportWritesBytecode`).
- `EnsureCheckoutIsClean`: the diff, untracked, "is behind" and "is ahead"
  tests in that order. Anything else, including "have diverged", passes.
- `FindReleaseVersion`: a `-SNAPSHOT` root pom, else raises.
- `DocCheck`: `update_reference_docs` is not in the repository; its result
  is a nondeterministic choice.
- `SetDevTools`, `SetRestApiSpec`, `SetRoot`: one `run()` each. Each may
  fail (`RunResults`), raising with the earlier trees already changed.
- `ProcessFileWrite`, `ProcessFileRemove`, `ProcessFileMove`,
  `ProcessFileDrop`: `process_file` one system call at a time, with the
  callback of `remove_version_snapshot` as `SnapshotRemoved`. `Drop` is the
  no-change branch and raises at line 151.
- `CleanLocalRepo`: the `rmtree` at 221–223, then the deploy branch or the
  push branch (`PushOrFinish`).
- `Install`, `CleanRepo`, `RenameLocalMetaFiles`, `S3Sync`,
  `BuildRepositories`: the commands of the deploy and push branches. A
  failed deploy may have uploaded part of the artifacts.
- `Crash`: Ctrl-C between any two statements (the script catches nothing).
  The running process's temporary file stays in `/tmp`.
- `Restore`, `GitClean`: what the error messages ask the user to do between
  runs.

Strings (versions, hashes, commands, the mail) are abstracted. The version
is one release, so the format check at 197–199 always passes.

The refinement mapping to `ReleaseCandidateAbstract`:

- `treeBar` is `committed` while a run is between the checkout check and
  the end of `process_file`. Otherwise it is `committed`, `released` or
  `modified`, by comparing the files with HEAD.
- `localBar` is `staged` once an install has completed.
- `publishedBar` holds once the staging repository, the S3 area (with a
  built repository) or the package repositories have been written.

Fairness: `WF_vars(Script)`, because the script is a single process that
runs from statement to statement. Invocations, Ctrl-C and the user's
commands are not fair. No liveness property is checked yet.

## 3. Runs

| Run | cfg | Result | What it shows |
|---|---|---|---|
| `bwc_core` | `MC_BwcFixture.cfg` | pass (≈101k states) | `TypeOK`; `ArchivesFromStoppedNode`; `ArchivesComplete`; `CleanExit` (at the end of an invocation the temporary directory is gone and the node is not running); `TmpRemovedAfterNodeStops` (an action property: no step but SIGKILL deletes the temporary directory while our node runs); `InvocationEnds` (under the fairness above) |
| `bwc_foreign` | `MC_BwcFixture_foreign.cfg` | pass (≈445k states) | `ArchivesFromStoppedNode`, `TmpRemovedAfterNodeStops` and termination, with another instance that can take the ports and with Ctrl-C at every statement of `main()`, outside the try block too |
| `bwc_port_race` | `MC_BwcFixture_portrace.cfg` | violation of `ArchivesComplete` | The other instance binds after the probes. Our node exits on the bind failure, the requests go to the other instance, and an empty data directory is archived. |
| `bwc_cwd` | `MC_BwcFixture_cwd.cfg` | violation of `CwdRestored` | A failing zip leaves the process in the temporary directory |
| `bwc_archive_loss` | `MC_BwcFixture_kept.cfg` | violation of `ArchivesKept` | The archive is deleted before zip, so a failure loses it |
| `bwc_late_interrupt` | `MC_BwcFixture_late.cfg` | violation of `CleanExit` | A Ctrl-C between `mkdtemp` (245) and `try:` (250) ends the invocation with its temporary directory on disk. A Ctrl-C inside the finally block does the same, and may also leave the node running. The spec (§4, error handling) promises the directory is always removed. |
| `bwc_pipe_deadlock` | `MC_BwcFixture_pipe.cfg` | violation of `InvocationEnds` | The unread pipes fill (capacity 4 < 5 log lines) and `wait()` hangs |
| `version_skip_sound` | `MC_VersionOrder.cfg` | pass (225 inputs) | Every version that is accepted and not skipped is ≥ 2.3.0 |
| `version_skip_complete` | `MC_VersionOrder_complete.cfg` | violation | 2.10.0 is skipped, because `'10' < '3'` |
| `rc_core` | `MC_ReleaseCandidate.cfg` | pass (≈133k states) | `TypeOK`; `VersionFileRecoverable` (whenever `Version.java` is missing, `/tmp` holds its released copy); `TempFilesLeakOnlyOnCrash` (temporary files ≤ killed runs + the one held); `AbsSpec` (under every flag combination the script implements `ReleaseCandidateAbstract`); `KeepsUserChanges` (an action property: no step of a run changes a pom or `Version.java` while the checkout has uncommitted changes) |
| `rc_diverged` | `MC_ReleaseCandidate_diverged.cfg` | violation of `NoRunWithUnpushedCommits` | A diverged branch passes the clean-checkout check |
| `rc_push_alone` | `MC_ReleaseCandidate_pushalone.cfg` | violation of `SyncsBuiltRepository` | `-p` without `-d` syncs the repository that `rmtree` has just emptied |

Bounds and why they are enough:

- Two attempts exercise both the retry and the give-up branch.
- Two invocations let a second run meet what the first left behind: a
  replaced or lost archive, a leaked directory, an orphaned node holding
  the ports.
- One kill is enough to orphan a node and leak a directory.
- A pipe of 5 holds every log line of one version. The pipe run uses 4 to
  show the hang.
- The four versions take each branch of the version loop once.
- The initial states cover fresh and already-prepared release directories,
  and absent and existing archives.
- Release tool: three runs let a run meet what a killed or failed run left,
  and then meet it again after the user restores the checkout. One Ctrl-C
  reaches every point between statements, including the point between
  remove and move. Every command may fail. The committed poms and
  `Version.java` take every value the checks distinguish. The violation
  runs use two runs and no Ctrl-C, which is enough for their traces.
  The core run includes every branch state, `diverged` too.

Each property of a passing run is also checked against a variant of the
code that a plausible bug would produce. TLC must find the property
violated:

| Variant | Property that catches it |
|---|---|
| `PollFailsOffByOne` (31 tries) | `TypeOK` |
| `RequestUnchecked` (status not checked) | `ArchivesComplete` |
| `WaitExitNoWait` (no `wait()`) | `ArchivesFromStoppedNode` |
| `FinallyNoShutdown` | `CleanExit` |
| `FinallyNoShutdown` | `TmpRemovedAfterNodeStops` (core and foreign) |
| `PollFailsForever` | `InvocationEnds` |
| `StrLessOffByOne` | `NotSkippedIsAtLeastMin` |
| `ProcessFileMoveRemovesTmp` | `TypeOK` |
| `ProcessFileWriteDeleteOnClose` (the temporary file deleted on close) | `VersionFileRecoverable` |
| `ProcessFileDropKeepsTmp` | `TempFilesLeakOnlyOnCrash` |
| `EnsureCheckoutIsCleanNoDiff` (no `git diff` test) | `AbsSpec` |
| `EnsureCheckoutIsCleanNoDiff` | `KeepsUserChanges` |

Other defects seen in the code but not given a run:

- `create_client`'s timeout surfaces as NameError, because `timeout` is
  undefined. The model's `PollFails` raises NameError.
- Release tool: a failing `mvn versions:set` (line 211), or a committed
  `Version.java` without the snapshot line of the release (line 151),
  raises after some or all poms were changed. `find_release_version` is
  documented (159–161) as the check that refuses such a tree, but it reads
  only the root pom. Nothing restores the files, so the next run is
  refused by `git diff` until the user restores them. The model reaches
  both traces; `AbsSpec` shows that nothing is built from that tree.
- Release tool: run as the usage comment (22–24) says, without `-B`, the
  import at line 31 writes `dev-tools/__pycache__`. If git does not ignore
  it, `ensure_checkout_is_clean` refuses the checkout (103–105), and the
  script prints its own hint about `-B`.
- The port errors and HTTP errors are generic `Exception`s. The model
  names them `PortInUse` and `HTTPError` to tell them apart.

## 4. Proofs

`BwcFixture_proofs` proves five results with TLAPS. They hold for all
constants that satisfy `Assumptions`: finite `Versions`, positive
`PollAttempts`, and natural-number bounds.

- **`TypeCorrect`** proves `Spec => []TypeOK`.
  - `TypeOK` alone is not inductive: `Kill` and `Exit` add to `leaked`.
    An invocation leaks at most one directory, when it ends, so `leaked`
    stays within `MaxRuns`.
  - The inductive invariant is `TypeInv`: `TypeOK`, plus
    `leaked <= runs`, plus `leaked < runs` while an invocation is under
    way.
  - The step proof has one case per disjunct of `Next`.
  - Two lemmas cover the shared operators: `ReleaseStepType` for the
    release-directory statements and `RequestType` for the HTTP writes.
  - `GlobOrdersType` shows that every `--all` order is a sequence of
    versions.
- **`ArchivesQuiesced`** proves `Spec => []ArchivesFromStoppedNode`.
  - The inductive invariant `StopInv` adds the control fact
    `pc \in {"compress", "zip"} => proc = "exited"`. It holds because
    `WaitExit` requires the node to have exited, and no node step leaves
    `exited`.
  - `StopInvFrame` discharges every action that neither touches the
    archives nor enters compress or zip with a live node.
  - `Compress`, `Zip`, `WaitExit` and the node steps are argued directly.
- **`NodeInv`** (lemma `NodeInvInvariant`) holds for all constants,
  including late interrupts.
  - `Alive => node`: only `Spawn` makes a node alive, and it sets main()'s
    `node`. `WaitExit` clears `node` only once the process has exited.
    `Kill` and `Exit` orphan a live process, and it then counts as the
    other instance, not as ours.
  - No node is alive at `idle`, `loop`, `tmpMade`, `rmtree` and `done`.
- **`CleanFinally`** proves
  `~LateInterrupts => (Spec => []CleanExit)`, with or without another
  instance (`Foreign`). The hypothesis is the point: `bwc_late_interrupt`
  shows the property failing without it.
  - The inductive invariant `CleanInv` is `NodeInv` plus two facts.
    No node is alive at `failed`. No temporary directory exists at
    `idle`, `loop`, `done` and `failed`.
  - Both facts fail when Ctrl-C reaches `tmpMade` or the finally block,
    because those steps go to `failed` directly.
  - So the finally block finds `node` set whenever the process is alive.
    It stops the process and waits before `rmtree`.
- **`ArchivesHoldFixture`** proves `~Foreign => (Spec => []ArchivesComplete)`.
  The hypothesis is the point: `bwc_port_race` shows the property failing
  when another instance takes the ports after the probe.
  - The inductive invariant `CompleteInv` says that from `spawn` to `zip`
    no other instance holds the ports. It holds because `ProbePorts` only
    goes on when they are free, and without `Foreign` only `Kill` and
    `Exit` take them, both ending the invocation.
  - It also says the items accumulate with `pc`: the user before
    `putRole`, the role before `index`, and all of `Items` from `health`
    to `zip`.
  - Given the type invariant, `Zip` then writes a complete archive.
- **`NodeStoppedBeforeRmtree`** proves `Spec => TmpRemovedAfterNodeStops`,
  an action property, for all constants: with or without another
  instance, and with late interrupts.
  - The step proof, from `NodeInv` and `TypeInv`, has one case per
    disjunct of `Next`.
  - Only three steps set `tmp` to FALSE. `Kill` and `Exit` increment
    `leaked` when they do, and `TypeInv` gives a natural number for
    `leaked`, so its new value differs. `RemoveTmp` runs at `rmtree`,
    where `NodeInv` says no node is alive.
  - PTL then lifts the step fact with `NodeInvInvariant` and
    `TypeInvInvariant`.

`ReleaseCandidate_proofs` proves five results for all constants that
satisfy `Assumptions`:

- **`TypeCorrect`**: `Spec => []TypeOK`.
- **`VersionFileSafe`**: `Spec => []VersionFileRecoverable`.
- **`TempFilesBounded`**: `Spec => []TempFilesLeakOnlyOnCrash`.
- **`Refinement`**: `Spec => AbsSpec`, for every set of invocations,
  `--push-s3` without `--deploy` included.
- **`UserChangesKept`**: `Spec => KeepsUserChanges`, an action property.

None of the three invariants is inductive on its own. They rest on
`IInv == TypeOK /\ RunInv /\ TmpInv`:

- `RunInv` records what a run at each statement knows of the checkout.
  Past `git diff` there are no local changes. Past `find_release_version`
  the committed poms are snapshots. The poms turn to release one tree after
  another. `Version.java` goes from its committed content through `missing`
  to `release`.
- `TmpInv` ties the temporary files to `pc`. The process holds one exactly
  between `mkstemp` and its removal or move. `Version.java` is missing only
  just before the move, or after a killed run, before the next run gets
  past `git diff`.

`UserChangesKept` uses the same `IInv`. Past `ensure_checkout_is_clean`,
`RunInv` says the checkout has no local changes. At
`ensure_checkout_is_clean` no step changes a file: the lemma
`CleanStepKeepsFiles` goes through every action. Every other step that
writes a file has a `pc` guard past that point.

The step lemmas (`TypeStep`, `RunStep`, `TmpStep`) have one case per
action. `RefineStep` shows, from `IInv` alone, that each action maps to
an abstract step or a stutter:

- `Prepare` at the end of `process_file`;
- `Break` when a run raises or is killed with changes;
- `Restore` for `git checkout`;
- `Discard` for the `rmtree` of the local repository;
- `Build` for install/deploy, `s3cmd sync` and `build_repositories.sh`.
  All three run past `process_file`, where `BuiltReleased` shows that the
  checkout maps to `released`.

Without `--deploy`, `s3cmd sync` uploads an emptied repository. The mapping
sees no new publication then, so the step is a stutter. The abstract
specification does not say what is uploaded, and `rc_push_alone` reports
this defect.

What stays with TLC:

- Liveness (`InvocationEnds`). It depends on fairness and ENABLED, which
  the prover does not handle.
- The version-order results. They depend on what `Split` and `Decimal`
  compute, which needs induction over data.
- `ArchivesComplete` with another instance. It is violated there
  (`bwc_port_race`).
- `CleanExit` with late interrupts. It is violated there
  (`bwc_late_interrupt`).
- The violation runs' properties, which are false by design.

## 5. Hazards

`PROJECT.json` lists the hazards: each at the line where it bites, with the
properties that cover it. The main ones for the fixture generator:

- the check-then-act port race;
- the unread pipes;
- the delete-before-zip order;
- the non-restored `cwd`;
- SIGKILL between `mkdtemp` and `rmtree`;
- Ctrl-C between `mkdtemp` and `try:`, and inside the finally block;
- the lexical version order.

For the release tool:

- the remove-then-move of `process_file`, and its temporary files;
- three `versions:set` runs with no rollback;
- the late `Version.java` check at line 151;
- the text match on `git status`;
- the script's own `__pycache__`;
- push without deploy;
- a half-uploaded deploy. The model does not tell which artifacts were
  uploaded, so no property covers this.

## 6. What is not modelled, and the plan

Not modelled yet:

- `update_reference_docs`. It is imported from a module that is not in the
  repository, and is modelled only as a nondeterministic result.
- Logging, console colours and the mail template. They are output only.
- The output-directory check of `parse_config`. It runs before any state
  changes.

Planned next:

- An abstract specification of a fixture run, in which a version either
  gets a complete archive or the run fails with everything cleaned up,
  with `BwcFixture` shown to refine it under `~Foreign`.
- For the release tool: a liveness property (every run ends under
  `WF_vars(Script)`), and artifact-level detail of a failed deploy.
