--------------------------- MODULE ReleaseCandidate ---------------------------
(***************************************************************************)
(* dev-tools/prepare_release_candidate.py.  One run checks that the        *)
(* checkout is clean and even with origin, reads the release version from  *)
(* the root pom.xml, checks the reference docs, runs `mvn versions:set` in *)
(* dev-tools, rest-api-spec and the root, rewrites Version.java through    *)
(* process_file, empties the local Maven repository and, with --deploy,    *)
(* builds into it, and with --push-s3 syncs it to S3 and builds the        *)
(* package repositories.  Any failing command raises RuntimeError and the  *)
(* run stops where it is: the script has no cleanup.                       *)
(*                                                                         *)
(* The model keeps what outlives a run: the tracked files (three pom trees *)
(* and Version.java), untracked files, the temporary files of process_file *)
(* in /tmp, the local repository and the remote staging areas.  Runs are   *)
(* steps of one behaviour; between them the user may restore the checkout  *)
(* or remove untracked files, and a run may be killed between any two of   *)
(* its steps.                                                              *)
(***************************************************************************)
EXTENDS Naturals

CONSTANTS
    ArgSets,          \* invocations: flags -d, -i, -p and python's -B
    CommittedPoms,    \* the version the committed poms may carry
    CommittedVersionFiles, \* what the committed Version.java may hold
    Branches,         \* how the branch may stand against origin
    MayFail,          \* whether commands run() calls may exit non-zero
    MaxRuns,          \* runs of the script in one behaviour
    MaxCrashes        \* runs that may be killed

Flags == [deploy : BOOLEAN, installOnly : BOOLEAN, push : BOOLEAN, B : BOOLEAN]

\* Version.java as far as remove_version_snapshot can tell: the line
\* `new Version(V_<release>_ID, true` (snapshot), the same with false
\* (release), neither because the constant is named differently (other).
VersionContents == {"snapshot", "release", "other"}

ASSUME Assumptions ==
    /\ ArgSets \subseteq Flags
    /\ CommittedPoms \subseteq {"snapshot", "release"}
    /\ CommittedVersionFiles \subseteq VersionContents
    /\ Branches \subseteq {"even", "behind", "ahead", "diverged"}
    /\ MayFail \in BOOLEAN
    /\ MaxRuns \in Nat
    /\ MaxCrashes \in Nat

Trees == {"dev-tools", "rest-api-spec", "root"}

\* The callback of remove_version_snapshot applied to every line.
SnapshotRemoved == [snapshot |-> "release", release |-> "release", other |-> "other"]

\* Temporary files of process_file hold a rewritten Version.java.
TmpContents == VersionContents

RepoStates == {"absent", "partial", "installed", "cleaned", "renamed"}

\* Where a run can be: between runs (idle) or before one of its statements.
Steps == {"idle", "clean", "find", "doc", "setDev", "setRest", "setRoot",
          "write", "remove", "move", "drop", "repo", "install", "cleanRepo",
          "rename", "s3", "buildRepo"}

Outcomes == {"none", "running", "ok", "killed", "dirty", "untracked", "behind",
             "ahead", "noSnapshot", "pendingDocs", "RuntimeError",
             "snapshotKept"}

VARIABLES
    pc, args, outcome, runs, crashes,
    pom, versionFile, committedPom, committedVF, localMods, untracked, pycache, branch,
    tmps, tmpMine,
    repo, staged, s3, repos

runVars == <<pc, args, outcome, runs, crashes>>
checkoutVars == <<pom, versionFile, committedPom, committedVF, localMods, untracked, pycache, branch>>
tmpVars == <<tmps, tmpMine>>
outVars == <<repo, staged, s3, repos>>
vars == <<runVars, checkoutVars, tmpVars, outVars>>

TypeOK ==
    /\ pc \in Steps
    /\ args \in Flags
    /\ outcome \in Outcomes
    /\ runs \in 0..MaxRuns
    /\ crashes \in 0..MaxCrashes
    /\ pom \in [Trees -> {"snapshot", "release"}]
    /\ versionFile \in VersionContents \cup {"missing"}
    /\ committedPom \in CommittedPoms
    /\ committedVF \in CommittedVersionFiles
    /\ localMods \in BOOLEAN
    /\ untracked \in BOOLEAN
    /\ pycache \in BOOLEAN
    /\ branch \in Branches
    /\ tmps \in [TmpContents -> Nat]
    /\ tmpMine \in TmpContents \cup {"none"}
    /\ repo \in RepoStates
    /\ staged \in BOOLEAN
    /\ s3 \subseteq RepoStates
    /\ repos \in BOOLEAN

\* The checkout at some commit, with or without changes of the user's own;
\* nothing of a run exists yet.
Init ==
    /\ pc = "idle"
    /\ args = [deploy |-> FALSE, installOnly |-> FALSE, push |-> FALSE, B |-> FALSE]
    /\ outcome = "none"
    /\ runs = 0
    /\ crashes = 0
    /\ committedPom \in CommittedPoms
    /\ pom = [t \in Trees |-> committedPom]
    /\ committedVF \in CommittedVersionFiles
    /\ versionFile = committedVF
    /\ localMods \in BOOLEAN
    /\ untracked \in BOOLEAN
    /\ pycache \in BOOLEAN
    /\ branch \in Branches
    /\ tmps = [c \in TmpContents |-> 0]
    /\ tmpMine = "none"
    /\ repo = "absent"
    /\ staged = FALSE
    /\ s3 = {}
    /\ repos = FALSE

\* `git diff --shortstat` is non-empty: a tracked file differs from HEAD.
Dirty ==
    \/ localMods
    \/ \E t \in Trees : pom[t] # committedPom
    \/ versionFile # committedVF

\* `git status` lists untracked files.
Untracked == untracked \/ pycache

\* run(command): os.system returns the exit status; non-zero raises.
RunResults == IF MayFail THEN BOOLEAN ELSE {TRUE}

\* An exception ends the run where it is raised.
Raise(e) == pc' = "idle" /\ outcome' = e

\* The run ends normally.
Finish == pc' = "idle" /\ outcome' = "ok"

-----------------------------------------------------------------------------
(***************************************************************************)
(* A run.  Starting python3 on the script imports                         *)
(* prepare_release_update_documentation, which writes                      *)
(* dev-tools/__pycache__ unless python runs with -B.                       *)
(***************************************************************************)
ImportWritesBytecode(a) == pycache \/ ~a.B

Start(a) ==
    /\ pc = "idle"
    /\ runs < MaxRuns
    /\ args' = a
    /\ runs' = runs + 1
    /\ pycache' = ImportWritesBytecode(a)
    /\ pc' = "clean"
    /\ outcome' = "running"
    /\ UNCHANGED <<crashes, pom, versionFile, committedPom, committedVF, localMods,
                   untracked, branch, tmpVars, outVars>>

Invoke == \E a \in ArgSets : Start(a)

\* Mutant: the git diff check left out.
EnsureCheckoutIsCleanNoDiff ==
    /\ pc = "clean"
    /\ \/ Untracked /\ Raise("untracked")
       \/ ~Untracked /\ branch \in {"behind", "ahead"} /\ Raise(branch)
       \/ ~Untracked /\ branch \in {"even", "diverged"} /\ pc' = "find"
          /\ UNCHANGED outcome
    /\ UNCHANGED <<args, runs, crashes, checkoutVars, tmpVars, outVars>>

\* ensure_checkout_is_clean: git diff, then the git status checks for
\* untracked files, 'is behind' and 'is ahead', in this order.  A branch
\* that has diverged from origin says neither.
EnsureCheckoutIsClean ==
    /\ pc = "clean"
    /\ \/ Dirty /\ Raise("dirty")
       \/ ~Dirty /\ Untracked /\ Raise("untracked")
       \/ ~Dirty /\ ~Untracked /\ branch \in {"behind", "ahead"} /\ Raise(branch)
       \/ ~Dirty /\ ~Untracked /\ branch \in {"even", "diverged"} /\ pc' = "find"
          /\ UNCHANGED outcome
    /\ UNCHANGED <<args, runs, crashes, checkoutVars, tmpVars, outVars>>

\* find_release_version: the first `<version>...-SNAPSHOT</version>` line
\* of the root pom.xml, or RuntimeError.
FindReleaseVersion ==
    /\ pc = "find"
    /\ \/ pom["root"] = "snapshot" /\ pc' = "doc" /\ UNCHANGED outcome
       \/ pom["root"] = "release" /\ Raise("noSnapshot")
    /\ UNCHANGED <<args, runs, crashes, checkoutVars, tmpVars, outVars>>

\* The version string is the one release of the model, so the format check
\* of main() passes.  skip_doc_check is a store_false flag with default
\* False: it is False whatever the arguments, so update_reference_docs
\* always runs; pending documentation changes raise.
DocCheck ==
    /\ pc = "doc"
    /\ \/ pc' = "setDev" /\ UNCHANGED outcome
       \/ Raise("pendingDocs")
    /\ UNCHANGED <<args, runs, crashes, checkoutVars, tmpVars, outVars>>

\* run('cd <tree> && mvn versions:set -DnewVersion=<release> ...').
VersionsSet(t, at, next) ==
    /\ pc = at
    /\ \E ok \in RunResults :
          \/ ok /\ pom' = [pom EXCEPT ![t] = "release"] /\ pc' = next /\ UNCHANGED outcome
          \/ ~ok /\ Raise("RuntimeError") /\ UNCHANGED pom
    /\ UNCHANGED <<args, runs, crashes, versionFile, committedPom, committedVF, localMods,
                   untracked, pycache, branch, tmpVars, outVars>>

SetDevTools == VersionsSet("dev-tools", "setDev", "setRest")
SetRestApiSpec == VersionsSet("rest-api-spec", "setRest", "setRoot")
SetRoot == VersionsSet("root", "setRoot", "write")

\* Mutant: a temporary file that is deleted when it is closed.
ProcessFileWriteDeleteOnClose ==
    /\ pc = "write"
    /\ tmpMine' = SnapshotRemoved[versionFile]
    /\ pc' = (IF SnapshotRemoved[versionFile] # versionFile THEN "remove" ELSE "drop")
    /\ UNCHANGED <<args, outcome, runs, crashes, checkoutVars, tmps, outVars>>

(***************************************************************************)
(* remove_version_snapshot(VERSION_FILE, release) and its process_file.    *)
(* mkstemp creates the temporary file and the rewritten lines are written  *)
(* to it (Version.java is there: a run that got past git diff has it as    *)
(* committed); then either the original is removed and the temporary file *)
(* moved in its place, or, when no line changed, the temporary file is     *)
(* removed and RuntimeError raised.                                        *)
(***************************************************************************)
ProcessFileWrite ==
    /\ pc = "write"
    /\ tmps' = [tmps EXCEPT ![SnapshotRemoved[versionFile]] = @ + 1]
    /\ tmpMine' = SnapshotRemoved[versionFile]
    /\ pc' = (IF SnapshotRemoved[versionFile] # versionFile THEN "remove" ELSE "drop")
    /\ UNCHANGED <<args, outcome, runs, crashes, checkoutVars, outVars>>

\* os.remove(file_path)
ProcessFileRemove ==
    /\ pc = "remove"
    /\ versionFile' = "missing"
    /\ pc' = "move"
    /\ UNCHANGED <<args, outcome, runs, crashes, pom, committedPom, committedVF, localMods,
                   untracked, pycache, branch, tmpVars, outVars>>

\* Mutant: the temporary file removed again after the move.
ProcessFileMoveRemovesTmp ==
    /\ pc = "move"
    /\ versionFile' = tmpMine
    /\ tmps' = [tmps EXCEPT ![tmpMine] = @ - 2]
    /\ tmpMine' = "none"
    /\ pc' = "repo"
    /\ UNCHANGED <<args, outcome, runs, crashes, pom, committedPom, committedVF, localMods,
                   untracked, pycache, branch, outVars>>

\* shutil.move(abs_path, file_path)
ProcessFileMove ==
    /\ pc = "move"
    /\ versionFile' = tmpMine
    /\ tmps' = [tmps EXCEPT ![tmpMine] = @ - 1]
    /\ tmpMine' = "none"
    /\ pc' = "repo"
    /\ UNCHANGED <<args, outcome, runs, crashes, pom, committedPom, committedVF, localMods,
                   untracked, pycache, branch, outVars>>

\* Mutant: RuntimeError raised before the temporary file is removed.
ProcessFileDropKeepsTmp ==
    /\ pc = "drop"
    /\ tmpMine' = "none"
    /\ Raise("snapshotKept")
    /\ UNCHANGED <<args, runs, crashes, checkoutVars, tmps, outVars>>

\* os.remove(abs_path); process_file returns False and
\* remove_version_snapshot raises 'failed to remove snapshot version'.
ProcessFileDrop ==
    /\ pc = "drop"
    /\ tmps' = [tmps EXCEPT ![tmpMine] = @ - 1]
    /\ tmpMine' = "none"
    /\ Raise("snapshotKept")
    /\ UNCHANGED <<args, runs, crashes, checkoutVars, outVars>>

(***************************************************************************)
(* The build.  The local repository /tmp/elasticsearch-<release>-<hash> is *)
(* the same for every run on one commit; its org/elasticsearch directory   *)
(* is removed first.  Without --deploy the build commands are only         *)
(* printed; without --push-s3 so are the push commands.                    *)
(***************************************************************************)
\* After the local repository: push, or the run is over.
PushOrFinish ==
    \/ args.push /\ pc' = "s3" /\ UNCHANGED outcome
    \/ ~args.push /\ Finish

\* shutil.rmtree(localRepoElasticsearch) if it exists.
CleanLocalRepo ==
    /\ pc = "repo"
    /\ repo' = "absent"
    /\ \/ args.deploy /\ pc' = "install" /\ UNCHANGED outcome
       \/ ~args.deploy /\ PushOrFinish
    /\ UNCHANGED <<args, runs, crashes, checkoutVars, tmpVars, staged, s3, repos>>

\* run('mvn clean <install|deploy> -Prelease ... -Dmaven.repo.local=...'):
\* deploy uploads to the staging repository while it builds, so a failed
\* deploy may have uploaded part of the artifacts.
Install ==
    /\ pc = "install"
    /\ \E ok \in RunResults :
          \/ ok /\ repo' = "installed" /\ staged' = (staged \/ ~args.installOnly)
             /\ pc' = "cleanRepo" /\ UNCHANGED outcome
          \/ ~ok /\ repo' = "partial" /\ staged' \in {staged, staged \/ ~args.installOnly}
             /\ Raise("RuntimeError")
    /\ UNCHANGED <<args, runs, crashes, checkoutVars, tmpVars, s3, repos>>

\* run('find <repo> -name _remote.repositories -exec rm {} \;').
CleanRepo ==
    /\ pc = "cleanRepo"
    /\ \E ok \in RunResults :
          \/ ok /\ repo' = "cleaned" /\ pc' = "rename" /\ UNCHANGED outcome
          \/ ~ok /\ Raise("RuntimeError") /\ UNCHANGED repo
    /\ UNCHANGED <<args, runs, crashes, checkoutVars, tmpVars, staged, s3, repos>>

\* rename_local_meta_files: maven-metadata-local.xml* lose '-local'.
RenameLocalMetaFiles ==
    /\ pc = "rename"
    /\ repo' = "renamed"
    /\ PushOrFinish
    /\ UNCHANGED <<args, runs, crashes, checkoutVars, tmpVars, staged, s3, repos>>

\* run('s3cmd sync <repo> s3://.../staging/<release>-<hash>/org/'): what
\* the local repository holds now is added to the staging area.
S3Sync ==
    /\ pc = "s3"
    /\ \E ok \in RunResults :
          \/ ok /\ s3' = s3 \cup {repo} /\ pc' = "buildRepo" /\ UNCHANGED outcome
          \/ ~ok /\ Raise("RuntimeError") /\ UNCHANGED s3
    /\ UNCHANGED <<args, runs, crashes, checkoutVars, tmpVars, repo, staged, repos>>

\* run('dev-tools/build_repositories.sh <major.minor>', S3_BUCKET_SYNC_TO):
\* the apt and yum repositories are built from the staging area.
BuildRepositories ==
    /\ pc = "buildRepo"
    /\ \E ok \in RunResults :
          \/ ok /\ repos' = TRUE /\ Finish
          \/ ~ok /\ Raise("RuntimeError") /\ UNCHANGED repos
    /\ UNCHANGED <<args, runs, crashes, checkoutVars, tmpVars, repo, staged, s3>>

-----------------------------------------------------------------------------
(***************************************************************************)
(* Outside the script.  A run is killed (Ctrl-C: the script catches no     *)
(* KeyboardInterrupt and has no finally) between two statements; its      *)
(* temporary file stays in /tmp.  Between runs the user restores the       *)
(* tracked files (git checkout -- .) or removes untracked ones (git clean),*)
(* as the error messages of ensure_checkout_is_clean ask.                 *)
(***************************************************************************)
Crash ==
    /\ pc # "idle"
    /\ crashes < MaxCrashes
    /\ crashes' = crashes + 1
    /\ tmpMine' = "none"
    /\ pc' = "idle"
    /\ outcome' = "killed"
    /\ UNCHANGED <<args, runs, checkoutVars, tmps, outVars>>

Restore ==
    /\ pc = "idle"
    /\ pom' = [t \in Trees |-> committedPom]
    /\ versionFile' = committedVF
    /\ localMods' = FALSE
    /\ UNCHANGED <<runVars, committedPom, committedVF, untracked, pycache, branch,
                   tmpVars, outVars>>

GitClean ==
    /\ pc = "idle"
    /\ untracked' = FALSE
    /\ pycache' = FALSE
    /\ UNCHANGED <<runVars, pom, versionFile, committedPom, committedVF, localMods,
                   branch, tmpVars, outVars>>

\* The statements of the script.
Script ==
    \/ EnsureCheckoutIsClean \/ FindReleaseVersion \/ DocCheck
    \/ SetDevTools \/ SetRestApiSpec \/ SetRoot
    \/ ProcessFileWrite \/ ProcessFileRemove \/ ProcessFileMove \/ ProcessFileDrop
    \/ CleanLocalRepo \/ Install \/ CleanRepo \/ RenameLocalMetaFiles
    \/ S3Sync \/ BuildRepositories

Next ==
    \/ Invoke \/ Script
    \/ Crash \/ Restore \/ GitClean

(***************************************************************************)
(* The script is one process that goes from statement to statement until   *)
(* it ends or raises; the user and Ctrl-C are not fair.                    *)
(***************************************************************************)
Spec == Init /\ [][Next]_vars /\ WF_vars(Script)

-----------------------------------------------------------------------------
(***************************************************************************)
(* Properties.                                                             *)
(***************************************************************************)

\* Temporary files in /tmp, of whatever content.
TmpCount == tmps["snapshot"] + tmps["release"] + tmps["other"]

(***************************************************************************)
(* process_file removes Version.java (line 131) before it moves the new    *)
(* file in (line 133).  Whenever Version.java is missing from the          *)
(* checkout, a released copy of it is still in /tmp, even when the run    *)
(* was killed between the two and later runs came and went.               *)
(***************************************************************************)
VersionFileRecoverable ==
    versionFile = "missing" => tmps["release"] > 0

(***************************************************************************)
(* process_file removes its temporary file on both of its paths, so a     *)
(* temporary file stays in /tmp only when a run was killed while it held  *)
(* one: at most one leaked file per killed run, besides the one the       *)
(* running process holds.                                                  *)
(***************************************************************************)
TempFilesLeakOnlyOnCrash ==
    TmpCount <= crashes + (IF tmpMine # "none" THEN 1 ELSE 0)

(***************************************************************************)
(* ensure_checkout_is_clean runs `git diff` first so that the script never *)
(* writes over work of the user's own: no step of a run (mvn versions:set, *)
(* process_file's remove and move) changes a tracked file of a checkout    *)
(* that has uncommitted changes.                                           *)
(***************************************************************************)
KeepsUserChanges ==
    [][pc # "idle" /\ <<pom, versionFile>>' # <<pom, versionFile>> => ~localMods]_vars

(***************************************************************************)
(* No run gets past ensure_checkout_is_clean on a branch that has commits *)
(* origin does not have, as its comment 'Make sure we no local unpushed   *)
(* changes' says.                                                          *)
(***************************************************************************)
NoRunWithUnpushedCommits ==
    pc \notin {"idle", "clean"} => branch \notin {"ahead", "diverged"}

(***************************************************************************)
(* --push-s3 syncs the release candidate: when s3cmd sync runs, the local *)
(* repository holds the artifacts this run built, cleaned of               *)
(* _remote.repositories and renamed.                                       *)
(***************************************************************************)
SyncsBuiltRepository ==
    pc = "s3" => repo = "renamed"

(***************************************************************************)
(* The refinement: the tracked files, the local repository and the remote *)
(* staging areas, seen through the mapping below, change only as           *)
(* ReleaseCandidateAbstract allows.  While a run is between the checkout   *)
(* check and the end of process_file its changes are not yet visible: the *)
(* checkout still counts as committed.                                     *)
(***************************************************************************)
Preparing == {"find", "doc", "setDev", "setRest", "setRoot", "write", "remove", "move", "drop"}

Released == (\A t \in Trees : pom[t] = "release") /\ versionFile = "release" /\ ~localMods

treeBar ==
    IF pc \in Preparing \/ ~Dirty THEN "committed"
    ELSE IF Released THEN "released" ELSE "modified"

localBar == IF repo \in {"installed", "cleaned", "renamed"} THEN "staged" ELSE "none"

publishedBar == staged \/ "renamed" \in s3 \/ repos

Abs == INSTANCE ReleaseCandidateAbstract
           WITH tree <- treeBar, local <- localBar, published <- publishedBar

AbsSpec == Abs!Spec

=============================================================================
