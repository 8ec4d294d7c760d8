------------------------ MODULE ReleaseCandidate_proofs ------------------------
(***************************************************************************)
(* Proofs about ReleaseCandidate: type correctness, the two invariants on  *)
(* Version.java and the temporary files of process_file, and the           *)
(* refinement of ReleaseCandidateAbstract, for every value of the          *)
(* constants.  All rest on one inductive invariant, IInv.                  *)
(***************************************************************************)
EXTENDS ReleaseCandidate, TLAPS

\* The statements after process_file, where the checkout is released.
Built == {"repo", "install", "cleanRepo", "rename", "s3", "buildRepo"}

\* Where a run holds its temporary file.
Holding == {"remove", "move", "drop"}

(***************************************************************************)
(* What a run in progress knows of the checkout, by the statement it is    *)
(* at: past the git diff check nothing of the user's own is changed; past *)
(* find_release_version the committed poms are snapshots; the poms turn    *)
(* to release one tree after the other; Version.java goes from its        *)
(* committed content through missing to release.                           *)
(***************************************************************************)
RunInv ==
    /\ pc # "idle" => args \in ArgSets
    /\ pc \notin {"idle", "clean"} => ~localMods
    /\ pc = "find" => \A t \in Trees : pom[t] = committedPom
    /\ pc \notin {"idle", "clean", "find"} => committedPom = "snapshot"
    /\ pc \in {"setRest", "setRoot"} => pom["dev-tools"] = "release"
    /\ pc = "setRoot" => pom["rest-api-spec"] = "release"
    /\ pc \in {"write"} \cup Holding \cup Built => \A t \in Trees : pom[t] = "release"
    /\ pc \in {"find", "doc", "setDev", "setRest", "setRoot", "write"} => versionFile = committedVF
    /\ pc = "remove" => versionFile = "snapshot"
    /\ pc = "drop" => versionFile \in {"release", "other"} /\ tmpMine = versionFile
    /\ pc \in {"remove", "move"} => tmpMine = "release"
    /\ pc \in Built => versionFile = "release"
    /\ pc = "cleanRepo" => repo = "installed"
    /\ pc = "rename" => repo = "cleaned"
    /\ pc \in {"s3", "buildRepo"} => args.push

(***************************************************************************)
(* The temporary files: the running process holds one exactly while it is *)
(* between mkstemp and its removal or move; Version.java is missing only   *)
(* while the run that removed it is about to move the new file in, or     *)
(* after that run was killed, and never when a later run got past git diff.*)
(***************************************************************************)
TmpInv ==
    /\ (pc \in Holding) = (tmpMine # "none")
    /\ tmpMine # "none" => tmps[tmpMine] >= 1
    /\ versionFile = "missing" => pc \in {"idle", "clean", "move"} /\ tmps["release"] >= 1
    /\ TempFilesLeakOnlyOnCrash

IInv == TypeOK /\ RunInv /\ TmpInv

\* The facts every step below needs: the assumptions and the type of the
\* constants' sets.
LEMMA ConstantFacts ==
    /\ MayFail \in BOOLEAN
    /\ RunResults \subseteq BOOLEAN
    /\ CommittedVersionFiles \subseteq VersionContents
    /\ CommittedPoms \subseteq {"snapshot", "release"}
    /\ ArgSets \subseteq Flags
    /\ Branches \subseteq {"even", "behind", "ahead", "diverged"}
    /\ MaxRuns \in Nat
    /\ MaxCrashes \in Nat
BY Assumptions DEF RunResults

\* The initial states satisfy the invariant.
LEMMA InitIInv == Init => IInv
<1> SUFFICES ASSUME Init PROVE IInv
    OBVIOUS
<1> USE ConstantFacts DEF Init, IInv, Holding, Built
<1>1. TypeOK
      <2>1. pc \in Steps /\ outcome \in Outcomes
            BY DEF Steps, Outcomes
      <2>6. args \in Flags
            BY Zenon DEF Flags
      <2>2. runs \in 0..MaxRuns /\ crashes \in 0..MaxCrashes
            OBVIOUS
      <2>3. pom \in [Trees -> {"snapshot", "release"}]
            BY DEF Trees
      <2>4. tmps \in [TmpContents -> Nat] /\ tmpMine \in TmpContents \cup {"none"}
            OBVIOUS
      <2>5. QED
            BY <2>1, <2>2, <2>3, <2>4, <2>6 DEF TypeOK, RepoStates, VersionContents
<1>2. RunInv
      BY DEF RunInv
<1>3. TmpInv
      BY DEF TmpInv, TempFilesLeakOnlyOnCrash, TmpCount, TmpContents, VersionContents
<1>4. QED
      BY <1>1, <1>2, <1>3

\* Every step keeps the types.
LEMMA TypeStep == TypeOK /\ RunInv /\ TmpInv /\ [Next]_vars => TypeOK'
<1> SUFFICES ASSUME TypeOK, RunInv, TmpInv, [Next]_vars PROVE TypeOK'
    OBVIOUS
<1> USE ConstantFacts DEF runVars, checkoutVars, tmpVars, outVars, vars,
        TypeOK
<1>1. CASE Invoke
      BY <1>1 DEF Invoke, Start, ImportWritesBytecode, Steps, Outcomes, Flags
<1>2. CASE EnsureCheckoutIsClean
      BY <1>2 DEF EnsureCheckoutIsClean, Raise, Dirty, Untracked, Steps, Outcomes
<1>3. CASE FindReleaseVersion
      BY <1>3 DEF FindReleaseVersion, Raise, Steps, Outcomes
<1>4. CASE DocCheck
      BY <1>4 DEF DocCheck, Raise, Steps, Outcomes
<1>5. CASE SetDevTools
      BY <1>5 DEF SetDevTools, VersionsSet, Raise, Steps, Outcomes, Trees
<1>6. CASE SetRestApiSpec
      BY <1>6 DEF SetRestApiSpec, VersionsSet, Raise, Steps, Outcomes, Trees
<1>7. CASE SetRoot
      BY <1>7 DEF SetRoot, VersionsSet, Raise, Steps, Outcomes, Trees
<1>8. CASE ProcessFileWrite
      BY <1>8 DEF ProcessFileWrite, SnapshotRemoved, Steps, Outcomes, TmpContents, VersionContents, RunInv, TmpInv, Holding
<1>9. CASE ProcessFileRemove
      BY <1>9 DEF ProcessFileRemove, Steps, Outcomes, TmpContents, VersionContents
<1>10. CASE ProcessFileMove
       BY <1>10 DEF ProcessFileMove, Steps, Outcomes, TmpContents, VersionContents, RunInv, TmpInv, Holding
<1>11. CASE ProcessFileDrop
       BY <1>11 DEF ProcessFileDrop, Raise, Steps, Outcomes, TmpContents, VersionContents, RunInv, TmpInv, Holding
<1>12. CASE CleanLocalRepo
       BY <1>12 DEF CleanLocalRepo, PushOrFinish, Finish, Steps, Outcomes, RepoStates
<1>13. CASE Install
      <2>1. PICK ok \in RunResults :
                  \/ ok /\ repo' = "installed"
                     /\ staged' = (staged \/ ~args.installOnly)
                     /\ pc' = "cleanRepo" /\ UNCHANGED outcome
                  \/ ~ok /\ repo' = "partial"
                     /\ staged' \in {staged, staged \/ ~args.installOnly}
                     /\ Raise("RuntimeError")
            BY <1>13 DEF Install
      <2>2. staged' \in BOOLEAN
            BY <2>1, Zenon
      <2>3. repo' \in RepoStates /\ pc' \in Steps /\ outcome' \in Outcomes
            BY <2>1 DEF Raise, Steps, Outcomes, RepoStates
      <2>4. QED
            BY <1>13, <2>2, <2>3 DEF Install
<1>14. CASE CleanRepo
       BY <1>14 DEF CleanRepo, Raise, Steps, Outcomes, RepoStates
<1>15. CASE RenameLocalMetaFiles
       BY <1>15 DEF RenameLocalMetaFiles, PushOrFinish, Finish, Steps, Outcomes, RepoStates
<1>16. CASE S3Sync
      <2>1. PICK ok \in RunResults :
                  \/ ok /\ s3' = s3 \cup {repo} /\ pc' = "buildRepo" /\ UNCHANGED outcome
                  \/ ~ok /\ Raise("RuntimeError") /\ UNCHANGED s3
            BY <1>16 DEF S3Sync
      <2>2. s3' \subseteq RepoStates
            BY <2>1 DEF Raise
      <2>3. pc' \in Steps /\ outcome' \in Outcomes
            BY <2>1 DEF Raise, Steps, Outcomes
      <2>4. QED
            BY <1>16, <2>2, <2>3 DEF S3Sync
<1>17. CASE BuildRepositories
       BY <1>17 DEF BuildRepositories, Raise, Finish, Steps, Outcomes
<1>18. CASE Crash
       BY <1>18 DEF Crash, Steps, Outcomes
<1>19. CASE Restore
       BY <1>19 DEF Restore, Steps, Outcomes, Trees
<1>20. CASE GitClean
       BY <1>20 DEF GitClean, Steps, Outcomes
<1>21. CASE UNCHANGED vars
       BY <1>21
<1>22. QED
       BY <1>1, <1>2, <1>3, <1>4, <1>5, <1>6, <1>7, <1>8, <1>9, <1>10, <1>11, <1>12, <1>13, <1>14, <1>15, <1>16, <1>17, <1>18, <1>19, <1>20, <1>21
       DEF Next, Script

\* Every step keeps what a run knows of the checkout.
LEMMA RunStep == TypeOK /\ RunInv /\ [Next]_vars => RunInv'
<1> SUFFICES ASSUME TypeOK, RunInv, [Next]_vars PROVE RunInv'
    OBVIOUS
<1> USE ConstantFacts DEF runVars, checkoutVars, tmpVars, outVars, vars,
        RunInv, Built, Holding, Trees
<1>1. CASE Invoke
      BY <1>1 DEF Invoke, Start, ImportWritesBytecode
<1>2. CASE EnsureCheckoutIsClean
      BY <1>2 DEF EnsureCheckoutIsClean, Raise, Dirty, Untracked
<1>3. CASE FindReleaseVersion
      BY <1>3 DEF FindReleaseVersion, Raise
<1>4. CASE DocCheck
      BY <1>4 DEF DocCheck, Raise
<1>5. CASE SetDevTools
      BY <1>5 DEF SetDevTools, VersionsSet, Raise, TypeOK, VersionContents
<1>6. CASE SetRestApiSpec
      BY <1>6 DEF SetRestApiSpec, VersionsSet, Raise, TypeOK, VersionContents
<1>7. CASE SetRoot
      BY <1>7 DEF SetRoot, VersionsSet, Raise, TypeOK, VersionContents
<1>8. CASE ProcessFileWrite
      BY <1>8 DEF ProcessFileWrite, SnapshotRemoved, TypeOK, VersionContents
<1>9. CASE ProcessFileRemove
      BY <1>9 DEF ProcessFileRemove
<1>10. CASE ProcessFileMove
       BY <1>10 DEF ProcessFileMove
<1>11. CASE ProcessFileDrop
       BY <1>11 DEF ProcessFileDrop, Raise
<1>12. CASE CleanLocalRepo
       BY <1>12 DEF CleanLocalRepo, PushOrFinish, Finish
<1>13. CASE Install
       BY <1>13 DEF Install, Raise
<1>14. CASE CleanRepo
       BY <1>14 DEF CleanRepo, Raise
<1>15. CASE RenameLocalMetaFiles
       BY <1>15 DEF RenameLocalMetaFiles, PushOrFinish, Finish
<1>16. CASE S3Sync
       BY <1>16 DEF S3Sync, Raise
<1>17. CASE BuildRepositories
       BY <1>17 DEF BuildRepositories, Raise, Finish
<1>18. CASE Crash
       BY <1>18 DEF Crash
<1>19. CASE Restore
       BY <1>19 DEF Restore
<1>20. CASE GitClean
       BY <1>20 DEF GitClean
<1>21. CASE UNCHANGED vars
       BY <1>21
<1>22. QED
       BY <1>1, <1>2, <1>3, <1>4, <1>5, <1>6, <1>7, <1>8, <1>9, <1>10, <1>11, <1>12, <1>13, <1>14, <1>15, <1>16, <1>17, <1>18, <1>19, <1>20, <1>21
       DEF Next, Script

\* Every step keeps the invariant of the temporary files.
LEMMA TmpStep == TypeOK /\ RunInv /\ TmpInv /\ [Next]_vars => TmpInv'
<1> SUFFICES ASSUME TypeOK, RunInv, TmpInv, [Next]_vars PROVE TmpInv'
    OBVIOUS
<1> USE ConstantFacts DEF runVars, checkoutVars, tmpVars, outVars, vars,
        TypeOK, TmpInv, TempFilesLeakOnlyOnCrash, TmpCount, Holding, TmpContents, VersionContents
<1>1. CASE Invoke
      BY <1>1 DEF Invoke, Start, ImportWritesBytecode
<1>2. CASE EnsureCheckoutIsClean
      BY <1>2 DEF EnsureCheckoutIsClean, Raise, Dirty, Untracked
<1>3. CASE FindReleaseVersion
      BY <1>3 DEF FindReleaseVersion, Raise
<1>4. CASE DocCheck
      BY <1>4 DEF DocCheck, Raise
<1>5. CASE SetDevTools
      BY <1>5 DEF SetDevTools, VersionsSet, Raise
<1>6. CASE SetRestApiSpec
      BY <1>6 DEF SetRestApiSpec, VersionsSet, Raise
<1>7. CASE SetRoot
      BY <1>7 DEF SetRoot, VersionsSet, Raise
<1>8. CASE ProcessFileWrite
      BY <1>8 DEF ProcessFileWrite, SnapshotRemoved
<1>9. CASE ProcessFileRemove
      BY <1>9 DEF ProcessFileRemove, RunInv
<1>10. CASE ProcessFileMove
       BY <1>10 DEF ProcessFileMove
<1>11. CASE ProcessFileDrop
       BY <1>11 DEF ProcessFileDrop, Raise
<1>12. CASE CleanLocalRepo
       BY <1>12 DEF CleanLocalRepo, PushOrFinish, Finish
<1>13. CASE Install
       BY <1>13 DEF Install, Raise
<1>14. CASE CleanRepo
       BY <1>14 DEF CleanRepo, Raise
<1>15. CASE RenameLocalMetaFiles
       BY <1>15 DEF RenameLocalMetaFiles, PushOrFinish, Finish
<1>16. CASE S3Sync
       BY <1>16 DEF S3Sync, Raise
<1>17. CASE BuildRepositories
       BY <1>17 DEF BuildRepositories, Raise, Finish
<1>18. CASE Crash
       BY <1>18 DEF Crash
<1>19. CASE Restore
       BY <1>19 DEF Restore
<1>20. CASE GitClean
       BY <1>20 DEF GitClean
<1>21. CASE UNCHANGED vars
       BY <1>21
<1>22. QED
       BY <1>1, <1>2, <1>3, <1>4, <1>5, <1>6, <1>7, <1>8, <1>9, <1>10, <1>11, <1>12, <1>13, <1>14, <1>15, <1>16, <1>17, <1>18, <1>19, <1>20, <1>21
       DEF Next, Script

\* The invariant holds in every state of every behaviour.
LEMMA IInvInvariant == Spec => []IInv
<1>1. IInv /\ [Next]_vars => IInv'
      BY TypeStep, RunStep, TmpStep DEF IInv
<1>2. QED
      BY InitIInv, <1>1, PTL DEF Spec

-----------------------------------------------------------------------------
(***************************************************************************)
(* Theorems.                                                               *)
(***************************************************************************)

\* Every variable of ReleaseCandidate keeps its type.
THEOREM TypeCorrect == Spec => []TypeOK
BY IInvInvariant, PTL DEF IInv

(***************************************************************************)
(* Version.java is never lost for good: whenever process_file has removed *)
(* it and not moved the new file in (line 131 to 133), a released copy is  *)
(* in /tmp, for every number of runs and kills.                            *)
(***************************************************************************)
THEOREM VersionFileSafe == Spec => []VersionFileRecoverable
<1>1. IInv => VersionFileRecoverable
      BY DEF IInv, TmpInv, TypeOK, TmpContents, VersionContents, VersionFileRecoverable
<1>2. QED
      BY <1>1, IInvInvariant, PTL

(***************************************************************************)
(* process_file leaks temporary files only through killed runs.            *)
(***************************************************************************)
THEOREM TempFilesBounded == Spec => []TempFilesLeakOnlyOnCrash
BY IInvInvariant, PTL DEF IInv, TmpInv

-----------------------------------------------------------------------------
\* Past process_file the checkout is released and differs from its commit.
LEMMA BuiltReleased ==
    ASSUME TypeOK, RunInv, pc \in Built
    PROVE  treeBar = "released"
BY DEF treeBar, Preparing, Released, Dirty, RunInv, Built, TypeOK, Trees

AbsVars == <<treeBar, localBar, publishedBar>>

\* From a checkout that counts as committed, any change of the tracked
\* files that leaves the local repository and the remotes alone is a step
\* of the abstract specification.
LEMMA FromCommitted ==
    ASSUME treeBar = "committed", UNCHANGED <<repo, staged, s3, repos>>
    PROVE  [Abs!Next]_AbsVars
<1>1. CASE treeBar' = "committed"
      BY <1>1 DEF AbsVars, localBar, publishedBar
<1>2. CASE treeBar' = "released"
      BY <1>2 DEF Abs!Next, Abs!Prepare, localBar, publishedBar
<1>3. CASE treeBar' = "modified"
      BY <1>3 DEF Abs!Next, Abs!Break, localBar, publishedBar
<1>4. QED
      BY <1>1, <1>2, <1>3 DEF treeBar

\* A step that changes none of the three mapped values is a stutter.
LEMMA Stutter ==
    ASSUME treeBar' = treeBar, localBar' = localBar, publishedBar' = publishedBar
    PROVE  [Abs!Next]_AbsVars
BY DEF AbsVars

\* Every step of ReleaseCandidate is a step of ReleaseCandidateAbstract.
LEMMA RefineStep ==
    ASSUME IInv, [Next]_vars
    PROVE  [Abs!Next]_AbsVars
<1> USE DEF IInv, runVars, checkoutVars, tmpVars, outVars, vars
<1> DEFINE Same == treeBar' = treeBar /\ localBar' = localBar /\ publishedBar' = publishedBar
<1>1. CASE Invoke
      <2>1. Same
            BY <1>1 DEF Invoke, Start, ImportWritesBytecode, treeBar, Preparing, Dirty, Released, localBar, publishedBar
      <2>2. QED
            BY <2>1, Stutter
<1>2. CASE EnsureCheckoutIsClean
      <2>1. CASE Dirty
            <3>1. Same
                  BY <1>2, <2>1 DEF EnsureCheckoutIsClean, Raise, treeBar, Preparing, Dirty,
                     Released, localBar, publishedBar
            <3>2. QED
                  BY <3>1, Stutter
      <2>2. CASE ~Dirty
            BY <1>2, <2>2, FromCommitted DEF EnsureCheckoutIsClean, treeBar
      <2>3. QED
            BY <2>1, <2>2
<1>3. CASE FindReleaseVersion \/ DocCheck
      BY <1>3, FromCommitted DEF FindReleaseVersion, DocCheck, treeBar, Preparing
<1>4. CASE SetDevTools \/ SetRestApiSpec \/ SetRoot
      BY <1>4, FromCommitted DEF SetDevTools, SetRestApiSpec, SetRoot, VersionsSet, treeBar,
         Preparing
<1>5. CASE ProcessFileWrite
      BY <1>5, FromCommitted DEF ProcessFileWrite, treeBar, Preparing
<1>6. CASE ProcessFileRemove
      BY <1>6, FromCommitted DEF ProcessFileRemove, treeBar, Preparing
<1>7. CASE ProcessFileMove
      BY <1>7, FromCommitted DEF ProcessFileMove, treeBar, Preparing
<1>8. CASE ProcessFileDrop
      BY <1>8, FromCommitted DEF ProcessFileDrop, treeBar, Preparing
<1>9. CASE CleanLocalRepo
      <2>1. treeBar' = treeBar
            BY <1>9 DEF CleanLocalRepo, PushOrFinish, Finish, treeBar, Preparing, Dirty, Released
      <2>2. QED
            BY <1>9, <2>1 DEF CleanLocalRepo, Abs!Next, Abs!Discard, localBar, publishedBar
<1>10. CASE Install
       <2>1. treeBar = "released"
             BY <1>10, BuiltReleased DEF Install, Built
       <2>2. treeBar' = treeBar
             BY <1>10 DEF Install, Raise, treeBar, Preparing, Dirty, Released
       <2>3. publishedBar' \in {publishedBar, TRUE}
             BY <1>10, ConstantFacts DEF Install, Raise, publishedBar, TypeOK, Flags
       <2>4. localBar' \in {"none", "staged"}
             BY DEF localBar
       <2>5. QED
             BY <2>1, <2>2, <2>3, <2>4 DEF Abs!Next, Abs!Build
<1>11. CASE CleanRepo
       <2>1. Same
             BY <1>11 DEF CleanRepo, Raise, RunInv, treeBar, Preparing, Dirty, Released,
                localBar, publishedBar
       <2>2. QED
             BY <2>1, Stutter
<1>12. CASE RenameLocalMetaFiles
       <2>1. Same
             BY <1>12 DEF RenameLocalMetaFiles, PushOrFinish, Finish, RunInv, treeBar,
                Preparing, Dirty, Released, localBar, publishedBar
       <2>2. QED
             BY <2>1, Stutter
<1>13. CASE S3Sync
       <2>1. treeBar = "released"
             BY <1>13, BuiltReleased DEF S3Sync, Built
       <2>2. treeBar' = treeBar
             BY <1>13 DEF S3Sync, Raise, treeBar, Preparing, Dirty, Released
       <2>3. publishedBar' \in {publishedBar, TRUE}
             BY <1>13 DEF S3Sync, Raise, publishedBar
       <2>4. localBar' \in {"none", "staged"}
             BY DEF localBar
       <2>5. QED
             BY <2>1, <2>2, <2>3, <2>4 DEF Abs!Next, Abs!Build
<1>14. CASE BuildRepositories
       <2>1. treeBar = "released"
             BY <1>14, BuiltReleased DEF BuildRepositories, Built
       <2>2. treeBar' = treeBar
             BY <1>14 DEF BuildRepositories, Raise, Finish, treeBar, Preparing, Dirty, Released
       <2>3. publishedBar' \in {publishedBar, TRUE}
             <3>1. repos' = TRUE \/ repos' = repos
                   BY <1>14 DEF BuildRepositories
             <3>2. UNCHANGED <<staged, s3>>
                   BY <1>14 DEF BuildRepositories
             <3>3. CASE repos' = TRUE
                   BY <3>3 DEF publishedBar
             <3>4. CASE repos' = repos
                   BY <3>2, <3>4 DEF publishedBar
             <3>5. QED
                   BY <3>1, <3>3, <3>4
       <2>4. localBar' \in {"none", "staged"}
             BY DEF localBar
       <2>5. QED
             BY <2>1, <2>2, <2>3, <2>4 DEF Abs!Next, Abs!Build
<1>15. CASE Crash
       <2>1. CASE pc \in Preparing
             BY <1>15, <2>1, FromCommitted DEF Crash, treeBar
       <2>2. CASE pc \notin Preparing
             <3>1. Same
                   BY <1>15, <2>2 DEF Crash, treeBar, Preparing, Dirty, Released, localBar,
                      publishedBar
             <3>2. QED
                   BY <3>1, Stutter
       <2>3. QED
             BY <2>1, <2>2
<1>16. CASE Restore
       BY <1>16 DEF Restore, Abs!Next, Abs!Restore, treeBar, Preparing, Dirty, localBar,
          publishedBar
<1>17. CASE GitClean
       <2>1. Same
             BY <1>17 DEF GitClean, treeBar, Preparing, Dirty, Released, localBar, publishedBar
       <2>2. QED
             BY <2>1, Stutter
<1>18. CASE UNCHANGED vars
       BY <1>18, Stutter DEF treeBar, Preparing, Dirty, Released, localBar, publishedBar
<1>19. QED
       BY <1>1, <1>2, <1>3, <1>4, <1>5, <1>6, <1>7, <1>8, <1>9, <1>10, <1>11, <1>12,
          <1>13, <1>14, <1>15, <1>16, <1>17, <1>18
       DEF Next, Script

(***************************************************************************)
(* ReleaseCandidate implements ReleaseCandidateAbstract under the mapping  *)
(* treeBar, localBar, publishedBar, for every set of invocations: the      *)
(* checkout goes from its commit to the release or to a modified state,   *)
(* and the script builds, stages and publishes (deploy, s3cmd sync,        *)
(* build_repositories.sh) only while the checkout is at the release, even  *)
(* when --push-s3 runs without --deploy.                                   *)
(***************************************************************************)
THEOREM Refinement == Spec => AbsSpec
<1>1. Init => Abs!Init
      BY DEF Init, Abs!Init, treeBar, Preparing, Dirty, Released, localBar, publishedBar
<1>2. IInv /\ [Next]_vars => [Abs!Next]_AbsVars
      BY RefineStep
<1>3. QED
      BY <1>1, <1>2, IInvInvariant, PTL DEF Spec, AbsSpec, Abs!Spec, AbsVars, Abs!vars

-----------------------------------------------------------------------------
(***************************************************************************)
(* While the run is at ensure_checkout_is_clean it has changed nothing: no *)
(* step from there writes a tracked file.                                  *)
(***************************************************************************)
LEMMA CleanStepKeepsFiles ==
    ASSUME pc = "clean", [Next]_vars
    PROVE  UNCHANGED <<pom, versionFile>>
<1> USE DEF runVars, checkoutVars, tmpVars, outVars, vars
<1>1. CASE EnsureCheckoutIsClean \/ Crash \/ UNCHANGED vars
      BY <1>1 DEF EnsureCheckoutIsClean, Crash
<1>2. CASE Invoke \/ Restore \/ GitClean
      BY <1>2 DEF Invoke, Start, Restore, GitClean
<1>3. CASE FindReleaseVersion \/ DocCheck \/ SetDevTools \/ SetRestApiSpec \/ SetRoot
      BY <1>3 DEF FindReleaseVersion, DocCheck, SetDevTools, SetRestApiSpec, SetRoot,
         VersionsSet
<1>4. CASE ProcessFileWrite \/ ProcessFileRemove \/ ProcessFileMove \/ ProcessFileDrop
      BY <1>4 DEF ProcessFileWrite, ProcessFileRemove, ProcessFileMove, ProcessFileDrop
<1>5. CASE CleanLocalRepo \/ Install \/ CleanRepo \/ RenameLocalMetaFiles \/ S3Sync
           \/ BuildRepositories
      BY <1>5 DEF CleanLocalRepo, Install, CleanRepo, RenameLocalMetaFiles, S3Sync,
         BuildRepositories
<1>6. QED
      BY <1>1, <1>2, <1>3, <1>4, <1>5 DEF Next, Script

(***************************************************************************)
(* A run never writes over the user's uncommitted work: every step of a    *)
(* run that changes a pom or Version.java happens on a checkout without    *)
(* local changes.  Past ensure_checkout_is_clean RunInv knows that git     *)
(* diff was empty and that only the run itself has changed files since;    *)
(* at ensure_checkout_is_clean no file changes.                            *)
(***************************************************************************)
THEOREM UserChangesKept == Spec => KeepsUserChanges
<1>1. IInv /\ [Next]_vars
        => [pc # "idle" /\ <<pom, versionFile>>' # <<pom, versionFile>> => ~localMods]_vars
  <2> SUFFICES ASSUME IInv, [Next]_vars,
                      pc # "idle", <<pom, versionFile>>' # <<pom, versionFile>>
               PROVE  ~localMods
      OBVIOUS
  <2>1. CASE pc = "clean"
        BY <2>1, CleanStepKeepsFiles
  <2>2. CASE pc # "clean"
        BY <2>2 DEF IInv, RunInv
  <2>3. QED
        BY <2>1, <2>2
<1>. QED
  BY <1>1, IInvInvariant, PTL DEF Spec, KeepsUserChanges

=====
