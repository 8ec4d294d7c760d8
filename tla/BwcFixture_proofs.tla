------------------------- MODULE BwcFixture_proofs -------------------------
(***************************************************************************)
(* Proofs about BwcFixture, for every value of the constants that          *)
(* satisfies Assumptions.                                                  *)
(***************************************************************************)
EXTENDS BwcFixture, FiniteSetTheorems, TLAPS

(***************************************************************************)
(* TypeOK is not inductive by itself: Kill and Exit add the temporary      *)
(* directory an invocation leaves to `leaked`, bounded by MaxRuns only     *)
(* because an invocation leaks at most one, when it ends.                  *)
(***************************************************************************)
TypeInv ==
    /\ TypeOK
    /\ leaked <= runs
    /\ pc # "idle" => leaked < runs

\* A function into a set is a function into any superset of it.
LEMMA FunctionRangeWiden ==
    ASSUME NEW A, NEW B, NEW C, B \subseteq C, NEW f \in [A -> B]
    PROVE  f \in [A -> C]
  OBVIOUS

\* Every order --all can run the versions in is a sequence of versions.
LEMMA GlobOrdersType ==
    ASSUME NEW S \in SUBSET Versions
    PROVE  GlobOrders(S) \subseteq Seq(Versions)
<1>1. Cardinality(S) \in Nat
  BY Assumptions, FS_Subset, FS_CardinalityType
<1>. QED
  BY <1>1 DEF GlobOrders

(***************************************************************************)
(* A statement that changes only the release directory, and a write of     *)
(* generate_security_index, keep the type whatever their outcome.          *)
(***************************************************************************)
LEMMA ReleaseStepType ==
    ASSUME TypeInv, NEW at \in TrySteps, NEW next \in TrySteps,
           NEW r \in [Releases -> SUBSET ReleaseParts], NEW ok, NEW mayFail,
           NEW e \in Exceptions,
           ReleaseStep(at, next, r, ok, mayFail, e)
    PROVE  TypeInv'
<1>. USE Assumptions DEF TypeInv, TypeOK, Steps, TrySteps, OutsideTry, invVars, nodeVars, diskVars
<1>1. CASE ok /\ release' = r /\ pc' = next /\ UNCHANGED exc
  BY <1>1 DEF ReleaseStep
<1>2. CASE mayFail /\ Raise(e) /\ UNCHANGED release
  BY <1>2 DEF ReleaseStep, Raise, Steps
<1>. QED
  BY <1>1, <1>2 DEF ReleaseStep

LEMMA RequestType ==
    ASSUME TypeInv, NEW at \in TrySteps, NEW item \in Items, NEW next \in TrySteps,
           NEW e \in Exceptions,
           Request(at, item, next, e)
    PROVE  TypeInv'
<1>. USE Assumptions DEF TypeInv, TypeOK, Steps, TrySteps, OutsideTry, invVars, nodeVars, diskVars
<1>1. CASE OwnNode /\ pipe < PipeCap /\ data' = data \cup {item} /\ pipe' = pipe + 1
           /\ pc' = next /\ UNCHANGED exc
  BY <1>1 DEF Request
<1>2. CASE other /\ pc' = next /\ UNCHANGED <<exc, data, pipe>>
  BY <1>2 DEF Request
<1>3. CASE Raise(e) /\ UNCHANGED <<data, pipe>>
  BY <1>3 DEF Request, Raise, Steps
<1>. QED
  BY <1>1, <1>2, <1>3 DEF Request

\* TypeInv holds in every reachable state; the step proof has one case per
\* disjunct of Next.
LEMMA TypeInvInvariant == Spec => []TypeInv
<1>1. Init => TypeInv
  <2> SUFFICES ASSUME Init PROVE TypeInv
    OBVIOUS
  <2>1. release \in [Releases -> SUBSET ReleaseParts]
    <3>1. release \in [Releases -> {{}, ReleaseParts}]
      BY DEF Init
    <3>2. {{}, ReleaseParts} \subseteq SUBSET ReleaseParts
      OBVIOUS
    <3>. QED
      BY <3>1, <3>2, FunctionRangeWiden
  <2>2. archive \in [Versions -> Archives]
    <3>1. archive \in [Versions -> {Absent, Written(Items, TRUE)}]
      BY DEF Init
    <3>2. {Absent, Written(Items, TRUE)} \subseteq Archives
      BY DEF Archives, Absent, Written
    <3>. QED
      BY <3>1, <3>2, FunctionRangeWiden
  <2>3. /\ pc \in Steps /\ exc \in Exceptions /\ proc \in ProcStates
        /\ node \in BOOLEAN /\ other \in BOOLEAN /\ tmp \in BOOLEAN /\ cwd \in {"orig", "tmp"}
    BY DEF Init, Steps, ProcStates, Exceptions
  <2>4. /\ idx \in Nat \ {0} /\ attempts \in 0..PollAttempts /\ pipe \in 0..PipeCap
        /\ leaked \in 0..MaxRuns /\ runs \in 0..MaxRuns /\ kills \in 0..MaxKills
        /\ leaked <= runs /\ (pc # "idle" => leaked < runs)
    BY Assumptions DEF Init
  <2>5. vers \in Seq(Versions) /\ data \in SUBSET Items /\ had \in SUBSET Versions
    BY DEF Init
  <2>. QED
    BY <2>1, <2>2, <2>3, <2>4, <2>5 DEF TypeInv, TypeOK
<1>2. TypeInv /\ [Next]_vars => TypeInv'
  <2> SUFFICES ASSUME TypeInv, [Next]_vars PROVE TypeInv'
    OBVIOUS
  <2> USE Assumptions DEF TypeInv, TypeOK, Steps, TrySteps, OutsideTry, Exceptions, ProcStates,
                         invVars, nodeVars, diskVars, ReleaseParts, Plugins, Items
  <2>1. CASE InvokeWithVersions
    BY <2>1 DEF InvokeWithVersions, StartInvocation, Archived
  <2>2. CASE InvokeAll
    BY <2>2, GlobOrdersType DEF InvokeAll, StartInvocation, Archived
  <2>3. CASE LoopDone
    BY <2>3 DEF LoopDone
  <2>4. CASE BadVersion
    BY <2>4 DEF BadVersion, AtVersion
  <2>5. CASE SkipVersion
    BY <2>5 DEF SkipVersion, AtVersion
  <2>6. CASE MissingRelease
    BY <2>6 DEF MissingRelease, AtVersion
  <2>7. CASE BeginVersion
    BY <2>7 DEF BeginVersion, AtVersion
  <2>8. CASE RemovePlugin("license", "rmLicense", "rmShield")
    <3>1. [release EXCEPT ![cur] = @ \ {"license"}] \in [Releases -> SUBSET ReleaseParts]
      BY DEF ReleaseParts, Plugins
    <3>. QED
      BY <2>8, <3>1, ReleaseStepType DEF RemovePlugin, Steps, TrySteps, Exceptions
  <2>9. CASE RemovePlugin("shield", "rmShield", "rmConfig")
    <3>1. [release EXCEPT ![cur] = @ \ {"shield"}] \in [Releases -> SUBSET ReleaseParts]
      BY DEF ReleaseParts, Plugins
    <3>. QED
      BY <2>9, <3>1, ReleaseStepType DEF RemovePlugin, Steps, TrySteps, Exceptions
  <2>10. CASE RemoveShieldConfig
    <3>1. [release EXCEPT ![cur] = @ \ {"config", "admin"}] \in [Releases -> SUBSET ReleaseParts]
      BY DEF ReleaseParts, Plugins
    <3>. QED
      BY <2>10, <3>1, ReleaseStepType DEF RemoveShieldConfig, Steps, TrySteps, Exceptions
  <2>11. CASE InstallPlugin("license", "instLicense", "instShield")
    <3>1. [release EXCEPT ![cur] = @ \cup {"license"} \cup (IF "license" = "shield" THEN {"config"} ELSE {})] \in [Releases -> SUBSET ReleaseParts]
      BY DEF ReleaseParts, Plugins
    <3>. QED
      BY <2>11, <3>1, ReleaseStepType DEF InstallPlugin, Steps, TrySteps, Exceptions
  <2>12. CASE InstallPlugin("shield", "instShield", "useradd")
    <3>1. [release EXCEPT ![cur] = @ \cup {"shield"} \cup (IF "shield" = "shield" THEN {"config"} ELSE {})] \in [Releases -> SUBSET ReleaseParts]
      BY DEF ReleaseParts, Plugins
    <3>. QED
      BY <2>12, <3>1, ReleaseStepType DEF InstallPlugin, Steps, TrySteps, Exceptions
  <2>13. CASE UserAdd
    <3>1. [release EXCEPT ![cur] = @ \cup {"admin"}] \in [Releases -> SUBSET ReleaseParts]
      BY DEF ReleaseParts, Plugins
    <3>. QED
      BY <2>13, <3>1, ReleaseStepType DEF UserAdd, Steps, TrySteps, Exceptions
  <2>14. CASE ProbePorts
    BY <2>14 DEF ProbePorts, Raise
  <2>15. CASE Spawn
    BY <2>15 DEF Spawn
  <2>16. CASE PollSucceeds
    BY <2>16 DEF PollSucceeds
  <2>17. CASE PollFails
    BY <2>17 DEF PollFails, Raise
  <2>18. CASE PutUser
    BY <2>18, RequestType DEF PutUser, Items, Steps, TrySteps, Exceptions
  <2>19. CASE PutRole
    BY <2>19, RequestType DEF PutRole, Items, Steps, TrySteps, Exceptions
  <2>20. CASE IndexDocs
    BY <2>20, RequestType DEF IndexDocs, Items, Steps, TrySteps, Exceptions
  <2>21. CASE WaitHealth
    BY <2>21 DEF WaitHealth, Raise
  <2>22. CASE Shutdown
    BY <2>22 DEF Shutdown, Terminated
  <2>23. CASE WaitExit
    BY <2>23 DEF WaitExit
  <2>24. CASE Compress
    BY <2>24 DEF Compress, Archives, Absent
  <2>25. CASE Zip
    <3>1. CASE /\ archive' = [archive EXCEPT ![cur] = Written(data, ~Alive)]
               /\ cwd' = "orig" /\ pc' = "finally" /\ UNCHANGED exc
      BY <2>25, <3>1 DEF Zip, Archives, Written
    <3>2. CASE Raise("CalledProcessError") /\ UNCHANGED <<archive, cwd>>
      BY <2>25, <3>2 DEF Zip, Raise
    <3>. QED
      BY <2>25, <3>1, <3>2 DEF Zip
  <2>26. CASE Finally
    BY <2>26 DEF Finally, Terminated
  <2>27. CASE FinallyWait
    BY <2>27 DEF FinallyWait
  <2>28. CASE RemoveTmp
    <3>1. CASE exc = "none" /\ idx' = idx + 1 /\ pc' = "loop"
      <4>1. idx' \in Nat \ {0}
        BY <3>1
      <4>2. pc' \in Steps
        BY <3>1
      <4>3. tmp' \in BOOLEAN
        BY <2>28 DEF RemoveTmp
      <4>4. UNCHANGED <<exc, node, cwd, attempts, invVars, nodeVars, leaked, data,
                        release, archive>>
        BY <2>28 DEF RemoveTmp
      <4>5. pc # "idle" /\ pc' # "idle"
        BY <2>28, <3>1 DEF RemoveTmp
      <4>. QED
        BY <4>1, <4>2, <4>3, <4>4, <4>5
    <3>2. CASE exc # "none" /\ pc' = "failed" /\ UNCHANGED idx
      BY <2>28, <3>2 DEF RemoveTmp
    <3>. QED
      BY <2>28, <3>1, <3>2 DEF RemoveTmp
  <2>29. CASE Exit
    <3>1. leaked' \in 0..MaxRuns /\ leaked' <= runs' /\ (pc' # "idle" => leaked' < runs')
      <4>1. CASE tmp
        BY <2>29, <4>1 DEF Exit
      <4>2. CASE ~tmp
        BY <2>29, <4>2 DEF Exit
      <4>. QED
        BY <4>1, <4>2
    <3>2. proc' \in ProcStates /\ other' \in BOOLEAN
      BY <2>29 DEF Exit, Orphaned
    <3>4. pc' \in Steps /\ tmp' \in BOOLEAN
      BY <2>29 DEF Exit
    <3>5. cwd' \in {"orig", "tmp"} /\ pipe' \in 0..PipeCap
      BY <2>29 DEF Exit
    <3>3. UNCHANGED <<idx, exc, node, attempts, invVars, data, release, archive>>
      BY <2>29 DEF Exit
    <3>. QED
      BY <3>1, <3>2, <3>3, <3>4, <3>5
  <2>30. CASE Interrupt
    BY <2>30 DEF Interrupt, Raise
  <2>31. CASE Kill
    <3>1. /\ leaked' \in 0..MaxRuns /\ leaked' <= runs' /\ (pc' # "idle" => leaked' < runs')
          /\ kills' \in 0..MaxKills
      <4>1. CASE tmp
        BY <2>31, <4>1 DEF Kill
      <4>2. CASE ~tmp
        BY <2>31, <4>2 DEF Kill
      <4>. QED
        BY <4>1, <4>2
    <3>2. proc' \in ProcStates /\ other' \in BOOLEAN
      BY <2>31 DEF Kill, Orphaned
    <3>3. pc' \in Steps
      BY <2>31 DEF Kill
    <3>4. node' \in BOOLEAN
      BY <2>31 DEF Kill
    <3>5. tmp' \in BOOLEAN
      BY <2>31 DEF Kill
    <3>6. cwd' \in {"orig", "tmp"}
      BY <2>31 DEF Kill
    <3>7. pipe' \in 0..PipeCap
      BY <2>31 DEF Kill
    <3>8. UNCHANGED <<idx, exc, attempts, vers, runs, had, data, release, archive>>
      BY <2>31 DEF Kill
    <3>. QED
      BY <3>1, <3>2, <3>3, <3>4, <3>5, <3>6, <3>7, <3>8
  <2>32. CASE NodeUp
    BY <2>32 DEF NodeUp, NodeStep
  <2>33. CASE NodeBindFails
    BY <2>33 DEF NodeBindFails, NodeStep
  <2>34. CASE NodeCrash
    BY <2>34 DEF NodeCrash, NodeStep
  <2>35. CASE NodeStop
    BY <2>35 DEF NodeStop, NodeStep
  <2>36. CASE ForeignStart
    BY <2>36 DEF ForeignStart
  <2>37. CASE Finished
    BY <2>37 DEF Finished, vars
  <2>38. CASE UNCHANGED vars
    BY <2>38 DEF vars
  <2>39. CASE EnterTry
    BY <2>39 DEF EnterTry
  <2>40. CASE InterruptOutsideTry
    BY <2>40 DEF InterruptOutsideTry, OutsideTry
  <2>. QED
    BY <2>1, <2>2, <2>3, <2>4, <2>5, <2>6, <2>7, <2>8, <2>9, <2>10, <2>11, <2>12,
       <2>13, <2>14, <2>15, <2>16, <2>17, <2>18, <2>19, <2>20, <2>21, <2>22,
       <2>23, <2>24, <2>25, <2>26, <2>27, <2>28, <2>29, <2>30, <2>31, <2>32,
       <2>33, <2>34, <2>35, <2>36, <2>37, <2>38, <2>39, <2>40
       DEF Next, Script
<1>. QED
  BY <1>1, <1>2, PTL DEF Spec

(***************************************************************************)
(* The state of the script, the node and the files keeps its type in every *)
(* step: in particular create_client's attempts stay within range(0, 30),  *)
(* the unread pipe within its capacity and `leaked` within MaxRuns.        *)
(***************************************************************************)
THEOREM TypeCorrect == Spec => []TypeOK
<1>1. TypeInv => TypeOK
  BY DEF TypeInv
<1>. QED
  BY <1>1, TypeInvInvariant, PTL
-----------------------------------------------------------------------------
(***************************************************************************)
(* ArchivesFromStoppedNode needs the control fact behind it: between       *)
(* shutdown_node's wait() and the end of compress_index the spawned node   *)
(* has exited, and an exited node never runs again until the next Spawn.   *)
(***************************************************************************)
StopInv ==
    /\ pc \in {"compress", "zip"} => proc = "exited"
    /\ ArchivesFromStoppedNode

\* A step that leaves the archives alone and does not enter compress or zip
\* with a node that has not exited keeps StopInv.
LEMMA StopInvFrame ==
    ASSUME StopInv, archive' = archive,
           \/ pc' \notin {"compress", "zip"}
           \/ pc' = pc /\ proc' = proc
    PROVE  StopInv'
  BY DEF StopInv, ArchivesFromStoppedNode, Archived

LEMMA StopInvInvariant == Spec => []StopInv
<1>1. Init => StopInv
  BY DEF Init, StopInv, ArchivesFromStoppedNode, Archived, Absent, Written
<1>2. TypeInv /\ StopInv /\ [Next]_vars => StopInv'
  <2> SUFFICES ASSUME TypeInv, StopInv, [Next]_vars PROVE StopInv'
    OBVIOUS
  <2> USE DEF invVars, nodeVars, diskVars
  <2>1. CASE InvokeWithVersions
    BY <2>1, StopInvFrame DEF InvokeWithVersions, StartInvocation
  <2>2. CASE InvokeAll
    BY <2>2, StopInvFrame DEF InvokeAll, StartInvocation
  <2>3. CASE LoopDone
    BY <2>3, StopInvFrame DEF LoopDone
  <2>4. CASE BadVersion
    BY <2>4, StopInvFrame DEF BadVersion, AtVersion
  <2>5. CASE SkipVersion
    BY <2>5, StopInvFrame DEF SkipVersion, AtVersion
  <2>6. CASE MissingRelease
    BY <2>6, StopInvFrame DEF MissingRelease, AtVersion
  <2>7. CASE BeginVersion
    BY <2>7, StopInvFrame DEF BeginVersion, AtVersion
  <2>8. CASE RemovePlugin("license", "rmLicense", "rmShield")
    BY <2>8, StopInvFrame DEF RemovePlugin, ReleaseStep, Raise
  <2>9. CASE RemovePlugin("shield", "rmShield", "rmConfig")
    BY <2>9, StopInvFrame DEF RemovePlugin, ReleaseStep, Raise
  <2>10. CASE RemoveShieldConfig
    BY <2>10, StopInvFrame DEF RemoveShieldConfig, ReleaseStep, Raise
  <2>11. CASE InstallPlugin("license", "instLicense", "instShield")
    BY <2>11, StopInvFrame DEF InstallPlugin, ReleaseStep, Raise
  <2>12. CASE InstallPlugin("shield", "instShield", "useradd")
    BY <2>12, StopInvFrame DEF InstallPlugin, ReleaseStep, Raise
  <2>13. CASE UserAdd
    BY <2>13, StopInvFrame DEF UserAdd, ReleaseStep, Raise
  <2>14. CASE ProbePorts
    BY <2>14, StopInvFrame DEF ProbePorts, Raise
  <2>15. CASE Spawn
    BY <2>15, StopInvFrame DEF Spawn
  <2>16. CASE PollSucceeds
    BY <2>16, StopInvFrame DEF PollSucceeds
  <2>17. CASE PollFails
    BY <2>17, StopInvFrame DEF PollFails, Raise
  <2>18. CASE PutUser
    BY <2>18, StopInvFrame DEF PutUser, Request, Raise
  <2>19. CASE PutRole
    BY <2>19, StopInvFrame DEF PutRole, Request, Raise
  <2>20. CASE IndexDocs
    BY <2>20, StopInvFrame DEF IndexDocs, Request, Raise
  <2>21. CASE WaitHealth
    BY <2>21, StopInvFrame DEF WaitHealth, Raise
  <2>22. CASE Shutdown
    BY <2>22, StopInvFrame DEF Shutdown
  <2>23. CASE WaitExit
    <3>1. proc' = "exited" /\ archive' = archive
      BY <2>23 DEF WaitExit
    <3>. QED
      BY <3>1 DEF StopInv, ArchivesFromStoppedNode, Archived
  <2>24. CASE Compress
    <3>1. \A v \in Versions : archive'[v].present => archive'[v].quiesced
      BY <2>24 DEF Compress, Absent, StopInv, ArchivesFromStoppedNode, Archived,
                   TypeInv, TypeOK
    <3>2. proc' = "exited"
      BY <2>24 DEF Compress, StopInv
    <3>. QED
      BY <3>1, <3>2 DEF StopInv, ArchivesFromStoppedNode, Archived
  <2>25. CASE Zip
    <3>1. CASE archive' = [archive EXCEPT ![cur] = Written(data, ~Alive)] /\ pc' = "finally"
      <4>1. ~Alive
        BY <2>25 DEF Zip, Alive, StopInv
      <4>2. \A v \in Versions : archive'[v].present => archive'[v].quiesced
        BY <3>1, <4>1 DEF Written, StopInv, ArchivesFromStoppedNode, Archived,
                          TypeInv, TypeOK
      <4>. QED
        BY <3>1, <4>2 DEF StopInv, ArchivesFromStoppedNode, Archived
    <3>2. CASE Raise("CalledProcessError") /\ UNCHANGED <<archive, cwd>>
      BY <3>2, StopInvFrame DEF Raise
    <3>. QED
      BY <2>25, <3>1, <3>2 DEF Zip
  <2>26. CASE Finally
    BY <2>26, StopInvFrame DEF Finally
  <2>27. CASE FinallyWait
    BY <2>27, StopInvFrame DEF FinallyWait
  <2>28. CASE RemoveTmp
    BY <2>28, StopInvFrame DEF RemoveTmp
  <2>29. CASE Exit
    BY <2>29, StopInvFrame DEF Exit
  <2>30. CASE Interrupt
    BY <2>30, StopInvFrame DEF Interrupt, Raise
  <2>31. CASE Kill
    BY <2>31, StopInvFrame DEF Kill
  <2>32. CASE NodeUp
    <3>1. proc \in {"starting", "up", "stopping"} /\ pc' = pc /\ archive' = archive
      BY <2>32 DEF NodeUp, NodeStep, diskVars
    <3>. QED
      BY <3>1, StopInvFrame DEF StopInv
  <2>33. CASE NodeBindFails
    <3>1. proc \in {"starting", "up", "stopping"} /\ pc' = pc /\ archive' = archive
      BY <2>33 DEF NodeBindFails, NodeStep, diskVars
    <3>. QED
      BY <3>1, StopInvFrame DEF StopInv
  <2>34. CASE NodeCrash
    <3>1. proc \in {"starting", "up", "stopping"} /\ pc' = pc /\ archive' = archive
      BY <2>34 DEF NodeCrash, NodeStep, diskVars
    <3>. QED
      BY <3>1, StopInvFrame DEF StopInv
  <2>35. CASE NodeStop
    <3>1. proc \in {"starting", "up", "stopping"} /\ pc' = pc /\ archive' = archive
      BY <2>35 DEF NodeStop, NodeStep, diskVars
    <3>. QED
      BY <3>1, StopInvFrame DEF StopInv
  <2>36. CASE ForeignStart
    BY <2>36, StopInvFrame DEF ForeignStart
  <2>37. CASE Finished
    BY <2>37, StopInvFrame DEF Finished, vars
  <2>38. CASE UNCHANGED vars
    BY <2>38, StopInvFrame DEF vars
  <2>39. CASE EnterTry
    BY <2>39, StopInvFrame DEF EnterTry
  <2>40. CASE InterruptOutsideTry
    BY <2>40, StopInvFrame DEF InterruptOutsideTry
  <2>. QED
    BY <2>1, <2>2, <2>3, <2>4, <2>5, <2>6, <2>7, <2>8, <2>9, <2>10, <2>11, <2>12,
       <2>13, <2>14, <2>15, <2>16, <2>17, <2>18, <2>19, <2>20, <2>21, <2>22,
       <2>23, <2>24, <2>25, <2>26, <2>27, <2>28, <2>29, <2>30, <2>31, <2>32,
       <2>33, <2>34, <2>35, <2>36, <2>37, <2>38, <2>39, <2>40
       DEF Next, Script
<1>. QED
  BY <1>1, <1>2, TypeInvInvariant, PTL DEF Spec

(***************************************************************************)
(* Every archive in the output directory was zipped from the data          *)
(* directory of a node that had exited: shutdown_node waits for the node   *)
(* before compress_index runs, for every number of versions, attempts,     *)
(* runs and kills.                                                         *)
(***************************************************************************)
THEOREM ArchivesQuiesced == Spec => []ArchivesFromStoppedNode
<1>1. StopInv => ArchivesFromStoppedNode
  BY DEF StopInv
<1>. QED
  BY <1>1, StopInvInvariant, PTL
-----------------------------------------------------------------------------
(***************************************************************************)
(* Two control facts hold whatever the interrupts do.  A node that is      *)
(* alive was spawned by this version (main()'s `node` is set), so the      *)
(* finally block stops it and waits; and at the head of the loop, between  *)
(* mkdtemp and `try:`, at rmtree, after the loop and between invocations   *)
(* no node is alive.  Kill and Exit orphan a live node, which then counts  *)
(* as the other instance, not as our process.                              *)
(***************************************************************************)
NodeInv ==
    /\ Alive => node
    /\ pc \in {"idle", "loop", "tmpMade", "done", "rmtree"} => ~Alive

LEMMA NodeInvInvariant == Spec => []NodeInv
<1>1. Init => NodeInv
  BY DEF Init, NodeInv, Alive
<1>2. NodeInv /\ [Next]_vars => NodeInv'
  <2> SUFFICES ASSUME NodeInv, [Next]_vars PROVE NodeInv'
    OBVIOUS
  <2> USE DEF NodeInv, Alive, invVars, nodeVars, diskVars
  <2>1. CASE InvokeWithVersions
    BY <2>1 DEF InvokeWithVersions, StartInvocation
  <2>2. CASE InvokeAll
    BY <2>2 DEF InvokeAll, StartInvocation
  <2>3. CASE LoopDone
    BY <2>3 DEF LoopDone
  <2>4. CASE BadVersion
    BY <2>4 DEF BadVersion, AtVersion
  <2>5. CASE SkipVersion
    BY <2>5 DEF SkipVersion, AtVersion
  <2>6. CASE MissingRelease
    BY <2>6 DEF MissingRelease, AtVersion
  <2>7. CASE BeginVersion
    BY <2>7 DEF BeginVersion, AtVersion
  <2>8. CASE RemovePlugin("license", "rmLicense", "rmShield")
    BY <2>8 DEF RemovePlugin, ReleaseStep, Raise
  <2>9. CASE RemovePlugin("shield", "rmShield", "rmConfig")
    BY <2>9 DEF RemovePlugin, ReleaseStep, Raise
  <2>10. CASE RemoveShieldConfig
    BY <2>10 DEF RemoveShieldConfig, ReleaseStep, Raise
  <2>11. CASE InstallPlugin("license", "instLicense", "instShield")
    BY <2>11 DEF InstallPlugin, ReleaseStep, Raise
  <2>12. CASE InstallPlugin("shield", "instShield", "useradd")
    BY <2>12 DEF InstallPlugin, ReleaseStep, Raise
  <2>13. CASE UserAdd
    BY <2>13 DEF UserAdd, ReleaseStep, Raise
  <2>14. CASE ProbePorts
    BY <2>14 DEF ProbePorts, Raise
  <2>15. CASE Spawn
    BY <2>15 DEF Spawn
  <2>16. CASE PollSucceeds
    BY <2>16 DEF PollSucceeds
  <2>17. CASE PollFails
    BY <2>17 DEF PollFails, Raise
  <2>18. CASE PutUser
    BY <2>18 DEF PutUser, Request, Raise
  <2>19. CASE PutRole
    BY <2>19 DEF PutRole, Request, Raise
  <2>20. CASE IndexDocs
    BY <2>20 DEF IndexDocs, Request, Raise
  <2>21. CASE WaitHealth
    BY <2>21 DEF WaitHealth, Raise
  <2>22. CASE Shutdown
    BY <2>22 DEF Shutdown, Terminated
  <2>23. CASE WaitExit
    BY <2>23 DEF WaitExit
  <2>24. CASE Compress
    BY <2>24 DEF Compress
  <2>25. CASE Zip
    BY <2>25 DEF Zip, Raise
  <2>26. CASE Finally
    BY <2>26 DEF Finally, Terminated
  <2>27. CASE FinallyWait
    BY <2>27 DEF FinallyWait
  <2>28. CASE RemoveTmp
    BY <2>28 DEF RemoveTmp
  <2>29. CASE Exit
    BY <2>29 DEF Exit, Orphaned
  <2>30. CASE Interrupt
    BY <2>30 DEF Interrupt, Raise, TrySteps
  <2>31. CASE Kill
    BY <2>31 DEF Kill, Orphaned
  <2>32. CASE NodeUp
    BY <2>32 DEF NodeUp, NodeStep
  <2>33. CASE NodeBindFails
    BY <2>33 DEF NodeBindFails, NodeStep
  <2>34. CASE NodeCrash
    BY <2>34 DEF NodeCrash, NodeStep
  <2>35. CASE NodeStop
    BY <2>35 DEF NodeStop, NodeStep
  <2>36. CASE ForeignStart
    BY <2>36 DEF ForeignStart
  <2>37. CASE Finished
    BY <2>37 DEF Finished, vars
  <2>38. CASE UNCHANGED vars
    BY <2>38 DEF vars
  <2>39. CASE EnterTry
    BY <2>39 DEF EnterTry
  <2>40. CASE InterruptOutsideTry
    BY <2>40 DEF InterruptOutsideTry, OutsideTry
  <2>. QED
    BY <2>1, <2>2, <2>3, <2>4, <2>5, <2>6, <2>7, <2>8, <2>9, <2>10, <2>11, <2>12, <2>13, <2>14, <2>15, <2>16, <2>17, <2>18, <2>19, <2>20, <2>21, <2>22, <2>23, <2>24, <2>25, <2>26, <2>27, <2>28, <2>29, <2>30, <2>31, <2>32, <2>33, <2>34, <2>35, <2>36, <2>37, <2>38, <2>39, <2>40
       DEF Next, Script
<1>. QED
  BY <1>1, <1>2, PTL DEF Spec

(***************************************************************************)
(* CleanExit needs two more, which hold only when no Ctrl-C arrives        *)
(* outside the try block: when main() raises, no node is alive; and at the *)
(* loop head, at its end, when main() raises and between invocations no    *)
(* temporary directory exists.                                             *)
(***************************************************************************)
CleanInv ==
    /\ NodeInv
    /\ pc = "failed" => ~Alive
    /\ pc \in {"idle", "loop", "done", "failed"} => ~tmp
    /\ CleanExit

LEMMA CleanInvInvariant ==
    ASSUME ~LateInterrupts
    PROVE  Spec => []CleanInv
<1>1. Init => CleanInv
  BY DEF Init, CleanInv, NodeInv, CleanExit, Alive
<1>2. CleanInv /\ [Next]_vars => CleanInv'
  <2> SUFFICES ASSUME CleanInv, [Next]_vars PROVE CleanInv'
    OBVIOUS
  <2> USE DEF CleanInv, NodeInv, CleanExit, Alive, invVars, nodeVars, diskVars
  <2>1. CASE InvokeWithVersions
    BY <2>1 DEF InvokeWithVersions, StartInvocation
  <2>2. CASE InvokeAll
    BY <2>2 DEF InvokeAll, StartInvocation
  <2>3. CASE LoopDone
    BY <2>3 DEF LoopDone
  <2>4. CASE BadVersion
    BY <2>4 DEF BadVersion, AtVersion
  <2>5. CASE SkipVersion
    BY <2>5 DEF SkipVersion, AtVersion
  <2>6. CASE MissingRelease
    BY <2>6 DEF MissingRelease, AtVersion
  <2>7. CASE BeginVersion
    BY <2>7 DEF BeginVersion, AtVersion
  <2>8. CASE RemovePlugin("license", "rmLicense", "rmShield")
    BY <2>8 DEF RemovePlugin, ReleaseStep, Raise
  <2>9. CASE RemovePlugin("shield", "rmShield", "rmConfig")
    BY <2>9 DEF RemovePlugin, ReleaseStep, Raise
  <2>10. CASE RemoveShieldConfig
    BY <2>10 DEF RemoveShieldConfig, ReleaseStep, Raise
  <2>11. CASE InstallPlugin("license", "instLicense", "instShield")
    BY <2>11 DEF InstallPlugin, ReleaseStep, Raise
  <2>12. CASE InstallPlugin("shield", "instShield", "useradd")
    BY <2>12 DEF InstallPlugin, ReleaseStep, Raise
  <2>13. CASE UserAdd
    BY <2>13 DEF UserAdd, ReleaseStep, Raise
  <2>14. CASE ProbePorts
    BY <2>14 DEF ProbePorts, Raise
  <2>15. CASE Spawn
    BY <2>15 DEF Spawn
  <2>16. CASE PollSucceeds
    BY <2>16 DEF PollSucceeds
  <2>17. CASE PollFails
    BY <2>17 DEF PollFails, Raise
  <2>18. CASE PutUser
    BY <2>18 DEF PutUser, Request, Raise
  <2>19. CASE PutRole
    BY <2>19 DEF PutRole, Request, Raise
  <2>20. CASE IndexDocs
    BY <2>20 DEF IndexDocs, Request, Raise
  <2>21. CASE WaitHealth
    BY <2>21 DEF WaitHealth, Raise
  <2>22. CASE Shutdown
    BY <2>22 DEF Shutdown, Terminated
  <2>23. CASE WaitExit
    BY <2>23 DEF WaitExit
  <2>24. CASE Compress
    BY <2>24 DEF Compress
  <2>25. CASE Zip
    BY <2>25 DEF Zip, Raise
  <2>26. CASE Finally
    BY <2>26 DEF Finally, Terminated
  <2>27. CASE FinallyWait
    BY <2>27 DEF FinallyWait
  <2>28. CASE RemoveTmp
    BY <2>28 DEF RemoveTmp
  <2>29. CASE Exit
    BY <2>29 DEF Exit, Orphaned
  <2>30. CASE Interrupt
    BY <2>30 DEF Interrupt, Raise, TrySteps
  <2>31. CASE Kill
    BY <2>31 DEF Kill, Orphaned
  <2>32. CASE NodeUp
    BY <2>32 DEF NodeUp, NodeStep
  <2>33. CASE NodeBindFails
    BY <2>33 DEF NodeBindFails, NodeStep
  <2>34. CASE NodeCrash
    BY <2>34 DEF NodeCrash, NodeStep
  <2>35. CASE NodeStop
    BY <2>35 DEF NodeStop, NodeStep
  <2>36. CASE ForeignStart
    BY <2>36 DEF ForeignStart
  <2>37. CASE Finished
    BY <2>37 DEF Finished, vars
  <2>38. CASE UNCHANGED vars
    BY <2>38 DEF vars
  <2>39. CASE EnterTry
    BY <2>39 DEF EnterTry
  <2>40. CASE InterruptOutsideTry
    BY <2>40 DEF InterruptOutsideTry
  <2>. QED
    BY <2>1, <2>2, <2>3, <2>4, <2>5, <2>6, <2>7, <2>8, <2>9, <2>10, <2>11, <2>12, <2>13, <2>14, <2>15, <2>16, <2>17, <2>18, <2>19, <2>20, <2>21, <2>22, <2>23, <2>24, <2>25, <2>26, <2>27, <2>28, <2>29, <2>30, <2>31, <2>32, <2>33, <2>34, <2>35, <2>36, <2>37, <2>38, <2>39, <2>40
       DEF Next, Script
<1>. QED
  BY <1>1, <1>2, PTL DEF Spec

(***************************************************************************)
(* The finally block of main() cleans up: whenever an invocation reaches   *)
(* its end, with or without an exception raised in the try block, the      *)
(* temporary directory of the last version is removed and the node it      *)
(* spawned is no longer running, for every number of versions, runs, kills *)
(* and with or without another instance on the ports.  The hypothesis is   *)
(* the point: a Ctrl-C between mkdtemp and `try:` or inside the finally    *)
(* block defeats the cleanup, as the bwc_late_interrupt run shows.         *)
(***************************************************************************)
THEOREM CleanFinally == ~LateInterrupts => (Spec => []CleanExit)
<1> SUFFICES ASSUME ~LateInterrupts PROVE Spec => []CleanExit
  OBVIOUS
<1>1. CleanInv => CleanExit
  BY DEF CleanInv
<1>. QED
  BY <1>1, CleanInvInvariant, PTL
-----------------------------------------------------------------------------
(***************************************************************************)
(* ArchivesComplete when no other instance starts on the ports (~Foreign): *)
(* once start_node has found the ports free nothing but our node holds     *)
(* them until the invocation ends, so every request of                     *)
(* generate_security_index that returns reaches our node, and the items    *)
(* accumulate in the order the script writes them.  A node orphaned by a   *)
(* kill holds the ports too, but then ProbePorts raises before the spawn.  *)
(***************************************************************************)
CompleteInv ==
    /\ pc \in {"spawn", "poll", "putUser", "putRole", "index", "health", "shutdown",
               "wait", "compress", "zip"} => ~other
    /\ pc = "putRole" => "user" \in data
    /\ pc = "index" => {"user", "role"} \subseteq data
    /\ pc \in {"health", "shutdown", "wait", "compress", "zip"} => data = Items
    /\ ArchivesComplete

LEMMA CompleteInvInvariant ==
    ASSUME ~Foreign
    PROVE  Spec => []CompleteInv
<1>1. Init => CompleteInv
  BY DEF Init, CompleteInv, ArchivesComplete, Archived, Absent, Written
<1>2. TypeInv /\ CompleteInv /\ [Next]_vars => CompleteInv'
  <2> SUFFICES ASSUME TypeInv, CompleteInv, [Next]_vars PROVE CompleteInv'
    OBVIOUS
  <2> USE DEF CompleteInv, ArchivesComplete, Archived, invVars, nodeVars, diskVars
  <2>1. CASE InvokeWithVersions
    BY <2>1 DEF InvokeWithVersions, StartInvocation
  <2>2. CASE InvokeAll
    BY <2>2 DEF InvokeAll, StartInvocation
  <2>3. CASE LoopDone
    BY <2>3 DEF LoopDone
  <2>4. CASE BadVersion
    BY <2>4 DEF BadVersion, AtVersion
  <2>5. CASE SkipVersion
    BY <2>5 DEF SkipVersion, AtVersion
  <2>6. CASE MissingRelease
    BY <2>6 DEF MissingRelease, AtVersion
  <2>7. CASE BeginVersion
    BY <2>7 DEF BeginVersion, AtVersion
  <2>8. CASE RemovePlugin("license", "rmLicense", "rmShield")
    BY <2>8 DEF RemovePlugin, ReleaseStep, Raise
  <2>9. CASE RemovePlugin("shield", "rmShield", "rmConfig")
    BY <2>9 DEF RemovePlugin, ReleaseStep, Raise
  <2>10. CASE RemoveShieldConfig
    BY <2>10 DEF RemoveShieldConfig, ReleaseStep, Raise
  <2>11. CASE InstallPlugin("license", "instLicense", "instShield")
    BY <2>11 DEF InstallPlugin, ReleaseStep, Raise
  <2>12. CASE InstallPlugin("shield", "instShield", "useradd")
    BY <2>12 DEF InstallPlugin, ReleaseStep, Raise
  <2>13. CASE UserAdd
    BY <2>13 DEF UserAdd, ReleaseStep, Raise
  <2>14. CASE ProbePorts
    BY <2>14 DEF ProbePorts, Raise
  <2>15. CASE Spawn
    BY <2>15 DEF Spawn
  <2>16. CASE PollSucceeds
    BY <2>16 DEF PollSucceeds
  <2>17. CASE PollFails
    BY <2>17 DEF PollFails, Raise
  <2>18. CASE PutUser
    <3>1. CASE OwnNode /\ pipe < PipeCap /\ data' = data \cup {"user"} /\ pipe' = pipe + 1
               /\ pc' = "putRole" /\ UNCHANGED exc
      BY <2>18, <3>1 DEF PutUser, Request
    <3>2. CASE other /\ pc' = "putRole" /\ UNCHANGED <<exc, data, pipe>>
      BY <2>18, <3>2 DEF PutUser, Request
    <3>3. CASE Raise("HTTPError") /\ UNCHANGED <<data, pipe>>
      BY <2>18, <3>3 DEF PutUser, Request, Raise
    <3>. QED
      BY <2>18, <3>1, <3>2, <3>3 DEF PutUser, Request
  <2>19. CASE PutRole
    <3>1. CASE OwnNode /\ pipe < PipeCap /\ data' = data \cup {"role"} /\ pipe' = pipe + 1
               /\ pc' = "index" /\ UNCHANGED exc
      BY <2>19, <3>1 DEF PutRole, Request
    <3>2. CASE other /\ pc' = "index" /\ UNCHANGED <<exc, data, pipe>>
      BY <2>19, <3>2 DEF PutRole, Request
    <3>3. CASE Raise("HTTPError") /\ UNCHANGED <<data, pipe>>
      BY <2>19, <3>3 DEF PutRole, Request, Raise
    <3>. QED
      BY <2>19, <3>1, <3>2, <3>3 DEF PutRole, Request
  <2>20. CASE IndexDocs
    <3>1. CASE OwnNode /\ pipe < PipeCap /\ data' = data \cup {"docs"} /\ pipe' = pipe + 1
               /\ pc' = "health" /\ UNCHANGED exc
      <4>1. data' = Items
        BY <2>20, <3>1 DEF IndexDocs, Request, TypeInv, TypeOK, Items
      <4>. QED
        BY <2>20, <3>1, <4>1 DEF IndexDocs, Request
    <3>2. CASE other /\ pc' = "health" /\ UNCHANGED <<exc, data, pipe>>
      BY <2>20, <3>2 DEF IndexDocs, Request
    <3>3. CASE Raise("TransportError") /\ UNCHANGED <<data, pipe>>
      BY <2>20, <3>3 DEF IndexDocs, Request, Raise
    <3>. QED
      BY <2>20, <3>1, <3>2, <3>3 DEF IndexDocs, Request
  <2>21. CASE WaitHealth
    BY <2>21 DEF WaitHealth, Raise
  <2>22. CASE Shutdown
    BY <2>22 DEF Shutdown, Terminated
  <2>23. CASE WaitExit
    BY <2>23 DEF WaitExit
  <2>24. CASE Compress
    <3>1. \A v \in Versions : archive'[v].present => archive'[v].items = Items
      BY <2>24 DEF Compress, Absent, TypeInv, TypeOK
    <3>. QED
      BY <2>24, <3>1 DEF Compress
  <2>25. CASE Zip
    <3>1. CASE /\ archive' = [archive EXCEPT ![cur] = Written(data, ~Alive)]
               /\ cwd' = "orig" /\ pc' = "finally" /\ UNCHANGED exc
      <4>1. \A v \in Versions : archive'[v].present => archive'[v].items = Items
        BY <2>25, <3>1 DEF Zip, Written, TypeInv, TypeOK
      <4>. QED
        BY <2>25, <3>1, <4>1 DEF Zip
    <3>2. CASE Raise("CalledProcessError") /\ UNCHANGED <<archive, cwd>>
      BY <2>25, <3>2 DEF Zip, Raise
    <3>. QED
      BY <2>25, <3>1, <3>2 DEF Zip
  <2>26. CASE Finally
    BY <2>26 DEF Finally, Terminated
  <2>27. CASE FinallyWait
    BY <2>27 DEF FinallyWait
  <2>28. CASE RemoveTmp
    BY <2>28 DEF RemoveTmp
  <2>29. CASE Exit
    BY <2>29 DEF Exit, Orphaned
  <2>30. CASE Interrupt
    BY <2>30 DEF Interrupt, Raise, TrySteps
  <2>31. CASE Kill
    BY <2>31 DEF Kill, Orphaned
  <2>32. CASE NodeUp
    BY <2>32 DEF NodeUp, NodeStep
  <2>33. CASE NodeBindFails
    BY <2>33 DEF NodeBindFails, NodeStep
  <2>34. CASE NodeCrash
    BY <2>34 DEF NodeCrash, NodeStep
  <2>35. CASE NodeStop
    BY <2>35 DEF NodeStop, NodeStep
  <2>36. CASE ForeignStart
    BY <2>36 DEF ForeignStart
  <2>37. CASE Finished
    BY <2>37 DEF Finished, vars
  <2>38. CASE UNCHANGED vars
    BY <2>38 DEF vars
  <2>39. CASE EnterTry
    BY <2>39 DEF EnterTry
  <2>40. CASE InterruptOutsideTry
    BY <2>40 DEF InterruptOutsideTry
  <2>. QED
    BY <2>1, <2>2, <2>3, <2>4, <2>5, <2>6, <2>7, <2>8, <2>9, <2>10, <2>11, <2>12, <2>13, <2>14, <2>15, <2>16, <2>17, <2>18, <2>19, <2>20, <2>21, <2>22, <2>23, <2>24, <2>25, <2>26, <2>27, <2>28, <2>29, <2>30, <2>31, <2>32, <2>33, <2>34, <2>35, <2>36, <2>37, <2>38, <2>39, <2>40
       DEF Next, Script
<1>. QED
  BY <1>1, <1>2, TypeInvInvariant, PTL DEF Spec

(***************************************************************************)
(* When no other instance starts on 9200/9300, every archive in the output *)
(* directory holds the whole fixture of generate_security_index (user,     *)
(* role and documents), for every number of versions, attempts, runs and   *)
(* kills.  With another instance the requests may go to it instead: the    *)
(* bwc_port_race run shows that trace.                                     *)
(***************************************************************************)
THEOREM ArchivesHoldFixture == ~Foreign => (Spec => []ArchivesComplete)
<1> SUFFICES ASSUME ~Foreign PROVE Spec => []ArchivesComplete
  OBVIOUS
<1>1. CompleteInv => ArchivesComplete
  BY DEF CompleteInv
<1>. QED
  BY <1>1, CompleteInvInvariant, PTL
-----------------------------------------------------------------------------
(***************************************************************************)
(* The finally block stops our node, and waits for it, before shutil.rmtree *)
(* removes the temporary directory that holds its data and logs: whenever   *)
(* a step deletes that directory, other than to leave it behind (SIGKILL,  *)
(* or an exit past an interrupted finally block, count it in `leaked`), no  *)
(* node of ours is alive, for every value of the constants, interrupts     *)
(* outside the try block included.  Only rmtree removes it so, and NodeInv *)
(* says that at rmtree the node is down.                                   *)
(***************************************************************************)
THEOREM NodeStoppedBeforeRmtree == Spec => TmpRemovedAfterNodeStops
<1>1. NodeInv /\ TypeInv /\ [Next]_vars
        => [tmp /\ ~tmp' /\ leaked' = leaked => ~Alive]_vars
  <2> SUFFICES ASSUME NodeInv, TypeInv, [Next]_vars,
                      tmp, ~tmp', leaked' = leaked
               PROVE  ~Alive
    OBVIOUS
  <2> USE DEF NodeInv, TypeInv, TypeOK, Alive, invVars, nodeVars, diskVars
  <2>1. CASE InvokeWithVersions
    BY <2>1 DEF InvokeWithVersions, StartInvocation
  <2>2. CASE InvokeAll
    BY <2>2 DEF InvokeAll, StartInvocation
  <2>3. CASE LoopDone
    BY <2>3 DEF LoopDone
  <2>4. CASE BadVersion
    BY <2>4 DEF BadVersion, AtVersion
  <2>5. CASE SkipVersion
    BY <2>5 DEF SkipVersion, AtVersion
  <2>6. CASE MissingRelease
    BY <2>6 DEF MissingRelease, AtVersion
  <2>7. CASE BeginVersion
    BY <2>7 DEF BeginVersion, AtVersion
  <2>8. CASE RemovePlugin("license", "rmLicense", "rmShield")
    BY <2>8 DEF RemovePlugin, ReleaseStep, Raise
  <2>9. CASE RemovePlugin("shield", "rmShield", "rmConfig")
    BY <2>9 DEF RemovePlugin, ReleaseStep, Raise
  <2>10. CASE RemoveShieldConfig
    BY <2>10 DEF RemoveShieldConfig, ReleaseStep, Raise
  <2>11. CASE InstallPlugin("license", "instLicense", "instShield")
    BY <2>11 DEF InstallPlugin, ReleaseStep, Raise
  <2>12. CASE InstallPlugin("shield", "instShield", "useradd")
    BY <2>12 DEF InstallPlugin, ReleaseStep, Raise
  <2>13. CASE UserAdd
    BY <2>13 DEF UserAdd, ReleaseStep, Raise
  <2>14. CASE ProbePorts
    BY <2>14 DEF ProbePorts, Raise
  <2>15. CASE Spawn
    BY <2>15 DEF Spawn
  <2>16. CASE PollSucceeds
    BY <2>16 DEF PollSucceeds
  <2>17. CASE PollFails
    BY <2>17 DEF PollFails, Raise
  <2>18. CASE PutUser
    BY <2>18 DEF PutUser, Request, Raise
  <2>19. CASE PutRole
    BY <2>19 DEF PutRole, Request, Raise
  <2>20. CASE IndexDocs
    BY <2>20 DEF IndexDocs, Request, Raise
  <2>21. CASE WaitHealth
    BY <2>21 DEF WaitHealth, Raise
  <2>22. CASE Shutdown
    BY <2>22 DEF Shutdown, Terminated
  <2>23. CASE WaitExit
    BY <2>23 DEF WaitExit
  <2>24. CASE Compress
    BY <2>24 DEF Compress
  <2>25. CASE Zip
    BY <2>25 DEF Zip, Raise
  <2>26. CASE Finally
    BY <2>26 DEF Finally, Terminated
  <2>27. CASE FinallyWait
    BY <2>27 DEF FinallyWait
  <2>28. CASE RemoveTmp
    BY <2>28 DEF RemoveTmp
  <2>29. CASE Exit
    BY <2>29 DEF Exit, Orphaned
  <2>30. CASE Interrupt
    BY <2>30 DEF Interrupt, Raise, TrySteps
  <2>31. CASE Kill
    BY <2>31 DEF Kill, Orphaned
  <2>32. CASE NodeUp
    BY <2>32 DEF NodeUp, NodeStep
  <2>33. CASE NodeBindFails
    BY <2>33 DEF NodeBindFails, NodeStep
  <2>34. CASE NodeCrash
    BY <2>34 DEF NodeCrash, NodeStep
  <2>35. CASE NodeStop
    BY <2>35 DEF NodeStop, NodeStep
  <2>36. CASE ForeignStart
    BY <2>36 DEF ForeignStart
  <2>37. CASE Finished
    BY <2>37 DEF Finished, vars
  <2>38. CASE UNCHANGED vars
    BY <2>38 DEF vars
  <2>39. CASE EnterTry
    BY <2>39 DEF EnterTry
  <2>40. CASE InterruptOutsideTry
    BY <2>40 DEF InterruptOutsideTry
  <2>. QED
    BY <2>1, <2>2, <2>3, <2>4, <2>5, <2>6, <2>7, <2>8, <2>9, <2>10, <2>11, <2>12, <2>13, <2>14, <2>15, <2>16, <2>17, <2>18, <2>19, <2>20, <2>21, <2>22, <2>23, <2>24, <2>25, <2>26, <2>27, <2>28, <2>29, <2>30, <2>31, <2>32, <2>33, <2>34, <2>35, <2>36, <2>37, <2>38, <2>39, <2>40
       DEF Next, Script
<1>. QED
  BY <1>1, NodeInvInvariant, TypeInvInvariant, PTL DEF Spec, TmpRemovedAfterNodeStops
=====
