----------------------------- MODULE BwcFixture -----------------------------
(***************************************************************************)
(* The fixture generator create_bwc_indexes.py.  For each requested        *)
(* version main() prepares the release directory (plugins, admin user),    *)
(* starts an Elasticsearch node, waits for it, writes the security fixture *)
(* over HTTP, stops the node and zips its data directory; a `finally`      *)
(* block stops the node and removes the temporary directory.               *)
(*                                                                         *)
(* Besides the script the model has the node process it spawns (start-up,  *)
(* crash, shutdown, and the stdout/stderr pipe it writes to), another      *)
(* instance that may hold the ports, and the files that outlive one        *)
(* invocation: release directories and archives.  Successive invocations  *)
(* are steps of one behaviour, and an invocation may be killed anywhere.   *)
(***************************************************************************)
EXTENDS Naturals, Sequences, FiniteSets

VO == INSTANCE VersionOrder
Fn == INSTANCE Functions

CONSTANTS
    ArgLists,       \* the explicit version lists the script may be given
    Versions,       \* the versions an archive name x-pack-<version>.zip may carry
    Releases,       \* versions whose release directory exists
    PollAttempts,   \* create_client's range(0, 30)
    PipeCap,        \* output the node can write into its unread pipes
    MaxRuns,        \* invocations of the script in one behaviour
    MaxKills,       \* invocations that may be killed (SIGKILL)
    Foreign,        \* whether another instance may start on the ports
    LateInterrupts  \* whether Ctrl-C may arrive in main() outside its try block

ASSUME Assumptions ==
    /\ Versions \subseteq Seq(Nat)
    /\ IsFiniteSet(Versions)
    /\ ArgLists \subseteq Seq(Versions)
    /\ Releases \subseteq Versions
    /\ PollAttempts \in Nat \ {0}
    /\ PipeCap \in Nat
    /\ MaxRuns \in Nat
    /\ MaxKills \in Nat
    /\ Foreign \in BOOLEAN
    /\ LateInterrupts \in BOOLEAN

\* The versions parse_version accepts, and those main() skips as older than
\* 2.3.0 (constant-level, so TLC computes them once).
Parseable == {v \in Versions : VO!ParseOK(v)}
SkippedVersions == {v \in Parseable : VO!Skipped(v)}

\* The release directory: the two plugins, the shield config directory and
\* the es_admin user stored in it.
Plugins == {"license", "shield"}
ReleaseParts == Plugins \cup {"config", "admin"}

\* What generate_security_index writes into the node.
Items == {"user", "role", "docs"}

\* An archive: whether the file exists, the items of the data directory it
\* was zipped from, and whether the node writing that directory had exited.
Archives == [present : BOOLEAN, items : SUBSET Items, quiesced : BOOLEAN]
Absent == [present |-> FALSE, items |-> {}, quiesced |-> TRUE]
Written(items, quiesced) == [present |-> TRUE, items |-> items, quiesced |-> quiesced]

Exceptions == {"none", "AssertionError", "RuntimeError", "CalledProcessError",
               "PortInUse", "NameError", "HTTPError", "TransportError",
               "KeyboardInterrupt"}

\* Control points; TrySteps are the statements of main()'s try block.
TrySteps == {"rmLicense", "rmShield", "rmConfig", "instLicense", "instShield",
             "useradd", "probe", "spawn", "poll", "putUser", "putRole",
             "index", "health", "shutdown", "wait", "compress", "zip"}
\* The statements of main() outside the try block: the loop head, the ones
\* between mkdtemp and `try:`, and the finally block.
OutsideTry == {"loop", "tmpMade", "finally", "finallyWait", "rmtree"}
Steps == TrySteps \cup OutsideTry \cup {"idle", "done", "failed"}

ProcStates == {"none", "starting", "up", "stopping", "exited"}

VARIABLES
    pc,         \* control point of the script
    vers,       \* cfg.versions
    idx,        \* position of the loop in cfg.versions
    exc,        \* the exception being propagated
    node,       \* main()'s `node` is not None
    cwd,        \* the working directory of the script
    attempts,   \* create_client's failed attempts
    proc,       \* the spawned node process
    pipe,       \* output in its stdout/stderr pipes that nobody has read
    other,      \* another instance (foreign, or orphaned by a kill) holds the ports
    tmp,        \* the temporary directory of this version exists
    leaked,     \* temporary directories left behind by ended invocations
    data,       \* the items in the data directory of the spawned node
    release,    \* release directory contents, per version
    archive,    \* x-pack-<version>.zip in the output directory, per version
    runs,       \* invocations so far
    kills,      \* invocations killed so far
    had         \* versions archived when this invocation started (history)

invVars == <<vers, runs, kills, had>>
nodeVars == <<proc, pipe, other>>
diskVars == <<tmp, leaked, data, release, archive>>
vars == <<pc, idx, exc, node, cwd, attempts, invVars, nodeVars, diskVars>>

cur == vers[idx]

Alive == proc \in {"starting", "up", "stopping"}

\* The HTTP port answers: the spawned node once up, or the other instance.
Serving == other \/ proc = "up"

\* A request reaches the spawned node, not the other instance.
OwnNode == proc = "up" /\ ~other

Archived == {v \in Versions : archive[v].present}

TypeOK ==
    /\ pc \in Steps
    /\ vers \in Seq(Versions)
    /\ idx \in Nat \ {0}
    /\ exc \in Exceptions
    /\ node \in BOOLEAN
    /\ cwd \in {"orig", "tmp"}
    /\ attempts \in 0..PollAttempts
    /\ proc \in ProcStates
    /\ pipe \in 0..PipeCap
    /\ other \in BOOLEAN
    /\ tmp \in BOOLEAN
    /\ leaked \in 0..MaxRuns
    /\ data \in SUBSET Items
    /\ release \in [Releases -> SUBSET ReleaseParts]
    /\ archive \in [Versions -> Archives]
    /\ runs \in 0..MaxRuns
    /\ kills \in 0..MaxKills
    /\ had \in SUBSET Versions

(***************************************************************************)
(* No script runs and no node is up.  A release directory is fresh from    *)
(* its tarball or as an earlier run left it; an archive is absent or one   *)
(* an earlier, complete run wrote.                                         *)
(***************************************************************************)
Init ==
    /\ pc = "idle"
    /\ vers = <<>>
    /\ idx = 1
    /\ exc = "none"
    /\ node = FALSE
    /\ cwd = "orig"
    /\ attempts = 0
    /\ proc = "none"
    /\ pipe = 0
    /\ other = FALSE
    /\ tmp = FALSE
    /\ leaked = 0
    /\ data = {}
    /\ release \in [Releases -> {{}, ReleaseParts}]
    /\ archive \in [Versions -> {Absent, Written(Items, TRUE)}]
    /\ runs = 0
    /\ kills = 0
    /\ had = {}

-----------------------------------------------------------------------------
(***************************************************************************)
(* parse_config() and the start of main(): the versions come from the      *)
(* command line, or with --all from the names of the existing archives.    *)
(***************************************************************************)
StartInvocation(args) ==
    /\ pc = "idle"
    /\ runs < MaxRuns
    /\ vers' = args
    /\ pc' = "loop"
    /\ idx' = 1
    /\ exc' = "none"
    /\ runs' = runs + 1
    /\ had' = Archived
    /\ UNCHANGED <<node, cwd, attempts, kills, nodeVars, diskVars>>

InvokeWithVersions == \E args \in ArgLists : StartInvocation(args)

\* glob.glob lists the archives in directory order, which the script does
\* not sort: the versions of the existing archives, each once, in any order.
GlobOrders(S) == {s \in [1..Cardinality(S) -> S] : Fn!IsInjective(s)}

InvokeAll == \E order \in GlobOrders(Archived) : StartInvocation(order)

\* The head of `for version in cfg.versions`.  A parse_version assertion or a
\* missing release directory raises before the try block.
AtVersion == pc = "loop" /\ idx <= Len(vers)

LoopDone ==
    /\ pc = "loop"
    /\ idx > Len(vers)
    /\ pc' = "done"
    /\ UNCHANGED <<idx, exc, node, cwd, attempts, invVars, nodeVars, diskVars>>

BadVersion ==
    /\ AtVersion
    /\ cur \notin Parseable
    /\ exc' = "AssertionError"
    /\ pc' = "failed"
    /\ UNCHANGED <<idx, node, cwd, attempts, invVars, nodeVars, diskVars>>

SkipVersion ==
    /\ AtVersion
    /\ cur \in SkippedVersions
    /\ idx' = idx + 1
    /\ UNCHANGED <<pc, exc, node, cwd, attempts, invVars, nodeVars, diskVars>>

MissingRelease ==
    /\ AtVersion
    /\ cur \in Parseable \ SkippedVersions
    /\ cur \notin Releases
    /\ exc' = "RuntimeError"
    /\ pc' = "failed"
    /\ UNCHANGED <<idx, node, cwd, attempts, invVars, nodeVars, diskVars>>

\* tempfile.mkdtemp(): an empty temporary directory for the data.
BeginVersion ==
    /\ AtVersion
    /\ cur \in (Parseable \ SkippedVersions) \cap Releases
    /\ tmp' = TRUE
    /\ data' = {}
    /\ pc' = "tmpMade"
    /\ UNCHANGED <<idx, exc, node, cwd, attempts, invVars, nodeVars, leaked, release, archive>>

\* The log line, `node = None`, and into the try block.
EnterTry ==
    /\ pc = "tmpMade"
    /\ node' = FALSE
    /\ pc' = "rmLicense"
    /\ UNCHANGED <<idx, exc, cwd, attempts, invVars, nodeVars, diskVars>>

\* An exception raised by the statement at pc, caught by the finally block.
Raise(e) == exc' = e /\ pc' = "finally"

\* A statement that only changes the release directory: when ok it sets it
\* to r and moves on to next; when it may fail it raises e.
ReleaseStep(at, next, r, ok, mayFail, e) ==
    /\ pc = at
    /\ \/ ok /\ release' = r /\ pc' = next /\ UNCHANGED exc
       \/ mayFail /\ Raise(e) /\ UNCHANGED release
    /\ UNCHANGED <<idx, node, cwd, attempts, invVars, nodeVars, tmp, leaked, data, archive>>

\* remove_plugin: check_call of `bin/plugin remove p`.  The plugin tool
\* reports a plugin that is not installed and exits 0, so the removal
\* succeeds whether or not p was there.
RemovePlugin(p, at, next) ==
    ReleaseStep(at, next, [release EXCEPT ![cur] = @ \ {p}], TRUE, FALSE, "CalledProcessError")

\* run('rm -rf <release>/config/shield'): the shield config and its users.
\* run() raises RuntimeError on a non-zero status of os.system.
RemoveShieldConfig ==
    ReleaseStep("rmConfig", "instLicense",
                [release EXCEPT ![cur] = @ \ {"config", "admin"}], TRUE, TRUE, "RuntimeError")

\* install_plugin: `bin/plugin install p` downloads the plugin and may fail;
\* installing shield creates its config directory.
InstallPlugin(p, at, next) ==
    ReleaseStep(at, next,
                [release EXCEPT ![cur] = @ \cup {p} \cup (IF p = "shield" THEN {"config"} ELSE {})],
                TRUE, TRUE, "CalledProcessError")

\* run('bin/shield/esusers useradd es_admin -r admin -p ...').
UserAdd ==
    ReleaseStep("useradd", "probe", [release EXCEPT ![cur] = @ \cup {"admin"}],
                TRUE, TRUE, "RuntimeError")

(***************************************************************************)
(* start_node: connect_ex probes of ports 9200 and 9300, then Popen of     *)
(* bin/elasticsearch with stdout and stderr piped; Popen returns at once.  *)
(***************************************************************************)
ProbePorts ==
    /\ pc = "probe"
    /\ \/ other /\ Raise("PortInUse")
       \/ ~other /\ pc' = "spawn" /\ UNCHANGED exc
    /\ UNCHANGED <<idx, node, cwd, attempts, invVars, nodeVars, diskVars>>

Spawn ==
    /\ pc = "spawn"
    /\ proc' = "starting"
    /\ pipe' = 0
    /\ node' = TRUE
    /\ attempts' = 0
    /\ pc' = "poll"
    /\ UNCHANGED <<idx, exc, cwd, other, invVars, diskVars>>

(***************************************************************************)
(* create_client: up to PollAttempts tries of cluster.health, a second     *)
(* apart, exceptions swallowed.  After the last try it reaches `assert     *)
(* False, '...%s seconds' % timeout`, and `timeout` is undefined.          *)
(***************************************************************************)
PollSucceeds ==
    /\ pc = "poll"
    /\ Serving
    /\ pc' = "putUser"
    /\ UNCHANGED <<idx, exc, node, cwd, attempts, invVars, nodeVars, diskVars>>

\* Variant: the retry loop runs one try too many (range(0, 31)).
PollFailsOffByOne ==
    /\ pc = "poll"
    /\ ~Serving
    /\ attempts' = attempts + 1
    /\ \/ attempts + 1 <= PollAttempts /\ UNCHANGED <<pc, exc>>
       \/ attempts + 1 > PollAttempts /\ Raise("NameError")
    /\ UNCHANGED <<idx, node, cwd, invVars, nodeVars, diskVars>>

\* Variant: `while True` polling with no limit on the tries.
PollFailsForever ==
    /\ pc = "poll"
    /\ ~Serving
    /\ UNCHANGED <<pc, exc, idx, node, cwd, attempts, invVars, nodeVars, diskVars>>

PollFails ==
    /\ pc = "poll"
    /\ ~Serving
    /\ attempts' = attempts + 1
    /\ \/ attempts + 1 < PollAttempts /\ UNCHANGED <<pc, exc>>
       \/ attempts + 1 = PollAttempts /\ Raise("NameError")
    /\ UNCHANGED <<idx, node, cwd, invVars, nodeVars, diskVars>>

(***************************************************************************)
(* A write of generate_security_index.  The spawned node stores item and   *)
(* logs to its pipe, which it can do only while the pipe has room; the     *)
(* other instance answers without touching our data directory; a refused   *)
(* connection or an error status raises e.                                 *)
(***************************************************************************)
\* Variant: the status of a request is not checked and the script goes on.
RequestUnchecked(at, item, next, e) ==
    /\ pc = at
    /\ \/ /\ OwnNode
          /\ pipe < PipeCap
          /\ data' = data \cup {item}
          /\ pipe' = pipe + 1
       \/ UNCHANGED <<data, pipe>>
    /\ pc' = next
    /\ UNCHANGED <<exc, idx, node, cwd, attempts, invVars, proc, other, tmp, leaked,
                   release, archive>>

Request(at, item, next, e) ==
    /\ pc = at
    /\ \/ /\ OwnNode
          /\ pipe < PipeCap
          /\ data' = data \cup {item}
          /\ pipe' = pipe + 1
          /\ pc' = next
          /\ UNCHANGED exc
       \/ other /\ pc' = next /\ UNCHANGED <<exc, data, pipe>>
       \/ Raise(e) /\ UNCHANGED <<data, pipe>>
    /\ UNCHANGED <<idx, node, cwd, attempts, invVars, proc, other, tmp, leaked,
                   release, archive>>

\* requests.put of the user and of the role, each checked `!= 200`.
PutUser == Request("putUser", "user", "putRole", "HTTPError")
PutRole == Request("putRole", "role", "index", "HTTPError")

\* The five client.index calls into index1, index2 and index3.
IndexDocs == Request("index", "docs", "health", "TransportError")

\* cluster.health(wait_for_status='yellow', ...), `assert not timed_out`.
WaitHealth ==
    /\ pc = "health"
    /\ \/ Serving /\ pc' = "shutdown" /\ UNCHANGED exc
       \/ Raise("AssertionError")
       \/ ~Serving /\ Raise("TransportError")
    /\ UNCHANGED <<idx, node, cwd, attempts, invVars, nodeVars, diskVars>>

(***************************************************************************)
(* shutdown_node: terminate() sends SIGTERM, wait() blocks until the       *)
(* process has exited; then main() sets `node = None`.                     *)
(***************************************************************************)
Terminated == IF proc \in {"starting", "up"} THEN "stopping" ELSE proc

Shutdown ==
    /\ pc = "shutdown"
    /\ proc' = Terminated
    /\ pc' = "wait"
    /\ UNCHANGED <<idx, exc, node, cwd, attempts, invVars, pipe, other, diskVars>>

\* Variant: shutdown_node without proc.wait().
WaitExitNoWait ==
    /\ pc = "wait"
    /\ node' = FALSE
    /\ pc' = "compress"
    /\ UNCHANGED <<idx, exc, cwd, attempts, invVars, nodeVars, diskVars>>

WaitExit ==
    /\ pc = "wait"
    /\ proc = "exited"
    /\ node' = FALSE
    /\ pc' = "compress"
    /\ UNCHANGED <<idx, exc, cwd, attempts, invVars, nodeVars, diskVars>>

(***************************************************************************)
(* compress: os.remove of an existing x-pack-<version>.zip, os.chdir into  *)
(* the temporary directory, check_call of `zip -r`, and os.chdir back,     *)
(* which is not reached when check_call raises.                            *)
(***************************************************************************)
Compress ==
    /\ pc = "compress"
    /\ archive' = [archive EXCEPT ![cur] = Absent]
    /\ cwd' = "tmp"
    /\ pc' = "zip"
    /\ UNCHANGED <<idx, exc, node, attempts, invVars, nodeVars, tmp, leaked, data, release>>

Zip ==
    /\ pc = "zip"
    /\ \/ /\ archive' = [archive EXCEPT ![cur] = Written(data, ~Alive)]
          /\ cwd' = "orig"
          /\ pc' = "finally"
          /\ UNCHANGED exc
       \/ Raise("CalledProcessError") /\ UNCHANGED <<archive, cwd>>
    /\ UNCHANGED <<idx, node, attempts, invVars, nodeVars, tmp, leaked, data, release>>

(***************************************************************************)
(* The finally block: `if node is not None: shutdown_node(node)`, then     *)
(* shutil.rmtree(tmp_dir); the loop goes on unless an exception is being   *)
(* propagated, which ends main().                                          *)
(***************************************************************************)
\* Variant: a finally block that only removes the temporary directory.
FinallyNoShutdown ==
    /\ pc = "finally"
    /\ pc' = "rmtree"
    /\ UNCHANGED <<idx, exc, node, cwd, attempts, invVars, nodeVars, diskVars>>

Finally ==
    /\ pc = "finally"
    /\ \/ node /\ proc' = Terminated /\ pc' = "finallyWait"
       \/ ~node /\ pc' = "rmtree" /\ UNCHANGED proc
    /\ UNCHANGED <<idx, exc, node, cwd, attempts, invVars, pipe, other, diskVars>>

FinallyWait ==
    /\ pc = "finallyWait"
    /\ proc = "exited"
    /\ pc' = "rmtree"
    /\ UNCHANGED <<idx, exc, node, cwd, attempts, invVars, nodeVars, diskVars>>

RemoveTmp ==
    /\ pc = "rmtree"
    /\ tmp' = FALSE
    /\ \/ exc = "none" /\ idx' = idx + 1 /\ pc' = "loop"
       \/ exc # "none" /\ pc' = "failed" /\ UNCHANGED idx
    /\ UNCHANGED <<exc, node, cwd, attempts, invVars, nodeVars, leaked, data,
                   release, archive>>

\* The interpreter exits, through the KeyboardInterrupt handler of
\* __main__ or with the exception.  A node still alive keeps the ports; the
\* pipes close with the script; a temporary directory still on disk stays.
Orphaned == other' = (other \/ Alive) /\ proc' = (IF Alive THEN "none" ELSE proc)

Exit ==
    /\ pc \in {"done", "failed"}
    /\ pc' = "idle"
    /\ cwd' = "orig"
    /\ Orphaned
    /\ pipe' = 0
    /\ leaked' = leaked + (IF tmp THEN 1 ELSE 0)
    /\ tmp' = FALSE
    /\ UNCHANGED <<idx, exc, node, attempts, invVars, data, release, archive>>

\* Ctrl-C: KeyboardInterrupt raised in the statement the try block is at.
Interrupt ==
    /\ pc \in TrySteps
    /\ Raise("KeyboardInterrupt")
    /\ UNCHANGED <<idx, node, cwd, attempts, invVars, nodeVars, diskVars>>

\* Ctrl-C at a statement of main() outside the try block: between mkdtemp
\* and `try:`, or inside the finally block (while shutdown_node waits, or
\* during rmtree).  Nothing catches it in main(); the handler of __main__
\* logs and exits, leaving the temporary directory and a live node.
InterruptOutsideTry ==
    /\ LateInterrupts
    /\ pc \in OutsideTry
    /\ exc' = "KeyboardInterrupt"
    /\ pc' = "failed"
    /\ UNCHANGED <<idx, node, cwd, attempts, invVars, nodeVars, diskVars>>

\* SIGKILL: no finally block runs; the temporary directory stays on disk and
\* a live node is orphaned.
Kill ==
    /\ pc # "idle"
    /\ kills < MaxKills
    /\ pc' = "idle"
    /\ kills' = kills + 1
    /\ leaked' = leaked + (IF tmp THEN 1 ELSE 0)
    /\ tmp' = FALSE
    /\ node' = FALSE
    /\ cwd' = "orig"
    /\ Orphaned
    /\ pipe' = 0
    /\ UNCHANGED <<idx, exc, attempts, vers, runs, had, data, release, archive>>

-----------------------------------------------------------------------------
(***************************************************************************)
(* The node process: it binds the ports and comes up, logging to its pipe  *)
(* (blocking while the pipe is full); it exits when another instance holds *)
(* the ports, or crashes; on SIGTERM it logs its shutdown and exits.       *)
(***************************************************************************)
NodeStep(from, to, guard, logs) ==
    /\ proc = from
    /\ guard
    /\ proc' = to
    /\ IF logs THEN pipe < PipeCap /\ pipe' = pipe + 1 ELSE UNCHANGED pipe
    /\ UNCHANGED <<pc, idx, exc, node, cwd, attempts, invVars, other, diskVars>>

NodeUp == NodeStep("starting", "up", ~other, TRUE)
NodeBindFails == NodeStep("starting", "exited", other, FALSE)
NodeCrash == \E from \in {"starting", "up"} : NodeStep(from, "exited", TRUE, FALSE)
NodeStop == NodeStep("stopping", "exited", TRUE, TRUE)

\* Another instance starts on 9200/9300 while they are free: a developer's
\* node, possibly between the probes of start_node and our node's bind.
ForeignStart ==
    /\ Foreign
    /\ ~other
    /\ proc \notin {"up", "stopping"}
    /\ other' = TRUE
    /\ UNCHANGED <<pc, idx, exc, node, cwd, attempts, invVars, proc, pipe, diskVars>>

\* After the last invocation nothing more happens.
Finished == pc = "idle" /\ runs = MaxRuns /\ UNCHANGED vars

-----------------------------------------------------------------------------
\* The statements of the script.
Script ==
    \/ LoopDone \/ BadVersion \/ SkipVersion \/ MissingRelease \/ BeginVersion
    \/ EnterTry
    \/ RemovePlugin("license", "rmLicense", "rmShield")
    \/ RemovePlugin("shield", "rmShield", "rmConfig")
    \/ RemoveShieldConfig
    \/ InstallPlugin("license", "instLicense", "instShield")
    \/ InstallPlugin("shield", "instShield", "useradd")
    \/ UserAdd \/ ProbePorts \/ Spawn \/ PollSucceeds \/ PollFails
    \/ PutUser \/ PutRole \/ IndexDocs \/ WaitHealth
    \/ Shutdown \/ WaitExit \/ Compress \/ Zip
    \/ Finally \/ FinallyWait \/ RemoveTmp \/ Exit

Next ==
    \/ InvokeWithVersions \/ InvokeAll
    \/ Script
    \/ Interrupt \/ InterruptOutsideTry \/ Kill
    \/ NodeUp \/ NodeBindFails \/ NodeCrash \/ NodeStop \/ ForeignStart
    \/ Finished

(***************************************************************************)
(* The script is one thread that does not stop between statements (WF of  *)
(* Script); a started or signalled node goes on with its start-up or its   *)
(* shutdown.  The user, Ctrl-C, SIGKILL, a crash and the other instance    *)
(* are not fair: they may never happen.                                    *)
(***************************************************************************)
Fairness ==
    /\ WF_vars(Script)
    /\ WF_vars(NodeUp)
    /\ WF_vars(NodeBindFails)
    /\ WF_vars(NodeStop)

Spec == Init /\ [][Next]_vars /\ Fairness

-----------------------------------------------------------------------------
(***************************************************************************)
(* Properties.                                                             *)
(***************************************************************************)

(***************************************************************************)
(* Every archive in the output directory was zipped from the data          *)
(* directory of a node that had exited: shutdown_node waits for the        *)
(* process before compress_index runs, so no file is zipped while the node *)
(* still writes it.                                                        *)
(***************************************************************************)
ArchivesFromStoppedNode ==
    \A v \in Archived : archive[v].quiesced

(***************************************************************************)
(* Every archive holds the whole fixture of generate_security_index: the   *)
(* user, the role and the documents, written into the node whose data      *)
(* directory was zipped.                                                   *)
(***************************************************************************)
ArchivesComplete ==
    \A v \in Archived : archive[v].items = Items

(***************************************************************************)
(* The guaranteed cleanup the spec promises of main()'s finally block:     *)
(* when an invocation ends, with or without an exception, its temporary    *)
(* directory is gone and the node it spawned is no longer running.         *)
(***************************************************************************)
CleanExit ==
    pc \in {"done", "failed"} => ~tmp /\ ~Alive

(***************************************************************************)
(* The finally block stops the node before shutil.rmtree removes the       *)
(* temporary directory that holds its data and logs: no step deletes that  *)
(* directory while our node is running (SIGKILL, and an exit that leaves   *)
(* it on disk, move it to `leaked`).                                       *)
(***************************************************************************)
TmpRemovedAfterNodeStops ==
    [][tmp /\ ~tmp' /\ leaked' = leaked => ~Alive]_vars

(***************************************************************************)
(* Every invocation ends: create_client gives up after PollAttempts tries, *)
(* every wait for the node returns, and the script exits.                  *)
(***************************************************************************)
InvocationEnds ==
    pc # "idle" ~> pc = "idle"

(***************************************************************************)
(* compress, as the spec describes it: the working directory is restored  *)
(* whatever the zip utility's outcome, so once compress has returned or   *)
(* raised the script is back in the directory it started in.              *)
(***************************************************************************)
CwdRestored ==
    pc \in {"finally", "finallyWait", "rmtree", "loop", "done", "failed"} => cwd = "orig"

(***************************************************************************)
(* Re-running the generator replaces an archive and never loses one: when *)
(* an invocation ends, every version that had an archive when it started  *)
(* still has one (the --all mode relies on it to find the versions).      *)
(***************************************************************************)
ArchivesKept ==
    pc \in {"done", "failed"} => had \subseteq Archived
=============================================================================
