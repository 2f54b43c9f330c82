----------------------------- MODULE Lifecycle -----------------------------
(***************************************************************************)
(* The lifecycle jobs fleetd runs for the instances of one fleet: create,  *)
(* clone and rebuild (the provisioning runs of internal/create), start and *)
(* stop (internal/instanceops), destroy of an instance or of the fleet,    *)
(* and what the daemon's shutdown, death and restart do to all of them.    *)
(*                                                                         *)
(* Every write of state.json is one state.Update, so one action; between   *)
(* two of them any other operation may move.  A provisioning run makes at  *)
(* most one container, so a container is named by the run that makes it.   *)
(***************************************************************************)
EXTENDS Naturals, FiniteSets

CONSTANTS
    Instances,    \* instance names of the fleet
    Runs,         \* provisioning runs, each used once; also the containers they make
    Destroys,     \* destroy requests, each used once
    Switches,     \* start and stop requests, each used once
    NoContainer,  \* the empty ContainerID
    WaitExpires,  \* TRUE: a backend call may outlast destroyCancelWait
    Serial,       \* TRUE: clients wait where the code leaves it to them (NameFree, Unswitched)
    MaxDeaths     \* how often the daemon may exit or be killed

ASSUME LifecycleAssumption ==
    /\ Instances # {}
    /\ NoContainer \notin Runs
    /\ WaitExpires \in BOOLEAN
    /\ Serial \in BOOLEAN
    /\ MaxDeaths \in Nat

VARIABLES
    rec,      \* state.json: each instance's status and ContainerID
    run,      \* the provisioning runs
    destroy,  \* the destroy jobs
    switch,   \* the start and stop jobs
    box,      \* the containers themselves
    daemon,   \* "serving", "stopping" (cancelHub called) or "down"
    deaths    \* how often it went down

vars == <<rec, run, destroy, switch, box, daemon, deaths>>

Statuses == {"absent", "creating", "cloning", "running", "stopped", "failed",
             "deleting", "rebuilding"}
Provisioning == {"creating", "cloning", "rebuilding"}

\* isTransitionalStatus; "starting" and "stopping" are statuses no server job writes.
IsTransitionalStatus(s) == s \in Provisioning \cup {"deleting"}

ContainerIDs == Runs \cup {NoContainer}
Exists(c) == c \in Runs /\ box[c] \in {"up", "stopped"}

RunPCs == {"idle", "accepted", "load", "prepare", "backend", "built", "finishing",
           "abandon", "discard", "failing", "exit", "exited", "lost"}
Causes == {"none", "destroyed", "shutdown"}

\* Accepted or working, and not finished yet.
RunInFlight(r) == run[r].pc \notin {"idle", "exited", "lost"}
\* Registered with the job manager: what provisioningJobs finds.
Registered(r) == RunInFlight(r) /\ run[r].pc # "accepted"
Cancelled(r) == run[r].cause # "none"

DestroyPCs == {"idle", "validated", "marked", "await", "snapshot", "teardown", "done", "lost"}
DestroyInFlight(d) == destroy[d].pc \notin {"idle", "done", "lost"}

SwitchPCs == {"idle", "loaded", "switched", "done", "lost"}
SwitchInFlight(s) == switch[s].pc \notin {"idle", "done", "lost"}

\* No operation on i is in flight.
Free(i) == /\ \A r \in Runs : RunInFlight(r) => run[r].inst # i
           /\ \A d \in Destroys : DestroyInFlight(d) => i \notin destroy[d].scope
           /\ \A s \in Switches : SwitchInFlight(s) => switch[s].inst # i

\* Two overlaps the code does not exclude, and a Serial client does not produce: a
\* name reused while an operation on its former owner is still under way, and a
\* rebuild, start or stop asked for while a start or stop of the instance runs.
NameFree(i) == Serial => Free(i)
Unswitched(i) == Serial => \A s \in Switches : SwitchInFlight(s) => switch[s].inst # i

Present(i) == rec[i].status # "absent"
\* A record a run or a switch may not write to any more.
Gone(i) == rec[i].status \in {"absent", "deleting"}

RecordType == [status : Statuses, cid : ContainerIDs]
RunType == [pc : RunPCs, kind : {"create", "clone", "rebuild"}, inst : Instances,
            src : Instances, from : ContainerIDs, cause : Causes]
DestroyType == [pc : DestroyPCs, scope : SUBSET Instances, jobs : SUBSET Runs,
                targets : SUBSET Runs]
SwitchType == [pc : SwitchPCs, inst : Instances, cid : ContainerIDs,
               to : {"running", "stopped"}]

\* Every variable has its type.
TypeOK ==
    /\ rec \in [Instances -> RecordType]
    /\ run \in [Runs -> RunType]
    /\ destroy \in [Destroys -> DestroyType]
    /\ switch \in [Switches -> SwitchType]
    /\ box \in [Runs -> {"none", "up", "stopped", "gone"}]
    /\ daemon \in {"serving", "stopping", "down"}
    /\ deaths \in 0..MaxDeaths

\* The instance an unused run or switch names; nothing reads it.
SomeInstance == CHOOSE i \in Instances : TRUE

Init ==
    /\ rec = [i \in Instances |-> [status |-> "absent", cid |-> NoContainer]]
    /\ run = [r \in Runs |-> [pc |-> "idle", kind |-> "create", inst |-> SomeInstance,
                             src |-> SomeInstance, from |-> NoContainer, cause |-> "none"]]
    /\ destroy = [d \in Destroys |-> [pc |-> "idle", scope |-> {}, jobs |-> {}, targets |-> {}]]
    /\ switch = [s \in Switches |-> [pc |-> "idle", inst |-> SomeInstance,
                                    cid |-> NoContainer, to |-> "running"]]
    /\ box = [r \in Runs |-> "none"]
    /\ daemon = "serving"
    /\ deaths = 0

-----------------------------------------------------------------------------
(* Provisioning: accept, run, commit.                                      *)

Accept(r, kind, src, i) ==
    run' = [run EXCEPT ![r] = [pc |-> "accepted", kind |-> kind, inst |-> i, src |-> src,
                               from |-> NoContainer, cause |-> "none"]]

\* The state.Update of startCreateInstanceJobWith: refuse a taken name, add the record.
StartCreateInstanceJob(r, i) ==
    /\ daemon # "down"
    /\ run[r].pc = "idle"
    /\ NameFree(i)
    /\ ~Present(i)
    /\ rec' = [rec EXCEPT ![i] = [status |-> "creating", cid |-> NoContainer]]
    /\ Accept(r, "create", i, i)
    /\ UNCHANGED <<destroy, switch, box, daemon, deaths>>

\* The state.Update of startCloneInstanceJob: the source exists, the destination does not.
StartCloneInstanceJob(r, src, i) ==
    /\ daemon # "down"
    /\ run[r].pc = "idle"
    /\ NameFree(i)
    /\ Present(src)
    /\ ~Present(i)
    /\ rec' = [rec EXCEPT ![i] = [status |-> "cloning", cid |-> NoContainer]]
    /\ Accept(r, "clone", src, i)
    /\ UNCHANGED <<destroy, switch, box, daemon, deaths>>

\* Mutant: the rebuild is accepted whatever the instance is in the middle of.
RebuildUnguarded(r, i) ==
    /\ daemon # "down"
    /\ run[r].pc = "idle"
    /\ Unswitched(i)
    /\ Present(i)
    /\ rec' = [rec EXCEPT ![i].status = "rebuilding"]
    /\ Accept(r, "rebuild", i, i)
    /\ UNCHANGED <<destroy, switch, box, daemon, deaths>>

\* The state.Update of startRebuildInstanceJob: check and mark under one lock.
StartRebuildInstanceJob(r, i) ==
    /\ daemon # "down"
    /\ run[r].pc = "idle"
    /\ Unswitched(i)
    /\ Present(i)
    /\ ~IsTransitionalStatus(rec[i].status)
    /\ rec' = [rec EXCEPT ![i].status = "rebuilding"]
    /\ Accept(r, "rebuild", i, i)
    /\ UNCHANGED <<destroy, switch, box, daemon, deaths>>

\* jobs.start, after the state.Update: only now can a destroy find the run.
JobStart(r) ==
    /\ run[r].pc = "accepted"
    /\ run' = [run EXCEPT ![r].pc = "load"]
    /\ UNCHANGED <<rec, destroy, switch, box, daemon, deaths>>

\* The container a run reads off a record: a clone its source's, a rebuild its own.
LoadedFrom(r) == IF run[r].kind = "create" THEN NoContainer ELSE rec[run[r].src].cid

\* A clone and a rebuild fail when that record is gone, a clone also without a container.
RunLoad(r) ==
    /\ run[r].pc = "load"
    /\ IF /\ run[r].kind # "create" => Present(run[r].src)
          /\ run[r].kind = "clone" => LoadedFrom(r) # NoContainer
       THEN run' = [run EXCEPT ![r].pc = "prepare", ![r].from = LoadedFrom(r)]
       ELSE run' = [run EXCEPT ![r].pc = "failing"]
    /\ UNCHANGED <<rec, destroy, switch, box, daemon, deaths>>

\* Clone or copy the workspace, resolve the mounts; checkCancelled; call the backend.
Prepare(r) ==
    /\ run[r].pc = "prepare"
    /\ \/ run' = [run EXCEPT ![r].pc = "failing"]
       \/ ~Cancelled(r) /\ run' = [run EXCEPT ![r].pc = "backend"]
    /\ UNCHANGED <<rec, destroy, switch, box, daemon, deaths>>

\* What a backend call that succeeds leaves: a rebuild replaces its old container.
BoxBuilt(b, r) ==
    [c \in Runs |-> IF c = r THEN "up"
                    ELSE IF run[r].kind = "rebuild" /\ c = run[r].from THEN "gone"
                    ELSE b[c]]
\* What a rebuild that fails half way leaves: the old container torn down, no new one.
BoxCut(b, r) ==
    [c \in Runs |-> IF run[r].kind = "rebuild" /\ c = run[r].from THEN "gone" ELSE b[c]]

\* Up, Clone or Rebuild returns a container.
BackendOk(r) ==
    /\ run[r].pc = "backend"
    /\ run[r].kind = "clone" => Exists(run[r].from)
    /\ box' = BoxBuilt(box, r)
    /\ run' = [run EXCEPT ![r].pc = "built"]
    /\ UNCHANGED <<rec, destroy, switch, daemon, deaths>>

\* ... or an error, which setFailed records.
BackendErr(r) ==
    /\ run[r].pc = "backend"
    /\ box' \in {box, BoxCut(box, r)}
    /\ run' = [run EXCEPT ![r].pc = "failing"]
    /\ UNCHANGED <<rec, destroy, switch, daemon, deaths>>

\* ... or, cut by the shutdown, ErrCheckpointed: the record stays as it is.
BackendCheckpointed(r) ==
    /\ run[r].pc = "backend"
    /\ run[r].cause = "shutdown"
    /\ box' \in {box, BoxCut(box, r)}
    /\ run' = [run EXCEPT ![r].pc = "exit"]
    /\ UNCHANGED <<rec, destroy, switch, daemon, deaths>>

StopIfCancelled(r) ==
    /\ run[r].pc = "built"
    /\ run' = [run EXCEPT ![r].pc = IF Cancelled(r) THEN "abandon" ELSE "finishing"]
    /\ UNCHANGED <<rec, destroy, switch, box, daemon, deaths>>

\* commitRunning: markInstanceRunning under the state lock, or hand over to abandonRun.
CommitRunning(r) ==
    LET i == run[r].inst IN
    /\ run[r].pc = "finishing"
    /\ IF Cancelled(r) \/ Gone(i)
       THEN /\ run' = [run EXCEPT ![r].pc = "abandon"]
            /\ UNCHANGED rec
       ELSE /\ run' = [run EXCEPT ![r].pc = "exit"]
            /\ rec' = [rec EXCEPT ![i] = [status |-> "running", cid |-> r]]
    /\ UNCHANGED <<destroy, switch, box, daemon, deaths>>

\* Mutant: the container of a record that is going is nobody's business.
AbandonWithoutDiscard(r) ==
    LET i == run[r].inst IN
    /\ run[r].pc = "abandon"
    /\ run' = [run EXCEPT ![r].pc = "exit"]
    /\ rec' = IF Gone(i) THEN rec ELSE [rec EXCEPT ![i] = [status |-> "failed", cid |-> r]]
    /\ UNCHANGED <<destroy, switch, box, daemon, deaths>>

\* abandonRun decides under the state lock what becomes of the container.
AbandonRun(r) ==
    LET i == run[r].inst IN
    /\ run[r].pc = "abandon"
    /\ IF Gone(i)
       THEN /\ run' = [run EXCEPT ![r].pc = "discard"]
            /\ UNCHANGED rec
       ELSE /\ run' = [run EXCEPT ![r].pc = "exit"]
            /\ rec' = [rec EXCEPT ![i] = [status |-> "failed", cid |-> r]]
    /\ UNCHANGED <<destroy, switch, box, daemon, deaths>>

\* discardContainer, outside the lock.
DiscardContainer(r) ==
    /\ run[r].pc = "discard"
    /\ box' = [box EXCEPT ![r] = "gone"]
    /\ run' = [run EXCEPT ![r].pc = "exit"]
    /\ UNCHANGED <<rec, destroy, switch, daemon, deaths>>

\* Mutant: a failure is recorded only where there is a container to keep.
SetFailedWithContainer(r) ==
    LET i == run[r].inst IN
    /\ run[r].pc = "failing"
    /\ run' = [run EXCEPT ![r].pc = "exit"]
    /\ rec' = IF Gone(i) \/ rec[i].cid = NoContainer THEN rec
              ELSE [rec EXCEPT ![i].status = "failed"]
    /\ UNCHANGED <<destroy, switch, box, daemon, deaths>>

SetFailed(r) ==
    LET i == run[r].inst IN
    /\ run[r].pc = "failing"
    /\ run' = [run EXCEPT ![r].pc = "exit"]
    /\ rec' = IF Gone(i) THEN rec ELSE [rec EXCEPT ![i].status = "failed"]
    /\ UNCHANGED <<destroy, switch, box, daemon, deaths>>

\* The end of runJob: jobs.finish, then close(exited).
JobFinish(r) ==
    /\ run[r].pc = "exit"
    /\ run' = [run EXCEPT ![r].pc = "exited"]
    /\ UNCHANGED <<rec, destroy, switch, box, daemon, deaths>>

-----------------------------------------------------------------------------
(* Destroy of one instance, or of the whole fleet.                         *)

\* The state.Load that lets a stale name fail fast.
DestroyValidate(d, scope) ==
    /\ daemon # "down"
    /\ destroy[d].pc = "idle"
    /\ \E i \in scope : Present(i)
    /\ destroy' = [destroy EXCEPT ![d].pc = "validated", ![d].scope = scope]
    /\ UNCHANGED <<rec, run, switch, box, daemon, deaths>>

\* Mutant: the targets are marked only when they have no container.
MarkOnlyEmpty(d) ==
    /\ destroy[d].pc = "validated"
    /\ rec' = [i \in Instances |->
                 IF i \in destroy[d].scope /\ Present(i) /\ rec[i].cid = NoContainer
                 THEN [rec[i] EXCEPT !.status = "deleting"] ELSE rec[i]]
    /\ destroy' = [destroy EXCEPT ![d].pc = "marked"]
    /\ UNCHANGED <<run, switch, box, daemon, deaths>>

\* Mark the targets StatusDeleting.
DestroyMark(d) ==
    /\ destroy[d].pc = "validated"
    /\ rec' = [i \in Instances |-> IF i \in destroy[d].scope /\ Present(i)
                                   THEN [rec[i] EXCEPT !.status = "deleting"] ELSE rec[i]]
    /\ destroy' = [destroy EXCEPT ![d].pc = "marked"]
    /\ UNCHANGED <<run, switch, box, daemon, deaths>>

\* The jobs provisioningJobs finds for the destroy's targets.
ProvisioningJobs(d) == {r \in Runs : Registered(r) /\ run[r].inst \in destroy[d].scope}

\* cancelProvisioning, then the start of the destroy job.  The first cause stays.
CancelProvisioning(d) ==
    /\ destroy[d].pc = "marked"
    /\ run' = [r \in Runs |-> IF r \in ProvisioningJobs(d) /\ ~Cancelled(r)
                              THEN [run[r] EXCEPT !.cause = "destroyed"] ELSE run[r]]
    /\ destroy' = [destroy EXCEPT ![d].pc = "await", ![d].jobs = ProvisioningJobs(d)]
    /\ UNCHANGED <<rec, switch, box, daemon, deaths>>

\* Mutant: no timer beside the wait.
AwaitForever(d) ==
    /\ destroy[d].pc = "await"
    /\ \A r \in destroy[d].jobs : ~RunInFlight(r)
    /\ destroy' = [destroy EXCEPT ![d].pc = "snapshot"]
    /\ UNCHANGED <<rec, run, switch, box, daemon, deaths>>

\* awaitCancelledJobs: they all exited, destroyCancelWait passed, or the daemon
\* is stopping; the destroy goes ahead either way.
AwaitCancelledJobs(d) ==
    /\ destroy[d].pc = "await"
    /\ \/ \A r \in destroy[d].jobs : ~RunInFlight(r)
       \/ WaitExpires
       \/ daemon = "stopping"
    /\ destroy' = [destroy EXCEPT ![d].pc = "snapshot"]
    /\ UNCHANGED <<rec, run, switch, box, daemon, deaths>>

\* destroy's first half: load the targets with the containers they record now.
DestroySnapshot(d) ==
    /\ destroy[d].pc = "snapshot"
    /\ destroy' = [destroy EXCEPT
         ![d].pc = "teardown",
         ![d].targets = {rec[i].cid : i \in {j \in destroy[d].scope : Present(j)}} \ {NoContainer}]
    /\ UNCHANGED <<rec, run, switch, box, daemon, deaths>>

\* jobDownInstance on one of them.
DownInstance(d, c) ==
    /\ destroy[d].pc = "teardown"
    /\ c \in destroy[d].targets
    /\ box' = [box EXCEPT ![c] = "gone"]
    /\ destroy' = [destroy EXCEPT ![d].targets = @ \ {c}]
    /\ UNCHANGED <<rec, run, switch, daemon, deaths>>

\* The state.Update that removes the record, or the fleet with all of its records.
DestroyRemove(d) ==
    /\ destroy[d].pc = "teardown"
    /\ destroy[d].targets = {}
    /\ rec' = [i \in Instances |-> IF i \in destroy[d].scope
                                   THEN [status |-> "absent", cid |-> NoContainer] ELSE rec[i]]
    /\ destroy' = [destroy EXCEPT ![d].pc = "done"]
    /\ UNCHANGED <<run, switch, box, daemon, deaths>>

-----------------------------------------------------------------------------
(* Start and stop.                                                         *)

\* LoadInstance and the checks of transitionLoadedInstance.
SwitchLoad(s, i, to) ==
    /\ daemon # "down"
    /\ switch[s].pc = "idle"
    /\ Unswitched(i)
    /\ rec[i].cid # NoContainer
    /\ rec[i].status = IF to = "stopped" THEN "running" ELSE "stopped"
    /\ switch' = [switch EXCEPT ![s] = [pc |-> "loaded", inst |-> i, cid |-> rec[i].cid, to |-> to]]
    /\ UNCHANGED <<rec, run, destroy, box, daemon, deaths>>

\* Mutant: the status is committed even when the backend failed.
SwitchIgnoringError(s) ==
    LET c == switch[s].cid IN
    /\ switch[s].pc = "loaded"
    /\ switch' = [switch EXCEPT ![s].pc = "switched"]
    /\ \/ /\ Exists(c)
          /\ box' = [box EXCEPT ![c] = IF switch[s].to = "running" THEN "up" ELSE "stopped"]
       \/ UNCHANGED box
    /\ UNCHANGED <<rec, run, destroy, daemon, deaths>>

\* The backend's Start or Stop of the container loaded; a failure ends the job.
SwitchBackend(s) ==
    LET c == switch[s].cid IN
    /\ switch[s].pc = "loaded"
    /\ \/ /\ Exists(c)
          /\ box' = [box EXCEPT ![c] = IF switch[s].to = "running" THEN "up" ELSE "stopped"]
          /\ switch' = [switch EXCEPT ![s].pc = "switched"]
       \/ /\ switch' = [switch EXCEPT ![s].pc = "done"]
          /\ UNCHANGED box
    /\ UNCHANGED <<rec, run, destroy, daemon, deaths>>

\* Mutant: the commit looks only for a removed record.
CommitOverMark(s) ==
    LET i == switch[s].inst IN
    /\ switch[s].pc = "switched"
    /\ rec' = IF Present(i) THEN [rec EXCEPT ![i].status = switch[s].to] ELSE rec
    /\ switch' = [switch EXCEPT ![s].pc = "done"]
    /\ UNCHANGED <<run, destroy, box, daemon, deaths>>

CommitTransition(s) ==
    LET i == switch[s].inst IN
    /\ switch[s].pc = "switched"
    /\ rec' = IF Gone(i) THEN rec ELSE [rec EXCEPT ![i].status = switch[s].to]
    /\ switch' = [switch EXCEPT ![s].pc = "done"]
    /\ UNCHANGED <<run, destroy, box, daemon, deaths>>

-----------------------------------------------------------------------------
(* The daemon.                                                             *)

\* cancelHub: from here the job contexts end, each in its own time.
BeginShutdown ==
    /\ daemon = "serving"
    /\ deaths < MaxDeaths
    /\ daemon' = "stopping"
    /\ UNCHANGED <<rec, run, destroy, switch, box, deaths>>

\* The AfterFunc newJobContext hung on the daemon's context.
ShutdownCancel(r) ==
    /\ daemon = "stopping"
    /\ Registered(r)
    /\ ~Cancelled(r)
    /\ run' = [run EXCEPT ![r].cause = "shutdown"]
    /\ UNCHANGED <<rec, destroy, switch, box, daemon, deaths>>

Lost(job) == IF job.pc \in {"idle", "done", "exited"} THEN job ELSE [job EXCEPT !.pc = "lost"]

\* A backend call the process was in may have got anywhere: those in made to their
\* end, those in cut half way.
InBackend == {r \in Runs : run[r].pc = "backend"}
BoxLeft(made, cut) ==
    [c \in Runs |-> IF c \in made THEN "up"
                    ELSE IF \E r \in made \cup cut : run[r].kind = "rebuild" /\ run[r].from = c
                    THEN "gone" ELSE box[c]]

\* The process ends: at the end of a shutdown, at its hard limit, or killed.
Die ==
    /\ daemon # "down"
    /\ deaths < MaxDeaths
    /\ daemon' = "down"
    /\ deaths' = deaths + 1
    /\ run' = [r \in Runs |-> Lost(run[r])]
    /\ destroy' = [d \in Destroys |-> Lost(destroy[d])]
    /\ switch' = [s \in Switches |-> Lost(switch[s])]
    /\ box' \in {BoxLeft(made, cut) : made \in SUBSET InBackend, cut \in SUBSET InBackend}
    /\ UNCHANGED rec

\* The end of a shutdown, by its steps or its hard limit.
Exit == daemon = "stopping" /\ Die

\* Mutant: StatusRebuilding is forgotten.
FailInterruptedCreates ==
    /\ daemon = "down"
    /\ daemon' = "serving"
    /\ rec' = [i \in Instances |-> IF rec[i].status \in {"creating", "cloning"}
                                   THEN [rec[i] EXCEPT !.status = "failed"] ELSE rec[i]]
    /\ UNCHANGED <<run, destroy, switch, box, deaths>>

\* failInterruptedJobs, before the new daemon accepts an RPC.
FailInterruptedJobs ==
    /\ daemon = "down"
    /\ daemon' = "serving"
    /\ rec' = [i \in Instances |-> IF rec[i].status \in Provisioning
                                   THEN [rec[i] EXCEPT !.status = "failed"] ELSE rec[i]]
    /\ UNCHANGED <<run, destroy, switch, box, deaths>>

-----------------------------------------------------------------------------
RunStep(r) ==
    \/ JobStart(r) \/ RunLoad(r) \/ Prepare(r)
    \/ StopIfCancelled(r) \/ CommitRunning(r) \/ AbandonRun(r)
    \/ DiscardContainer(r) \/ SetFailed(r) \/ JobFinish(r)

BackendStep(r) == BackendOk(r) \/ BackendErr(r) \/ BackendCheckpointed(r)

DestroyStep(d) ==
    \/ DestroyMark(d) \/ CancelProvisioning(d) \/ AwaitCancelledJobs(d)
    \/ DestroySnapshot(d) \/ DestroyRemove(d)
    \/ \E c \in Runs : DownInstance(d, c)

SwitchStep(s) == SwitchBackend(s) \/ CommitTransition(s)

Scopes == {{i} : i \in Instances} \cup {Instances}

Request ==
    \/ \E r \in Runs, i \in Instances : StartCreateInstanceJob(r, i)
    \/ \E r \in Runs, src, i \in Instances : StartCloneInstanceJob(r, src, i)
    \/ \E r \in Runs, i \in Instances : StartRebuildInstanceJob(r, i)
    \/ \E d \in Destroys, scope \in Scopes : DestroyValidate(d, scope)
    \/ \E s \in Switches, i \in Instances, to \in {"running", "stopped"} : SwitchLoad(s, i, to)

Next ==
    \/ Request
    \/ \E r \in Runs : RunStep(r) \/ BackendStep(r) \/ ShutdownCancel(r)
    \/ \E d \in Destroys : DestroyStep(d)
    \/ \E s \in Switches : SwitchStep(s)
    \/ BeginShutdown \/ Die \/ FailInterruptedJobs

Spec == Init /\ [][Next]_vars

\* The goroutines of the jobs keep running, the shutdown's hard limit ends the
\* process, and a client starts the daemon again.  Nothing says a backend call returns.
FairSpec ==
    /\ Spec
    /\ \A r \in Runs : WF_vars(RunStep(r))
    /\ \A d \in Destroys : WF_vars(DestroyStep(d))
    /\ \A s \in Switches : WF_vars(SwitchStep(s))
    /\ WF_vars(Exit)
    /\ WF_vars(FailInterruptedJobs)

-----------------------------------------------------------------------------
(* Properties.                                                             *)

\* What knows of container c and will see to it: a record, or the run that made it
\* (which the daemon's death may have cut off).
Accounted(c) ==
    \/ \E i \in Instances : Present(i) /\ rec[i].cid = c
    \/ run[c].pc \in {"built", "finishing", "abandon", "discard", "lost"}

\* No container is left behind: a run's container is committed to its record or,
\* when a destroy came first, torn down by the run or by the destroy, "never
\* neither" (markInstanceRunning), wherever the destroy's mark, cancellation,
\* expired wait and teardown fall between the run's steps.
NoOrphan == \A c \in Runs : Exists(c) => Accounted(c)

\* A record marked StatusDeleting only ever leaves that status by being removed:
\* no commit, failure, start, stop or restart brings it back.
NoResurrection ==
    [][\A i \in Instances : rec[i].status = "deleting"
          => rec'[i].status \in {"deleting", "absent"}]_vars

\* A container on a record is torn down only when the record is being destroyed, or
\* by the rebuild working on it; a shutdown's cancellation never costs one (abandonRun).
NoDataLoss ==
    [][\A i \in Instances, c \in Runs :
          rec[i].cid = c /\ Exists(c) /\ box'[c] = "gone"
             => rec[i].status \in {"deleting", "rebuilding"}]_vars

\* A run that has not yet settled its record.
Uncommitted == {"accepted", "load", "prepare", "backend", "built", "finishing",
                "abandon", "discard", "failing"}

\* At most one provisioning run works on an instance: the transitional guard of
\* startRebuildInstanceJob, the name check of create and clone and what the runs
\* leave on the record see to it, not the clients.
OneRunPerInstance ==
    \A r, q \in Runs : /\ run[r].pc \in Uncommitted
                      /\ run[q].pc \in Uncommitted
                      /\ run[r].inst = run[q].inst
                      => r = q

\* While the daemon serves, a record in a provisioning status has a run that will
\* settle it: none stays wedged after a restart (failInterruptedJobs).
ProvisioningHasRun ==
    daemon = "serving" =>
        \A i \in Instances : rec[i].status \in Provisioning =>
            \E r \in Runs : RunInFlight(r) /\ run[r].inst = i

\* What a record says of its container is so.
Truthful(i) ==
    /\ rec[i].status = "running" => Exists(rec[i].cid) /\ box[rec[i].cid] = "up"
    /\ rec[i].status = "stopped" => Exists(rec[i].cid) /\ box[rec[i].cid] = "stopped"

\* Once nothing is in flight for it, an instance recorded running (stopped) has a
\* container that is up (stopped), unless the daemon died between the two.
SettledRecordIsTrue ==
    \A i \in Instances :
        /\ Free(i)
        /\ \A s \in Switches : switch[s].pc = "lost" => switch[s].inst # i
        => Truthful(i)

\* A destroy ends even when a run it cancelled never returns from its backend call
\* (destroyCancelWait), unless the daemon dies under it.
DestroyCompletes ==
    \A d \in Destroys : destroy[d].pc = "validated" ~> destroy[d].pc \in {"done", "lost"}

\* A provisioning status is left in the end, through shutdowns, deaths and restarts,
\* unless a backend call never returns.
ProvisioningSettles ==
    \/ \E r \in Runs : <>[](run[r].pc = "backend")
    \/ \A i \in Instances : rec[i].status \in Provisioning ~> rec[i].status \notin Provisioning

-----------------------------------------------------------------------------
(* The invariant NoOrphan and OneRunPerInstance follow from, inductive when *)
(* Serial holds.                                                           *)

\* Before its backend call returns, a run's container is not made.
Unbuilt == {"idle", "accepted", "load", "prepare", "backend"}
Committed == {"exit", "exited", "lost"}

\* A working run's record is in a provisioning status or gone, and nobody switches
\* it; a daemon that is down has no working run.
RunHoldsStatus ==
    \A r \in Runs : run[r].pc \in Uncommitted =>
        /\ Gone(run[r].inst) \/ rec[run[r].inst].status \in Provisioning
        /\ \A s \in Switches : SwitchInFlight(s) => switch[s].inst # run[r].inst
        /\ daemon # "down"

\* A run finds its record as it left it: without a container (create, clone), or with
\* the container it replaces (rebuild), which is gone once the new one is built.
RunOwnsRecord ==
    \A r \in Runs : run[r].pc \in Uncommitted =>
        LET i == run[r].inst IN
        /\ run[r].kind # "rebuild" => rec[i].cid = NoContainer
        /\ run[r].kind = "rebuild" => run[r].src = i
        /\ run[r].kind = "rebuild" /\ run[r].pc \notin {"accepted", "load", "failing"} =>
             /\ Present(i) => rec[i].cid = run[r].from
             /\ run[r].pc # "prepare" /\ run[r].pc # "backend" => ~Exists(run[r].from)

\* A container someone can name was made by a run that is past its commit, and a run
\* that is not past its backend call has made none.
ContainersAreMade ==
    /\ \A i \in Instances : rec[i].cid # NoContainer => Present(i) /\ run[rec[i].cid].pc \in Committed
    /\ \A r \in Runs : run[r].from # NoContainer => run[run[r].from].pc \in Committed
    /\ \A d \in Destroys : \A c \in destroy[d].targets : run[c].pc \in Committed
    /\ \A r \in Runs : run[r].pc \in Unbuilt => box[r] = "none"

\* From its mark on, a destroy's targets stay marked or removed, and from its snapshot
\* on it knows every container they record.
DestroyKnowsTargets ==
    \A d \in Destroys : destroy[d].pc \in {"marked", "await", "snapshot", "teardown"} =>
        \A i \in destroy[d].scope :
            /\ Gone(i)
            /\ destroy[d].pc = "teardown" /\ Exists(rec[i].cid) => rec[i].cid \in destroy[d].targets

SafeInv ==
    /\ TypeOK
    /\ OneRunPerInstance
    /\ RunHoldsStatus
    /\ RunOwnsRecord
    /\ ContainersAreMade
    /\ DestroyKnowsTargets
    /\ NoOrphan

-----------------------------------------------------------------------------
(* What NoDataLoss, ProvisioningHasRun and SettledRecordIsTrue need beside *)
(* it, inductive together with it.                                         *)

\* Whoever names a container names one of the instance it works for.
ContainersAreOwn ==
    /\ \A i \in Instances : rec[i].cid # NoContainer =>
         run[rec[i].cid].inst = i /\ rec[i].status \notin {"creating", "cloning"}
    /\ \A r \in Runs : run[r].from # NoContainer => run[run[r].from].inst = run[r].src
    /\ \A d \in Destroys : /\ destroy[d].pc = "idle" => destroy[d].targets = {}
                           /\ \A c \in destroy[d].targets : run[c].inst \in destroy[d].scope
    /\ \A s \in Switches : switch[s].cid # NoContainer =>
         run[switch[s].cid].pc \in Committed /\ run[switch[s].cid].inst = switch[s].inst

\* A run commits a container that is up and discards only that of a record that is gone;
\* while the daemon serves none is cut by a shutdown, and a provisioning record has one.
RunsSettle ==
    /\ \A r \in Runs : /\ run[r].pc \in {"built", "finishing"} => box[r] = "up"
                       /\ run[r].pc = "discard" => Gone(run[r].inst)
    /\ daemon = "serving" =>
         /\ \A r \in Runs : run[r].pc \in Uncommitted => run[r].cause # "shutdown"
         /\ \A i \in Instances : rec[i].status \in Provisioning =>
              \E r \in Runs : run[r].pc \in Uncommitted /\ run[r].inst = i

\* A start or stop under way is the only one of its instance, finds the record as it
\* loaded it or gone, and once the backend is through the container is as it asked.
Holding(s) ==
    LET i == switch[s].inst
        c == switch[s].cid
    IN
    /\ daemon # "down"
    /\ \A q \in Switches : SwitchInFlight(q) /\ switch[q].inst = i => q = s
    /\ ~Gone(i) => /\ rec[i].cid = c
                   /\ rec[i].status = IF switch[s].to = "stopped" THEN "running" ELSE "stopped"
                   /\ switch[s].pc = "switched" =>
                        Exists(c) /\ box[c] = IF switch[s].to = "running" THEN "up" ELSE "stopped"
SwitchHoldsRecord == \A s \in Switches : SwitchInFlight(s) => Holding(s)

\* A record is true but between the two halves of a start or stop, or when they were cut.
RecordsAreTrue ==
    \A i \in Instances :
        (\A s \in Switches : switch[s].pc \in {"switched", "lost"} => switch[s].inst # i) => Truthful(i)

RecordInv == SafeInv /\ ContainersAreOwn /\ RunsSettle /\ SwitchHoldsRecord /\ RecordsAreTrue
=============================================================================
