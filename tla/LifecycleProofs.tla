-------------------------- MODULE LifecycleProofs --------------------------
(***************************************************************************)
(* Proofs about Lifecycle, for every set of instances, runs, destroys and  *)
(* switches: SafeInv and RecordInv are inductive for clients that keep to  *)
(* Serial, and with them no container is left behind or lost, two runs     *)
(* exclude each other, and records are worked on or true.                  *)
(***************************************************************************)
EXTENDS Lifecycle, TLAPS

\* A leaf goes to Zenon, with time for a busy machine, unless it names another prover.
USE ZenonT(60)

-----------------------------------------------------------------------------
(* Type correctness.                                                       *)

\* The program counters, statuses and causes the steps assign are of their sets; with
\* this the sets themselves stay closed in the proofs below.
LEMMA Values ==
    /\ {"accepted", "load", "prepare", "backend", "built", "finishing", "abandon",
        "discard", "failing", "exit", "exited", "lost"} \subseteq RunPCs
    /\ {"idle", "validated", "marked", "await", "snapshot", "teardown", "done", "lost"}
         \subseteq DestroyPCs
    /\ {"loaded", "switched", "done", "lost"} \subseteq SwitchPCs
    /\ {"absent", "creating", "cloning", "running", "stopped", "failed", "deleting",
        "rebuilding"} \subseteq Statuses
    /\ {"none", "destroyed", "shutdown"} \subseteq Causes
    /\ NoContainer \in ContainerIDs
    /\ Runs \subseteq ContainerIDs
  BY DEF RunPCs, DestroyPCs, SwitchPCs, Statuses, Causes, ContainerIDs

\* The daemon starts in a well-typed state: nothing recorded, nothing running.
LEMMA TypeInit == Init => TypeOK
<1> SUFFICES ASSUME Init PROVE TypeOK
  OBVIOUS
<1>1. SomeInstance \in Instances
  BY LifecycleAssumption DEF SomeInstance
<1>2. QED
  BY <1>1, LifecycleAssumption, SMTT(60) DEF Init, TypeOK, RecordType, RunType, DestroyType, SwitchType,
     Statuses, ContainerIDs, RunPCs, Causes, DestroyPCs, SwitchPCs

\* Every handler and every job step of the daemon keeps the state well-typed.
LEMMA TypeNext == TypeOK /\ [Next]_vars => TypeOK'
<1> SUFFICES ASSUME TypeOK, [Next]_vars PROVE TypeOK'
  OBVIOUS
<1> USE DEF TypeOK
<1>1. ASSUME NEW r \in Runs, NEW i \in Instances, StartCreateInstanceJob(r, i) PROVE TypeOK'
  BY <1>1, Values DEF RecordType, RunType, StartCreateInstanceJob, Accept
<1>2. ASSUME NEW r \in Runs, NEW src \in Instances, NEW i \in Instances,
             StartCloneInstanceJob(r, src, i)
      PROVE  TypeOK'
  BY <1>2, Values DEF RecordType, RunType, StartCloneInstanceJob, Accept
<1>3. ASSUME NEW r \in Runs, NEW i \in Instances, StartRebuildInstanceJob(r, i) PROVE TypeOK'
  BY <1>3, Values DEF RecordType, RunType, StartRebuildInstanceJob, Accept
<1>4. ASSUME NEW d \in Destroys, NEW scope \in Scopes, DestroyValidate(d, scope) PROVE TypeOK'
  <2>1. scope \in SUBSET Instances
    BY SMTT(60) DEF Scopes
  <2>2. QED
    BY <1>4, <2>1, Values DEF DestroyType, DestroyValidate
<1>5. ASSUME NEW s \in Switches, NEW i \in Instances, NEW to \in {"running", "stopped"},
             SwitchLoad(s, i, to)
      PROVE  TypeOK'
  BY <1>5, Values DEF RecordType, SwitchType, SwitchLoad
<1>6. ASSUME NEW r \in Runs, RunStep(r) PROVE TypeOK'
  <2>1. CASE JobStart(r)
    BY <2>1, Values, SMTT(60) DEF RunType, JobStart
  <2>2. CASE RunLoad(r)
    <3>1. LoadedFrom(r) \in ContainerIDs
      BY Values DEF LoadedFrom, RecordType, RunType
    <3>2. CASE run' = [run EXCEPT ![r].pc = "prepare", ![r].from = LoadedFrom(r)]
      BY <2>2, <3>1, <3>2, Values, SMTT(60) DEF RunLoad, RunType
    <3>3. CASE run' = [run EXCEPT ![r].pc = "failing"]
      BY <2>2, <3>3, Values DEF RunLoad, RunType
    <3>4. QED
      BY <2>2, <3>2, <3>3 DEF RunLoad
  <2>3. CASE Prepare(r)
    <3>1. CASE run' = [run EXCEPT ![r].pc = "failing"]
      BY <2>3, <3>1, Values, SMTT(60) DEF Prepare, RunType
    <3>2. CASE run' = [run EXCEPT ![r].pc = "backend"]
      BY <2>3, <3>2, Values, SMTT(60) DEF Prepare, RunType
    <3>3. QED
      BY <2>3, <3>1, <3>2 DEF Prepare
  <2>4. CASE StopIfCancelled(r)
    BY <2>4, Values, SMTT(60) DEF RunType, StopIfCancelled
  <2>5. CASE CommitRunning(r)
    <3>1. CASE run' = [run EXCEPT ![r].pc = "abandon"] /\ rec' = rec
      BY <2>5, <3>1, Values, SMTT(60) DEF CommitRunning, RunType
    <3>2. CASE /\ run' = [run EXCEPT ![r].pc = "exit"]
               /\ rec' = [rec EXCEPT ![run[r].inst] = [status |-> "running", cid |-> r]]
      BY <2>5, <3>2, Values DEF CommitRunning, RunType, RecordType
    <3>3. QED
      BY <2>5, <3>1, <3>2 DEF CommitRunning
  <2>6. CASE AbandonRun(r)
    <3>1. CASE run' = [run EXCEPT ![r].pc = "discard"] /\ rec' = rec
      BY <2>6, <3>1, Values, SMTT(60) DEF AbandonRun, RunType
    <3>2. CASE /\ run' = [run EXCEPT ![r].pc = "exit"]
               /\ rec' = [rec EXCEPT ![run[r].inst] = [status |-> "failed", cid |-> r]]
      BY <2>6, <3>2, Values DEF AbandonRun, RunType, RecordType
    <3>3. QED
      BY <2>6, <3>1, <3>2 DEF AbandonRun
  <2>7. CASE DiscardContainer(r)
    BY <2>7, Values, SMTT(60) DEF RunType, DiscardContainer
  <2>8. CASE SetFailed(r)
    BY <2>8, Values DEF RecordType, RunType, SetFailed
  <2>9. CASE JobFinish(r)
    BY <2>9, Values DEF RunType, JobFinish
  <2>10. QED
    BY <1>6, <2>1, <2>2, <2>3, <2>4, <2>5, <2>6, <2>7, <2>8, <2>9 DEF RunStep
<1>7. ASSUME NEW r \in Runs, BackendStep(r) PROVE TypeOK'
  BY <1>7, Values, SMTT(60) DEF RunType, BackendStep, BackendOk, BackendErr, BackendCheckpointed, BoxBuilt, BoxCut
<1>8. ASSUME NEW r \in Runs, ShutdownCancel(r) PROVE TypeOK'
  BY <1>8, Values DEF RunType, ShutdownCancel
<1>9. ASSUME NEW d \in Destroys, DestroyStep(d) PROVE TypeOK'
  <2>1. CASE DestroyMark(d)
    BY <2>1, Values DEF RecordType, DestroyType, DestroyMark
  <2>2. CASE CancelProvisioning(d)
    <3>1. ProvisioningJobs(d) \in SUBSET Runs
      BY DEF ProvisioningJobs
    <3>2. run' \in [Runs -> RunType]
      BY <2>2, Values, SMTT(60) DEF CancelProvisioning, RunType
    <3>3. destroy' \in [Destroys -> DestroyType]
      BY <2>2, <3>1, Values DEF CancelProvisioning, DestroyType
    <3>4. QED
      BY <2>2, <3>2, <3>3 DEF CancelProvisioning
  <2>3. CASE AwaitCancelledJobs(d)
    BY <2>3, Values DEF DestroyType, AwaitCancelledJobs
  <2>4. CASE DestroySnapshot(d)
    <3> DEFINE known == {rec[i].cid : i \in {j \in destroy[d].scope : Present(j)}} \ {NoContainer}
    <3>1. destroy[d].scope \subseteq Instances
      BY DEF DestroyType
    <3>2. known \in SUBSET Runs
      <4>1. SUFFICES ASSUME NEW i \in destroy[d].scope PROVE rec[i].cid \in ContainerIDs
        BY DEF ContainerIDs
      <4>2. QED
        BY <3>1, <4>1 DEF RecordType
    <3> HIDE DEF known
    <3>3. destroy' = [destroy EXCEPT ![d].pc = "teardown", ![d].targets = known]
      BY <2>4 DEF DestroySnapshot, known
    <3>4. QED
      <4>1. destroy' \in [Destroys -> DestroyType]
        <5> HIDE DEF TypeOK
        <5>1. destroy \in [Destroys -> DestroyType]
          BY DEF TypeOK
        <5>2. QED
          BY <3>2, <3>3, <5>1, Values DEF DestroyType
      <4>2. QED
        BY <2>4, <4>1 DEF DestroySnapshot
  <2>5. CASE DestroyRemove(d)
    BY <2>5, Values DEF RecordType, DestroyType, DestroyRemove
  <2>6. CASE \E c \in Runs : DownInstance(d, c)
    BY <2>6, Values, SMTT(60) DEF DestroyType, DownInstance
  <2>7. QED
    BY <1>9, <2>1, <2>2, <2>3, <2>4, <2>5, <2>6 DEF DestroyStep
<1>10. ASSUME NEW s \in Switches, SwitchStep(s) PROVE TypeOK'
  <2>1. CASE SwitchBackend(s)
    <3>1. switch' \in [Switches -> SwitchType]
      BY <2>1, Values, SMTT(60) DEF SwitchBackend, SwitchType
    <3>2. box' \in [Runs -> {"none", "up", "stopped", "gone"}]
      BY <2>1 DEF SwitchBackend, Exists
    <3>3. QED
      BY <2>1, <3>1, <3>2 DEF SwitchBackend
  <2>2. CASE CommitTransition(s)
    <3>1. switch' \in [Switches -> SwitchType]
      BY <2>2, Values DEF CommitTransition, SwitchType
    <3>2. switch[s].to \in Statuses
      BY Values DEF SwitchType
    <3>3. rec' \in [Instances -> RecordType]
      BY <2>2, <3>2 DEF CommitTransition, RecordType
    <3>4. QED
      BY <2>2, <3>1, <3>3 DEF CommitTransition
  <2>3. QED
    BY <1>10, <2>1, <2>2 DEF SwitchStep
<1>11. CASE BeginShutdown
  BY <1>11, Values DEF BeginShutdown
<1>12. CASE Die
  <2>1. run' \in [Runs -> RunType]
    BY <1>12, Values, SMTT(60) DEF Die, BoxLeft, InBackend, Lost, RunType
  <2>2. destroy' \in [Destroys -> DestroyType]
    <3>1. ASSUME NEW d \in Destroys PROVE Lost(destroy[d]) \in DestroyType
      <4>1. destroy[d] \in DestroyType
        OBVIOUS
      <4>2. QED
        BY <4>1, Values DEF Lost, DestroyType
    <3>2. QED
      BY <1>12, <3>1 DEF Die
  <2>3. switch' \in [Switches -> SwitchType]
    BY <1>12, Values, SMTT(60) DEF Die, BoxLeft, InBackend, Lost, SwitchType
  <2>4. box' \in [Runs -> {"none", "up", "stopped", "gone"}]
    <3>1. PICK made \in SUBSET InBackend, cut \in SUBSET InBackend : box' = BoxLeft(made, cut)
      BY <1>12, SMTT(60) DEF Die
    <3>2. ASSUME NEW c \in Runs PROVE box'[c] \in {"none", "up", "stopped", "gone"}
      BY <3>1 DEF BoxLeft
    <3>3. QED
      BY <3>1, <3>2 DEF BoxLeft
  <2>5. deaths' \in 0..MaxDeaths
    BY <1>12, LifecycleAssumption, SMTT(60) DEF Die
  <2>6. QED
    BY <1>12, <2>1, <2>2, <2>3, <2>4, <2>5 DEF Die
<1>13. CASE FailInterruptedJobs
  BY <1>13, Values DEF RecordType, FailInterruptedJobs
<1>14. CASE UNCHANGED vars
  BY <1>14, Values DEF vars
<1>15. QED
  BY <1>1, <1>2, <1>3, <1>4, <1>5, <1>6, <1>7, <1>8, <1>9, <1>10, <1>11, <1>12, <1>13, <1>14
     DEF Next, Request

\* The daemon's records, jobs and containers are well-typed in every reachable state.
THEOREM TypeCorrect == Spec => []TypeOK
  BY TypeInit, TypeNext, PTL DEF Spec

-----------------------------------------------------------------------------
(* A destroy's mark is final.                                              *)

\* One step of any job, handler or restart leaves a StatusDeleting record as it is
\* or removes it: every writer looks at the status under the state lock.
LEMMA DeletingStep ==
    ASSUME TypeOK, [Next]_vars, NEW i \in Instances, rec[i].status = "deleting"
    PROVE  rec'[i].status \in {"deleting", "absent"}
<1> USE DEF TypeOK, RecordType
<1>1. ASSUME NEW r \in Runs, NEW j \in Instances, StartCreateInstanceJob(r, j)
      PROVE  rec'[i].status = "deleting"
  BY <1>1 DEF StartCreateInstanceJob, Present
<1>2. ASSUME NEW r \in Runs, NEW src \in Instances, NEW j \in Instances,
             StartCloneInstanceJob(r, src, j)
      PROVE  rec'[i].status = "deleting"
  BY <1>2 DEF StartCloneInstanceJob, Present
<1>3. ASSUME NEW r \in Runs, NEW j \in Instances, StartRebuildInstanceJob(r, j)
      PROVE  rec'[i].status = "deleting"
  BY <1>3 DEF StartRebuildInstanceJob, IsTransitionalStatus
<1>4. ASSUME NEW r \in Runs, RunStep(r) PROVE rec'[i].status = "deleting"
  BY <1>4 DEF RunStep, JobStart, RunLoad, Prepare, StopIfCancelled, CommitRunning, AbandonRun,
     DiscardContainer, SetFailed, JobFinish, Gone
<1>5. ASSUME NEW s \in Switches, SwitchStep(s) PROVE rec'[i].status = "deleting"
  BY <1>5 DEF SwitchStep, SwitchBackend, CommitTransition, Gone
<1>6. ASSUME NEW d \in Destroys, DestroyStep(d) PROVE rec'[i].status \in {"deleting", "absent"}
  BY <1>6, SMTT(60) DEF DestroyStep, DestroyMark, CancelProvisioning, AwaitCancelledJobs, DestroySnapshot,
     DestroyRemove, DownInstance
<1>7. CASE FailInterruptedJobs
  BY <1>7 DEF FailInterruptedJobs, Provisioning
<1>8. ASSUME UNCHANGED rec PROVE rec'[i].status = "deleting"
  BY <1>8
<1>9. CASE Die
  BY <1>8, <1>9 DEF Die
<1>10. QED
  BY <1>1, <1>2, <1>3, <1>4, <1>5, <1>6, <1>7, <1>8, <1>9 DEF Next, Request, vars, DestroyValidate,
     SwitchLoad, BackendStep, BackendOk, BackendErr, BackendCheckpointed, ShutdownCancel,
     BeginShutdown

\* No commit, failure, start, stop, rebuild or restart revives an instance that a
\* destroy has marked, however the daemon's jobs interleave and wherever it dies.
THEOREM DestroyMarkIsFinal == Spec => NoResurrection
<1>1. TypeOK /\ [Next]_vars =>
        [\A i \in Instances : rec[i].status = "deleting"
             => rec'[i].status \in {"deleting", "absent"}]_vars
  BY DeletingStep
<1>2. QED
  BY <1>1, TypeCorrect, PTL DEF Spec, NoResurrection

-----------------------------------------------------------------------------
(* Clients that reuse no name early and overlap no start or stop (Serial),  *)
(* but may destroy an instance at any time: SafeInv is inductive.           *)

\* The empty state.json, with no job yet, satisfies the invariant.
LEMMA SafeInit == ASSUME Init PROVE SafeInv
<1>1. TypeOK
  BY TypeInit
<1>2. OneRunPerInstance /\ RunHoldsStatus /\ RunOwnsRecord /\ ContainersAreMade /\ DestroyKnowsTargets
      /\ NoOrphan
  BY LifecycleAssumption DEF Init, OneRunPerInstance, RunHoldsStatus, RunOwnsRecord, Uncommitted,
     ContainersAreMade, Unbuilt, DestroyKnowsTargets, NoOrphan, Exists
<1>3. QED
  BY <1>1, <1>2 DEF SafeInv

\* A request that is accepted (create, clone, rebuild, destroy, start, stop) keeps it: the
\* checks and the write of the record are under one state lock.
LEMMA RequestKeepsSafe ==
    ASSUME Serial, SafeInv, [Next]_vars, Request
    PROVE  SafeInv'
<1> USE DEF SafeInv, TypeOK, RecordType, RunType, DestroyType, SwitchType, ContainerIDs
<1>0. TypeOK'
  BY TypeNext
<1>1. ASSUME NEW r \in Runs, NEW i \in Instances, StartCreateInstanceJob(r, i) PROVE SafeInv'
  <2>10. \A q \in Runs : run[q].pc \in Uncommitted => run[q].inst # i
    BY <1>1, SMTT(60) DEF StartCreateInstanceJob, NameFree, Free, RunInFlight, Uncommitted
  <2>11. \A s \in Switches : SwitchInFlight(s) => switch[s].inst # i
    BY <1>1 DEF StartCreateInstanceJob, NameFree, Free
  <2>1. OneRunPerInstance'
    BY <1>1, <2>10 DEF StartCreateInstanceJob, Accept, OneRunPerInstance
  <2>2. RunOwnsRecord'
    <3>1. \A q \in Runs : RunInFlight(q) => run[q].inst # i
      BY <1>1, SMTT(60) DEF StartCreateInstanceJob, NameFree, Free
    <3>2. QED
      BY <1>1, <3>1, LifecycleAssumption, SMTT(60) DEF StartCreateInstanceJob, Accept, RunInFlight, RunOwnsRecord, Uncommitted, Present, Exists
  <2>3. ContainersAreMade'
    BY <1>1, SMTT(60) DEF StartCreateInstanceJob, Accept, NameFree, Free, DestroyInFlight, SwitchInFlight,
       ContainersAreMade, Committed, Unbuilt, Present
  <2>4. DestroyKnowsTargets'
    <3>1. \A e \in Destroys : DestroyInFlight(e) => i \notin destroy[e].scope
      BY <1>1 DEF StartCreateInstanceJob, NameFree, Free
    <3> SUFFICES ASSUME NEW e \in Destroys, destroy[e].pc \in {"marked", "await", "snapshot", "teardown"},
                        NEW j \in destroy[e].scope
                 PROVE  rec'[j] = rec[j]
      BY <1>1 DEF StartCreateInstanceJob, DestroyKnowsTargets, Gone, Exists
    <3>2. i # j
      BY <3>1 DEF DestroyInFlight
    <3>3. QED
      BY <1>1, <3>2 DEF StartCreateInstanceJob
  <2>5. NoOrphan'
    BY <1>1 DEF StartCreateInstanceJob, Accept, NameFree, Free, DestroyInFlight, SwitchInFlight,
       NoOrphan, Accounted, Exists, Present
  <2>6. RunHoldsStatus'
    <3> SUFFICES ASSUME NEW q \in Runs, run'[q].pc \in Uncommitted
                 PROVE  /\ rec'[run'[q].inst].status \in {"absent", "deleting"} \cup Provisioning
                        /\ \A s \in Switches : SwitchInFlight(s) => switch[s].inst # run'[q].inst
                        /\ daemon # "down"
      BY <1>1 DEF StartCreateInstanceJob, RunHoldsStatus, Gone, SwitchInFlight
    <3>1. CASE q = r
      BY <1>1, <2>11, <3>1 DEF StartCreateInstanceJob, Accept, Provisioning
    <3>2. CASE q # r
      <4>1. run'[q] = run[q] /\ run[q].inst # i
        BY <1>1, <2>10, <3>2 DEF StartCreateInstanceJob, Accept
      <4>2. rec'[run[q].inst] = rec[run[q].inst]
        BY <1>1, <4>1 DEF StartCreateInstanceJob
      <4>3. QED
        BY <4>1, <4>2, SMTT(60) DEF RunHoldsStatus, Gone
    <3>3. QED
      BY <3>1, <3>2, SMTT(60)
  <2>7. QED
    BY <1>0, <2>1, <2>2, <2>3, <2>4, <2>5, <2>6
<1>2. ASSUME NEW r \in Runs, NEW src \in Instances, NEW i \in Instances, StartCloneInstanceJob(r, src, i)
     PROVE  SafeInv'
  <2>10. \A q \in Runs : run[q].pc \in Uncommitted => run[q].inst # i
    BY <1>2 DEF StartCloneInstanceJob, NameFree, Free, RunInFlight, Uncommitted
  <2>11. \A s \in Switches : SwitchInFlight(s) => switch[s].inst # i
    BY <1>2, SMTT(60) DEF StartCloneInstanceJob, NameFree, Free
  <2>1. OneRunPerInstance'
    BY <1>2, <2>10, SMTT(60) DEF StartCloneInstanceJob, Accept, OneRunPerInstance
  <2>2. RunOwnsRecord'
    <3>1. \A q \in Runs : RunInFlight(q) => run[q].inst # i
      BY <1>2, SMTT(60) DEF StartCloneInstanceJob, NameFree, Free
    <3>2. QED
      BY <1>2, <3>1, LifecycleAssumption, SMTT(60) DEF StartCloneInstanceJob, Accept, RunInFlight, RunOwnsRecord, Uncommitted, Present, Exists
  <2>3. ContainersAreMade'
    BY <1>2, SMTT(60) DEF StartCloneInstanceJob, Accept, NameFree, Free, DestroyInFlight, SwitchInFlight,
       ContainersAreMade, Committed, Unbuilt, Present
  <2>4. DestroyKnowsTargets'
    <3>1. \A e \in Destroys : DestroyInFlight(e) => i \notin destroy[e].scope
      BY <1>2 DEF StartCloneInstanceJob, NameFree, Free
    <3> SUFFICES ASSUME NEW e \in Destroys, destroy[e].pc \in {"marked", "await", "snapshot", "teardown"},
                        NEW j \in destroy[e].scope
                 PROVE  rec'[j] = rec[j]
      BY <1>2 DEF StartCloneInstanceJob, DestroyKnowsTargets, Gone, Exists
    <3>2. i # j
      BY <3>1, SMTT(60) DEF DestroyInFlight
    <3>3. QED
      BY <1>2, <3>2 DEF StartCloneInstanceJob
  <2>5. NoOrphan'
    BY <1>2 DEF StartCloneInstanceJob, Accept, NameFree, Free, DestroyInFlight, SwitchInFlight,
       NoOrphan, Accounted, Exists, Present
  <2>6. RunHoldsStatus'
    <3> SUFFICES ASSUME NEW q \in Runs, run'[q].pc \in Uncommitted
                 PROVE  /\ rec'[run'[q].inst].status \in {"absent", "deleting"} \cup Provisioning
                        /\ \A s \in Switches : SwitchInFlight(s) => switch[s].inst # run'[q].inst
                        /\ daemon # "down"
      BY <1>2, SMTT(60) DEF StartCloneInstanceJob, RunHoldsStatus, Gone, SwitchInFlight
    <3>1. CASE q = r
      BY <1>2, <2>11, <3>1 DEF StartCloneInstanceJob, Accept, Provisioning
    <3>2. CASE q # r
      <4>1. run'[q] = run[q] /\ run[q].inst # i
        BY <1>2, <2>10, <3>2 DEF StartCloneInstanceJob, Accept
      <4>2. rec'[run[q].inst] = rec[run[q].inst]
        BY <1>2, <4>1 DEF StartCloneInstanceJob
      <4>3. QED
        BY <4>1, <4>2, SMTT(60) DEF RunHoldsStatus, Gone
    <3>3. QED
      BY <3>1, <3>2
  <2>7. QED
    BY <1>0, <2>1, <2>2, <2>3, <2>4, <2>5, <2>6
<1>3. ASSUME NEW r \in Runs, NEW i \in Instances, StartRebuildInstanceJob(r, i) PROVE SafeInv'
  <2>10. \A q \in Runs : run[q].pc \in Uncommitted => run[q].inst # i
    BY <1>3 DEF StartRebuildInstanceJob, RunHoldsStatus, IsTransitionalStatus, Gone, Present
  <2>11. \A s \in Switches : SwitchInFlight(s) => switch[s].inst # i
    BY <1>3 DEF StartRebuildInstanceJob, Unswitched
  <2>1. OneRunPerInstance'
    BY <1>3, <2>10 DEF StartRebuildInstanceJob, Accept, OneRunPerInstance
  <2>2. RunOwnsRecord'
    BY <1>3, SMTT(60) DEF StartRebuildInstanceJob, Accept, Unswitched, DestroyInFlight, SwitchInFlight,
       IsTransitionalStatus, RunOwnsRecord, Uncommitted, Present, Exists
  <2>3. ContainersAreMade'
    BY <1>3, SMTT(60) DEF StartRebuildInstanceJob, Accept, Unswitched, DestroyInFlight, SwitchInFlight,
       IsTransitionalStatus, ContainersAreMade, Committed, Unbuilt, Present
  <2>4. DestroyKnowsTargets'
    <3> SUFFICES ASSUME NEW e \in Destroys, destroy[e].pc \in {"marked", "await", "snapshot", "teardown"},
                        NEW j \in destroy[e].scope
                 PROVE  rec'[j] = rec[j]
      BY <1>3 DEF StartRebuildInstanceJob, DestroyKnowsTargets, Gone, Exists
    <3>1. i # j
      BY <1>3, SMTT(60) DEF StartRebuildInstanceJob, DestroyKnowsTargets, IsTransitionalStatus, Gone, Present
    <3>2. QED
      BY <1>3, <3>1 DEF StartRebuildInstanceJob
  <2>5. NoOrphan'
    BY <1>3, SMTT(60) DEF StartRebuildInstanceJob, Accept, Unswitched, DestroyInFlight, SwitchInFlight,
       IsTransitionalStatus, NoOrphan, Accounted, Exists, Present
  <2>6. RunHoldsStatus'
    <3> SUFFICES ASSUME NEW q \in Runs, run'[q].pc \in Uncommitted
                 PROVE  /\ rec'[run'[q].inst].status \in {"absent", "deleting"} \cup Provisioning
                        /\ \A s \in Switches : SwitchInFlight(s) => switch[s].inst # run'[q].inst
                        /\ daemon # "down"
      BY <1>3 DEF StartRebuildInstanceJob, RunHoldsStatus, Gone, SwitchInFlight
    <3>1. CASE q = r
      BY <1>3, <2>11, <3>1, SMTT(60) DEF StartRebuildInstanceJob, Accept, Provisioning
    <3>2. CASE q # r
      <4>1. run'[q] = run[q] /\ run[q].inst # i
        BY <1>3, <2>10, <3>2 DEF StartRebuildInstanceJob, Accept
      <4>2. rec'[run[q].inst] = rec[run[q].inst]
        BY <1>3, <4>1 DEF StartRebuildInstanceJob
      <4>3. QED
        BY <4>1, <4>2 DEF RunHoldsStatus, Gone
    <3>3. QED
      BY <3>1, <3>2
  <2>7. QED
    BY <1>0, <2>1, <2>2, <2>3, <2>4, <2>5, <2>6
<1>4. ASSUME NEW d \in Destroys, NEW scope \in Scopes, DestroyValidate(d, scope)
     PROVE  SafeInv'
  <2>1. OneRunPerInstance'
    BY <1>4 DEF DestroyValidate, OneRunPerInstance, Uncommitted
  <2>2. RunOwnsRecord'
    BY <1>4 DEF DestroyValidate, RunOwnsRecord, Uncommitted, Present, Exists
  <2>3. ContainersAreMade'
    BY <1>4, SMTT(60) DEF DestroyValidate, ContainersAreMade, Committed, Unbuilt, Present
  <2>4. DestroyKnowsTargets'
    BY <1>4, SMTT(60) DEF DestroyValidate, DestroyKnowsTargets, Gone, Exists
  <2>5. NoOrphan'
    BY <1>4 DEF DestroyValidate, NoOrphan, Accounted, Exists, Present
  <2>6. RunHoldsStatus'
    BY <1>4, SMTT(60) DEF DestroyValidate, RunHoldsStatus, Uncommitted, Gone, Provisioning,
       SwitchInFlight
  <2>7. QED
    BY <1>0, <2>1, <2>2, <2>3, <2>4, <2>5, <2>6
<1>5. ASSUME NEW s \in Switches, NEW i \in Instances, NEW to \in {"running", "stopped"}, SwitchLoad(s, i, to)
     PROVE  SafeInv'
  <2>1. OneRunPerInstance'
    BY <1>5, SMTT(60) DEF SwitchLoad, OneRunPerInstance, Uncommitted
  <2>2. RunOwnsRecord'
    BY <1>5, SMTT(60) DEF SwitchLoad, RunOwnsRecord, Uncommitted, Present, Exists
  <2>3. ContainersAreMade'
    BY <1>5 DEF SwitchLoad, ContainersAreMade, Committed, Unbuilt, Present
  <2>4. DestroyKnowsTargets'
    BY <1>5 DEF SwitchLoad, DestroyKnowsTargets, Gone, Exists
  <2>5. NoOrphan'
    BY <1>5 DEF SwitchLoad, NoOrphan, Accounted, Exists, Present
  <2>6. RunHoldsStatus'
    BY <1>5, SMTT(60) DEF SwitchLoad, RunHoldsStatus, Uncommitted, Gone, Provisioning,
       SwitchInFlight
  <2>7. QED
    BY <1>0, <2>1, <2>2, <2>3, <2>4, <2>5, <2>6
<1> HIDE DEF SafeInv, TypeOK, RecordType, RunType, DestroyType, SwitchType, ContainerIDs
<1>6. QED
  BY <1>1, <1>2, <1>3, <1>4, <1>5 DEF Request

\* A provisioning run's own steps keep it: it commits, abandons, discards and fails under
\* the state lock (internal/create).
LEMMA RunKeepsSafe ==
    ASSUME Serial, SafeInv, [Next]_vars, NEW p \in Runs, RunStep(p)
    PROVE  SafeInv'
<1> USE DEF SafeInv, TypeOK, RecordType, RunType, DestroyType, SwitchType, ContainerIDs
<1>0. TypeOK'
  BY TypeNext
<1>1. ASSUME NEW r \in Runs, JobStart(r) PROVE SafeInv'
  <2>1. OneRunPerInstance'
    BY <1>1, SMTT(60) DEF JobStart, OneRunPerInstance, Uncommitted
  <2>2. RunOwnsRecord'
    BY <1>1, SMTT(60) DEF JobStart, RunOwnsRecord, Uncommitted, Present, Exists
  <2>3. ContainersAreMade'
    BY <1>1, SMTT(60) DEF JobStart, ContainersAreMade, Committed, Unbuilt, Present
  <2>4. DestroyKnowsTargets'
    BY <1>1 DEF JobStart, DestroyKnowsTargets, Gone, Exists
  <2>5. NoOrphan'
    BY <1>1 DEF JobStart, NoOrphan, Accounted, Exists, Present
  <2>6. RunHoldsStatus'
    BY <1>1, SMTT(60) DEF JobStart, RunHoldsStatus, Uncommitted, Gone, Provisioning,
       SwitchInFlight
  <2>7. QED
    BY <1>0, <2>1, <2>2, <2>3, <2>4, <2>5, <2>6
<1>2. ASSUME NEW r \in Runs, Prepare(r) PROVE SafeInv'
  <2>1. OneRunPerInstance'
    BY <1>2, SMTT(60) DEF Prepare, OneRunPerInstance, Uncommitted
  <2>2. RunOwnsRecord'
    <3>1. CASE run' = [run EXCEPT ![r].pc = "failing"]
      BY <1>2, <3>1, SMTT(60) DEF Prepare, RunOwnsRecord, Uncommitted, Present, Exists
    <3>2. CASE run' = [run EXCEPT ![r].pc = "backend"]
      BY <1>2, <3>2, SMTT(60) DEF Prepare, RunOwnsRecord, Uncommitted, Present, Exists
    <3>3. QED
      BY <1>2, <3>1, <3>2 DEF Prepare
  <2>3. ContainersAreMade'
    <3>1. CASE run' = [run EXCEPT ![r].pc = "failing"]
      BY <1>2, <3>1, SMTT(60) DEF Prepare, ContainersAreMade, Committed, Unbuilt, Present
    <3>2. CASE run' = [run EXCEPT ![r].pc = "backend"]
      BY <1>2, <3>2, SMTT(60) DEF Prepare, ContainersAreMade, Committed, Unbuilt, Present
    <3>3. QED
      BY <1>2, <3>1, <3>2 DEF Prepare
  <2>4. DestroyKnowsTargets'
    BY <1>2 DEF Prepare, DestroyKnowsTargets, Gone, Exists
  <2>5. NoOrphan'
    BY <1>2 DEF Prepare, NoOrphan, Accounted, Exists, Present
  <2>6. RunHoldsStatus'
    <3>1. CASE run' = [run EXCEPT ![r].pc = "failing"]
      BY <1>2, <3>1, SMTT(60) DEF Prepare, RunHoldsStatus, Uncommitted, Gone, SwitchInFlight
    <3>2. CASE run' = [run EXCEPT ![r].pc = "backend"]
      BY <1>2, <3>2, SMTT(60) DEF Prepare, RunHoldsStatus, Uncommitted, Gone, SwitchInFlight
    <3>3. QED
      BY <1>2, <3>1, <3>2 DEF Prepare
  <2>7. QED
    BY <1>0, <2>1, <2>2, <2>3, <2>4, <2>5, <2>6
<1>3. ASSUME NEW r \in Runs, StopIfCancelled(r) PROVE SafeInv'
  <2>1. OneRunPerInstance'
    BY <1>3, SMTT(60) DEF StopIfCancelled, OneRunPerInstance, Uncommitted
  <2>2. RunOwnsRecord'
    BY <1>3, SMTT(60) DEF StopIfCancelled, RunOwnsRecord, Uncommitted, Present, Exists
  <2>3. ContainersAreMade'
    BY <1>3, SMTT(60) DEF StopIfCancelled, ContainersAreMade, Committed, Unbuilt, Present
  <2>4. DestroyKnowsTargets'
    BY <1>3 DEF StopIfCancelled, DestroyKnowsTargets, Gone, Exists
  <2>5. NoOrphan'
    BY <1>3, SMTT(60) DEF StopIfCancelled, NoOrphan, Accounted, Exists, Present
  <2>6. RunHoldsStatus'
    BY <1>3, SMTT(60) DEF StopIfCancelled, RunHoldsStatus, Uncommitted, Gone, Provisioning,
       SwitchInFlight
  <2>7. QED
    BY <1>0, <2>1, <2>2, <2>3, <2>4, <2>5, <2>6
<1>4. ASSUME NEW r \in Runs, CommitRunning(r) PROVE SafeInv'
  <2>1. OneRunPerInstance'
    BY <1>4, SMTT(60) DEF CommitRunning, OneRunPerInstance, Uncommitted
  <2>2. RunOwnsRecord'
    <3>1. CASE run' = [run EXCEPT ![r].pc = "abandon"] /\ rec' = rec
      BY <1>4, <3>1, SMTT(60) DEF CommitRunning, RunOwnsRecord, Uncommitted, Present, Exists
    <3>2. CASE /\ run' = [run EXCEPT ![r].pc = "exit"]
               /\ rec' = [rec EXCEPT ![run[r].inst] = [status |-> "running", cid |-> r]]
      <4> SUFFICES ASSUME NEW q \in Runs, run'[q].pc \in Uncommitted
                   PROVE  /\ q # r
                          /\ run'[q] = run[q]
                          /\ rec'[run[q].inst] = rec[run[q].inst]
        BY <1>4, SMTT(60) DEF CommitRunning, RunOwnsRecord, Uncommitted, Present, Exists
      <4>1. q # r /\ run'[q] = run[q]
        BY <3>2, SMTT(60) DEF Uncommitted
      <4>2. run[q].inst # run[r].inst
        BY <1>4, <4>1 DEF CommitRunning, OneRunPerInstance, Uncommitted
      <4>3. QED
        BY <3>2, <4>1, <4>2
    <3>3. QED
      BY <1>4, <3>1, <3>2 DEF CommitRunning
  <2>3. ContainersAreMade'
    <3>1. CASE run' = [run EXCEPT ![r].pc = "abandon"] /\ rec' = rec
      BY <1>4, <3>1, SMTT(60) DEF CommitRunning, ContainersAreMade, Committed, Unbuilt, Present
    <3>2. CASE /\ run' = [run EXCEPT ![r].pc = "exit"]
               /\ rec' = [rec EXCEPT ![run[r].inst] = [status |-> "running", cid |-> r]]
               /\ ~Gone(run[r].inst)
      BY <1>4, <3>2, LifecycleAssumption, SMTT(60) DEF CommitRunning, Gone, ContainersAreMade, Committed, Unbuilt, Present
    <3>3. QED
      BY <1>4, <3>1, <3>2 DEF CommitRunning
  <2>4. DestroyKnowsTargets'
    BY <1>4 DEF CommitRunning, DestroyKnowsTargets, Gone, Exists
  <2>5. NoOrphan'
    <3>1. CASE run' = [run EXCEPT ![r].pc = "abandon"] /\ rec' = rec
      BY <1>4, <3>1, SMTT(60) DEF CommitRunning, NoOrphan, Accounted, Exists, Present
    <3>2. CASE /\ run' = [run EXCEPT ![r].pc = "exit"]
               /\ rec' = [rec EXCEPT ![run[r].inst] = [status |-> "running", cid |-> r]]
               /\ ~Gone(run[r].inst)
      <4>1. ~Exists(rec[run[r].inst].cid)
        BY <1>4, <3>2, LifecycleAssumption, SMTT(60) DEF CommitRunning, Gone, RunOwnsRecord, Uncommitted, Present, Exists
      <4>2. ASSUME NEW c \in Runs, c # r, Exists(c) PROVE Accounted(c)'
        <5>1. Accounted(c) /\ c # rec[run[r].inst].cid
          BY <4>1, <4>2 DEF NoOrphan
        <5>2. QED
          BY <3>2, <4>2, <5>1 DEF Accounted, Present
      <4>3. Accounted(r)'
        BY <3>2 DEF Accounted, Present
      <4>4. QED
        BY <1>4, <4>2, <4>3 DEF CommitRunning, NoOrphan, Exists
    <3>3. QED
      BY <1>4, <3>1, <3>2 DEF CommitRunning
  <2>6. RunHoldsStatus'
    <3>1. CASE run' = [run EXCEPT ![r].pc = "abandon"] /\ rec' = rec
      BY <1>4, <3>1, SMTT(60) DEF CommitRunning, RunHoldsStatus, Uncommitted, Gone, SwitchInFlight
    <3>2. CASE /\ run' = [run EXCEPT ![r].pc = "exit"]
               /\ rec' = [rec EXCEPT ![run[r].inst] = [status |-> "running", cid |-> r]]
      <4> SUFFICES ASSUME NEW q \in Runs, run'[q].pc \in Uncommitted
                   PROVE  /\ run'[q] = run[q]
                          /\ rec'[run[q].inst] = rec[run[q].inst]
        BY <1>4, SMTT(60) DEF CommitRunning, RunHoldsStatus, Gone, SwitchInFlight
      <4>1. q # r /\ run'[q] = run[q]
        BY <3>2, SMTT(60) DEF Uncommitted
      <4>2. run[q].inst # run[r].inst
        BY <1>4, <4>1 DEF CommitRunning, OneRunPerInstance, Uncommitted
      <4>3. QED
        BY <3>2, <4>1, <4>2
    <3>3. QED
      BY <1>4, <3>1, <3>2 DEF CommitRunning
  <2>7. QED
    BY <1>0, <2>1, <2>2, <2>3, <2>4, <2>5, <2>6
<1>5. ASSUME NEW r \in Runs, AbandonRun(r) PROVE SafeInv'
  <2>1. OneRunPerInstance'
    BY <1>5, SMTT(60) DEF AbandonRun, OneRunPerInstance, Uncommitted
  <2>2. RunOwnsRecord'
    <3>1. CASE run' = [run EXCEPT ![r].pc = "discard"] /\ rec' = rec
      BY <1>5, <3>1, SMTT(60) DEF AbandonRun, RunOwnsRecord, Uncommitted, Present, Exists
    <3>2. CASE /\ run' = [run EXCEPT ![r].pc = "exit"]
               /\ rec' = [rec EXCEPT ![run[r].inst] = [status |-> "failed", cid |-> r]]
      <4> SUFFICES ASSUME NEW q \in Runs, run'[q].pc \in Uncommitted
                   PROVE  /\ q # r
                          /\ run'[q] = run[q]
                          /\ rec'[run[q].inst] = rec[run[q].inst]
        BY <1>5, SMTT(60) DEF AbandonRun, RunOwnsRecord, Uncommitted, Present, Exists
      <4>1. q # r /\ run'[q] = run[q]
        BY <3>2, SMTT(60) DEF Uncommitted
      <4>2. run[q].inst # run[r].inst
        BY <1>5, <4>1 DEF AbandonRun, OneRunPerInstance, Uncommitted
      <4>3. QED
        BY <3>2, <4>1, <4>2
    <3>3. QED
      BY <1>5, <3>1, <3>2 DEF AbandonRun
  <2>3. ContainersAreMade'
    <3>1. CASE run' = [run EXCEPT ![r].pc = "discard"] /\ rec' = rec
      BY <1>5, <3>1, SMTT(60) DEF AbandonRun, ContainersAreMade, Committed, Unbuilt, Present
    <3>2. CASE /\ run' = [run EXCEPT ![r].pc = "exit"]
               /\ rec' = [rec EXCEPT ![run[r].inst] = [status |-> "failed", cid |-> r]]
               /\ ~Gone(run[r].inst)
      BY <1>5, <3>2, LifecycleAssumption, SMTT(60) DEF AbandonRun, Gone, ContainersAreMade, Committed, Unbuilt, Present
    <3>3. QED
      BY <1>5, <3>1, <3>2 DEF AbandonRun
  <2>4. DestroyKnowsTargets'
    BY <1>5 DEF AbandonRun, DestroyKnowsTargets, Gone, Exists
  <2>5. NoOrphan'
    <3>1. CASE run' = [run EXCEPT ![r].pc = "discard"] /\ rec' = rec
      BY <1>5, <3>1, SMTT(60) DEF AbandonRun, NoOrphan, Accounted, Exists, Present
    <3>2. CASE /\ run' = [run EXCEPT ![r].pc = "exit"]
               /\ rec' = [rec EXCEPT ![run[r].inst] = [status |-> "failed", cid |-> r]]
               /\ ~Gone(run[r].inst)
      <4>1. ~Exists(rec[run[r].inst].cid)
        BY <1>5, <3>2, LifecycleAssumption, SMTT(60) DEF AbandonRun, Gone, RunOwnsRecord, Uncommitted, Present, Exists
      <4>2. ASSUME NEW c \in Runs, c # r, Exists(c) PROVE Accounted(c)'
        <5>1. Accounted(c) /\ c # rec[run[r].inst].cid
          BY <4>1, <4>2 DEF NoOrphan
        <5>2. QED
          BY <3>2, <4>2, <5>1 DEF Accounted, Present
      <4>3. Accounted(r)'
        BY <3>2 DEF Accounted, Present
      <4>4. QED
        BY <1>5, <4>2, <4>3 DEF AbandonRun, NoOrphan, Exists
    <3>3. QED
      BY <1>5, <3>1, <3>2 DEF AbandonRun
  <2>6. RunHoldsStatus'
    <3>1. CASE run' = [run EXCEPT ![r].pc = "discard"] /\ rec' = rec
      BY <1>5, <3>1, SMTT(60) DEF AbandonRun, RunHoldsStatus, Uncommitted, Gone, SwitchInFlight
    <3>2. CASE /\ run' = [run EXCEPT ![r].pc = "exit"]
               /\ rec' = [rec EXCEPT ![run[r].inst] = [status |-> "failed", cid |-> r]]
      <4> SUFFICES ASSUME NEW q \in Runs, run'[q].pc \in Uncommitted
                   PROVE  /\ run'[q] = run[q]
                          /\ rec'[run[q].inst] = rec[run[q].inst]
        BY <1>5, SMTT(60) DEF AbandonRun, RunHoldsStatus, Gone, SwitchInFlight
      <4>1. q # r /\ run'[q] = run[q]
        BY <3>2, SMTT(60) DEF Uncommitted
      <4>2. run[q].inst # run[r].inst
        BY <1>5, <4>1 DEF AbandonRun, OneRunPerInstance, Uncommitted
      <4>3. QED
        BY <3>2, <4>1, <4>2
    <3>3. QED
      BY <1>5, <3>1, <3>2 DEF AbandonRun
  <2>7. QED
    BY <1>0, <2>1, <2>2, <2>3, <2>4, <2>5, <2>6
<1>6. ASSUME NEW r \in Runs, DiscardContainer(r) PROVE SafeInv'
  <2>1. OneRunPerInstance'
    BY <1>6, SMTT(60) DEF DiscardContainer, OneRunPerInstance, Uncommitted
  <2>2. RunOwnsRecord'
    BY <1>6, SMTT(60) DEF DiscardContainer, RunOwnsRecord, Uncommitted, Present, Exists
  <2>3. ContainersAreMade'
    BY <1>6, SMTT(60) DEF DiscardContainer, ContainersAreMade, Committed, Unbuilt, Present
  <2>4. DestroyKnowsTargets'
    BY <1>6 DEF DiscardContainer, DestroyKnowsTargets, Gone, Exists
  <2>5. NoOrphan'
    BY <1>6 DEF DiscardContainer, NoOrphan, Accounted, Exists, Present
  <2>6. RunHoldsStatus'
    BY <1>6, SMTT(60) DEF DiscardContainer, RunHoldsStatus, Uncommitted, Gone, Provisioning,
       SwitchInFlight
  <2>7. QED
    BY <1>0, <2>1, <2>2, <2>3, <2>4, <2>5, <2>6
<1>7. ASSUME NEW r \in Runs, SetFailed(r) PROVE SafeInv'
  <2>1. OneRunPerInstance'
    BY <1>7, SMTT(60) DEF SetFailed, OneRunPerInstance, Uncommitted
  <2>2. RunOwnsRecord'
    BY <1>7, SMTT(60) DEF SetFailed, Gone, RunOwnsRecord, Uncommitted, Present, Exists
  <2>3. ContainersAreMade'
    BY <1>7, SMTT(60) DEF SetFailed, ContainersAreMade, Committed, Unbuilt, Present
  <2>4. DestroyKnowsTargets'
    BY <1>7 DEF SetFailed, DestroyKnowsTargets, Gone, Exists
  <2>5. NoOrphan'
    BY <1>7, SMTT(60) DEF SetFailed, NoOrphan, Accounted, Exists, Present
  <2>6. RunHoldsStatus'
    <3>1. CASE run' = [run EXCEPT ![r].pc = "exit"] /\ rec' = rec
      BY <1>7, <3>1, SMTT(60) DEF SetFailed, RunHoldsStatus, Uncommitted, Gone, SwitchInFlight
    <3>2. CASE /\ run' = [run EXCEPT ![r].pc = "exit"]
               /\ rec' = [rec EXCEPT ![run[r].inst].status = "failed"]
      <4> SUFFICES ASSUME NEW q \in Runs, run'[q].pc \in Uncommitted
                   PROVE  /\ run'[q] = run[q]
                          /\ rec'[run[q].inst] = rec[run[q].inst]
        BY <1>7, SMTT(60) DEF SetFailed, RunHoldsStatus, Gone, SwitchInFlight
      <4>1. q # r /\ run'[q] = run[q]
        BY <3>2, SMTT(60) DEF Uncommitted
      <4>2. run[q].inst # run[r].inst
        BY <1>7, <4>1 DEF SetFailed, OneRunPerInstance, Uncommitted
      <4>3. QED
        BY <3>2, <4>1, <4>2
    <3>3. QED
      BY <1>7, <3>1, <3>2 DEF SetFailed
  <2>7. QED
    BY <1>0, <2>1, <2>2, <2>3, <2>4, <2>5, <2>6
<1>8. ASSUME NEW r \in Runs, JobFinish(r) PROVE SafeInv'
  <2>1. OneRunPerInstance'
    BY <1>8, SMTT(60) DEF JobFinish, OneRunPerInstance, Uncommitted
  <2>2. RunOwnsRecord'
    BY <1>8, SMTT(60) DEF JobFinish, RunOwnsRecord, Uncommitted, Present, Exists
  <2>3. ContainersAreMade'
    BY <1>8, SMTT(60) DEF JobFinish, ContainersAreMade, Committed, Unbuilt, Present
  <2>4. DestroyKnowsTargets'
    BY <1>8 DEF JobFinish, DestroyKnowsTargets, Gone, Exists
  <2>5. NoOrphan'
    BY <1>8 DEF JobFinish, NoOrphan, Accounted, Exists, Present
  <2>6. RunHoldsStatus'
    BY <1>8, SMTT(60) DEF JobFinish, RunHoldsStatus, Uncommitted, Gone, Provisioning,
       SwitchInFlight
  <2>7. QED
    BY <1>0, <2>1, <2>2, <2>3, <2>4, <2>5, <2>6
<1>9. ASSUME NEW r \in Runs, RunLoad(r) PROVE SafeInv'
  <2>1. OneRunPerInstance'
    BY <1>9, SMTT(60) DEF RunLoad, OneRunPerInstance, Uncommitted
  <2>2. RunOwnsRecord'
    <3>1. CASE /\ run' = [run EXCEPT ![r].pc = "prepare", ![r].from = LoadedFrom(r)]
               /\ run[r].kind # "create" => Present(run[r].src)
      <4>1. LoadedFrom(r) \in ContainerIDs
        BY DEF LoadedFrom
      <4>2. LoadedFrom(r) # NoContainer => run[LoadedFrom(r)].pc \in Committed
        BY DEF LoadedFrom, ContainersAreMade
      <4>3. run[r].kind = "rebuild" => LoadedFrom(r) = rec[run[r].inst].cid
        BY <1>9 DEF RunLoad, LoadedFrom, RunOwnsRecord, Uncommitted
      <4>4. QED
        BY <1>9, <3>1, <4>1, <4>2, <4>3, LifecycleAssumption, SMTT(60) DEF RunLoad, RunOwnsRecord, Uncommitted, Present, Exists, Committed, Unbuilt
    <3>2. CASE run' = [run EXCEPT ![r].pc = "failing"]
      BY <1>9, <3>2, SMTT(60) DEF RunLoad, RunOwnsRecord, Uncommitted, Present, Exists, Committed, Unbuilt
    <3>3. QED
      BY <1>9, <3>1, <3>2 DEF RunLoad
  <2>3. ContainersAreMade'
    <3>1. ASSUME run' = [run EXCEPT ![r].pc = "prepare", ![r].from = LoadedFrom(r)] PROVE ContainersAreMade'
      <4>1. LoadedFrom(r) # NoContainer => LoadedFrom(r) \in Runs /\ run[LoadedFrom(r)].pc \in Committed
        BY DEF LoadedFrom, ContainersAreMade
      <4>2. \A q \in Runs : /\ run[q].pc \in Committed => run'[q].pc \in Committed
                            /\ run'[q].pc \in Unbuilt => run[q].pc \in Unbuilt
                            /\ run'[q].from = run[q].from \/ run'[q].from = LoadedFrom(r)
        BY <1>9, <3>1, SMTT(60) DEF RunLoad, Committed, Unbuilt
      <4>3. \A q \in Runs : run'[q].from # NoContainer => run'[run'[q].from].pc \in Committed
        <5> SUFFICES ASSUME NEW q \in Runs, run'[q].from # NoContainer PROVE run'[run'[q].from].pc \in Committed
          OBVIOUS
        <5>1. run'[q].from \in Runs /\ run[run'[q].from].pc \in Committed
          <6>1. CASE run'[q].from = LoadedFrom(r)
            BY <4>1, <6>1
          <6>2. CASE run'[q].from = run[q].from
            <7>1. run[q].from \in Runs
              BY <6>2
            <7>2. QED
              BY <6>2, <7>1 DEF ContainersAreMade
          <6>3. QED
            BY <4>2, <6>1, <6>2
        <5>2. QED
          BY <4>2, <5>1 DEF Committed
      <4>4. QED
        BY <1>9, <4>2, <4>3, SMTT(60) DEF RunLoad, ContainersAreMade, Present, Committed, Unbuilt
    <3>2. CASE run' = [run EXCEPT ![r].pc = "failing"]
      BY <1>9, <3>2, SMTT(60) DEF RunLoad, ContainersAreMade, Present, Committed, Unbuilt
    <3>3. QED
      BY <1>9, <3>1, <3>2, SMTT(60) DEF RunLoad
  <2>4. DestroyKnowsTargets'
    BY <1>9 DEF RunLoad, DestroyKnowsTargets, Gone, Exists
  <2>5. NoOrphan'
    BY <1>9 DEF RunLoad, NoOrphan, Accounted, Exists, Present
  <2>6. RunHoldsStatus'
    <3>1. CASE run' = [run EXCEPT ![r].pc = "prepare", ![r].from = LoadedFrom(r)]
      BY <1>9, <3>1, SMTT(60) DEF RunLoad, RunHoldsStatus, Uncommitted, Gone, SwitchInFlight
    <3>2. CASE run' = [run EXCEPT ![r].pc = "failing"]
      BY <1>9, <3>2, SMTT(60) DEF RunLoad, RunHoldsStatus, Uncommitted, Gone, SwitchInFlight
    <3>3. QED
      BY <1>9, <3>1, <3>2 DEF RunLoad
  <2>7. QED
    BY <1>0, <2>1, <2>2, <2>3, <2>4, <2>5, <2>6
<1> HIDE DEF SafeInv, TypeOK, RecordType, RunType, DestroyType, SwitchType, ContainerIDs
<1>10. QED
  BY <1>1, <1>2, <1>3, <1>4, <1>5, <1>6, <1>7, <1>8, <1>9 DEF RunStep

\* The end of a backend call, and the shutdown's cancellation of a job, keep it.
LEMMA BackendKeepsSafe ==
    ASSUME Serial, SafeInv, [Next]_vars, NEW p \in Runs, BackendStep(p) \/ ShutdownCancel(p)
    PROVE  SafeInv'
<1> USE DEF SafeInv, TypeOK, RecordType, RunType, DestroyType, SwitchType, ContainerIDs
<1>0. TypeOK'
  BY TypeNext
<1>1. ASSUME NEW r \in Runs, ShutdownCancel(r) PROVE SafeInv'
  <2>1. OneRunPerInstance'
    BY <1>1, SMTT(60) DEF ShutdownCancel, OneRunPerInstance, Uncommitted
  <2>2. RunOwnsRecord'
    BY <1>1, SMTT(60) DEF ShutdownCancel, RunOwnsRecord, Uncommitted, Present, Exists
  <2>3. ContainersAreMade'
    BY <1>1, SMTT(60) DEF ShutdownCancel, ContainersAreMade, Committed, Unbuilt, Present
  <2>4. DestroyKnowsTargets'
    BY <1>1 DEF ShutdownCancel, DestroyKnowsTargets, Gone, Exists
  <2>5. NoOrphan'
    BY <1>1, SMTT(60) DEF ShutdownCancel, NoOrphan, Accounted, Exists, Present
  <2>6. RunHoldsStatus'
    BY <1>1, SMTT(60) DEF ShutdownCancel, RunHoldsStatus, Uncommitted, Gone, Provisioning,
       SwitchInFlight
  <2>7. QED
    BY <1>0, <2>1, <2>2, <2>3, <2>4, <2>5, <2>6
<1>2. ASSUME NEW r \in Runs, BackendErr(r) PROVE SafeInv'
  <2>1. OneRunPerInstance'
    BY <1>2, SMTT(60) DEF BackendErr, OneRunPerInstance, Uncommitted
  <2>2. RunOwnsRecord'
    BY <1>2, SMTT(60) DEF BackendErr, BoxCut, RunOwnsRecord, Uncommitted, Present, Exists
  <2>3. ContainersAreMade'
    BY <1>2, LifecycleAssumption, SMTT(60) DEF BackendErr, BoxCut, ContainersAreMade, Committed, Unbuilt,
       Present
  <2>4. DestroyKnowsTargets'
    BY <1>2, SMTT(60) DEF BackendErr, BoxCut, DestroyKnowsTargets, Gone, Exists
  <2>5. NoOrphan'
    BY <1>2, SMTT(60) DEF BackendErr, BoxCut, NoOrphan, Accounted, Exists, Present
  <2>6. RunHoldsStatus'
    BY <1>2, SMTT(60) DEF BackendErr, RunHoldsStatus, Uncommitted, Gone, Provisioning,
       SwitchInFlight
  <2>7. QED
    BY <1>0, <2>1, <2>2, <2>3, <2>4, <2>5, <2>6
<1>3. ASSUME NEW r \in Runs, BackendCheckpointed(r) PROVE SafeInv'
  <2>1. OneRunPerInstance'
    BY <1>3, SMTT(60) DEF BackendCheckpointed, OneRunPerInstance, Uncommitted
  <2>2. RunOwnsRecord'
    BY <1>3, SMTT(60) DEF BackendCheckpointed, BoxCut, RunOwnsRecord, Uncommitted, Present, Exists
  <2>3. ContainersAreMade'
    BY <1>3, LifecycleAssumption, SMTT(60) DEF BackendCheckpointed, BoxCut, ContainersAreMade, Committed,
       Unbuilt, Present
  <2>4. DestroyKnowsTargets'
    BY <1>3, SMTT(60) DEF BackendCheckpointed, BoxCut, DestroyKnowsTargets, Gone, Exists
  <2>5. NoOrphan'
    BY <1>3, SMTT(60) DEF BackendCheckpointed, BoxCut, NoOrphan, Accounted, Exists, Present
  <2>6. RunHoldsStatus'
    BY <1>3, SMTT(60) DEF BackendCheckpointed, RunHoldsStatus, Uncommitted, Gone, Provisioning,
       SwitchInFlight
  <2>7. QED
    BY <1>0, <2>1, <2>2, <2>3, <2>4, <2>5, <2>6
<1>4. ASSUME NEW r \in Runs, BackendOk(r) PROVE SafeInv'
  <2>1. OneRunPerInstance'
    BY <1>4, SMTT(60) DEF BackendOk, OneRunPerInstance, Uncommitted
  <2>2. RunOwnsRecord'
    <3>1. \A q \in Runs : run[q].from # r
      BY <1>4, LifecycleAssumption, SMTT(60) DEF BackendOk, ContainersAreMade, Committed
    <3>2. \A c \in Runs : c # r /\ ~Exists(c) => ~Exists(c)'
      BY <1>4 DEF BackendOk, BoxBuilt, Exists
    <3>3. run[r].kind = "rebuild" => ~Exists(run[r].from)'
      BY <1>4, <3>1, SMTT(60) DEF BackendOk, BoxBuilt, Exists
    <3>4. QED
      BY <1>4, <3>1, <3>2, <3>3, LifecycleAssumption, SMTT(60) DEF BackendOk, RunOwnsRecord, Uncommitted, Present, Exists
  <2>3. ContainersAreMade'
    BY <1>4, LifecycleAssumption, SMTT(60) DEF BackendOk, BoxBuilt, ContainersAreMade, Committed,
       Unbuilt, Present
  <2>4. DestroyKnowsTargets'
    BY <1>4, LifecycleAssumption DEF BackendOk, BoxBuilt, DestroyKnowsTargets, Gone, Exists,
       ContainersAreMade, Committed, Unbuilt, Present
  <2>5. NoOrphan'
    BY <1>4, SMTT(60) DEF BackendOk, BoxBuilt, NoOrphan, Accounted, Exists, Present
  <2>6. RunHoldsStatus'
    BY <1>4, SMTT(60) DEF BackendOk, RunHoldsStatus, Uncommitted, Gone, Provisioning,
       SwitchInFlight
  <2>7. QED
    BY <1>0, <2>1, <2>2, <2>3, <2>4, <2>5, <2>6
<1> HIDE DEF SafeInv, TypeOK, RecordType, RunType, DestroyType, SwitchType, ContainerIDs
<1>5. QED
  BY <1>1, <1>2, <1>3, <1>4 DEF BackendStep

\* The steps of a destroy keep it: mark, cancel, wait, snapshot, teardown and removal
\* (jobs.go).
LEMMA DestroyKeepsSafe ==
    ASSUME Serial, SafeInv, [Next]_vars, NEW e \in Destroys, DestroyStep(e)
    PROVE  SafeInv'
<1> USE DEF SafeInv, TypeOK, RecordType, RunType, DestroyType, SwitchType, ContainerIDs
<1>0. TypeOK'
  BY TypeNext
<1>1. ASSUME NEW d \in Destroys, DestroyMark(d) PROVE SafeInv'
  <2>1. OneRunPerInstance'
    BY <1>1 DEF DestroyMark, OneRunPerInstance, Uncommitted
  <2>2. RunOwnsRecord'
    BY <1>1, SMTT(60) DEF DestroyMark, RunOwnsRecord, Uncommitted, Present, Exists
  <2>3. ContainersAreMade'
    BY <1>1, SMTT(60) DEF DestroyMark, ContainersAreMade, Committed, Unbuilt, Present
  <2>4. DestroyKnowsTargets'
    BY <1>1, SMTT(60) DEF DestroyMark, DestroyKnowsTargets, Gone, Exists, ContainersAreMade, Committed,
       Unbuilt, Present
  <2>5. NoOrphan'
    BY <1>1, SMTT(60) DEF DestroyMark, NoOrphan, Accounted, Exists, Present
  <2>6. RunHoldsStatus'
    BY <1>1, SMTT(60) DEF DestroyMark, RunHoldsStatus, Uncommitted, Gone, Provisioning,
       SwitchInFlight
  <2>7. QED
    BY <1>0, <2>1, <2>2, <2>3, <2>4, <2>5, <2>6
<1>2. ASSUME NEW d \in Destroys, CancelProvisioning(d) PROVE SafeInv'
  <2>1. OneRunPerInstance'
    BY <1>2, SMTT(60) DEF CancelProvisioning, OneRunPerInstance, Uncommitted
  <2>2. RunOwnsRecord'
    BY <1>2, SMTT(60) DEF CancelProvisioning, RunOwnsRecord, Uncommitted, Present, Exists
  <2>3. ContainersAreMade'
    BY <1>2, SMTT(60) DEF CancelProvisioning, ContainersAreMade, Committed, Unbuilt, Present
  <2>4. DestroyKnowsTargets'
    BY <1>2, SMTT(60) DEF CancelProvisioning, DestroyKnowsTargets, Gone, Exists
  <2>5. NoOrphan'
    BY <1>2, SMTT(60) DEF CancelProvisioning, NoOrphan, Accounted, Exists, Present
  <2>6. RunHoldsStatus'
    BY <1>2, SMTT(60) DEF CancelProvisioning, RunHoldsStatus, Uncommitted, Gone, Provisioning,
       SwitchInFlight
  <2>7. QED
    BY <1>0, <2>1, <2>2, <2>3, <2>4, <2>5, <2>6
<1>3. ASSUME NEW d \in Destroys, AwaitCancelledJobs(d) PROVE SafeInv'
  <2>1. OneRunPerInstance'
    BY <1>3 DEF AwaitCancelledJobs, OneRunPerInstance, Uncommitted
  <2>2. RunOwnsRecord'
    BY <1>3 DEF AwaitCancelledJobs, RunOwnsRecord, Uncommitted, Present, Exists
  <2>3. ContainersAreMade'
    BY <1>3, SMTT(60) DEF AwaitCancelledJobs, ContainersAreMade, Committed, Unbuilt, Present
  <2>4. DestroyKnowsTargets'
    BY <1>3, SMTT(60) DEF AwaitCancelledJobs, DestroyKnowsTargets, Gone, Exists
  <2>5. NoOrphan'
    BY <1>3 DEF AwaitCancelledJobs, NoOrphan, Accounted, Exists, Present
  <2>6. RunHoldsStatus'
    BY <1>3, SMTT(60) DEF AwaitCancelledJobs, RunHoldsStatus, Uncommitted, Gone, Provisioning,
       SwitchInFlight
  <2>7. QED
    BY <1>0, <2>1, <2>2, <2>3, <2>4, <2>5, <2>6
<1>4. ASSUME NEW d \in Destroys, DestroySnapshot(d) PROVE SafeInv'
  <2>1. OneRunPerInstance'
    BY <1>4 DEF DestroySnapshot, OneRunPerInstance, Uncommitted
  <2>2. RunOwnsRecord'
    BY <1>4 DEF DestroySnapshot, RunOwnsRecord, Uncommitted, Present, Exists
  <2>3. ContainersAreMade'
    BY <1>4, SMTT(60) DEF DestroySnapshot, ContainersAreMade, Committed, Unbuilt, Present
  <2>4. DestroyKnowsTargets'
    BY <1>4, LifecycleAssumption, SMTT(60) DEF DestroySnapshot, DestroyKnowsTargets, Gone, Exists,
       ContainersAreMade, Committed, Unbuilt, Present
  <2>5. NoOrphan'
    BY <1>4 DEF DestroySnapshot, NoOrphan, Accounted, Exists, Present
  <2>6. RunHoldsStatus'
    BY <1>4, SMTT(60) DEF DestroySnapshot, RunHoldsStatus, Uncommitted, Gone, Provisioning,
       SwitchInFlight
  <2>7. QED
    BY <1>0, <2>1, <2>2, <2>3, <2>4, <2>5, <2>6
<1>5. ASSUME NEW d \in Destroys, DestroyRemove(d) PROVE SafeInv'
  <2>1. OneRunPerInstance'
    BY <1>5, SMTT(60) DEF DestroyRemove, OneRunPerInstance, Uncommitted
  <2>2. RunOwnsRecord'
    BY <1>5 DEF DestroyRemove, RunOwnsRecord, Uncommitted, Present, Exists
  <2>3. ContainersAreMade'
    BY <1>5, SMTT(60) DEF DestroyRemove, ContainersAreMade, Committed, Unbuilt, Present
  <2>4. DestroyKnowsTargets'
    BY <1>5, LifecycleAssumption, SMTT(60) DEF DestroyRemove, DestroyKnowsTargets, Gone, Exists
  <2>5. NoOrphan'
    <3> SUFFICES ASSUME NEW c \in Runs, Exists(c)' PROVE Accounted(c)'
      BY DEF NoOrphan
    <3>1. Exists(c) /\ Accounted(c)
      BY <1>5 DEF DestroyRemove, NoOrphan, Exists
    <3>2. CASE run[c].pc \in {"built", "finishing", "abandon", "discard", "lost"}
      BY <1>5, <3>2 DEF DestroyRemove, Accounted
    <3>3. ASSUME NEW i \in Instances, Present(i), rec[i].cid = c PROVE Accounted(c)'
      <4>1. i \notin destroy[d].scope
        BY <1>5, <3>1, <3>3 DEF DestroyRemove, DestroyKnowsTargets
      <4>2. QED
        BY <1>5, <3>3, <4>1 DEF DestroyRemove, Accounted, Present
    <3>4. QED
      BY <3>1, <3>2, <3>3 DEF Accounted
  <2>6. RunHoldsStatus'
    BY <1>5, SMTT(60) DEF DestroyRemove, RunHoldsStatus, Uncommitted, Gone, Provisioning,
       SwitchInFlight
  <2>7. QED
    BY <1>0, <2>1, <2>2, <2>3, <2>4, <2>5, <2>6
<1>6. ASSUME NEW d \in Destroys, NEW c \in Runs, DownInstance(d, c) PROVE SafeInv'
  <2>1. OneRunPerInstance'
    BY <1>6 DEF DownInstance, OneRunPerInstance, Uncommitted
  <2>2. RunOwnsRecord'
    BY <1>6 DEF DownInstance, RunOwnsRecord, Uncommitted, Present, Exists
  <2>3. ContainersAreMade'
    BY <1>6, SMTT(60) DEF DownInstance, ContainersAreMade, Committed, Unbuilt, Present
  <2>4. DestroyKnowsTargets'
    BY <1>6, SMTT(60) DEF DownInstance, DestroyKnowsTargets, Gone, Exists
  <2>5. NoOrphan'
    BY <1>6 DEF DownInstance, NoOrphan, Accounted, Exists, Present
  <2>6. RunHoldsStatus'
    BY <1>6, SMTT(60) DEF DownInstance, RunHoldsStatus, Uncommitted, Gone, Provisioning,
       SwitchInFlight
  <2>7. QED
    BY <1>0, <2>1, <2>2, <2>3, <2>4, <2>5, <2>6
<1> HIDE DEF SafeInv, TypeOK, RecordType, RunType, DestroyType, SwitchType, ContainerIDs
<1>7. QED
  BY <1>1, <1>2, <1>3, <1>4, <1>5, <1>6 DEF DestroyStep

\* A start's or stop's backend call and its commitTransition keep it.
LEMMA SwitchKeepsSafe ==
    ASSUME Serial, SafeInv, [Next]_vars, NEW p \in Switches, SwitchStep(p)
    PROVE  SafeInv'
<1> USE DEF SafeInv, TypeOK, RecordType, RunType, DestroyType, SwitchType, ContainerIDs
<1>0. TypeOK'
  BY TypeNext
<1>1. ASSUME NEW s \in Switches, SwitchBackend(s) PROVE SafeInv'
  <2>1. OneRunPerInstance'
    BY <1>1 DEF SwitchBackend, OneRunPerInstance, Uncommitted
  <2>2. RunOwnsRecord'
    BY <1>1 DEF SwitchBackend, RunOwnsRecord, Uncommitted, Present, Exists
  <2>3. ContainersAreMade'
    BY <1>1, SMTT(60) DEF SwitchBackend, ContainersAreMade, Committed, Unbuilt, Present, Exists
  <2>4. DestroyKnowsTargets'
    BY <1>1 DEF SwitchBackend, DestroyKnowsTargets, Gone, Exists
  <2>5. NoOrphan'
    BY <1>1 DEF SwitchBackend, NoOrphan, Accounted, Exists, Present
  <2>6. RunHoldsStatus'
    BY <1>1, SMTT(60) DEF SwitchBackend, RunHoldsStatus, Uncommitted, Gone, Provisioning,
       SwitchInFlight
  <2>7. QED
    BY <1>0, <2>1, <2>2, <2>3, <2>4, <2>5, <2>6
<1>2. ASSUME NEW s \in Switches, CommitTransition(s) PROVE SafeInv'
  <2>1. OneRunPerInstance'
    BY <1>2 DEF CommitTransition, OneRunPerInstance, Uncommitted
  <2>2. RunOwnsRecord'
    BY <1>2, SMTT(60) DEF CommitTransition, Gone, RunOwnsRecord, Uncommitted, Present, Exists
  <2>3. ContainersAreMade'
    <3>1. CASE Gone(switch[s].inst)
      BY <1>2, <3>1 DEF CommitTransition, ContainersAreMade, Committed, Unbuilt, Present
    <3>2. CASE ~Gone(switch[s].inst)
      <4>1. \A i \in Instances : rec'[i].cid = rec[i].cid /\ (Present(i) => Present(i)')
        BY <1>2, <3>2, SMTT(60) DEF CommitTransition, Gone, Present
      <4>2. QED
        BY <1>2, <4>1 DEF CommitTransition, ContainersAreMade
    <3>3. QED
      BY <3>1, <3>2
  <2>4. DestroyKnowsTargets'
    BY <1>2 DEF CommitTransition, DestroyKnowsTargets, Gone, Exists
  <2>5. NoOrphan'
    <3>1. CASE Gone(switch[s].inst)
      BY <1>2, <3>1 DEF CommitTransition, NoOrphan, Accounted, Exists, Present
    <3>2. CASE ~Gone(switch[s].inst)
      <4>1. \A i \in Instances : rec'[i].cid = rec[i].cid /\ (Present(i) => Present(i)')
        BY <1>2, <3>2, SMTT(60) DEF CommitTransition, Gone, Present
      <4>2. QED
        BY <1>2, <4>1 DEF CommitTransition, NoOrphan, Accounted, Exists, Present
    <3>3. QED
      BY <3>1, <3>2
  <2>6. RunHoldsStatus'
    <3> SUFFICES ASSUME NEW q \in Runs, run[q].pc \in Uncommitted
                 PROVE  rec'[run[q].inst] = rec[run[q].inst]
      BY <1>2, SMTT(60) DEF CommitTransition, RunHoldsStatus, Gone, SwitchInFlight
    <3>1. run[q].inst # switch[s].inst
      BY <1>2 DEF CommitTransition, RunHoldsStatus, SwitchInFlight
    <3>2. QED
      BY <1>2, <3>1 DEF CommitTransition
  <2>7. QED
    BY <1>0, <2>1, <2>2, <2>3, <2>4, <2>5, <2>6
<1> HIDE DEF SafeInv, TypeOK, RecordType, RunType, DestroyType, SwitchType, ContainerIDs
<1>3. QED
  BY <1>1, <1>2 DEF SwitchStep

\* A death leaves alone the container of a run that has not begun and that no other run
\* started from.
LEMMA IdleBoxKept ==
    ASSUME Die, NEW r \in Runs, run[r].pc = "idle", \A q \in Runs : run[q].from # r
    PROVE  box'[r] = box[r]
<1>1. PICK made \in SUBSET InBackend, cut \in SUBSET InBackend : box' = BoxLeft(made, cut)
  BY SMTT(60) DEF Die
<1>2. QED
  BY <1>1 DEF BoxLeft, InBackend

\* The daemon's shutdown, death and restart keep it, and so does a step of nothing.
LEMMA DaemonKeepsSafe ==
    ASSUME Serial, SafeInv, [Next]_vars, BeginShutdown \/ FailInterruptedJobs \/ Die \/ UNCHANGED vars
    PROVE  SafeInv'
<1> USE DEF SafeInv, TypeOK, RecordType, RunType, DestroyType, SwitchType, ContainerIDs
<1>0. TypeOK'
  BY TypeNext
<1>1. ASSUME BeginShutdown PROVE SafeInv'
  <2>1. OneRunPerInstance'
    BY <1>1 DEF BeginShutdown, OneRunPerInstance, Uncommitted
  <2>2. RunOwnsRecord'
    BY <1>1 DEF BeginShutdown, RunOwnsRecord, Uncommitted, Present, Exists
  <2>3. ContainersAreMade'
    BY <1>1 DEF BeginShutdown, ContainersAreMade, Committed, Unbuilt, Present
  <2>4. DestroyKnowsTargets'
    BY <1>1 DEF BeginShutdown, DestroyKnowsTargets, Gone, Exists
  <2>5. NoOrphan'
    BY <1>1 DEF BeginShutdown, NoOrphan, Accounted, Exists, Present
  <2>6. RunHoldsStatus'
    BY <1>1 DEF BeginShutdown, RunHoldsStatus, Uncommitted, Gone, Provisioning,
       SwitchInFlight
  <2>7. QED
    BY <1>0, <2>1, <2>2, <2>3, <2>4, <2>5, <2>6
<1>2. ASSUME FailInterruptedJobs PROVE SafeInv'
  <2>1. OneRunPerInstance'
    BY <1>2 DEF FailInterruptedJobs, OneRunPerInstance, Uncommitted
  <2>2. RunOwnsRecord'
    BY <1>2, SMTT(60) DEF FailInterruptedJobs, Provisioning, Gone, RunOwnsRecord, Uncommitted, Present,
       Exists
  <2>3. ContainersAreMade'
    BY <1>2, SMTT(60) DEF FailInterruptedJobs, ContainersAreMade, Committed, Unbuilt, Present
  <2>4. DestroyKnowsTargets'
    BY <1>2 DEF FailInterruptedJobs, Provisioning, Gone, DestroyKnowsTargets, Exists
  <2>5. NoOrphan'
    BY <1>2, SMTT(60) DEF FailInterruptedJobs, NoOrphan, Accounted, Exists, Present
  <2>6. RunHoldsStatus'
    BY <1>2 DEF FailInterruptedJobs, RunHoldsStatus, Uncommitted, Gone, Provisioning,
       SwitchInFlight
  <2>7. QED
    BY <1>0, <2>1, <2>2, <2>3, <2>4, <2>5, <2>6
<1>3. ASSUME Die PROVE SafeInv'
  <2>1. OneRunPerInstance'
    BY <1>3, SMTT(60) DEF Die, BoxLeft, InBackend, Lost, OneRunPerInstance, Uncommitted
  <2>2. RunOwnsRecord'
    BY <1>3, SMTT(60) DEF Die, BoxLeft, InBackend, Lost, RunOwnsRecord, Uncommitted, Present, Exists
  <2>3. ContainersAreMade'
    <3>1. \A r \in Runs : /\ run'[r].from = run[r].from
                          /\ run[r].pc \in Committed => run'[r].pc \in Committed
                          /\ run'[r].pc \in Unbuilt => run[r].pc = "idle"
      BY <1>3, SMTT(60) DEF Die, BoxLeft, InBackend, Lost, Committed, Unbuilt
    <3>2. \A e \in Destroys : destroy'[e].targets = destroy[e].targets
      BY <1>3, SMTT(60) DEF Die, BoxLeft, InBackend, Lost
    <3>3. \A r \in Runs : run[r].pc = "idle" => box'[r] = box[r]
      <4>1. \A r \in Runs : run[r].pc = "idle" => \A q \in Runs : run[q].from # r
        BY LifecycleAssumption DEF ContainersAreMade, Committed
      <4>2. QED
        BY <1>3, <4>1, IdleBoxKept
    <3>4. \A r \in Runs : run[r].pc = "idle" => box[r] = "none"
      BY DEF ContainersAreMade, Unbuilt
    <3>5. \A r \in Runs : run'[r].pc \in Unbuilt => box'[r] = "none"
      BY <3>1, <3>3, <3>4 DEF Unbuilt
    <3>6. rec' = rec
      BY <1>3 DEF Die
    <3>7. \A i \in Instances : rec'[i].cid # NoContainer
                              => Present(i)' /\ run'[rec'[i].cid].pc \in Committed
      <4>1. SUFFICES ASSUME NEW i \in Instances, rec[i].cid # NoContainer
                     PROVE  Present(i) /\ run'[rec[i].cid].pc \in Committed
        BY <3>6 DEF Present
      <4>2. Present(i) /\ run[rec[i].cid].pc \in Committed /\ rec[i].cid \in Runs
        BY <4>1 DEF ContainersAreMade, TypeOK, RecordType, ContainerIDs
      <4>3. QED
        BY <4>2, <3>1
    <3>8. \A r \in Runs : run'[r].from # NoContainer => run'[run'[r].from].pc \in Committed
      <4>1. SUFFICES ASSUME NEW r \in Runs, run[r].from # NoContainer
                     PROVE  run'[run[r].from].pc \in Committed
        BY <3>1
      <4>2. run[run[r].from].pc \in Committed /\ run[r].from \in Runs
        BY <4>1 DEF ContainersAreMade, TypeOK, RunType, ContainerIDs
      <4>3. QED
        BY <4>2, <3>1
    <3>9. \A e \in Destroys : \A c \in destroy'[e].targets : run'[c].pc \in Committed
      <4>1. SUFFICES ASSUME NEW e \in Destroys, NEW c \in destroy[e].targets
                     PROVE  run'[c].pc \in Committed
        BY <3>2
      <4>2. c \in Runs /\ run[c].pc \in Committed
        BY DEF ContainersAreMade, TypeOK, DestroyType
      <4>3. QED
        BY <4>2, <3>1
    <3>10. QED
      BY <3>5, <3>7, <3>8, <3>9 DEF ContainersAreMade
  <2>4. DestroyKnowsTargets'
    BY <1>3, SMTT(60) DEF Die, BoxLeft, InBackend, Lost, DestroyKnowsTargets, Gone, Exists
  <2>5. NoOrphan'
    BY <1>3, SMTT(60) DEF Die, BoxLeft, InBackend, Lost, NoOrphan, Accounted, Exists, Present
  <2>6. RunHoldsStatus'
    BY <1>3, SMTT(60) DEF Die, BoxLeft, InBackend, Lost, RunHoldsStatus, Uncommitted, Gone, Provisioning,
       SwitchInFlight
  <2>7. QED
    BY <1>0, <2>1, <2>2, <2>3, <2>4, <2>5, <2>6
<1>4. ASSUME UNCHANGED vars PROVE SafeInv'
  <2>1. OneRunPerInstance'
    BY <1>4 DEF vars, OneRunPerInstance, Uncommitted
  <2>2. RunOwnsRecord'
    BY <1>4 DEF vars, RunOwnsRecord, Uncommitted, Present, Exists
  <2>3. ContainersAreMade'
    BY <1>4 DEF vars, ContainersAreMade, Committed, Unbuilt, Present
  <2>4. DestroyKnowsTargets'
    BY <1>4 DEF vars, DestroyKnowsTargets, Gone, Exists
  <2>5. NoOrphan'
    BY <1>4 DEF vars, NoOrphan, Accounted, Exists, Present
  <2>6. RunHoldsStatus'
    BY <1>4 DEF vars, RunHoldsStatus, Uncommitted, Gone, Provisioning,
       SwitchInFlight
  <2>7. QED
    BY <1>0, <2>1, <2>2, <2>3, <2>4, <2>5, <2>6
<1> HIDE DEF SafeInv, TypeOK, RecordType, RunType, DestroyType, SwitchType, ContainerIDs
<1>5. QED
  BY <1>1, <1>2, <1>3, <1>4

\* Every step of a job, of a request, and of the daemon preserves SafeInv.
LEMMA SafeNext == ASSUME Serial, SafeInv, [Next]_vars PROVE SafeInv'
  BY RequestKeepsSafe, RunKeepsSafe, BackendKeepsSafe, DestroyKeepsSafe, SwitchKeepsSafe,
     DaemonKeepsSafe DEF Next

\* SafeInv holds throughout.
LEMMA SafeAlways == ASSUME Serial PROVE Spec => []SafeInv
<1>1. Init => SafeInv
  BY SafeInit
<1>2. SafeInv /\ [Next]_vars => SafeInv'
  BY SafeNext
<1>3. QED
  BY <1>1, <1>2, PTL DEF Spec

\* No container is ever left behind, whatever the number of instances, runs, destroys
\* and daemon deaths, and whether or not a run outlasts destroyCancelWait: the mark, the
\* commit and the teardown of jobs.go and internal/create leave no gap between them.
THEOREM NoContainerLost == ASSUME Serial PROVE Spec => []NoOrphan
<1>1. SafeInv => NoOrphan
  BY DEF SafeInv
<1>2. QED
  BY <1>1, SafeAlways, PTL

\* No two provisioning runs ever work on one instance.
THEOREM RunsExclude == ASSUME Serial PROVE Spec => []OneRunPerInstance
<1>1. SafeInv => OneRunPerInstance
  BY DEF SafeInv
<1>2. QED
  BY <1>1, SafeAlways, PTL

-----------------------------------------------------------------------------
(* What one step does to each part of the state.                           *)

\* The record of an instance as a step leaves it.
Written(i, status, c) == rec'[i].status = status /\ rec'[i].cid = c

\* What a step may do to the record of an instance, with what its writer saw under the
\* state lock: a create, clone or rebuild is accepted, ...
RecordAccepted(i) ==
    /\ daemon # "down"
    /\ \/ /\ ~Present(i) /\ NameFree(i)
          /\ \E kind \in {"creating", "cloning"} : Written(i, kind, NoContainer)
       \/ /\ ~Gone(i) /\ rec[i].status \notin Provisioning /\ Unswitched(i)
          /\ Written(i, "rebuilding", rec[i].cid)
    /\ \E r \in Runs : run[r].pc = "idle" /\ run'[r].pc = "accepted" /\ run'[r].inst = i
\* ... its run commits, or fails with or without a container, ...
RecordSettled(i) ==
    /\ ~Gone(i)
    /\ \E r \in Runs :
         /\ run[r].pc \in {"finishing", "abandon", "failing"} /\ run[r].inst = i /\ run'[r].pc = "exit"
         /\ \/ run[r].pc = "finishing" /\ Written(i, "running", r)
            \/ run[r].pc = "abandon" /\ Written(i, "failed", r)
            \/ run[r].pc = "failing" /\ Written(i, "failed", rec[i].cid)
    /\ box' = box /\ switch' = switch
\* ... a start or stop commits, ...
RecordSwitched(i) ==
    /\ ~Gone(i)
    /\ \E s \in Switches : /\ switch[s].pc = "switched" /\ switch[s].inst = i /\ switch'[s].pc = "done"
                          /\ Written(i, switch[s].to, rec[i].cid)
    /\ box' = box
\* ... a destroy marks it or removes it, or the restarted daemon fails it.
RecordEnded(i) ==
    \/ Present(i) /\ Written(i, "deleting", rec[i].cid)
    \/ Written(i, "absent", NoContainer)
    \/ /\ daemon = "down" /\ rec[i].status \in Provisioning
       /\ Written(i, "failed", rec[i].cid)

\* Only these writes reach a record.
LEMMA RecordStep ==
    ASSUME TypeOK, [Next]_vars, NEW i \in Instances
    PROVE  \/ rec'[i] = rec[i] \/ RecordAccepted(i) \/ RecordSettled(i)
           \/ RecordSwitched(i) \/ RecordEnded(i)
<1> DEFINE Goal == \/ rec'[i] = rec[i] \/ RecordAccepted(i) \/ RecordSettled(i)
                   \/ RecordSwitched(i) \/ RecordEnded(i)
<1>0. /\ rec \in [Instances -> RecordType] /\ run \in [Runs -> RunType]
      /\ switch \in [Switches -> SwitchType]
  BY DEF TypeOK
<1>1. ASSUME NEW r \in Runs, NEW j \in Instances, StartCreateInstanceJob(r, j) PROVE Goal
  <2>1. CASE i = j
    BY <1>0, <1>1, <2>1 DEF StartCreateInstanceJob, Accept, RecordAccepted, Written, RecordType, RunType
  <2>2. CASE i # j
    BY <1>0, <1>1, <2>2 DEF StartCreateInstanceJob
  <2>3. QED
    BY <2>1, <2>2
<1>2. ASSUME NEW r \in Runs, NEW src \in Instances, NEW j \in Instances,
             StartCloneInstanceJob(r, src, j)
      PROVE  Goal
  <2>1. CASE i = j
    BY <1>0, <1>2, <2>1 DEF StartCloneInstanceJob, Accept, RecordAccepted, Written, RecordType, RunType
  <2>2. CASE i # j
    BY <1>0, <1>2, <2>2, SMTT(60) DEF StartCloneInstanceJob
  <2>3. QED
    BY <2>1, <2>2, SMTT(60)
<1>3. ASSUME NEW r \in Runs, NEW j \in Instances, StartRebuildInstanceJob(r, j) PROVE Goal
  <2>1. CASE i = j
    <3>1. Written(i, "rebuilding", rec[i].cid)
      BY <1>0, <1>3, <2>1 DEF StartRebuildInstanceJob, Written, RecordType
    <3>2. run[r].pc = "idle" /\ run'[r].pc = "accepted" /\ run'[r].inst = i
      BY <1>0, <1>3, <2>1 DEF StartRebuildInstanceJob, Accept, RunType
    <3>3. ~Gone(i) /\ rec[i].status \notin Provisioning /\ Unswitched(i) /\ daemon # "down"
      BY <1>3, <2>1 DEF StartRebuildInstanceJob, IsTransitionalStatus, Gone, Present
    <3>4. QED
      BY <3>1, <3>2, <3>3 DEF RecordAccepted
  <2>2. CASE i # j
    BY <1>0, <1>3, <2>2 DEF StartRebuildInstanceJob
  <2>3. QED
    BY <2>1, <2>2
<1>4. ASSUME NEW r \in Runs, CommitRunning(r) PROVE Goal
  BY <1>0, <1>4, SMTT(60) DEF CommitRunning, RecordSettled, Written, RunType
<1>5. ASSUME NEW r \in Runs, AbandonRun(r) PROVE Goal
  BY <1>0, <1>5, SMTT(60) DEF AbandonRun, RecordSettled, Written, RunType
<1>6. ASSUME NEW r \in Runs, SetFailed(r) PROVE Goal
  BY <1>0, <1>6 DEF SetFailed, RecordSettled, Written, RunType, RecordType
<1>7. ASSUME NEW s \in Switches, CommitTransition(s) PROVE Goal
  BY <1>0, <1>7 DEF CommitTransition, RecordSwitched, Written, RecordType, SwitchType
<1>8. ASSUME NEW d \in Destroys, DestroyMark(d) PROVE Goal
  BY <1>0, <1>8 DEF DestroyMark, RecordEnded, Written, RecordType
<1>9. ASSUME NEW d \in Destroys, DestroyRemove(d) PROVE Goal
  BY <1>0, <1>9 DEF DestroyRemove, RecordEnded, Written
<1>10. ASSUME FailInterruptedJobs PROVE Goal
  BY <1>0, <1>10 DEF FailInterruptedJobs, RecordEnded, Written, RecordType
<1>11. ASSUME rec' = rec PROVE Goal
  BY <1>11, SMTT(60)
<1> HIDE DEF Goal
<1>12. QED
  <2>1. ASSUME Request PROVE Goal
    BY <2>1, <1>1, <1>2, <1>3, <1>11 DEF Request, DestroyValidate, SwitchLoad
  <2>2. ASSUME NEW r \in Runs, RunStep(r) PROVE Goal
    BY <2>2, <1>4, <1>5, <1>6, <1>11 DEF RunStep, JobStart, RunLoad, Prepare, StopIfCancelled,
       DiscardContainer, JobFinish
  <2>3. ASSUME NEW d \in Destroys, DestroyStep(d) PROVE Goal
    BY <2>3, <1>8, <1>9, <1>11 DEF DestroyStep, CancelProvisioning, AwaitCancelledJobs,
       DestroySnapshot, DownInstance
  <2>4. ASSUME NEW s \in Switches, SwitchStep(s) PROVE Goal
    BY <2>4, <1>7, <1>11 DEF SwitchStep, SwitchBackend
  <2>5. ASSUME NEW r \in Runs, BackendStep(r) \/ ShutdownCancel(r) PROVE Goal
    BY <2>5, <1>11 DEF BackendStep, BackendOk, BackendErr, BackendCheckpointed, ShutdownCancel
  <2>6. ASSUME Die \/ BeginShutdown \/ UNCHANGED vars PROVE Goal
    BY <2>6, <1>11, SMTT(60) DEF Die, BeginShutdown, vars
  <2>7. Goal
    BY <1>10, <2>1, <2>2, <2>3, <2>4, <2>5, <2>6 DEF Next
  <2>8. QED
    BY <2>7 DEF Goal

\* What a step may do to a provisioning run: it is accepted, ...
RunAccepted(r) ==
    /\ daemon # "down" /\ run[r].pc = "idle" /\ run'[r].pc = "accepted"
    /\ run'[r].from = NoContainer /\ run'[r].cause = "none"
\* ... keeps its place, or loads the container it starts from, ...
RunKept(r) ==
    /\ run'[r].inst = run[r].inst /\ run'[r].src = run[r].src /\ run'[r].kind = run[r].kind
    /\ run'[r].from = run[r].from
       \/ run'[r].from = NoContainer \/ run'[r].from = rec[run[r].src].cid
\* ... is cancelled, ...
RunCancelled(r) ==
    /\ run'[r].pc = run[r].pc
    /\ run'[r].cause = "shutdown" => daemon' = "stopping" \/ run'[r].cause = run[r].cause
\* ... goes on, ...
RunMoved(r) ==
    /\ run'[r].cause = run[r].cause
    /\ run[r].pc \in Committed => run'[r].pc \in Committed
    /\ run'[r].pc \in Uncommitted => run[r].pc \in Uncommitted
    /\ run'[r].pc = "built" => box'[r] = "up"
    /\ run'[r].pc = "finishing" => run[r].pc = "built" /\ box' = box
    /\ run'[r].pc = "discard" => Gone(run[r].inst) /\ rec' = rec
\* ... gives up its record, as it settled it or as somebody else did, ...
RunLeaves(r) ==
    run[r].pc \in Uncommitted /\ run'[r].pc \notin Uncommitted =>
        \/ run[r].pc = "discard" \/ run[r].cause = "shutdown" \/ Gone(run[r].inst)
        \/ rec'[run[r].inst].status \notin Provisioning
\* ... or ends with the process.
RunLost(r) == daemon' = "down" /\ run'[r] = Lost(run[r])

\* Only these steps reach a run.
LEMMA RunStepOf ==
    ASSUME TypeOK, [Next]_vars, NEW r \in Runs
    PROVE  \/ run'[r] = run[r] \/ RunAccepted(r)
           \/ RunKept(r) /\ (RunLost(r) \/ RunCancelled(r) \/ (RunMoved(r) /\ RunLeaves(r)))
<1> DEFINE Goal == \/ run'[r] = run[r] \/ RunAccepted(r)
                   \/ RunKept(r) /\ (RunLost(r) \/ RunCancelled(r) \/ (RunMoved(r) /\ RunLeaves(r)))
<1>0. run \in [Runs -> RunType] /\ box \in [Runs -> {"none", "up", "stopped", "gone"}]
      /\ rec \in [Instances -> RecordType]
  BY DEF TypeOK
<1> USE DEF RunType
<1>1. ASSUME NEW q \in Runs, NEW kind \in {"create", "clone", "rebuild"}, NEW src, NEW i,
             daemon # "down", run[q].pc = "idle", Accept(q, kind, src, i)
      PROVE  Goal
  BY <1>0, <1>1 DEF Accept, RunAccepted
<1>2. ASSUME NEW q \in Runs, JobStart(q) PROVE Goal
  BY <1>0, <1>2, SMTT(60) DEF JobStart, RunKept, RunMoved, RunLeaves, Committed, Uncommitted
<1>3. ASSUME NEW q \in Runs, RunLoad(q) PROVE Goal
  <2>1. CASE run' = [run EXCEPT ![q].pc = "prepare", ![q].from = LoadedFrom(q)]
    BY <1>0, <1>3, <2>1, SMTT(60) DEF RunLoad, LoadedFrom, RunKept, RunMoved, RunLeaves, Committed, Uncommitted
  <2>2. CASE run' = [run EXCEPT ![q].pc = "failing"]
    BY <1>0, <1>3, <2>2, SMTT(60) DEF RunLoad, RunKept, RunMoved, RunLeaves, Committed, Uncommitted
  <2>3. QED
    BY <1>3, <2>1, <2>2 DEF RunLoad
<1>4. ASSUME NEW q \in Runs, Prepare(q) PROVE Goal
  BY <1>0, <1>4, SMTT(60) DEF Prepare, RunKept, RunMoved, RunLeaves, Committed, Uncommitted
<1>5. ASSUME NEW q \in Runs, StopIfCancelled(q) PROVE Goal
  BY <1>0, <1>5, SMTT(60) DEF StopIfCancelled, RunKept, RunMoved, RunLeaves, Committed, Uncommitted
<1>6. ASSUME NEW q \in Runs, CommitRunning(q) PROVE Goal
  BY <1>0, <1>6, SMTT(60) DEF CommitRunning, RunKept, RunMoved, RunLeaves, Committed, Uncommitted, Provisioning
<1>7. ASSUME NEW q \in Runs, AbandonRun(q) PROVE Goal
  BY <1>0, <1>7, SMTT(60) DEF AbandonRun, RunKept, RunMoved, RunLeaves, Committed, Uncommitted, Provisioning
<1>8. ASSUME NEW q \in Runs, DiscardContainer(q) PROVE Goal
  BY <1>0, <1>8 DEF DiscardContainer, RunKept, RunMoved, RunLeaves, Committed, Uncommitted
<1>9. ASSUME NEW q \in Runs, SetFailed(q) PROVE Goal
  BY <1>0, <1>9, SMTT(60) DEF SetFailed, RunKept, RunMoved, RunLeaves, Committed, Uncommitted, Provisioning,
     RecordType
<1>10. ASSUME NEW q \in Runs, JobFinish(q) PROVE Goal
  BY <1>0, <1>10 DEF JobFinish, RunKept, RunMoved, RunLeaves, Committed, Uncommitted
<1>11. ASSUME NEW q \in Runs, BackendOk(q) PROVE Goal
  BY <1>0, <1>11, SMTT(60) DEF BackendOk, BoxBuilt, RunKept, RunMoved, RunLeaves, Committed, Uncommitted
<1>12. ASSUME NEW q \in Runs, BackendErr(q) PROVE Goal
  BY <1>0, <1>12, SMTT(60) DEF BackendErr, RunKept, RunMoved, RunLeaves, Committed, Uncommitted
<1>13. ASSUME NEW q \in Runs, BackendCheckpointed(q) PROVE Goal
  BY <1>0, <1>13 DEF BackendCheckpointed, RunKept, RunMoved, RunLeaves, Committed, Uncommitted
<1>14. ASSUME NEW q \in Runs, ShutdownCancel(q) PROVE Goal
  BY <1>0, <1>14 DEF ShutdownCancel, RunKept, RunCancelled
<1>15. ASSUME NEW d \in Destroys, CancelProvisioning(d) PROVE Goal
  BY <1>0, <1>15 DEF CancelProvisioning, RunKept, RunCancelled
<1>16. ASSUME Die PROVE Goal
  BY <1>0, <1>16 DEF Die, RunKept, RunLost, Lost
<1>17. ASSUME run' = run PROVE Goal
  BY <1>17
<1> HIDE DEF Goal
<1>18. QED
  <2>1. ASSUME Request PROVE Goal
    BY <2>1, <1>1, <1>17 DEF Request, StartCreateInstanceJob, StartCloneInstanceJob,
       StartRebuildInstanceJob, DestroyValidate, SwitchLoad
  <2>2. ASSUME NEW q \in Runs, RunStep(q) PROVE Goal
    BY <2>2, <1>2, <1>3, <1>4, <1>5, <1>6, <1>7, <1>8, <1>9, <1>10 DEF RunStep
  <2>3. ASSUME NEW d \in Destroys, DestroyStep(d) PROVE Goal
    BY <2>3, <1>15, <1>17 DEF DestroyStep, DestroyMark, AwaitCancelledJobs, DestroySnapshot,
       DestroyRemove, DownInstance
  <2>4. ASSUME NEW s \in Switches, SwitchStep(s) PROVE Goal
    BY <2>4, <1>17 DEF SwitchStep, SwitchBackend, CommitTransition
  <2>5. ASSUME NEW q \in Runs, BackendStep(q) \/ ShutdownCancel(q) PROVE Goal
    BY <2>5, <1>11, <1>12, <1>13, <1>14 DEF BackendStep
  <2>6. ASSUME BeginShutdown \/ FailInterruptedJobs \/ UNCHANGED vars PROVE Goal
    BY <2>6, <1>17 DEF BeginShutdown, FailInterruptedJobs, vars
  <2>7. Goal
    BY <1>16, <2>1, <2>2, <2>3, <2>4, <2>5, <2>6 DEF Next
  <2>8. QED
    BY <2>7 DEF Goal

\* What a step may do to a container: its run makes or discards it, ...
BoxOwn(c) ==
    \/ run[c].pc = "backend" /\ run'[c].pc # "finishing" /\ box'[c] = "up"
    \/ run[c].pc = "discard" /\ run'[c].pc = "exit"
\* ... a rebuild takes it down, ...
BoxReplaced(c) ==
    /\ \E q \in Runs : run[q].pc = "backend" /\ run[q].kind = "rebuild" /\ run[q].from = c
    /\ rec' = rec
\* ... a destroy does, ...
BoxDown(c) ==
    /\ \E d \in Destroys : destroy[d].pc = "teardown" /\ c \in destroy[d].targets
    /\ rec' = rec
\* ... or a start or stop switches it.
BoxSwitched(c) ==
    \E s \in Switches :
        /\ switch[s].pc = "loaded" /\ switch[s].cid = c /\ Exists(c)
        /\ switch'[s].pc = "switched" /\ switch'[s].inst = switch[s].inst
        /\ box'[c] = IF switch[s].to = "running" THEN "up" ELSE "stopped"

\* Only these steps reach a container.
LEMMA BoxStep ==
    ASSUME TypeOK, [Next]_vars, NEW c \in Runs
    PROVE  box'[c] = box[c] \/ BoxOwn(c) \/ BoxReplaced(c) \/ BoxDown(c) \/ BoxSwitched(c)
<1> DEFINE Goal == box'[c] = box[c] \/ BoxOwn(c) \/ BoxReplaced(c) \/ BoxDown(c) \/ BoxSwitched(c)
<1>0. /\ run \in [Runs -> RunType] /\ box \in [Runs -> {"none", "up", "stopped", "gone"}]
      /\ switch \in [Switches -> SwitchType]
  BY DEF TypeOK
<1>1. ASSUME NEW r \in Runs, BackendOk(r) PROVE Goal
  BY <1>0, <1>1 DEF BackendOk, BoxBuilt, BoxOwn, BoxReplaced, RunType
<1>2. ASSUME NEW r \in Runs, BackendErr(r) PROVE Goal
  BY <1>0, <1>2 DEF BackendErr, BoxCut, BoxReplaced
<1>3. ASSUME NEW r \in Runs, BackendCheckpointed(r) PROVE Goal
  BY <1>0, <1>3 DEF BackendCheckpointed, BoxCut, BoxReplaced
<1>4. ASSUME NEW r \in Runs, DiscardContainer(r) PROVE Goal
  BY <1>0, <1>4 DEF DiscardContainer, BoxOwn, RunType
<1>5. ASSUME NEW d \in Destroys, NEW b \in Runs, DownInstance(d, b) PROVE Goal
  BY <1>0, <1>5 DEF DownInstance, BoxDown
<1>6. ASSUME NEW s \in Switches, SwitchBackend(s) PROVE Goal
  <2>1. CASE box' = box
    BY <2>1
  <2>2. CASE /\ Exists(switch[s].cid)
             /\ box' = [box EXCEPT ![switch[s].cid] = IF switch[s].to = "running" THEN "up" ELSE "stopped"]
             /\ switch' = [switch EXCEPT ![s].pc = "switched"]
    BY <1>0, <1>6, <2>2 DEF SwitchBackend, BoxSwitched, SwitchType
  <2>3. QED
    BY <1>6, <2>1, <2>2 DEF SwitchBackend
<1>7. ASSUME Die PROVE Goal
  <2>1. PICK made \in SUBSET InBackend, cut \in SUBSET InBackend : box' = BoxLeft(made, cut)
    BY <1>7, SMTT(60) DEF Die
  <2>2. CASE c \in made
    <3>1. run[c].pc = "backend" /\ box'[c] = "up"
      BY <2>1, <2>2 DEF BoxLeft, InBackend
    <3>2. run'[c].pc = "lost"
      BY <1>0, <1>7, <3>1 DEF Die, Lost, RunType
    <3>3. QED
      BY <3>1, <3>2 DEF BoxOwn
  <2>3. ASSUME c \notin made, NEW r \in made \cup cut, run[r].kind = "rebuild" /\ run[r].from = c PROVE Goal
    BY <1>7, <2>3 DEF Die, BoxReplaced, InBackend
  <2>4. CASE c \notin made /\ ~\E r \in made \cup cut : run[r].kind = "rebuild" /\ run[r].from = c
    BY <2>1, <2>4 DEF BoxLeft
  <2>5. QED
    BY <2>2, <2>3, <2>4
<1>8. ASSUME box' = box PROVE Goal
  BY <1>8
<1> HIDE DEF Goal
<1>9. QED
  <2>1. ASSUME Request PROVE Goal
    BY <2>1, <1>8 DEF Request, StartCreateInstanceJob, StartCloneInstanceJob,
       StartRebuildInstanceJob, DestroyValidate, SwitchLoad
  <2>2. ASSUME NEW r \in Runs, RunStep(r) PROVE Goal
    BY <2>2, <1>4, <1>8 DEF RunStep, JobStart, RunLoad, Prepare, StopIfCancelled, CommitRunning,
       AbandonRun, SetFailed, JobFinish
  <2>3. ASSUME NEW d \in Destroys, DestroyStep(d) PROVE Goal
    BY <2>3, <1>5, <1>8 DEF DestroyStep, DestroyMark, CancelProvisioning, AwaitCancelledJobs,
       DestroySnapshot, DestroyRemove
  <2>4. ASSUME NEW s \in Switches, SwitchStep(s) PROVE Goal
    BY <2>4, <1>6, <1>8 DEF SwitchStep, CommitTransition
  <2>5. ASSUME NEW r \in Runs, BackendStep(r) \/ ShutdownCancel(r) PROVE Goal
    BY <2>5, <1>1, <1>2, <1>3, <1>8 DEF BackendStep, ShutdownCancel
  <2>6. ASSUME BeginShutdown \/ FailInterruptedJobs \/ UNCHANGED vars PROVE Goal
    BY <2>6, <1>8 DEF BeginShutdown, FailInterruptedJobs, vars
  <2>7. Goal
    BY <1>7, <2>1, <2>2, <2>3, <2>4, <2>5, <2>6 DEF Next
  <2>8. QED
    BY <2>7 DEF Goal

\* What a step may do to a start or stop: it loads the record, ...
SwitchLoaded(s) ==
    /\ daemon # "down" /\ daemon' = daemon /\ rec' = rec
    /\ switch[s].pc = "idle" /\ switch'[s].pc = "loaded"
    /\ LET i == switch'[s].inst IN
       /\ i \in Instances /\ Unswitched(i) /\ rec[i].cid # NoContainer /\ switch'[s].cid = rec[i].cid
       /\ rec[i].status = IF switch'[s].to = "stopped" THEN "running" ELSE "stopped"
    /\ \A q \in Switches : q # s => switch'[q] = switch[q]
\* ... goes on with it, ...
SwitchKept(s) ==
    /\ switch'[s].inst = switch[s].inst /\ switch'[s].cid = switch[s].cid /\ switch'[s].to = switch[s].to
\* ... has the backend's answer, ...
SwitchAnswered(s) ==
    LET c == switch[s].cid IN
    /\ switch[s].pc = "loaded" /\ rec' = rec /\ daemon' = daemon
    /\ \/ switch'[s].pc = "done"
       \/ /\ switch'[s].pc = "switched" /\ Exists(c)
          /\ box'[c] = IF switch[s].to = "running" THEN "up" ELSE "stopped"
\* ... commits, ...
SwitchCommits(s) ==
    LET i == switch[s].inst IN
    /\ switch[s].pc = "switched" /\ switch'[s].pc = "done" /\ box' = box
    /\ IF Gone(i) THEN rec' = rec ELSE Written(i, switch[s].to, rec[i].cid)
\* ... or ends with the process.
SwitchLost(s) == daemon' = "down" /\ switch'[s] = Lost(switch[s])

\* Only these steps reach a start or stop.
LEMMA SwitchStepOf ==
    ASSUME TypeOK, [Next]_vars, NEW s \in Switches
    PROVE  \/ switch'[s] = switch[s] /\ (daemon' = "down" => daemon = "down" \/ SwitchLost(s))
           \/ SwitchLoaded(s)
           \/ SwitchKept(s) /\ (SwitchAnswered(s) \/ SwitchCommits(s) \/ SwitchLost(s))
<1> DEFINE Goal == \/ switch'[s] = switch[s] /\ (daemon' = "down" => daemon = "down" \/ SwitchLost(s))
                   \/ SwitchLoaded(s)
                   \/ SwitchKept(s) /\ (SwitchAnswered(s) \/ SwitchCommits(s) \/ SwitchLost(s))
<1>0. rec \in [Instances -> RecordType] /\ switch \in [Switches -> SwitchType]
  BY DEF TypeOK
<1>1. ASSUME NEW q \in Switches, NEW i \in Instances, NEW to \in {"running", "stopped"}, SwitchLoad(q, i, to)
      PROVE  Goal
  <2>1. CASE q = s
    BY <1>0, <1>1, <2>1 DEF SwitchLoad, SwitchLoaded, SwitchType
  <2>2. CASE q # s
    BY <1>0, <1>1, <2>2, SMTT(60) DEF SwitchLoad
  <2>3. QED
    BY <2>1, <2>2
<1>2. ASSUME NEW q \in Switches, SwitchBackend(q) PROVE Goal
  <2>1. CASE q = s
    <3>1. CASE switch' = [switch EXCEPT ![q].pc = "done"]
      BY <1>0, <1>2, <2>1, <3>1 DEF SwitchBackend, SwitchKept, SwitchAnswered, SwitchType
    <3>2. CASE /\ Exists(switch[s].cid)
               /\ box' = [box EXCEPT ![switch[s].cid] = IF switch[s].to = "running" THEN "up" ELSE "stopped"]
               /\ switch' = [switch EXCEPT ![s].pc = "switched"]
      <4>1. box \in [Runs -> {"none", "up", "stopped", "gone"}]
        BY DEF TypeOK
      <4>2. QED
        BY <1>0, <1>2, <2>1, <3>2, <4>1, SMTT(60) DEF SwitchBackend, SwitchKept, SwitchAnswered, SwitchType, Exists
    <3>3. QED
      BY <1>2, <2>1, <3>1, <3>2 DEF SwitchBackend
  <2>2. CASE q # s
    BY <1>0, <1>2, <2>2 DEF SwitchBackend
  <2>3. QED
    BY <2>1, <2>2
<1>3. ASSUME NEW q \in Switches, CommitTransition(q) PROVE Goal
  <2>1. CASE q = s
    BY <1>0, <1>3, <2>1, SMTT(60) DEF CommitTransition, SwitchKept, SwitchCommits, Written, SwitchType, RecordType
  <2>2. CASE q # s
    BY <1>0, <1>3, <2>2 DEF CommitTransition
  <2>3. QED
    BY <2>1, <2>2
<1>4. ASSUME Die PROVE Goal
  BY <1>0, <1>4 DEF Die, SwitchKept, SwitchLost, Lost, SwitchType
<1>5. ASSUME switch' = switch, daemon' = daemon PROVE Goal
  BY <1>5
<1>6. ASSUME BeginShutdown \/ FailInterruptedJobs PROVE Goal
  BY <1>6 DEF BeginShutdown, FailInterruptedJobs
<1> HIDE DEF Goal
<1>7. QED
  <2>1. ASSUME Request PROVE Goal
    BY <2>1, <1>1, <1>5 DEF Request, StartCreateInstanceJob, StartCloneInstanceJob,
       StartRebuildInstanceJob, DestroyValidate
  <2>2. ASSUME NEW r \in Runs, RunStep(r) PROVE Goal
    BY <2>2, <1>5 DEF RunStep, JobStart, RunLoad, Prepare, StopIfCancelled, CommitRunning,
       AbandonRun, DiscardContainer, SetFailed, JobFinish
  <2>3. ASSUME NEW d \in Destroys, DestroyStep(d) PROVE Goal
    BY <2>3, <1>5 DEF DestroyStep, DestroyMark, CancelProvisioning, AwaitCancelledJobs,
       DestroySnapshot, DestroyRemove, DownInstance
  <2>4. ASSUME NEW q \in Switches, SwitchStep(q) PROVE Goal
    BY <2>4, <1>2, <1>3 DEF SwitchStep
  <2>5. ASSUME NEW r \in Runs, BackendStep(r) \/ ShutdownCancel(r) PROVE Goal
    BY <2>5, <1>5 DEF BackendStep, BackendOk, BackendErr, BackendCheckpointed, ShutdownCancel
  <2>6. ASSUME UNCHANGED vars PROVE Goal
    BY <2>6, <1>5 DEF vars
  <2>7. Goal
    BY <1>4, <1>6, <2>1, <2>2, <2>3, <2>4, <2>5, <2>6 DEF Next
  <2>8. QED
    BY <2>7 DEF Goal

\* What a step may do to a destroy: its scope is fixed once it is validated, and the
\* containers it knows are those its targets recorded.
LEMMA DestroyStepOf ==
    ASSUME TypeOK, [Next]_vars, NEW d \in Destroys
    PROVE  /\ destroy'[d].pc = "idle" => destroy[d].pc = "idle"
           /\ destroy[d].pc = "idle" => destroy'[d].targets = destroy[d].targets
           /\ destroy[d].pc # "idle" => destroy'[d].scope = destroy[d].scope
           /\ \A c \in destroy'[d].targets :
                c \in destroy[d].targets \/ \E i \in destroy[d].scope : Present(i) /\ rec[i].cid = c
<1> DEFINE Goal == /\ destroy'[d].pc = "idle" => destroy[d].pc = "idle"
                   /\ destroy[d].pc = "idle" => destroy'[d].targets = destroy[d].targets
                   /\ destroy[d].pc # "idle" => destroy'[d].scope = destroy[d].scope
                   /\ \A c \in destroy'[d].targets :
                        c \in destroy[d].targets \/ \E i \in destroy[d].scope : Present(i) /\ rec[i].cid = c
<1>0. destroy \in [Destroys -> DestroyType]
  BY DEF TypeOK
<1>1. ASSUME NEW e \in Destroys, NEW scope \in Scopes, DestroyValidate(e, scope) PROVE Goal
  BY <1>0, <1>1, SMTT(60) DEF DestroyValidate, DestroyType
<1>2. ASSUME NEW e \in Destroys, DestroyMark(e) PROVE Goal
  BY <1>0, <1>2 DEF DestroyMark, DestroyType
<1>3. ASSUME NEW e \in Destroys, CancelProvisioning(e) PROVE Goal
  BY <1>0, <1>3 DEF CancelProvisioning, DestroyType
<1>4. ASSUME NEW e \in Destroys, AwaitCancelledJobs(e) PROVE Goal
  BY <1>0, <1>4 DEF AwaitCancelledJobs, DestroyType
<1>5. ASSUME NEW e \in Destroys, DestroySnapshot(e) PROVE Goal
  BY <1>0, <1>5 DEF DestroySnapshot, DestroyType
<1>6. ASSUME NEW e \in Destroys, DestroyRemove(e) PROVE Goal
  BY <1>0, <1>6 DEF DestroyRemove, DestroyType
<1>7. ASSUME NEW e \in Destroys, NEW c \in Runs, DownInstance(e, c) PROVE Goal
  BY <1>0, <1>7 DEF DownInstance, DestroyType
<1>8. ASSUME Die PROVE Goal
  <2>1. destroy'[d] = Lost(destroy[d])
    BY <1>8 DEF Die
  <2>2. QED
    BY <1>0, <2>1 DEF Lost, DestroyType
<1>9. ASSUME destroy' = destroy PROVE Goal
  BY <1>9
<1> HIDE DEF Goal
<1>10. QED
  <2>1. ASSUME Request PROVE Goal
    BY <2>1, <1>1, <1>9 DEF Request, StartCreateInstanceJob, StartCloneInstanceJob,
       StartRebuildInstanceJob, SwitchLoad
  <2>2. ASSUME NEW r \in Runs, RunStep(r) PROVE Goal
    BY <2>2, <1>9 DEF RunStep, JobStart, RunLoad, Prepare, StopIfCancelled, CommitRunning,
       AbandonRun, DiscardContainer, SetFailed, JobFinish
  <2>3. ASSUME NEW e \in Destroys, DestroyStep(e) PROVE Goal
    BY <2>3, <1>2, <1>3, <1>4, <1>5, <1>6, <1>7 DEF DestroyStep
  <2>4. ASSUME NEW s \in Switches, SwitchStep(s) PROVE Goal
    BY <2>4, <1>9 DEF SwitchStep, SwitchBackend, CommitTransition
  <2>5. ASSUME NEW r \in Runs, BackendStep(r) \/ ShutdownCancel(r) PROVE Goal
    BY <2>5, <1>9 DEF BackendStep, BackendOk, BackendErr, BackendCheckpointed, ShutdownCancel
  <2>6. ASSUME BeginShutdown \/ FailInterruptedJobs \/ UNCHANGED vars PROVE Goal
    BY <2>6, <1>9 DEF BeginShutdown, FailInterruptedJobs, vars
  <2>7. Goal
    BY <1>8, <2>1, <2>2, <2>3, <2>4, <2>5, <2>6 DEF Next
  <2>8. QED
    BY <2>7 DEF Goal

\* A daemon that serves was serving, or has just restarted and failed the records of the
\* runs that died with its predecessor.
LEMMA ServingStep ==
    ASSUME TypeOK, [Next]_vars, daemon' = "serving"
    PROVE  \/ daemon = "serving"
           \/ /\ daemon = "down" /\ run' = run
              /\ \A i \in Instances : rec'[i].status \notin Provisioning
<1>1. CASE FailInterruptedJobs
  BY <1>1 DEF FailInterruptedJobs, TypeOK, RecordType, Provisioning
<1>2. CASE Request
  BY <1>2 DEF Request, StartCreateInstanceJob, StartCloneInstanceJob, StartRebuildInstanceJob,
     DestroyValidate, SwitchLoad
<1>3. ASSUME NEW r \in Runs, RunStep(r) PROVE daemon = "serving"
  BY <1>3 DEF RunStep, JobStart, RunLoad, Prepare, StopIfCancelled, CommitRunning, AbandonRun,
     DiscardContainer, SetFailed, JobFinish
<1>4. ASSUME NEW d \in Destroys, DestroyStep(d) PROVE daemon = "serving"
  BY <1>4 DEF DestroyStep, DestroyMark, CancelProvisioning, AwaitCancelledJobs, DestroySnapshot,
     DestroyRemove, DownInstance
<1>5. ASSUME NEW s \in Switches, SwitchStep(s) PROVE daemon = "serving"
  BY <1>5 DEF SwitchStep, SwitchBackend, CommitTransition
<1>6. ASSUME NEW r \in Runs, BackendStep(r) \/ ShutdownCancel(r) PROVE daemon = "serving"
  BY <1>6 DEF BackendStep, BackendOk, BackendErr, BackendCheckpointed, ShutdownCancel
<1>7. CASE BeginShutdown \/ Die \/ UNCHANGED vars
  BY <1>7, SMTT(60) DEF BeginShutdown, Die, vars
<1>8. QED
  BY <1>1, <1>2, <1>3, <1>4, <1>5, <1>6, <1>7 DEF Next

\* A run keeps its instance and its source, and once past its commit stays past it.
LEMMA RunStays ==
    ASSUME TypeOK, [Next]_vars, NEW r \in Runs
    PROVE  /\ run[r].pc # "idle" => run'[r].inst = run[r].inst /\ run'[r].src = run[r].src
           /\ run[r].pc \in Committed => run'[r].pc \in Committed
<1>1. run[r] \in RunType
  BY DEF TypeOK
<1>2. CASE run'[r] = run[r]
  BY <1>2
<1>3. CASE RunAccepted(r)
  BY <1>3 DEF RunAccepted, Committed
<1>4. CASE RunKept(r) /\ RunLost(r)
  BY <1>1, <1>4 DEF RunKept, RunLost, Lost, RunType, Committed
<1>5. CASE RunKept(r) /\ (RunCancelled(r) \/ RunMoved(r))
  BY <1>5, SMTT(60) DEF RunKept, RunCancelled, RunMoved
<1>6. QED
  BY <1>2, <1>3, <1>4, <1>5, RunStepOf

-----------------------------------------------------------------------------
(* RecordInv is inductive together with SafeInv.                           *)

\* Whoever names a container goes on naming one of the instance it works for.
LEMMA OwnKept ==
    ASSUME SafeInv, ContainersAreOwn, [Next]_vars
    PROVE  ContainersAreOwn'
<1>0. /\ TypeOK /\ ContainersAreMade
      /\ rec \in [Instances -> RecordType] /\ run \in [Runs -> RunType]
      /\ destroy \in [Destroys -> DestroyType] /\ switch \in [Switches -> SwitchType]
  BY DEF SafeInv, TypeOK
<1>1. ASSUME NEW c \in Runs, run[c].pc \in Committed
      PROVE  run'[c].inst = run[c].inst /\ run'[c].pc \in Committed
  BY <1>0, <1>1, RunStays, SMTT(60) DEF Committed
<1>2. ASSUME NEW i \in Instances, rec[i].cid # NoContainer
      PROVE  /\ rec[i].cid \in Runs /\ run[rec[i].cid].pc \in Committed
             /\ run[rec[i].cid].inst = i /\ rec[i].status \notin {"creating", "cloning"}
  BY <1>0, <1>2, SMTT(60) DEF ContainersAreMade, ContainersAreOwn, RecordType, ContainerIDs
<1>3. ASSUME NEW i \in Instances, rec'[i].cid # NoContainer
      PROVE  run'[rec'[i].cid].inst = i /\ rec'[i].status \notin {"creating", "cloning"}
  <2>1. ASSUME rec'[i].cid = rec[i].cid PROVE run'[rec'[i].cid].inst = i
    BY <1>1, <1>2, <1>3, <2>1
  <2>2. CASE rec'[i] = rec[i]
    BY <1>2, <1>3, <2>1, <2>2
  <2>3. CASE RecordAccepted(i)
    BY <1>3, <2>1, <2>3 DEF RecordAccepted, Written
  <2>4. CASE RecordSettled(i)
    <3>1. PICK r \in Runs : /\ run[r].pc # "idle" /\ run[r].inst = i
                            /\ rec'[i].cid = r \/ rec'[i].cid = rec[i].cid
                            /\ rec'[i].status \in {"running", "failed"}
      BY <2>4 DEF RecordSettled, Written
    <3>2. QED
      BY <1>0, <2>1, <3>1, RunStays
  <2>5. CASE RecordSwitched(i)
    <3>1. \A s \in Switches : switch[s].to \in {"running", "stopped"}
      BY <1>0 DEF SwitchType
    <3>2. QED
      BY <2>1, <2>5, <3>1 DEF RecordSwitched, Written
  <2>6. CASE RecordEnded(i)
    BY <1>3, <2>1, <2>6, SMTT(60) DEF RecordEnded, Written
  <2>7. QED
    BY <1>0, <2>2, <2>3, <2>4, <2>5, <2>6, RecordStep, SMTT(60)
<1>4. ASSUME NEW r \in Runs, run'[r].from # NoContainer PROVE run'[run'[r].from].inst = run'[r].src
  <2>1. CASE run'[r].from = run[r].from /\ run'[r].src = run[r].src
    <3>1. /\ run[r].from \in Runs /\ run[run[r].from].pc \in Committed
          /\ run[run[r].from].inst = run[r].src
      BY <1>0, <1>4, <2>1, SMTT(60) DEF ContainersAreMade, ContainersAreOwn, RunType, ContainerIDs
    <3>2. QED
      BY <1>1, <2>1, <3>1, SMTT(60)
  <2>2. CASE run'[r].from = rec[run[r].src].cid /\ run'[r].src = run[r].src
    <3>1. run[r].src \in Instances
      BY <1>0 DEF RunType
    <3>2. QED
      BY <1>1, <1>2, <1>4, <2>2, <3>1
  <2>3. QED
    BY <1>0, <1>4, <2>1, <2>2, RunStepOf DEF RunAccepted, RunKept
<1>5. ASSUME NEW d \in Destroys
      PROVE  /\ destroy'[d].pc = "idle" => destroy'[d].targets = {}
             /\ \A c \in destroy'[d].targets : run'[c].inst \in destroy'[d].scope
  <2>1. CASE destroy[d].pc = "idle"
    BY <1>0, <2>1, DestroyStepOf DEF ContainersAreOwn
  <2>2. CASE destroy[d].pc # "idle"
    <3>1. ASSUME NEW c \in destroy'[d].targets PROVE run'[c].inst \in destroy[d].scope
      <4>1. CASE c \in destroy[d].targets
        <5>1. c \in Runs /\ run[c].pc \in Committed /\ run[c].inst \in destroy[d].scope
          BY <1>0, <4>1 DEF ContainersAreMade, ContainersAreOwn, DestroyType
        <5>2. QED
          BY <1>1, <5>1, SMTT(60)
      <4>2. ASSUME NEW i \in destroy[d].scope, Present(i), rec[i].cid = c PROVE run'[c].inst \in destroy[d].scope
        <5>1. i \in Instances /\ c # NoContainer
          <6>1. destroy'[d] \in DestroyType /\ destroy[d] \in DestroyType
            BY <1>0, TypeNext, SMTT(60) DEF TypeOK
          <6>2. QED
            BY <6>1, <4>2, LifecycleAssumption DEF DestroyType
        <5>2. QED
          BY <1>1, <1>2, <4>2, <5>1
      <4>3. QED
        BY <1>0, <4>1, <4>2, DestroyStepOf
    <3>2. QED
      BY <1>0, <2>2, <3>1, DestroyStepOf
  <2>3. QED
    BY <2>1, <2>2
<1>6. ASSUME NEW s \in Switches, switch'[s].cid # NoContainer
      PROVE  run'[switch'[s].cid].pc \in Committed /\ run'[switch'[s].cid].inst = switch'[s].inst
  <2>1. CASE switch'[s].cid = switch[s].cid /\ switch'[s].inst = switch[s].inst
    <3>1. /\ switch[s].cid \in Runs /\ run[switch[s].cid].pc \in Committed
          /\ run[switch[s].cid].inst = switch[s].inst
      BY <1>0, <1>6, <2>1, SMTT(60) DEF ContainersAreOwn, SwitchType, ContainerIDs
    <3>2. QED
      BY <1>1, <2>1, <3>1
  <2>2. CASE SwitchLoaded(s)
    <3>1. /\ switch'[s].inst \in Instances /\ switch'[s].cid = rec[switch'[s].inst].cid
          /\ rec[switch'[s].inst].cid # NoContainer
      BY <2>2 DEF SwitchLoaded
    <3>2. QED
      BY <1>1, <1>2, <3>1
  <2>3. QED
    BY <1>0, <2>1, <2>2, SwitchStepOf DEF SwitchKept
<1>7. QED
  BY <1>3, <1>4, <1>5, <1>6 DEF ContainersAreOwn

\* The container on a record changes only under a destroy or a rebuild of the instance,
\* or when a start or stop of it switches it.
LEMMA RecordBox ==
    ASSUME SafeInv, ContainersAreOwn, [Next]_vars, NEW i \in Instances, rec[i].cid \in Runs
    PROVE  \/ box'[rec[i].cid] = box[rec[i].cid]
           \/ rec[i].status \in {"deleting", "rebuilding"} /\ rec' = rec
           \/ BoxSwitched(rec[i].cid)
<1> DEFINE c == rec[i].cid
<1>0. /\ TypeOK /\ ContainersAreMade /\ c \in Runs /\ c # NoContainer
      /\ rec[i] \in RecordType
  BY LifecycleAssumption DEF SafeInv, TypeOK
<1>1. Present(i) /\ run[c].pc \in Committed /\ run[c].inst = i /\ rec[i].status \notin {"creating", "cloning"}
  BY <1>0 DEF ContainersAreMade, ContainersAreOwn
<1> HIDE DEF c
<1>2. ~BoxOwn(c)
  BY <1>1 DEF BoxOwn, Committed
<1>3. ASSUME BoxReplaced(c) PROVE rec[i].status \in {"deleting", "rebuilding"}
  <2>1. PICK q \in Runs : run[q].pc = "backend" /\ run[q].kind = "rebuild" /\ run[q].from = c
    BY <1>3, SMTT(60) DEF BoxReplaced
  <2>2. run[q].inst = run[q].src /\ (Gone(run[q].inst) \/ rec[run[q].inst].status \in Provisioning)
    BY <2>1 DEF SafeInv, RunOwnsRecord, RunHoldsStatus, Uncommitted
  <2>3. run[q].src = i
    BY <1>0, <1>1, <2>1 DEF ContainersAreOwn
  <2>4. QED
    BY <1>1, <2>2, <2>3 DEF Gone, Provisioning, Present
<1>4. ASSUME BoxDown(c) PROVE rec[i].status \in {"deleting", "rebuilding"}
  <2>1. PICK d \in Destroys : destroy[d].pc = "teardown" /\ c \in destroy[d].targets
    BY <1>4 DEF BoxDown
  <2>2. i \in destroy[d].scope
    BY <1>1, <2>1 DEF ContainersAreOwn
  <2>3. Gone(i)
    BY <2>1, <2>2 DEF SafeInv, DestroyKnowsTargets
  <2>4. QED
    BY <1>1, <2>3 DEF Gone, Present
<1>5. BoxReplaced(c) \/ BoxDown(c) => rec' = rec
  BY DEF BoxReplaced, BoxDown
<1>6. box'[c] = box[c] \/ BoxReplaced(c) \/ BoxDown(c) \/ BoxSwitched(c)
  BY <1>0, <1>2, BoxStep
<1>7. QED
  BY <1>3, <1>4, <1>5, <1>6 DEF c

\* A record that is gone stays gone while a run works on its name: nobody takes the name.
LEMMA GoneStays ==
    ASSUME Serial, SafeInv, [Next]_vars, NEW r \in Runs, run[r].pc \in Uncommitted, Gone(run[r].inst)
    PROVE  Gone(run[r].inst)'
<1> DEFINE i == run[r].inst
<1>0. TypeOK /\ i \in Instances /\ RunInFlight(r) /\ Gone(i)
  BY DEF SafeInv, TypeOK, RunType, RunInFlight, Uncommitted
<1>1. ~NameFree(i)
  BY <1>0 DEF NameFree, Free
<1>2. run'[r].inst = i
  BY <1>0, RunStays, SMTT(60) DEF RunInFlight
<1> HIDE DEF i
<1>3. rec'[i].status \in {"absent", "deleting"}
  BY <1>0, <1>1, RecordStep, SMTT(60) DEF RecordAccepted, RecordSettled, RecordSwitched, RecordEnded, Written, Gone, Provisioning
<1>4. QED
  BY <1>2, <1>3 DEF Gone

\* A run goes on holding the container it will commit, and a provisioning record its run.
LEMMA SettleKept ==
    ASSUME Serial, SafeInv, ContainersAreOwn, RunsSettle, [Next]_vars
    PROVE  RunsSettle'
<1>0. /\ TypeOK /\ ContainersAreMade
      /\ run \in [Runs -> RunType] /\ switch \in [Switches -> SwitchType]
  BY DEF SafeInv, TypeOK
<1>1. ASSUME NEW r \in Runs, run[r].pc \in {"built", "finishing"} PROVE box'[r] = "up"
  <2>1. box[r] = "up" /\ run[r].pc \notin Committed /\ r # NoContainer
    BY <1>1, LifecycleAssumption DEF RunsSettle, Committed
  <2>2. ~BoxOwn(r) /\ ~BoxReplaced(r) /\ ~BoxDown(r)
    BY <1>1, <2>1, <1>0, SMTT(60) DEF BoxOwn, BoxReplaced, BoxDown, ContainersAreMade
  <2>3. ~BoxSwitched(r)
    BY <2>1, SMTT(60) DEF BoxSwitched, ContainersAreOwn
  <2>4. QED
    BY <1>0, <2>1, <2>2, <2>3, BoxStep
<1>2. ASSUME NEW r \in Runs, run'[r].pc \in {"built", "finishing"} PROVE box'[r] = "up"
  <2>1. CASE run'[r].pc = run[r].pc
    BY <1>1, <1>2, <2>1
  <2>2. CASE RunMoved(r)
    <3>1. CASE run'[r].pc = "built"
      BY <2>2, <3>1 DEF RunMoved
    <3>2. CASE run'[r].pc = "finishing"
      BY <1>1, <2>2, <3>2 DEF RunMoved
    <3>3. QED
      BY <1>2, <3>1, <3>2
  <2>3. CASE RunLost(r)
    BY <1>0, <1>2, <2>1, <2>3 DEF RunLost, Lost, RunType
  <2>4. QED
    BY <1>0, <1>2, <2>1, <2>2, <2>3, RunStepOf DEF RunAccepted, RunCancelled
<1>3. ASSUME NEW r \in Runs, run'[r].pc = "discard" PROVE Gone(run[r].inst)'
  <2>1. CASE run'[r].pc = run[r].pc
    BY <1>3, <2>1, GoneStays DEF RunsSettle, Uncommitted
  <2>2. CASE RunMoved(r) /\ RunKept(r)
    BY <1>3, <2>2 DEF RunMoved, RunKept, Gone
  <2>3. CASE RunLost(r)
    BY <1>0, <1>3, <2>1, <2>3 DEF RunLost, Lost, RunType
  <2>4. QED
    BY <1>0, <1>3, <2>1, <2>2, <2>3, RunStepOf DEF RunAccepted, RunCancelled
<1>4. ASSUME daemon' = "serving", NEW r \in Runs, run'[r].pc \in Uncommitted PROVE run'[r].cause # "shutdown"
  <2>1. CASE daemon = "down" /\ run' = run
    BY <1>4, <2>1 DEF SafeInv, RunHoldsStatus
  <2>2. CASE daemon = "serving"
    <3>1. run[r].pc \in Uncommitted => run[r].cause # "shutdown"
      BY <2>2 DEF RunsSettle
    <3>2. CASE RunAccepted(r)
      BY <3>2 DEF RunAccepted
    <3>3. CASE RunCancelled(r) \/ RunMoved(r)
      BY <1>4, <3>1, <3>3 DEF RunCancelled, RunMoved
    <3>4. CASE run'[r] = run[r]
      BY <1>4, <3>1, <3>4
    <3>5. QED
      BY <1>0, <1>4, <3>2, <3>3, <3>4, RunStepOf DEF RunLost
  <2>3. QED
    BY <1>0, <1>4, <2>1, <2>2, ServingStep
<1>5. ASSUME daemon' = "serving", NEW i \in Instances, rec'[i].status \in Provisioning
      PROVE  \E r \in Runs : run'[r].pc \in Uncommitted /\ run'[r].inst = i
  <2>0. daemon = "serving"
    BY <1>0, <1>5, ServingStep
  <2>1. CASE RecordAccepted(i)
    BY <2>1 DEF RecordAccepted, Written, Uncommitted
  <2>2. CASE rec'[i] = rec[i]
    <3>1. PICK r \in Runs : run[r].pc \in Uncommitted /\ run[r].inst = i
      BY <1>5, <2>0, <2>2 DEF RunsSettle
    <3>2. ~Gone(i) /\ run[r].pc # "discard" /\ run[r].cause # "shutdown" /\ run[r].pc # "idle"
      BY <1>5, <2>0, <2>2, <3>1 DEF RunsSettle, Gone, Provisioning, Uncommitted
    <3>3. run'[r].inst = i
      BY <1>0, <3>1, <3>2, RunStays, SMTT(60)
    <3>4. run'[r].pc \in Uncommitted
      <4>1. CASE RunMoved(r) /\ RunLeaves(r)
        BY <1>5, <3>1, <3>2, <4>1 DEF RunLeaves
      <4>2. CASE RunCancelled(r)
        BY <3>1, <4>2, SMTT(60) DEF RunCancelled
      <4>3. QED
        BY <1>0, <1>5, <3>1, <3>2, <4>1, <4>2, RunStepOf, SMTT(60) DEF RunLost, RunAccepted
    <3>5. QED
      BY <3>3, <3>4
  <2>3. ~RecordSettled(i) /\ ~RecordEnded(i)
    BY <1>5 DEF RecordSettled, RecordEnded, Written, Provisioning
  <2>4. ~RecordSwitched(i)
    <3>1. \A s \in Switches : switch[s].to \in {"running", "stopped"}
      BY <1>0 DEF SwitchType
    <3>2. QED
      BY <1>5, <3>1 DEF RecordSwitched, Written, Provisioning
  <2>5. QED
    BY <1>0, <2>1, <2>2, <2>3, <2>4, RecordStep
<1>6. QED
  BY <1>2, <1>3, <1>4, <1>5 DEF RunsSettle

\* A start or stop under way goes on as the only one, with the record and the container
\* as it left them, unless a destroy takes them.
LEMMA HoldKept ==
    ASSUME Serial, SafeInv, ContainersAreOwn, SwitchHoldsRecord, [Next]_vars
    PROVE  SwitchHoldsRecord'
<1>0. /\ TypeOK /\ rec \in [Instances -> RecordType]
      /\ switch \in [Switches -> SwitchType]
  BY DEF SafeInv, TypeOK
<1>1. ASSUME NEW s \in Switches, SwitchInFlight(s)', ~SwitchLoaded(s)
      PROVE  /\ SwitchInFlight(s) /\ SwitchKept(s) /\ daemon # "down" /\ daemon' # "down"
             /\ switch'[s].pc = switch[s].pc \/ SwitchAnswered(s)
  <2>1. ~SwitchLost(s)
    BY <1>0, <1>1 DEF SwitchLost, Lost, SwitchType, SwitchPCs, SwitchInFlight
  <2>2. ~SwitchCommits(s)
    BY <1>1 DEF SwitchCommits, SwitchInFlight
  <2>3. \/ switch'[s] = switch[s] /\ (daemon' = "down" => daemon = "down")
        \/ SwitchKept(s) /\ SwitchAnswered(s)
    BY <1>0, <1>1, <2>1, <2>2, SwitchStepOf
  <2>4. SwitchInFlight(s) /\ SwitchKept(s)
    BY <1>1, <2>3 DEF SwitchInFlight, SwitchKept, SwitchAnswered
  <2>5. daemon # "down"
    BY <2>4 DEF SwitchHoldsRecord, Holding
  <2>6. daemon' # "down"
    BY <2>3, <2>5 DEF SwitchAnswered
  <2>7. QED
    BY <2>3, <2>4, <2>5, <2>6
<1>2. ASSUME NEW s \in Switches, SwitchLoaded(s)
      PROVE  LET i == switch'[s].inst
                 c == switch'[s].cid
             IN  /\ daemon' # "down"
                 /\ \A q \in Switches : SwitchInFlight(q)' /\ switch'[q].inst = i => q = s
                 /\ rec'[i].cid = c
                 /\ rec'[i].status = IF switch'[s].to = "stopped" THEN "running" ELSE "stopped"
                 /\ switch'[s].pc # "switched"
  <2>1. ASSUME NEW q \in Switches, SwitchInFlight(q)', switch'[q].inst = switch'[s].inst, q # s PROVE FALSE
    <3>1. switch'[q] = switch[q] /\ Unswitched(switch'[s].inst)
      BY <1>2, <2>1 DEF SwitchLoaded
    <3>2. SwitchInFlight(q)
      BY <2>1, <3>1 DEF SwitchInFlight
    <3>3. QED
      BY <2>1, <3>1, <3>2 DEF Unswitched
  <2>2. QED
    BY <1>2, <2>1 DEF SwitchLoaded
<1>3. ASSUME NEW s \in Switches, SwitchInFlight(s)', ~SwitchLoaded(s), NEW q \in Switches,
             SwitchInFlight(q)', switch'[q].inst = switch'[s].inst
      PROVE  q = s
  <2>1. SwitchInFlight(s) /\ switch'[s].inst = switch[s].inst
    BY <1>1, <1>3 DEF SwitchKept
  <2>2. CASE SwitchLoaded(q)
    BY <1>2, <1>3, <2>2, SMTT(60)
  <2>3. CASE ~SwitchLoaded(q)
    <3>1. SwitchInFlight(q) /\ switch'[q].inst = switch[q].inst
      BY <1>1, <1>3, <2>3, SMTT(60) DEF SwitchKept
    <3>2. QED
      BY <1>3, <2>1, <3>1, SMTT(60) DEF SwitchHoldsRecord, Holding
  <2>4. QED
    BY <2>2, <2>3
<1>4. ASSUME NEW s \in Switches, SwitchInFlight(s)', ~SwitchLoaded(s), ~Gone(switch[s].inst)'
      PROVE  rec'[switch[s].inst] = rec[switch[s].inst]
  <2> DEFINE i == switch[s].inst
  <2>0. /\ i \in Instances /\ SwitchInFlight(s) /\ switch'[s].inst = i /\ daemon # "down"
    BY <1>0, <1>1, <1>4, SMTT(60) DEF SwitchType, SwitchKept
  <2>1. ~RecordAccepted(i)
    <3>1. ~NameFree(i) /\ ~Unswitched(i)
      BY <2>0 DEF NameFree, Free, Unswitched
    <3>2. QED
      BY <3>1 DEF RecordAccepted
  <2>2. ~RecordSettled(i)
    <3>1. \A r \in Runs : run[r].pc \in Uncommitted => run[r].inst # i
      BY <2>0 DEF SafeInv, RunHoldsStatus
    <3>2. QED
      BY <3>1 DEF RecordSettled, Uncommitted
  <2>3. ~RecordSwitched(i)
    <3>1. ASSUME NEW q \in Switches, switch[q].pc = "switched", switch[q].inst = i PROVE q = s
      BY <2>0, <3>1 DEF SwitchHoldsRecord, Holding, SwitchInFlight
    <3>2. switch'[s].pc # "done"
      BY <1>4 DEF SwitchInFlight
    <3>3. QED
      BY <3>1, <3>2 DEF RecordSwitched
  <2>4. ~RecordEnded(i)
    BY <1>4, <2>0, SMTT(60) DEF RecordEnded, Written, Gone
  <2>5. QED
    BY <1>0, <2>0, <2>1, <2>2, <2>3, <2>4, RecordStep, SMTT(60)
<1>5. ASSUME NEW s \in Switches, SwitchInFlight(s)', ~SwitchLoaded(s), ~Gone(switch[s].inst)',
             switch'[s].pc = "switched"
      PROVE  LET c == switch[s].cid IN
             Exists(c) /\ box'[c] = IF switch[s].to = "running" THEN "up" ELSE "stopped"
  <2> DEFINE i == switch[s].inst
             c == switch[s].cid
  <2>1. CASE SwitchAnswered(s)
    BY <1>5, <2>1 DEF SwitchAnswered
  <2>2. CASE switch[s].pc = "switched"
    <3>0. i \in Instances /\ SwitchInFlight(s) /\ switch'[s].inst = i
      BY <1>0, <1>1, <1>5, SMTT(60) DEF SwitchType, SwitchKept
    <3>1. ~Gone(i)
      BY <1>4, <1>5, <3>0, SMTT(60) DEF Gone
    <3>2. /\ rec[i].cid = c /\ rec[i].status \notin {"deleting", "rebuilding"}
          /\ Exists(c) /\ box[c] = IF switch[s].to = "running" THEN "up" ELSE "stopped"
      BY <2>2, <3>0, <3>1 DEF SwitchHoldsRecord, Holding
    <3>3. c \in Runs /\ c # NoContainer
      BY <3>2, LifecycleAssumption DEF Exists
    <3>4. ASSUME NEW q \in Switches, switch[q].pc = "loaded", switch[q].cid = c PROVE FALSE
      <4>1. switch[q].inst = i
        BY <3>3, <3>4, SMTT(60) DEF ContainersAreOwn
      <4>2. q = s
        BY <3>0, <3>4, <4>1, SMTT(60) DEF SwitchHoldsRecord, Holding, SwitchInFlight
      <4>3. QED
        BY <2>2, <3>4, <4>2, SMTT(60)
    <3>5. ~BoxSwitched(c)
      BY <3>4, SMTT(60) DEF BoxSwitched
    <3>6. box'[c] = box[c]
      BY <3>0, <3>2, <3>3, <3>5, RecordBox
    <3>7. QED
      BY <3>2, <3>6, SMTT(60)
  <2>3. QED
    BY <1>1, <1>5, <2>1, <2>2
<1>6. ASSUME NEW s \in Switches, SwitchInFlight(s)' PROVE Holding(s)'
  <2>1. CASE SwitchLoaded(s)
    <3>1. /\ daemon' # "down"
          /\ \A q \in Switches : SwitchInFlight(q)' /\ switch'[q].inst = switch'[s].inst => q = s
          /\ rec'[switch'[s].inst].cid = switch'[s].cid
          /\ rec'[switch'[s].inst].status = IF switch'[s].to = "stopped" THEN "running" ELSE "stopped"
          /\ switch'[s].pc # "switched"
      BY <1>2, <2>1
    <3>2. QED
      BY <3>1 DEF Holding
  <2>2. CASE ~SwitchLoaded(s)
    <3>1. /\ SwitchInFlight(s) /\ Holding(s) /\ daemon' # "down"
          /\ switch'[s].inst = switch[s].inst /\ switch'[s].cid = switch[s].cid /\ switch'[s].to = switch[s].to
      BY <1>1, <1>6, <2>2 DEF SwitchKept, SwitchHoldsRecord
    <3>2. \A q \in Switches : SwitchInFlight(q)' /\ switch'[q].inst = switch'[s].inst => q = s
      BY <1>3, <1>6, <2>2, SMTT(60)
    <3>3. CASE Gone(switch[s].inst)'
      BY <3>1, <3>2, <3>3, SMTT(60) DEF Holding
    <3>4. CASE ~Gone(switch[s].inst)'
      <4>1. rec'[switch[s].inst] = rec[switch[s].inst]
        BY <1>4, <1>6, <2>2, <3>4
      <4>2. ~Gone(switch[s].inst)
        BY <3>1, <3>4, <4>1, SMTT(60) DEF Gone
      <4>3. /\ rec[switch[s].inst].cid = switch[s].cid
            /\ rec[switch[s].inst].status = IF switch[s].to = "stopped" THEN "running" ELSE "stopped"
        BY <3>1, <4>2, SMTT(60) DEF Holding
      <4>4. switch'[s].pc = "switched" =>
              /\ Exists(switch[s].cid)'
              /\ box'[switch[s].cid] = IF switch[s].to = "running" THEN "up" ELSE "stopped"
        BY <1>5, <1>6, <2>2, <3>1, <3>4, SMTT(60) DEF Exists
      <4>5. QED
        BY <3>1, <3>2, <4>1, <4>3, <4>4 DEF Holding
    <3>5. QED
      BY <3>3, <3>4
  <2>3. QED
    BY <2>1, <2>2, SMTT(60)
<1>7. QED
  BY <1>6 DEF SwitchHoldsRecord

\* A record goes on saying what its container is, but between the two halves of a start or
\* stop.
LEMMA TrueKept ==
    ASSUME SafeInv, ContainersAreOwn, RunsSettle, SwitchHoldsRecord, RecordsAreTrue, [Next]_vars
    PROVE  RecordsAreTrue'
<1>0. /\ TypeOK /\ rec \in [Instances -> RecordType]
      /\ switch \in [Switches -> SwitchType]
  BY SMTT(60) DEF SafeInv, TypeOK
<1> SUFFICES ASSUME NEW i \in Instances,
                    \A s \in Switches : switch'[s].pc \in {"switched", "lost"} => switch'[s].inst # i
             PROVE  Truthful(i)'
  BY SMTT(60) DEF RecordsAreTrue
<1>1. ASSUME NEW s \in Switches, switch[s].pc = "switched", switch[s].inst = i, ~Gone(i)
      PROVE  /\ rec[i].cid \in Runs
             /\ box[rec[i].cid] = IF switch[s].to = "running" THEN "up" ELSE "stopped"
  BY <1>1, SMTT(60) DEF SwitchHoldsRecord, Holding, SwitchInFlight, Exists
<1>2. CASE RecordAccepted(i) \/ RecordEnded(i)
  BY <1>2 DEF RecordAccepted, RecordEnded, Written, Truthful
<1>3. CASE RecordSettled(i)
  BY <1>3, SMTT(60) DEF RecordSettled, Written, Truthful, RunsSettle, Exists
<1>4. CASE RecordSwitched(i)
  <2>1. PICK s \in Switches : /\ switch[s].pc = "switched" /\ switch[s].inst = i
                              /\ Written(i, switch[s].to, rec[i].cid)
    BY <1>4, SMTT(60) DEF RecordSwitched
  <2>2. /\ rec[i].cid \in Runs /\ switch[s].to \in {"running", "stopped"}
        /\ box'[rec[i].cid] = IF switch[s].to = "running" THEN "up" ELSE "stopped"
    BY <1>0, <1>1, <1>4, <2>1 DEF RecordSwitched, SwitchType
  <2>3. QED
    BY <2>1, <2>2, SMTT(60) DEF Written, Truthful, Exists
<1>5. CASE rec'[i] = rec[i] /\ rec[i].status \in {"running", "stopped"}
  <2>1. ~Gone(i)
    BY <1>5, SMTT(60) DEF Gone
  <2>2. CASE \A s \in Switches : switch[s].pc \in {"switched", "lost"} => switch[s].inst # i
    <3>1. rec[i].cid \in Runs /\ rec[i].cid # NoContainer /\ Truthful(i)
      BY <1>5, <2>2, LifecycleAssumption, SMTT(60) DEF RecordsAreTrue, Truthful, Exists
    <3>2. ~BoxSwitched(rec[i].cid)
      BY <3>1, SMTT(60) DEF BoxSwitched, ContainersAreOwn
    <3>3. box'[rec[i].cid] = box[rec[i].cid]
      BY <1>5, <3>1, <3>2, RecordBox
    <3>4. QED
      BY <1>5, <3>1, <3>3, SMTT(60) DEF Truthful, Exists
  <2>3. ASSUME NEW s \in Switches, switch[s].pc \in {"switched", "lost"}, switch[s].inst = i PROVE Truthful(i)'
    <3>1. ~SwitchLoaded(s) /\ ~SwitchAnswered(s) /\ switch'[s] # switch[s]
      BY <2>3 DEF SwitchLoaded, SwitchAnswered
    <3>2. SwitchKept(s) /\ (SwitchCommits(s) \/ SwitchLost(s))
      BY <1>0, <3>1, SwitchStepOf
    <3>3. ~SwitchLost(s)
      BY <1>0, <2>3, <3>1, <3>2 DEF SwitchLost, SwitchKept, Lost, SwitchType
    <3>4. SwitchCommits(s) /\ ~Gone(switch[s].inst)
      BY <2>1, <2>3, <3>2, <3>3, SMTT(60)
    <3>5. /\ switch[s].pc = "switched" /\ Written(i, switch[s].to, rec[i].cid) /\ box' = box
          /\ switch[s].to \in {"running", "stopped"}
      BY <1>0, <2>3, <3>4, SMTT(60) DEF SwitchCommits, SwitchType
    <3>6. rec[i].cid \in Runs /\ box'[rec[i].cid] = IF switch[s].to = "running" THEN "up" ELSE "stopped"
      BY <1>1, <2>1, <2>3, <3>5
    <3>7. QED
      BY <3>5, <3>6, SMTT(60) DEF Written, Truthful, Exists
  <2>4. QED
    BY <2>2, <2>3, SMTT(60)
<1>6. CASE rec'[i] = rec[i] /\ rec[i].status \notin {"running", "stopped"}
  BY <1>6 DEF Truthful
<1>7. QED
  BY <1>0, <1>2, <1>3, <1>4, <1>5, <1>6, RecordStep

\* With nothing accepted yet there is no record, run, container, destroy or switch to hold.
LEMMA RecordInit ==
    ASSUME Init
    PROVE  RecordInv
<1>1. SafeInv
  BY SafeInit, SMTT(60)
<1>2. ContainersAreOwn
  BY LifecycleAssumption, SMTT(60) DEF Init, ContainersAreOwn
<1>3. RunsSettle
  BY SMTT(60) DEF Init, RunsSettle, Uncommitted, Provisioning
<1>4. SwitchHoldsRecord
  BY SMTT(60) DEF Init, SwitchHoldsRecord, SwitchInFlight
<1>5. RecordsAreTrue
  BY DEF Init, RecordsAreTrue, Truthful
<1>6. QED
  BY <1>1, <1>2, <1>3, <1>4, <1>5 DEF RecordInv

\* Every step keeps RecordInv.
LEMMA RecordNext == ASSUME Serial, RecordInv, [Next]_vars PROVE RecordInv'
  BY SafeNext, OwnKept, SettleKept, HoldKept, TrueKept DEF RecordInv

\* RecordInv holds throughout.
LEMMA RecordAlways == ASSUME Serial PROVE Spec => []RecordInv
<1>1. Init => RecordInv
  BY RecordInit
<1>2. RecordInv /\ [Next]_vars => RecordInv'
  BY RecordNext
<1>3. QED
  BY <1>1, <1>2, PTL DEF Spec

\* No container on a record is torn down but by a destroy or a rebuild of its instance: not
\* by a late run, a destroy of another instance, a shutdown or a restart.
THEOREM NothingOnRecordIsLost == ASSUME Serial PROVE Spec => NoDataLoss
<1>1. ASSUME RecordInv, [Next]_vars, NEW i \in Instances, NEW c \in Runs,
             rec[i].cid = c, box'[c] = "gone", Exists(c)
      PROVE  rec[i].status \in {"deleting", "rebuilding"}
  <2>1. ~BoxSwitched(c) /\ box'[c] # box[c]
    BY <1>1 DEF BoxSwitched, Exists
  <2>2. QED
    BY <1>1, <2>1, RecordBox DEF RecordInv
<1>2. RecordInv /\ [Next]_vars =>
        [\A i \in Instances, c \in Runs :
            rec[i].cid = c /\ Exists(c) /\ box'[c] = "gone"
               => rec[i].status \in {"deleting", "rebuilding"}]_vars
  BY <1>1
<1>3. QED
  BY <1>2, RecordAlways, PTL DEF Spec, NoDataLoss

\* While the daemon serves, a record that says creating, cloning or rebuilding has a run at
\* work on it: no error, cancel, shutdown or restart leaves one that nobody will settle.
THEOREM ProvisioningIsWorkedOn == ASSUME Serial PROVE Spec => []ProvisioningHasRun
<1>1. RecordInv => ProvisioningHasRun
  <2>1. Uncommitted \cap {"idle", "exited", "lost"} = {}
    BY DEF Uncommitted
  <2>2. QED
    BY <2>1 DEF RecordInv, RunsSettle, ProvisioningHasRun, RunInFlight
<1>2. QED
  BY <1>1, RecordAlways, PTL

\* A record at rest says what its container is, unless the daemon died between a start or
\* stop and its commit.
THEOREM SettledRecordsAreTrue == ASSUME Serial PROVE Spec => []SettledRecordIsTrue
<1>1. RecordInv => SettledRecordIsTrue
  BY DEF RecordInv, RecordsAreTrue, SettledRecordIsTrue, Free, SwitchInFlight
<1>2. QED
  BY <1>1, RecordAlways, PTL
=============================================================================
