------------------------- MODULE KubeRecoveryProofs -------------------------
(***************************************************************************)
(* Nothing on the cluster is forgotten, a live job has its journal, and    *)
(* the background pass spares the living, for any number of creates and    *)
(* of events.                                                              *)
(***************************************************************************)
EXTENDS KubeRecovery, TLAPS

-----------------------------------------------------------------------------
(* Types.                                                                  *)

\* The absent record, job and pass have their types.
LEMMA NoneTyped == NoRec \in RecType /\ NoJob \in JobType /\ NoPass \in PassType
<1>1. NoRec \in RecType
  BY DEF NoRec, RecType, Statuses, Errors
<1>2. NoJob \in JobType
  BY DEF NoJob, JobType, JobSteps, JobOps
<1>3. NoPass \in PassType
  BY <1>1 DEF NoPass, PassType, Journals
<1>4. QED
  BY <1>1, <1>2, <1>3

\* No job but key k's has changed.
Moved(k) == job' \in [Keys -> JobType] /\ \A j \in Keys \ {k} : job'[j] = job[j]

\* Goto moves key k's job, and no other.
LEMMA GotoMoves ==
    ASSUME TypeOK, NEW k \in Keys, NEW pc \in JobSteps, NEW op \in JobOps, Goto(k, pc, op)
    PROVE  Moved(k) /\ job'[k].pc = pc
<1>1. job \in [Keys -> JobType]
  BY DEF TypeOK
<1>2. [pc |-> pc, op |-> op, cancelled |-> job[k].cancelled] \in JobType
  BY <1>1 DEF JobType
<1>3. QED
  BY <1>1, <1>2 DEF Goto, Moved

\* Done ends key k's job, and no other.
LEMMA DoneMoves ==
    ASSUME TypeOK, NEW k \in Keys, Done(k)
    PROVE  Moved(k) /\ job'[k].pc = "none"
<1>1. job \in [Keys -> JobType]
  BY DEF TypeOK
<1>2. NoJob \in JobType /\ NoJob.pc = "none"
  BY NoneTyped DEF NoJob
<1>3. QED
  BY <1>1, <1>2 DEF Done, Moved

\* A job's fields have their types.
LEMMA JobTyped ==
    ASSUME TypeOK, NEW k \in Keys
    PROVE  job[k].pc \in JobSteps /\ job[k].op \in JobOps /\ job[k].cancelled \in BOOLEAN
<1>1. job[k] \in JobType
  BY DEF TypeOK
<1>2. QED
  BY <1>1 DEF JobType

\* The names the code's steps use are job steps.
LEMMA StepNames ==
    /\ {"none", "begin", "apply", "clear", "finish", "commit", "abandon", "retry", "load", "mirror", "make",
        "reset", "seed", "launch", "await", "rollback", "clean", "record"} \subseteq JobSteps
    /\ {"none", "create", "rebuild", "undo", "redo", "revert", "fail"} \subseteq JobOps
  BY DEF JobSteps, JobOps

\* Setting the record's status keeps its key, and so does an outcome.
LEMMA SettledTyped ==
    ASSUME TypeOK, NEW s \in Statuses
    PROVE  /\ [rec EXCEPT !.status = s] \in RecType
           /\ [rec EXCEPT !.status = s].key = rec.key /\ [rec EXCEPT !.status = s].status = s
           /\ rec.ran \in BOOLEAN
           /\ \A e \in Errors, b \in BOOLEAN :
                Settled(s, e, b) \in RecType /\ Settled(s, e, b).key = rec.key /\ Settled(s, e, b).status = s
<1>1. rec \in RecType
  BY DEF TypeOK
<1>2. [rec EXCEPT !.status = s] \in RecType
  BY <1>1 DEF RecType
<1>3. [rec EXCEPT !.status = s].key = rec.key /\ [rec EXCEPT !.status = s].status = s
  BY <1>1 DEF RecType
<1>4. \A e \in Errors, b \in BOOLEAN :
        Settled(s, e, b) \in RecType /\ Settled(s, e, b).key = rec.key /\ Settled(s, e, b).status = s
  BY <1>1 DEF RecType, Settled
<1>5. rec.ran \in BOOLEAN
  BY <1>1 DEF RecType
<1>6. QED
  BY <1>2, <1>3, <1>4, <1>5

\* The names of statuses and errors.
LEMMA StatusNames ==
    {"creating", "running", "rebuilding", "failed", "deleting"} \subseteq Statuses /\ {"none", "undoing", "other"} \subseteq Errors
  BY DEF Statuses, Errors

\* The cluster's variables have their types.
LEMMA ClusterTyped ==
    ASSUME TypeOK
    PROVE  /\ objs \in [Keys -> SUBSET {"base", "next"}] /\ mark \in [Keys -> BOOLEAN]
           /\ root \in [Keys -> {"none", "whole", "mixed", "next"}]
  BY DEF TypeOK

\* DeleteAll deletes key k's objects, and no other's.
LEMMA DeletesAll ==
    ASSUME TypeOK, NEW k \in Keys, DeleteAll(k)
    PROVE  /\ objs' \in [Keys -> SUBSET {"base", "next"}] /\ mark' \in [Keys -> BOOLEAN]
           /\ root' \in [Keys -> {"none", "whole", "mixed", "next"}]
           /\ objs'[k] = {} /\ \A j \in Keys \ {k} : objs'[j] = objs[j]
  BY ClusterTyped DEF DeleteAll

-----------------------------------------------------------------------------
(* The provisioning jobs.                                                  *)

\* The journal a job at pc must have.
Journaled(pc, file) ==
    /\ pc \in {"apply", "mirror", "make", "reset", "await", "rollback", "clean"} => file # "none"
    /\ pc \in {"seed", "launch"} => file = "reset"

\* What a step of key k's job may change.
JobEffect(k) ==
    /\ TypeOK'
    /\ rec'.key = rec.key /\ (rec'.status = "deleting" <=> rec.status = "deleting")
    /\ UNCHANGED <<minted, tomb, destroy, pass>>
    /\ \A j \in Keys \ {k} : job'[j] = job[j] /\ journal'[j] = journal[j] /\ objs'[j] = objs[j]
    /\ job'[k].pc = "abandon" => rec.status = "deleting"
    /\ Journaled(job'[k].pc, journal'[k])

\* A key with a job is the record's, which has no tombstone, read or not, and no teardown.
LEMMA Working ==
    ASSUME RecoveryInv, NEW k \in Keys, ~At(k, "none")
    PROVE  rec.key = k /\ tomb[k] = 0 /\ pass.tombs[k] = 0 /\ destroy[k] \notin {"down", "remove"}
  BY DEF RecoveryInv, JobsOfTheRecord, TombstonesAreFinal

\* A step of the record's key's job keeps the invariant.
LEMMA JobKeeps ==
    ASSUME RecoveryInv, NEW k \in Keys, JobEffect(k), rec.key = k, tomb[k] = 0, pass.tombs[k] = 0,
           destroy[k] \notin {"down", "remove"}
    PROVE  RecoveryInv'
<1>1. k <= minted /\ minted \in Nat /\ Keys \subseteq Nat
  BY DEF RecoveryInv, Fresh, Keys, TypeOK
<1>2. Fresh'
  BY <1>1 DEF RecoveryInv, Fresh, JobEffect
<1>3. JobsOfTheRecord'
  BY DEF RecoveryInv, JobsOfTheRecord, JobEffect, At
<1>4. TombstonesAreFinal'
  BY DEF RecoveryInv, TombstonesAreFinal, JobEffect, At
<1>5. PassReads'
  BY DEF RecoveryInv, PassReads, JobEffect
<1>6. ObjectsAreKnown'
  BY DEF RecoveryInv, ObjectsAreKnown, JobEffect
<1>7. JournaledJobs'
  BY DEF RecoveryInv, JournaledJobs, JobEffect, Journaled
<1>8. QED
  BY <1>2, <1>3, <1>4, <1>5, <1>6, <1>7 DEF RecoveryInv, JobEffect

\* A create's steps.
LEMMA CreateSteps ==
    ASSUME RecoveryInv, NEW k \in Keys, Begin(k) \/ Apply(k) \/ ClearMark(k) \/ Finish(k)
    PROVE  JobEffect(k)
<1> USE DEF others, cluster
<1>0. TypeOK
  BY DEF RecoveryInv
<1>1. CASE Begin(k)
  <2>1. /\ Moved(k)
        /\ \/ job'[k].pc = "apply" /\ journal' = [journal EXCEPT ![k] = "create"]
           \/ job'[k].pc = "commit" /\ UNCHANGED journal
    BY <1>0, <1>1, GotoMoves, StepNames DEF Begin
  <2>2. journal' \in [Keys -> Journals]
    BY <1>0, <2>1 DEF TypeOK, Journals
  <2>3. TypeOK'
    BY <1>0, <1>1, <2>1, <2>2 DEF TypeOK, Begin, Moved
  <2>4. QED
    BY <1>0, <1>1, <2>1, <2>3 DEF JobEffect, Journaled, Moved, Begin, TypeOK
<1>2. CASE Apply(k)
  <2>1. Moved(k) /\ job'[k].pc = "clear"
    BY <1>0, <1>2, GotoMoves, StepNames DEF Apply
  <2>2. /\ objs' \in [Keys -> SUBSET {"base", "next"}] /\ mark' \in [Keys -> BOOLEAN]
        /\ root' \in [Keys -> {"none", "whole", "mixed", "next"}]
        /\ \A j \in Keys \ {k} : objs'[j] = objs[j]
    <3>1. CASE UNCHANGED cluster
      BY <1>0, <3>1 DEF TypeOK
    <3>2. CASE /\ objs' = [objs EXCEPT ![k] = {"base"}] /\ mark' = [mark EXCEPT ![k] = TRUE]
               /\ root' = [root EXCEPT ![k] = "whole"]
      BY <1>0, <3>2, ClusterTyped
    <3>3. QED
      BY <1>2, <3>1, <3>2 DEF Apply
  <2>3. TypeOK'
    BY <1>0, <1>2, <2>1, <2>2 DEF TypeOK, Apply, Moved
  <2>4. QED
    BY <1>2, <2>1, <2>2, <2>3 DEF JobEffect, Journaled, Moved, Apply
<1>3. CASE ClearMark(k)
  <2>1. Moved(k) /\ job'[k].pc = "finish"
    BY <1>0, <1>3, GotoMoves, StepNames, JobTyped DEF ClearMark
  <2>2. mark' \in [Keys -> BOOLEAN]
    <3>1. PICK m \in {mark[k], mark[k] /\ ~usable} : mark' = [mark EXCEPT ![k] = m]
      BY <1>3, ZenonT(60) DEF ClearMark
    <3>2. m \in BOOLEAN
      BY <1>0, <3>1, ZenonT(60) DEF TypeOK
    <3>3. QED
      BY <1>0, <3>1, <3>2, ClusterTyped
  <2>3. TypeOK'
    BY <1>0, <1>3, <2>1, <2>2 DEF TypeOK, ClearMark, Moved
  <2>4. QED
    BY <1>3, <2>1, <2>3 DEF JobEffect, Journaled, Moved, ClearMark
<1>4. CASE Finish(k)
  <2>1. Moved(k) /\ job'[k].pc = "commit"
    BY <1>0, <1>4, GotoMoves, StepNames, JobTyped DEF Finish
  <2>2. /\ objs' \in [Keys -> SUBSET {"base", "next"}] /\ (\A j \in Keys \ {k} : objs'[j] = objs[j])
        /\ root' \in [Keys -> {"none", "whole", "mixed", "next"}]
        /\ journal' \in [Keys -> Journals] /\ (\A j \in Keys \ {k} : journal'[j] = journal[j])
    BY <1>0, <1>4 DEF TypeOK, Finish, Journals
  <2>3. TypeOK'
    BY <1>0, <1>4, <2>1, <2>2 DEF TypeOK, Finish, Moved
  <2>4. QED
    BY <1>4, <2>1, <2>2, <2>3 DEF JobEffect, Journaled, Moved, Finish
<1>5. QED
  BY <1>1, <1>2, <1>3, <1>4

\* The outcome goes on the record, which a destroy keeps.
LEMMA CommitSteps == ASSUME RecoveryInv, NEW k \in Keys, Commit(k) PROVE JobEffect(k)
<1> USE DEF others, cluster
<1>0. TypeOK
  BY DEF RecoveryInv
<1>1. Moved(k) /\ (job'[k].pc = "none" \/ (job'[k].pc = "abandon" /\ ~Settles))
  BY <1>0, GotoMoves, DoneMoves, StepNames, JobTyped DEF Commit
<1>2. rec.key = k /\ rec.key # NoKey
  BY Working DEF Commit, At, Keys, NoKey
<1>3. rec' \in RecType /\ rec'.key = rec.key /\ (rec'.status = "deleting" <=> rec.status = "deleting")
  <2>1. CASE ~Settles
    BY <1>0, <2>1 DEF Commit, TypeOK
  <2>2. CASE Settles
    <3>1. (rec.ran \/ job[k].op # "fail") \in BOOLEAN
      BY <1>0, SettledTyped, StatusNames, ZenonT(60)
    <3>2. PICK s \in {"failed", "running"}, e \in Errors, b \in BOOLEAN : rec' = Settled(s, e, b)
      BY <2>2, <3>1, StatusNames, ZenonT(60) DEF Commit
    <3>3. s \in Statuses /\ s # "deleting"
      BY StatusNames
    <3>4. rec' \in RecType /\ rec'.key = rec.key /\ rec'.status = s
      BY <1>0, <3>2, <3>3, SettledTyped, ZenonT(60)
    <3>5. QED
      BY <2>2, <3>3, <3>4, ZenonT(60) DEF Settles
  <2>3. QED
    BY <2>1, <2>2
<1>4. UNCHANGED <<journal, cluster, others, budget>>
  BY DEF Commit
<1>5. TypeOK'
  BY <1>0, <1>1, <1>3, <1>4 DEF TypeOK, Moved
<1>6. job'[k].pc = "abandon" => rec.status = "deleting"
  BY <1>1, <1>2 DEF Settles
<1>7. Journaled(job'[k].pc, journal'[k])
  BY <1>1 DEF Journaled
<1>8. QED
  BY <1>1, <1>3, <1>4, <1>5, <1>6, <1>7 DEF JobEffect, Moved

\* No journal, object, mark or root but key k's has changed.
Touched(k) ==
    /\ journal' \in [Keys -> Journals] /\ objs' \in [Keys -> SUBSET {"base", "next"}]
    /\ mark' \in [Keys -> BOOLEAN] /\ root' \in [Keys -> {"none", "whole", "mixed", "next"}]
    /\ \A j \in Keys \ {k} : journal'[j] = journal[j] /\ objs'[j] = objs[j]

\* What a step that keeps to key k comes to.
LEMMA Effect ==
    ASSUME TypeOK, NEW k \in Keys, Moved(k), Touched(k), others' = others, budget' \in 0..MaxEvents,
           rec' \in RecType, rec'.key = rec.key, rec'.status = "deleting" <=> rec.status = "deleting",
           job'[k].pc # "abandon", Journaled(job'[k].pc, journal'[k])
    PROVE  JobEffect(k)
<1>1. TypeOK'
  BY DEF TypeOK, Moved, Touched, others
<1>2. QED
  BY <1>1 DEF JobEffect, Moved, Touched, others

\* A step that leaves the record alone.
LEMMA QuietEffect ==
    ASSUME TypeOK, NEW k \in Keys, Moved(k), Touched(k), rec' = rec, others' = others, budget' = budget,
           job'[k].pc # "abandon", Journaled(job'[k].pc, journal'[k])
    PROVE  JobEffect(k)
<1>1. rec \in RecType /\ budget \in 0..MaxEvents
  BY DEF TypeOK
<1>2. QED
  BY <1>1, Effect

\* A step that leaves journals and cluster alone touches nothing.
LEMMA Untouched == ASSUME TypeOK, NEW k \in Keys, UNCHANGED <<journal, cluster>> PROVE Touched(k)
  BY DEF TypeOK, Touched, cluster

\* One that only writes the key's journal.
LEMMA TouchedJournal ==
    ASSUME TypeOK, NEW k \in Keys, NEW f \in Journals, journal' = [journal EXCEPT ![k] = f], UNCHANGED cluster
    PROVE  Touched(k) /\ journal'[k] = f
<1>1. journal \in [Keys -> Journals]
  BY DEF TypeOK
<1>2. journal' \in [Keys -> Journals] /\ journal'[k] = f /\ \A j \in Keys \ {k} : journal'[j] = journal[j]
  BY <1>1
<1>3. QED
  BY <1>2, ClusterTyped DEF Touched, cluster

\* A failed rebuild goes on to its undo, or ends.
LEMMA FailedMoves ==
    ASSUME TypeOK, NEW k \in Keys, Failed(k)
    PROVE  Moved(k) /\ job'[k].pc \in {"clear", "rollback"}
<1>1. Goto(k, "clear", "fail") \/ Goto(k, "rollback", "revert")
  BY DEF Failed
<1>2. QED
  BY <1>1, GotoMoves, StepNames

\* The steps of a rebuild that write a journal or only move on.
LEMMA LoadSteps ==
    ASSUME RecoveryInv, NEW k \in Keys, Load(k) \/ Reset(k)
    PROVE  JobEffect(k)
<1>0. TypeOK /\ {"none", "create", "rebuild", "reset"} \subseteq Journals
  BY DEF RecoveryInv, Journals
<1>1. CASE Load(k)
  <2>1. /\ Moved(k)
        /\ \/ job'[k].pc = "mirror" /\ journal' = [journal EXCEPT ![k] = "rebuild"]
           \/ job'[k].pc = "rollback" /\ journal[k] # "none" /\ UNCHANGED journal
           \/ job'[k].pc = "commit" /\ UNCHANGED journal
    <3>1. \/ Goto(k, "mirror", "rebuild") /\ journal' = [journal EXCEPT ![k] = "rebuild"]
          \/ Goto(k, "rollback", "redo") /\ journal[k] # "none" /\ UNCHANGED journal
          \/ Goto(k, "commit", "fail") /\ UNCHANGED journal
      BY <1>1 DEF Load
    <3>2. QED
      BY <1>0, <3>1, GotoMoves, StepNames
  <2>2. rec' = rec /\ cluster' = cluster /\ others' = others /\ budget' = budget
    BY <1>1 DEF Load
  <2>3. Touched(k) /\ (job'[k].pc = "mirror" => journal'[k] = "rebuild")
    BY <1>0, <2>1, <2>2, Untouched, TouchedJournal
  <2>4. Journaled(job'[k].pc, journal'[k]) /\ job'[k].pc # "abandon"
    BY <2>1, <2>3 DEF Journaled
  <2>5. QED
    BY <1>0, <2>1, <2>2, <2>3, <2>4, QuietEffect
<1>2. CASE Reset(k)
  <2>1. journal[k] # "none"
    BY <1>2 DEF Reset, At, RecoveryInv, JournaledJobs
  <2>2. /\ Moved(k)
        /\ \/ job'[k].pc = "seed" /\ journal' = [journal EXCEPT ![k] = "reset"]
           \/ job'[k].pc \in {"clear", "rollback"} /\ UNCHANGED journal
    <3>1. \/ Goto(k, "seed", "rebuild") /\ journal' = [journal EXCEPT ![k] = "reset"]
          \/ Failed(k) /\ UNCHANGED journal
      BY <1>2 DEF Reset
    <3>2. QED
      BY <1>0, <3>1, GotoMoves, FailedMoves, StepNames
  <2>3. rec' = rec /\ cluster' = cluster /\ others' = others /\ budget' = budget
    BY <1>2 DEF Reset
  <2>4. Touched(k) /\ (job'[k].pc = "seed" => journal'[k] = "reset")
    BY <1>0, <2>2, <2>3, Untouched, TouchedJournal
  <2>5. Journaled(job'[k].pc, journal'[k]) /\ job'[k].pc # "abandon"
    BY <2>1, <2>2, <2>4 DEF Journaled
  <2>6. QED
    BY <1>0, <2>2, <2>3, <2>4, <2>5, QuietEffect
<1>3. QED
  BY <1>1, <1>2

\* What deleting a key's objects touches.
LEMMA TouchedDelete ==
    ASSUME TypeOK, NEW k \in Keys, DeleteByKey(k)
    PROVE  Touched(k)
<1>1. CASE usable
  <2>1. journal \in [Keys -> Journals] /\ "none" \in Journals
    BY DEF TypeOK, Journals
  <2>2. DeleteAll(k) /\ journal' = [journal EXCEPT ![k] = "none"]
    BY <1>1 DEF DeleteByKey
  <2>3. journal' \in [Keys -> Journals] /\ \A j \in Keys \ {k} : journal'[j] = journal[j]
    BY <2>1, <2>2
  <2>4. QED
    BY <2>2, <2>3, DeletesAll DEF Touched
<1>2. CASE ~usable
  BY <1>2, Untouched DEF DeleteByKey
<1>3. QED
  BY <1>1, <1>2

\* Setting a key's root keeps the type.
LEMMA RootTyped ==
    ASSUME TypeOK, NEW k \in Keys, NEW r \in {"none", "whole", "mixed", "next"},
           root' = root \/ root' = [root EXCEPT ![k] = r]
    PROVE  root' \in [Keys -> {"none", "whole", "mixed", "next"}]
  BY ClusterTyped

\* So does setting its mark.
LEMMA MarkTyped ==
    ASSUME TypeOK, NEW k \in Keys, NEW m \in BOOLEAN, mark' = mark \/ mark' = [mark EXCEPT ![k] = m]
    PROVE  mark' \in [Keys -> BOOLEAN]
  BY ClusterTyped

\* Roots and marks may change freely.
LEMMA TouchedRoot ==
    ASSUME TypeOK, NEW k \in Keys, journal' = journal, objs' = objs,
           root' \in [Keys -> {"none", "whole", "mixed", "next"}], mark' \in [Keys -> BOOLEAN]
    PROVE  Touched(k)
<1>1. journal \in [Keys -> Journals]
  BY DEF TypeOK
<1>2. QED
  BY <1>1, ClusterTyped DEF Touched

\* The steps of a rebuild that change the cluster.
LEMMA RebuildSteps ==
    ASSUME RecoveryInv, NEW k \in Keys, RetryCreate(k) \/ MirrorStep(k) \/ Make(k) \/ Seed(k) \/ Launch(k)
    PROVE  JobEffect(k)
<1>0. TypeOK
  BY DEF RecoveryInv
<1>1. CASE RetryCreate(k)
  <2>1. Moved(k) /\ job'[k].pc \in {"begin", "commit"}
    <3>1. Goto(k, "begin", "create") \/ Goto(k, "commit", "fail")
      BY <1>1 DEF RetryCreate
    <3>2. QED
      BY <1>0, <3>1, GotoMoves, StepNames
  <2>2. Touched(k) /\ rec' = rec /\ others' = others /\ budget' = budget
    BY <1>0, <1>1, TouchedDelete DEF RetryCreate
  <2>3. Journaled(job'[k].pc, journal'[k]) /\ job'[k].pc # "abandon"
    BY <2>1 DEF Journaled
  <2>4. QED
    BY <1>0, <2>1, <2>2, <2>3, QuietEffect
<1>2. CASE MirrorStep(k)
  <2>1. Moved(k) /\ job'[k].pc \in {"make", "clear"}
    <3>1. Goto(k, "make", "rebuild") \/ Goto(k, "clear", "fail")
      BY <1>2 DEF MirrorStep
    <3>2. QED
      BY <1>0, <3>1, GotoMoves, StepNames
  <2>2. journal' = journal /\ rec' = rec /\ others' = others /\ budget' = budget
    BY <1>2 DEF MirrorStep
  <2>3. Touched(k)
    <3>1. objs' = objs /\ root' = root
      BY <1>2 DEF MirrorStep
    <3>2. \E m \in BOOLEAN : mark' = mark \/ mark' = [mark EXCEPT ![k] = m]
      BY <1>2, ZenonT(60) DEF MirrorStep
    <3>3. mark' \in [Keys -> BOOLEAN]
      BY <1>0, <3>2, MarkTyped
    <3>4. QED
      BY <1>0, <2>2, <3>1, <3>3, ClusterTyped, TouchedRoot
  <2>4. Journaled(job'[k].pc, journal'[k]) /\ job'[k].pc # "abandon"
    <3>1. At(k, "mirror")
      BY <1>2 DEF MirrorStep
    <3>2. journal[k] # "none"
      BY <3>1 DEF At, RecoveryInv, JournaledJobs
    <3>3. QED
      BY <2>1, <2>2, <3>2 DEF Journaled
  <2>5. QED
    BY <1>0, <2>1, <2>2, <2>3, <2>4, QuietEffect
<1>3. CASE Make(k)
  <2>1. /\ Moved(k)
        /\ \/ /\ job'[k].pc = "reset" /\ journal' = [journal EXCEPT ![k] = "rebuild"]
              /\ objs' = [objs EXCEPT ![k] = @ \cup {"next"}]
           \/ job'[k].pc \in {"clear", "rollback"} /\ journal' = journal /\ objs' = objs
    <3>1. \/ /\ Goto(k, "reset", "rebuild") /\ journal' = [journal EXCEPT ![k] = "rebuild"]
             /\ objs' = [objs EXCEPT ![k] = @ \cup {"next"}]
          \/ (Goto(k, "clear", "fail") \/ Failed(k)) /\ journal' = journal /\ objs' = objs
      BY <1>3 DEF Make
    <3>2. QED
      BY <1>0, <3>1, GotoMoves, FailedMoves, StepNames
  <2>2. mark' = mark /\ root' = root /\ rec' = rec /\ others' = others /\ budget' = budget
    BY <1>3 DEF Make
  <2>3. Touched(k) /\ (job'[k].pc = "reset" => journal'[k] = "rebuild")
    <3>1. journal \in [Keys -> Journals] /\ "rebuild" \in Journals
      BY <1>0 DEF TypeOK, Journals
    <3>2. journal' \in [Keys -> Journals] /\ (\A j \in Keys \ {k} : journal'[j] = journal[j])
            /\ (job'[k].pc = "reset" => journal'[k] = "rebuild")
      BY <2>1, <3>1
    <3>3. objs' \in [Keys -> SUBSET {"base", "next"}] /\ \A j \in Keys \ {k} : objs'[j] = objs[j]
      BY <1>0, <2>1, ClusterTyped
    <3>4. QED
      BY <1>0, <2>2, <3>2, <3>3, ClusterTyped DEF Touched
  <2>4. Journaled(job'[k].pc, journal'[k]) /\ job'[k].pc # "abandon"
    <3>1. At(k, "make")
      BY <1>3 DEF Make
    <3>2. journal[k] # "none"
      BY <3>1 DEF At, RecoveryInv, JournaledJobs
    <3>3. QED
      BY <2>1, <2>3, <3>2 DEF Journaled
  <2>5. QED
    BY <1>0, <2>1, <2>2, <2>3, <2>4, QuietEffect
<1>4. CASE Seed(k) \/ Launch(k)
  <2>1. Moved(k) /\ job'[k].pc \in {"launch", "clear", "rollback"}
    <3>1. Goto(k, "launch", "rebuild") \/ Goto(k, "clear", "rebuild") \/ Failed(k)
      BY <1>4 DEF Seed, Launch
    <3>2. QED
      BY <1>0, <3>1, GotoMoves, FailedMoves, StepNames
  <2>2. journal' = journal /\ rec' = rec /\ others' = others /\ budget' = budget
    BY <1>4 DEF Seed, Launch
  <2>3. Touched(k)
    <3>1. \E r \in {"mixed", "next"} :
            objs' = objs /\ mark' = mark /\ (root' = root \/ root' = [root EXCEPT ![k] = r])
      <4>1. CASE Seed(k)
        BY <4>1 DEF Seed
      <4>2. CASE Launch(k)
        BY <4>2 DEF Launch
      <4>3. QED
        BY <1>4, <4>1, <4>2
    <3>2. mark' \in [Keys -> BOOLEAN] /\ root' \in [Keys -> {"none", "whole", "mixed", "next"}]
      BY <1>0, <3>1, ClusterTyped
    <3>3. QED
      BY <1>0, <2>2, <3>1, <3>2, TouchedRoot
  <2>4. Journaled(job'[k].pc, journal'[k]) /\ job'[k].pc # "abandon"
    <3>1. job[k].pc \in {"seed", "launch"}
      BY <1>4 DEF Seed, Launch, At
    <3>2. journal[k] = "reset"
      BY <3>1 DEF RecoveryInv, JournaledJobs
    <3>3. QED
      BY <2>1, <2>2, <3>2 DEF Journaled
  <2>5. QED
    BY <1>0, <2>1, <2>2, <2>3, <2>4, QuietEffect
<1>5. QED
  BY <1>1, <1>2, <1>3, <1>4

-----------------------------------------------------------------------------
(* Undoing a rebuild, rebuilding again and writing a tombstone.           *)

\* The end of an undo settles the record, unless a destroy has it.
LEMMA UndoneEffect ==
    ASSUME TypeOK, NEW k \in Keys, NEW status \in {"running", "failed"}, Undone(k, status), Touched(k),
           others' = others, budget' = budget
    PROVE  JobEffect(k)
<1>1. Moved(k) /\ job'[k].pc \in {"none", "load", "commit"}
  <2>1. Done(k) \/ Goto(k, "load", "rebuild") \/ Goto(k, "commit", "fail")
    BY DEF Undone
  <2>2. QED
    BY <2>1, GotoMoves, DoneMoves, StepNames
<1>2. rec' \in RecType /\ rec'.key = rec.key /\ (rec'.status = "deleting" <=> rec.status = "deleting")
  <2>1. CASE rec' = rec
    BY <2>1 DEF TypeOK
  <2>2. CASE rec' # rec
    <3>1. rec.status = "rebuilding"
      BY <2>2 DEF Undone
    <3>2. PICK e \in {"other", "none"} : rec' = Settled(status, e, rec.ran)
      BY <2>2 DEF Undone
    <3>3. status \in Statuses /\ e \in Errors /\ status # "deleting"
      BY StatusNames
    <3>4. rec' \in RecType /\ rec'.key = rec.key /\ rec'.status = status
      BY <3>2, <3>3, SettledTyped, ZenonT(60)
    <3>5. QED
      BY <3>1, <3>3, <3>4
  <2>3. QED
    BY <2>1, <2>2
<1>3. Journaled(job'[k].pc, journal'[k]) /\ job'[k].pc # "abandon" /\ budget' \in 0..MaxEvents
  BY <1>1 DEF Journaled, TypeOK
<1>4. QED
  BY <1>1, <1>2, <1>3, Effect

\* The steps of an undo.
LEMMA UndoSteps ==
    ASSUME RecoveryInv, NEW k \in Keys, AwaitUsable(k) \/ Rollback(k) \/ Clean(k) \/ FinishUndo(k)
    PROVE  JobEffect(k)
<1>0. TypeOK /\ "none" \in Journals
  BY DEF RecoveryInv, Journals
<1>1. CASE AwaitUsable(k)
  <2>1. Moved(k) /\ job'[k].pc \in {"rollback", "none"}
    <3>1. Goto(k, "rollback", "undo") \/ Done(k)
      BY <1>1 DEF AwaitUsable
    <3>2. QED
      BY <1>0, <3>1, GotoMoves, DoneMoves, StepNames
  <2>2. journal' = journal /\ cluster' = cluster /\ rec' = rec /\ others' = others /\ budget' = budget
    BY <1>1 DEF AwaitUsable
  <2>3. Journaled(job'[k].pc, journal'[k]) /\ job'[k].pc # "abandon"
    BY <1>1, <2>1, <2>2 DEF Journaled, AwaitUsable, At, RecoveryInv, JournaledJobs
  <2>4. QED
    BY <1>0, <2>1, <2>2, <2>3, Untouched, QuietEffect
<1>2. CASE Rollback(k) /\ Stale(k)
  <2>1. Undone(k, "failed") /\ cluster' = cluster /\ others' = others /\ budget' = budget
    BY <1>2 DEF Rollback, cluster
  <2>2. Touched(k)
    <3>1. journal' = [journal EXCEPT ![k] = "none"]
      BY <2>1 DEF Undone
    <3>2. QED
      BY <1>0, <2>1, <3>1, TouchedJournal, ZenonT(60)
  <2>3. QED
    BY <1>0, <2>1, <2>2, UndoneEffect
<1>3. CASE Rollback(k) /\ ~Stale(k)
  <2>1. Moved(k) /\ job'[k].pc = "clean"
    BY <1>0, <1>3, GotoMoves, StepNames, JobTyped DEF Rollback
  <2>2. journal' = journal /\ rec' = rec /\ objs' = objs /\ others' = others /\ budget' = budget
    BY <1>3 DEF Rollback
  <2>3. Touched(k)
    <3>1. root' = root \/ root' = [root EXCEPT ![k] = "whole"]
      BY <1>3, ZenonT(60) DEF Rollback
    <3>2. root' \in [Keys -> {"none", "whole", "mixed", "next"}]
      BY <1>0, <3>1, RootTyped, ZenonT(60)
    <3>3. \E m \in BOOLEAN : mark' = mark \/ mark' = [mark EXCEPT ![k] = m]
      BY <1>3, ZenonT(60) DEF Rollback
    <3>4. mark' \in [Keys -> BOOLEAN]
      BY <1>0, <3>3, MarkTyped
    <3>5. QED
      BY <1>0, <2>2, <3>2, <3>4, TouchedRoot
  <2>4. Journaled(job'[k].pc, journal'[k]) /\ job'[k].pc # "abandon"
    <3>1. At(k, "rollback")
      BY <1>3 DEF Rollback
    <3>2. journal[k] # "none"
      BY <3>1 DEF At, RecoveryInv, JournaledJobs
    <3>3. QED
      BY <2>1, <2>2, <3>2 DEF Journaled
  <2>5. QED
    BY <1>0, <2>1, <2>2, <2>3, <2>4, QuietEffect
<1>4. CASE Clean(k)
  <2>1. Moved(k) /\ job'[k].pc = "record"
    BY <1>0, <1>4, GotoMoves, StepNames, JobTyped DEF Clean
  <2>2. journal' = journal /\ root' = root /\ rec' = rec /\ others' = others /\ budget' = budget
    BY <1>4 DEF Clean
  <2>3. Touched(k)
    <3>1. objs' \in [Keys -> SUBSET {"base", "next"}] /\ \A j \in Keys \ {k} : objs'[j] = objs[j]
      <4>1. objs' = [objs EXCEPT ![k] = @ \ {"next"}]
        BY <1>4 DEF Clean
      <4>2. QED
        BY <1>0, <4>1, ClusterTyped
    <3>2. mark' \in [Keys -> BOOLEAN]
      <4>1. PICK m \in {mark[k], FALSE} : mark' = [mark EXCEPT ![k] = m]
        BY <1>4, ZenonT(60) DEF Clean
      <4>2. m \in BOOLEAN
        BY <1>0, <4>1, ClusterTyped, ZenonT(60)
      <4>3. QED
        BY <1>0, <4>1, <4>2, ClusterTyped
    <3>3. journal \in [Keys -> Journals]
      BY <1>0 DEF TypeOK
    <3>4. QED
      BY <1>0, <2>2, <3>1, <3>2, <3>3, ClusterTyped DEF Touched
  <2>4. Journaled(job'[k].pc, journal'[k]) /\ job'[k].pc # "abandon"
    BY <2>1 DEF Journaled
  <2>5. QED
    BY <1>0, <2>1, <2>2, <2>3, <2>4, QuietEffect
<1>5. CASE FinishUndo(k)
  <2>1. /\ Undone(k, "failed") \/ Undone(k, "running")
        /\ cluster' = cluster /\ others' = others /\ budget' = budget
    BY <1>5 DEF FinishUndo
  <2>2. Touched(k)
    <3>1. journal' = [journal EXCEPT ![k] = "none"]
      BY <2>1 DEF Undone
    <3>2. QED
      BY <1>0, <2>1, <3>1, TouchedJournal, ZenonT(60)
  <2>3. QED
    BY <1>0, <2>1, <2>2, UndoneEffect
<1>6. QED
  BY <1>1, <1>2, <1>3, <1>4, <1>5

\* Spending an event keeps the budget's type.
LEMMA SpendTyped == ASSUME TypeOK, Spend PROVE budget' \in 0..MaxEvents
  BY KubeAssumption DEF TypeOK, Spend

\* An undo that fails keeps its journal, and its record unless a destroy has it.
LEMMA UndoFailsStep == ASSUME RecoveryInv, NEW k \in Keys, UndoFails(k) PROVE JobEffect(k)
<1>0. TypeOK
  BY DEF RecoveryInv
<1>1. Moved(k) /\ job'[k].pc \in {"await", "none", "commit"}
  <2>1. Goto(k, "await", "undo") \/ Done(k) \/ Goto(k, "commit", "fail")
    BY DEF UndoFails
  <2>2. CASE Done(k)
    BY <1>0, <2>2, DoneMoves
  <2>3. CASE Goto(k, "await", "undo") \/ Goto(k, "commit", "fail")
    BY <1>0, <2>3, GotoMoves, StepNames
  <2>4. QED
    BY <2>1, <2>2, <2>3
<1>2. journal' = journal /\ cluster' = cluster /\ others' = others
  BY DEF UndoFails
<1>3. budget' \in 0..MaxEvents
  <2>1. Spend \/ budget' = budget
    BY DEF UndoFails
  <2>2. QED
    BY <1>0, <2>1, SpendTyped DEF TypeOK
<1>4. rec' \in RecType /\ rec'.key = rec.key /\ (rec'.status = "deleting" <=> rec.status = "deleting")
  <2>1. CASE rec' = rec
    BY <1>0, <2>1 DEF TypeOK
  <2>2. CASE rec' # rec
    <3>1. rec.status # "deleting"
      BY <2>2 DEF UndoFails, Settles
    <3>2. rec' = Settled("failed", "undoing", rec.ran)
      BY <2>2 DEF UndoFails
    <3>3. rec' \in RecType /\ rec'.key = rec.key /\ rec'.status = "failed"
      <4>1. "failed" \in Statuses /\ "undoing" \in Errors
        BY StatusNames
      <4>2. QED
        BY <1>0, <3>2, <4>1, SettledTyped, ZenonT(60)
    <3>4. QED
      BY <3>1, <3>3
  <2>3. QED
    BY <2>1, <2>2
<1>5. Journaled(job'[k].pc, journal'[k]) /\ job'[k].pc # "abandon"
  <2>1. job[k].pc \in {"rollback", "clean"}
    BY DEF UndoFails
  <2>2. journal[k] # "none"
    BY <2>1 DEF RecoveryInv, JournaledJobs
  <2>3. QED
    BY <1>1, <1>2, <2>2 DEF Journaled
<1>6. QED
  BY <1>0, <1>1, <1>2, <1>3, <1>4, <1>5, Untouched, Effect

\* A rebuild starts on a record no destroy has.
LEMMA RebuildKeeps == ASSUME RecoveryInv, NEW k \in Keys, Rebuild(k) PROVE RecoveryInv'
<1>0. TypeOK
  BY DEF RecoveryInv
<1>1. rec.key = k /\ rec.status \in {"running", "failed"}
  BY DEF Rebuild
<1>2. Moved(k) /\ job'[k].pc \in {"load", "retry"}
  <2>1. PICK pc \in {"load", "retry"} : job' = [job EXCEPT ![k] = [pc |-> pc, op |-> "rebuild", cancelled |-> FALSE]]
    BY ZenonT(60) DEF Rebuild
  <2>2. [pc |-> pc, op |-> "rebuild", cancelled |-> FALSE] \in JobType
    BY StepNames DEF JobType
  <2>3. QED
    BY <1>0, <2>1, <2>2 DEF Moved, TypeOK
<1>3. rec' \in RecType /\ rec'.key = rec.key /\ rec'.status = "rebuilding"
  <2>1. rec' = [rec EXCEPT !.status = "rebuilding"]
    BY DEF Rebuild
  <2>2. QED
    BY <1>0, <2>1, SettledTyped, StatusNames, ZenonT(60)
<1>4. journal' = journal /\ cluster' = cluster /\ others' = others /\ budget' \in 0..MaxEvents
  BY <1>0, SpendTyped DEF Rebuild
<1>5. JobEffect(k)
  <2>1. Journaled(job'[k].pc, journal'[k]) /\ job'[k].pc # "abandon"
    BY <1>2 DEF Journaled
  <2>2. QED
    BY <1>0, <1>1, <1>2, <1>3, <1>4, <2>1, Untouched, Effect
<1>6. tomb[k] = 0 /\ pass.tombs[k] = 0 /\ destroy[k] = "none"
  BY <1>1 DEF RecoveryInv, TombstonesAreFinal, JobsOfTheRecord
<1>7. QED
  BY <1>1, <1>5, <1>6, JobKeeps

-----------------------------------------------------------------------------
(* Tombstones.                                                             *)

\* A tombstone on the key of a record being destroyed, whose job has ended.
LEMMA Tombstoned ==
    ASSUME RecoveryInv, NEW k \in Keys, rec.key = k, rec.status = "deleting",
           rec' = rec, minted' = minted, pass' = pass, TypeOK', Touched(k), objs'[k] \in {objs[k], {}},
           tomb'[k] # 0, \A j \in Keys \ {k} : tomb'[j] = tomb[j] /\ destroy'[j] = destroy[j],
           Moved(k), job'[k].pc = "none"
    PROVE  RecoveryInv'
<1>1. k <= minted /\ minted \in Nat /\ Keys \subseteq Nat
  BY DEF RecoveryInv, Fresh, Keys, TypeOK
<1>2. Fresh'
  BY <1>1 DEF RecoveryInv, Fresh, Touched
<1>3. JobsOfTheRecord'
  BY DEF RecoveryInv, JobsOfTheRecord, Moved, At
<1>4. TombstonesAreFinal'
  BY DEF RecoveryInv, TombstonesAreFinal, Moved, At
<1>5. PassReads'
  BY DEF RecoveryInv, PassReads, Touched
<1>6. ObjectsAreKnown'
  BY DEF RecoveryInv, ObjectsAreKnown, Touched
<1>7. JournaledJobs'
  BY DEF RecoveryInv, JournaledJobs, Moved, Touched
<1>8. QED
  BY <1>2, <1>3, <1>4, <1>5, <1>6, <1>7 DEF RecoveryInv

\* What DownByKey changes.
LEMMA DownEffect ==
    ASSUME TypeOK, NEW k \in Keys, DownByKey(k)
    PROVE  /\ Touched(k) /\ objs'[k] \in {objs[k], {}}
           /\ tomb' \in [Keys -> 0..2] /\ tomb'[k] # 0 /\ \A j \in Keys \ {k} : tomb'[j] = tomb[j]
<1>1. Touched(k)
  BY TouchedDelete DEF DownByKey
<1>2. objs'[k] \in {objs[k], {}}
  <2>1. CASE usable
    BY <2>1, DeletesAll DEF DownByKey, DeleteByKey
  <2>2. CASE ~usable
    BY <2>2 DEF DownByKey, DeleteByKey, cluster
  <2>3. QED
    BY <2>1, <2>2
<1>3. tomb \in [Keys -> 0..2] /\ tomb' = [tomb EXCEPT ![k] = 2]
  BY DEF TypeOK, DownByKey
<1>4. tomb' \in [Keys -> 0..2] /\ tomb'[k] # 0 /\ \A j \in Keys \ {k} : tomb'[j] = tomb[j]
  BY <1>3
<1>5. QED
  BY <1>1, <1>2, <1>4

\* The steps that write a tombstone.
LEMMA TombstoneSteps ==
    ASSUME RecoveryInv, NEW k \in Keys, Abandon(k) \/ Destroying(k) \/ Down(k)
    PROVE  RecoveryInv'
<1>0. TypeOK
  BY DEF RecoveryInv
<1>1. rec.key = k /\ rec.status = "deleting"
  BY DEF RecoveryInv, JobsOfTheRecord, Abandon, Destroying, Down, At
<1>2. Moved(k) /\ job'[k].pc = "none"
  <2>1. CASE Abandon(k)
    BY <1>0, <2>1, DoneMoves DEF Abandon
  <2>2. CASE Destroying(k) \/ Down(k)
    <3>1. job' = job /\ job[k].pc = "none"
      BY <2>2, Zenon DEF RecoveryInv, JobsOfTheRecord, Destroying, Down, At
    <3>2. QED
      BY <1>0, <3>1, Zenon DEF Moved, TypeOK
  <2>3. QED
    BY <2>1, <2>2
<1>3. /\ Touched(k) /\ objs'[k] \in {objs[k], {}}
      /\ tomb' \in [Keys -> 0..2] /\ tomb'[k] # 0 /\ \A j \in Keys \ {k} : tomb'[j] = tomb[j]
  <2>1. CASE Abandon(k) \/ Down(k)
    BY <1>0, <2>1, DownEffect DEF Abandon, Down
  <2>2. CASE Destroying(k)
    <3>1. tomb \in [Keys -> 0..2] /\ tomb' = [tomb EXCEPT ![k] = 1]
      BY <1>0, <2>2 DEF TypeOK, Destroying
    <3>2. tomb' \in [Keys -> 0..2] /\ tomb'[k] # 0 /\ \A j \in Keys \ {k} : tomb'[j] = tomb[j]
      BY <3>1
    <3>3. journal' = journal /\ cluster' = cluster
      BY <2>2 DEF Destroying
    <3>4. QED
      BY <1>0, <3>2, <3>3, Untouched DEF cluster
  <2>3. QED
    BY <2>1, <2>2
<1>4. /\ destroy' \in [Keys -> {"none", "await", "down", "remove"}]
      /\ \A j \in Keys \ {k} : destroy'[j] = destroy[j]
  <2>1. destroy \in [Keys -> {"none", "await", "down", "remove"}]
    BY <1>0 DEF TypeOK
  <2>2. destroy' = destroy \/ destroy' = [destroy EXCEPT ![k] = "down"] \/ destroy' = [destroy EXCEPT ![k] = "remove"]
    BY DEF Abandon, Destroying, Down
  <2>3. QED
    BY <2>1, <2>2
<1>5. rec' = rec /\ minted' = minted /\ pass' = pass /\ usable' = usable /\ budget' = budget
  BY DEF Abandon, Destroying, Down
<1>6. TypeOK'
  BY <1>0, <1>2, <1>3, <1>4, <1>5 DEF TypeOK, Moved, Touched
<1>7. QED
  BY <1>1, <1>2, <1>3, <1>4, <1>5, <1>6, Tombstoned

-----------------------------------------------------------------------------
(* The background pass: types.                                             *)

\* What the pass goes on with has its type.
LEMMA PassTyped ==
    ASSUME NEW pc \in {"idle", "footprint", "records", "work", "drop"}, NEW files \in [Keys -> Journals],
           NEW tombs \in [Keys -> 0..2], NEW r \in RecType, NEW at \in {NoKey} \cup Keys,
           PassTo(pc, files, tombs, r, at)
    PROVE  pass' \in PassType
  BY DEF PassTo, PassType

\* A pass's fields have their types.
LEMMA PassFields ==
    ASSUME TypeOK
    PROVE  /\ pass.files \in [Keys -> Journals] /\ pass.tombs \in [Keys -> 0..2] /\ pass.rec \in RecType
           /\ pass.at \in {NoKey} \cup Keys /\ NoPass.files \in [Keys -> Journals]
<1>1. pass \in PassType
  BY DEF TypeOK
<1>2. NoPass.files \in [Keys -> Journals]
  BY DEF NoPass, Journals
<1>3. QED
  BY <1>1, <1>2 DEF PassType

\* Every step of the pass keeps its type.
LEMMA PassStepTyped ==
    ASSUME TypeOK, PassReads
    PROVE  /\ PassStart \/ PassFootprint \/ PassRecords \/ PassDrop \/ PassEnd => pass' \in PassType
           /\ \A k \in Keys : PassJournal(k) \/ PassTombstone(k) => pass' \in PassType
<1>1. journal \in [Keys -> Journals] /\ tomb \in [Keys -> 0..2] /\ rec \in RecType
  BY DEF TypeOK
<1>2. CASE PassStart
  BY <1>1, <1>2, PassFields, PassTyped DEF PassStart
<1>3. CASE PassFootprint
  BY <1>1, <1>3, PassFields, PassTyped, Zenon DEF PassFootprint
<1>4. CASE PassRecords
  BY <1>1, <1>4, PassFields, PassTyped, Zenon DEF PassRecords
<1>5. CASE PassDrop
  <2>1. [pass.tombs EXCEPT ![pass.at] = 0] \in [Keys -> 0..2]
    <3>1. pass.tombs \in [Keys -> 0..2] /\ pass.at \in Keys
      BY <1>5, PassFields DEF PassDrop, PassReads
    <3>2. QED
      BY <3>1
  <2>2. QED
    BY <1>5, <2>1, PassFields, PassTyped DEF PassDrop
<1>6. CASE PassEnd
  BY <1>6, NoneTyped DEF PassEnd
<1>7. ASSUME NEW k \in Keys, PassJournal(k) PROVE pass' \in PassType
  <2>1. [pass.files EXCEPT ![k] = "none"] \in [Keys -> Journals]
    BY PassFields DEF Journals
  <2>2. QED
    BY <1>7, <2>1, PassFields, PassTyped, Zenon DEF PassJournal
<1>8. ASSUME NEW k \in Keys, PassTombstone(k) PROVE pass' \in PassType
  <2>1. [pass.tombs EXCEPT ![k] = 0] \in [Keys -> 0..2]
    BY PassFields
  <2>2. QED
    BY <1>8, <2>1, PassFields, PassTyped DEF PassTombstone
<1>9. QED
  BY <1>2, <1>3, <1>4, <1>5, <1>6, <1>7, <1>8

\* The pass's steps keep the types.
LEMMA PassTypes == ASSUME TypeOK, PassReads, PassStart \/ PassStep PROVE TypeOK'
<1>1. pass' \in PassType
  BY PassStepTyped, Zenon DEF PassStep
<1>2. CASE PassStart \/ PassFootprint \/ PassEnd
  BY <1>1, <1>2, Zenon DEF PassStart, PassFootprint, PassEnd, TypeOK, cluster, passOthers
<1>3. CASE PassRecords
  <2>1. journal' \in [Keys -> Journals]
    BY <1>3 DEF PassRecords, TypeOK, Journals
  <2>2. QED
    BY <1>1, <1>3, <2>1, Zenon DEF PassRecords, TypeOK, cluster, passOthers
<1>4. CASE PassDrop
  <2>1. tomb' \in [Keys -> 0..2]
    BY <1>4 DEF PassDrop, PassReads, TypeOK, DropTombstoneOf
  <2>2. QED
    BY <1>1, <1>4, <2>1, Zenon DEF PassDrop, TypeOK, cluster, passOthers
<1>5. ASSUME NEW k \in Keys, PassJournal(k) PROVE TypeOK'
  <2>1. journal' \in [Keys -> Journals]
    BY <1>5, Zenon DEF PassJournal, TypeOK, Journals
  <2>2. objs' \in [Keys -> SUBSET {"base", "next"}] /\ mark' \in [Keys -> BOOLEAN]
          /\ root' \in [Keys -> {"none", "whole", "mixed", "next"}]
    BY <1>5, DeletesAll, Zenon DEF PassJournal, TypeOK, cluster
  <2>3. QED
    BY <1>1, <1>5, <2>1, <2>2 DEF PassJournal, TypeOK, passOthers
<1>6. ASSUME NEW k \in Keys, PassTombstone(k) PROVE TypeOK'
  <2>1. tomb' \in [Keys -> 0..2]
    <3>1. tomb \in [Keys -> 0..2]
      BY DEF TypeOK
    <3>2. QED
      BY <1>6, <3>1 DEF PassTombstone, DropTombstoneOf
  <2>2. objs' \in [Keys -> SUBSET {"base", "next"}] /\ mark' \in [Keys -> BOOLEAN]
          /\ root' \in [Keys -> {"none", "whole", "mixed", "next"}]
    BY <1>6, DeletesAll, Zenon DEF PassTombstone, TypeOK, cluster
  <2>3. QED
    BY <1>1, <1>6, <2>1, <2>2, Zenon DEF PassTombstone, TypeOK, passOthers
<1>7. QED
  BY <1>2, <1>3, <1>4, <1>5, <1>6 DEF PassStep

-----------------------------------------------------------------------------
(* The background pass.                                                    *)

\* The pass's journals and tombstones: it only discards what it read, and deletes only
\* objects of keys no record not being destroyed holds.
PassEffect ==
    /\ TypeOK' /\ UNCHANGED <<rec, minted, job, destroy>>
    /\ \A k \in Keys :
         /\ journal'[k] \in {journal[k], "none"} /\ (journal'[k] # journal[k] => \A j \in Keys : At(j, "none"))
         /\ tomb'[k] \in {tomb[k], 0} /\ (tomb'[k] # tomb[k] => objs[k] = {})
         /\ objs'[k] \in {objs[k], {}} /\ (objs'[k] # objs[k] => rec.key # k \/ rec.status = "deleting")
         /\ pass'.files[k] \in {pass.files[k], journal[k], "none"}
         /\ pass'.tombs[k] \in {pass.tombs[k], tomb[k], 0}
    /\ pass'.rec.key \in {pass.rec.key, rec.key, NoKey}

\* Such a step keeps the invariant, if what it reads stays good.
LEMMA PassKeeps == ASSUME RecoveryInv, PassEffect, PassReads' PROVE RecoveryInv'
<1>0. NoKey \notin Keys
  BY DEF NoKey, Keys
<1>a. /\ TypeOK' /\ rec' = rec /\ minted' = minted /\ job' = job /\ destroy' = destroy
      /\ pass'.rec.key \in {pass.rec.key, rec.key, NoKey}
  BY Zenon DEF PassEffect
<1>b. \A k \in Keys : /\ objs'[k] \in {objs[k], {}} /\ tomb'[k] \in {tomb[k], 0}
                      /\ tomb'[k] # tomb[k] => objs[k] = {}
                      /\ pass'.tombs[k] \in {pass.tombs[k], tomb[k], 0}
  BY Zenon DEF PassEffect
<1>c. \A k \in Keys : /\ journal'[k] \in {journal[k], "none"}
                      /\ journal'[k] # journal[k] => \A j \in Keys : At(j, "none")
                      /\ pass'.files[k] \in {pass.files[k], journal[k], "none"}
  BY Zenon DEF PassEffect
<1>1. Fresh'
  <2>1. Fresh
    BY DEF RecoveryInv
  <2>2. QED
    BY <1>0, <1>a, <1>b, <1>c, <2>1 DEF Fresh
<1>2. JobsOfTheRecord'
  BY <1>a, Zenon DEF RecoveryInv, JobsOfTheRecord, At
<1>3. TombstonesAreFinal'
  <2>1. TombstonesAreFinal
    BY DEF RecoveryInv
  <2>2. QED
    BY <1>a, <1>b, <2>1 DEF TombstonesAreFinal, At
<1>4. ObjectsAreKnown'
  <2>1. ObjectsAreKnown
    BY DEF RecoveryInv
  <2>2. QED
    BY <1>a, <1>b, <2>1 DEF ObjectsAreKnown
<1>5. JournaledJobs'
  <2>1. JournaledJobs
    BY DEF RecoveryInv
  <2>2. QED
    BY <1>a, <1>c, <2>1 DEF JournaledJobs, At
<1>6. QED
  BY <1>a, <1>1, <1>2, <1>3, <1>4, <1>5 DEF RecoveryInv

\* The pass reads journals and tombstones, and ends.
LEMMA PassReading ==
    ASSUME RecoveryInv, PassStart \/ PassFootprint \/ PassEnd
    PROVE  PassEffect /\ PassReads'
<1>0. TypeOK /\ PassReads
  BY DEF RecoveryInv
<1>1. TypeOK'
  BY <1>0, PassTypes DEF PassStep
<1>2. /\ rec' = rec /\ minted' = minted /\ job' = job /\ destroy' = destroy /\ journal' = journal
      /\ tomb' = tomb /\ objs' = objs
  BY DEF PassStart, PassFootprint, PassEnd, passOthers, cluster
<1>3. \/ pass'.pc = "footprint" /\ pass'.files = journal /\ pass'.tombs = pass.tombs /\ pass'.rec = pass.rec
      \/ pass'.pc = "records" /\ pass'.files = pass.files /\ pass'.tombs = tomb /\ pass'.rec = pass.rec
      \/ /\ pass'.pc = "idle" /\ pass'.files = [k \in Keys |-> "none"] /\ pass'.tombs = [k \in Keys |-> 0]
         /\ pass'.rec.key = NoKey
  BY DEF PassStart, PassFootprint, PassEnd, PassTo, NoPass, NoRec
<1>4. PassEffect
  BY <1>1, <1>2, <1>3, Zenon DEF PassEffect
<1>5. PassReads'
  BY <1>3 DEF PassReads
<1>6. QED
  BY <1>4, <1>5

\* It reads the records, of which a tombstoned one is being destroyed.
LEMMA PassRecordsKeep == ASSUME RecoveryInv, PassRecords PROVE PassEffect /\ PassReads'
<1>0. TypeOK /\ PassReads
  BY DEF RecoveryInv
<1>1. TypeOK'
  BY <1>0, PassTypes DEF PassStep
<1>2. rec' = rec /\ minted' = minted /\ job' = job /\ destroy' = destroy /\ tomb' = tomb /\ objs' = objs
  BY Zenon DEF PassRecords, passOthers, cluster
<1> DEFINE atOnce == \A k \in Keys : pass.files[k] # "none" => rec.key = k
<1>a. journal' = [k \in Keys |-> IF atOnce /\ Outlived(k, rec) THEN "none" ELSE journal[k]]
  BY Zenon DEF PassRecords
<1>b. PassTo("work", IF atOnce THEN NoPass.files ELSE pass.files, pass.tombs, rec, NoKey)
  BY Zenon DEF PassRecords
<1> HIDE DEF atOnce
<1>3. \A k \in Keys : /\ journal'[k] \in {journal[k], "none"}
                      /\ journal'[k] # journal[k] => \A j \in Keys : At(j, "none")
  <2>1. \A k \in Keys : Outlived(k, rec) => \A j \in Keys : At(j, "none")
    BY Zenon DEF Outlived, HasProvisioningJob, At
  <2>2. QED
    BY <1>a, <2>1
<1>4. /\ pass'.pc = "work" /\ pass'.tombs = pass.tombs /\ pass'.rec = rec
      /\ pass'.files = pass.files \/ pass'.files = [k \in Keys |-> "none"]
  BY <1>b DEF PassTo, NoPass
<1>5. PassEffect
  BY <1>1, <1>2, <1>3, <1>4, Zenon DEF PassEffect
<1>6. PassReads'
  BY <1>2, <1>4 DEF PassReads, RecoveryInv, TombstonesAreFinal
<1>7. QED
  BY <1>5, <1>6

\* A journal no record held when they were read is of no record now.
LEMMA PassJournalKeeps == ASSUME RecoveryInv, NEW k \in Keys, PassJournal(k) PROVE PassEffect /\ PassReads'
<1>0. TypeOK /\ PassReads
  BY DEF RecoveryInv
<1>1. TypeOK'
  BY <1>0, PassTypes DEF PassStep
<1>2. rec' = rec /\ minted' = minted /\ job' = job /\ destroy' = destroy /\ tomb' = tomb
  <2>1. passOthers' = passOthers /\ tomb' = tomb
    BY DEF PassJournal
  <2>2. QED
    BY <2>1 DEF passOthers
<1>3. \A i \in Keys : /\ journal'[i] \in {journal[i], "none"}
                      /\ journal'[i] # journal[i] => \A j \in Keys : At(j, "none")
  <2>1. journal \in [Keys -> Journals]
    BY <1>0 DEF TypeOK
  <2>2. QED
    BY <2>1 DEF PassJournal, Outlived, HasProvisioningJob, At
<1>4. pass.pc = "work" /\ pass.files[k] # "none"
  BY DEF PassJournal
<1>5. \A i \in Keys : objs'[i] \in {objs[i], {}} /\ (objs'[i] # objs[i] => rec.key # i)
  <2>1. CASE objs' = objs
    BY <2>1
  <2>2. CASE objs' # objs
    <3>1. DeleteAll(k) /\ pass.rec.key # k
      BY <2>2, Zenon DEF PassJournal, cluster
    <3>2. rec.key # k
      BY <1>0, <1>4, <3>1 DEF PassReads
    <3>3. QED
      BY <1>0, <3>1, <3>2, DeletesAll
  <2>3. QED
    BY <2>1, <2>2
<1>6. /\ pass'.pc = "work" /\ pass'.tombs = pass.tombs /\ pass'.rec = pass.rec
      /\ \A i \in Keys : pass'.files[i] \in {pass.files[i], "none"}
  <2>1. PassTo("work", [pass.files EXCEPT ![k] = "none"], pass.tombs, pass.rec, NoKey)
    BY Zenon DEF PassJournal
  <2>2. pass.files \in [Keys -> Journals]
    BY <1>0, PassFields, Zenon
  <2>3. QED
    BY <2>1, <2>2 DEF PassTo
<1>7. PassEffect
  BY <1>1, <1>2, <1>3, <1>5, <1>6, Zenon DEF PassEffect
<1>8. PassReads'
  BY <1>0, <1>2, <1>4, <1>6, Zenon DEF PassReads
<1>9. QED
  BY <1>7, <1>8

\* A tombstone that was read is of a key whose record, if there is one, is being destroyed.
LEMMA PassTombstoneKeeps == ASSUME RecoveryInv, NEW k \in Keys, PassTombstone(k) PROVE PassEffect /\ PassReads'
<1>0. TypeOK /\ PassReads
  BY DEF RecoveryInv
<1>1. TypeOK'
  BY <1>0, PassTypes, Zenon DEF PassStep
<1>2. rec' = rec /\ minted' = minted /\ job' = job /\ destroy' = destroy /\ journal' = journal
  <2>1. passOthers' = passOthers /\ journal' = journal
    BY DEF PassTombstone
  <2>2. QED
    BY <2>1 DEF passOthers
<1>3. pass.pc = "work" /\ pass.tombs[k] # 0 /\ (rec.key = k => rec.status = "deleting")
  <2>1. pass.pc = "work" /\ pass.tombs[k] # 0
    BY DEF PassTombstone
  <2>2. QED
    BY <2>1 DEF RecoveryInv, TombstonesAreFinal
<1>4. ~(pass.rec.key = k /\ pass.rec.status # "deleting")
  BY <1>0, <1>3 DEF PassReads
<1>5. tomb' = tomb /\ (objs' = objs \/ DeleteAll(k))
  BY <1>4, Zenon DEF PassTombstone, cluster
<1>6. \A i \in Keys : objs'[i] \in {objs[i], {}} /\ (objs'[i] # objs[i] => rec.key # i \/ rec.status = "deleting")
  BY <1>0, <1>3, <1>5, DeletesAll
<1>7. /\ pass'.files = pass.files /\ pass'.rec = pass.rec
      /\ \A i \in Keys : pass'.tombs[i] \in {pass.tombs[i], 0}
  <2>1. \/ PassTo("work", pass.files, [pass.tombs EXCEPT ![k] = 0], pass.rec, NoKey)
        \/ PassTo("drop", pass.files, pass.tombs, pass.rec, k)
    BY <1>4, Zenon DEF PassTombstone
  <2>2. pass.tombs \in [Keys -> 0..2]
    BY <1>0, PassFields, Zenon
  <2>3. QED
    BY <2>1, <2>2 DEF PassTo
<1>8. \/ pass'.pc = "work"
      \/ pass'.pc = "drop" /\ pass'.at = k /\ pass'.tombs = pass.tombs /\ objs[k] = {} /\ objs' = objs
  <2>1. \/ PassTo("work", pass.files, [pass.tombs EXCEPT ![k] = 0], pass.rec, NoKey)
        \/ PassTo("drop", pass.files, pass.tombs, pass.rec, k) /\ objs[k] = {} /\ objs' = objs
    BY <1>4, Zenon DEF PassTombstone, cluster
  <2>2. QED
    BY <2>1 DEF PassTo
<1>9. PassEffect
  <2>1. tomb' = tomb
    BY <1>5, Zenon
  <2>2. QED
    BY <1>1, <1>2, <1>6, <1>7, <2>1, Zenon DEF PassEffect
<1>10. PassReads'
  BY <1>0, <1>2, <1>3, <1>7, <1>8, Zenon DEF PassReads
<1>11. QED
  BY <1>9, <1>10

\* A tombstone that is dropped has no objects left.
LEMMA PassDropKeeps == ASSUME RecoveryInv, PassDrop PROVE PassEffect /\ PassReads'
<1>0. TypeOK /\ PassReads
  BY DEF RecoveryInv
<1>1. TypeOK'
  BY <1>0, PassTypes DEF PassStep
<1>2. /\ rec' = rec /\ minted' = minted /\ job' = job /\ destroy' = destroy /\ journal' = journal
      /\ objs' = objs /\ pass.pc = "drop"
  BY DEF PassDrop, passOthers, cluster
<1>3. pass.at \in Keys /\ objs[pass.at] = {}
  BY <1>0, <1>2 DEF PassReads
<1>4. \A i \in Keys : tomb'[i] \in {tomb[i], 0} /\ (tomb'[i] # tomb[i] => objs[i] = {})
  <2>1. tomb \in [Keys -> 0..2]
    BY <1>0 DEF TypeOK
  <2>2. tomb' = tomb \/ \E t : tomb' = [tomb EXCEPT ![pass.at] = t] /\ t \in {tomb[pass.at], 0}
    BY <1>3, <2>1 DEF PassDrop, DropTombstoneOf
  <2>3. QED
    BY <1>3, <2>1, <2>2
<1>5. /\ pass'.pc = "work" /\ pass'.files = pass.files /\ pass'.rec = pass.rec
      /\ \A i \in Keys : pass'.tombs[i] \in {pass.tombs[i], 0}
  BY <1>0, <1>3, PassFields DEF PassDrop, PassTo
<1>6. PassEffect
  BY <1>1, <1>2, <1>4, <1>5, Zenon DEF PassEffect
<1>7. PassReads'
  BY <1>0, <1>2, <1>5, Zenon DEF PassReads
<1>8. QED
  BY <1>6, <1>7

\* Every step of the pass.
LEMMA PassStepKeeps == ASSUME RecoveryInv, PassStart \/ PassStep PROVE RecoveryInv' /\ PassEffect
<1>1. PassEffect /\ PassReads'
  BY PassReading, PassRecordsKeep, PassJournalKeeps, PassTombstoneKeeps, PassDropKeeps DEF PassStep
<1>2. QED
  BY <1>1, PassKeeps

-----------------------------------------------------------------------------
(* Destroys.                                                               *)

\* A destroy marks its record and cancels its job.
LEMMA DestroyKeeps == ASSUME RecoveryInv, NEW k \in Keys, Destroy(k) PROVE RecoveryInv'
<1>0. TypeOK
  BY DEF RecoveryInv
<1>1. rec.key = k /\ destroy[k] = "none"
  BY DEF Destroy
<1>2. rec' \in RecType /\ rec'.key = rec.key /\ rec'.status = "deleting"
  <2>1. rec' = [rec EXCEPT !.status = "deleting"] /\ "deleting" \in Statuses
    BY StatusNames DEF Destroy
  <2>2. QED
    BY <1>0, <2>1, SettledTyped, ZenonT(60)
<1>3. job' \in [Keys -> JobType] /\ \A j \in Keys : job'[j].pc = job[j].pc
  <2>1. PICK c \in BOOLEAN : job' = [job EXCEPT ![k] = [@ EXCEPT !.cancelled = c]]
    BY ZenonT(60) DEF Destroy
  <2>2. job \in [Keys -> JobType] /\ job[k] \in JobType
    BY <1>0 DEF TypeOK
  <2>3. [job[k] EXCEPT !.cancelled = c] \in JobType /\ [job[k] EXCEPT !.cancelled = c].pc = job[k].pc
    BY <2>2 DEF JobType
  <2>4. QED
    BY <2>1, <2>2, <2>3
<1>4. /\ destroy' \in [Keys -> {"none", "await", "down", "remove"}] /\ destroy'[k] = "await"
      /\ \A j \in Keys \ {k} : destroy'[j] = destroy[j]
  <2>1. /\ destroy \in [Keys -> {"none", "await", "down", "remove"}]
        /\ destroy' = [destroy EXCEPT ![k] = "await"]
    BY <1>0 DEF TypeOK, Destroy
  <2>2. QED
    BY <2>1
<1>5. /\ minted' = minted /\ journal' = journal /\ tomb' = tomb /\ objs' = objs /\ mark' = mark
      /\ root' = root /\ pass' = pass /\ usable' = usable /\ budget' = budget
  BY DEF Destroy, cluster
<1>6. TypeOK'
  BY <1>0, <1>2, <1>3, <1>4, <1>5, Zenon DEF TypeOK
<1>7. Fresh' /\ PassReads' /\ JournaledJobs'
  <2>1. Fresh'
    BY <1>2, <1>5, Zenon DEF RecoveryInv, Fresh
  <2>2. PassReads'
    BY <1>2, <1>5, Zenon DEF RecoveryInv, PassReads
  <2>3. JournaledJobs'
    BY <1>3, <1>5, Zenon DEF RecoveryInv, JournaledJobs
  <2>4. QED
    BY <2>1, <2>2, <2>3
<1>8. JobsOfTheRecord' /\ TombstonesAreFinal'
  <2>1. \A j \in Keys : At(j, "none")' = At(j, "none") /\ At(j, "abandon")' = At(j, "abandon")
    BY <1>3, Zenon DEF At
  <2>2. JobsOfTheRecord'
    BY <1>1, <1>2, <1>4, <2>1 DEF RecoveryInv, JobsOfTheRecord
  <2>3. TombstonesAreFinal'
    BY <1>2, <1>5, <2>1, Zenon DEF RecoveryInv, TombstonesAreFinal
  <2>4. QED
    BY <2>2, <2>3
<1>9. ObjectsAreKnown'
  BY <1>2, <1>4, <1>5, Zenon DEF RecoveryInv, ObjectsAreKnown
<1>10. QED
  BY <1>6, <1>7, <1>8, <1>9 DEF RecoveryInv

\* The record goes once its objects are tombstoned.
LEMMA RemoveKeeps == ASSUME RecoveryInv, NEW k \in Keys, Remove(k) PROVE RecoveryInv'
<1>0. TypeOK /\ NoKey \notin Keys
  BY DEF RecoveryInv, NoKey, Keys
<1>1. destroy[k] = "remove" /\ rec.key = k /\ \A j \in Keys : At(j, "none")
  BY DEF Remove, RecoveryInv, JobsOfTheRecord
<1>2. rec' \in RecType /\ rec'.key = NoKey
  BY NoneTyped DEF Remove, NoRec
<1>3. destroy' \in [Keys -> {"none", "await", "down", "remove"}] /\ \A j \in Keys : destroy'[j] = "none"
  <2>1. /\ destroy \in [Keys -> {"none", "await", "down", "remove"}] /\ destroy' = [destroy EXCEPT ![k] = "none"]
        /\ \A j \in Keys \ {k} : destroy[j] = "none"
    BY <1>0, <1>1 DEF TypeOK, Remove, RecoveryInv, JobsOfTheRecord
  <2>2. QED
    BY <2>1
<1>4. /\ minted' = minted /\ journal' = journal /\ tomb' = tomb /\ objs' = objs /\ mark' = mark
      /\ root' = root /\ pass' = pass /\ usable' = usable /\ budget' = budget /\ job' = job
  BY DEF Remove, cluster
<1>5. TypeOK'
  BY <1>0, <1>2, <1>3, <1>4, Zenon DEF TypeOK
<1>6. Fresh' /\ PassReads' /\ JournaledJobs'
  <2>1. Fresh'
    BY <1>0, <1>2, <1>4, Zenon DEF RecoveryInv, Fresh
  <2>2. PassReads'
    BY <1>0, <1>2, <1>4, Zenon DEF RecoveryInv, PassReads
  <2>3. JournaledJobs'
    BY <1>4, Zenon DEF RecoveryInv, JournaledJobs
  <2>4. QED
    BY <2>1, <2>2, <2>3
<1>7. JobsOfTheRecord' /\ TombstonesAreFinal'
  BY <1>0, <1>1, <1>2, <1>3, <1>4, Zenon DEF RecoveryInv, JobsOfTheRecord, TombstonesAreFinal, At
<1>8. ObjectsAreKnown'
  BY <1>1, <1>2, <1>3, <1>4, Zenon DEF RecoveryInv, ObjectsAreKnown
<1>9. QED
  BY <1>5, <1>6, <1>7, <1>8 DEF RecoveryInv

-----------------------------------------------------------------------------
(* Creates, the daemon and the connection.                                 *)

\* A create takes a key that is nowhere yet.
LEMMA CreateKeeps == ASSUME RecoveryInv, Create PROVE RecoveryInv'
<1> DEFINE k == minted + 1
<1>0. TypeOK /\ NoKey \notin Keys /\ Keys \subseteq Nat /\ k \in Keys /\ k > minted /\ minted \in Nat
  BY KubeAssumption DEF RecoveryInv, NoKey, Keys, TypeOK, Create
<1>1. minted' = k /\ rec.key = NoKey
  BY DEF Create
<1>2. rec' \in RecType /\ rec'.key = k
  <2>1. rec' = [key |-> k, ran |-> FALSE, status |-> "creating", error |-> "none"]
    BY DEF Create
  <2>2. QED
    BY <1>0, <2>1, StatusNames DEF RecType
<1> HIDE DEF k
<1>3. Moved(k) /\ job'[k].pc = "begin"
  <2>1. job' = [job EXCEPT ![k] = [pc |-> "begin", op |-> "create", cancelled |-> FALSE]]
    BY DEF Create, k
  <2>2. [pc |-> "begin", op |-> "create", cancelled |-> FALSE] \in JobType
    BY StepNames DEF JobType
  <2>3. QED
    BY <1>0, <2>1, <2>2 DEF Moved, TypeOK
<1>4. /\ journal' = journal /\ tomb' = tomb /\ objs' = objs /\ mark' = mark /\ destroy' = destroy
      /\ root' = root /\ pass' = pass /\ usable' = usable /\ budget' = budget
  BY DEF Create, cluster
<1>5. TypeOK'
  BY <1>0, <1>1, <1>2, <1>3, <1>4 DEF TypeOK, Moved, Keys
<1>6. \A j \in Keys : At(j, "none") /\ destroy[j] = "none"
  BY <1>0, <1>1 DEF RecoveryInv, JobsOfTheRecord
<1>7. tomb[k] = 0 /\ pass.tombs[k] = 0 /\ pass.files[k] = "none" /\ objs[k] = {}
  BY <1>0, Zenon DEF RecoveryInv, Fresh
<1>8. Fresh'
  <2>1. \A j \in Keys : j > k => j > minted /\ j # k
    BY <1>0 DEF k
  <2>2. QED
    BY <1>1, <1>2, <1>4, <2>1 DEF RecoveryInv, Fresh
<1>9. PassReads' /\ JournaledJobs'
  <2>1. PassReads'
    BY <1>2, <1>4, <1>7 DEF RecoveryInv, PassReads
  <2>2. JournaledJobs'
    BY <1>3, <1>4 DEF RecoveryInv, JournaledJobs, Moved
  <2>3. QED
    BY <2>1, <2>2
<1>10. JobsOfTheRecord' /\ TombstonesAreFinal'
  <2>1. \A j \in Keys \ {k} : At(j, "none")'
    BY <1>3, <1>6 DEF At, Moved
  <2>2. JobsOfTheRecord'
    BY <1>2, <1>3, <1>4, <1>6, <2>1 DEF JobsOfTheRecord, At
  <2>3. TombstonesAreFinal'
    BY <1>2, <1>4, <1>7, <2>1 DEF RecoveryInv, TombstonesAreFinal
  <2>4. QED
    BY <2>2, <2>3
<1>11. ObjectsAreKnown'
  BY <1>0, <1>1, <1>4, <1>6, <1>7 DEF RecoveryInv, ObjectsAreKnown
<1>12. QED
  BY <1>5, <1>8, <1>9, <1>10, <1>11 DEF RecoveryInv

\* The next daemon's undo jobs are of the record's key, and no record being destroyed.
LEMMA RestartKeeps == ASSUME RecoveryInv, Restart PROVE RecoveryInv'
<1>0. TypeOK /\ NoKey \notin Keys
  BY DEF RecoveryInv, NoKey, Keys
<1>1. /\ job' \in [Keys -> JobType]
      /\ \A k \in Keys : job'[k].pc \in {"await", "none"} /\ (job'[k].pc = "await" => Claims(k))
  <2> DEFINE Undo == [pc |-> "await", op |-> "undo", cancelled |-> FALSE]
  <2>1. Undo \in JobType /\ Undo.pc = "await" /\ NoJob.pc = "none"
    BY StepNames DEF JobType, NoJob
  <2>2. job' = [k \in Keys |-> IF Claims(k) THEN Undo ELSE NoJob]
    BY DEF Restart
  <2> HIDE DEF Undo
  <2>3. QED
    BY <2>1, <2>2, NoneTyped
<1>2. /\ rec' \in RecType /\ rec'.key = rec.key /\ (rec.status = "deleting" => rec'.status = "deleting")
  <2>1. CASE \E k \in Keys : Claims(k)
    <3>1. rec' = [rec EXCEPT !.status = "rebuilding"] /\ rec.status # "deleting"
      BY <2>1 DEF Restart, Claims
    <3>2. QED
      BY <1>0, <3>1, SettledTyped, StatusNames, ZenonT(60)
  <2>2. CASE ~(\E k \in Keys : Claims(k)) /\ rec.status \in {"creating", "rebuilding"}
    <3>1. rec' = Settled("failed", "other", rec.ran) /\ rec.status # "deleting"
      BY <2>2 DEF Restart
    <3>2. "failed" \in Statuses /\ "other" \in Errors
      BY StatusNames
    <3>3. QED
      BY <1>0, <3>1, <3>2, SettledTyped, ZenonT(60)
  <2>3. CASE ~(\E k \in Keys : Claims(k)) /\ rec.status \notin {"creating", "rebuilding"}
    <3>1. rec' = rec
      BY <2>3 DEF Restart
    <3>2. QED
      BY <1>0, <3>1 DEF TypeOK
  <2>4. QED
    BY <2>1, <2>2, <2>3
<1>3. /\ journal' \in [Keys -> Journals]
      /\ \A k \in Keys : journal'[k] \in {journal[k], "none"} /\ (Claims(k) => journal'[k] # "none")
  <2>1. journal \in [Keys -> Journals] /\ "none" \in Journals
    BY <1>0 DEF TypeOK, Journals
  <2>2. journal' = [k \in Keys |-> IF /\ rec.key = k /\ journal[k] = "create"
                                     /\ rec.status \in {"creating", "rebuilding"} THEN "none" ELSE journal[k]]
    BY DEF Restart
  <2>3. \A k \in Keys : Claims(k) => journal[k] \in {"rebuild", "reset"}
    BY DEF Claims
  <2>4. QED
    BY <2>1, <2>2, <2>3
<1>4. /\ destroy' = [k \in Keys |-> "none"] /\ pass' = NoPass /\ minted' = minted /\ tomb' = tomb
      /\ objs' = objs /\ mark' = mark /\ root' = root /\ usable' = usable /\ budget' \in 0..MaxEvents
  BY <1>0, SpendTyped DEF Restart, cluster
<1>5. TypeOK'
  BY <1>0, <1>1, <1>2, <1>3, <1>4, NoneTyped DEF TypeOK
<1>6. \A k \in Keys : NoPass.files[k] = "none" /\ NoPass.tombs[k] = 0 /\ NoPass.rec.key = NoKey /\ NoPass.pc = "idle"
  BY DEF NoPass, NoRec
<1>7. Fresh'
  <2>1. ASSUME NEW k \in Keys, k > minted
        PROVE  rec'.key # k /\ objs[k] = {} /\ tomb[k] = 0 /\ journal'[k] = "none"
    BY <1>0, <1>2, <1>3, <2>1 DEF RecoveryInv, Fresh
  <2>2. QED
    BY <1>0, <1>4, <1>6, <2>1 DEF Fresh
<1>8. PassReads'
  BY <1>4 DEF PassReads, NoPass
<1>9. \A k \in Keys : Claims(k) => rec.key = k /\ rec.status # "deleting"
  BY Zenon DEF Claims
<1>10. JobsOfTheRecord'
  BY <1>1, <1>2, <1>4, <1>9, Zenon DEF JobsOfTheRecord, At
<1>11. TombstonesAreFinal'
  BY <1>1, <1>2, <1>4, <1>6, <1>9, Zenon DEF RecoveryInv, TombstonesAreFinal, At
<1>12. ObjectsAreKnown'
  BY <1>2, <1>4 DEF RecoveryInv, ObjectsAreKnown
<1>13. JournaledJobs'
  BY <1>1, <1>3 DEF JournaledJobs
<1>14. QED
  BY <1>5, <1>7, <1>8, <1>10, <1>11, <1>12, <1>13 DEF RecoveryInv

\* The connection coming and going, and nothing happening.
LEMMA ConnectionKeeps == ASSUME RecoveryInv, Lose \/ Regain \/ UNCHANGED vars PROVE RecoveryInv'
<1>0. TypeOK
  BY DEF RecoveryInv
<1>1. /\ rec' = rec /\ minted' = minted /\ journal' = journal /\ tomb' = tomb /\ objs' = objs /\ mark' = mark
      /\ root' = root /\ job' = job /\ destroy' = destroy /\ pass' = pass
  BY DEF Lose, Regain, vars, cluster
<1>2. usable' \in BOOLEAN
  <2>1. usable' = TRUE \/ usable' = FALSE \/ usable' = usable
    BY ZenonT(60) DEF Lose, Regain, vars
  <2>2. QED
    BY <1>0, <2>1, ZenonT(60) DEF TypeOK
<1>3. budget' \in 0..MaxEvents
  <2>1. Spend \/ budget' = budget
    BY DEF Lose, Regain, vars
  <2>2. QED
    BY <1>0, <2>1, SpendTyped DEF TypeOK
<1>4. TypeOK'
  BY <1>0, <1>1, <1>2, <1>3, Zenon DEF TypeOK
<1>5. Fresh' /\ JobsOfTheRecord' /\ TombstonesAreFinal'
  BY <1>1, Zenon DEF RecoveryInv, Fresh, JobsOfTheRecord, TombstonesAreFinal, At
<1>6. PassReads' /\ ObjectsAreKnown' /\ JournaledJobs'
  BY <1>1, Zenon DEF RecoveryInv, PassReads, ObjectsAreKnown, JournaledJobs
<1>7. QED
  BY <1>4, <1>5, <1>6 DEF RecoveryInv

-----------------------------------------------------------------------------
(* The theorems.                                                           *)

\* The invariant holds at first,
LEMMA RecoveryInit == ASSUME Init PROVE RecoveryInv
<1>0. NoKey \notin Keys /\ NoRec.key = NoKey /\ NoJob.pc = "none" /\ NoPass.pc = "idle" /\ NoPass.rec.key = NoKey
        /\ NoPass.files = [k \in Keys |-> "none"] /\ NoPass.tombs = [k \in Keys |-> 0]
  BY DEF NoKey, Keys, NoRec, NoJob, NoPass
<1>1. TypeOK
  BY NoneTyped, KubeAssumption DEF Init, TypeOK, Journals
<1>2. Fresh /\ JobsOfTheRecord /\ TombstonesAreFinal
  BY <1>0 DEF Init, Fresh, JobsOfTheRecord, TombstonesAreFinal, At
<1>3. PassReads /\ ObjectsAreKnown /\ JournaledJobs
  BY <1>0 DEF Init, PassReads, ObjectsAreKnown, JournaledJobs
<1>4. QED
  BY <1>1, <1>2, <1>3 DEF RecoveryInv

\* and every step keeps it.
LEMMA RecoveryStep == ASSUME RecoveryInv, [Next]_vars PROVE RecoveryInv'
<1>1. ASSUME NEW k \in Keys, JobStep(k), ~Abandon(k) PROVE RecoveryInv'
  <2>1. JobEffect(k)
    BY <1>1, CreateSteps, CommitSteps, LoadSteps, RebuildSteps, UndoSteps, UndoFailsStep DEF JobStep
  <2>2. ~At(k, "none")
    <3>1. CASE Begin(k) \/ Apply(k) \/ ClearMark(k) \/ Finish(k) \/ Commit(k)
      <4>1. job[k].pc \in {"begin", "apply", "clear", "finish", "commit"}
        <5>1. CASE Commit(k)
          BY <5>1 DEF At, Commit
        <5>2. CASE ClearMark(k)
          BY <5>2 DEF At, ClearMark
        <5>3. CASE Begin(k) \/ Apply(k) \/ Finish(k)
          BY <5>3 DEF At, Begin, Apply, Finish
        <5>4. QED
          BY <3>1, <5>1, <5>2, <5>3
      <4>2. QED
        BY <4>1 DEF At
    <3>2. CASE RetryCreate(k) \/ Load(k) \/ MirrorStep(k) \/ Make(k) \/ Reset(k) \/ Seed(k) \/ Launch(k)
      <4>1. job[k].pc \in {"retry", "load", "mirror", "make", "reset", "seed", "launch"}
        BY <3>2, Zenon DEF At, RetryCreate, Load, MirrorStep, Make, Reset, Seed, Launch
      <4>2. QED
        BY <4>1, Zenon DEF At
    <3>3. CASE AwaitUsable(k) \/ Rollback(k) \/ Clean(k) \/ FinishUndo(k) \/ UndoFails(k)
      <4>1. job[k].pc \in {"await", "rollback", "clean", "record"}
        BY <3>3 DEF At, AwaitUsable, Rollback, Clean, FinishUndo, UndoFails
      <4>2. QED
        BY <4>1 DEF At
    <3>4. QED
      BY <1>1, <3>1, <3>2, <3>3 DEF JobStep
  <2>3. QED
    BY <2>1, <2>2, Working, JobKeeps
<1>2. QED
  BY <1>1, CreateKeeps, PassStepKeeps, RestartKeeps, ConnectionKeeps, RebuildKeeps, DestroyKeeps,
     TombstoneSteps, RemoveKeeps DEF Next, DestroyStep

\* The state of the recovery is as RecoveryInv says, whatever daemons, passes and destroys do.
THEOREM RecoveryInvariant == Spec => []RecoveryInv
<1>1. Init => RecoveryInv
  BY RecoveryInit
<1>2. RecoveryInv /\ [Next]_vars => RecoveryInv'
  BY RecoveryStep
<1>3. QED
  BY <1>1, <1>2, PTL DEF Spec

\* No object on the cluster is forgotten: the record holds its key, or a tombstone does, or
\* its job has not ended.
THEOREM NothingIsForgotten == Spec => []NothingForgotten
<1>1. RecoveryInv => NothingForgotten
  BY DEF RecoveryInv, ObjectsAreKnown, NothingForgotten
<1>2. QED
  BY <1>1, RecoveryInvariant, PTL

\* A job at work on the cluster has the journal it would be undone from.
THEOREM LiveJobsAreJournaled == Spec => []LiveJobHasJournal
<1>1. RecoveryInv => LiveJobHasJournal
  BY DEF RecoveryInv, JournaledJobs, LiveJobHasJournal, At
<1>2. QED
  BY <1>1, RecoveryInvariant, PTL

\* The background pass deletes nothing of an instance whose record is not being destroyed,
\* however old what it read is.
THEOREM ThePassSparesTheLiving == Spec => PassSparesTheLiving
<1>1. RecoveryInv /\ [Next]_vars =>
        [PassStep => \A k \in Keys : rec.key = k /\ rec.status # "deleting" => objs'[k] = objs[k]]_vars
  BY PassStepKeeps DEF PassEffect
<1>2. QED
  BY <1>1, RecoveryInvariant, PTL DEF Spec, PassSparesTheLiving
=============================================================================
