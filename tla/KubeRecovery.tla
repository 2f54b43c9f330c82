---------------------------- MODULE KubeRecovery ----------------------------
(***************************************************************************)
(* What fleetd does with the Kubernetes jobs a previous daemon died in, and *)
(* with the objects of destroyed instances: the job journals                *)
(* (internal/backend/kubernetes/journal.go), the undo of an interrupted     *)
(* rebuild (recover.go), a destroy's tombstones (footprint.go, down.go) and *)
(* the background pass (internal/server/kube_reconcile.go).                 *)
(*                                                                         *)
(* One connection and one instance name, whose record holds one key at a    *)
(* time; every create mints the next key.  An instance's objects are        *)
(* "base" (its disk, StatefulSet and Secrets) and "next" (what a rebuild    *)
(* makes for the next generation).  Its disk's root is "whole", "mixed"     *)
(* from a rebuild's reset until the new root is seeded, and "next" from     *)
(* there until the rebuild ends (the previous root is in trash).            *)
(***************************************************************************)
EXTENDS Naturals, FiniteSets

CONSTANTS
    MaxKeys,       \* creates
    MaxEvents      \* rebuild requests, ends of the daemon, losses of the connection, and
                   \* undo attempts that fail though it is usable

ASSUME KubeAssumption == {MaxKeys, MaxEvents} \subseteq Nat

VARIABLES
    rec,      \* the instance's record in state.json
    minted,   \* how many keys creates have minted
    journal,  \* ~/.fleet/kube/jobs: each key's journal file
    tomb,     \* footprint.json: each key's tombstone, by its write (0: none)
    objs,     \* the cluster's objects carrying each key
    mark,     \* each key's anchor carries its journal's mark
    root,     \* each instance disk's root
    job,      \* this daemon's provisioning job of each key
    destroy,  \* this daemon's destroy job of each key
    pass,     \* the background pass
    usable,   \* the connection is usable, with this daemon holding its Lease
    budget    \* events left

vars == <<rec, minted, journal, tomb, objs, mark, root, job, destroy, pass, usable, budget>>

Keys == 1..MaxKeys
NoKey == 0

Statuses == {"none", "creating", "running", "rebuilding", "failed", "deleting"}
Errors == {"none", "undoing", "other"}
RecType == [key : {NoKey} \cup Keys, ran : BOOLEAN, status : Statuses, error : Errors]
Journals == {"none", "create", "rebuild", "reset"}
JobSteps == {"none", "begin", "apply", "clear", "finish", "commit", "abandon", "retry", "load", "mirror",
             "make", "reset", "seed", "launch", "await", "rollback", "clean", "record"}
JobOps == {"none", "create", "rebuild", "undo", "redo", "revert", "fail"}
JobType == [pc : JobSteps, op : JobOps, cancelled : BOOLEAN]
PassType == [pc : {"idle", "footprint", "records", "work", "drop"}, at : {NoKey} \cup Keys,
             files : [Keys -> Journals], tombs : [Keys -> 0..2], rec : RecType]

\* Every variable has its type.
TypeOK ==
    /\ rec \in RecType
    /\ minted \in 0..MaxKeys
    /\ journal \in [Keys -> Journals]
    /\ tomb \in [Keys -> 0..2]
    /\ objs \in [Keys -> SUBSET {"base", "next"}]
    /\ mark \in [Keys -> BOOLEAN]
    /\ root \in [Keys -> {"none", "whole", "mixed", "next"}]
    /\ job \in [Keys -> JobType]
    /\ destroy \in [Keys -> {"none", "await", "down", "remove"}]
    /\ pass \in PassType
    /\ usable \in BOOLEAN
    /\ budget \in 0..MaxEvents

NoRec == [key |-> NoKey, ran |-> FALSE, status |-> "none", error |-> "none"]
NoJob == [pc |-> "none", op |-> "none", cancelled |-> FALSE]
NoPass == [pc |-> "idle", files |-> [k \in Keys |-> "none"], tombs |-> [k \in Keys |-> 0], rec |-> NoRec,
           at |-> NoKey]

Init ==
    /\ rec = NoRec /\ minted = 0
    /\ journal = [k \in Keys |-> "none"] /\ tomb = [k \in Keys |-> 0]
    /\ objs = [k \in Keys |-> {}] /\ mark = [k \in Keys |-> FALSE] /\ root = [k \in Keys |-> "none"]
    /\ job = [k \in Keys |-> NoJob] /\ destroy = [k \in Keys |-> "none"] /\ pass = NoPass
    /\ usable = TRUE
    /\ budget = MaxEvents

Spend == budget > 0 /\ budget' = budget - 1

\* Key k's provisioning job goes on to pc, as op.
Goto(k, pc, op) == job' = [job EXCEPT ![k] = [pc |-> pc, op |-> op, cancelled |-> @.cancelled]]
Done(k) == job' = [job EXCEPT ![k] = NoJob]
At(k, pc) == job[k].pc = pc

\* A job of the instance's name has not ended, cancelled or not.
HasProvisioningJob == \E k \in Keys : job[k].pc # "none"

cluster == <<objs, mark, root>>
others == <<minted, tomb, destroy, pass, usable>>

-----------------------------------------------------------------------------
(* Creates.                                                                *)

\* A create saves its record, with a new key, and starts its job.
Create ==
    /\ rec.key = NoKey /\ minted < MaxKeys
    /\ minted' = minted + 1
    /\ rec' = [key |-> minted + 1, status |-> "creating", error |-> "none", ran |-> FALSE]
    /\ job' = [job EXCEPT ![minted + 1] = [pc |-> "begin", op |-> "create", cancelled |-> FALSE]]
    /\ UNCHANGED <<journal, tomb, cluster, destroy, pass, usable, budget>>

\* It begins its journal before its first write to the cluster, and journals each object
\* first, unless it fails, was cancelled, or an earlier job's journal is there.
Begin(k) ==
    /\ At(k, "begin")
    /\ \/ /\ journal[k] = "none" /\ ~job[k].cancelled
          /\ journal' = [journal EXCEPT ![k] = "create"]
          /\ Goto(k, "apply", "create")
       \/ Goto(k, "commit", "fail") /\ UNCHANGED journal
    /\ UNCHANGED <<rec, cluster, others, budget>>

\* The object is applied, with the job's mark, if the cluster takes it.
Apply(k) ==
    /\ At(k, "apply")
    /\ \/ /\ usable
          /\ objs' = [objs EXCEPT ![k] = {"base"}]
          /\ mark' = [mark EXCEPT ![k] = TRUE]
          /\ root' = [root EXCEPT ![k] = "whole"]
          /\ \E op \in {"create", "fail"} : Goto(k, "clear", op)
       \/ Goto(k, "clear", "fail") /\ UNCHANGED cluster
    /\ UNCHANGED <<rec, journal, others, budget>>

\* A job that ended takes its mark off the anchor (best-effort),
ClearMark(k) ==
    /\ At(k, "clear")
    /\ \E m \in {mark[k], mark[k] /\ ~usable} : mark' = [mark EXCEPT ![k] = m]
    /\ Goto(k, "finish", job[k].op)
    /\ UNCHANGED <<rec, journal, objs, root, others, budget>>

\* and removes its journal; a rebuild that succeeded is at its new generation from here
\* on, and leaves the previous one's objects and root to be deleted.
Finish(k) ==
    /\ At(k, "finish")
    /\ journal' = [journal EXCEPT ![k] = "none"]
    /\ IF job[k].op = "rebuild"
       THEN /\ root' = [root EXCEPT ![k] = "whole"]
            /\ objs' = [objs EXCEPT ![k] = @ \ {"next"}]
       ELSE UNCHANGED <<root, objs>>
    /\ Goto(k, "commit", job[k].op)
    /\ UNCHANGED <<rec, mark, others, budget>>

\* The name's record, unless there is none or a destroy has it.
Settles == rec.key # NoKey /\ rec.status # "deleting"

\* The record with an outcome on it.
Settled(status, error, ran) == [key |-> rec.key, status |-> status, error |-> error, ran |-> ran]

\* The run's outcome goes on the name's record; a run that succeeded and finds none to
\* settle is torn down.
Commit(k) ==
    /\ At(k, "commit")
    /\ LET failed == job[k].op = "fail" \/ job[k].cancelled IN
       rec' = IF ~Settles THEN rec
              ELSE IF failed THEN Settled("failed", "other", rec.ran \/ job[k].op # "fail")
              ELSE Settled("running", "none", TRUE)
    /\ IF job[k].op # "fail" /\ ~Settles THEN Goto(k, "abandon", job[k].op) ELSE Done(k)
    /\ UNCHANGED <<journal, cluster, others, budget>>

-----------------------------------------------------------------------------
(* Teardown by key.                                                        *)

\* Every object of the key goes,
DeleteAll(k) ==
    /\ objs' = [objs EXCEPT ![k] = {}]
    /\ mark' = [mark EXCEPT ![k] = FALSE]
    /\ root' = [root EXCEPT ![k] = "none"]

\* and its journal, if the cluster lets it.
DeleteByKey(k) ==
    IF usable
    THEN /\ DeleteAll(k)
         /\ journal' = [journal EXCEPT ![k] = "none"]
    ELSE UNCHANGED <<cluster, journal>>

\* The tombstone first, then the teardown.
DownByKey(k) == tomb' = [tomb EXCEPT ![k] = 2] /\ DeleteByKey(k)

Abandon(k) ==
    /\ At(k, "abandon")
    /\ DownByKey(k)
    /\ Done(k)
    /\ UNCHANGED <<rec, minted, destroy, pass, usable, budget>>

\* A destroy marks the record, then cancels the instance's jobs.
Destroy(k) ==
    /\ rec.key = k /\ destroy[k] = "none"
    /\ rec' = [rec EXCEPT !.status = "deleting"]
    /\ job' = [job EXCEPT ![k] = [@ EXCEPT !.cancelled = job[k].pc # "none"]]
    /\ destroy' = [destroy EXCEPT ![k] = "await"]
    /\ UNCHANGED <<minted, journal, tomb, cluster, pass, usable, budget>>

\* It waits for them to end (none outlives destroyCancelWait here), and tombstones the key,
Destroying(k) ==
    /\ destroy[k] = "await"
    /\ At(k, "none")
    /\ tomb' = [tomb EXCEPT ![k] = 1]
    /\ destroy' = [destroy EXCEPT ![k] = "down"]
    /\ UNCHANGED <<rec, minted, journal, cluster, job, pass, usable, budget>>

\* tears it down,
Down(k) ==
    /\ destroy[k] = "down"
    /\ DownByKey(k)
    /\ destroy' = [destroy EXCEPT ![k] = "remove"]
    /\ UNCHANGED <<rec, minted, job, pass, usable, budget>>

\* and removes the record, whatever the teardown left.
Remove(k) ==
    /\ destroy[k] = "remove"
    /\ rec' = NoRec
    /\ destroy' = [destroy EXCEPT ![k] = "none"]
    /\ UNCHANGED <<minted, journal, tomb, cluster, job, pass, usable, budget>>

-----------------------------------------------------------------------------
(* Rebuilds.                                                               *)

\* A rebuild of a settled record; one that never ran retries its create.
Rebuild(k) ==
    /\ rec.key = k /\ rec.status \in {"running", "failed"}
    /\ Spend
    /\ rec' = [rec EXCEPT !.status = "rebuilding"]
    /\ job' = [job EXCEPT ![k] = [pc |-> IF rec.ran THEN "load" ELSE "retry", op |-> "rebuild", cancelled |-> FALSE]]
    /\ UNCHANGED <<journal, cluster, others>>

\* What the failed create left is deleted by key, and the create runs again.
RetryCreate(k) ==
    /\ At(k, "retry")
    /\ DeleteByKey(k)
    /\ IF usable THEN Goto(k, "begin", "create") ELSE Goto(k, "commit", "fail")
    /\ UNCHANGED <<rec, others, budget>>

\* A rebuild first finishes the undo of an earlier one that kept its journal, then begins
\* its own.
Load(k) ==
    /\ At(k, "load")
    /\ \/ /\ journal[k] = "none" /\ ~job[k].cancelled
          /\ journal' = [journal EXCEPT ![k] = "rebuild"]
          /\ Goto(k, "mirror", "rebuild")
       \/ /\ journal[k] \in {"rebuild", "reset"}
          /\ Goto(k, "rollback", "redo") /\ UNCHANGED journal
       \/ Goto(k, "commit", "fail") /\ UNCHANGED journal
    /\ UNCHANGED <<rec, cluster, others, budget>>

\* The job's mark goes on the StatefulSet.
MirrorStep(k) ==
    /\ At(k, "mirror")
    /\ \/ /\ usable
          /\ mark' = [mark EXCEPT ![k] = TRUE]
          /\ Goto(k, "make", "rebuild")
       \/ Goto(k, "clear", "fail") /\ UNCHANGED mark
    /\ UNCHANGED <<rec, journal, objs, root, others, budget>>

\* A rebuild that fails is undone, unless a destroy cancelled it.
Failed(k) == IF job[k].cancelled THEN Goto(k, "clear", "fail") ELSE Goto(k, "rollback", "revert")

\* The export, the build and the delivery leave the instance as it is (one that fails
\* there only ends its journal); then it is stopped and the next generation's objects are
\* applied, each journaled first.
Make(k) ==
    /\ At(k, "make")
    /\ \/ /\ usable /\ ~job[k].cancelled
          /\ journal' = [journal EXCEPT ![k] = "rebuild"]
          /\ objs' = [objs EXCEPT ![k] = @ \cup {"next"}]
          /\ Goto(k, "reset", "rebuild")
       \/ Goto(k, "clear", "fail") /\ UNCHANGED <<journal, objs>>
       \/ Failed(k) /\ UNCHANGED <<journal, objs>>
    /\ UNCHANGED <<rec, mark, root, others, budget>>

\* Mutant of Reset: the seed starts with the journal at its earlier step.
ResetUnjournaled(k) ==
    /\ At(k, "reset")
    /\ \/ ~job[k].cancelled /\ Goto(k, "seed", "rebuild")
       \/ Failed(k)
    /\ UNCHANGED <<rec, journal, cluster, others, budget>>

\* The reset is journaled before the seed starts.
Reset(k) ==
    /\ At(k, "reset")
    /\ \/ /\ ~job[k].cancelled
          /\ journal' = [journal EXCEPT ![k] = "reset"]
          /\ Goto(k, "seed", "rebuild")
       \/ Failed(k) /\ UNCHANGED journal
    /\ UNCHANGED <<rec, cluster, others, budget>>

\* The seed moves the previous root to trash and copies the new one in,
Seed(k) ==
    /\ At(k, "seed")
    /\ \/ /\ usable
          /\ root' = [root EXCEPT ![k] = "mixed"]
          /\ Goto(k, "launch", "rebuild")
       \/ Failed(k) /\ UNCHANGED root
    /\ UNCHANGED <<rec, journal, objs, mark, others, budget>>

\* and the new generation is launched over it.
Launch(k) ==
    /\ At(k, "launch")
    /\ \/ /\ usable
          /\ root' = [root EXCEPT ![k] = "next"]
          /\ Goto(k, "clear", "rebuild")
       \/ Failed(k) /\ UNCHANGED root
    /\ UNCHANGED <<rec, journal, objs, mark, others, budget>>

-----------------------------------------------------------------------------
(* Undoing a rebuild: the reconciler's job ("undo"), a retry's of a kept     *)
(* journal ("redo") and a failed rebuild's own ("revert").                   *)

\* The live objects no longer match the journal.
Stale(k) == "base" \notin objs[k] \/ ~mark[k]

\* What an undo that is over leaves the job to do: the reconciler's settles the record,
\* if it is still the one undone, and ends; a retry goes on; a failed rebuild's fails.
Undone(k, status) ==
    /\ journal' = [journal EXCEPT ![k] = "none"]
    /\ rec' = IF job[k].op = "undo" /\ rec.key = k /\ rec.status = "rebuilding"
              THEN Settled(status, IF status = "failed" THEN "other" ELSE "none", rec.ran)
              ELSE rec
    /\ \/ job[k].op = "undo" /\ Done(k)
       \/ job[k].op = "redo" /\ Goto(k, "load", "rebuild")
       \/ job[k].op = "revert" /\ Goto(k, "commit", "fail")

\* The reconciler's undo waits for the connection; a destroy ends its wait.
AwaitUsable(k) ==
    /\ At(k, "await")
    /\ \/ usable /\ Goto(k, "rollback", "undo")
       \/ job[k].cancelled /\ Done(k)
    /\ UNCHANGED <<rec, journal, cluster, others, budget>>

\* A stale journal is discarded.  Past the reset, the rollback Job puts the previous root
\* back and the previous StatefulSet is re-applied, whose body has no mark (whether that
\* takes the mark off is the API server's field ownership).
Rollback(k) ==
    /\ At(k, "rollback") /\ usable
    /\ IF Stale(k) THEN Undone(k, "failed") /\ UNCHANGED <<root, mark>>
       ELSE /\ IF journal[k] = "reset"
               THEN /\ root' = [root EXCEPT ![k] = "whole"]
                    /\ \E m \in {TRUE, FALSE} : mark' = [mark EXCEPT ![k] = m]
               ELSE UNCHANGED <<root, mark>>
            /\ Goto(k, "clean", job[k].op) /\ UNCHANGED <<rec, journal>>
    /\ UNCHANGED <<objs, others, budget>>

\* What the rebuild made is deleted, the replicas restored and the mark cleared (best-effort).
Clean(k) ==
    /\ At(k, "clean") /\ usable
    /\ objs' = [objs EXCEPT ![k] = @ \ {"next"}]
    /\ \E m \in {mark[k], FALSE} : mark' = [mark EXCEPT ![k] = m]
    /\ Goto(k, "record", job[k].op)
    /\ UNCHANGED <<rec, journal, root, others, budget>>

\* An undo before the reset leaves the status the record had, one past it a failed record
\* at the restored generation.
FinishUndo(k) ==
    /\ At(k, "record")
    /\ Undone(k, IF journal[k] = "reset" THEN "failed" ELSE "running")
    /\ UNCHANGED <<cluster, others, budget>>

\* An undo fails when the connection is lost, or on its own.  The reconciler tries again a
\* few times, then keeps the journal for the next start, as a failed rebuild does.
UndoFails(k) ==
    /\ job[k].pc \in {"rollback", "clean"}
    /\ IF usable THEN Spend ELSE UNCHANGED budget
    /\ LET keep == Settled("failed", "undoing", rec.ran) IN
       \/ /\ job[k].op = "undo" /\ ~job[k].cancelled
          /\ Goto(k, "await", "undo") /\ UNCHANGED rec
       \/ /\ job[k].op = "undo"
          /\ rec' = IF ~job[k].cancelled /\ rec.key = k /\ rec.status = "rebuilding" THEN keep ELSE rec
          /\ Done(k)
       \/ /\ job[k].op = "revert"
          /\ rec' = IF Settles THEN keep ELSE rec
          /\ Done(k)
       \/ /\ job[k].op = "redo"
          /\ Goto(k, "commit", "fail") /\ UNCHANGED rec
    /\ UNCHANGED <<journal, cluster, others>>

JobStep(k) ==
    \/ Begin(k) \/ Apply(k) \/ ClearMark(k) \/ Finish(k) \/ Commit(k) \/ Abandon(k)
    \/ RetryCreate(k) \/ Load(k) \/ MirrorStep(k) \/ Make(k) \/ Reset(k) \/ Seed(k) \/ Launch(k)
    \/ AwaitUsable(k) \/ Rollback(k) \/ Clean(k) \/ FinishUndo(k) \/ UndoFails(k)

DestroyStep(k) == Destroying(k) \/ Down(k) \/ Remove(k)

-----------------------------------------------------------------------------
(* The background pass.  The connection's full preflights ask for one again  *)
(* and again, so one is due whenever the connection is usable.               *)

\* The pass goes on to pc, with what it has read and not dealt with yet.
PassTo(pc, files, tombs, r, at) ==
    pass' = [pc |-> pc, files |-> files, tombs |-> tombs, rec |-> r, at |-> at]

passOthers == <<rec, minted, job, destroy, usable, budget>>

\* It reads the journals,
PassStart ==
    /\ pass.pc = "idle" /\ usable
    /\ PassTo("footprint", journal, pass.tombs, pass.rec, NoKey)
    /\ UNCHANGED <<journal, tomb, cluster, passOthers>>

\* then the tombstones,
PassFootprint ==
    /\ pass.pc = "footprint"
    /\ PassTo("records", pass.files, tomb, pass.rec, NoKey)
    /\ UNCHANGED <<journal, tomb, cluster, passOthers>>

Transitional == {"creating", "rebuilding", "deleting"}

\* Mutant of Outlived: a failed undo's record is like any other.
OutlivedFailed(k, r) ==
    /\ pass.files[k] # "none" /\ ~HasProvisioningJob
    /\ r.key = k /\ r.status \notin Transitional

\* Record r holds key k and has outlived its journal, as the pass read it: no job is
\* writing it, and it is not a failed undo's, kept for the next start.
Outlived(k, r) ==
    /\ pass.files[k] # "none" /\ ~HasProvisioningJob
    /\ r.key = k /\ r.status \notin Transitional
    /\ ~(pass.files[k] \in {"rebuild", "reset"} /\ r.status = "failed" /\ r.error = "undoing")

\* Mutant of PassRecords: records that cannot be loaded count as none.
PassRecordsUnread ==
    /\ pass.pc = "records"
    /\ PassTo("work", pass.files, pass.tombs, pass.rec, NoKey)
    /\ UNCHANGED <<journal, tomb, cluster, passOthers>>

\* then the records.  When no journal is without a record there is no cluster I/O to wait
\* for: one its record outlived is discarded at once.
PassRecords ==
    /\ pass.pc = "records"
    /\ LET atOnce == \A k \in Keys : pass.files[k] # "none" => rec.key = k IN
       /\ journal' = [k \in Keys |-> IF atOnce /\ Outlived(k, rec) THEN "none" ELSE journal[k]]
       /\ PassTo("work", IF atOnce THEN NoPass.files ELSE pass.files, pass.tombs, rec, NoKey)
    /\ UNCHANGED <<tomb, cluster, passOthers>>

\* Mutant of PassJournal: a journal the cluster no longer matches is kept.
PassJournalKeepsStale(k) ==
    /\ pass.pc = "work" /\ pass.files[k] # "none"
    /\ LET garbage == pass.rec.key # k /\ ~HasProvisioningJob /\ usable /\ ~Stale(k) IN
       /\ journal' = [journal EXCEPT ![k] = IF garbage \/ Outlived(k, pass.rec) THEN "none" ELSE @]
       /\ IF garbage
          THEN DeleteAll(k) ELSE UNCHANGED cluster
    /\ PassTo("work", [pass.files EXCEPT ![k] = "none"], pass.tombs, pass.rec, NoKey)
    /\ UNCHANGED <<tomb, passOthers>>

\* It goes through the journals: one its record outlived is discarded; one no record holds,
\* nor a job writes, loses its objects with it, unless the cluster no longer matches it.
PassJournal(k) ==
    /\ pass.pc = "work" /\ pass.files[k] # "none"
    /\ LET garbage == pass.rec.key # k /\ ~HasProvisioningJob /\ usable IN
       /\ journal' = [journal EXCEPT ![k] = IF garbage \/ Outlived(k, pass.rec) THEN "none" ELSE @]
       /\ IF garbage /\ ~Stale(k)
          THEN DeleteAll(k) ELSE UNCHANGED cluster
    /\ PassTo("work", [pass.files EXCEPT ![k] = "none"], pass.tombs, pass.rec, NoKey)
    /\ UNCHANGED <<tomb, passOthers>>

\* A tombstone is dropped unless it was written again since it was read.
DropTombstoneOf(k) == tomb' = [tomb EXCEPT ![k] = IF @ = pass.tombs[k] THEN 0 ELSE @]

\* Mutant of PassTombstone: keys that cannot be listed count as gone.
PassTombstoneUnlisted(k) ==
    /\ pass.pc = "work" /\ pass.files = NoPass.files /\ pass.tombs[k] # 0
    /\ LET done == PassTo("work", pass.files, [pass.tombs EXCEPT ![k] = 0], pass.rec, NoKey) IN
       IF pass.rec.key = k /\ pass.rec.status # "deleting"
       THEN DropTombstoneOf(k) /\ done /\ UNCHANGED cluster
       ELSE \/ /\ usable => objs[k] = {}
               /\ PassTo("drop", pass.files, pass.tombs, pass.rec, k)
               /\ UNCHANGED <<tomb, cluster>>
            \/ usable /\ objs[k] # {} /\ DeleteAll(k) /\ done /\ UNCHANGED tomb
            \/ ~usable /\ done /\ UNCHANGED <<tomb, cluster>>
    /\ UNCHANGED <<journal, passOthers>>

\* Then through the tombstones: a key a record holds again is forgotten; one with objects
\* left loses them; one with none left is picked to be dropped.
PassTombstone(k) ==
    /\ pass.pc = "work" /\ pass.files = NoPass.files /\ pass.tombs[k] # 0
    /\ LET done == PassTo("work", pass.files, [pass.tombs EXCEPT ![k] = 0], pass.rec, NoKey) IN
       IF pass.rec.key = k /\ pass.rec.status # "deleting"
       THEN DropTombstoneOf(k) /\ done /\ UNCHANGED cluster
       ELSE \/ /\ usable /\ objs[k] = {}
               /\ PassTo("drop", pass.files, pass.tombs, pass.rec, k)
               /\ UNCHANGED <<tomb, cluster>>
            \/ usable /\ objs[k] # {} /\ DeleteAll(k) /\ done /\ UNCHANGED tomb
            \/ ~usable /\ done /\ UNCHANGED <<tomb, cluster>>
    /\ UNCHANGED <<journal, passOthers>>

\* Nothing of the key was left: its tombstone goes, unless a job of the name has not ended
\* and may still write an object.
PassDrop ==
    /\ pass.pc = "drop"
    /\ IF HasProvisioningJob THEN UNCHANGED tomb ELSE DropTombstoneOf(pass.at)
    /\ PassTo("work", pass.files, [pass.tombs EXCEPT ![pass.at] = 0], pass.rec, NoKey)
    /\ UNCHANGED <<journal, cluster, passOthers>>

PassEnd ==
    /\ pass.pc = "work" /\ pass.files = NoPass.files /\ pass.tombs = NoPass.tombs
    /\ pass' = NoPass
    /\ UNCHANGED <<journal, tomb, cluster, passOthers>>

PassStep ==
    \/ PassFootprint \/ PassRecords \/ PassDrop \/ PassEnd
    \/ \E k \in Keys : PassJournal(k) \/ PassTombstone(k)

-----------------------------------------------------------------------------
(* The daemon and the connection.                                          *)

\* The daemon ends, killed or shutting down (which leaves each job at its journal), and the
\* next one starts: interrupted rebuilds that left a journal, and those whose undo failed,
\* are claimed by undo jobs; every other interrupted record is failed, and a failed
\* create's journal removed.
Claims(k) ==
    /\ rec.key = k /\ journal[k] \in {"rebuild", "reset"}
    /\ rec.status = "rebuilding" \/ (rec.status = "failed" /\ rec.error = "undoing")

\* Mutant of Restart: an interrupted record nothing claims is left as it is.
RestartUnmarked ==
    /\ Spend
    /\ job' = [k \in Keys |-> IF Claims(k) THEN [pc |-> "await", op |-> "undo", cancelled |-> FALSE] ELSE NoJob]
    /\ rec' = IF \E k \in Keys : Claims(k) THEN [rec EXCEPT !.status = "rebuilding"] ELSE rec
    /\ destroy' = [k \in Keys |-> "none"]
    /\ pass' = NoPass
    /\ UNCHANGED <<minted, journal, tomb, cluster, usable>>

Restart ==
    /\ Spend
    /\ job' = [k \in Keys |-> IF Claims(k) THEN [pc |-> "await", op |-> "undo", cancelled |-> FALSE] ELSE NoJob]
    /\ rec' = IF \E k \in Keys : Claims(k) THEN [rec EXCEPT !.status = "rebuilding"]
              ELSE IF rec.status \in {"creating", "rebuilding"} THEN Settled("failed", "other", rec.ran)
              ELSE rec
    /\ journal' = [k \in Keys |-> IF /\ rec.key = k /\ journal[k] = "create"
                                     /\ rec.status \in {"creating", "rebuilding"} THEN "none" ELSE journal[k]]
    /\ destroy' = [k \in Keys |-> "none"]
    /\ pass' = NoPass
    /\ UNCHANGED <<minted, tomb, cluster, usable>>

Lose == usable /\ Spend /\ usable' = FALSE
        /\ UNCHANGED <<rec, minted, journal, tomb, cluster, job, destroy, pass>>
Regain == ~usable /\ usable' = TRUE
          /\ UNCHANGED <<rec, minted, journal, tomb, cluster, job, destroy, pass, budget>>

Next ==
    \/ Create \/ PassStart \/ PassStep \/ Restart \/ Lose \/ Regain
    \/ \E k \in Keys : Rebuild(k) \/ Destroy(k) \/ JobStep(k) \/ DestroyStep(k)

Spec == Init /\ [][Next]_vars

\* Goroutines run, the connection's worker keeps asking for passes, and the cluster comes
\* back.
Fairness ==
    /\ WF_vars(PassStart) /\ WF_vars(PassStep) /\ WF_vars(Regain)
    /\ \A k \in Keys : WF_vars(JobStep(k)) /\ WF_vars(DestroyStep(k))

FairSpec == Spec /\ Fairness

-----------------------------------------------------------------------------
(* Properties.                                                             *)

\* No object on the cluster is forgotten: whatever carries a key is held by the record, or
\* its key is tombstoned, or its job has not ended ("whatever of it the teardown does not
\* delete ... is known garbage the background pass deletes", kube_reconcile.go).
NothingForgotten ==
    \A k \in Keys : objs[k] # {} => rec.key = k \/ tomb[k] # 0 \/ ~At(k, "none")

\* While a job works on the cluster its journal is there to undo it from, past the reset
\* as such, whatever passes, restarts and destroys do meanwhile.
LiveJobHasJournal ==
    \A k \in Keys :
        /\ job[k].pc \in {"apply", "mirror", "make", "reset", "seed", "rollback", "clean"} => journal[k] # "none"
        /\ At(k, "launch") => journal[k] = "reset"

\* While an instance's disk is between two roots nothing discards the journal that puts the
\* previous one back, unless a destroy is to delete it ("one whose undo fails too keeps its
\* journal, and the next start (or a retry) undoes it again", rebuild.go).  Two cases are left
\* out: the record says no more that its undo failed (a later rebuild failed before it got to
\* the kept undo), and a pass that has read the file of the instance's create.
HalfRootKeepsJournal ==
    [][\A k \in Keys :
         /\ root[k] = "mixed" /\ journal[k] = "reset" /\ rec.key = k
         /\ rec.status # "deleting" /\ ~(rec.status = "failed" /\ rec.error = "other")
         /\ pass.files[k] # "create"
         => journal'[k] = "reset"]_vars

\* The background pass deletes nothing of an instance whose record is not being destroyed,
\* whatever jobs, destroys and daemons did since it read the journals, the tombstones and
\* the records.
PassSparesTheLiving ==
    [][PassStep => \A k \in Keys : rec.key = k /\ rec.status # "deleting" => objs'[k] = objs[k]]_vars

\* What a destroy leaves of an instance, whatever cut it off, goes in the end, and its
\* tombstone with it.
GarbageGoes ==
    \A k \in Keys : k <= minted /\ rec.key # k ~> objs[k] = {} /\ tomb[k] = 0 /\ journal[k] = "none"

\* An interrupted rebuild does not stay REBUILDING: its undo, or the rebuild itself, ends.
RebuildSettles == rec.status = "rebuilding" ~> rec.status # "rebuilding"

-----------------------------------------------------------------------------
(* Why: whose jobs, tombstones and readings there can be.                  *)

\* A key not minted yet is nowhere.
Fresh ==
    \A k \in Keys : k > minted =>
        /\ rec.key # k /\ objs[k] = {} /\ tomb[k] = 0 /\ journal[k] = "none"
        /\ pass.files[k] = "none" /\ pass.tombs[k] = 0 /\ pass.rec.key # k

\* A job works for the record's key, a destroy on a record being destroyed, and once it is
\* past its wait the key has no job.
JobsOfTheRecord ==
    \A k \in Keys :
        /\ ~At(k, "none") => rec.key = k
        /\ At(k, "abandon") => rec.status = "deleting"
        /\ destroy[k] # "none" => rec.key = k /\ rec.status = "deleting"
        /\ destroy[k] \in {"down", "remove"} => At(k, "none")

\* A key with a tombstone, also one the pass only read, never has a job again, nor a record
\* that is not being destroyed.
TombstonesAreFinal ==
    \A k \in Keys : tomb[k] # 0 \/ pass.tombs[k] # 0 =>
        /\ At(k, "none")
        /\ rec.key = k => rec.status = "deleting"

\* What the pass read of the records is still good enough to act on.
PassReads ==
    /\ pass.pc = "drop" => pass.at \in Keys /\ pass.tombs[pass.at] # 0 /\ objs[pass.at] = {}
    /\ pass.pc \in {"work", "drop"} => \A k \in Keys :
         /\ pass.tombs[k] # 0 /\ pass.rec.key = k => pass.rec.status = "deleting"
         /\ pass.files[k] # "none" /\ pass.rec.key # k => rec.key # k

\* Objects are the record's or tombstoned, from before the record goes.
ObjectsAreKnown ==
    \A k \in Keys : objs[k] # {} =>
        /\ rec.key = k \/ tomb[k] # 0
        /\ destroy[k] = "remove" => tomb[k] # 0

\* A job has its journal from its first write to the cluster on, also while its undo waits.
JournaledJobs ==
    \A k \in Keys :
        /\ job[k].pc \in {"apply", "mirror", "make", "reset", "await", "rollback", "clean"} => journal[k] # "none"
        /\ job[k].pc \in {"seed", "launch"} => journal[k] = "reset"

RecoveryInv ==
    /\ TypeOK /\ Fresh /\ JobsOfTheRecord /\ TombstonesAreFinal /\ PassReads
    /\ ObjectsAreKnown /\ JournaledJobs
=============================================================================
