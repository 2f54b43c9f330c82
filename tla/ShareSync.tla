------------------------------ MODULE ShareSync ------------------------------
(***************************************************************************)
(* One path of a fleet's shared folders, kept converged between its copies *)
(* by the hub (internal/sharesync): the copy on the daemon host, in the    *)
(* hub's process, and the spokes in pods, each over one connection.  A     *)
(* copy scans its file against its record and reports what changed; the    *)
(* hub plans a report under its lock, decides it without (the loser of two *)
(* concurrent changes is fetched and kept as a conflict copy), commits it  *)
(* unless the path changed meanwhile, and sends the outcome to the others, *)
(* which write it unless they hold a change of their own.                  *)
(*                                                                         *)
(* The path is a file under the mirror policy.  A content is a number, its *)
(* modification time: a copy's user picks any, since the copies' clocks    *)
(* differ.  No two edits write the same content, and a fingerprint is the  *)
(* content it was taken of.  Delays, lanes and backoffs are left to        *)
(* interleaving; users' changes and faults share one budget.               *)
(***************************************************************************)
EXTENDS Integers, FiniteSets

CONSTANTS
    Sides,      \* the copies
    Host,       \* the one in the hub's process
    MaxEdits,   \* how many contents are written
    MaxEvents   \* how many changes users make and faults happen

ASSUME ShareAssumption == Host \in Sides /\ MaxEdits \in Nat /\ MaxEvents \in Nat

VARIABLES
    hub,      \* the hub's journaled state: its epoch, its last rev, the newest delete it
              \* forgot, and the path's entry (cur)
    copies,   \* the conflict copies kept
    call,     \* the hub's handling of a side's report, or of its hello
    sr,       \* the hub's view of each side: the rev it holds, is the path dirty
    link,     \* each side's connection: "down", "hello" (not welcomed yet), "up"
    disk,     \* each side's file, Gone for none
    rec,      \* each side's record of the path, and the epoch of its revs
    report,   \* each side's report under way
    task,     \* the op each side is applying
    made,     \* the contents written so far
    over,     \* those a user replaced or deleted having them before them
    crossed,  \* "op": an op was applied, "report": a report of an earlier connection was
              \* taken, though its side had or may have reported the path since it was sent
    budget

hubVars == <<hub, copies, call, sr>>
sideVars == <<disk, rec, report, task>>
ghosts == <<made, over, crossed, budget>>
vars == <<hubVars, link, sideVars, ghosts>>

Gone == 0
Contents == 1 .. MaxEdits
Values == {Gone} \cup Contents

\* A rev, 0 for none; a side that does not hold the path holds NotHeld.
Revs == Nat
NotHeld == -1

NoEntry == [val |-> Gone, rev |-> 0, origin |-> Host, base |-> 0]
EntryType == [val : Values, rev : Revs, origin : Sides, base : Revs]
HubType == [epoch : 0 .. MaxEvents, rev : Revs, forgot : Revs, cur : EntryType]

\* A side without a record has has = FALSE; sent marks a change the hub has not seen.
RecType == [has : BOOLEAN, rev : Revs, val : Values, sent : BOOLEAN, epoch : 0 .. MaxEvents]
NoRec(e) == [has |-> FALSE, rev |-> 0, val |-> Gone, sent |-> FALSE, epoch |-> e]

\* A report waits for its answer, and carries it until the side takes it.
Idle == [pc |-> "idle", val |-> Gone, status |-> "none", rev |-> 0]
ReportType == [pc : {"idle", "wait", "acked"}, val : Values, rev : Revs,
               status : {"none", "accepted", "superseded", "deferred"}]

\* A call is to be planned, planned against an entry, or decided (copy: the conflict copy
\* it made).  A report of an earlier connection is handled as "old".
NoCall == [pc |-> "none", hello |-> FALSE, val |-> Gone, base |-> 0, cur |-> NoEntry, fast |-> FALSE,
           accept |-> FALSE, copy |-> Gone]
CallType == [pc : {"none", "plan", "decide", "commit"}, hello : BOOLEAN, val : Values, base : Revs,
             cur : EntryType, fast : BOOLEAN, accept : BOOLEAN, copy : Values]
Calls == Sides \X {"new", "old"}

NoTask == [pc |-> "none", val |-> Gone, rev |-> 0, at |-> NoRec(0), found |-> Gone, status |-> "none",
           reported |-> FALSE]
TaskType == [pc : {"none", "look", "fetch", "write", "done"}, val : Values, rev : Revs, at : RecType,
             found : Values, status : {"none", "applied", "again"}, reported : BOOLEAN]

\* Every variable has its type.
TypeOK ==
    /\ hub \in HubType
    /\ copies \subseteq Contents /\ made \subseteq Contents /\ over \subseteq Contents
    /\ call \in [Calls -> CallType]
    /\ sr \in [Sides -> [held : Revs \cup {NotHeld}, dirty : BOOLEAN]]
    /\ link \in [Sides -> {"down", "hello", "up"}]
    /\ disk \in [Sides -> Values]
    /\ rec \in [Sides -> RecType]
    /\ report \in [Sides -> ReportType]
    /\ task \in [Sides -> TaskType]
    /\ crossed \subseteq {"op", "report"} /\ budget \in 0 .. MaxEvents

Init ==
    /\ hub = [epoch |-> 0, rev |-> 0, forgot |-> 0, cur |-> NoEntry]
    /\ copies = {} /\ made = {} /\ over = {} /\ crossed = {} /\ budget = MaxEvents
    /\ call = [c \in Calls |-> NoCall]
    /\ sr = [s \in Sides |-> [held |-> NotHeld, dirty |-> FALSE]]
    /\ link = [s \in Sides |-> "down"]
    /\ disk = [s \in Sides |-> Gone]
    /\ rec = [s \in Sides |-> NoRec(0)]
    /\ report = [s \in Sides |-> Idle]
    /\ task = [s \in Sides |-> NoTask]

Spend == budget > 0 /\ budget' = budget - 1
Has(cur) == cur.rev > 0

-----------------------------------------------------------------------------
(* The users of the copies. *)

Replace(s, v) ==
    /\ Spend
    /\ over' = over \cup ({disk[s]} \ {Gone})
    /\ disk' = [disk EXCEPT ![s] = v]
    /\ UNCHANGED <<hubVars, link, rec, report, task, crossed>>

Edit(s) == \E v \in Contents \ made : Replace(s, v) /\ made' = made \cup {v}
Delete(s) == disk[s] # Gone /\ Replace(s, Gone) /\ UNCHANGED made

-----------------------------------------------------------------------------
(* A side's scan, its report and the hub's answer. *)

\* A scan finds the file unlike its record, or a change the hub has still to see.
Unreported(s) == IF rec[s].has THEN rec[s].sent \/ rec[s].val # disk[s] ELSE disk[s] # Gone

Scan(s) ==
    /\ link[s] = "up" /\ report[s].pc = "idle" /\ Unreported(s)
    /\ rec' = [rec EXCEPT ![s] = [@ EXCEPT !.has = TRUE, !.val = disk[s], !.sent = TRUE]]
    /\ report' = [report EXCEPT ![s] = [Idle EXCEPT !.pc = "wait", !.val = disk[s]]]
    /\ call' = [call EXCEPT ![<<s, "new">>] = [NoCall EXCEPT !.pc = "plan", !.val = disk[s], !.base = rec[s].rev]]
    /\ UNCHANGED <<hub, copies, sr, link, disk, task, ghosts>>

\* An accepted change is the hub's, a superseded one is seen; a change made since stays.
AfterAck(r, ack) ==
    LET same == r.val = ack.val IN
    IF ~(r.has /\ r.sent) THEN r
    ELSE IF ack.status = "accepted"
         THEN IF same /\ r.val = Gone THEN NoRec(r.epoch) ELSE [r EXCEPT !.rev = ack.rev, !.sent = ~same]
    ELSE IF ack.status = "superseded" /\ same THEN [r EXCEPT !.sent = FALSE, !.rev = IF ack.rev = 0 THEN 0 ELSE @]
    ELSE r

Acked(s) ==
    /\ link[s] = "up" /\ report[s].pc = "acked"
    /\ rec' = [rec EXCEPT ![s] = AfterAck(@, report[s])]
    /\ report' = [report EXCEPT ![s] = Idle]
    /\ UNCHANGED <<hubVars, link, disk, task, ghosts>>

-----------------------------------------------------------------------------
(* The hub's handling of a call (Hub.process). *)

\* The side of a call hears its answer unless its connection is gone; a hello's change has
\* none.
Answer(c, status, rev) ==
    /\ call' = [call EXCEPT ![c] = NoCall]
    /\ report' = IF c[2] = "old" \/ link[c[1]] # "up" THEN report
                 ELSE [report EXCEPT ![c[1]] = [pc |-> "acked", val |-> call[c].val, status |-> status, rev |-> rev]]

Crosses(c) == crossed' = crossed \cup (IF c[2] = "old" THEN {"report"} ELSE {})
HeldAs(s, v, r) == [sr EXCEPT ![s].held = IF v = Gone THEN NotHeld ELSE r]

\* prepare: the side has spoken for the path, an op on its way to it included; what the hub
\* has already is accepted at once, anything else is planned against the entry there.
Plan(c) ==
    LET s == c[1]  v == call[c].val  b == call[c].base  cur == hub.cur IN
    /\ call[c].pc = "plan"
    /\ \/ /\ Has(cur) /\ cur.val = v
          /\ sr' = HeldAs(s, v, cur.rev) /\ Answer(c, "accepted", cur.rev)
       \/ /\ ~Has(cur) /\ v = Gone
          /\ Answer(c, "accepted", 0) /\ UNCHANGED sr
       \/ /\ IF Has(cur) THEN cur.val # v ELSE v # Gone
          /\ call' = [call EXCEPT ![c] = [@ EXCEPT !.pc = "decide", !.cur = cur,
                        !.fast = ~Has(cur) \/ b = cur.rev \/ (cur.origin = s /\ b = cur.base)]]
          /\ UNCHANGED <<sr, report>>
    /\ task' = [task EXCEPT ![s].reported = task[s].pc # "none"]
    /\ Crosses(c)
    /\ UNCHANGED <<hub, copies, link, disk, rec, made, over, budget>>

\* Tree.Fetch serves a file that is what its record says; a spoke serves none before its
\* welcome, and keeps the hub waiting until then.
Serves(t, v) ==
    /\ link[t] = "up" \/ (t = Host /\ link[t] = "hello")
    /\ rec[t].has /\ rec[t].val = v /\ disk[t] = v
Waits(t) == t # Host /\ link[t] = "hello"
Holders(r) == {t \in Sides : sr[t].held = r}

\* mirror's decision: a change made on the current entry stands; else a change wins over a
\* delete, and the newer of two over the other, which is kept as a conflict copy once a side
\* that has it serves it.  Without one the decision waits for another report.
NewestWins(c) ==
    LET v == call[c].val  cur == call[c].cur  sure == call[c].fast \/ ~Has(cur) IN
    [accept |-> sure \/ (v # Gone /\ v > cur.val),
     loser |-> IF sure \/ v = Gone \/ cur.val = Gone THEN Gone ELSE IF v > cur.val THEN cur.val ELSE v]

Decide(c) ==
    LET s == c[1]
        alive == c[2] = "new" /\ link[s] # "down"
        d == NewestWins(c)
        from == IF d.accept THEN Holders(call[c].cur.rev) ELSE {s}
        near == IF alive THEN from ELSE from \cap {Host}
        decided == [call EXCEPT ![c] = [@ EXCEPT !.pc = "commit", !.accept = d.accept, !.copy = d.loser]] IN
    /\ call[c].pc = "decide"
    /\ \/ /\ d.loser = Gone \/ \E t \in near : Serves(t, d.loser)
          /\ call' = decided /\ UNCHANGED report
       \/ /\ d.loser # Gone /\ \A t \in near : ~Serves(t, d.loser) /\ ~Waits(t)
          /\ Answer(c, "deferred", 0)
    /\ UNCHANGED <<hub, copies, sr, link, disk, rec, task, ghosts>>

\* setEntry: the next rev, journaled, and every other side marked to be sent it.
SetEntry(s, v, b) ==
    /\ hub' = [hub EXCEPT !.rev = @ + 1, !.cur = [val |-> v, rev |-> hub.rev + 1, origin |-> s, base |-> b]]
    /\ sr' = [t \in Sides |-> IF t = s THEN [sr[s] EXCEPT !.held = IF v = Gone THEN NotHeld ELSE hub.rev + 1]
                              ELSE [sr[t] EXCEPT !.dirty = TRUE]]

Unmoved(c) == hub.cur.rev = call[c].cur.rev

\* commitPlan: planned again if the entry moved; a kept entry is sent to the side whose
\* change lost; a journal that cannot be written leaves everything as it was.
Commit(c) ==
    LET s == c[1]  v == call[c].val IN
    /\ call[c].pc = "commit"
    /\ \/ /\ ~Unmoved(c)
          /\ call' = [call EXCEPT ![c] = [NoCall EXCEPT !.pc = "plan", !.hello = call[c].hello,
                                                                !.val = v, !.base = call[c].base]]
          /\ UNCHANGED <<hub, copies, sr, report, crossed, budget>>
       \/ /\ Unmoved(c) /\ ~call[c].accept
          /\ sr' = [sr EXCEPT ![s] = [held |-> IF v = Gone THEN NotHeld ELSE 0, dirty |-> TRUE]]
          /\ copies' = copies \cup ({call[c].copy} \ {Gone})
          /\ Answer(c, "superseded", IF call[c].fast THEN 0 ELSE hub.cur.rev)
          /\ Crosses(c)
          /\ UNCHANGED <<hub, budget>>
       \/ /\ Unmoved(c) /\ call[c].accept
          /\ SetEntry(s, v, call[c].base)
          /\ copies' = copies \cup ({call[c].copy} \ {Gone})
          /\ Answer(c, "accepted", hub.rev + 1)
          /\ Crosses(c)
          /\ UNCHANGED budget
       \/ /\ Unmoved(c) /\ call[c].accept /\ Spend
          /\ Answer(c, "deferred", 0)
          /\ UNCHANGED <<hub, copies, sr, crossed>>
    /\ UNCHANGED <<link, disk, rec, task, made, over>>

\* compact: a delete no side holds is forgotten once it is old.
Forget ==
    /\ Has(hub.cur) /\ hub.cur.val = Gone /\ Holders(NotHeld) = Sides
    /\ hub' = [hub EXCEPT !.cur = NoEntry, !.forgot = hub.cur.rev]
    /\ UNCHANGED <<copies, call, sr, link, sideVars, ghosts>>

-----------------------------------------------------------------------------
(* The hub's dispatcher, and a side applying what it is sent. *)

\* opFor: what brings the side to the path's state, when it does not hold it.
Lacks(s) ==
    IF Has(hub.cur) /\ hub.cur.val # Gone THEN sr[s].held # hub.cur.rev ELSE sr[s].held # NotHeld

Dispatch(s) ==
    /\ link[s] = "up" /\ sr[s].dirty /\ task[s].pc = "none"
    /\ sr' = [sr EXCEPT ![s].dirty = FALSE]
    /\ task' = IF ~Lacks(s) THEN task
               ELSE [task EXCEPT ![s] = [NoTask EXCEPT !.pc = "look", !.val = hub.cur.val,
                                           !.rev = IF Has(hub.cur) THEN hub.cur.rev ELSE hub.forgot]]
    /\ UNCHANGED <<hub, copies, call, link, disk, rec, report, ghosts>>

Result(s, status) ==
    task' = [task EXCEPT ![s] = [NoTask EXCEPT !.pc = "done", !.val = task[s].val, !.rev = task[s].rev,
                                                !.status = status, !.reported = task[s].reported]]

\* Mutant of Unchanged: a change already scanned is not one of the side's own.
UnchangedSinceScan(s) == IF rec[s].has THEN rec[s].val = disk[s] ELSE disk[s] = Gone

\* The path holds what its record says, and nothing the hub has not seen.
Unchanged(s) == IF rec[s].has THEN ~rec[s].sent /\ rec[s].val = disk[s] ELSE disk[s] = Gone

Applied(s, v, r) ==
    rec' = [rec EXCEPT ![s] = IF v = Gone THEN NoRec(@.epoch)
                              ELSE [has |-> TRUE, rev |-> r, val |-> v, sent |-> FALSE, epoch |-> @.epoch]]

\* apply, up to a file's content: an op older than the record's rev, or over a change of the
\* side's own, waits; one whose state is there is recorded; a delete is made.
Look(s) ==
    LET v == task[s].val  r == task[s].rev IN
    /\ task[s].pc = "look"
    /\ \/ /\ (rec[s].has /\ rec[s].rev > r) \/ ~Unchanged(s)
          /\ Result(s, "again") /\ UNCHANGED <<disk, rec>>
       \/ /\ ~(rec[s].has /\ rec[s].rev > r) /\ Unchanged(s) /\ (v = Gone \/ v = disk[s])
          /\ disk' = [disk EXCEPT ![s] = v] /\ Applied(s, v, r) /\ Result(s, "applied")
       \/ /\ ~(rec[s].has /\ rec[s].rev > r) /\ Unchanged(s) /\ v # Gone /\ v # disk[s]
          /\ task' = [task EXCEPT ![s] = [@ EXCEPT !.pc = "fetch", !.at = rec[s], !.found = disk[s]]]
          /\ UNCHANGED <<disk, rec>>
    /\ UNCHANGED <<hubVars, link, report, ghosts>>

\* writeFile reads the content, without the lock, from a side that holds the op's rev, which
\* must still be the entry's.
Fetch(s) ==
    LET from == IF hub.cur.rev = task[s].rev THEN Holders(task[s].rev) \ {s} ELSE {} IN
    /\ task[s].pc = "fetch"
    /\ \/ /\ \E t \in from : Serves(t, task[s].val)
          /\ task' = [task EXCEPT ![s].pc = "write"]
       \/ /\ \A t \in from : ~Serves(t, task[s].val) /\ ~Waits(t)
          /\ Result(s, "again")
    /\ UNCHANGED <<hubVars, link, disk, rec, report, ghosts>>

\* It replaces the file if, under the lock, record and file are still those it looked at.
Still(s) == rec[s] = task[s].at /\ disk[s] = task[s].found
Write(s) ==
    /\ task[s].pc = "write"
    /\ \/ /\ Still(s)
          /\ disk' = [disk EXCEPT ![s] = task[s].val]
          /\ Applied(s, task[s].val, task[s].rev) /\ Result(s, "applied")
       \/ ~Still(s) /\ Result(s, "again") /\ UNCHANGED <<disk, rec>>
    /\ UNCHANGED <<hubVars, link, report, ghosts>>

\* Mutants of Finish: every op answered counts as held; one not applied is not tried again.
FinishAll(s) ==
    LET t == task[s] IN
    /\ link[s] = "up" /\ t.pc = "done"
    /\ sr' = [sr EXCEPT ![s].held = IF t.val = Gone THEN NotHeld ELSE t.rev]
    /\ task' = [task EXCEPT ![s] = NoTask]
    /\ UNCHANGED <<hub, copies, call, link, disk, rec, report, ghosts>>

FinishOnce(s) ==
    LET t == task[s] IN
    /\ link[s] = "up" /\ t.pc = "done"
    /\ sr' = IF t.status = "again" THEN sr
             ELSE [sr EXCEPT ![s].held = IF t.val = Gone THEN NotHeld ELSE t.rev]
    /\ crossed' = crossed \cup (IF t.status = "applied" /\ t.reported THEN {"op"} ELSE {})
    /\ task' = [task EXCEPT ![s] = NoTask]
    /\ UNCHANGED <<hub, copies, call, link, disk, rec, report, made, over, budget>>

\* finish: what the side applied it holds; anything else is looked at again.
Finish(s) ==
    LET t == task[s]  held == sr[s].held IN
    /\ link[s] = "up" /\ t.pc = "done"
    /\ sr' = [sr EXCEPT ![s] =
                IF t.status = "again" THEN [@ EXCEPT !.dirty = TRUE]
                ELSE IF t.val = Gone THEN [@ EXCEPT !.held = NotHeld]
                ELSE [@ EXCEPT !.held = IF held = NotHeld \/ held <= t.rev THEN t.rev ELSE held]]
    /\ crossed' = crossed \cup (IF t.status = "applied" /\ t.reported THEN {"op"} ELSE {})
    /\ task' = [task EXCEPT ![s] = NoTask]
    /\ UNCHANGED <<hub, copies, call, link, disk, rec, report, made, over, budget>>

-----------------------------------------------------------------------------
(* Connections. *)

\* adopt: a side new to the hub's epoch holds no rev of it.
Adopt(s) == rec' = [rec EXCEPT ![s] = IF @.epoch = hub.epoch THEN @ ELSE [@ EXCEPT !.epoch = hub.epoch, !.rev = 0]]

\* Attach with the tree's Hello: what the side holds at a rev the hub knows it holds; what
\* it holds of another epoch, or at a rev the hub lost, is taken for a change the hub has
\* not seen, and the welcome waits for it.
Hello(s) ==
    LET r == rec[s]
        cur == hub.cur
        holds == r.has /\ ~r.sent /\ r.val # Gone
        known == r.epoch = hub.epoch
        stale == holds /\ \/ ~known \/ r.rev > hub.rev
                          \/ Has(cur) /\ cur.rev = r.rev /\ cur.val # r.val
        held == IF ~holds THEN NotHeld ELSE IF stale THEN 0 ELSE r.rev IN
    /\ link[s] = "down" /\ call[<<s, "new">>].pc = "none"
    /\ hub' = [hub EXCEPT !.rev = IF holds /\ known /\ r.rev > @ THEN r.rev ELSE @]
    /\ sr' = [sr EXCEPT ![s] = [held |-> held, dirty |-> held # NotHeld \/ (cur.val # Gone /\ held # cur.rev)]]
    /\ link' = [link EXCEPT ![s] = IF stale THEN "hello" ELSE "up"]
    /\ IF stale THEN /\ call' = [call EXCEPT ![<<s, "new">>] = [NoCall EXCEPT !.pc = "plan", !.hello = TRUE, !.val = r.val]]
                     /\ UNCHANGED rec
                ELSE Adopt(s) /\ UNCHANGED call
    /\ UNCHANGED <<copies, disk, report, task, ghosts>>

\* The change a hello made is handled: the side is welcomed, and sent the outcome.
Welcome(s) ==
    /\ link[s] = "hello" /\ call[<<s, "new">>].pc = "none"
    /\ link' = [link EXCEPT ![s] = "up"]
    /\ sr' = [sr EXCEPT ![s] = [held |-> 0, dirty |-> TRUE]]
    /\ Adopt(s)
    /\ UNCHANGED <<hub, copies, call, disk, report, task, ghosts>>

\* Sides cut loses its connections: what they report is not answered, and what they apply
\* ends at once; the file one is replacing may be there (land), recorded or not (kept).
Cut(cut, land, kept) ==
    /\ land \subseteq {s \in cut : task[s].pc = "write" /\ Still(s)}
    /\ kept \subseteq land
    /\ link' = [s \in Sides |-> IF s \in cut THEN "down" ELSE link[s]]
    /\ report' = [s \in Sides |-> IF s \in cut THEN Idle ELSE report[s]]
    /\ task' = [s \in Sides |-> IF s \in cut THEN NoTask ELSE task[s]]
    /\ disk' = [s \in Sides |-> IF s \in land THEN task[s].val ELSE disk[s]]
    /\ rec' = [s \in Sides |-> IF s \in kept THEN [has |-> TRUE, rev |-> task[s].rev, val |-> task[s].val,
                                                   sent |-> FALSE, epoch |-> rec[s].epoch]
                               ELSE rec[s]]

\* A spoke's connection ends.  An op without an answer may have landed.
Drop(s) ==
    /\ s # Host /\ link[s] # "down" /\ Spend
    /\ \E land, kept \in SUBSET {s} : Cut({s}, land, kept)
    /\ sr' = [sr EXCEPT ![s].held = IF task[s].pc # "none" /\ task[s].val # Gone THEN 0 ELSE @]
    /\ UNCHANGED <<hub, copies, call, made, over, crossed>>

\* The daemon stops, and the hub with it.
Stop ==
    /\ Spend
    /\ \E land, kept \in SUBSET Sides : Cut(Sides, land, kept)
    /\ call' = [c \in Calls |-> NoCall]
    /\ sr' = [s \in Sides |-> [held |-> NotHeld, dirty |-> FALSE]]
    /\ UNCHANGED <<copies, made, over, crossed>>

Restart == link[Host] # "down" /\ Stop /\ UNCHANGED hub

\* It starts with the hub's state gone.
Reset == Stop /\ hub' = [epoch |-> hub.epoch + 1, rev |-> 0, forgot |-> 0, cur |-> NoEntry]

\* A spoke comes back while the hub is still at its last report.
Outlive(s) ==
    /\ link[s] = "down" /\ call[<<s, "new">>].pc # "none" /\ call[<<s, "old">>].pc = "none"
    /\ call' = [call EXCEPT ![<<s, "old">>] = call[<<s, "new">>], ![<<s, "new">>] = NoCall]
    /\ UNCHANGED <<hub, copies, sr, link, sideVars, ghosts>>

-----------------------------------------------------------------------------
Handle(c) == Plan(c) \/ Decide(c) \/ Commit(c)
Apply(s) == Look(s) \/ Fetch(s) \/ Write(s)

Next ==
    \/ \E s \in Sides : Edit(s) \/ Delete(s) \/ Scan(s) \/ Acked(s)
    \/ \E c \in Calls : Handle(c)
    \/ \E s \in Sides : Dispatch(s) \/ Apply(s) \/ Finish(s)
    \/ \E s \in Sides : Hello(s) \/ Drop(s) \/ Outlive(s)
    \/ Forget \/ Restart

Spec == Init /\ [][Next]_vars

\* Scans, the hub's handlers and dispatchers, and a side's reconnecting are retried for ever.
Fairness ==
    /\ \A s \in Sides : /\ WF_vars(Scan(s)) /\ WF_vars(Acked(s)) /\ WF_vars(Dispatch(s))
                        /\ WF_vars(Apply(s)) /\ WF_vars(Finish(s)) /\ WF_vars(Hello(s))
    /\ \A c \in Calls : WF_vars(Handle(c))

FairSpec == Spec /\ Fairness

\* The same, with a hub that starts without its state.
ResetNext == Next \/ Reset \/ \E s \in Sides : Welcome(s)
ResetSpec == Init /\ [][ResetNext]_vars

-----------------------------------------------------------------------------
\* No change is dropped (doc.go, "Nothing is dropped"): what a user wrote is on some side, or
\* kept as a conflict copy, until a user who had it replaced or deleted it.
NothingDropped ==
    \A v \in made \ over : \/ \E s \in Sides : disk[s] = v
                           \/ v \in copies

\* The same, unless a report of an earlier connection was taken: it may undo what its side
\* has reported since, and the next op then replaces that.
NothingDroppedInOrder == "report" \in crossed \/ NothingDropped

\* A side the hub takes to hold the path's state (opFor has nothing to send it) holds it, or
\* a change of its own to report, unless an op or a report crossed a newer one.
HeldIsTrue ==
    crossed # {} \/ \A s \in Sides : link[s] = "up" /\ ~Lacks(s) /\ report[s].pc = "idle" /\ task[s].pc = "none"
                        => Unreported(s) \/ disk[s] = hub.cur.val

\* Once users and faults leave them alone the sides converge on the hub's state, unless an op
\* or a report crossed a newer one: reports, decisions and ops put off are all tried again.
ConvergesUncrossed == <>[](crossed # {} \/ \A s \in Sides : disk[s] = hub.cur.val)

-----------------------------------------------------------------------------
(* The inductive invariant behind NothingDroppedInOrder and HeldIsTrue. *)

\* A user is done with x, or it is kept as a conflict copy.
Kept(x) == x = Gone \/ x \in over \cup copies

\* x at rev r is the path's state.
Current(x, r) == x = hub.cur.val /\ r = hub.cur.rev

New(s) == call[<<s, "new">>]

\* The path's entry has the hub's last rev, until it is forgotten.
EntryIsLast ==
    /\ hub.forgot <= hub.rev
    /\ hub.cur.rev = hub.rev \/ (hub.cur = NoEntry /\ hub.forgot = hub.rev)
    /\ hub.cur.rev = 0 => hub.cur = NoEntry

\* What a call was planned against is the path's entry as long as its rev is.
PlanIsCurrent(c) ==
    /\ ~call[c].hello /\ call[c].cur.rev <= hub.rev
    /\ call[c].cur.rev = 0 => call[c].cur = NoEntry
    /\ call[c].cur.rev = hub.cur.rev => call[c].cur = hub.cur

\* No one knows a rev the hub has not given, and a rev names one state.
RevsAreHubs(s) ==
    /\ rec[s].rev <= hub.rev /\ rec[s].epoch = hub.epoch /\ (~rec[s].has => rec[s].rev = 0)
    /\ task[s].rev <= hub.rev /\ report[s].rev <= hub.rev /\ sr[s].held <= hub.rev
    /\ hub.cur.rev > 0 =>
         /\ rec[s].has /\ ~rec[s].sent /\ rec[s].rev = hub.cur.rev => rec[s].val = hub.cur.val
         /\ task[s].pc # "none" /\ task[s].rev = hub.cur.rev => task[s].val = hub.cur.val
         /\ report[s].status = "accepted" /\ report[s].rev = hub.cur.rev => report[s].val = hub.cur.val

\* While a side's report is under way its record is the report's, and what it reported is
\* on its disk until a user replaces it.
ReportHolds(s) ==
    /\ link[s] # "hello" /\ (link[s] = "down" => task[s].pc = "none" /\ report[s].pc = "idle")
    /\ New(s).pc # "none" => /\ rec[s].has /\ rec[s].sent /\ (link[s] = "up" => report[s].pc = "wait")
                             /\ rec[s].val = New(s).val /\ rec[s].rev = New(s).base
    /\ report[s].pc # "idle" => rec[s].has /\ rec[s].sent /\ rec[s].val = report[s].val
    /\ rec[s].has /\ rec[s].sent => disk[s] = rec[s].val \/ Kept(rec[s].val)

\* A plan that stands on the entry replaces what a user was done with; one that does not has
\* the loser as its copy.
PlanKeepsLoser(s) ==
    LET n == New(s) IN
    /\ n.pc \in {"decide", "commit"} => IF n.fast THEN Kept(n.cur.val) ELSE n.base # n.cur.rev /\ n.cur.rev # 0
    /\ n.pc = "commit" => IF n.accept THEN n.fast \/ n.copy = n.cur.val
                          ELSE ~n.fast /\ (n.val = Gone \/ n.copy = n.val)

\* What a side's record, an answer to it or an op to it says the hub knows is kept, or is
\* the path's state.
KnownIsKept(s) ==
    /\ rec[s].has /\ ~rec[s].sent => Kept(rec[s].val) \/ Current(rec[s].val, rec[s].rev)
    /\ report[s].pc = "acked" /\ report[s].status = "accepted" =>
         Kept(report[s].val) \/ Current(report[s].val, report[s].rev)
    /\ report[s].pc = "acked" /\ report[s].status = "superseded" =>
         Kept(report[s].val) /\ report[s].rev # 0 /\ (hub.cur.rev = 0 \/ rec[s].rev # hub.cur.rev)
    /\ task[s].pc \in {"look", "fetch", "write"} => Kept(task[s].val) \/ Current(task[s].val, task[s].rev)

\* An op writes over a state the hub knows and no later one.
OpReplacesKnown(s) ==
    LET at == task[s].at IN
    task[s].pc \in {"fetch", "write"} =>
        IF at.has THEN ~at.sent /\ at.val = task[s].found /\ at.rev <= task[s].rev ELSE task[s].found = Gone

\* The path's state is on every side that made it or works on it, until a user replaces it.
CurrentIsHeld(s) ==
    hub.cur.rev > 0 /\ ~Kept(hub.cur.val) =>
        /\ rec[s].has /\ rec[s].rev = hub.cur.rev => disk[s] = hub.cur.val /\ rec[s].val = hub.cur.val
        /\ s = hub.cur.origin =>
             /\ rec[s].has /\ rec[s].val = hub.cur.val /\ disk[s] = hub.cur.val
             /\ (rec[s].sent /\ rec[s].rev = hub.cur.base) \/ rec[s].rev = hub.cur.rev

SideOK(s) ==
    /\ RevsAreHubs(s) /\ ReportHolds(s) /\ PlanKeepsLoser(s)
    /\ KnownIsKept(s) /\ OpReplacesKnown(s) /\ CurrentIsHeld(s)

InOrder == EntryIsLast /\ (\A c \in Calls : PlanIsCurrent(c)) /\ (\A s \in Sides : SideOK(s)) /\ NothingDropped

KeptInv == TypeOK /\ ("report" \in crossed \/ InOrder)

\* The hub takes a side to hold a rev that is not, and never will be, the path's.
Behind(s) == sr[s].held # NotHeld /\ (sr[s].held = hub.cur.rev => hub.cur.val = Gone)

\* The hub takes a side to hold no later rev than its op's, or none.
OpIsNews(s) == sr[s].held = NotHeld \/ sr[s].held <= task[s].rev

\* What the hub takes a connected side to hold is behind, or what the side's record says,
\* once its report is answered and its op's result is in.
HubSees(s) ==
    LET r == rec[s]  t == task[s]  held == sr[s].held
        accepted == report[s].pc = "acked" /\ report[s].status = "accepted"
        superseded == report[s].pc = "acked" /\ report[s].status = "superseded"
        applied == t.pc = "done" /\ t.status = "applied" IN
    /\ t.pc = "done" => t.status # "none"
    /\ t.pc # "none" /\ ~t.reported =>
         /\ OpIsNews(s) \/ (r.has /\ (r.sent \/ r.rev > t.rev))
         /\ accepted => OpIsNews(s) \/ (report[s].val # Gone /\ report[s].rev > t.rev)
         /\ superseded => OpIsNews(s)
    /\ applied /\ ~t.reported =>
         /\ OpIsNews(s) /\ (report[s].pc # "idle" => New(s).pc = "plan")
         /\ (r.has /\ r.sent) \/ IF t.val = Gone THEN ~r.has ELSE r.has /\ r.rev = t.rev /\ r.val = t.val
    /\ ~applied /\ ~Behind(s) =>
         /\ (r.has /\ r.sent) \/ held = IF r.has /\ r.val # Gone THEN r.rev ELSE NotHeld
         /\ accepted => held = IF report[s].val = Gone THEN NotHeld ELSE report[s].rev
         /\ superseded => report[s].val = Gone /\ held = NotHeld

HeldInv == KeptInv /\ (crossed = {} => \A s \in Sides : link[s] = "up" => HubSees(s))
=============================================================================
