----------------------- MODULE ShareSyncReportProofs ------------------------
(***************************************************************************)
(* Proofs about ShareSync: its types, and that users, scans, answers and   *)
(* the hub's plans and decisions keep InOrder, for any copies, contents    *)
(* and faults.  ShareSyncProofs has the other steps and the theorems.      *)
(***************************************************************************)
EXTENDS ShareSync, TLAPS

\* A leaf goes to Zenon, with time for a busy machine, unless it names another prover.
USE ZenonT(60)

-----------------------------------------------------------------------------
(* Types. *)

\* The empty records are of their types.
LEMMA Empties ==
    /\ Gone \in Values /\ NoEntry \in EntryType /\ Idle \in ReportType /\ NoCall \in CallType /\ NoTask \in TaskType
    /\ \A e \in 0 .. MaxEvents : NoRec(e) \in RecType
  BY ShareAssumption, SMTT(60)
     DEF Gone, Values, NoEntry, EntryType, Idle, ReportType, NoCall, CallType, NoTask, TaskType, NoRec, RecType, Revs

\* The first state is of the types.
LEMMA TypeInit == ASSUME Init PROVE TypeOK
<1>1. hub \in HubType
  BY Empties, ShareAssumption, SMTT(60) DEF Init, HubType, Revs
<1>2. sr \in [Sides -> [held : Revs \cup {NotHeld}, dirty : BOOLEAN]]
  BY DEF Init, NotHeld
<1>3. QED
  BY <1>1, <1>2, Empties, ShareAssumption, SMTT(60) DEF Init, TypeOK, Values

\* The fields of the hub, and of each side's and call's state.
LEMMA Typed ==
    ASSUME TypeOK
    PROVE  /\ hub.epoch \in 0 .. MaxEvents /\ hub.rev \in Nat /\ hub.forgot \in Nat /\ hub.cur \in EntryType
           /\ \A s \in Sides : /\ rec[s] \in RecType /\ report[s] \in ReportType /\ task[s] \in TaskType
                               /\ disk[s] \in Values /\ <<s, "new">> \in Calls /\ <<s, "old">> \in Calls
                               /\ New(s) \in CallType /\ sr[s].held \in Nat \cup {NotHeld} /\ sr[s].dirty \in BOOLEAN
           /\ \A c \in Calls : c[1] \in Sides /\ call[c] \in CallType
  BY DEF TypeOK, HubType, Revs, Calls, New

\* The fields of an entry.
LEMMA TypeEntry ==
    ASSUME NEW e \in EntryType
    PROVE  e.val \in Values /\ e.rev \in Nat /\ e.origin \in Sides /\ e.base \in Nat
  BY DEF EntryType, Revs

\* The fields of a side's record.
LEMMA TypeRec ==
    ASSUME NEW r \in RecType
    PROVE  r.has \in BOOLEAN /\ r.rev \in Nat /\ r.val \in Values /\ r.sent \in BOOLEAN /\ r.epoch \in 0 .. MaxEvents
  BY DEF RecType, Revs

\* The fields of a report.
LEMMA TypeReport ==
    ASSUME NEW r \in ReportType
    PROVE  r.val \in Values /\ r.rev \in Nat
  BY DEF ReportType, Revs

\* The fields of a call the hub handles.
LEMMA TypeCall ==
    ASSUME NEW n \in CallType
    PROVE  /\ n.val \in Values /\ n.base \in Nat /\ n.cur \in EntryType /\ n.hello \in BOOLEAN
           /\ n.fast \in BOOLEAN /\ n.accept \in BOOLEAN /\ n.copy \in Values
  BY DEF CallType, Revs

\* The fields of an op a side applies.
LEMMA TypeTask ==
    ASSUME NEW t \in TaskType
    PROVE  /\ t.val \in Values /\ t.rev \in Nat /\ t.at \in RecType /\ t.found \in Values /\ t.reported \in BOOLEAN
           /\ t.pc \in {"none", "look", "fetch", "write", "done"}
  BY DEF TaskType, Revs

\* The records a side's steps write are records.
LEMMA RecWritten ==
    ASSUME NEW r \in RecType, NEW v \in Values, NEW n \in Nat, NEW b \in BOOLEAN
    PROVE  /\ [r EXCEPT !.has = TRUE, !.val = v, !.sent = TRUE] \in RecType
           /\ [r EXCEPT !.rev = n, !.sent = b] \in RecType /\ [r EXCEPT !.sent = b, !.rev = n] \in RecType
           /\ [has |-> TRUE, rev |-> n, val |-> v, sent |-> FALSE, epoch |-> r.epoch] \in RecType
           /\ NoRec(r.epoch) \in RecType
  BY Empties DEF RecType, Revs

\* An answer leaves a record.
LEMMA AfterAckType == ASSUME NEW r \in RecType, NEW ack \in ReportType PROVE AfterAck(r, ack) \in RecType
  BY TypeRec, TypeReport, RecWritten DEF AfterAck

\* What users do keeps the types.
LEMMA TypeUser ==
    ASSUME TypeOK, NEW s \in Sides, Edit(s) \/ Delete(s)
    PROVE  TypeOK'
<1>1. budget' \in 0 .. MaxEvents
  BY ShareAssumption, SMTT(60) DEF Edit, Delete, Replace, Spend, TypeOK
<1>2. disk' \in [Sides -> Values]
  BY Empties DEF Edit, Delete, Replace, TypeOK, Values
<1>3. made' \subseteq Contents /\ over' \subseteq Contents
  BY SMTT(60) DEF Edit, Delete, Replace, TypeOK, Values
<1>4. QED
  BY <1>1, <1>2, <1>3 DEF Edit, Delete, Replace, TypeOK, hubVars

\* A side's scan and the answer it takes keep them.
LEMMA TypeReporting ==
    ASSUME TypeOK, NEW s \in Sides, Scan(s) \/ Acked(s)
    PROVE  TypeOK'
<1>1. CASE Scan(s)
  <2>1. rec' \in [Sides -> RecType]
    BY <1>1, Typed, RecWritten DEF Scan, TypeOK
  <2>2. report' \in [Sides -> ReportType]
    BY <1>1, Typed, Empties DEF Scan, TypeOK, ReportType
  <2>3. call' \in [Calls -> CallType]
    BY <1>1, Typed, TypeRec, Empties DEF Scan, TypeOK, CallType, Revs
  <2>4. QED
    BY <1>1, <2>1, <2>2, <2>3 DEF Scan, TypeOK, ghosts
<1>2. CASE Acked(s)
  <2>1. rec'[s] \in RecType
    BY <1>2, Typed, AfterAckType DEF Acked, TypeOK
  <2>2. rec' \in [Sides -> RecType]
    BY <1>2, <2>1 DEF Acked, TypeOK
  <2>3. report' \in [Sides -> ReportType]
    BY <1>2, Empties DEF Acked, TypeOK
  <2>4. QED
    BY <1>2, <2>2, <2>3 DEF Acked, TypeOK, ghosts, hubVars
<1>3. QED
  BY <1>1, <1>2

\* So are the calls and ops its handlers and the hub's write.
LEMMA CallWritten ==
    ASSUME NEW n \in CallType, NEW e \in EntryType, NEW b \in BOOLEAN, NEW v \in Values
    PROVE  /\ [n EXCEPT !.pc = "decide", !.cur = e, !.fast = b] \in CallType
           /\ [n EXCEPT !.pc = "commit", !.accept = b, !.copy = v] \in CallType
  BY DEF CallType

\* The ops that applying one step by step writes are ops.
LEMMA TaskWritten ==
    ASSUME NEW t \in TaskType, NEW b \in BOOLEAN, NEW r \in RecType, NEW v \in Values, NEW n \in Nat
    PROVE  /\ [t EXCEPT !.reported = b] \in TaskType
           /\ [t EXCEPT !.pc = "fetch", !.at = r, !.found = v] \in TaskType
           /\ [t EXCEPT !.pc = "write"] \in TaskType
           /\ [NoTask EXCEPT !.pc = "look", !.val = v, !.rev = n] \in TaskType
  BY Empties DEF TaskType, Revs

\* No call is at no step of one.
LEMMA NoCallIsIdle == NoCall.pc = "none" /\ ~NoCall.hello /\ NoCall.cur = NoEntry /\ NoEntry.rev = 0
  BY SMTT(60) DEF NoCall, NoEntry

\* And it was planned against no other entry than the path's.
LEMMA NoCallIsCurrent ==
    ASSUME EntryIsLast, hub.rev \in Nat, UNCHANGED hub, NEW c, call'[c] = NoCall
    PROVE  PlanIsCurrent(c)'
<1>1. 0 <= hub.rev
  BY SMTT(60)
<1>2. QED
  BY <1>1, NoCallIsIdle DEF EntryIsLast, PlanIsCurrent

\* An answer to a call keeps them.
LEMMA TypeAnswer ==
    ASSUME TypeOK, NEW c \in Calls, NEW status \in {"accepted", "superseded", "deferred"}, NEW r \in Nat,
           Answer(c, status, r)
    PROVE  call' \in [Calls -> CallType] /\ report' \in [Sides -> ReportType]
<1>1. [pc |-> "acked", val |-> call[c].val, status |-> status, rev |-> r] \in ReportType
  BY Typed, TypeCall DEF ReportType, Revs
<1>2. QED
  BY <1>1, Typed, Empties DEF Answer, TypeOK

\* Planning a report under the lock keeps them.
LEMMA TypePlan == ASSUME TypeOK, NEW c \in Calls, Plan(c) PROVE TypeOK'
<1>1. task' \in [Sides -> TaskType]
  BY Typed, TypeTask, TypeRec, TaskWritten, Empties DEF Plan, TypeOK
<1>2. sr' \in [Sides -> [held : Revs \cup {NotHeld}, dirty : BOOLEAN]]
  <2>1. hub.cur.rev \in Revs
    BY Typed, TypeEntry DEF Revs
  <2>2. QED
    BY <2>1, Typed, SMTT(60) DEF Plan, HeldAs, TypeOK
<1>3. call' \in [Calls -> CallType] /\ report' \in [Sides -> ReportType]
  <2>1. hub.cur.rev \in Nat /\ 0 \in Nat
    BY Typed, TypeEntry
  <2>2. CASE Answer(c, "accepted", hub.cur.rev) \/ Answer(c, "accepted", 0)
    BY <2>1, <2>2, TypeAnswer
  <2>3. ASSUME NEW f \in BOOLEAN, call' = [call EXCEPT ![c] = [@ EXCEPT !.pc = "decide", !.cur = hub.cur, !.fast = f]],
               UNCHANGED report
        PROVE  call' \in [Calls -> CallType] /\ report' \in [Sides -> ReportType]
    BY <2>3, Typed, CallWritten, Empties DEF TypeOK
  <2>4. QED
    BY <2>2, <2>3 DEF Plan
<1>4. crossed' \subseteq {"op", "report"}
  BY DEF Plan, Crosses, TypeOK
<1>5. QED
  BY <1>1, <1>2, <1>3, <1>4 DEF Plan, TypeOK

\* Deciding it without the lock keeps them.
LEMMA TypeDecide == ASSUME TypeOK, NEW c \in Calls, Decide(c) PROVE TypeOK'
<1> DEFINE d == NewestWins(c)
<1>1. d.accept \in BOOLEAN /\ d.loser \in Values
  BY Typed, TypeCall, TypeEntry, Empties DEF NewestWins
<1>2. call' \in [Calls -> CallType] /\ report' \in [Sides -> ReportType]
  <2>1. CASE Answer(c, "deferred", 0)
    BY <2>1, TypeAnswer
  <2>2. CASE call' = [call EXCEPT ![c] = [@ EXCEPT !.pc = "commit", !.accept = d.accept, !.copy = d.loser]] /\ UNCHANGED report
    <3> HIDE DEF d
    <3>1. QED
      BY <1>1, <2>2, Typed, CallWritten, Empties DEF TypeOK
  <2>3. QED
    BY <2>1, <2>2 DEF Decide
<1>3. QED
  BY <1>2 DEF Decide, TypeOK, ghosts

\* Committing it keeps them.
LEMMA TypeCommit == ASSUME TypeOK, NEW c \in Calls, Commit(c) PROVE TypeOK'
<1> DEFINE s == c[1]
           v == call[c].val
<1>0. s \in Sides /\ v \in Values /\ call[c].base \in Nat /\ hub.rev \in Nat /\ hub.cur.rev \in Nat
  BY Typed, TypeCall, TypeEntry
<1>1. CASE /\ call' = [call EXCEPT ![c] = [NoCall EXCEPT !.pc = "plan", !.hello = call[c].hello,
                                                                !.val = v, !.base = call[c].base]]
           /\ UNCHANGED <<hub, copies, sr, report, crossed, budget>>
  <2>1. [NoCall EXCEPT !.pc = "plan", !.hello = call[c].hello, !.val = v, !.base = call[c].base] \in CallType
    BY <1>0, Typed, TypeCall, Empties DEF CallType, Revs
  <2>2. QED
    BY <1>1, <2>1 DEF Commit, TypeOK
<1>2. CASE /\ sr' = [sr EXCEPT ![s] = [held |-> IF v = Gone THEN NotHeld ELSE 0, dirty |-> TRUE]]
           /\ copies' = copies \cup ({call[c].copy} \ {Gone})
           /\ Answer(c, "superseded", IF call[c].fast THEN 0 ELSE hub.cur.rev)
           /\ Crosses(c) /\ UNCHANGED <<hub, budget>>
  <2>1. call' \in [Calls -> CallType] /\ report' \in [Sides -> ReportType]
    <3>1. (IF call[c].fast THEN 0 ELSE hub.cur.rev) \in Nat
      BY <1>0
    <3>2. QED
      BY <1>2, <3>1, TypeAnswer
  <2>2. copies' \subseteq Contents
    BY <1>2, Typed, TypeCall DEF TypeOK, Values
  <2>3. sr' \in [Sides -> [held : Revs \cup {NotHeld}, dirty : BOOLEAN]]
    BY <1>2 DEF TypeOK, Revs
  <2>4. QED
    BY <1>2, <2>1, <2>2, <2>3 DEF Commit, TypeOK, Crosses
<1>3. CASE /\ SetEntry(s, v, call[c].base)
           /\ copies' = copies \cup ({call[c].copy} \ {Gone})
           /\ Answer(c, "accepted", hub.rev + 1)
           /\ Crosses(c) /\ UNCHANGED budget
  <2>1. call' \in [Calls -> CallType] /\ report' \in [Sides -> ReportType]
    BY <1>0, <1>3, TypeAnswer, SMTT(60)
  <2>2. copies' \subseteq Contents
    BY <1>3, Typed, TypeCall DEF TypeOK, Values
  <2>3. sr' \in [Sides -> [held : Revs \cup {NotHeld}, dirty : BOOLEAN]]
    <3>1. ASSUME NEW t \in Sides PROVE sr'[t] \in [held : Revs \cup {NotHeld}, dirty : BOOLEAN]
      <4>1. CASE t = s
        BY <1>0, <1>3, <4>1, SMTT(60) DEF SetEntry, TypeOK, Revs
      <4>2. CASE t # s
        BY <1>3, <4>2 DEF SetEntry, TypeOK
      <4>3. QED
        BY <4>1, <4>2
    <3>2. QED
      BY <1>3, <3>1 DEF SetEntry
  <2>4. hub' \in HubType
    <3>1. [val |-> v, rev |-> hub.rev + 1, origin |-> s, base |-> call[c].base] \in EntryType
      BY <1>0, SMTT(60) DEF EntryType, Revs
    <3>2. ASSUME NEW e \in EntryType, NEW n \in Nat PROVE [hub EXCEPT !.rev = n, !.cur = e] \in HubType
      BY DEF TypeOK, HubType, Revs
    <3>3. hub.rev + 1 \in Nat
      BY <1>0, SMTT(60)
    <3>4. QED
      BY <1>3, <3>1, <3>2, <3>3 DEF SetEntry
  <2>5. QED
    BY <1>3, <2>1, <2>2, <2>3, <2>4 DEF Commit, TypeOK, Crosses
<1>4. CASE Spend /\ Answer(c, "deferred", 0) /\ UNCHANGED <<hub, copies, sr, crossed>>
  <2>1. call' \in [Calls -> CallType] /\ report' \in [Sides -> ReportType]
    BY <1>4, TypeAnswer
  <2>2. QED
    BY <1>4, <2>1, ShareAssumption, SMTT(60) DEF Commit, TypeOK, Spend
<1>5. QED
  BY <1>1, <1>2, <1>3, <1>4 DEF Commit

\* The dispatcher, and a side at an op, keep them.
LEMMA TypeOp == ASSUME TypeOK, NEW s \in Sides, Dispatch(s) \/ Apply(s) \/ Finish(s) PROVE TypeOK'
<1>0. /\ task[s].val \in Values /\ task[s].rev \in Nat /\ task[s].reported \in BOOLEAN /\ task[s] \in TaskType
      /\ disk[s] \in Values /\ rec[s] \in RecType
  BY Typed, TypeTask
<1>1. CASE Dispatch(s)
  <2>1. hub.cur.val \in Values /\ (IF Has(hub.cur) THEN hub.cur.rev ELSE hub.forgot) \in Nat
    BY Typed, TypeEntry
  <2>2. task' \in [Sides -> TaskType]
    <3> DEFINE n == IF Has(hub.cur) THEN hub.cur.rev ELSE hub.forgot
    <3>1. [NoTask EXCEPT !.pc = "look", !.val = hub.cur.val, !.rev = n] \in TaskType
      <4>1. n \in Nat
        BY <2>1
      <4> HIDE DEF n
      <4>2. QED
        BY <1>0, <2>1, <4>1, TaskWritten
    <3>2. QED
      BY <1>1, <3>1 DEF Dispatch, TypeOK
  <2>3. sr' \in [Sides -> [held : Revs \cup {NotHeld}, dirty : BOOLEAN]]
    BY <1>1 DEF Dispatch, TypeOK
  <2>4. QED
    BY <1>1, <2>2, <2>3 DEF Dispatch, TypeOK, ghosts
<1>2. ASSUME NEW st \in {"applied", "again"}, Result(s, st) PROVE task' \in [Sides -> TaskType]
  <2>1. [NoTask EXCEPT !.pc = "done", !.val = task[s].val, !.rev = task[s].rev,
                       !.status = st, !.reported = task[s].reported] \in TaskType
    BY <1>0, Empties DEF TaskType, Revs
  <2>2. QED
    BY <1>2, <2>1 DEF Result, TypeOK
<1>3. ASSUME Applied(s, task[s].val, task[s].rev) PROVE rec' \in [Sides -> RecType]
  <2>1. [has |-> TRUE, rev |-> task[s].rev, val |-> task[s].val, sent |-> FALSE, epoch |-> rec[s].epoch] \in RecType
    BY <1>0, RecWritten
  <2>2. NoRec(rec[s].epoch) \in RecType
    BY <1>0, TypeRec, Empties
  <2>3. QED
    BY <1>3, <2>1, <2>2 DEF Applied, TypeOK
<1>4. CASE Look(s)
  <2>1. task' \in [Sides -> TaskType]
    <3>1. [task[s] EXCEPT !.pc = "fetch", !.at = rec[s], !.found = disk[s]] \in TaskType
      BY <1>0, TaskWritten
    <3>2. QED
      BY <1>2, <1>4, <3>1 DEF Look, TypeOK
  <2>2. disk' \in [Sides -> Values] /\ rec' \in [Sides -> RecType]
    BY <1>0, <1>3, <1>4 DEF Look, TypeOK
  <2>3. QED
    BY <1>4, <2>1, <2>2 DEF Look, TypeOK, hubVars, ghosts
<1>5. CASE Fetch(s)
  <2>1. task' \in [Sides -> TaskType]
    BY <1>0, <1>2, <1>5, TaskWritten DEF Fetch, TypeOK
  <2>2. QED
    BY <1>5, <2>1 DEF Fetch, TypeOK, hubVars, ghosts
<1>6. CASE Write(s)
  <2>1. task' \in [Sides -> TaskType]
    BY <1>2, <1>6 DEF Write
  <2>2. disk' \in [Sides -> Values] /\ rec' \in [Sides -> RecType]
    BY <1>0, <1>3, <1>6 DEF Write, TypeOK
  <2>3. QED
    BY <1>6, <2>1, <2>2 DEF Write, TypeOK, hubVars, ghosts
<1>7. CASE Finish(s)
  <2>1. task' \in [Sides -> TaskType]
    BY <1>7, Empties DEF Finish, TypeOK
  <2>2. sr' \in [Sides -> [held : Revs \cup {NotHeld}, dirty : BOOLEAN]]
    <3>1. ASSUME NEW x \in [held : Revs \cup {NotHeld}, dirty : BOOLEAN], NEW n \in Nat
          PROVE  /\ [x EXCEPT !.dirty = TRUE] \in [held : Revs \cup {NotHeld}, dirty : BOOLEAN]
                 /\ [x EXCEPT !.held = NotHeld] \in [held : Revs \cup {NotHeld}, dirty : BOOLEAN]
                 /\ [x EXCEPT !.held = IF x.held = NotHeld \/ x.held <= n THEN n ELSE x.held]
                      \in [held : Revs \cup {NotHeld}, dirty : BOOLEAN]
      BY DEF Revs
    <3>2. sr[s] \in [held : Revs \cup {NotHeld}, dirty : BOOLEAN]
      BY DEF TypeOK
    <3>3. [sr[s] EXCEPT !.held = IF sr[s].held = NotHeld \/ sr[s].held <= task[s].rev THEN task[s].rev ELSE sr[s].held]
            \in [held : Revs \cup {NotHeld}, dirty : BOOLEAN]
      BY <1>0, <3>1, <3>2
    <3>4. QED
      BY <1>7, <3>1, <3>2, <3>3 DEF Finish, TypeOK
  <2>3. QED
    BY <1>7, <2>1, <2>2 DEF Finish, TypeOK
<1>8. QED
  BY <1>1, <1>4, <1>5, <1>6, <1>7 DEF Apply

\* Connections, and the forgetting of a delete, keep them.
LEMMA TypeCut ==
    ASSUME TypeOK, NEW cut \in SUBSET Sides, NEW land, NEW kept, Cut(cut, land, kept)
    PROVE  /\ link' \in [Sides -> {"down", "hello", "up"}] /\ disk' \in [Sides -> Values]
           /\ rec' \in [Sides -> RecType] /\ report' \in [Sides -> ReportType] /\ task' \in [Sides -> TaskType]
<1>1. \A s \in Sides : [has |-> TRUE, rev |-> task[s].rev, val |-> task[s].val, sent |-> FALSE, epoch |-> rec[s].epoch] \in RecType
  BY Typed, TypeTask, TypeRec DEF RecType, Revs
<1>2. rec' \in [Sides -> RecType]
  BY <1>1, Typed DEF Cut
<1>3. link' \in [Sides -> {"down", "hello", "up"}]
  BY DEF Cut, TypeOK
<1>4. disk' \in [Sides -> Values]
  BY Typed, TypeTask DEF Cut
<1>5. report' \in [Sides -> ReportType] /\ task' \in [Sides -> TaskType]
  BY Typed, Empties DEF Cut
<1>6. QED
  BY <1>2, <1>3, <1>4, <1>5

\* Connections that start, end and are outlived keep them, and so does a restart.
LEMMA TypeLink ==
    ASSUME TypeOK, Forget \/ Restart \/ \E s \in Sides : Hello(s) \/ Drop(s) \/ Outlive(s)
    PROVE  TypeOK'
<1>1. CASE Forget
  <2>1. hub' \in HubType
    BY <1>1, Typed, TypeEntry, Empties DEF Forget, TypeOK, HubType, Revs
  <2>2. QED
    BY <1>1, <2>1 DEF Forget, TypeOK, sideVars, ghosts
<1>2. ASSUME Spend PROVE budget' \in 0 .. MaxEvents
  BY <1>2, ShareAssumption, SMTT(60) DEF Spend, TypeOK
<1>3. CASE Restart
  <2>1. PICK land, kept \in SUBSET Sides : Cut(Sides, land, kept)
    BY <1>3 DEF Restart, Stop
  <2>2. sr' \in [Sides -> [held : Revs \cup {NotHeld}, dirty : BOOLEAN]]
    BY <1>3 DEF Restart, Stop
  <2>3. call' \in [Calls -> CallType]
    BY <1>3, Empties DEF Restart, Stop
  <2>4. budget' \in 0 .. MaxEvents /\ UNCHANGED <<hub, copies, made, over, crossed>>
    BY <1>2, <1>3 DEF Restart, Stop
  <2>5. /\ link' \in [Sides -> {"down", "hello", "up"}] /\ disk' \in [Sides -> Values]
        /\ rec' \in [Sides -> RecType] /\ report' \in [Sides -> ReportType] /\ task' \in [Sides -> TaskType]
    BY <2>1, TypeCut
  <2>6. QED
    BY <2>2, <2>3, <2>4, <2>5 DEF TypeOK
<1>4. ASSUME NEW s \in Sides, Drop(s) PROVE TypeOK'
  <2>1. PICK land, kept \in SUBSET {s} : Cut({s}, land, kept)
    BY <1>4 DEF Drop
  <2>2. sr' \in [Sides -> [held : Revs \cup {NotHeld}, dirty : BOOLEAN]]
    BY <1>4, SMTT(60) DEF Drop, TypeOK, Revs
  <2>3. budget' \in 0 .. MaxEvents /\ UNCHANGED <<hub, copies, call, made, over, crossed>>
    BY <1>2, <1>4 DEF Drop
  <2>4. /\ link' \in [Sides -> {"down", "hello", "up"}] /\ disk' \in [Sides -> Values]
        /\ rec' \in [Sides -> RecType] /\ report' \in [Sides -> ReportType] /\ task' \in [Sides -> TaskType]
    BY <2>1, TypeCut
  <2>5. QED
    BY <2>2, <2>3, <2>4 DEF TypeOK
<1>5. ASSUME NEW s \in Sides, Outlive(s) PROVE TypeOK'
  <2>1. call' \in [Calls -> CallType]
    BY <1>5, Typed, Empties DEF Outlive, TypeOK
  <2>2. QED
    BY <1>5, <2>1 DEF Outlive, TypeOK, sideVars, ghosts
<1>6. ASSUME NEW s \in Sides, Hello(s) PROVE TypeOK'
  <2>0. rec[s].rev \in Nat /\ rec[s].val \in Values /\ rec[s] \in RecType /\ hub.rev \in Nat
    BY Typed, TypeRec
  <2>1. hub' \in HubType
    <3>1. ASSUME NEW n \in Nat PROVE [hub EXCEPT !.rev = n] \in HubType
      BY DEF TypeOK, HubType, Revs
    <3>2. QED
      BY <1>6, <2>0, <3>1 DEF Hello
  <2>2. sr' \in [Sides -> [held : Revs \cup {NotHeld}, dirty : BOOLEAN]]
    BY <1>6, <2>0 DEF Hello, TypeOK, Revs
  <2>3. call' \in [Calls -> CallType]
    <3>1. [NoCall EXCEPT !.pc = "plan", !.hello = TRUE, !.val = rec[s].val] \in CallType
      BY <2>0, Empties DEF CallType
    <3>2. QED
      BY <1>6, <3>1 DEF Hello, TypeOK
  <2>4. rec' \in [Sides -> RecType]
    <3>1. [rec[s] EXCEPT !.epoch = hub.epoch, !.rev = 0] \in RecType
      BY <2>0, Typed DEF RecType, Revs
    <3>2. QED
      BY <1>6, <2>0, <3>1 DEF Hello, Adopt, TypeOK
  <2>5. link' \in [Sides -> {"down", "hello", "up"}]
    BY <1>6 DEF Hello, TypeOK
  <2>6. QED
    BY <1>6, <2>1, <2>2, <2>3, <2>4, <2>5 DEF Hello, TypeOK, ghosts
<1>7. QED
  BY <1>1, <1>3, <1>4, <1>5, <1>6

\* Every step keeps the types.
LEMMA TypeNext == ASSUME TypeOK, [Next]_vars PROVE TypeOK'
<1>1. CASE UNCHANGED vars
  BY <1>1 DEF vars, hubVars, sideVars, ghosts, TypeOK
<1>2. CASE Next
  BY <1>2, TypeUser, TypeReporting, TypePlan, TypeDecide, TypeCommit, TypeOp, TypeLink DEF Next, Handle
<1>3. QED
  BY <1>1, <1>2

-----------------------------------------------------------------------------
(* Nothing is dropped while reports are taken in order. *)

\* What is kept stays kept.
LEMMA KeptStays ==
    ASSUME over \subseteq over', copies \subseteq copies', NEW x, Kept(x)
    PROVE  Kept(x)'
  BY DEF Kept

\* A step that leaves a side and the path's entry alone keeps what holds of the side.
LEMMA SideFrame ==
    ASSUME NEW t \in Sides, SideOK(t), UNCHANGED hub, over \subseteq over', copies \subseteq copies',
           rec'[t] = rec[t], disk'[t] = disk[t], report'[t] = report[t], task'[t] = task[t], link'[t] = link[t],
           New(t)' = New(t), sr'[t].held <= hub.rev
    PROVE  SideOK(t)'
<1>1. RevsAreHubs(t)'
  BY DEF SideOK, RevsAreHubs
<1>2. ReportHolds(t)'
  BY KeptStays DEF SideOK, ReportHolds
<1>3. PlanKeepsLoser(t)'
  BY KeptStays DEF SideOK, PlanKeepsLoser
<1>4. KnownIsKept(t)'
  BY KeptStays DEF SideOK, KnownIsKept, Current
<1>5. OpReplacesKnown(t)'
  BY DEF SideOK, OpReplacesKnown
<1>6. CurrentIsHeld(t)'
  BY KeptStays DEF SideOK, CurrentIsHeld
<1>7. QED
  BY <1>1, <1>2, <1>3, <1>4, <1>5, <1>6 DEF SideOK

\* So does one that replaces an entry whose state is kept, if the side did not make the new one.
LEMMA EntryFrame ==
    ASSUME TypeOK, TypeOK', NEW t \in Sides, SideOK(t), over \subseteq over', copies \subseteq copies',
           rec'[t] = rec[t], disk'[t] = disk[t], report'[t] = report[t], task'[t] = task[t], link'[t] = link[t],
           New(t)' = New(t), sr'[t].held = sr[t].held,
           hub'.epoch = hub.epoch, hub'.rev >= hub.rev, NEW x, x = hub.cur.val, Kept(x)',
           hub'.cur.rev = 0 \/ (hub'.cur.rev > hub.rev /\ t # hub'.cur.origin)
    PROVE  SideOK(t)'
<1>0. /\ hub.rev \in Nat /\ hub'.rev \in Nat /\ hub.cur.rev \in Nat /\ hub'.cur.rev \in Nat
      /\ rec[t].rev \in Nat /\ task[t].rev \in Nat /\ report[t].rev \in Nat
      /\ sr[t].held \in Nat \cup {NotHeld}
  <2>1. hub'.rev \in Nat /\ hub'.cur.rev \in Nat
    BY DEF TypeOK, HubType, EntryType, Revs
  <2>2. QED
    BY <2>1, Typed, TypeEntry, TypeRec, TypeTask, TypeReport
<1>1. RevsAreHubs(t)'
  BY <1>0, SMTT(60) DEF SideOK, RevsAreHubs, NotHeld
<1>2. ReportHolds(t)'
  BY KeptStays DEF SideOK, ReportHolds
<1>3. PlanKeepsLoser(t)'
  BY KeptStays DEF SideOK, PlanKeepsLoser
<1>4. KnownIsKept(t)'
  <2>1. hub'.cur.rev = 0 \/ rec'[t].rev # hub'.cur.rev
    BY <1>0, SMTT(60) DEF SideOK, RevsAreHubs
  <2>2. (rec[t].has /\ ~rec[t].sent => Kept(rec[t].val))'
    BY KeptStays DEF SideOK, KnownIsKept, Current
  <2>3. (report[t].pc = "acked" /\ report[t].status \in {"accepted", "superseded"} => Kept(report[t].val))'
    BY KeptStays DEF SideOK, KnownIsKept, Current
  <2>4. (task[t].pc \in {"look", "fetch", "write"} => Kept(task[t].val))'
    BY KeptStays DEF SideOK, KnownIsKept, Current
  <2>5. QED
    BY <2>1, <2>2, <2>3, <2>4 DEF SideOK, KnownIsKept
<1>5. OpReplacesKnown(t)'
  BY DEF SideOK, OpReplacesKnown
<1>6. CurrentIsHeld(t)'
  BY <1>0, SMTT(60) DEF SideOK, RevsAreHubs, CurrentIsHeld
<1>7. QED
  BY <1>1, <1>2, <1>3, <1>4, <1>5, <1>6 DEF SideOK

\* What a step of one side leaves of the others.
Others(s) ==
    /\ UNCHANGED hub /\ over \subseteq over' /\ copies \subseteq copies'
    /\ \A t \in Sides \ {s} :
         /\ rec'[t] = rec[t] /\ disk'[t] = disk[t] /\ report'[t] = report[t] /\ task'[t] = task[t]
         /\ link'[t] = link[t] /\ New(t)' = New(t) /\ sr'[t].held = sr[t].held

\* A step of one side keeps the invariant if it keeps what holds of that side.
LEMMA OneSide ==
    ASSUME InOrder, NEW s \in Sides, Others(s), \A c \in Calls : PlanIsCurrent(c)', SideOK(s)', NothingDropped'
    PROVE  InOrder'
<1>1. ASSUME NEW t \in Sides \ {s} PROVE SideOK(t)'
  <2>1. SideOK(t) /\ sr'[t].held <= hub.rev
    BY DEF InOrder, Others, SideOK, RevsAreHubs
  <2>2. QED
    BY <2>1, SideFrame DEF Others
<1>2. EntryIsLast'
  BY DEF InOrder, EntryIsLast, Others
<1>3. QED
  BY <1>1, <1>2 DEF InOrder

\* With the calls as they were, their plans are current still.
LEMMA PlansFrame ==
    ASSUME InOrder, UNCHANGED <<hub, call>>
    PROVE  \A c \in Calls : PlanIsCurrent(c)'
  BY DEF InOrder, PlanIsCurrent

\* A side's op that writes over a state the hub knows and no later one either changes nothing or
\* writes over what is kept.
LEMMA WritesOverKept ==
    ASSUME TypeOK, InOrder, NEW s \in Sides, task[s].pc # "none",
           IF rec[s].has THEN ~rec[s].sent /\ rec[s].val = disk[s] /\ rec[s].rev <= task[s].rev ELSE disk[s] = Gone
    PROVE  /\ Kept(disk[s]) \/ (disk[s] = hub.cur.val /\ hub.cur.rev > 0 /\ task[s].val = disk[s])
           /\ rec[s].has /\ rec[s].rev = hub.cur.rev /\ hub.cur.rev > 0 => task[s].val = hub.cur.val
<1>0. /\ hub.rev \in Nat /\ hub.cur.rev \in Nat /\ rec[s].rev \in Nat /\ task[s].rev \in Nat
  BY Typed, TypeEntry, TypeRec, TypeTask
<1>1. RevsAreHubs(s) /\ KnownIsKept(s) /\ EntryIsLast
  BY DEF InOrder, SideOK
<1>2. rec[s].has /\ rec[s].rev = hub.cur.rev /\ hub.cur.rev > 0 => task[s].val = hub.cur.val
  BY <1>0, <1>1, SMTT(60) DEF RevsAreHubs, EntryIsLast, NoEntry
<1>3. CASE ~rec[s].has
  BY <1>2, <1>3 DEF Kept
<1>4. CASE rec[s].has
  <2>1. Kept(disk[s]) \/ Current(disk[s], rec[s].rev)
    BY <1>1, <1>4 DEF KnownIsKept
  <2>2. hub.cur.rev = 0 => hub.cur.val = Gone
    BY <1>1, SMTT(60) DEF EntryIsLast, NoEntry
  <2>3. QED
    BY <1>0, <1>2, <1>4, <2>1, <2>2, SMTT(60) DEF Current, Kept
<1>5. QED
  BY <1>3, <1>4

\* Users: what they replace they are done with.
LEMMA OrderUser ==
    ASSUME TypeOK, InOrder, NEW s \in Sides, Edit(s) \/ Delete(s)
    PROVE  InOrder'
<1>0. PICK v : disk' = [disk EXCEPT ![s] = v] /\ made' \subseteq made \cup {v}
  BY DEF Edit, Delete, Replace
<1>1. UNCHANGED <<hubVars, link, rec, report, task, crossed>> /\ over' = over \cup ({disk[s]} \ {Gone})
  BY DEF Edit, Delete, Replace
<1>2. Others(s)
  BY <1>0, <1>1 DEF Others, hubVars, New, TypeOK
<1>3. ASSUME NEW x, Kept(x) \/ x = disk[s] PROVE Kept(x)'
  BY <1>1, <1>3 DEF Kept, hubVars
<1>4. SideOK(s)'
  <2>1. RevsAreHubs(s)' /\ OpReplacesKnown(s)'
    BY <1>1 DEF InOrder, SideOK, RevsAreHubs, OpReplacesKnown, hubVars
  <2>2. PlanKeepsLoser(s)' /\ KnownIsKept(s)'
    BY <1>1, <1>3 DEF InOrder, SideOK, PlanKeepsLoser, KnownIsKept, Current, New, hubVars
  <2>3. ReportHolds(s)'
    BY <1>1, <1>3 DEF InOrder, SideOK, ReportHolds, New, hubVars
  <2>4. CurrentIsHeld(s)'
    BY <1>1, <1>3 DEF InOrder, SideOK, CurrentIsHeld, hubVars
  <2>5. QED
    BY <2>1, <2>2, <2>3, <2>4 DEF SideOK
<1>5. NothingDropped'
  <2>1. SUFFICES ASSUME NEW x \in made', x \notin over' PROVE (\E t \in Sides : disk'[t] = x) \/ x \in copies'
    BY DEF NothingDropped
  <2>2. CASE x = v
    BY <1>0, <2>2 DEF TypeOK
  <2>3. CASE x # v
    <3>1. x \in made /\ x \notin over /\ (x = disk[s] => x = Gone)
      BY <1>0, <1>1, <2>1, <2>3
    <3>2. x # Gone
      BY <3>1, SMTT(60) DEF TypeOK, Contents, Gone
    <3>3. QED
      BY <1>0, <1>1, <3>1, <3>2 DEF InOrder, NothingDropped, TypeOK, hubVars
  <2>4. QED
    BY <2>2, <2>3
<1>6. QED
  BY <1>1, <1>2, <1>4, <1>5, OneSide, PlansFrame DEF hubVars

\* A scan: the side speaks of what is on its disk, on the rev it had.
LEMMA OrderScan ==
    ASSUME TypeOK, InOrder, NEW s \in Sides, Scan(s)
    PROVE  InOrder'
<1>0. SideOK(s) /\ hub.cur.rev \in Nat /\ rec[s].rev \in Nat
  BY Typed, TypeEntry, TypeRec DEF InOrder
<1>1. /\ rec'[s].has /\ rec'[s].sent /\ rec'[s].val = disk[s] /\ rec'[s].rev = rec[s].rev /\ rec'[s].epoch = rec[s].epoch
  BY Typed, SMTT(60) DEF Scan, TypeOK, RecType
<1>2. /\ report'[s].pc = "wait" /\ report'[s].val = disk[s] /\ report'[s].rev = 0 /\ report'[s].status = "none"
  BY DEF Scan, TypeOK, Idle
<1>3. /\ New(s)'.pc = "plan" /\ New(s)'.val = disk[s] /\ New(s)'.base = rec[s].rev
      /\ ~New(s)'.hello /\ New(s)'.cur = NoEntry
  BY Typed DEF Scan, TypeOK, New, NoCall
<1>4. Others(s)
  BY SMTT(60) DEF Scan, Others, ghosts, New, TypeOK
<1>5. ASSUME NEW x, Kept(x) PROVE Kept(x)'
  BY <1>4, <1>5, KeptStays DEF Others
<1>6. \A c \in Calls : PlanIsCurrent(c)'
  <2>1. ASSUME NEW c \in Calls, c # <<s, "new">> PROVE PlanIsCurrent(c)'
    BY <2>1 DEF Scan, InOrder, PlanIsCurrent, TypeOK
  <2>2. PlanIsCurrent(<<s, "new">>)'
    BY <1>3, Typed, SMTT(60) DEF Scan, InOrder, EntryIsLast, PlanIsCurrent, New, NoEntry
  <2>3. QED
    BY <2>1, <2>2
<1>7. SideOK(s)'
  <2>1. RevsAreHubs(s)'
    BY <1>0, <1>1, <1>2, Typed, SMTT(60) DEF Scan, SideOK, RevsAreHubs
  <2>2. ReportHolds(s)'
    BY <1>0, <1>1, <1>2, <1>3 DEF Scan, SideOK, ReportHolds
  <2>3. PlanKeepsLoser(s)'
    BY <1>3 DEF PlanKeepsLoser
  <2>4. KnownIsKept(s)'
    BY <1>0, <1>1, <1>2, <1>5 DEF Scan, SideOK, KnownIsKept, Current
  <2>5. OpReplacesKnown(s)'
    BY <1>0 DEF Scan, SideOK, OpReplacesKnown
  <2>6. CurrentIsHeld(s)'
    BY <1>0, <1>1, <1>5, SMTT(60) DEF Scan, SideOK, RevsAreHubs, CurrentIsHeld
  <2>7. QED
    BY <2>1, <2>2, <2>3, <2>4, <2>5, <2>6 DEF SideOK
<1>8. NothingDropped'
  BY DEF Scan, InOrder, NothingDropped, ghosts
<1>9. QED
  BY <1>4, <1>6, <1>7, <1>8, OneSide

\* What an answer does to a record that the report holds.
LEMMA AfterAckFields ==
    ASSUME NEW r \in RecType, NEW ack \in ReportType, r.has, r.sent, r.val = ack.val,
           NEW a, a = AfterAck(r, ack)
    PROVE  /\ ack.status = "accepted" /\ r.val = Gone => ~a.has /\ a.rev = 0 /\ a.epoch = r.epoch
           /\ ack.status = "accepted" /\ r.val # Gone =>
                a.has /\ ~a.sent /\ a.rev = ack.rev /\ a.val = r.val /\ a.epoch = r.epoch
           /\ ack.status = "superseded" /\ ack.rev # 0 =>
                a.has /\ ~a.sent /\ a.rev = r.rev /\ a.val = r.val /\ a.epoch = r.epoch
           /\ ack.status \notin {"accepted", "superseded"} => a = r
  BY DEF AfterAck, RecType, NoRec

\* The side takes an answer: what it reported is kept, or the path's state, or still to report.
LEMMA OrderAcked ==
    ASSUME TypeOK, InOrder, NEW s \in Sides, Acked(s)
    PROVE  InOrder'
<1> DEFINE ack == report[s]
<1>0. /\ SideOK(s) /\ hub.rev \in Nat /\ hub.cur.rev \in Nat
      /\ rec[s] \in RecType /\ ack \in ReportType /\ rec[s].rev \in Nat /\ ack.rev \in Nat
  BY Typed, TypeEntry, TypeRec, TypeReport DEF InOrder
<1>1. ack.pc = "acked" /\ rec[s].has /\ rec[s].sent /\ rec[s].val = ack.val /\ link[s] = "up" /\ New(s).pc = "none"
  BY <1>0 DEF Acked, SideOK, ReportHolds
<1>2. rec'[s] = AfterAck(rec[s], ack)
  BY DEF Acked, TypeOK
<1>3. /\ ack.status = "accepted" /\ rec[s].val = Gone => ~rec'[s].has /\ rec'[s].rev = 0 /\ rec'[s].epoch = rec[s].epoch
      /\ ack.status = "accepted" /\ rec[s].val # Gone =>
           rec'[s].has /\ ~rec'[s].sent /\ rec'[s].rev = ack.rev /\ rec'[s].val = rec[s].val /\ rec'[s].epoch = rec[s].epoch
      /\ ack.status = "superseded" /\ ack.rev # 0 =>
           rec'[s].has /\ ~rec'[s].sent /\ rec'[s].rev = rec[s].rev /\ rec'[s].val = rec[s].val /\ rec'[s].epoch = rec[s].epoch
      /\ ack.status \notin {"accepted", "superseded"} => rec'[s] = rec[s]
  BY <1>0, <1>1, <1>2, AfterAckFields, SMTT(60)
<1>4. report'[s] = Idle /\ report'[s].pc = "idle" /\ report'[s].rev = 0 /\ report'[s].status = "none"
  BY DEF Acked, TypeOK, Idle
<1>5. Others(s) /\ UNCHANGED <<hub, call, sr, disk, task, link, made, over, copies>>
  BY DEF Acked, Others, ghosts, New, hubVars, TypeOK
<1>6. \A x : Kept(x)' <=> Kept(x)
  BY <1>5 DEF Kept
<1>7. SideOK(s)'
  <2>0. ack.status = "superseded" => ack.rev # 0 /\ Kept(ack.val) /\ (hub.cur.rev = 0 \/ rec[s].rev # hub.cur.rev)
    BY <1>0, <1>1 DEF SideOK, KnownIsKept
  <2>1. RevsAreHubs(s)'
    BY <1>0, <1>1, <1>3, <1>4, <1>5, <2>0, SMTT(60) DEF SideOK, RevsAreHubs
  <2>2. ReportHolds(s)'
    BY <1>0, <1>1, <1>3, <1>4, <1>5, <1>6, <2>0 DEF SideOK, ReportHolds, New
  <2>3. PlanKeepsLoser(s)'
    BY <1>1, <1>5 DEF PlanKeepsLoser, New
  <2>4. KnownIsKept(s)'
    <3>1. (rec[s].has /\ ~rec[s].sent => Kept(rec[s].val) \/ Current(rec[s].val, rec[s].rev))'
      BY <1>0, <1>1, <1>3, <1>5, <1>6, <2>0 DEF SideOK, KnownIsKept, Current
    <3>2. (task[s].pc \in {"look", "fetch", "write"} => Kept(task[s].val) \/ Current(task[s].val, task[s].rev))'
      BY <1>0, <1>5, <1>6 DEF SideOK, KnownIsKept, Current
    <3>3. QED
      BY <1>4, <3>1, <3>2 DEF KnownIsKept
  <2>5. OpReplacesKnown(s)'
    BY <1>0, <1>5 DEF SideOK, OpReplacesKnown
  <2>6. CurrentIsHeld(s)'
    <3>1. SUFFICES ASSUME hub.cur.rev > 0, ~Kept(hub.cur.val)
          PROVE  /\ rec'[s].has /\ rec'[s].rev = hub.cur.rev => disk[s] = hub.cur.val /\ rec'[s].val = hub.cur.val
                 /\ s = hub.cur.origin =>
                      /\ rec'[s].has /\ rec'[s].val = hub.cur.val /\ disk[s] = hub.cur.val
                      /\ (rec'[s].sent /\ rec'[s].rev = hub.cur.base) \/ rec'[s].rev = hub.cur.rev
      BY <1>5, <1>6 DEF CurrentIsHeld
    <3>2. CASE ack.status = "accepted"
      <4>1. ack.rev = hub.cur.rev => ack.val = hub.cur.val
        BY <1>0, <3>1, <3>2 DEF SideOK, RevsAreHubs
      <4>2. Kept(ack.val) \/ Current(ack.val, ack.rev)
        BY <1>0, <1>1, <3>2 DEF SideOK, KnownIsKept
      <4>3. disk[s] = rec[s].val \/ Kept(rec[s].val)
        BY <1>0, <1>1 DEF SideOK, ReportHolds
      <4>4. s = hub.cur.origin => rec[s].val = hub.cur.val
        BY <1>0, <3>1 DEF SideOK, CurrentIsHeld
      <4>5. QED
        BY <1>0, <1>1, <1>3, <3>1, <3>2, <4>1, <4>2, <4>3, <4>4 DEF Current, Kept
    <3>3. CASE ack.status = "superseded"
      BY <1>0, <1>1, <1>3, <2>0, <3>1, <3>3 DEF SideOK, CurrentIsHeld
    <3>4. CASE ack.status \notin {"accepted", "superseded"}
      BY <1>0, <1>3, <3>1, <3>4 DEF SideOK, CurrentIsHeld
    <3>5. QED
      BY <3>2, <3>3, <3>4
  <2>7. QED
    BY <2>1, <2>2, <2>3, <2>4, <2>5, <2>6 DEF SideOK
<1>8. NothingDropped'
  BY <1>5 DEF InOrder, NothingDropped
<1>9. QED
  BY <1>5, <1>7, <1>8, OneSide, PlansFrame

\* What an answer to a side's call writes.
LEMMA AnswerFields ==
    ASSUME TypeOK, NEW s \in Sides, NEW status, NEW r, Answer(<<s, "new">>, status, r)
    PROVE  /\ New(s)' = NoCall /\ \A c \in Calls \ {<<s, "new">>} : call'[c] = call[c]
           /\ \A t \in Sides \ {s} : report'[t] = report[t] /\ New(t)' = New(t)
           /\ link[s] # "up" => report'[s] = report[s]
           /\ link[s] = "up" => /\ report'[s].pc = "acked" /\ report'[s].val = New(s).val
                                /\ report'[s].status = status /\ report'[s].rev = r
  BY Typed DEF Answer, New, TypeOK

\* A call answered leaves the other plans current.
LEMMA PlansAfterOne ==
    ASSUME TypeOK, InOrder, UNCHANGED hub, NEW c \in Calls, PlanIsCurrent(c)',
           \A d \in Calls \ {c} : call'[d] = call[d]
    PROVE  \A d \in Calls : PlanIsCurrent(d)'
<1>1. ASSUME NEW d \in Calls \ {c} PROVE PlanIsCurrent(d)'
  BY <1>1 DEF InOrder, PlanIsCurrent
<1>2. QED
  BY <1>1

\* A report that is planned: what the entry has is accepted; what is planned over it either takes
\* the place of what a user was done with, or is decided.
LEMMA OrderPlan ==
    ASSUME TypeOK, InOrder, NEW s \in Sides, Plan(<<s, "new">>)
    PROVE  InOrder'
<1> DEFINE c == <<s, "new">>
           n == New(s)
           cur == hub.cur
<1>0. /\ SideOK(s) /\ EntryIsLast /\ c \in Calls /\ PlanIsCurrent(c)
      /\ hub.rev \in Nat /\ cur.rev \in Nat /\ cur.base \in Nat /\ n.base \in Nat /\ rec[s].rev \in Nat
      /\ sr[s].held \in Nat \cup {NotHeld}
  BY Typed, TypeEntry, TypeRec, TypeCall DEF InOrder
<1>1. /\ n.pc = "plan" /\ rec[s].has /\ rec[s].sent /\ rec[s].val = n.val /\ rec[s].rev = n.base
      /\ link[s] = "up" => report[s].pc = "wait"
      /\ ~n.hello
  BY <1>0 DEF Plan, New, SideOK, ReportHolds, PlanIsCurrent
<1>2. /\ task'[s].pc = task[s].pc /\ task'[s].val = task[s].val /\ task'[s].rev = task[s].rev
      /\ task'[s].at = task[s].at /\ task'[s].found = task[s].found
      /\ \A t \in Sides \ {s} : task'[t] = task[t]
  BY Typed, SMTT(60) DEF Plan, TypeOK, TaskType
<1>3. UNCHANGED <<hub, copies, link, disk, rec, made, over>>
  BY DEF Plan
<1>4. \A x : Kept(x)' <=> Kept(x)
  BY <1>3 DEF Kept
<1>5. /\ \A t \in Sides \ {s} : report'[t] = report[t] /\ New(t)' = New(t) /\ sr'[t].held = sr[t].held
      /\ \A d \in Calls \ {c} : call'[d] = call[d]
      /\ sr'[s].held <= hub.rev
  <2>1. CASE Answer(c, "accepted", cur.rev) /\ sr' = HeldAs(s, n.val, cur.rev) /\ Has(cur)
    <3>1. cur.rev <= hub.rev /\ NotHeld <= hub.rev
      BY <1>0, SMTT(60) DEF EntryIsLast, NoEntry, NotHeld
    <3>2. (\A t \in Sides \ {s} : sr'[t].held = sr[t].held) /\ sr'[s].held \in {NotHeld, cur.rev}
      BY <2>1 DEF HeldAs, TypeOK
    <3>3. QED
      BY <2>1, <3>1, <3>2, AnswerFields
  <2>2. CASE Answer(c, "accepted", 0) /\ UNCHANGED sr
    BY <1>0, <2>2, AnswerFields DEF SideOK, RevsAreHubs
  <2>3. CASE UNCHANGED <<sr, report>> /\ \E f : call' = [call EXCEPT ![c] = [@ EXCEPT !.pc = "decide", !.cur = cur, !.fast = f]]
    BY <1>0, <2>3, SMTT(60) DEF SideOK, RevsAreHubs, New, TypeOK
  <2>4. QED
    BY <2>1, <2>2, <2>3 DEF Plan, New
<1>6. Others(s)
  BY <1>2, <1>3, <1>5 DEF Others
<1>7. NothingDropped'
  BY <1>3 DEF InOrder, NothingDropped
<1>8. RevsAreHubs(s)' /\ ReportHolds(s)' /\ PlanKeepsLoser(s)' /\ KnownIsKept(s)' /\ PlanIsCurrent(c)'
  <2>1. ASSUME NEW r \in Nat, Answer(c, "accepted", r), r = cur.rev, n.val = cur.val
        PROVE  RevsAreHubs(s)' /\ ReportHolds(s)' /\ PlanKeepsLoser(s)' /\ KnownIsKept(s)' /\ PlanIsCurrent(c)'
    <3>1. /\ New(s)' = NoCall
          /\ link[s] # "up" => report'[s] = report[s]
          /\ link[s] = "up" => /\ report'[s].pc = "acked" /\ report'[s].val = n.val
                               /\ report'[s].status = "accepted" /\ report'[s].rev = r
      BY <2>1, AnswerFields, SMTT(60)
    <3>2. RevsAreHubs(s)'
      <4>1. r <= hub.rev
        BY <1>0, <2>1, SMTT(60) DEF EntryIsLast, NoEntry
      <4>2. QED
        BY <1>0, <1>2, <1>3, <1>5, <2>1, <3>1, <4>1 DEF SideOK, RevsAreHubs
    <3>3. ReportHolds(s)'
      BY <1>0, <1>1, <1>2, <1>3, <1>4, <3>1, NoCallIsIdle DEF SideOK, ReportHolds
    <3>4. PlanKeepsLoser(s)' /\ PlanIsCurrent(c)'
      BY <1>0, <1>3, <3>1, NoCallIsIdle, NoCallIsCurrent DEF PlanKeepsLoser, New
    <3>5. KnownIsKept(s)'
      BY <1>0, <1>1, <1>2, <1>3, <1>4, <2>1, <3>1 DEF SideOK, KnownIsKept, Current
    <3>6. QED
      BY <3>2, <3>3, <3>4, <3>5
  <2>2. ASSUME NEW f \in BOOLEAN, f <=> (~Has(cur) \/ n.base = cur.rev \/ (cur.origin = s /\ n.base = cur.base)),
               call' = [call EXCEPT ![c] = [@ EXCEPT !.pc = "decide", !.cur = cur, !.fast = f]], UNCHANGED report,
               IF Has(cur) THEN cur.val # n.val ELSE n.val # Gone
        PROVE  RevsAreHubs(s)' /\ ReportHolds(s)' /\ PlanKeepsLoser(s)' /\ KnownIsKept(s)' /\ PlanIsCurrent(c)'
    <3>1. /\ New(s)'.pc = "decide" /\ New(s)'.cur = cur /\ New(s)'.fast = f /\ ~New(s)'.hello
          /\ New(s)'.val = n.val /\ New(s)'.base = n.base
      BY <1>0, <1>1, <2>2, Typed, SMTT(60) DEF New, TypeOK, CallType
    <3>2. RevsAreHubs(s)'
      BY <1>0, <1>2, <1>3, <1>5, <2>2 DEF SideOK, RevsAreHubs
    <3>3. ReportHolds(s)'
      BY <1>0, <1>1, <1>2, <1>3, <1>4, <2>2, <3>1 DEF SideOK, ReportHolds
    <3>4. PlanKeepsLoser(s)'
      <4>1. f => Kept(cur.val)
        <5>1. ~Has(cur) => cur.val = Gone
          BY <1>0, SMTT(60) DEF Has, EntryIsLast, NoEntry
        <5>2. Has(cur) /\ ~Kept(cur.val) => ~f
          BY <1>0, <1>1, <2>2 DEF SideOK, CurrentIsHeld, Has
        <5>3. QED
          BY <5>1, <5>2 DEF Kept
      <4>2. ~f => n.base # cur.rev /\ cur.rev # 0
        BY <1>0, <2>2, SMTT(60) DEF Has
      <4>3. IF f THEN Kept(New(s).cur.val)' ELSE (New(s).base # New(s).cur.rev /\ New(s).cur.rev # 0)'
        BY <1>3, <3>1, <4>1, <4>2 DEF Kept
      <4>4. QED
        BY <3>1, <4>3 DEF PlanKeepsLoser
    <3>5. KnownIsKept(s)'
      BY <1>0, <1>1, <1>2, <1>3, <1>4, <2>2 DEF SideOK, KnownIsKept, Current
    <3>6. PlanIsCurrent(c)'
      BY <1>0, <1>3, <3>1, SMTT(60) DEF PlanIsCurrent, New, EntryIsLast, NoEntry
    <3>7. QED
      BY <3>2, <3>3, <3>4, <3>5, <3>6
  <2>3. ~Has(cur) => cur.rev = 0 /\ cur.val = Gone
    BY <1>0, SMTT(60) DEF Has, EntryIsLast, NoEntry
  <2>4. QED
    BY <1>0, <2>1, <2>2, <2>3 DEF Plan, New
<1>9. OpReplacesKnown(s)' /\ CurrentIsHeld(s)'
  BY <1>0, <1>2, <1>3, <1>4 DEF SideOK, OpReplacesKnown, CurrentIsHeld
<1>10. QED
  BY <1>0, <1>3, <1>5, <1>6, <1>7, <1>8, <1>9, OneSide, PlansAfterOne DEF SideOK

\* The decision about a report: the loser of two changes is the copy it made.
LEMMA OrderDecide ==
    ASSUME TypeOK, InOrder, NEW s \in Sides, Decide(<<s, "new">>)
    PROVE  InOrder'
<1> DEFINE c == <<s, "new">>
           n == New(s)
           d == NewestWins(c)
<1>0. /\ SideOK(s) /\ EntryIsLast /\ c \in Calls /\ PlanIsCurrent(c) /\ n \in CallType
      /\ n.val \in Values /\ n.cur.val \in Values /\ n.cur.rev \in Nat /\ n.fast \in BOOLEAN /\ hub.rev \in Nat
  BY Typed, TypeEntry, TypeCall DEF InOrder
<1>1. /\ n.pc = "decide" /\ rec[s].has /\ rec[s].sent /\ rec[s].val = n.val /\ rec[s].rev = n.base
      /\ link[s] = "up" => report[s].pc = "wait"
      /\ ~n.hello
      /\ IF n.fast THEN Kept(n.cur.val) ELSE n.base # n.cur.rev /\ n.cur.rev # 0
  BY <1>0 DEF Decide, New, SideOK, ReportHolds, PlanIsCurrent, PlanKeepsLoser
<1>2. UNCHANGED <<hub, copies, sr, link, disk, rec, task, made, over>>
  BY DEF Decide, ghosts
<1>3. \A x : Kept(x)' <=> Kept(x)
  BY <1>2 DEF Kept
<1>4. CASE Answer(c, "deferred", 0)
  <2>1. /\ New(s)' = NoCall /\ \A e \in Calls \ {c} : call'[e] = call[e]
        /\ \A t \in Sides \ {s} : report'[t] = report[t] /\ New(t)' = New(t)
        /\ link[s] # "up" => report'[s] = report[s]
        /\ link[s] = "up" => /\ report'[s].pc = "acked" /\ report'[s].val = n.val
                             /\ report'[s].status = "deferred" /\ report'[s].rev = 0
    BY <1>4, AnswerFields, SMTT(60)
  <2>2. Others(s)
    BY <1>2, <2>1 DEF Others
  <2>3. PlanIsCurrent(c)' /\ PlanKeepsLoser(s)'
    BY <1>0, <1>2, <2>1, NoCallIsIdle, NoCallIsCurrent DEF PlanKeepsLoser, New
  <2>4. RevsAreHubs(s)'
    <3>1. 0 <= hub.rev
      BY <1>0, SMTT(60)
    <3>2. QED
      BY <1>0, <1>2, <2>1, <3>1 DEF SideOK, RevsAreHubs
  <2>5. ReportHolds(s)'
    BY <1>0, <1>1, <1>2, <1>3, <2>1, NoCallIsIdle DEF SideOK, ReportHolds
  <2>6. KnownIsKept(s)' /\ OpReplacesKnown(s)' /\ CurrentIsHeld(s)'
    BY <1>0, <1>1, <1>2, <1>3, <2>1 DEF SideOK, KnownIsKept, Current, OpReplacesKnown, CurrentIsHeld
  <2>7. NothingDropped'
    BY <1>2 DEF InOrder, NothingDropped
  <2>8. QED
    BY <1>0, <1>2, <2>1, <2>2, <2>3, <2>4, <2>5, <2>6, <2>7, OneSide, PlansAfterOne DEF SideOK
<1>5. CASE call' = [call EXCEPT ![c] = [@ EXCEPT !.pc = "commit", !.accept = d.accept, !.copy = d.loser]] /\ UNCHANGED report
  <2>0. /\ d.accept <=> (n.fast \/ n.cur.rev = 0 \/ (n.val # Gone /\ n.val > n.cur.val))
        /\ d.loser = IF n.fast \/ n.cur.rev = 0 \/ n.val = Gone \/ n.cur.val = Gone THEN Gone
                     ELSE IF n.val > n.cur.val THEN n.cur.val ELSE n.val
    <3>1. Has(n.cur) <=> n.cur.rev # 0
      BY <1>0, SMTT(60) DEF Has
    <3>2. d.accept <=> (n.fast \/ ~Has(n.cur) \/ (n.val # Gone /\ n.val > n.cur.val))
      BY DEF NewestWins, New
    <3>3. d.loser = IF n.fast \/ ~Has(n.cur) \/ n.val = Gone \/ n.cur.val = Gone THEN Gone
                    ELSE IF n.val > n.cur.val THEN n.cur.val ELSE n.val
      BY DEF NewestWins, New
    <3> HIDE DEF d, n
    <3>4. QED
      BY <3>1, <3>2, <3>3
  <2> HIDE DEF d
  <2>1. /\ New(s)'.pc = "commit" /\ New(s)'.accept = d.accept /\ New(s)'.copy = d.loser
        /\ New(s)'.val = n.val /\ New(s)'.base = n.base /\ New(s)'.cur = n.cur /\ New(s)'.fast = n.fast
        /\ New(s)'.hello = n.hello
        /\ \A e \in Calls \ {c} : call'[e] = call[e]
    BY <1>0, <1>5 DEF New, TypeOK, CallType
  <2>2. Others(s)
    BY <1>2, <1>5, SMTT(60) DEF Others, New, TypeOK
  <2>3. PlanIsCurrent(c)'
    BY <1>0, <1>2, <2>1 DEF PlanIsCurrent, New
  <2>4. PlanKeepsLoser(s)'
    <3>1. d.accept => n.fast \/ d.loser = n.cur.val
      BY <1>0, <1>1, <2>0
    <3>2. ~d.accept => ~n.fast /\ (n.val = Gone \/ d.loser = n.val)
      BY <1>0, <1>1, <2>0, SMTT(60) DEF Values, Contents, Gone
    <3>3. IF n.fast THEN Kept(New(s).cur.val)' ELSE n.base # n.cur.rev /\ n.cur.rev # 0
      BY <1>1, <1>2, <2>1 DEF Kept
    <3>4. QED
      BY <2>1, <3>1, <3>2, <3>3 DEF PlanKeepsLoser
  <2>5. RevsAreHubs(s)' /\ KnownIsKept(s)' /\ OpReplacesKnown(s)' /\ CurrentIsHeld(s)'
    BY <1>0, <1>2, <1>3, <1>5, SMTT(60) DEF SideOK, RevsAreHubs, KnownIsKept, Current, OpReplacesKnown, CurrentIsHeld
  <2>6. ReportHolds(s)'
    BY <1>0, <1>1, <1>2, <1>3, <1>5, <2>1 DEF SideOK, ReportHolds
  <2>7. NothingDropped'
    BY <1>2 DEF InOrder, NothingDropped
  <2>8. QED
    BY <1>0, <1>2, <2>1, <2>2, <2>3, <2>4, <2>5, <2>6, <2>7, OneSide, PlansAfterOne DEF SideOK
<1>6. QED
  BY <1>4, <1>5 DEF Decide

\* An earlier connection's report, while it is not taken, changes only its own handling.
LEMMA OrderOld ==
    ASSUME TypeOK, InOrder, NEW s \in Sides, Handle(<<s, "old">>), "report" \notin crossed'
    PROVE  InOrder'
<1> DEFINE c == <<s, "old">>
<1>0. c \in Calls /\ PlanIsCurrent(c) /\ EntryIsLast /\ \A t \in Sides : <<t, "new">> \in Calls \ {c}
  BY Typed DEF InOrder
<1>1. ~Plan(c)
  BY DEF Plan, Crosses
<1>2. /\ UNCHANGED <<hub, copies, sr, link, disk, rec, task, made, over, report>>
      /\ \A e \in Calls \ {c} : call'[e] = call[e]
  <2>1. CASE Decide(c)
    BY <1>0, <2>1 DEF Decide, Answer, ghosts, TypeOK
  <2>2. CASE Commit(c)
    BY <1>0, <2>2 DEF Commit, Answer, Crosses, TypeOK
  <2>3. QED
    BY <1>1, <2>1, <2>2 DEF Handle
<1>3. PlanIsCurrent(c)'
  <2>1. CASE Decide(c)
    <3> DEFINE d == NewestWins(c)
    <3>1. \/ call'[c] = NoCall
          \/ call'[c] = [call[c] EXCEPT !.pc = "commit", !.accept = d.accept, !.copy = d.loser]
      <4>1. \/ call' = [call EXCEPT ![c] = NoCall]
            \/ call' = [call EXCEPT ![c] = [@ EXCEPT !.pc = "commit", !.accept = d.accept, !.copy = d.loser]]
        BY <2>1 DEF Decide, Answer
      <4> HIDE DEF d
      <4>2. QED
        BY <1>0, <4>1 DEF TypeOK
    <3> HIDE DEF d
    <3>2. call'[c].cur \in {NoEntry, call[c].cur} /\ ~call'[c].hello
      <4>1. call[c] \in CallType /\ ~call[c].hello
        BY <1>0, Typed DEF PlanIsCurrent
      <4>2. CASE call'[c] = NoCall
        BY <4>2, SMTT(60) DEF NoCall
      <4>3. CASE call'[c] = [call[c] EXCEPT !.pc = "commit", !.accept = d.accept, !.copy = d.loser]
        BY <4>1, <4>3 DEF CallType
      <4>4. QED
        BY <3>1, <4>2, <4>3
    <3>3. QED
      BY <1>0, <1>2, <3>2, Typed, SMTT(60) DEF PlanIsCurrent, EntryIsLast, NoEntry
  <2>2. CASE Commit(c)
    <3>1. call'[c].cur = NoEntry /\ ~call'[c].hello
      <4>1. \/ call' = [call EXCEPT ![c] = NoCall]
            \/ call' = [call EXCEPT ![c] = [NoCall EXCEPT !.pc = "plan", !.hello = call[c].hello,
                                                           !.val = call[c].val, !.base = call[c].base]]
        BY <2>2 DEF Commit, Answer
      <4>2. call[c].hello = FALSE
        BY <1>0, Typed, TypeCall DEF PlanIsCurrent
      <4>3. \/ call'[c] = NoCall
            \/ call'[c] = [NoCall EXCEPT !.pc = "plan", !.hello = call[c].hello, !.val = call[c].val, !.base = call[c].base]
        BY <1>0, <4>1 DEF TypeOK
      <4>4. CASE call'[c] = NoCall
        BY <4>4, SMTT(60) DEF NoCall
      <4>5. CASE call'[c] = [NoCall EXCEPT !.pc = "plan", !.hello = call[c].hello, !.val = call[c].val, !.base = call[c].base]
        BY <4>2, <4>5 DEF NoCall
      <4>6. QED
        BY <4>3, <4>4, <4>5
    <3>2. QED
      BY <1>0, <1>2, <3>1, Typed, SMTT(60) DEF PlanIsCurrent, EntryIsLast, NoEntry
  <2>3. QED
    BY <1>1, <2>1, <2>2 DEF Handle
<1>4. Others(s) /\ New(s)' = New(s)
  BY <1>0, <1>2 DEF Others, New
<1>5. SideOK(s)'
  <2>1. SideOK(s) /\ sr'[s].held <= hub.rev
    BY <1>2 DEF InOrder, SideOK, RevsAreHubs
  <2>2. QED
    BY <1>2, <1>4, <2>1, SideFrame
<1>6. NothingDropped'
  BY <1>2 DEF InOrder, NothingDropped
<1>7. QED
  BY <1>0, <1>2, <1>3, <1>4, <1>5, <1>6, OneSide, PlansAfterOne
=============================================================================
