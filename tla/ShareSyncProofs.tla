-------------------------- MODULE ShareSyncProofs ---------------------------
(***************************************************************************)
(* Proofs about ShareSync: KeptInv and HeldInv are inductive, and with     *)
(* them the hub drops no change while reports are taken in order, and is   *)
(* right about what a side holds, for any copies, contents and faults.     *)
(***************************************************************************)
EXTENDS ShareSyncReportProofs

\* A leaf goes to Zenon, with time for a busy machine, unless it names another prover.
USE ZenonT(60)

-----------------------------------------------------------------------------
(* Nothing is dropped: commits, ops and connections. *)

\* A step loses no content when every file it replaces is kept, or replaced by itself.
LEMMA ReplacesKept ==
    ASSUME TypeOK, NothingDropped, UNCHANGED <<made, over>>, copies \subseteq copies',
           \A s \in Sides : disk'[s] = disk[s] \/ Kept(disk[s])
    PROVE  NothingDropped'
<1>1. SUFFICES ASSUME NEW x \in made, x \notin over PROVE (\E s \in Sides : disk'[s] = x) \/ x \in copies'
  BY DEF NothingDropped
<1>2. x # Gone
  BY <1>1, SMTT(60) DEF TypeOK, Contents, Gone
<1>3. CASE x \in copies
  BY <1>3
<1>4. CASE \E s \in Sides : disk[s] = x
  <2>1. PICK s \in Sides : disk[s] = x
    BY <1>4
  <2>2. QED
    BY <1>1, <1>2, <2>1 DEF Kept
<1>5. QED
  BY <1>1, <1>3, <1>4 DEF NothingDropped

\* What a side's file and record may be after an op: as they were, or its state in place of one
\* the hub knows, recorded or not.
Lands(s) ==
    LET t == task[s] IN
    /\ IF rec[s].has THEN ~rec[s].sent /\ rec[s].val = disk[s] /\ rec[s].rev <= t.rev ELSE disk[s] = Gone
    /\ t.pc \in {"look", "fetch", "write"} /\ disk'[s] = t.val
    /\ \/ rec'[s] = rec[s]
       \/ t.val = Gone /\ ~rec'[s].has /\ rec'[s].rev = 0 /\ rec'[s].epoch = rec[s].epoch
       \/ rec'[s].has /\ ~rec'[s].sent /\ rec'[s].rev = t.rev /\ rec'[s].val = t.val /\ rec'[s].epoch = rec[s].epoch

\* A side whose op goes on, ends or is cut off, with what lands of it.
LEMMA OpSide ==
    ASSUME TypeOK, InOrder, NEW s \in Sides, UNCHANGED <<hub, copies, over>>,
           (disk'[s] = disk[s] /\ rec'[s] = rec[s]) \/ Lands(s),
           New(s)' = New(s) \/ New(s)' = NoCall,
           \/ link'[s] = link[s] /\ report'[s] = report[s] /\ New(s)' = New(s)
           \/ link'[s] = "down" /\ report'[s] = Idle /\ task'[s].pc = "none",
           task'[s].pc \in {"none", "done"} /\ task'[s].rev \in {0, task[s].rev},
           task'[s].pc = "done" => task[s].pc # "none" /\ task'[s].val = task[s].val /\ task'[s].rev = task[s].rev,
           sr'[s].held <= hub.rev
    PROVE  SideOK(s)' /\ (disk'[s] = disk[s] \/ Kept(disk[s]))
<1> DEFINE t == task[s]
<1>0. /\ SideOK(s) /\ EntryIsLast /\ hub.rev \in Nat /\ hub.cur.rev \in Nat /\ rec[s].rev \in Nat /\ t.rev \in Nat
  BY Typed, TypeEntry, TypeRec, TypeTask DEF InOrder
<1>1. \A x : Kept(x)' <=> Kept(x)
  BY DEF Kept
<1>2. Lands(s) => /\ Kept(disk[s]) \/ (disk[s] = hub.cur.val /\ hub.cur.rev > 0 /\ t.val = disk[s])
                  /\ rec[s].has /\ rec[s].rev = hub.cur.rev /\ hub.cur.rev > 0 => t.val = hub.cur.val
  BY WritesOverKept DEF Lands
<1>3. Lands(s) => New(s).pc = "none" /\ report[s].pc = "idle"
  BY <1>0 DEF Lands, SideOK, ReportHolds
<1>4. RevsAreHubs(s)'
  <2>1. rec'[s].rev <= hub.rev /\ rec'[s].epoch = hub.epoch /\ (~rec'[s].has => rec'[s].rev = 0)
    BY <1>0, SMTT(60) DEF SideOK, RevsAreHubs, Lands
  <2>2. hub.cur.rev > 0 /\ rec'[s].has /\ ~rec'[s].sent /\ rec'[s].rev = hub.cur.rev => rec'[s].val = hub.cur.val
    BY <1>0 DEF SideOK, RevsAreHubs, Lands
  <2>3. QED
    BY <1>0, <2>1, <2>2, SMTT(60) DEF SideOK, RevsAreHubs, Idle
<1>5. ReportHolds(s)'
  BY <1>0, <1>1, <1>3, SMTT(60) DEF SideOK, ReportHolds, Lands, Idle, NoCall
<1>6. PlanKeepsLoser(s)'
  BY <1>0, <1>1, NoCallIsIdle DEF SideOK, PlanKeepsLoser
<1>7. KnownIsKept(s)'
  <2>1. (rec[s].has /\ ~rec[s].sent => Kept(rec[s].val) \/ Current(rec[s].val, rec[s].rev))'
    BY <1>0, <1>1 DEF SideOK, KnownIsKept, Current, Lands
  <2>2. QED
    BY <1>0, <1>1, <1>3, <2>1, SMTT(60) DEF SideOK, KnownIsKept, Current, Idle
<1>8. OpReplacesKnown(s)'
  BY DEF OpReplacesKnown
<1>9. CurrentIsHeld(s)'
  <2>1. CASE disk'[s] = disk[s] /\ rec'[s] = rec[s]
    BY <1>0, <1>1, <2>1 DEF SideOK, CurrentIsHeld
  <2>2. CASE Lands(s)
    <3>1. SUFFICES ASSUME hub.cur.rev > 0, ~Kept(hub.cur.val)
          PROVE  /\ rec'[s].has /\ rec'[s].rev = hub.cur.rev => disk'[s] = hub.cur.val /\ rec'[s].val = hub.cur.val
                 /\ s = hub.cur.origin =>
                      /\ rec'[s].has /\ rec'[s].val = hub.cur.val /\ disk'[s] = hub.cur.val
                      /\ (rec'[s].sent /\ rec'[s].rev = hub.cur.base) \/ rec'[s].rev = hub.cur.rev
      BY <1>1 DEF CurrentIsHeld
    <3>2. hub.cur.val # Gone /\ hub.cur.rev = hub.rev
      BY <1>0, <3>1, SMTT(60) DEF Kept, EntryIsLast, NoEntry
    <3>3. t.rev = hub.cur.rev => t.val = hub.cur.val
      BY <1>0, <2>2, <3>1 DEF SideOK, RevsAreHubs, Lands
    <3>4. s = hub.cur.origin => rec[s].has /\ rec[s].rev = hub.cur.rev /\ t.rev = hub.cur.rev
      <4>1. s = hub.cur.origin => rec[s].has /\ (rec[s].sent \/ rec[s].rev = hub.cur.rev)
        BY <1>0, <3>1 DEF SideOK, CurrentIsHeld
      <4>2. t.rev <= hub.rev
        BY <1>0 DEF SideOK, RevsAreHubs
      <4>3. rec[s].has => ~rec[s].sent /\ rec[s].rev <= t.rev
        BY <2>2 DEF Lands
      <4>4. hub.rev <= t.rev => t.rev = hub.rev
        BY <1>0, <4>2, SMTT(60)
      <4>5. QED
        BY <3>2, <4>1, <4>3, <4>4
    <3>5. rec[s].has /\ rec[s].rev = hub.cur.rev => rec[s].val = hub.cur.val /\ t.val = hub.cur.val
      BY <1>0, <1>2, <2>2, <3>1 DEF SideOK, CurrentIsHeld
    <3>6. QED
      BY <2>2, <3>2, <3>3, <3>4, <3>5 DEF Lands
  <2>3. QED
    BY <2>1, <2>2
<1>10. QED
  BY <1>2, <1>4, <1>5, <1>6, <1>7, <1>8, <1>9 DEF SideOK, Lands

\* A commit: the entry it replaces is kept, and the side that reported holds the new one.
LEMMA OrderCommit ==
    ASSUME TypeOK, TypeOK', InOrder, NEW s \in Sides, Commit(<<s, "new">>)
    PROVE  InOrder'
<1> DEFINE c == <<s, "new">>
           n == New(s)
<1>0. /\ SideOK(s) /\ EntryIsLast /\ c \in Calls /\ PlanIsCurrent(c)
      /\ n.val \in Values /\ n.base \in Nat /\ n.cur.rev \in Nat /\ n.fast \in BOOLEAN /\ n.accept \in BOOLEAN
      /\ hub.rev \in Nat /\ hub.cur.rev \in Nat /\ rec[s].rev \in Nat
  BY Typed, TypeEntry, TypeCall, TypeRec DEF InOrder
<1>1. /\ n.pc = "commit" /\ rec[s].has /\ rec[s].sent /\ rec[s].val = n.val /\ rec[s].rev = n.base
      /\ link[s] = "up" => report[s].pc = "wait"
      /\ n.hello = FALSE
      /\ IF n.fast THEN Kept(n.cur.val) ELSE n.base # n.cur.rev /\ n.cur.rev # 0
      /\ IF n.accept THEN n.fast \/ n.copy = n.cur.val ELSE ~n.fast /\ (n.val = Gone \/ n.copy = n.val)
  BY <1>0, Typed, TypeCall DEF Commit, New, SideOK, ReportHolds, PlanIsCurrent, PlanKeepsLoser
<1>2. UNCHANGED <<link, disk, rec, task, made, over>> /\ copies \subseteq copies'
  BY DEF Commit
<1>3. ASSUME NEW x, Kept(x) PROVE Kept(x)'
  BY <1>2, <1>3, KeptStays
<1>4. NothingDropped'
  BY <1>2 DEF InOrder, NothingDropped
<1>5. ASSUME ~Unmoved(c),
             call' = [call EXCEPT ![c] = [NoCall EXCEPT !.pc = "plan", !.hello = n.hello, !.val = n.val, !.base = n.base]],
             UNCHANGED <<hub, copies, sr, report>>
      PROVE  InOrder'
  <2>1. /\ New(s)'.pc = "plan" /\ New(s)'.hello = FALSE /\ New(s)'.val = n.val /\ New(s)'.base = n.base
        /\ New(s)'.cur = NoEntry
        /\ \A e \in Calls \ {c} : call'[e] = call[e]
    BY <1>0, <1>1, <1>5 DEF New, TypeOK, NoCall
  <2>2. Others(s)
    BY <1>2, <1>5, SMTT(60) DEF Others, New, TypeOK
  <2>3. PlanIsCurrent(c)' /\ PlanKeepsLoser(s)'
    BY <1>0, <1>5, <2>1, SMTT(60) DEF PlanIsCurrent, PlanKeepsLoser, New, EntryIsLast, NoEntry
  <2>4. RevsAreHubs(s)' /\ KnownIsKept(s)' /\ OpReplacesKnown(s)' /\ CurrentIsHeld(s)'
    BY <1>0, <1>2, <1>5, KeptStays, SMTT(60) DEF SideOK, RevsAreHubs, KnownIsKept, Current, OpReplacesKnown, CurrentIsHeld
  <2>5. ReportHolds(s)'
    BY <1>0, <1>1, <1>2, <1>3, <1>5, <2>1 DEF SideOK, ReportHolds
  <2>6. QED
    BY <1>0, <1>4, <1>5, <2>1, <2>2, <2>3, <2>4, <2>5, OneSide, PlansAfterOne DEF SideOK
<1>6. ASSUME NEW status, NEW r \in Nat, Answer(c, status, r), UNCHANGED hub,
             \A t \in Sides \ {s} : sr'[t].held = sr[t].held, sr'[s].held <= hub.rev,
             r <= hub.rev, status # "accepted",
             NEW v, v = n.val, status = "superseded" => Kept(v)' /\ r # 0 /\ n.base # hub.cur.rev
      PROVE  InOrder'
  <2>1. /\ New(s)' = NoCall /\ \A e \in Calls \ {c} : call'[e] = call[e]
        /\ \A t \in Sides \ {s} : report'[t] = report[t] /\ New(t)' = New(t)
        /\ link[s] # "up" => report'[s] = report[s]
        /\ link[s] = "up" => /\ report'[s].pc = "acked" /\ report'[s].val = n.val
                             /\ report'[s].status = status /\ report'[s].rev = r
    BY <1>6, AnswerFields, SMTT(60)
  <2>2. Others(s)
    BY <1>2, <1>6, <2>1 DEF Others
  <2>3. PlanIsCurrent(c)' /\ PlanKeepsLoser(s)'
    BY <1>0, <1>6, <2>1, NoCallIsIdle, NoCallIsCurrent DEF PlanKeepsLoser, New
  <2>4. RevsAreHubs(s)'
    BY <1>0, <1>2, <1>6, <2>1 DEF SideOK, RevsAreHubs
  <2>5. ReportHolds(s)'
    BY <1>0, <1>1, <1>2, <1>3, <2>1, NoCallIsIdle DEF SideOK, ReportHolds
  <2>6. KnownIsKept(s)' /\ OpReplacesKnown(s)' /\ CurrentIsHeld(s)'
    BY <1>0, <1>1, <1>2, <1>3, <1>6, <2>1 DEF SideOK, KnownIsKept, Current, OpReplacesKnown, CurrentIsHeld
  <2>7. QED
    BY <1>0, <1>4, <1>6, <2>1, <2>2, <2>3, <2>4, <2>5, <2>6, OneSide, PlansAfterOne DEF SideOK
<1>7. ASSUME Unmoved(c), ~n.accept,
             sr' = [sr EXCEPT ![s] = [held |-> IF n.val = Gone THEN NotHeld ELSE 0, dirty |-> TRUE]],
             copies' = copies \cup ({n.copy} \ {Gone}),
             Answer(c, "superseded", IF n.fast THEN 0 ELSE hub.cur.rev), UNCHANGED hub
      PROVE  InOrder'
  <2>1. ~n.fast /\ n.cur.rev = hub.cur.rev /\ Answer(c, "superseded", hub.cur.rev)
    BY <1>0, <1>1, <1>7 DEF Unmoved, New
  <2>2. ASSUME NEW v, v = n.val PROVE Kept(v)'
    BY <1>1, <1>7, <2>2 DEF Kept
  <2>3. hub.cur.rev <= hub.rev /\ hub.cur.rev # 0 /\ n.base # hub.cur.rev
    BY <1>0, <1>1, <2>1, SMTT(60) DEF EntryIsLast, NoEntry
  <2>4. (\A t \in Sides \ {s} : sr'[t].held = sr[t].held) /\ sr'[s].held <= hub.rev
    BY <1>0, <1>7, SMTT(60) DEF TypeOK, NotHeld
  <2>5. QED
    BY <1>0, <1>6, <1>7, <2>1, <2>2, <2>3, <2>4
<1>8. ASSUME Answer(c, "deferred", 0), UNCHANGED <<hub, copies, sr>> PROVE InOrder'
  <2>1. (\A t \in Sides \ {s} : sr'[t].held = sr[t].held) /\ sr'[s].held <= hub.rev /\ 0 <= hub.rev
    BY <1>0, <1>8, SMTT(60) DEF SideOK, RevsAreHubs
  <2>2. QED
    BY <1>6, <1>8, <2>1, SMTT(60)
<1>9. ASSUME Unmoved(c), n.accept, SetEntry(s, n.val, n.base), copies' = copies \cup ({n.copy} \ {Gone}),
             Answer(c, "accepted", hub.rev + 1)
      PROVE  InOrder'
  <2>1. /\ hub'.rev = hub.rev + 1 /\ hub'.cur.rev = hub.rev + 1 /\ hub'.cur.val = n.val /\ hub'.cur.origin = s
        /\ hub'.cur.base = n.base /\ hub'.epoch = hub.epoch /\ hub'.forgot = hub.forgot
        /\ \A t \in Sides \ {s} : sr'[t].held = sr[t].held
        /\ sr'[s].held <= hub'.rev
    BY <1>0, <1>9, SMTT(60) DEF SetEntry, TypeOK, HubType, NotHeld
  <2>2. /\ New(s)' = NoCall /\ \A e \in Calls \ {c} : call'[e] = call[e]
        /\ \A t \in Sides \ {s} : report'[t] = report[t] /\ New(t)' = New(t)
        /\ link[s] # "up" => report'[s] = report[s]
        /\ link[s] = "up" => /\ report'[s].pc = "acked" /\ report'[s].val = n.val
                             /\ report'[s].status = "accepted" /\ report'[s].rev = hub.rev + 1
    BY <1>9, AnswerFields, SMTT(60)
  <2>3. ASSUME NEW x, x = hub.cur.val PROVE Kept(x)'
    <3>1. n.cur = hub.cur
      BY <1>0, <1>9 DEF PlanIsCurrent, Unmoved, New
    <3>2. Kept(x) \/ x = n.copy
      BY <1>1, <1>9, <2>3, <3>1
    <3>3. QED
      BY <1>3, <1>9, <3>2 DEF Kept
  <2>4. EntryIsLast'
    BY <1>0, <2>1, Typed, SMTT(60) DEF EntryIsLast
  <2>5. \A e \in Calls : PlanIsCurrent(e)'
    <3>1. PlanIsCurrent(c)'
      BY <1>0, <2>1, <2>2, SMTT(60) DEF PlanIsCurrent, NoCall, NoEntry, New
    <3>2. ASSUME NEW e \in Calls \ {c} PROVE PlanIsCurrent(e)'
      <4>1. PlanIsCurrent(e) /\ call[e].cur.rev \in Nat
        BY Typed, TypeCall, TypeEntry DEF InOrder
      <4>2. QED
        BY <1>0, <2>1, <2>2, <4>1, SMTT(60) DEF PlanIsCurrent
    <3>3. QED
      BY <3>1, <3>2
  <2>6. ASSUME NEW t \in Sides \ {s} PROVE SideOK(t)'
    <3>1. SideOK(t)
      BY DEF InOrder
    <3>2. QED
      BY <1>0, <1>2, <2>1, <2>2, <2>3, <3>1, EntryFrame, SMTT(60)
  <2>7. SideOK(s)'
    <3>0. /\ task[s].rev \in Nat /\ report[s].rev \in Nat
      BY Typed, TypeTask, TypeReport
    <3>1. RevsAreHubs(s)'
      BY <1>0, <1>1, <1>2, <2>1, <2>2, <3>0, SMTT(60) DEF SideOK, RevsAreHubs
    <3>2. ReportHolds(s)'
      BY <1>0, <1>1, <1>2, <1>3, <2>2, NoCallIsIdle DEF SideOK, ReportHolds
    <3>3. PlanKeepsLoser(s)' /\ OpReplacesKnown(s)'
      BY <1>0, <1>2, <2>2, NoCallIsIdle DEF SideOK, PlanKeepsLoser, OpReplacesKnown
    <3>4. KnownIsKept(s)'
      <4>1. (report[s].pc = "acked" =>
              report[s].status = "accepted" /\ Current(report[s].val, report[s].rev))'
        BY <1>0, <1>1, <2>1, <2>2, SMTT(60) DEF Current, SideOK, ReportHolds, TypeOK
      <4>2. (task[s].pc \in {"look", "fetch", "write"} => Kept(task[s].val))'
        BY <1>0, <1>2, <1>3, <2>3 DEF SideOK, KnownIsKept, Current
      <4>3. QED
        BY <1>1, <1>2, <4>1, <4>2 DEF KnownIsKept
    <3>5. CurrentIsHeld(s)'
      <4>1. disk[s] = n.val \/ Kept(n.val)
        BY <1>0, <1>1 DEF SideOK, ReportHolds
      <4>2. rec[s].rev # hub.rev + 1
        BY <1>0, SMTT(60) DEF SideOK, RevsAreHubs
      <4>3. QED
        BY <1>1, <1>2, <1>3, <2>1, <4>1, <4>2 DEF CurrentIsHeld
    <3>6. QED
      BY <3>1, <3>2, <3>3, <3>4, <3>5 DEF SideOK
  <2>8. QED
    BY <1>4, <2>4, <2>5, <2>6, <2>7 DEF InOrder
<1>10. QED
  BY <1>5, <1>7, <1>8, <1>9 DEF Commit, New

\* The dispatcher sends the path's state, or that it is gone.
LEMMA OrderDispatch ==
    ASSUME TypeOK, InOrder, NEW s \in Sides, Dispatch(s)
    PROVE  InOrder'
<1>0. /\ SideOK(s) /\ EntryIsLast /\ hub.rev \in Nat /\ hub.cur.rev \in Nat /\ hub.forgot \in Nat
  BY Typed, TypeEntry DEF InOrder
<1>1. UNCHANGED <<hub, copies, call, link, disk, rec, report, made, over>> /\ link[s] = "up" /\ task[s].pc = "none"
  BY DEF Dispatch, ghosts
<1>2. \A t \in Sides : sr'[t].held = sr[t].held /\ (t # s => task'[t] = task[t])
  BY DEF Dispatch, TypeOK
<1>3. Others(s)
  BY <1>1, <1>2 DEF Others, New
<1>4. CASE task' = task
  <2>1. SideOK(s)' 
    BY <1>0, <1>1, <1>2, <1>4, SideFrame DEF New, SideOK, RevsAreHubs
  <2>2. QED
    BY <1>1, <1>3, <2>1, OneSide, PlansFrame DEF InOrder, NothingDropped
<1>5. CASE task'[s].pc = "look" /\ task'[s].val = hub.cur.val
           /\ task'[s].rev = IF Has(hub.cur) THEN hub.cur.rev ELSE hub.forgot
  <2>1. task'[s].rev <= hub.rev /\ (Has(hub.cur) => task'[s].rev = hub.cur.rev) /\ (~Has(hub.cur) => hub.cur.val = Gone)
    BY <1>0, <1>5, SMTT(60) DEF Has, EntryIsLast, NoEntry
  <2>2. \A x : Kept(x)' <=> Kept(x)
    BY <1>1 DEF Kept
  <2>3. RevsAreHubs(s)'
    BY <1>0, <1>1, <1>2, <1>5, <2>1 DEF SideOK, RevsAreHubs, Has
  <2>4. ReportHolds(s)' /\ PlanKeepsLoser(s)' /\ CurrentIsHeld(s)'
    BY <1>0, <1>1, <1>5, <2>2 DEF SideOK, ReportHolds, PlanKeepsLoser, CurrentIsHeld, New
  <2>5. KnownIsKept(s)'
    <3>1. (Kept(task[s].val) \/ Current(task[s].val, task[s].rev))'
      BY <1>1, <1>5, <2>1 DEF Kept, Current
    <3>2. QED
      BY <1>0, <1>1, <2>2, <3>1 DEF SideOK, KnownIsKept, Current
  <2>6. OpReplacesKnown(s)'
    BY <1>5 DEF OpReplacesKnown
  <2>7. SideOK(s)'
    BY <2>3, <2>4, <2>5, <2>6 DEF SideOK
  <2>8. QED
    BY <1>1, <1>3, <2>7, OneSide, PlansFrame DEF InOrder, NothingDropped
<1>6. QED
  <2> DEFINE r == IF Has(hub.cur) THEN hub.cur.rev ELSE hub.forgot
  <2>1. task' = task \/ task'[s] = [NoTask EXCEPT !.pc = "look", !.val = hub.cur.val, !.rev = r]
    BY DEF Dispatch, TypeOK
  <2> HIDE DEF r
  <2>2. task' = task \/ (task'[s].pc = "look" /\ task'[s].val = hub.cur.val /\ task'[s].rev = r)
    BY <2>1 DEF NoTask
  <2>3. QED
    BY <1>4, <1>5, <2>2 DEF r

\* What ends an op leaves of it.
LEMMA ResultFields ==
    ASSUME TypeOK, NEW s \in Sides, NEW status, Result(s, status)
    PROVE  /\ task'[s].pc = "done" /\ task'[s].val = task[s].val /\ task'[s].rev = task[s].rev
           /\ task'[s].status = status /\ task'[s].reported = task[s].reported
           /\ \A t \in Sides \ {s} : task'[t] = task[t]
  BY DEF Result, TypeOK, NoTask

\* The record of what an op applied.
LEMMA AppliedFields ==
    ASSUME TypeOK, NEW s \in Sides, NEW v, NEW r, Applied(s, v, r)
    PROVE  /\ v = Gone => ~rec'[s].has /\ rec'[s].rev = 0
           /\ v # Gone => rec'[s].has /\ ~rec'[s].sent /\ rec'[s].rev = r /\ rec'[s].val = v
           /\ rec'[s].epoch = rec[s].epoch
           /\ \A t \in Sides \ {s} : rec'[t] = rec[t]
  BY DEF Applied, TypeOK, NoRec

\* A side at an op replaces only what the hub knows.
LEMMA OrderApply ==
    ASSUME TypeOK, InOrder, NEW s \in Sides, Apply(s)
    PROVE  InOrder'
<1> DEFINE t == task[s]
<1>0. /\ SideOK(s) /\ NothingDropped /\ t.rev \in Nat /\ rec[s].rev \in Nat /\ hub.cur.rev \in Nat
      /\ t.pc \in {"look", "fetch", "write"}
  BY Typed, TypeEntry, TypeTask, TypeRec DEF InOrder, Apply, Look, Fetch, Write
<1>1. UNCHANGED <<hub, copies, call, sr, link, report, made, over>>
  BY DEF Apply, Look, Fetch, Write, hubVars, ghosts
<1>2. \A x : Kept(x)' <=> Kept(x)
  BY <1>1 DEF Kept
<1>3. ASSUME task'[s].pc = "done", t.val = task'[s].val, t.rev = task'[s].rev,
             (disk' = disk /\ rec' = rec) \/ (Lands(s) /\ \A u \in Sides \ {s} : disk'[u] = disk[u] /\ rec'[u] = rec[u]),
             \A u \in Sides \ {s} : task'[u] = task[u]
      PROVE  InOrder'
  <2>1. SideOK(s)' /\ (disk'[s] = disk[s] \/ Kept(disk[s]))
    BY <1>0, <1>1, <1>3, OpSide DEF SideOK, RevsAreHubs, New
  <2>2. Others(s)
    BY <1>1, <1>3 DEF Others, New
  <2>3. NothingDropped'
    BY <1>0, <1>1, <1>3, <2>1, ReplacesKept
  <2>4. QED
    BY <1>1, <2>1, <2>2, <2>3, OneSide, PlansFrame
<1>4. ASSUME NEW status, Result(s, status), UNCHANGED <<disk, rec>> PROVE InOrder'
  BY <1>3, <1>4, ResultFields
<1>5. ASSUME Result(s, "applied"), disk' = [disk EXCEPT ![s] = t.val], Applied(s, t.val, t.rev),
             IF rec[s].has THEN ~rec[s].sent /\ rec[s].val = disk[s] /\ rec[s].rev <= t.rev ELSE disk[s] = Gone
      PROVE  InOrder'
  <2>1. Lands(s)
    <3>1. disk'[s] = t.val
      BY <1>5 DEF TypeOK
    <3>2. QED
      BY <1>0, <1>5, <3>1, AppliedFields DEF Lands
  <2>2. \A u \in Sides \ {s} : disk'[u] = disk[u] /\ rec'[u] = rec[u]
    BY <1>5, AppliedFields DEF TypeOK
  <2>3. QED
    BY <1>3, <1>5, <2>1, <2>2, ResultFields
<1>6. ASSUME task'[s].pc \in {"fetch", "write"}, task'[s].val = t.val, task'[s].rev = t.rev, UNCHANGED <<disk, rec>>,
             OpReplacesKnown(s)', \A u \in Sides \ {s} : task'[u] = task[u]
      PROVE  InOrder'
  <2>1. RevsAreHubs(s)' /\ ReportHolds(s)' /\ PlanKeepsLoser(s)'
    BY <1>0, <1>1, <1>2, <1>6 DEF SideOK, RevsAreHubs, ReportHolds, PlanKeepsLoser, New
  <2>2. KnownIsKept(s)' /\ CurrentIsHeld(s)'
    BY <1>0, <1>1, <1>2, <1>6 DEF SideOK, KnownIsKept, Current, CurrentIsHeld
  <2>3. Others(s)
    BY <1>1, <1>6 DEF Others, New
  <2>4. QED
    BY <1>0, <1>1, <1>6, <2>1, <2>2, <2>3, OneSide, PlansFrame DEF SideOK, NothingDropped
<1>7. CASE Look(s)
  <2>1. ~(rec[s].has /\ rec[s].rev > t.rev) /\ Unchanged(s) =>
          IF rec[s].has THEN ~rec[s].sent /\ rec[s].val = disk[s] /\ rec[s].rev <= t.rev ELSE disk[s] = Gone
    BY <1>0, SMTT(60) DEF Unchanged
  <2>2. ASSUME task' = [task EXCEPT ![s] = [@ EXCEPT !.pc = "fetch", !.at = rec[s], !.found = disk[s]]],
               ~(rec[s].has /\ rec[s].rev > t.rev), Unchanged(s), UNCHANGED <<disk, rec>>
        PROVE  InOrder'
    <3>1. /\ task'[s].pc = "fetch" /\ task'[s].val = t.val /\ task'[s].rev = t.rev
          /\ task'[s].at = rec[s] /\ task'[s].found = disk[s]
          /\ \A u \in Sides \ {s} : task'[u] = task[u]
      BY <2>2, Typed, SMTT(60) DEF TypeOK, TaskType
    <3>2. OpReplacesKnown(s)'
      BY <2>1, <2>2, <3>1 DEF OpReplacesKnown
    <3>3. QED
      BY <1>6, <2>2, <3>1, <3>2
  <2>3. QED
    BY <1>4, <1>5, <1>7, <2>1, <2>2 DEF Look
<1>8. CASE Fetch(s)
  <2>1. ASSUME task' = [task EXCEPT ![s].pc = "write"], t.pc = "fetch", UNCHANGED <<disk, rec>>
        PROVE  InOrder'
    <3>1. /\ task'[s].pc = "write" /\ task'[s].val = t.val /\ task'[s].rev = t.rev
          /\ task'[s].at = t.at /\ task'[s].found = t.found
          /\ \A u \in Sides \ {s} : task'[u] = task[u]
      BY <2>1, Typed DEF TypeOK, TaskType
    <3>2. OpReplacesKnown(s)'
      BY <1>0, <2>1, <3>1 DEF SideOK, OpReplacesKnown
    <3>3. QED
      BY <1>6, <2>1, <3>1, <3>2
  <2>2. QED
    BY <1>4, <1>8, <2>1 DEF Fetch
<1>9. CASE Write(s)
  <2>1. Still(s) => IF rec[s].has THEN ~rec[s].sent /\ rec[s].val = disk[s] /\ rec[s].rev <= t.rev ELSE disk[s] = Gone
    BY <1>0, <1>9 DEF Write, Still, SideOK, OpReplacesKnown
  <2>2. QED
    BY <1>4, <1>5, <1>9, <2>1 DEF Write
<1>10. QED
  BY <1>7, <1>8, <1>9 DEF Apply

\* The result of an op changes what the hub takes the side to hold.
LEMMA OrderFinish ==
    ASSUME TypeOK, InOrder, NEW s \in Sides, Finish(s)
    PROVE  InOrder'
<1>0. /\ SideOK(s) /\ hub.rev \in Nat /\ task[s].rev \in Nat /\ sr[s].held \in Nat \cup {NotHeld}
  BY Typed, TypeTask DEF InOrder
<1>1. UNCHANGED <<hub, copies, call, link, disk, rec, report, made, over>>
  BY DEF Finish
<1>2. task'[s] = NoTask /\ \A t \in Sides \ {s} : task'[t] = task[t] /\ sr'[t] = sr[t]
  BY DEF Finish, TypeOK
<1>3. sr'[s].held \in {sr[s].held, NotHeld, task[s].rev}
  BY DEF Finish, TypeOK
<1>4. sr'[s].held <= hub.rev
  BY <1>0, <1>3, SMTT(60) DEF SideOK, RevsAreHubs, NotHeld
<1>5. SideOK(s)'
  BY <1>1, <1>2, <1>4, OpSide, SMTT(60) DEF NoTask, New
<1>6. Others(s)
  BY <1>1, <1>2 DEF Others, New
<1>7. QED
  BY <1>1, <1>5, <1>6, OneSide, PlansFrame DEF InOrder, NothingDropped

\* A side that connects holds what it says it holds, for the hub knows every rev it has.
LEMMA HelloFields ==
    ASSUME TypeOK, InOrder, NEW s \in Sides, Hello(s)
    PROVE  /\ UNCHANGED <<hub, copies, call, disk, rec, report, task, made, over, crossed>>
           /\ link' = [link EXCEPT ![s] = "up"] /\ link[s] = "down" /\ New(s).pc = "none"
           /\ sr'[s].held = IF rec[s].has /\ ~rec[s].sent /\ rec[s].val # Gone THEN rec[s].rev ELSE NotHeld
           /\ \A t \in Sides \ {s} : sr'[t] = sr[t]
<1> DEFINE r == rec[s]
           holds == r.has /\ ~r.sent /\ r.val # Gone
           stale == holds /\ \/ ~(r.epoch = hub.epoch) \/ r.rev > hub.rev
                             \/ Has(hub.cur) /\ hub.cur.rev = r.rev /\ hub.cur.val # r.val
<1>1. SideOK(s) /\ hub.rev \in Nat /\ r.rev \in Nat /\ r.epoch = hub.epoch /\ ~(r.rev > hub.rev)
  <2>1. SideOK(s) /\ hub.rev \in Nat /\ r.rev \in Nat
    BY Typed, TypeRec DEF InOrder
  <2>2. QED
    BY <2>1, SMTT(60) DEF SideOK, RevsAreHubs
<1>2. ~stale
  BY <1>1 DEF SideOK, RevsAreHubs, Has
<1>3. hub' = hub
  <2>1. hub' = [hub EXCEPT !.rev = hub.rev]
    BY <1>1 DEF Hello
  <2>2. QED
    BY <2>1 DEF TypeOK, HubType
<1>4. sr'[s].held = (IF ~holds THEN NotHeld ELSE IF stale THEN 0 ELSE r.rev) /\ \A t \in Sides \ {s} : sr'[t] = sr[t]
  BY DEF Hello, TypeOK
<1>5. link' = [link EXCEPT ![s] = IF stale THEN "hello" ELSE "up"]
  BY DEF Hello
<1>6. ~stale => Adopt(s) /\ UNCHANGED call
  BY DEF Hello
<1> HIDE DEF stale
<1>7. rec' = rec
  <2>1. rec' = [rec EXCEPT ![s] = rec[s]]
    BY <1>1, <1>2, <1>6 DEF Adopt
  <2>2. QED
    BY <2>1 DEF TypeOK
<1>8. UNCHANGED <<copies, disk, report, task, made, over, crossed>> /\ link[s] = "down" /\ New(s).pc = "none"
  BY DEF Hello, ghosts, New
<1>9. QED
  BY <1>2, <1>3, <1>4, <1>5, <1>6, <1>7, <1>8

\* So a hello keeps the invariant: it has no change to make.
LEMMA OrderHello ==
    ASSUME TypeOK, InOrder, NEW s \in Sides, Hello(s)
    PROVE  InOrder'
<1>0. SideOK(s) /\ hub.rev \in Nat /\ rec[s].rev \in Nat
  BY Typed, TypeRec DEF InOrder
<1>1. /\ UNCHANGED <<hub, copies, call, disk, rec, report, task, made, over>>
      /\ link'[s] = "up" /\ link[s] = "down" /\ New(s).pc = "none"
      /\ sr'[s].held \in {rec[s].rev, NotHeld}
      /\ \A t \in Sides \ {s} : sr'[t] = sr[t] /\ link'[t] = link[t]
  BY HelloFields, SMTT(60) DEF TypeOK
<1>2. Others(s)
  BY <1>1 DEF Others, New
<1>3. \A x : Kept(x)' <=> Kept(x)
  BY <1>1 DEF Kept
<1>4. RevsAreHubs(s)' /\ ReportHolds(s)'
  <2>1. NotHeld <= hub.rev
    BY <1>0, SMTT(60) DEF NotHeld
  <2>2. sr'[s].held <= hub.rev
    BY <1>0, <1>1, <2>1 DEF SideOK, RevsAreHubs
  <2>3. QED
    BY <1>0, <1>1, <1>3, <2>2 DEF SideOK, RevsAreHubs, ReportHolds, New
<1>5. PlanKeepsLoser(s)' /\ KnownIsKept(s)' /\ OpReplacesKnown(s)' /\ CurrentIsHeld(s)'
  BY <1>0, <1>1, <1>3 DEF SideOK, PlanKeepsLoser, KnownIsKept, Current, OpReplacesKnown, CurrentIsHeld, New
<1>6. QED
  BY <1>1, <1>2, <1>4, <1>5, OneSide, PlansFrame DEF InOrder, SideOK, NothingDropped

\* A connection that ends: what of an op lands, lands over what the hub knows.
LEMMA CutSide ==
    ASSUME TypeOK, InOrder, NEW cut \in SUBSET Sides, NEW land, NEW kept, Cut(cut, land, kept), NEW s \in cut
    PROVE  /\ link'[s] = "down" /\ report'[s] = Idle /\ task'[s] = NoTask
           /\ (disk'[s] = disk[s] /\ rec'[s] = rec[s]) \/ Lands(s)
<1>1. link'[s] = "down" /\ report'[s] = Idle /\ task'[s] = NoTask
  BY DEF Cut
<1>2. CASE s \notin land
  BY <1>1, <1>2 DEF Cut
<1>3. CASE s \in land
  <2>1. task[s].pc = "write" /\ Still(s) /\ disk'[s] = task[s].val
    BY <1>3 DEF Cut
  <2>2. \/ rec'[s] = rec[s]
        \/ rec'[s] = [has |-> TRUE, rev |-> task[s].rev, val |-> task[s].val, sent |-> FALSE, epoch |-> rec[s].epoch]
    BY DEF Cut
  <2>3. SideOK(s)
    BY DEF InOrder
  <2>4. Lands(s)
    BY <2>1, <2>2, <2>3, SMTT(60) DEF Lands, Still, SideOK, OpReplacesKnown
  <2>5. QED
    BY <1>1, <2>4
<1>4. QED
  BY <1>2, <1>3

\* A spoke that loses its connection drops nothing.
LEMMA OrderDrop ==
    ASSUME TypeOK, InOrder, NEW s \in Sides, Drop(s)
    PROVE  InOrder'
<1>1. PICK land, kept \in SUBSET {s} : Cut({s}, land, kept)
  BY DEF Drop
<1>2. UNCHANGED <<hub, copies, call, made, over>>
  BY DEF Drop
<1>3. sr'[s].held \in {0, sr[s].held} /\ \A t \in Sides \ {s} : sr'[t] = sr[t]
  BY SMTT(60) DEF Drop, TypeOK
<1>4. \A t \in Sides \ {s} : /\ link'[t] = link[t] /\ report'[t] = report[t] /\ task'[t] = task[t]
                             /\ disk'[t] = disk[t] /\ rec'[t] = rec[t]
  BY <1>1 DEF Cut
<1>5. sr'[s].held <= hub.rev
  BY <1>3, Typed, SMTT(60) DEF InOrder, SideOK, RevsAreHubs
<1>6. SideOK(s)' /\ (disk'[s] = disk[s] \/ Kept(disk[s]))
  <2>1. /\ link'[s] = "down" /\ report'[s] = Idle /\ task'[s] = NoTask
        /\ (disk'[s] = disk[s] /\ rec'[s] = rec[s]) \/ Lands(s)
    BY <1>1, CutSide
  <2>2. task'[s].pc = "none" /\ task'[s].rev = 0 /\ New(s)' = New(s)
    BY <1>2, <2>1, SMTT(60) DEF NoTask, New
  <2>3. QED
    BY <1>2, <1>5, <2>1, <2>2, OpSide
<1>7. Others(s)
  BY <1>2, <1>3, <1>4 DEF Others, New
<1>8. NothingDropped'
  BY <1>2, <1>4, <1>6, ReplacesKept DEF InOrder
<1>9. QED
  BY <1>2, <1>6, <1>7, <1>8, OneSide, PlansFrame

\* A daemon that stops cuts every connection, and its hub keeps the entry.
LEMMA OrderRestart ==
    ASSUME TypeOK, InOrder, Restart
    PROVE  InOrder'
<1>1. PICK land, kept \in SUBSET Sides : Cut(Sides, land, kept)
  BY DEF Restart, Stop
<1>2. UNCHANGED <<hub, copies, made, over>> /\ \A c \in Calls : call'[c] = NoCall
  BY DEF Restart, Stop
<1>3. \A s \in Sides : sr'[s].held <= hub.rev /\ New(s)' = NoCall
  <2>1. hub.rev \in Nat /\ \A s \in Sides : <<s, "new">> \in Calls
    BY Typed
  <2>2. \A s \in Sides : sr'[s].held = NotHeld
    BY DEF Restart, Stop
  <2>3. ASSUME NEW s \in Sides PROVE New(s)' = NoCall
    BY <1>2, <2>1 DEF New
  <2>4. NotHeld <= hub.rev
    BY <2>1, SMTT(60) DEF NotHeld
  <2>5. QED
    BY <2>2, <2>3, <2>4
<1>4. ASSUME NEW s \in Sides PROVE SideOK(s)' /\ (disk'[s] = disk[s] \/ Kept(disk[s]))
  <2>1. /\ link'[s] = "down" /\ report'[s] = Idle /\ task'[s] = NoTask
        /\ (disk'[s] = disk[s] /\ rec'[s] = rec[s]) \/ Lands(s)
    BY <1>1, CutSide
  <2>2. task'[s].pc = "none" /\ task'[s].rev = 0
    BY <2>1, SMTT(60) DEF NoTask
  <2>3. QED
    BY <1>2, <1>3, <2>1, <2>2, OpSide
<1>5. NothingDropped'
  BY <1>2, <1>4, ReplacesKept DEF InOrder
<1>6. \A c \in Calls : PlanIsCurrent(c)'
  BY <1>2, Typed, NoCallIsCurrent DEF InOrder
<1>7. EntryIsLast'
  BY <1>2 DEF InOrder, EntryIsLast
<1>8. QED
  BY <1>4, <1>5, <1>6, <1>7 DEF InOrder

\* A report that outlives its connection is no longer the side's.
LEMMA OrderOutlive ==
    ASSUME TypeOK, InOrder, NEW s \in Sides, Outlive(s)
    PROVE  InOrder'
<1>0. SideOK(s) /\ link[s] = "down" /\ <<s, "new">> \in Calls /\ <<s, "old">> \in Calls
  BY Typed DEF InOrder, Outlive
<1>1. UNCHANGED <<hub, copies, sr, link, disk, rec, report, task, made, over>>
  BY DEF Outlive, sideVars, ghosts
<1>2. call'[<<s, "old">>] = call[<<s, "new">>] /\ New(s)' = NoCall
  BY <1>0 DEF Outlive, TypeOK, New
<1>3. \A c \in Calls \ {<<s, "new">>, <<s, "old">>} : call'[c] = call[c]
  BY DEF Outlive, TypeOK
<1>4. \A c \in Calls : PlanIsCurrent(c)'
  <2>1. ASSUME NEW c \in Calls \ {<<s, "new">>, <<s, "old">>} PROVE PlanIsCurrent(c)'
    BY <1>1, <1>3 DEF InOrder, PlanIsCurrent
  <2>2. PlanIsCurrent(<<s, "old">>)'
    BY <1>0, <1>1, <1>2 DEF InOrder, PlanIsCurrent
  <2>3. PlanIsCurrent(<<s, "new">>)'
    BY <1>1, <1>2, Typed, SMTT(60) DEF InOrder, EntryIsLast, PlanIsCurrent, NoCall, NoEntry, New
  <2>4. QED
    BY <2>1, <2>2, <2>3
<1>5. \A t \in Sides \ {s} : New(t)' = New(t)
  BY <1>3, Typed DEF New
<1>6. Others(s)
  BY <1>1, <1>5 DEF Others
<1>7. \A x : Kept(x)' <=> Kept(x)
  BY <1>1 DEF Kept
<1>8. SideOK(s)'
  <2>1. RevsAreHubs(s)'
    BY <1>0, <1>1 DEF SideOK, RevsAreHubs
  <2>2. KnownIsKept(s)'
    BY <1>0, <1>1, <1>7 DEF SideOK, KnownIsKept, Current
  <2>3. OpReplacesKnown(s)' /\ CurrentIsHeld(s)'
    BY <1>0, <1>1, <1>7 DEF SideOK, OpReplacesKnown, CurrentIsHeld
  <2>4. ReportHolds(s)'
    BY <1>0, <1>1, <1>2, <1>7, NoCallIsIdle DEF SideOK, ReportHolds
  <2>5. PlanKeepsLoser(s)'
    BY <1>2, NoCallIsIdle DEF PlanKeepsLoser
  <2>6. QED
    BY <2>1, <2>2, <2>3, <2>4, <2>5 DEF SideOK
<1>9. QED
  BY <1>1, <1>4, <1>6, <1>8, OneSide DEF InOrder, NothingDropped

\* A delete that is forgotten was no one's content.
LEMMA OrderForget ==
    ASSUME TypeOK, TypeOK', InOrder, Forget
    PROVE  InOrder'
<1>0. hub.rev \in Nat /\ hub.cur.rev \in Nat /\ EntryIsLast /\ hub.cur.rev > 0 /\ hub.cur.val = Gone
  BY Typed, TypeEntry DEF InOrder, Forget, Has
<1>1. /\ hub'.cur = NoEntry /\ hub'.cur.rev = 0 /\ hub'.rev = hub.rev /\ hub'.epoch = hub.epoch /\ hub'.forgot = hub.cur.rev
  BY DEF Forget, TypeOK, HubType, NoEntry
<1>2. UNCHANGED <<copies, call, sr, link, disk, rec, report, task, made, over>>
  BY DEF Forget, sideVars, ghosts
<1>3. EntryIsLast'
  BY <1>0, <1>1, SMTT(60) DEF EntryIsLast, NoEntry
<1>4. \A c \in Calls : PlanIsCurrent(c)'
  BY <1>1, <1>2 DEF InOrder, PlanIsCurrent
<1>5. ASSUME NEW s \in Sides PROVE SideOK(s)'
  <2>1. SideOK(s) /\ Kept(Gone)'
    BY DEF InOrder, Kept
  <2>2. QED
    BY <1>0, <1>1, <1>2, <2>1, EntryFrame, SMTT(60) DEF New
<1>6. QED
  BY <1>2, <1>3, <1>4, <1>5 DEF InOrder, NothingDropped

\* Every step keeps the invariant.
LEMMA KeptNext == ASSUME KeptInv, [Next]_vars PROVE KeptInv'
<1>1. TypeOK /\ TypeOK'
  BY TypeNext DEF KeptInv
<1>2. crossed \subseteq crossed'
  BY DEF Next, vars, hubVars, sideVars, ghosts, Edit, Delete, Replace, Scan, Acked, Handle, Plan, Decide, Commit, Crosses,
         Dispatch, Apply, Look, Fetch, Write, Finish, Hello, Drop, Outlive, Forget, Restart, Stop
<1>3. SUFFICES ASSUME "report" \notin crossed' PROVE InOrder'
  BY <1>1 DEF KeptInv
<1>4. InOrder
  BY <1>2, <1>3 DEF KeptInv
<1>5. CASE UNCHANGED vars
  <2>1. UNCHANGED <<hub, copies, call, sr, link, disk, rec, report, task, made, over>>
    BY <1>5 DEF vars, hubVars, sideVars, ghosts
  <2>2. ASSUME NEW s \in Sides PROVE SideOK(s)'
    BY <1>4, <2>1, SideFrame DEF InOrder, SideOK, RevsAreHubs, New
  <2>3. QED
    BY <1>4, <2>1, <2>2, PlansFrame DEF InOrder, EntryIsLast, NothingDropped
<1>6. ASSUME NEW c \in Calls, Handle(c) PROVE InOrder'
  <2>1. PICK s \in Sides : c = <<s, "new">> \/ c = <<s, "old">>
    BY SMTT(60) DEF Calls
  <2>2. QED
    BY <1>1, <1>3, <1>4, <1>6, <2>1, OrderPlan, OrderDecide, OrderCommit, OrderOld DEF Handle
<1>7. QED
  BY <1>1, <1>4, <1>5, <1>6, OrderUser, OrderScan, OrderAcked, OrderDispatch, OrderApply, OrderFinish,
     OrderHello, OrderDrop, OrderOutlive, OrderForget, OrderRestart DEF Next

\* The first state satisfies it: nothing is written, and no one knows anything.
LEMMA KeptInit == ASSUME Init PROVE KeptInv
<1>1. TypeOK
  BY TypeInit
<1>2. EntryIsLast /\ NothingDropped /\ \A c \in Calls : PlanIsCurrent(c)
  BY SMTT(60) DEF Init, EntryIsLast, NothingDropped, PlanIsCurrent, NoEntry, NoCall
<1>3. ASSUME NEW s \in Sides PROVE SideOK(s)
  <2>1. <<s, "new">> \in Calls
    BY DEF Calls
  <2>2. /\ New(s) = NoCall /\ rec[s] = NoRec(0) /\ report[s] = Idle /\ task[s] = NoTask /\ disk[s] = Gone
        /\ link[s] = "down" /\ sr[s].held = NotHeld /\ hub.rev = 0 /\ hub.cur = NoEntry /\ hub.epoch = 0
    BY <2>1 DEF Init, New
  <2>3. /\ NoCall.pc = "none" /\ ~NoRec(0).has /\ NoRec(0).rev = 0 /\ NoRec(0).epoch = 0 /\ Idle.pc = "idle"
        /\ Idle.rev = 0 /\ NoTask.pc = "none" /\ NoTask.rev = 0 /\ NoEntry.rev = 0 /\ NotHeld <= 0
    BY SMTT(60) DEF NoCall, NoRec, Idle, NoTask, NoEntry, NotHeld
  <2>4. RevsAreHubs(s) /\ ReportHolds(s)
    BY <2>2, <2>3, SMTT(60) DEF RevsAreHubs, ReportHolds
  <2>5. PlanKeepsLoser(s) /\ KnownIsKept(s)
    BY <2>2, <2>3 DEF PlanKeepsLoser, KnownIsKept
  <2>6. OpReplacesKnown(s) /\ CurrentIsHeld(s)
    BY <2>2, <2>3, SMTT(60) DEF OpReplacesKnown, CurrentIsHeld
  <2>7. QED
    BY <2>4, <2>5, <2>6 DEF SideOK
<1>4. QED
  BY <1>1, <1>2, <1>3 DEF KeptInv, InOrder

\* KeptInv is an invariant.
LEMMA KeptAlways == Spec => []KeptInv
<1>1. Init => KeptInv
  BY KeptInit
<1>2. KeptInv /\ [Next]_vars => KeptInv'
  BY KeptNext
<1>3. QED
  BY <1>1, <1>2, PTL DEF Spec

\* No change is dropped while every report is handled on the connection it was made on: what a
\* user wrote is on some side or kept as a conflict copy until a user who had it replaced or
\* deleted it, with any number of sides, edits, lost connections and restarts (Hub.process,
\* Tree.apply).
THEOREM NoChangeIsDropped == Spec => []NothingDroppedInOrder
<1>1. KeptInv => NothingDroppedInOrder
  BY DEF KeptInv, InOrder, NothingDroppedInOrder
<1>2. QED
  BY <1>1, KeptAlways, PTL

-----------------------------------------------------------------------------
(* What the hub takes a side to hold. *)

\* A step that leaves a side, its report, its op and what the hub takes it to hold alone.
LEMMA SeesFrame ==
    ASSUME NEW s \in Sides, HubSees(s), rec'[s] = rec[s], report'[s] = report[s], task'[s] = task[s],
           New(s)' = New(s), sr'[s].held = sr[s].held, Behind(s) => Behind(s)'
    PROVE  HubSees(s)'
  BY DEF HubSees, OpIsNews

\* A side stays behind, or not, while neither the entry nor what the hub takes it to hold changes.
LEMMA BehindFrame ==
    ASSUME NEW s \in Sides, UNCHANGED hub, sr'[s].held = sr[s].held
    PROVE  Behind(s)' <=> Behind(s)
  BY DEF Behind

\* The hub sees a scan's change coming.
LEMMA SeesScan ==
    ASSUME TypeOK, InOrder, NEW s \in Sides, HubSees(s), Scan(s)
    PROVE  HubSees(s)'
<1>1. rec'[s].has /\ rec'[s].sent /\ report'[s].pc = "wait" /\ New(s)'.pc = "plan"
  <2>1. rec'[s].has /\ rec'[s].sent
    BY Typed, SMTT(60) DEF Scan, TypeOK, RecType
  <2>2. report'[s].pc = "wait"
    BY DEF Scan, TypeOK, Idle
  <2>3. New(s)'.pc = "plan"
    BY Typed DEF Scan, TypeOK, New, NoCall
  <2>4. QED
    BY <2>1, <2>2, <2>3
<1>2. task' = task /\ sr' = sr /\ hub' = hub
  BY DEF Scan
<1>3. QED
  BY <1>1, <1>2 DEF HubSees, OpIsNews

\* An answer makes the record what the hub took the side to hold when it gave it.
LEMMA SeesAcked ==
    ASSUME TypeOK, InOrder, NEW s \in Sides, HubSees(s), Acked(s)
    PROVE  HubSees(s)'
<1> DEFINE ack == report[s]
<1>0. /\ SideOK(s) /\ rec[s] \in RecType /\ ack \in ReportType /\ rec[s].rev \in Nat /\ ack.rev \in Nat
      /\ task[s].rev \in Nat /\ sr[s].held \in Nat \cup {NotHeld} /\ task[s].reported \in BOOLEAN
  BY Typed, TypeRec, TypeReport, TypeTask DEF InOrder
<1>1. ack.pc = "acked" /\ rec[s].has /\ rec[s].sent /\ rec[s].val = ack.val /\ New(s).pc = "none"
  BY <1>0 DEF Acked, SideOK, ReportHolds
<1>2. ack.status = "superseded" => ack.rev # 0
  BY <1>0, <1>1 DEF SideOK, KnownIsKept
<1>3. rec'[s] = AfterAck(rec[s], ack)
  BY DEF Acked, TypeOK
<1>4. /\ ack.status = "accepted" /\ ack.val = Gone => ~rec'[s].has /\ rec'[s].rev = 0
      /\ ack.status = "accepted" /\ ack.val # Gone =>
           rec'[s].has /\ ~rec'[s].sent /\ rec'[s].rev = ack.rev /\ rec'[s].val = ack.val
      /\ ack.status = "superseded" =>
           rec'[s].has /\ ~rec'[s].sent /\ rec'[s].rev = rec[s].rev /\ rec'[s].val = ack.val
      /\ ack.status \notin {"accepted", "superseded"} => rec'[s] = rec[s]
  BY <1>0, <1>1, <1>2, <1>3, AfterAckFields, SMTT(60)
<1>5. report'[s].pc = "idle"
  BY DEF Acked, TypeOK, Idle
<1>6. UNCHANGED <<hub, call, sr, task>> /\ (Behind(s)' <=> Behind(s)) /\ (OpIsNews(s)' <=> OpIsNews(s))
  BY DEF Acked, hubVars, Behind, OpIsNews
<1>7. ~(task[s].pc = "done" /\ task[s].status = "applied" /\ ~task[s].reported)
  BY <1>1 DEF HubSees
<1>8. task[s].pc # "none" /\ ~task[s].reported => OpIsNews(s)' \/ (rec'[s].has /\ (rec'[s].sent \/ rec'[s].rev > task[s].rev))
  BY <1>0, <1>1, <1>4, <1>6 DEF HubSees
<1>9. ~(task[s].pc = "done" /\ task[s].status = "applied") /\ ~Behind(s) =>
        (rec'[s].has /\ rec'[s].sent) \/ sr[s].held = IF rec'[s].has /\ rec'[s].val # Gone THEN rec'[s].rev ELSE NotHeld
  BY <1>0, <1>1, <1>4 DEF HubSees
<1>10. QED
  BY <1>5, <1>6, <1>7, <1>8, <1>9 DEF HubSees

\* A report planned marks the side's op as crossed by it, and one accepted is held.
LEMMA SeesPlan ==
    ASSUME TypeOK, InOrder, NEW s \in Sides, HubSees(s), Plan(<<s, "new">>), link[s] = "up"
    PROVE  HubSees(s)'
<1> DEFINE n == New(s)
           cur == hub.cur
<1>0. SideOK(s) /\ EntryIsLast /\ cur.rev \in Nat /\ sr[s].held \in Nat \cup {NotHeld}
  BY Typed, TypeEntry DEF InOrder
<1>1. rec[s].has /\ rec[s].sent /\ report[s].pc = "wait" /\ UNCHANGED <<hub, rec>>
  BY <1>0 DEF Plan, New, SideOK, ReportHolds
<1>2. /\ task'[s].pc = task[s].pc /\ task'[s].status = task[s].status
      /\ task'[s].reported = (task[s].pc # "none")
  <2> DEFINE b == task[s].pc # "none"
  <2>1. task'[s] = [task[s] EXCEPT !.reported = b]
    BY DEF Plan, TypeOK
  <2> HIDE DEF b
  <2>2. task'[s].pc = task[s].pc /\ task'[s].status = task[s].status /\ task'[s].reported = b
    BY <2>1, Typed DEF TaskType
  <2>3. QED
    BY <2>2 DEF b
<1>3. ASSUME NEW r, Answer(<<s, "new">>, "accepted", r),
             ~Behind(s)' => sr'[s].held = IF n.val = Gone THEN NotHeld ELSE r
      PROVE  HubSees(s)'
  <2>1. report'[s].pc = "acked" /\ report'[s].val = n.val /\ report'[s].status = "accepted" /\ report'[s].rev = r
    BY <1>3, AnswerFields, SMTT(60)
  <2>2. QED
    BY <1>1, <1>2, <1>3, <2>1 DEF HubSees
<1>4. ASSUME Answer(<<s, "new">>, "accepted", cur.rev), sr' = HeldAs(s, n.val, cur.rev) PROVE HubSees(s)'
  <2>1. sr'[s].held = IF n.val = Gone THEN NotHeld ELSE cur.rev
    BY <1>4 DEF HeldAs, TypeOK
  <2>2. QED
    BY <1>3, <1>4, <2>1
<1>5. ASSUME Answer(<<s, "new">>, "accepted", 0), ~Has(cur), n.val = Gone, UNCHANGED sr PROVE HubSees(s)'
  <2>1. cur.val = Gone
    BY <1>0, <1>5, SMTT(60) DEF Has, EntryIsLast, NoEntry
  <2>2. ~Behind(s)' => sr'[s].held = NotHeld
    BY <1>1, <1>5, <2>1 DEF Behind
  <2>3. QED
    BY <1>3, <1>5, <2>2
<1>6. ASSUME UNCHANGED report PROVE HubSees(s)'
  BY <1>1, <1>2, <1>6 DEF HubSees
<1>7. QED
  BY <1>4, <1>5, <1>6 DEF Plan, New

\* So the hub knows, when it decides and commits, that no op of the side's is about to land.
LEMMA SeesDecide ==
    ASSUME TypeOK, InOrder, NEW s \in Sides, HubSees(s), Decide(<<s, "new">>), link[s] = "up"
    PROVE  HubSees(s)'
<1>0. SideOK(s)
  BY DEF InOrder
<1>1. rec[s].has /\ rec[s].sent /\ report[s].pc = "wait" /\ New(s).pc = "decide" /\ UNCHANGED <<hub, rec, sr, task>>
  BY <1>0 DEF Decide, New, SideOK, ReportHolds
<1>2. UNCHANGED report \/ (report'[s].pc = "acked" /\ report'[s].status = "deferred")
  BY AnswerFields DEF Decide
<1>3. QED
  BY <1>1, <1>2 DEF HubSees, OpIsNews

\* A commit sets what the side holds to what it answers, or leaves it behind the entry it kept.
LEMMA SeesCommit ==
    ASSUME TypeOK, InOrder, NEW s \in Sides, HubSees(s), Commit(<<s, "new">>), link[s] = "up"
    PROVE  HubSees(s)'
<1> DEFINE n == New(s)
<1>0. SideOK(s) /\ EntryIsLast /\ hub.rev \in Nat /\ hub.cur.rev \in Nat /\ task[s].rev \in Nat
  BY Typed, TypeEntry, TypeTask DEF InOrder
<1>1. rec[s].has /\ rec[s].sent /\ report[s].pc = "wait" /\ n.pc = "commit" /\ UNCHANGED <<rec, task>>
  BY <1>0 DEF Commit, New, SideOK, ReportHolds
<1>2. ~(task[s].pc = "done" /\ task[s].status = "applied" /\ ~task[s].reported)
  BY <1>1 DEF HubSees
<1>3. ASSUME UNCHANGED <<hub, sr, report>> PROVE HubSees(s)'
  BY <1>1, <1>2, <1>3 DEF HubSees, OpIsNews, Behind
<1>4. ASSUME Answer(<<s, "new">>, "deferred", 0), UNCHANGED <<hub, sr>> PROVE HubSees(s)'
  <2>1. report'[s].pc = "acked" /\ report'[s].status = "deferred"
    BY <1>4, AnswerFields
  <2>2. QED
    BY <1>1, <1>2, <1>4, <2>1 DEF HubSees, OpIsNews, Behind
<1>5. ASSUME NEW r, Answer(<<s, "new">>, "superseded", r), UNCHANGED hub,
             sr' = [sr EXCEPT ![s] = [held |-> IF n.val = Gone THEN NotHeld ELSE 0, dirty |-> TRUE]]
      PROVE  HubSees(s)'
  <2>1. report'[s].pc = "acked" /\ report'[s].status = "superseded" /\ report'[s].val = n.val
    BY <1>5, AnswerFields
  <2>2. sr'[s].held = IF n.val = Gone THEN NotHeld ELSE 0
    BY <1>5 DEF TypeOK
  <2>3. OpIsNews(s)'
    BY <1>0, <1>1, <2>2, SMTT(60) DEF OpIsNews
  <2>4. ~Behind(s)' => n.val = Gone
    BY <1>0, <1>5, <2>2, SMTT(60) DEF Behind, EntryIsLast, NoEntry, NotHeld
  <2>5. QED
    BY <1>1, <1>2, <2>1, <2>2, <2>3, <2>4 DEF HubSees
<1>6. ASSUME SetEntry(s, n.val, n.base), Answer(<<s, "new">>, "accepted", hub.rev + 1) PROVE HubSees(s)'
  <2>1. report'[s].pc = "acked" /\ report'[s].status = "accepted" /\ report'[s].val = n.val /\ report'[s].rev = hub.rev + 1
    BY <1>6, AnswerFields, SMTT(60)
  <2>2. sr'[s].held = IF n.val = Gone THEN NotHeld ELSE hub.rev + 1
    BY <1>6 DEF SetEntry, TypeOK
  <2>3. task[s].rev < hub.rev + 1
    BY <1>0, SMTT(60) DEF SideOK, RevsAreHubs
  <2>4. n.val = Gone => OpIsNews(s)'
    BY <2>2 DEF OpIsNews
  <2>5. QED
    BY <1>0, <1>1, <1>2, <2>1, <2>2, <2>3, <2>4 DEF HubSees
<1>7. QED
  BY <1>3, <1>4, <1>5, <1>6 DEF Commit, New

\* An op dispatched is no older than what the hub takes the side to hold.
LEMMA SeesDispatch ==
    ASSUME TypeOK, InOrder, NEW s \in Sides, HubSees(s), Dispatch(s)
    PROVE  HubSees(s)'
<1>0. SideOK(s) /\ EntryIsLast /\ hub.rev \in Nat /\ hub.cur.rev \in Nat /\ hub.forgot \in Nat
  BY Typed, TypeEntry DEF InOrder
<1>1. UNCHANGED <<hub, rec, report, call>> /\ task[s].pc = "none" /\ sr'[s].held = sr[s].held
  BY DEF Dispatch, TypeOK
<1>2. (Behind(s)' <=> Behind(s)) /\ New(s)' = New(s)
  BY <1>1, BehindFrame DEF New
<1>3. CASE task' = task
  BY <1>1, <1>2, <1>3, SeesFrame
<1>4. CASE task' # task
  <2> DEFINE r == IF Has(hub.cur) THEN hub.cur.rev ELSE hub.forgot
  <2>1. task'[s] = [NoTask EXCEPT !.pc = "look", !.val = hub.cur.val, !.rev = r]
    BY <1>4 DEF Dispatch, TypeOK
  <2>2. r = hub.rev
    BY <1>0, SMTT(60) DEF Has, EntryIsLast, NoEntry
  <2> HIDE DEF r
  <2>3. task'[s].pc = "look" /\ task'[s].rev = hub.rev
    BY <2>1, <2>2 DEF NoTask
  <2>4. OpIsNews(s)'
    BY <1>0, <1>1, <2>3 DEF OpIsNews, SideOK, RevsAreHubs
  <2>5. QED
    BY <1>1, <1>2, <2>3, <2>4 DEF HubSees
<1>5. QED
  BY <1>3, <1>4

\* An op that lands lands over a record the hub's view agrees with, or is behind of.
LEMMA SeesApply ==
    ASSUME TypeOK, InOrder, NEW s \in Sides, HubSees(s), Apply(s)
    PROVE  HubSees(s)'
<1> DEFINE t == task[s]
<1>0. SideOK(s) /\ t.rev \in Nat /\ rec[s].rev \in Nat /\ t.pc \in {"look", "fetch", "write"}
  BY Typed, TypeTask, TypeRec DEF InOrder, Apply, Look, Fetch, Write
<1>1. UNCHANGED <<hub, call, sr, report>> /\ (Behind(s)' <=> Behind(s)) /\ New(s)' = New(s)
  BY DEF Apply, Look, Fetch, Write, hubVars, Behind, New
<1>2. ASSUME task'[s].rev = t.rev, task'[s].reported = t.reported, rec' = rec,
             task'[s].pc \in {"fetch", "write"} \/ (task'[s].pc = "done" /\ task'[s].status = "again")
      PROVE  HubSees(s)'
  BY <1>0, <1>1, <1>2 DEF HubSees, OpIsNews
<1>3. ASSUME Result(s, "again"), rec' = rec PROVE HubSees(s)'
  BY <1>2, <1>3, ResultFields
<1>4. ASSUME Result(s, "applied"), Applied(s, t.val, t.rev),
             IF rec[s].has THEN ~rec[s].sent /\ rec[s].val = disk[s] /\ rec[s].rev <= t.rev ELSE disk[s] = Gone
      PROVE  HubSees(s)'
  <2>1. report[s].pc = "idle"
    BY <1>0, <1>4 DEF SideOK, ReportHolds
  <2>2. /\ task'[s].pc = "done" /\ task'[s].val = t.val /\ task'[s].rev = t.rev
        /\ task'[s].status = "applied" /\ task'[s].reported = t.reported
    BY <1>4, ResultFields
  <2>3. /\ t.val = Gone => ~rec'[s].has
        /\ t.val # Gone => rec'[s].has /\ rec'[s].rev = t.rev /\ rec'[s].val = t.val
    BY <1>4, AppliedFields
  <2>4. ~t.reported => OpIsNews(s)'
    BY <1>0, <1>1, <1>4, <2>2, SMTT(60) DEF HubSees, OpIsNews
  <2>5. QED
    BY <1>1, <2>1, <2>2, <2>3, <2>4 DEF HubSees
<1>5. CASE Look(s)
  <2>1. ~(rec[s].has /\ rec[s].rev > t.rev) /\ Unchanged(s) =>
          IF rec[s].has THEN ~rec[s].sent /\ rec[s].val = disk[s] /\ rec[s].rev <= t.rev ELSE disk[s] = Gone
    BY <1>0, SMTT(60) DEF Unchanged
  <2>2. ASSUME task' = [task EXCEPT ![s] = [@ EXCEPT !.pc = "fetch", !.at = rec[s], !.found = disk[s]]], rec' = rec
        PROVE  HubSees(s)'
    <3>1. task'[s].pc = "fetch" /\ task'[s].rev = t.rev /\ task'[s].reported = t.reported
      BY <2>2, Typed, SMTT(60) DEF TypeOK, TaskType
    <3>2. QED
      BY <1>2, <2>2, <3>1
  <2>3. QED
    BY <1>3, <1>4, <1>5, <2>1, <2>2 DEF Look
<1>6. CASE Fetch(s)
  <2>1. ASSUME task' = [task EXCEPT ![s].pc = "write"], rec' = rec PROVE HubSees(s)'
    <3>1. task'[s].pc = "write" /\ task'[s].rev = t.rev /\ task'[s].reported = t.reported
      BY <2>1, Typed, SMTT(60) DEF TypeOK, TaskType
    <3>2. QED
      BY <1>2, <2>1, <3>1
  <2>2. QED
    BY <1>3, <1>6, <2>1 DEF Fetch
<1>7. CASE Write(s)
  <2>1. Still(s) => IF rec[s].has THEN ~rec[s].sent /\ rec[s].val = disk[s] /\ rec[s].rev <= t.rev ELSE disk[s] = Gone
    BY <1>0, <1>7 DEF Write, Still, SideOK, OpReplacesKnown
  <2>2. QED
    BY <1>3, <1>4, <1>7, <2>1 DEF Write
<1>8. QED
  BY <1>5, <1>6, <1>7 DEF Apply

\* What the side applied it holds, unless a report of its crossed the op.
LEMMA SeesFinish ==
    ASSUME TypeOK, InOrder, NEW s \in Sides, HubSees(s), Finish(s), crossed' = {}
    PROVE  HubSees(s)'
<1> DEFINE t == task[s]
<1>0. /\ SideOK(s) /\ t.rev \in Nat /\ sr[s].held \in Nat \cup {NotHeld} /\ t.reported \in BOOLEAN
      /\ t.status \in {"none", "applied", "again"}
  BY Typed, TypeTask DEF InOrder, TaskType
<1>1. UNCHANGED <<hub, rec, report, call>> /\ t.pc = "done" /\ link[s] = "up"
  BY DEF Finish
<1>2. task'[s].pc = "none" /\ (t.status = "applied" => ~t.reported)
  BY DEF Finish, TypeOK, NoTask
<1>3. /\ t.status = "again" => sr'[s].held = sr[s].held
      /\ t.status # "again" /\ t.val = Gone => sr'[s].held = NotHeld
      /\ t.status # "again" /\ t.val # Gone =>
           sr'[s].held = IF sr[s].held = NotHeld \/ sr[s].held <= t.rev THEN t.rev ELSE sr[s].held
  BY DEF Finish, TypeOK
<1>4. CASE t.status = "again"
  BY <1>1, <1>2, <1>3, <1>4 DEF HubSees, Behind
<1>5. CASE t.status = "applied"
  <2>1. report[s].pc # "acked"
    BY <1>0, <1>1, <1>2, <1>5 DEF HubSees, SideOK, ReportHolds
  <2>2. (rec[s].has /\ rec[s].sent) \/ IF t.val = Gone THEN ~rec[s].has ELSE rec[s].has /\ rec[s].rev = t.rev /\ rec[s].val = t.val
    BY <1>1, <1>2, <1>5 DEF HubSees
  <2>3. sr'[s].held = IF t.val = Gone THEN NotHeld ELSE t.rev
    BY <1>0, <1>1, <1>2, <1>3, <1>5 DEF HubSees, OpIsNews
  <2>4. QED
    BY <1>1, <1>2, <2>1, <2>2, <2>3 DEF HubSees
<1>6. QED
  BY <1>0, <1>1, <1>4, <1>5 DEF HubSees

\* The hub sees every connected side.
Seen == \A s \in Sides : link[s] = "up" => HubSees(s)

\* A step of one side leaves what the hub sees of the others.
LEMMA SeesOneSide ==
    ASSUME Seen, NEW s \in Sides, Others(s), link'[s] = "up" => HubSees(s)'
    PROVE  Seen'
<1>1. ASSUME NEW t \in Sides \ {s}, link'[t] = "up" PROVE HubSees(t)'
  <2>1. HubSees(t) /\ (Behind(t) => Behind(t)')
    BY <1>1, BehindFrame DEF Seen, Others
  <2>2. QED
    BY <2>1, SeesFrame DEF Others
<1>2. QED
  BY <1>1 DEF Seen

\* A side that is behind the path's entry is behind the next, and behind its forgotten delete.
LEMMA BehindStays ==
    ASSUME TypeOK, InOrder, NEW t \in Sides, sr'[t].held = sr[t].held, Behind(t),
           hub'.cur.val = Gone \/ hub'.cur.rev > hub.rev
    PROVE  Behind(t)'
<1>1. sr[t].held <= hub.rev /\ hub.rev \in Nat /\ sr[t].held \in Nat \cup {NotHeld}
  BY Typed DEF InOrder, SideOK, RevsAreHubs
<1>2. QED
  BY <1>1, SMTT(60) DEF Behind, NotHeld

\* An edit or a delete is not the hub's to see.
LEMMA SeenUser ==
    ASSUME Seen, NEW s \in Sides, Edit(s) \/ Delete(s)
    PROVE  Seen'
<1>1. UNCHANGED <<hub, call, sr, link, rec, report, task>>
  BY DEF Edit, Delete, Replace, hubVars
<1>2. ASSUME NEW t \in Sides, link'[t] = "up" PROVE HubSees(t)'
  BY <1>1, <1>2, SeesFrame, BehindFrame DEF Seen, New
<1>3. QED
  BY <1>2 DEF Seen

\* Handling a report leaves what the hub sees of its side as it finds it, or makes it so.
LEMMA SeenHandle ==
    ASSUME TypeOK, TypeOK', InOrder, Seen, NEW s \in Sides, Handle(<<s, "new">>)
    PROVE  Seen'
<1> DEFINE c == <<s, "new">>
<1>0. link' = link /\ c \in Calls
  BY Typed DEF Handle, Plan, Decide, Commit
<1>1. ASSUME link[s] = "up" PROVE HubSees(s)'
  BY <1>1, SeesPlan, SeesDecide, SeesCommit DEF Seen, Handle
<1>2. ASSUME NEW t \in Sides \ {s}
      PROVE  rec'[t] = rec[t] /\ report'[t] = report[t] /\ task'[t] = task[t] /\ New(t)' = New(t)
  <2>1. rec'[t] = rec[t] /\ task'[t] = task[t]
    BY DEF Handle, Plan, Decide, Commit, TypeOK
  <2>2. report'[t] = report[t]
    BY AnswerFields DEF Handle, Plan, Decide, Commit
  <2>3. <<t, "new">> \in Calls /\ <<t, "new">> # c
    BY Typed
  <2>4. \A d \in Calls \ {c} : call'[d] = call[d]
    <3>1. CASE Plan(c)
      BY <1>0, <3>1 DEF Plan, Answer, TypeOK
    <3>2. CASE Decide(c)
      BY <1>0, <3>2 DEF Decide, Answer, TypeOK
    <3>3. CASE Commit(c)
      BY <1>0, <3>3 DEF Commit, Answer, TypeOK
    <3>4. QED
      BY <3>1, <3>2, <3>3 DEF Handle
  <2>5. QED
    BY <2>1, <2>2, <2>3, <2>4 DEF New
<1>3. ASSUME NEW t \in Sides \ {s} PROVE sr'[t].held = sr[t].held
  BY SMTT(60) DEF Handle, Plan, Decide, Commit, SetEntry, HeldAs, TypeOK
<1>4. UNCHANGED hub \/ hub'.cur.rev > hub.rev
  <2>1. hub' = [hub EXCEPT !.rev = @ + 1, !.cur = [val |-> call[c].val, rev |-> hub.rev + 1, origin |-> s, base |-> call[c].base]]
          => hub'.cur.rev = hub.rev + 1
    BY SMTT(60) DEF TypeOK, HubType
  <2>2. QED
    BY <2>1, Typed, SMTT(60) DEF Handle, Plan, Decide, Commit, SetEntry
<1>5. ASSUME NEW t \in Sides \ {s}, link[t] = "up" PROVE HubSees(t)'
  <2>1. Behind(t) => Behind(t)'
    BY <1>3, <1>4, BehindFrame, BehindStays
  <2>2. QED
    BY <1>2, <1>3, <1>5, <2>1, SeesFrame DEF Seen
<1>6. QED
  BY <1>0, <1>1, <1>5 DEF Seen

\* An earlier connection's report, while it is not taken, changes nothing the hub sees.
LEMMA SeenOld ==
    ASSUME TypeOK, Seen, NEW s \in Sides, Handle(<<s, "old">>), crossed' = {}
    PROVE  Seen'
<1> DEFINE c == <<s, "old">>
<1>0. c \in Calls /\ \A t \in Sides : <<t, "new">> \in Calls \ {c}
  BY Typed
<1>1. ~Plan(c)
  BY DEF Plan, Crosses
<1>2. UNCHANGED <<hub, sr, link, rec, task, report>> /\ \A e \in Calls \ {c} : call'[e] = call[e]
  <2>1. CASE Decide(c)
    BY <1>0, <2>1 DEF Decide, Answer, TypeOK
  <2>2. CASE Commit(c)
    BY <1>0, <2>2 DEF Commit, Answer, Crosses, TypeOK
  <2>3. QED
    BY <1>1, <2>1, <2>2 DEF Handle
<1>3. ASSUME NEW t \in Sides, link'[t] = "up" PROVE HubSees(t)'
  BY <1>0, <1>2, <1>3, SeesFrame, BehindFrame DEF Seen, New
<1>4. QED
  BY <1>3 DEF Seen

\* The hub sees a side that connects as it is, and one that is cut no more.
LEMMA SeenLinks ==
    ASSUME TypeOK, InOrder, Seen, NEW s \in Sides, Hello(s) \/ Drop(s) \/ Outlive(s)
    PROVE  Seen'
<1>1. CASE Hello(s)
  <2>1. Others(s)
    <3>1. /\ UNCHANGED <<hub, copies, call, disk, rec, report, task, over>>
          /\ \A t \in Sides \ {s} : sr'[t] = sr[t] /\ link'[t] = link[t]
      BY <1>1, HelloFields, SMTT(60) DEF TypeOK
    <3>2. QED
      BY <3>1 DEF Others, New
  <2>2. /\ task'[s].pc = "none" /\ report'[s].pc = "idle" /\ rec' = rec
        /\ sr'[s].held = IF rec[s].has /\ ~rec[s].sent /\ rec[s].val # Gone THEN rec[s].rev ELSE NotHeld
    BY <1>1, HelloFields, SMTT(60) DEF InOrder, SideOK, ReportHolds
  <2>3. HubSees(s)'
    BY <2>2 DEF HubSees
  <2>4. QED
    BY <2>1, <2>3, SeesOneSide
<1>2. CASE Drop(s)
  <2>1. PICK land, kept \in SUBSET {s} : Cut({s}, land, kept)
    BY <1>2 DEF Drop
  <2>2. link'[s] = "down"
    BY <2>1 DEF Cut
  <2>3. Others(s)
    BY <1>2, <2>1 DEF Drop, Cut, Others, New, TypeOK
  <2>4. QED
    BY <2>2, <2>3, SeesOneSide
<1>3. CASE Outlive(s)
  <2>1. link'[s] = "down"
    BY <1>3 DEF Outlive
  <2>2. Others(s)
    BY <1>3, Typed DEF Outlive, sideVars, ghosts, Others, New, TypeOK
  <2>3. QED
    BY <2>1, <2>2, SeesOneSide
<1>4. QED
  BY <1>1, <1>2, <1>3

\* A delete forgotten leaves the sides that do not hold the path in step, and the others behind.
LEMMA SeenForget ==
    ASSUME TypeOK, InOrder, Seen, Forget
    PROVE  Seen'
<1>1. hub'.cur.val = Gone /\ UNCHANGED <<call, sr, link, rec, report, task>>
  BY DEF Forget, TypeOK, HubType, NoEntry, sideVars
<1>2. ASSUME NEW t \in Sides, link'[t] = "up" PROVE HubSees(t)'
  BY <1>1, <1>2, SeesFrame, BehindStays DEF Seen, New
<1>3. QED
  BY <1>2 DEF Seen

\* Every step keeps it, as long as nothing crosses.
LEMMA HeldNext == ASSUME HeldInv, [Next]_vars PROVE HeldInv'
<1>1. KeptInv' /\ TypeOK /\ TypeOK'
  BY KeptNext DEF HeldInv, KeptInv
<1>2. crossed \subseteq crossed'
  BY DEF Next, vars, hubVars, sideVars, ghosts, Edit, Delete, Replace, Scan, Acked, Handle, Plan, Decide, Commit, Crosses,
         Dispatch, Apply, Look, Fetch, Write, Finish, Hello, Drop, Outlive, Forget, Restart, Stop
<1>3. SUFFICES ASSUME crossed' = {} PROVE Seen'
  BY <1>1 DEF HeldInv, Seen
<1>4. InOrder /\ Seen
  BY <1>2, <1>3 DEF HeldInv, KeptInv, Seen
<1>5. CASE UNCHANGED vars
  <2>1. UNCHANGED <<hub, call, sr, link, rec, report, task>>
    BY <1>5 DEF vars, hubVars, sideVars
  <2>2. ASSUME NEW t \in Sides, link'[t] = "up" PROVE HubSees(t)'
    BY <1>4, <2>1, <2>2, SeesFrame, BehindFrame DEF Seen, New
  <2>3. QED
    BY <2>2 DEF Seen
<1>6. ASSUME NEW c \in Calls, Handle(c) PROVE Seen'
  <2>1. PICK s \in Sides : c = <<s, "new">> \/ c = <<s, "old">>
    BY SMTT(60) DEF Calls
  <2>2. QED
    BY <1>1, <1>3, <1>4, <1>6, <2>1, SeenHandle, SeenOld
<1>7. ASSUME NEW s \in Sides, Scan(s) \/ Acked(s) \/ Dispatch(s) \/ Apply(s) \/ Finish(s) PROVE Seen'
  <2>1. Others(s) /\ link' = link
    <3>1. CASE Scan(s)
      BY <1>1, <3>1, Typed DEF Scan, Others, ghosts, New, TypeOK
    <3>2. CASE Acked(s)
      BY <1>1, <3>2 DEF Acked, Others, ghosts, New, hubVars, TypeOK
    <3>3. CASE Dispatch(s)
      BY <1>1, <3>3 DEF Dispatch, Others, ghosts, New, TypeOK
    <3>4. CASE Apply(s)
      BY <1>1, <3>4 DEF Apply, Look, Fetch, Write, Result, Applied, Others, ghosts, hubVars, New, TypeOK
    <3>5. CASE Finish(s)
      BY <1>1, <3>5 DEF Finish, Others, New, TypeOK
    <3>6. QED
      BY <1>7, <3>1, <3>2, <3>3, <3>4, <3>5
  <2>2. ASSUME link[s] = "up" PROVE HubSees(s)'
    BY <1>1, <1>3, <1>4, <1>7, <2>2, SeesScan, SeesAcked, SeesDispatch, SeesApply, SeesFinish DEF Seen
  <2>3. QED
    BY <1>4, <2>1, <2>2, SeesOneSide
<1>8. CASE Restart
  <2>1. PICK land, kept \in SUBSET Sides : Cut(Sides, land, kept)
    BY <1>8 DEF Restart, Stop
  <2>2. QED
    BY <2>1 DEF Seen, Cut
<1>9. QED
  BY <1>1, <1>4, <1>5, <1>6, <1>7, <1>8, SeenUser, SeenLinks, SeenForget DEF Next

\* HeldInv is an invariant: at first no side is connected.
LEMMA HeldAlways == Spec => []HeldInv
<1>1. Init => HeldInv
  BY KeptInit DEF Init, HeldInv
<1>2. HeldInv /\ [Next]_vars => HeldInv'
  BY HeldNext
<1>3. QED
  BY <1>1, <1>2, PTL DEF Spec

\* The hub is right about its sides: as long as no op or report crosses a newer one, a connected
\* side it has nothing to send (opFor) holds the path's state or a change of its own to report.
\* What Attach, setEntry, commitPlan and finish each write of what a side holds adds up.
THEOREM HubIsRightAboutSides == Spec => []HeldIsTrue
<1>1. ASSUME HeldInv PROVE HeldIsTrue
  <2>1. SUFFICES ASSUME crossed = {}, NEW s \in Sides, link[s] = "up", ~Lacks(s), report[s].pc = "idle",
                        task[s].pc = "none", ~Unreported(s)
                 PROVE  disk[s] = hub.cur.val
    BY DEF HeldIsTrue
  <2>2. HubSees(s) /\ SideOK(s) /\ EntryIsLast /\ hub.cur.rev \in Nat
    BY <1>1, <2>1, Typed, TypeEntry DEF HeldInv, KeptInv, InOrder
  <2>3. ~Behind(s)
    BY <2>1 DEF Behind, Lacks
  <2>4. sr[s].held = IF rec[s].has /\ rec[s].val # Gone THEN rec[s].rev ELSE NotHeld
    BY <2>1, <2>2, <2>3 DEF HubSees, Unreported
  <2>5. disk[s] = IF rec[s].has THEN rec[s].val ELSE Gone
    BY <2>1 DEF Unreported
  <2>6. CASE Has(hub.cur) /\ hub.cur.val # Gone
    BY <2>1, <2>2, <2>4, <2>5, <2>6, TypeRec, Typed, SMTT(60) DEF HeldInv, KeptInv, Lacks, Has, SideOK, RevsAreHubs, NotHeld, Unreported
  <2>7. CASE ~(Has(hub.cur) /\ hub.cur.val # Gone)
    <3>1. hub.cur.val = Gone
      BY <2>2, <2>7, SMTT(60) DEF Has, EntryIsLast, NoEntry
    <3>2. sr[s].held = NotHeld
      BY <2>1, <2>7 DEF Lacks
    <3>3. rec[s].rev # NotHeld
      <4>1. rec[s].rev \in Nat
        BY <1>1, TypeRec, Typed DEF HeldInv, KeptInv
      <4>2. QED
        BY <4>1, SMTT(60) DEF NotHeld
    <3>4. QED
      BY <2>4, <2>5, <3>1, <3>2, <3>3
  <2>8. QED
    BY <2>6, <2>7
<1>2. QED
  BY <1>1, HeldAlways, PTL
=============================================================================
