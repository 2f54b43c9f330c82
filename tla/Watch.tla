------------------------------- MODULE Watch -------------------------------
(***************************************************************************)
(* The hub: the single goroutine that owns what fleetd broadcasts, and the *)
(* Watch streams that subscribe to it.                                     *)
(*                                                                         *)
(* Two of the broadcast values stand for the two ways a value reaches the  *)
(* hub.  The persisted state is loaded first and posted later, by the jobs *)
(* that changed it (pushState) and by the poller (loadAndPush); the set of *)
(* in-flight jobs is taken on the hub's own turn (jobManager.onChange).    *)
(* A value is its version: how many changes it has seen.                   *)
(***************************************************************************)
EXTENDS Naturals, Sequences

CONSTANTS
    Writers,      \* jobs that write state.json once and push it
    Changers,     \* changes of the set of in-flight jobs
    Watches,      \* Watch calls
    Runtime,      \* those of them that subscribe to the runtime
    InboxSize,    \* capacity of hub.in
    Nothing       \* an empty buffer

ASSUME WatchAssumption ==
    /\ Runtime \subseteq Watches
    /\ InboxSize \in Nat \ {0}
    /\ Nothing \notin Nat

VARIABLES
    disk,     \* version of state.json
    jobs,     \* version of the active-jobs set
    writer,   \* per writer: its step, and the version it loaded
    changer,  \* per changer: its step
    poller,   \* the state poller: its step, and the version it loaded
    inbox,    \* hub.in
    hub,      \* what the hub's loop owns
    sub,      \* per Watch: the subscriber's conflating buffer
    watch,    \* per Watch: the step of its handler, and what its client has seen
    gone      \* the Watches whose client disconnected

vars == <<disk, jobs, writer, changer, poller, inbox, hub, sub, watch, gone>>

Version == Nat
Pending == Nat \cup {Nothing}

Message ==
    [op : {"state", "poll"}, v : Version] \cup [op : {"jobs"}]
        \cup [op : {"add", "remove"}, w : Watches]

WriterType == [pc : {"idle", "written", "loaded", "done"}, v : Version]
PollerType == [pc : {"idle", "loaded"}, v : Version]
HubType == [st : Version, jobs : Version, notified : Pending, subs : SUBSET Watches,
            runtimeWanted : BOOLEAN, hasSubs : BOOLEAN,
            phase : {"running", "stopping", "stopped"}]
SubType == [state : Pending, jobs : Pending, notify : BOOLEAN]
WatchType == [pc : {"off", "registering", "open", "sending", "leaving", "closed"},
              registered : BOOLEAN, drained : Pending, state : Pending, jobs : Pending]

\* Every variable has its type, and hub.in never holds more than its capacity.
TypeOK ==
    /\ disk \in Version
    /\ jobs \in Version
    /\ writer \in [Writers -> WriterType]
    /\ changer \in [Changers -> {"idle", "changed", "done"}]
    /\ poller \in PollerType
    /\ inbox \in Seq(Message) /\ Len(inbox) <= InboxSize
    /\ hub \in HubType
    /\ sub \in [Watches -> SubType]
    /\ watch \in [Watches -> WatchType]
    /\ gone \in SUBSET Watches

Init ==
    /\ disk = 0
    /\ jobs = 0
    /\ writer = [p \in Writers |-> [pc |-> "idle", v |-> 0]]
    /\ changer = [p \in Changers |-> "idle"]
    /\ poller = [pc |-> "idle", v |-> 0]
    /\ inbox = <<>>
    /\ hub = [st |-> 0, jobs |-> 0, notified |-> Nothing, subs |-> {},
              runtimeWanted |-> FALSE, hasSubs |-> FALSE, phase |-> "running"]
    /\ sub = [w \in Watches |-> [state |-> Nothing, jobs |-> Nothing, notify |-> FALSE]]
    /\ watch = [w \in Watches |-> [pc |-> "off", registered |-> FALSE, drained |-> Nothing,
                                   state |-> Nothing, jobs |-> Nothing]]
    /\ gone = {}

-----------------------------------------------------------------------------
(* Posting to the hub.                                                     *)

Stopped == hub.phase = "stopped"

\* Mutant: nobody waits for room in the inbox.
PostedAnyway(m) == inbox' = Append(inbox, m)

\* hub.post: it waits for room; once the hub has stopped it may return false instead.
Posted(m) == Len(inbox) < InboxSize /\ inbox' = Append(inbox, m)
Refused == Stopped /\ UNCHANGED inbox
Post(m) == Posted(m) \/ Refused

\* A job's state.Update ...
WriterUpdate(p) ==
    /\ writer[p].pc = "idle"
    /\ disk' = disk + 1
    /\ writer' = [writer EXCEPT ![p].pc = "written"]
    /\ UNCHANGED <<jobs, changer, poller, inbox, hub, sub, watch, gone>>

\* ... then pushState: load the state as it is now ...
PushLoad(p) ==
    /\ writer[p].pc = "written"
    /\ writer' = [writer EXCEPT ![p] = [pc |-> "loaded", v |-> disk]]
    /\ UNCHANGED <<disk, jobs, changer, poller, inbox, hub, sub, watch, gone>>

\* ... and post it.
PushPost(p) ==
    /\ writer[p].pc = "loaded"
    /\ Post([op |-> "state", v |-> writer[p].v])
    /\ writer' = [writer EXCEPT ![p].pc = "done"]
    /\ UNCHANGED <<disk, jobs, changer, poller, hub, sub, watch, gone>>

\* loadAndPush, on the poller's tick.
PollLoad ==
    /\ poller.pc = "idle"
    /\ ~Stopped
    /\ poller' = [pc |-> "loaded", v |-> disk]
    /\ UNCHANGED <<disk, jobs, writer, changer, inbox, hub, sub, watch, gone>>

PollPost ==
    /\ poller.pc = "loaded"
    /\ Post([op |-> "poll", v |-> poller.v])
    /\ poller' = [poller EXCEPT !.pc = "idle"]
    /\ UNCHANGED <<disk, jobs, writer, changer, hub, sub, watch, gone>>

\* The job manager's active set changes; onChange follows, outside its lock.
JobsChange(p) ==
    /\ changer[p] = "idle"
    /\ jobs' = jobs + 1
    /\ changer' = [changer EXCEPT ![p] = "changed"]
    /\ UNCHANGED <<disk, writer, poller, inbox, hub, sub, watch, gone>>

\* Mutant: a full inbox drops the notice.
OnChangeIfRoom(p) ==
    /\ changer[p] = "changed"
    /\ inbox' = IF Len(inbox) < InboxSize THEN Append(inbox, [op |-> "jobs"]) ELSE inbox
    /\ changer' = [changer EXCEPT ![p] = "done"]
    /\ UNCHANGED <<disk, jobs, writer, poller, hub, sub, watch, gone>>

OnChange(p) ==
    /\ changer[p] = "changed"
    /\ Post([op |-> "jobs"])
    /\ changer' = [changer EXCEPT ![p] = "done"]
    /\ UNCHANGED <<disk, jobs, writer, poller, hub, sub, watch, gone>>

-----------------------------------------------------------------------------
(* The hub's turns.                                                        *)

\* Mutant: a pending value is kept, as a full channel would.
EnqueueUnlessPending(subs, v) ==
    [w \in Watches |-> IF w \in subs /\ sub[w].state = Nothing
                       THEN [sub[w] EXCEPT !.state = v, !.notify = TRUE] ELSE sub[w]]

\* enqueueState on every subscriber: the newer value replaces the pending one.
EnqueueState(subs, v) ==
    [w \in Watches |-> IF w \in subs THEN [sub[w] EXCEPT !.state = v, !.notify = TRUE] ELSE sub[w]]

EnqueueJobs(subs, v) ==
    [w \in Watches |-> IF w \in subs THEN [sub[w] EXCEPT !.jobs = v, !.notify = TRUE] ELSE sub[w]]

\* addSub and removeSub end with recomputeRuntimeWanted.
WithSubs(subs) ==
    [hub EXCEPT !.subs = subs, !.runtimeWanted = (subs \cap Runtime # {}), !.hasSubs = (subs # {})]

\* setState broadcasts a snapshot that differs from the last one; the poller's turn
\* also tells the state listeners.
TurnState(m) ==
    /\ m.op \in {"state", "poll"}
    /\ hub' = [hub EXCEPT !.st = m.v, !.notified = IF m.op = "poll" THEN m.v ELSE @]
    /\ sub' = IF hub.st = m.v THEN sub ELSE EnqueueState(hub.subs, m.v)
    /\ UNCHANGED watch

\* broadcastActiveJobs takes the set on the hub's turn.
TurnJobs(m) ==
    /\ m.op = "jobs"
    /\ hub' = [hub EXCEPT !.jobs = jobs]
    /\ sub' = IF hub.jobs = jobs THEN sub ELSE EnqueueJobs(hub.subs, jobs)
    /\ UNCHANGED watch

\* Registration and the initial snapshot, in one turn.
TurnAdd(m) ==
    /\ m.op = "add"
    /\ hub' = WithSubs(hub.subs \cup {m.w})
    /\ sub' = [sub EXCEPT ![m.w] = [state |-> hub.st, jobs |-> hub.jobs, notify |-> TRUE]]
    /\ watch' = [watch EXCEPT ![m.w].registered = TRUE]

TurnRemove(m) ==
    /\ m.op = "remove"
    /\ hub' = WithSubs(hub.subs \ {m.w})
    /\ UNCHANGED <<sub, watch>>

HubTurn ==
    /\ ~Stopped
    /\ inbox # <<>>
    /\ inbox' = Tail(inbox)
    /\ \/ TurnState(Head(inbox)) \/ TurnJobs(Head(inbox))
       \/ TurnAdd(Head(inbox)) \/ TurnRemove(Head(inbox))
    /\ UNCHANGED <<disk, jobs, writer, changer, poller, gone>>

\* The shutdown's cancelHub; later run sees its context ended, and closes done.
CancelHub ==
    /\ hub.phase = "running"
    /\ hub' = [hub EXCEPT !.phase = "stopping"]
    /\ UNCHANGED <<disk, jobs, writer, changer, poller, inbox, sub, watch, gone>>

HubStop ==
    /\ hub.phase = "stopping"
    /\ hub' = [hub EXCEPT !.phase = "stopped"]
    /\ UNCHANGED <<disk, jobs, writer, changer, poller, inbox, sub, watch, gone>>

-----------------------------------------------------------------------------
(* A Watch stream.                                                         *)

\* The handler posts its registration, with include_initial_state.
WatchCall(w) ==
    /\ watch[w].pc = "off"
    /\ w \notin gone
    /\ \/ Posted([op |-> "add", w |-> w]) /\ watch' = [watch EXCEPT ![w].pc = "registering"]
       \/ Refused /\ watch' = [watch EXCEPT ![w].pc = "closed"]
    /\ UNCHANGED <<disk, jobs, writer, changer, poller, hub, sub, gone>>

\* The client goes away, perhaps before the hub has registered its Watch.
Disconnect(w) ==
    /\ w \notin gone
    /\ watch[w].pc \in {"registering", "open", "sending"}
    /\ gone' = gone \cup {w}
    /\ UNCHANGED <<disk, jobs, writer, changer, poller, inbox, hub, sub, watch>>

\* endStreamsOnShutdown: a stream's context ends with the daemon's.
EndStream(w) ==
    /\ hub.phase # "running"
    /\ w \notin gone
    /\ watch[w].pc \notin {"off", "closed"}
    /\ gone' = gone \cup {w}
    /\ UNCHANGED <<disk, jobs, writer, changer, poller, inbox, hub, sub, watch>>

\* Mutant: the handler waits for its registration alone.
WatchRegisteredOnly(w) ==
    /\ watch[w].pc = "registering"
    /\ watch[w].registered
    /\ watch' = [watch EXCEPT ![w].pc = "open"]
    /\ UNCHANGED <<disk, jobs, writer, changer, poller, inbox, hub, sub, gone>>

\* The first select: registered, or the client went away before that.
WatchRegistered(w) ==
    /\ watch[w].pc = "registering"
    /\ \/ watch[w].registered /\ watch' = [watch EXCEPT ![w].pc = "open"]
       \/ w \in gone /\ watch' = [watch EXCEPT ![w].pc = "closed"]
    /\ UNCHANGED <<disk, jobs, writer, changer, poller, inbox, hub, sub, gone>>

\* The pump: take the signal, drain the state ...
Drain(w) ==
    /\ watch[w].pc = "open"
    /\ sub[w].notify
    /\ watch' = [watch EXCEPT ![w].pc = "sending", ![w].drained = sub[w].state]
    /\ sub' = [sub EXCEPT ![w].notify = FALSE, ![w].state = Nothing]
    /\ UNCHANGED <<disk, jobs, writer, changer, poller, inbox, hub, gone>>

\* What a client has seen once new is sent, if there is anything new.
Seen(old, new) == IF new = Nothing THEN old ELSE new

\* Mutant: the pump takes its signal down after the send.
SendThenClear(w) ==
    /\ watch[w].pc = "sending"
    /\ \/ /\ w \in gone
          /\ watch' = [watch EXCEPT ![w].pc = "leaving"]
          /\ UNCHANGED sub
       \/ /\ w \notin gone
          /\ watch' = [watch EXCEPT ![w].pc = "open", ![w].drained = Nothing,
                                    ![w].state = Seen(@, watch[w].drained),
                                    ![w].jobs = Seen(@, sub[w].jobs)]
          /\ sub' = [sub EXCEPT ![w].jobs = Nothing, ![w].notify = FALSE]
    /\ UNCHANGED <<disk, jobs, writer, changer, poller, inbox, hub, gone>>

\* ... send it, then take and send the jobs; a send to a client that is gone fails.
Send(w) ==
    /\ watch[w].pc = "sending"
    /\ \/ /\ w \in gone
          /\ watch' = [watch EXCEPT ![w].pc = "leaving"]
          /\ UNCHANGED sub
       \/ /\ w \notin gone
          /\ watch' = [watch EXCEPT ![w].pc = "open", ![w].drained = Nothing,
                                    ![w].state = Seen(@, watch[w].drained),
                                    ![w].jobs = Seen(@, sub[w].jobs)]
          /\ sub' = [sub EXCEPT ![w].jobs = Nothing]
    /\ UNCHANGED <<disk, jobs, writer, changer, poller, inbox, hub, gone>>

\* The second select: the client went away, or the hub stopped.
WatchEnd(w) ==
    /\ watch[w].pc = "open"
    /\ w \in gone \/ Stopped
    /\ watch' = [watch EXCEPT ![w].pc = "leaving"]
    /\ UNCHANGED <<disk, jobs, writer, changer, poller, inbox, hub, sub, gone>>

\* Mutant: the handler returns without it.
LeaveRegistered(w) ==
    /\ watch[w].pc = "leaving"
    /\ watch' = [watch EXCEPT ![w].pc = "closed"]
    /\ UNCHANGED <<disk, jobs, writer, changer, poller, inbox, hub, sub, gone>>

\* The deferred removeSub.
WatchLeave(w) ==
    /\ watch[w].pc = "leaving"
    /\ Post([op |-> "remove", w |-> w])
    /\ watch' = [watch EXCEPT ![w].pc = "closed"]
    /\ UNCHANGED <<disk, jobs, writer, changer, poller, hub, sub, gone>>

-----------------------------------------------------------------------------
WriterStep(p) == PushLoad(p) \/ PushPost(p)
PollStep == PollLoad \/ PollPost
WatchStep(w) == WatchRegistered(w) \/ Drain(w) \/ Send(w) \/ WatchEnd(w) \/ WatchLeave(w)

Next ==
    \/ \E p \in Writers : WriterUpdate(p) \/ WriterStep(p)
    \/ \E p \in Changers : JobsChange(p) \/ OnChange(p)
    \/ PollStep
    \/ HubTurn \/ CancelHub \/ HubStop
    \/ \E w \in Watches : WatchCall(w) \/ Disconnect(w) \/ EndStream(w) \/ WatchStep(w)

Spec == Init /\ [][Next]_vars

\* Every goroutine keeps running: the hub's loop, the poller's ticker, the jobs past
\* their write and the Watch handlers; a sender blocked on hub.in is served in turn.
FairSpec ==
    /\ Spec
    /\ WF_vars(HubTurn) /\ WF_vars(HubStop)
    /\ WF_vars(PollLoad) /\ SF_vars(PollPost)
    /\ \A p \in Writers : WF_vars(PushLoad(p)) /\ SF_vars(PushPost(p))
    /\ \A p \in Changers : SF_vars(OnChange(p))
    /\ \A w \in Watches : WF_vars(WatchStep(w)) /\ SF_vars(WatchLeave(w)) /\ WF_vars(EndStream(w))

-----------------------------------------------------------------------------
(* Properties.                                                             *)

\* The newest of what is pending, in the pump's hands, and seen.
Latest(pending, inHand, seen) ==
    IF pending # Nothing THEN pending ELSE IF inHand # Nothing THEN inHand ELSE seen

\* What the hub has last taken in is on its way to every subscriber: pending in its
\* buffer, in the hands of its pump, or seen.  Conflation drops only what is older.
NoUpdateLost ==
    \A w \in hub.subs :
        watch[w].pc \in {"registering", "open", "sending"} =>
            /\ Latest(sub[w].state, watch[w].drained, watch[w].state) = hub.st
            /\ Latest(sub[w].jobs, Nothing, watch[w].jobs) = hub.jobs

\* A subscriber with something pending has its signal up, or its pump is on the way to
\* it: the size-1 notify channel loses no wakeup, also when a broadcast lands between
\* the pump's drain and its take of the jobs.
NoLostWakeup ==
    \A w \in Watches :
        /\ sub[w].state # Nothing => sub[w].notify
        /\ sub[w].jobs # Nothing => sub[w].notify \/ watch[w].pc \in {"sending", "leaving", "closed"}

\* Once the changes are over, every client that stays sees the state on disk and the
\* jobs in flight, however the pushes were ordered, and the state listeners have heard
\* of it.
ClientsConverge ==
    \/ <>(hub.phase # "running")
    \/ <>[]/\ \A w \in Watches : watch[w].pc \in {"open", "sending"} /\ w \notin gone
                 => watch[w].state = disk /\ watch[w].jobs = jobs
           /\ hub.notified = disk

\* A Watch that saw its registration leaves no subscriber behind when its client goes away,
\* wherever its pump was, so that hasSubs ("at least one Watch subscriber ... is attached",
\* hub.go) comes down again.
SubscribersLeave ==
    \A w \in Watches :
        w \in gone /\ watch[w].pc \in {"open", "sending", "leaving"}
            ~> w \notin hub.subs \/ hub.phase # "running"

\* After the shutdown began, every Watch returns, so the gRPC drain completes.
WatchesEnd ==
    \A w \in Watches : hub.phase = "stopping" /\ watch[w].pc # "off" ~> watch[w].pc = "closed"

-----------------------------------------------------------------------------
\* The pump holds a drained state only while it sends.
InHandWhileSending ==
    \A w \in Watches : watch[w].pc \in {"off", "registering", "open"} => watch[w].drained = Nothing

\* Only a Watch that was called is registered, or about to be.
CalledFirst ==
    /\ \A w \in hub.subs : watch[w].pc # "off"
    /\ \A k \in 1..Len(inbox) : inbox[k].op = "add" => watch[inbox[k].w].pc # "off"

SafeInv == TypeOK /\ NoUpdateLost /\ NoLostWakeup /\ InHandWhileSending /\ CalledFirst
=============================================================================
