----------------------------- MODULE JobStream -----------------------------
(***************************************************************************)
(* The event stream of one job: what its goroutine and its provisioning    *)
(* log emit, the bounded history a late watcher is given, and the streams  *)
(* (relay) and the MCP waits (awaitJob) that follow it.                    *)
(*                                                                         *)
(* Each lock is one step: job.mu around an emit or a subscribe, and        *)
(* provisioningLog.mu around a call of the log, which is held over all the *)
(* emits of the call (todo) and lets subscribers in between them.          *)
(***************************************************************************)
EXTENDS Naturals, Sequences, FiniteSets

CONSTANTS
    Relays,      \* RPC streams that relay the job
    Waiters,     \* MCP tools that wait for its outcome
    LogHistory,  \* jobLogHistory
    Buffer,      \* capacity of a subscriber's channel
    MaxCalls     \* bound: calls of the provisioning log while the run works

ASSUME JobStreamAssumption ==
    /\ Relays \cap Waiters = {}
    /\ LogHistory \in Nat
    /\ Buffer \in Nat \ {0}
    /\ MaxCalls \in Nat

VARIABLES
    emitted,  \* the kinds of all the events emitted so far
    history,  \* job.history
    step,     \* the event the summary's current step comes from, 0 when none
    subs,     \* job.subs
    pc,       \* where the job's goroutine is
    plog,     \* its provisioning log
    watch     \* the watchers

vars == <<emitted, history, step, subs, pc, plog, watch>>

Watchers == Relays \cup Waiters
Kinds == {"started", "progress", "log", "done"}
Event == [n : Nat \ {0}, kind : Kinds]
Dones(h) == {k \in DOMAIN h : h[k].kind = "done"}
Done(h) == Dones(h) # {}

\* partial: output after the last newline; todo: events the call under way still emits.
LogType == [state : {"none", "open", "closed"}, partial : BOOLEAN,
            todo : Seq({"log", "progress"}), calls : 0..MaxCalls]
\* at: how much had been emitted at the subscription; hist: what is left to replay;
\* ch: what the channel holds; sent: what the client has got, or the wait looked at.
WatchType == [pc : {"idle", "replay", "live", "ended", "resultless", "left"},
              at : Nat, hist : Seq(Event), ch : Seq(Event),
              chan : {"nil", "open", "closed"},
              sent : Seq(Event)]

\* Every variable has its type, and no channel holds more than its capacity.
TypeOK ==
    /\ emitted \in Seq(Kinds)
    /\ history \in Seq(Event)
    /\ step \in 0..Len(emitted)
    /\ subs \subseteq Watchers
    /\ pc \in {"registered", "working", "done", "finished", "closed"}
    /\ plog \in LogType
    /\ watch \in [Watchers -> WatchType]
    /\ \A w \in Watchers : Len(watch[w].ch) <= Buffer

Init ==
    /\ emitted = <<>>
    /\ history = <<>>
    /\ step = 0
    /\ subs = {}
    /\ pc = "registered"
    /\ plog = [state |-> "none", partial |-> FALSE, todo |-> <<>>, calls |-> 0]
    /\ watch = [w \in Watchers |-> [pc |-> "idle", at |-> 0, hist |-> <<>>, ch |-> <<>>,
                                   chan |-> "nil", sent |-> <<>>]]

-----------------------------------------------------------------------------
(* emit.                                                                   *)

Logs(h) == {k \in DOMAIN h : h[k].kind = "log"}
Oldest(S) == CHOOSE k \in S : \A j \in S : k <= j
Newest(S) == CHOOSE k \in S : \A j \in S : j <= k

\* Mutant: the oldest event goes, whatever it is.
DropOldest(h) == Tail(h)

DropOldestLogLocked(h) ==
    LET i == Oldest(Logs(h)) IN SubSeq(h, 1, i - 1) \o SubSeq(h, i + 1, Len(h))

\* The history after event ev: of the JobLog events the most recent LogHistory stay.
Kept(h, ev) ==
    LET all == Append(h, ev) IN
    IF Cardinality(Logs(all)) > LogHistory THEN DropOldestLogLocked(all) ELSE all

\* The non-blocking send: a full buffer drops the event.
Offered(w, ev) ==
    IF w \in subs /\ Len(watch[w].ch) < Buffer
    THEN [watch[w] EXCEPT !.ch = Append(@, ev)] ELSE watch[w]

Emit(kind) ==
    LET ev == [n |-> Len(emitted) + 1, kind |-> kind] IN
    /\ emitted' = Append(emitted, kind)
    /\ history' = Kept(history, ev)
    /\ step' = IF kind = "progress" THEN ev.n ELSE step
    /\ watch' = [w \in Watchers |-> Offered(w, ev)]

-----------------------------------------------------------------------------
(* The job's goroutine (runJob) and its provisioning log.                  *)

EmitStarted ==
    /\ pc = "registered"
    /\ pc' = "working"
    /\ Emit("started")
    /\ UNCHANGED <<subs, plog>>

\* openProvisioningLog, for the jobs that have one: its header is a line.
OpenLog ==
    /\ pc = "working"
    /\ plog.state = "none"
    /\ plog' = [plog EXCEPT !.state = "open", !.todo = <<"log">>]
    /\ UNCHANGED <<emitted, history, step, subs, pc, watch>>

\* The lock is free, and the log takes calls.
Callable == /\ plog.state = "open"
            /\ plog.todo = <<>>
            /\ plog.calls < MaxCalls

Calling(todo, partial) ==
    /\ plog' = [plog EXCEPT !.todo = todo, !.partial = partial, !.calls = @ + 1]
    /\ UNCHANGED <<emitted, history, step, subs, pc, watch>>

\* flushPartialLocked: an unfinished line comes before what follows it.
Flush == IF plog.partial THEN <<"log">> ELSE <<>>

\* Mutant: output is passed on whether the log is closed or not.
WriteLate(ends) ==
    /\ plog.state # "none"
    /\ plog.todo = <<>>
    /\ plog.calls < MaxCalls
    /\ Calling(IF ends THEN <<"log">> ELSE <<>>, ~ends)

\* Output with, or without, a newline at its end.
Write(ends) == Callable /\ Calling(IF ends THEN <<"log">> ELSE <<>>, ~ends)

Step == Callable /\ Calling(Flush \o <<"progress">>, FALSE)
Warn == Callable /\ Calling(Flush \o <<"log">>, FALSE)

\* finish: the error's line or the DONE step, and nothing is taken afterwards.
LogFinish ==
    /\ plog.state = "open"
    /\ plog.todo = <<>>
    /\ \E last \in {"log", "progress"} :
         plog' = [plog EXCEPT !.state = "closed", !.todo = Flush \o <<last>>, !.partial = FALSE]
    /\ UNCHANGED <<emitted, history, step, subs, pc, watch>>

\* The next emit of the call that holds the log's lock.
LogEmit ==
    /\ plog.todo # <<>>
    /\ Emit(Head(plog.todo))
    /\ plog' = [plog EXCEPT !.todo = Tail(@)]
    /\ UNCHANGED <<subs, pc>>

\* work() returned: its log is finished, or it never had one.
EmitDone ==
    /\ pc = "working"
    /\ plog.state # "open"
    /\ plog.todo = <<>>
    /\ pc' = "done"
    /\ Emit("done")
    /\ UNCHANGED <<subs, plog>>

\* jobManager.finish moves the job to the finished ones ...
Finish ==
    /\ pc = "done"
    /\ pc' = "finished"
    /\ UNCHANGED <<emitted, history, step, subs, plog, watch>>

\* Mutant: the subscribers are dropped, their channels left open.
ForgetSubs ==
    /\ pc = "finished"
    /\ pc' = "closed"
    /\ subs' = {}
    /\ UNCHANGED <<emitted, history, step, plog, watch>>

\* ... and closes its subscribers' channels, what they hold left in them.
CloseSubs ==
    /\ pc = "finished"
    /\ pc' = "closed"
    /\ watch' = [w \in Watchers |-> IF w \in subs THEN [watch[w] EXCEPT !.chan = "closed"]
                                    ELSE watch[w]]
    /\ subs' = {}
    /\ UNCHANGED <<emitted, history, step, plog>>

-----------------------------------------------------------------------------
(* The watchers.                                                           *)

\* The history so far, and a channel unless the job is terminal.
Subscribe(w) ==
    /\ watch[w].pc = "idle"
    /\ watch' = [watch EXCEPT ![w].pc = "replay", ![w].at = Len(emitted), ![w].hist = history,
                              ![w].chan = IF Done(history) THEN "nil" ELSE "open"]
    /\ subs' = IF Done(history) THEN subs ELSE subs \cup {w}
    /\ UNCHANGED <<emitted, history, step, pc, plog>>

Sent(w, ev) == [watch EXCEPT ![w].sent = Append(@, ev)]

\* Mutant: the replay follows the history as it grows, not the copy subscribe made.
RelayHistoryGrown(w) ==
    /\ w \in Relays
    /\ watch[w].pc = "replay"
    /\ watch[w].hist # <<>>
    /\ LET ev == Head(watch[w].hist) IN
       watch' = [Sent(w, ev) EXCEPT ![w].hist = SelectSeq(history, LAMBDA e : e.n > ev.n)]
    /\ UNCHANGED <<emitted, history, step, subs, pc, plog>>

\* relay sends the history first.
RelayHistory(w) ==
    /\ w \in Relays
    /\ watch[w].pc = "replay"
    /\ watch[w].hist # <<>>
    /\ watch' = [Sent(w, Head(watch[w].hist)) EXCEPT ![w].hist = Tail(@)]
    /\ UNCHANGED <<emitted, history, step, subs, pc, plog>>

\* Mutant: the live events may begin before the replay is through.
RelayLiveEarly(w) ==
    /\ w \in Relays
    /\ watch[w].pc = "replay"
    /\ watch' = [watch EXCEPT ![w].pc = IF watch[w].chan = "nil" THEN "ended" ELSE "live"]
    /\ UNCHANGED <<emitted, history, step, subs, pc, plog>>

\* The history is sent: without a channel the stream is over.
RelayLive(w) ==
    /\ w \in Relays
    /\ watch[w].pc = "replay"
    /\ watch[w].hist = <<>>
    /\ watch' = [watch EXCEPT ![w].pc = IF watch[w].chan = "nil" THEN "ended" ELSE "live"]
    /\ UNCHANGED <<emitted, history, step, subs, pc, plog>>

\* awaitSubscribed looks through the history for the outcome, from its start.
AwaitHistory(w) ==
    LET hist == watch[w].hist IN
    /\ w \in Waiters
    /\ watch[w].pc = "replay"
    /\ watch' = [watch EXCEPT ![w].hist = <<>>,
                              ![w].sent = IF Done(hist) THEN <<hist[Oldest(Dones(hist))]>> ELSE @,
                              ![w].pc = IF Done(hist) THEN "ended"
                                        ELSE IF watch[w].chan = "nil" THEN "resultless"
                                        ELSE "live"]
    /\ UNCHANGED <<emitted, history, step, subs, pc, plog>>

\* An event from the channel; the JobDone ends the stream or the wait.
Receive(w) ==
    LET ev == Head(watch[w].ch) IN
    /\ watch[w].pc = "live"
    /\ watch[w].ch # <<>>
    /\ watch' = [watch EXCEPT ![w].ch = Tail(@),
                              ![w].sent = IF w \in Relays \/ ev.kind = "done" THEN Append(@, ev) ELSE @,
                              ![w].pc = IF ev.kind = "done" THEN "ended" ELSE @]
    /\ subs' = IF ev.kind = "done" THEN subs \ {w} ELSE subs
    /\ UNCHANGED <<emitted, history, step, pc, plog>>

\* outcome looks for it from the end.
Outcome == history[Newest(Dones(history))]

\* Mutant: a closed channel just ends it.
SeeClosedOnly(w) ==
    /\ watch[w].pc = "live"
    /\ watch[w].ch = <<>>
    /\ watch[w].chan = "closed"
    /\ watch' = [watch EXCEPT ![w].pc = "resultless"]
    /\ UNCHANGED <<emitted, history, step, subs, pc, plog>>

\* The channel is closed: its JobDone can have been dropped, so it comes from the history.
SeeClosed(w) ==
    /\ watch[w].pc = "live"
    /\ watch[w].ch = <<>>
    /\ watch[w].chan = "closed"
    /\ watch' = IF Done(history) THEN [Sent(w, Outcome) EXCEPT ![w].pc = "ended"]
                ELSE [watch EXCEPT ![w].pc = "resultless"]
    /\ UNCHANGED <<emitted, history, step, subs, pc, plog>>

\* The client goes away.  The unsubscribe is deferred only once relay has replayed.
Leave(w) ==
    /\ watch[w].pc = "live" \/ (watch[w].pc = "replay" /\ w \in Relays)
    /\ watch' = [watch EXCEPT ![w].pc = "left"]
    /\ subs' = IF watch[w].pc = "live" THEN subs \ {w} ELSE subs
    /\ UNCHANGED <<emitted, history, step, pc, plog>>

-----------------------------------------------------------------------------
LogCall == Write(TRUE) \/ Write(FALSE) \/ Step \/ Warn

JobStep == EmitStarted \/ OpenLog \/ LogFinish \/ LogEmit \/ EmitDone \/ Finish \/ CloseSubs

WatchStep(w) == RelayHistory(w) \/ RelayLive(w) \/ AwaitHistory(w) \/ Receive(w) \/ SeeClosed(w)

Next ==
    \/ JobStep \/ LogCall
    \/ \E w \in Watchers : Subscribe(w) \/ WatchStep(w) \/ Leave(w)

Spec == Init /\ [][Next]_vars

\* The job's goroutine and the handlers keep running.  A run that never returns from
\* its work is Lifecycle's subject.
FairSpec == Spec /\ WF_vars(JobStep) /\ \A w \in Watchers : WF_vars(WatchStep(w))

-----------------------------------------------------------------------------
(* Properties.                                                             *)

\* How many of the events from the k-th on are logs.
LogsFrom(k) == Cardinality({j \in k..Len(emitted) : emitted[j] = "log"})

\* The k-th event is in s.
Holds(s, k) == \E g \in DOMAIN s : s[g] = [n |-> k, kind |-> emitted[k]]

\* "History keeps every event but JobLog, of which it keeps the jobLogHistory most
\* recent" (emit): exactly those, each once and in the order they were emitted.
HistoryIsWhole ==
    /\ \A k \in 1..Len(emitted) :
          (emitted[k] = "log" => LogsFrom(k) <= LogHistory) <=> Holds(history, k)
    /\ \A g, h \in DOMAIN history : g < h => history[g].n < history[h].n

\* A job emits "a JobEvent sequence whose first event is always JobStarted and whose
\* last is always JobDone": no output that comes late gets in after the JobDone.
StartedFirstDoneLast ==
    \A k \in 1..Len(emitted) : /\ emitted[k] = "started" <=> k = 1
                               /\ emitted[k] = "done" => k = Len(emitted)

\* A client gets every event at most once and in order, over the seam between the
\* replayed history and the live channel too, and nothing after the JobDone.
StreamInOrder ==
    \A w \in Watchers : \A g, h \in DOMAIN watch[w].sent :
        g < h => /\ watch[w].sent[g].n < watch[w].sent[h].n
                 /\ watch[w].sent[g].kind # "done"

EndsOnDone(s) == s # <<>> /\ s[Len(s)].kind = "done"

\* A stream or a wait that ends by itself ends with the JobDone, however full its
\* buffer was: "the stream's contract ends on one" (relay), and "job ended without a
\* result" (awaitSubscribed) is never reported.
EndsWithDone ==
    \A w \in Watchers :
        /\ watch[w].pc # "resultless"
        /\ watch[w].pc = "ended" => EndsOnDone(watch[w].sent)

\* "A re-subscribe replays the whole progress" (emit): a stream past its replay has
\* every event but logs that was emitted before it subscribed.
ReplayIsWhole ==
    \A w \in Relays : watch[w].pc \in {"live", "ended"} =>
        \A k \in 1..watch[w].at : emitted[k] # "log" => Holds(watch[w].sent, k)

\* Every stream and every wait ends, or its client leaves: none hangs on a channel
\* nobody closes, whether it came before, at or after the end of the job.
WatchersEnd ==
    \A w \in Watchers : watch[w].pc = "replay" ~> watch[w].pc \in {"ended", "left"}

-----------------------------------------------------------------------------
(* Why: the invariant that is inductive.                                   *)

Ordered(s) == \A g, h \in DOMAIN s : g < h => s[g].n < s[h].n
Before(s, t) == \A g \in DOMAIN s, h \in DOMAIN t : s[g].n < t[h].n
FromJob(s) == \A g \in DOMAIN s : s[g].n \in 1..Len(emitted) /\ s[g].kind = emitted[s[g].n]

\* The goroutine's place tells what was emitted, and the log works only while it works.
JobInv ==
    /\ StartedFirstDoneLast
    /\ pc = "registered" <=> emitted = <<>>
    /\ pc \in {"registered", "working"} <=> \A k \in 1..Len(emitted) : emitted[k] # "done"
    /\ plog.state = "open" \/ plog.todo # <<>> => pc = "working"

\* What a watcher has, what it replays and what waits in its channel are three
\* stretches of the job's events, one after the other.
FlowInv(v) ==
    /\ Ordered(v.sent) /\ Ordered(v.hist) /\ Ordered(v.ch)
    /\ Before(v.sent, v.hist) /\ Before(v.sent, v.ch) /\ Before(v.hist, v.ch)
    /\ FromJob(v.sent) /\ FromJob(v.hist) /\ FromJob(v.ch)

\* Where a watcher is tells what it has and what it can count on: without a channel
\* the JobDone is in its copy of the history, a closed channel comes after the JobDone.
PlaceInv(w, v) ==
    /\ v.pc # "resultless"
    /\ v.chan = "closed" => pc = "closed"
    /\ v.pc = "idle" => v.sent = <<>> /\ v.hist = <<>> /\ v.ch = <<>>
    /\ v.pc = "replay" => IF v.chan = "nil" THEN EndsOnDone(IF v.hist = <<>> THEN v.sent ELSE v.hist)
                          ELSE ~Done(v.sent) /\ ~Done(v.hist)
    /\ v.pc = "replay" /\ w \in Waiters => v.sent = <<>>
    /\ v.pc = "live" => v.chan # "nil" /\ v.hist = <<>> /\ ~Done(v.sent)
    /\ v.pc = "ended" => v.hist = <<>> /\ EndsOnDone(v.sent)

\* Every event but logs from before the subscription is sent, or still to be replayed.
ReplayInv(v) ==
    v.pc \in {"replay", "live", "ended"} =>
        /\ v.at <= Len(emitted)
        /\ \A k \in 1..v.at : emitted[k] # "log" => Holds(v.sent, k) \/ Holds(v.hist, k)

\* A subscriber has an open channel.
SubsInv == \A w \in subs : watch[w].pc # "idle" /\ watch[w].chan = "open"

\* The inductive invariant: every property above follows from it.
StreamInv ==
    /\ TypeOK
    /\ JobInv
    /\ HistoryIsWhole /\ FromJob(history)
    /\ SubsInv
    /\ \A w \in Watchers : FlowInv(watch[w]) /\ PlaceInv(w, watch[w])
    /\ \A w \in Relays : ReplayInv(watch[w])
=============================================================================
