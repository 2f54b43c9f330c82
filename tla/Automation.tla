----------------------------- MODULE Automation -----------------------------
(***************************************************************************)
(* Automation on one cluster connection: webhook deliveries and bash       *)
(* probes that fire triggers, the limiter that decides which agent runs    *)
(* start and which wait, the scheduler goroutine that starts them, and the *)
(* watch list that carries them over a restart of the daemon.              *)
(*                                                                         *)
(* The limiter (automationLimiter.mu), the fires channel (firesMu) and the *)
(* instance records (state.Update) are locked apart, and each is one step. *)
(* A run is one agent's part of one firing.  A trigger's queue is the runs *)
(* of it that wait, in the order of their ids: planLocked hands out rising *)
(* ids and insertLocked sorts by them.  A trigger may change its type, so  *)
(* firings of every kind can meet in one queue.                            *)
(***************************************************************************)
EXTENDS Naturals, FiniteSets, Sequences, SequencesExt

CONSTANTS
    Deliveries,   \* webhook requests
    Probes,       \* bash probes that pass
    Crons,        \* minutes at which a schedule trigger is due
    Triggers,     \* triggers; a delivery fires one or more, the others one
    Agents,       \* agents, each fired by every trigger
    OnCluster,    \* the agents that run on the connection
    Refusable,    \* the agents that may lose their login, their trigger or their target
    MaxPerAgent,  \* automation_max_per_agent
    QueueMax,     \* automationQueueMax
    FireBuffer,   \* triggerFireBuffer
    Quota,        \* max_instances of the connection
    MaxOthers,    \* bound: creates by users on the connection
    MaxStops,     \* bound: shutdowns of the daemon
    MaxKills,     \* bound: how often it is killed
    NoFiring      \* no firing started within automation_fire_interval

ASSUME AutomationAssumption ==
    /\ Deliveries \cap Probes = {}
    /\ Crons \cap (Deliveries \cup Probes) = {}
    /\ OnCluster \subseteq Agents
    /\ Refusable \subseteq Agents
    /\ MaxPerAgent \in Nat \ {0}
    /\ QueueMax \in Nat \ {0}
    /\ FireBuffer \in Nat \ {0}
    /\ Quota \in Nat
    /\ MaxOthers \in Nat
    /\ MaxStops \in Nat
    /\ MaxKills \in Nat
    /\ NoFiring \notin Deliveries \cup Probes \cup Crons

VARIABLES
    lim,       \* the limiter, and where each run is
    inst,      \* the runs whose instance record counts against the quota
    made,      \* how often an instance was created for a run
    others,    \* other instances on the connection: users' and adopted ones
    created,   \* how many of them users created
    producer,  \* the deliveries and the probes
    fires,     \* service.triggerFires
    closed,    \* service.firesClosed
    sched,     \* the scheduler goroutine
    file,      \* watch.json
    daemon,    \* "up", "stopping" or "down"
    ends       \* how often it stopped and was killed

vars == <<lim, inst, made, others, created, producer, fires, closed, sched, file, daemon, ends>>

By == Deliveries \cup Probes \cup Crons
Runs == [by : By, trig : Triggers, agent : Agents]
RunsOf(b, t) == {r \in Runs : r.by = b /\ r.trig = t}

\* Where a run is: planned (reserved to start, pending in the queue, or direct for an
\* agent off the cluster), queued, starting, live, or what became of it.
Places == {"none", "reserved", "pending", "direct", "queued", "starting", "live", "ended",
           "refused", "expired", "dropped", "failed", "discarded", "adopted", "lost"}
Settled == {"live", "ended", "refused", "expired", "dropped", "failed", "adopted"}
InQueue == {"pending", "queued"}

Slots == Runs \X {"start", "watch"}
LimiterType == [at : [Runs -> Places], id : [Runs -> Nat], seq : Nat,
                holds : [Agents -> SUBSET Slots], creating : Nat,
                mark : [Triggers -> By \cup {NoFiring}]]
ProducerType == [pc : {"idle", "planned", "sending", "shed", "done", "cut"},
                 trigs : SUBSET Triggers, reply : {"none", "taken", "busy", "full"}]
SchedType == [pc : {"off", "tick", "start", "settle", "fire", "wait", "closing"},
              todo : Seq(Runs), by : By \cup {NoFiring}, trigs : SUBSET Triggers,
              left : Seq(By)]

\* Every variable has its type, and the channel holds no more than its capacity.
TypeOK ==
    /\ lim \in LimiterType
    /\ inst \subseteq Runs
    /\ made \in [Runs -> Nat]
    /\ others \in Nat
    /\ created \in 0..MaxOthers
    /\ producer \in [By -> ProducerType]
    /\ fires \in Seq(By) /\ Len(fires) <= FireBuffer
    /\ closed \in BOOLEAN
    /\ sched \in SchedType
    /\ file \in [queued : SUBSET Runs, watched : SUBSET Runs]
    /\ daemon \in {"up", "stopping", "down"}
    /\ ends \in [stops : 0..MaxStops, kills : 0..MaxKills]

NewLimiter ==
    [at |-> [r \in Runs |-> "none"], id |-> [r \in Runs |-> 0], seq |-> 0,
     holds |-> [a \in Agents |-> {}], creating |-> 0, mark |-> [t \in Triggers |-> NoFiring]]

Ticking == [pc |-> "tick", todo |-> <<>>, by |-> NoFiring, trigs |-> {}, left |-> <<>>]

Init ==
    /\ lim = NewLimiter
    /\ inst = {}
    /\ made = [r \in Runs |-> 0]
    /\ others = 0
    /\ created = 0
    /\ producer = [b \in By |-> [pc |-> "idle", trigs |-> {}, reply |-> "none"]]
    /\ fires = <<>>
    /\ closed = FALSE
    /\ sched = Ticking
    /\ file = [queued |-> {}, watched |-> {}]
    /\ daemon = "up"
    /\ ends = [stops |-> 0, kills |-> 0]

-----------------------------------------------------------------------------
(* The limiter: operators from a limiter to a limiter.                     *)

OffCluster(r) == r.agent \notin OnCluster

\* quotaRoom: the instances the connection has.
Used == Cardinality({r \in inst : ~OffCluster(r)}) + others

Queue(l, t) == {r \in Runs : r.trig = t /\ l.at[r] \in InQueue}

\* firingsLocked: how many firings wait in a trigger's queue.
Firings(l, t) == Cardinality({r.by : r \in Queue(l, t)})

\* Mutant: an agent's limit is passed by one.
WaitsOverLimit(l, r) ==
    \/ \E q \in Queue(l, r.trig) : q.agent = r.agent /\ l.id[q] < l.id[r]
    \/ Cardinality(l.holds[r.agent]) > MaxPerAgent
    \/ Used + l.creating >= Quota
    \/ l.mark[r.trig] \notin {NoFiring, r.by}

\* Mutant: a run does not look for an earlier one of its trigger and agent.
WaitsOutOfTurn(l, r) ==
    \/ Cardinality(l.holds[r.agent]) >= MaxPerAgent
    \/ Used + l.creating >= Quota
    \/ l.mark[r.trig] \notin {NoFiring, r.by}

\* Mutant: runs reserved to start are not counted against the quota.
WaitsUncounted(l, r) ==
    \/ \E q \in Queue(l, r.trig) : q.agent = r.agent /\ l.id[q] < l.id[r]
    \/ Cardinality(l.holds[r.agent]) >= MaxPerAgent
    \/ Used >= Quota
    \/ l.mark[r.trig] \notin {NoFiring, r.by}

\* waitLocked: behind an earlier firing for its agent, over the agent's limit, over the
\* quota with the runs that are about to be created, or within the fire interval.
Waits(l, r) ==
    \/ \E q \in Queue(l, r.trig) : q.agent = r.agent /\ l.id[q] < l.id[r]
    \/ Cardinality(l.holds[r.agent]) >= MaxPerAgent
    \/ Used + l.creating >= Quota
    \/ l.mark[r.trig] \notin {NoFiring, r.by}

Hold(l, r, how) == [l EXCEPT !.holds[r.agent] = @ \cup {<<r, how>>}]
Release(l, r, how) == [l EXCEPT !.holds[r.agent] = @ \ {<<r, how>>}]

\* reserveLocked.
Reserve(l, r, place) ==
    [Hold(l, r, "start") EXCEPT !.at[r] = place, !.creating = @ + 1, !.mark[r.trig] = r.by]

\* A reservation given back: releaseLocked and creatingDoneLocked.
Unreserve(l, r) ==
    [Release(l, r, "start") EXCEPT
        !.creating = IF OffCluster(r) \/ @ = 0 THEN @ ELSE @ - 1]

\* planLocked for one agent.  The runs of a firing reserve in turn what planLocked
\* counts as extra and reserves at its end: their agents differ.
PlanRun(l, r, refused) ==
    LET n == [l EXCEPT !.seq = @ + 1, !.id[r] = l.seq + 1] IN
    IF OffCluster(r) THEN [l EXCEPT !.at[r] = "direct"]
    ELSE IF r.agent \in refused THEN [l EXCEPT !.at[r] = "refused"]
    ELSE IF Waits(n, r) THEN [n EXCEPT !.at[r] = "pending"]
    ELSE Reserve(n, r, "reserved")

\* planLocked: a firing with a run that waits is dropped whole when the queue is full.
PlanFiring(l, b, t, refused) ==
    LET p == FoldLeft(LAMBDA acc, r : PlanRun(acc, r, refused), l, SetToSeq(RunsOf(b, t))) IN
    IF /\ \E r \in RunsOf(b, t) : p.at[r] = "pending"
       /\ Firings(l, t) >= QueueMax
    THEN [l EXCEPT !.at = [r \in Runs |-> IF r \in RunsOf(b, t) THEN "dropped" ELSE l.at[r]]]
    ELSE p

\* plan: every trigger of the batch, in whatever order the fleets' map is walked.
Plans(l, b, trigs, refused) ==
    {FoldLeft(LAMBDA acc, t : PlanFiring(acc, b, t, refused), l, order) :
        order \in {s \in [1..Cardinality(trigs) -> trigs] : \A t \in trigs : \E k \in DOMAIN s : s[k] = t}}

\* Mutant: the runs in the queue stay there.
DiscardReserved(l, b) ==
    LET reserved == {r \in Runs : r.by = b /\ l.at[r] = "reserved"}
        freed == FoldLeft(Unreserve, l, SetToSeq(reserved)) IN
    [freed EXCEPT
        !.at = [r \in Runs |-> IF r \in reserved THEN "discarded" ELSE l.at[r]],
        !.mark = [t \in Triggers |-> IF l.mark[t] = b THEN NoFiring ELSE l.mark[t]]]

\* Mutant: the runs reserved to start keep their slots.
DiscardQueued(l, b) ==
    [l EXCEPT
        !.at = [r \in Runs |-> IF r.by = b /\ l.at[r] # "dropped" THEN "discarded" ELSE l.at[r]],
        !.mark = [t \in Triggers |-> IF l.mark[t] = b THEN NoFiring ELSE l.mark[t]]]

\* discard.  The mark a plan replaced had run out, or the plan would have waited for it.
Discard(l, b) ==
    LET reserved == SetToSeq({r \in Runs : r.by = b /\ l.at[r] = "reserved"})
        freed == FoldLeft(Unreserve, l, reserved) IN
    [freed EXCEPT
        !.at = [r \in Runs |-> IF r.by = b /\ l.at[r] # "dropped" THEN "discarded" ELSE l.at[r]],
        !.mark = [t \in Triggers |-> IF l.mark[t] = b THEN NoFiring ELSE l.mark[t]]]

\* commit: the queued runs of a firing are the queue's to drain.
Commit(l, b, t) ==
    [l EXCEPT !.at = [r \in Runs |-> IF r \in RunsOf(b, t) /\ l.at[r] = "pending"
                                     THEN "queued" ELSE l.at[r]]]

\* postpone for one run the firing would start now.
PostponeRun(l, r) ==
    IF OffCluster(r) THEN [l EXCEPT !.at[r] = "queued", !.seq = @ + 1, !.id[r] = l.seq + 1]
    ELSE [Unreserve(l, r) EXCEPT !.at[r] = "queued"]

\* commit and postpone of a firing taken as the scheduler stops.
Postpone(l, b, t) ==
    FoldLeft(PostponeRun, Commit(l, b, t),
             SetToSeq({r \in RunsOf(b, t) : l.at[r] \in {"reserved", "direct"}}))

ById(l, S) == SetToSortSeq(S, LAMBDA q, r : l.id[q] < l.id[r])

\* Mutant: a run waits without end.
DueRunForever(l, r, old, refused) ==
    IF l.at[r] = "pending" THEN l
    ELSE IF r.agent \in refused THEN [l EXCEPT !.at[r] = "refused"]
    ELSE IF OffCluster(r) THEN [Hold(l, r, "start") EXCEPT !.at[r] = "starting"]
    ELSE IF Waits(l, r) THEN l
    ELSE Reserve(l, r, "starting")

\* due for one run: left alone while its delivery is under way; expired; refused;
\* started at once off the cluster; kept waiting; or reserved to start.
DueRun(l, r, old, refused) ==
    IF l.at[r] = "pending" THEN l
    ELSE IF r \in old THEN [l EXCEPT !.at[r] = "expired"]
    ELSE IF r.agent \in refused THEN [l EXCEPT !.at[r] = "refused"]
    ELSE IF OffCluster(r) THEN [Hold(l, r, "start") EXCEPT !.at[r] = "starting"]
    ELSE IF Waits(l, r) THEN l
    ELSE Reserve(l, r, "starting")

\* due: every queue's runs together, oldest first.
Due(l, old, refused) ==
    FoldLeft(LAMBDA acc, r : DueRun(acc, r, old, refused), l,
             ById(l, UNION {Queue(l, t) : t \in Triggers}))

\* automationQueueTTL: of the waiting runs the oldest n have expired.
Oldest(l, n) == LET waiting == ById(l, {r \in Runs : l.at[r] = "queued"}) IN
                {waiting[k] : k \in 1..(IF n < Len(waiting) THEN n ELSE Len(waiting))}

\* The fire interval since the trigger's last start ends.
IntervalEnds(t) ==
    /\ lim.mark[t] # NoFiring
    /\ lim' = [lim EXCEPT !.mark[t] = NoFiring]
    /\ UNCHANGED <<inst, made, others, created, producer, fires, closed, sched, file, daemon, ends>>

-----------------------------------------------------------------------------
(* The producers: serveWebhook and startBashProbe.                         *)

Serving == daemon # "down"

\* A delivery matches its triggers and plans them before it replies; 429 when every
\* one of them is dropped.
ServeWebhook(d, trigs, refused) ==
    /\ Serving
    /\ producer[d].pc = "idle"
    /\ lim' \in Plans(lim, d, trigs, refused)
    /\ LET full == \A t \in trigs : \E r \in RunsOf(d, t) : lim'.at[r] = "dropped" IN
       producer' = [producer EXCEPT ![d] = [trigs |-> trigs,
                                            pc |-> IF full THEN "done" ELSE "planned",
                                            reply |-> IF full THEN "full" ELSE "none"]]
    /\ UNCHANGED <<inst, made, others, created, fires, closed, sched, file, daemon, ends>>

\* A probe that exits 0 fires its trigger, unplanned.
ProbeFires(p, t) ==
    /\ daemon = "up"
    /\ producer[p].pc = "idle"
    /\ producer' = [producer EXCEPT ![p] = [trigs |-> {t}, pc |-> "planned", reply |-> "none"]]
    /\ UNCHANGED <<lim, inst, made, others, created, fires, closed, sched, file, daemon, ends>>

\* handFires takes firesMu for reading, and is refused once the scheduler has stopped.
HandFires(b) ==
    /\ Serving
    /\ producer[b].pc = "planned"
    /\ producer' = [producer EXCEPT ![b].pc = IF closed THEN "shed" ELSE "sending"]
    /\ UNCHANGED <<lim, inst, made, others, created, fires, closed, sched, file, daemon, ends>>

\* ... the batch fits in the channel: the scheduler has it, and the sender is told so ...
SendFires(b) ==
    /\ Serving
    /\ producer[b].pc = "sending"
    /\ Len(fires) < FireBuffer
    /\ fires' = Append(fires, b)
    /\ producer' = [producer EXCEPT ![b].pc = "done", ![b].reply = "taken"]
    /\ UNCHANGED <<lim, inst, made, others, created, closed, sched, file, daemon, ends>>

\* ... or the wait runs out: a request's at any time, a probe's when the daemon stops.
ShedFires(b) ==
    /\ Serving
    /\ producer[b].pc = "sending"
    /\ b \in Probes => daemon = "stopping"
    /\ producer' = [producer EXCEPT ![b].pc = "shed"]
    /\ UNCHANGED <<lim, inst, made, others, created, fires, closed, sched, file, daemon, ends>>

\* A delivery that was not taken gives back what it planned, and replies 503.
DiscardPlans(b) ==
    /\ Serving
    /\ producer[b].pc = "shed"
    /\ producer' = [producer EXCEPT ![b].pc = "done", ![b].reply = "busy"]
    /\ lim' = IF b \in Deliveries THEN Discard(lim, b) ELSE lim
    /\ UNCHANGED <<inst, made, others, created, fires, closed, sched, file, daemon, ends>>

-----------------------------------------------------------------------------
(* The scheduler goroutine.                                                *)

Watched(l) == {r \in Runs : l.at[r] = "live"}
Persisted(l) == [queued |-> {r \in Runs : l.at[r] = "queued"}, watched |-> Watched(l)]

\* schedulerTick: a schedule trigger is due.  Its minute is saved before it fires, so it
\* fires once; the firing is planned and run within the tick.
CronFires(c, t, refused) ==
    /\ sched.pc = "tick"
    /\ producer[c].pc = "idle"
    /\ producer' = [producer EXCEPT ![c] = [trigs |-> {t}, pc |-> "done", reply |-> "taken"]]
    /\ file' = Persisted(lim)
    /\ lim' \in Plans(lim, c, {t}, refused)
    /\ sched' = [sched EXCEPT !.pc = "fire", !.by = c, !.trigs = {t}]
    /\ UNCHANGED <<inst, made, others, created, fires, closed, daemon, ends>>

\* serviceWatched drops a run whose instance is gone or failed, or reaps it; a run whose
\* destroy is refused is dropped all the same, and its instance stays.
Unwatch(r) ==
    /\ sched.pc = "tick"
    /\ lim.at[r] = "live"
    /\ lim' = [Release(lim, r, "watch") EXCEPT !.at[r] = "ended"]
    /\ inst' \in {inst, inst \ {r}}
    /\ UNCHANGED <<made, others, created, producer, fires, closed, sched, file, daemon, ends>>

\* serviceQueue: what may start now is started next.
ServiceQueue(n, refused) ==
    /\ sched.pc = "tick"
    /\ lim' = Due(lim, Oldest(lim, n), refused)
    /\ sched' = [sched EXCEPT !.pc = "start",
                              !.todo = ById(lim, {r \in Runs : lim'.at[r] = "starting"})]
    /\ UNCHANGED <<inst, made, others, created, producer, fires, closed, file, daemon, ends>>

Starting == Head(sched.todo)
Rest == [sched EXCEPT !.pc = "start", !.todo = Tail(@)]
Reserved(r) == lim.at[r] = "starting"

\* startRun: createAutomationInstance writes the record ...
CreateInstance ==
    LET r == Starting IN
    /\ sched.pc = "start"
    /\ sched.todo # <<>>
    /\ OffCluster(r) \/ Used < Quota
    /\ inst' = inst \cup {r}
    /\ made' = [made EXCEPT ![r] = @ + 1]
    /\ sched' = [sched EXCEPT !.pc = "settle"]
    /\ UNCHANGED <<lim, others, created, producer, fires, closed, file, daemon, ends>>

\* ... after which the reservation becomes the watched run's slot (started, hold).
Started ==
    LET r == Starting IN
    /\ sched.pc = "settle"
    /\ lim' = [Hold(IF Reserved(r) THEN Unreserve(lim, r) ELSE lim, r, "watch") EXCEPT !.at[r] = "live"]
    /\ sched' = Rest
    /\ UNCHANGED <<inst, made, others, created, producer, fires, closed, file, daemon, ends>>

\* The quota refuses the create after all: back to the queue, in order.
Requeue ==
    LET r == Starting IN
    /\ sched.pc = "start"
    /\ sched.todo # <<>>
    /\ ~OffCluster(r) /\ Used >= Quota
    /\ lim' = [Unreserve(lim, r) EXCEPT !.at[r] = "queued"]
    /\ sched' = Rest
    /\ UNCHANGED <<inst, made, others, created, producer, fires, closed, file, daemon, ends>>

\* Any other refusal of the create ends the run.
NotCreated ==
    LET r == Starting IN
    /\ sched.pc = "start"
    /\ sched.todo # <<>>
    /\ lim' = [(IF Reserved(r) THEN Unreserve(lim, r) ELSE lim) EXCEPT !.at[r] = "failed"]
    /\ sched' = Rest
    /\ UNCHANGED <<inst, made, others, created, producer, fires, closed, file, daemon, ends>>

\* The end of the tick: persist, then the select.
EndTick ==
    /\ sched.pc = "start" /\ sched.todo = <<>> /\ sched.by = NoFiring
    /\ file' = Persisted(lim)
    /\ sched' = [sched EXCEPT !.pc = "wait"]
    /\ UNCHANGED <<lim, inst, made, others, created, producer, fires, closed, daemon, ends>>

\* The ticker, the end of an interval, or wakeScheduler.
Wake ==
    /\ sched.pc = "wait"
    /\ daemon = "up"
    /\ sched' = [sched EXCEPT !.pc = "tick"]
    /\ UNCHANGED <<lim, inst, made, others, created, producer, fires, closed, file, daemon, ends>>

\* planFires: a delivery comes planned, a probe's firing is planned here.
Planned(l, b, refused) ==
    IF b \in Probes THEN Plans(l, b, producer[b].trigs, refused) ELSE {l}

\* fireTriggerBatch.
TakeBatch(refused) ==
    LET b == Head(fires) IN
    /\ sched.pc = "wait"
    /\ daemon = "up"
    /\ fires # <<>>
    /\ fires' = Tail(fires)
    /\ lim' \in Planned(lim, b, refused)
    /\ sched' = [sched EXCEPT !.pc = "fire", !.by = b, !.trigs = producer[b].trigs]
    /\ UNCHANGED <<inst, made, others, created, producer, closed, file, daemon, ends>>

\* runFiring: the firing is recorded (commit), and the runs it starts are started next.
RunFiring(t) ==
    LET b == sched.by
        starts(place) == SetToSeq({r \in RunsOf(b, t) : lim.at[r] = place}) IN
    /\ sched.pc = "fire"
    /\ t \in sched.trigs
    /\ lim' = [Commit(lim, b, t) EXCEPT
                 !.at = [r \in Runs |-> IF r \in RunsOf(b, t) /\ @[r] = "reserved" THEN "starting" ELSE @[r]]]
    /\ sched' = [sched EXCEPT !.pc = "start", !.trigs = @ \ {t},
                              !.todo = starts("direct") \o starts("reserved")]
    /\ UNCHANGED <<inst, made, others, created, producer, fires, closed, file, daemon, ends>>

\* It persists when it created an instance: the watch list is then not the file's.
EndFiring ==
    /\ sched.pc = "start" /\ sched.todo = <<>> /\ sched.by # NoFiring
    /\ file' = IF Watched(lim) # file.watched THEN Persisted(lim) ELSE file
    /\ sched' = [sched EXCEPT !.pc = "fire"]
    /\ UNCHANGED <<lim, inst, made, others, created, producer, fires, closed, daemon, ends>>

\* After a batch the loop persists; after a schedule trigger the tick goes on.
EndBatch ==
    /\ sched.pc = "fire" /\ sched.trigs = {}
    /\ file' = IF sched.by \in Crons THEN file ELSE Persisted(lim)
    /\ sched' = Ticking
    /\ UNCHANGED <<lim, inst, made, others, created, producer, fires, closed, daemon, ends>>

\* The select of a stopping scheduler may still come out with a batch in hand.
StopScheduler ==
    /\ sched.pc = "wait"
    /\ daemon = "stopping"
    /\ \/ /\ sched' = [sched EXCEPT !.pc = "closing"]
          /\ UNCHANGED fires
       \/ /\ fires # <<>>
          /\ sched' = [sched EXCEPT !.pc = "closing", !.left = <<Head(fires)>>]
          /\ fires' = Tail(fires)
    /\ UNCHANGED <<lim, inst, made, others, created, producer, closed, file, daemon, ends>>

\* Mutant: firesClosed is set without waiting for the senders in the middle of it.
CloseAtOnce ==
    /\ sched.pc = "closing"
    /\ ~closed
    /\ closed' = TRUE
    /\ UNCHANGED <<lim, inst, made, others, created, producer, fires, sched, file, daemon, ends>>

\* closeFires: firesMu is taken once no sender holds it ...
CloseFires ==
    /\ sched.pc = "closing"
    /\ ~closed
    /\ \A b \in By : producer[b].pc # "sending"
    /\ closed' = TRUE
    /\ UNCHANGED <<lim, inst, made, others, created, producer, fires, sched, file, daemon, ends>>

\* ... while the batches they send are taken off the channel.
CollectFires ==
    /\ sched.pc = "closing"
    /\ fires # <<>>
    /\ sched' = [sched EXCEPT !.left = Append(@, Head(fires))]
    /\ fires' = Tail(fires)
    /\ UNCHANGED <<lim, inst, made, others, created, producer, closed, file, daemon, ends>>

\* holdFiring of each firing of the batches left.
Held(l, b) == FoldLeft(LAMBDA acc, t : Postpone(acc, b, t), l, SetToSeq(producer[b].trigs))

\* holdFires keeps them for the next daemon; they are kept one batch after the other.
HoldFires(refused) ==
    /\ sched.pc = "closing" /\ closed /\ fires = <<>>
    /\ IF sched.left = <<>>
       THEN /\ file' = Persisted(lim)
            /\ sched' = [sched EXCEPT !.pc = "off"]
            /\ UNCHANGED lim
       ELSE /\ \E l \in Planned(lim, Head(sched.left), refused) : lim' = Held(l, Head(sched.left))
            /\ sched' = [sched EXCEPT !.left = Tail(@)]
            /\ UNCHANGED file
    /\ UNCHANGED <<inst, made, others, created, producer, fires, closed, daemon, ends>>

-----------------------------------------------------------------------------
(* Instances that come and go, and the daemon.                             *)

\* A user creates an instance on the connection, under the same quota.
OtherCreate ==
    /\ Serving /\ created < MaxOthers /\ Used < Quota
    /\ others' = others + 1
    /\ created' = created + 1
    /\ UNCHANGED <<lim, inst, made, producer, fires, closed, sched, file, daemon, ends>>

OtherGone ==
    /\ others > 0
    /\ others' = others - 1
    /\ UNCHANGED <<lim, inst, made, created, producer, fires, closed, sched, file, daemon, ends>>

\* A run's instance is destroyed by a user, or fails and is released.
InstanceGone(r) ==
    /\ r \in inst
    /\ inst' = inst \ {r}
    /\ UNCHANGED <<lim, made, others, created, producer, fires, closed, sched, file, daemon, ends>>

BeginStop ==
    /\ daemon = "up"
    /\ ends.stops < MaxStops
    /\ daemon' = "stopping"
    /\ ends' = [ends EXCEPT !.stops = @ + 1]
    /\ UNCHANGED <<lim, inst, made, others, created, producer, fires, closed, sched, file>>

\* The requests the process was serving end without an answer.
CutOff == [b \in By |-> IF producer[b].pc \in {"idle", "done"} THEN producer[b]
                        ELSE [producer[b] EXCEPT !.pc = "cut"]]

Exit ==
    /\ daemon = "stopping"
    /\ sched.pc = "off"
    /\ daemon' = "down"
    /\ producer' = CutOff
    /\ UNCHANGED <<lim, inst, made, others, created, fires, closed, sched, file, ends>>

Kill ==
    /\ Serving
    /\ ends.kills < MaxKills
    /\ daemon' = "down"
    /\ producer' = CutOff
    /\ sched' = [Ticking EXCEPT !.pc = "off"]
    /\ ends' = [ends EXCEPT !.kills = @ + 1]
    /\ UNCHANGED <<lim, inst, made, others, created, fires, closed, file>>

\* The run's firing was accepted from whoever made it.
Taken(r) == producer[r.by].reply = "taken" /\ r.trig \in producer[r.by].trigs

\* What the next daemon makes of a run: from watch.json and the records alone; one whose
\* firing was still in the channel or the scheduler's hands is lost.  A failed
\* run's record, or one being destroyed, may be there without counting in inst.
RestoredPlace(r, old, gone) ==
    IF r \in file.watched THEN IF r \in gone THEN "ended" ELSE "live"
    ELSE IF r \in file.queued THEN IF r \in old THEN "expired" ELSE "queued"
    ELSE IF r \in inst THEN "adopted"
    ELSE IF lim.at[r] = "live" THEN "ended"
    ELSE IF lim.at[r] \in Settled \cup {"discarded"} \/ (lim.at[r] = "none" /\ ~Taken(r)) THEN lim.at[r]
    ELSE "lost"

\* restore and restoreQueued; an instance without an entry is adopted, and holds no slot.
Restore(old, gone) ==
    LET at == [r \in Runs |-> RestoredPlace(r, old, gone)]
        ids == {lim.id[r] : r \in {q \in Runs : at[q] = "queued"}}
        adopted == {r \in inst : r \notin file.watched} IN
    /\ daemon = "down"
    /\ daemon' = "up"
    /\ lim' = [NewLimiter EXCEPT
                 !.at = at, !.id = lim.id,
                 !.seq = IF ids = {} THEN 0 ELSE Max(ids),
                 !.holds = [a \in Agents |-> {<<r, "watch">> : r \in {q \in Runs : at[q] = "live" /\ q.agent = a}}]]
    /\ inst' = inst \ adopted
    /\ others' = others + Cardinality({r \in adopted : ~OffCluster(r)})
    /\ fires' = <<>>
    /\ closed' = FALSE
    /\ sched' = Ticking
    /\ file' = Persisted(lim')
    /\ UNCHANGED <<made, created, producer, ends>>

-----------------------------------------------------------------------------
ProducerStep(b) == HandFires(b) \/ SendFires(b) \/ ShedFires(b) \/ DiscardPlans(b)

Refusals == SUBSET Refusable

SchedStep ==
    \/ \E refused \in Refusals :
         \/ ServiceQueue(0, refused)
         \/ TakeBatch(refused)
         \/ HoldFires(refused)
    \/ CreateInstance \/ Started \/ Requeue
    \/ EndTick \/ EndFiring \/ EndBatch \/ \E t \in Triggers : RunFiring(t)
    \/ StopScheduler \/ CloseFires \/ CollectFires

\* A look at the queues when the oldest n runs in them have expired.
Expiry == \E n \in 1..Cardinality(Runs), refused \in Refusals :
              /\ n <= Cardinality({r \in Runs : lim.at[r] = "queued"})
              /\ ServiceQueue(n, refused)

Environment ==
    \/ \E d \in Deliveries, trigs \in SUBSET Triggers \ {{}}, refused \in Refusals : ServeWebhook(d, trigs, refused)
    \/ \E p \in Probes, t \in Triggers : ProbeFires(p, t)
    \/ \E c \in Crons, t \in Triggers, refused \in Refusals : CronFires(c, t, refused)
    \/ \E t \in Triggers : IntervalEnds(t)
    \/ \E r \in Runs : Unwatch(r) \/ InstanceGone(r)
    \/ NotCreated \/ OtherCreate \/ OtherGone
    \/ BeginStop \/ Kill

Next ==
    \/ Environment \/ SchedStep \/ Wake \/ Expiry \/ Exit
    \/ \E b \in By : ProducerStep(b)
    \/ \E old \in SUBSET file.queued, gone \in SUBSET (file.watched \ inst) : Restore(old, gone)

Spec == Init /\ [][Next]_vars

\* The goroutines keep running, the ticker ticks, the channel is served before a
\* sender's patience lasts for ever, queued runs expire after automationQueueTTL, and a
\* stopped daemon is started again.
FairSpec ==
    /\ Spec
    /\ WF_vars(SchedStep) /\ WF_vars(Wake) /\ SF_vars(\E refused \in Refusals : TakeBatch(refused))
    /\ SF_vars(Expiry)
    /\ \A b \in By : WF_vars(ProducerStep(b))
    /\ WF_vars(Exit)
    /\ WF_vars(\E old \in SUBSET file.queued, gone \in SUBSET (file.watched \ inst) : Restore(old, gone))

-----------------------------------------------------------------------------
(* Properties.                                                             *)

Reservations == {r \in Runs : lim.at[r] \in {"reserved", "starting"}}

\* No slot leaks and none is given away twice: the slots the limiter has taken are
\* those of the runs reserved to start and of the watched runs, and its count of
\* creates is that of the reservations (reserveLocked, started, requeue, postpone,
\* discard), whichever way a run comes to its end.
SlotsExact ==
    Serving =>
    /\ \A a \in Agents : lim.holds[a] =
          {<<r, "start">> : r \in {q \in Reservations : q.agent = a}}
              \cup {<<r, "watch">> : r \in {q \in Watched(lim) : q.agent = a}}
    /\ lim.creating = Cardinality({r \in Reservations : ~OffCluster(r)})

\* automation_max_per_agent: "how many runs one agent may have there at once", those
\* about to start included.
SlotsWithinLimit == Serving => \A a \in OnCluster : Cardinality(lim.holds[a]) <= MaxPerAgent

\* "the quotas count every run exactly once or more, never none" (plan): the runs with
\* an instance and those promised one never outnumber the quota.
NeverOverbooked ==
    Serving => Cardinality({r \in Runs : ~OffCluster(r) /\ (r \in inst \/ r \in Reservations)}) <= Quota

\* "a 503 means nothing fired (its reservations given back) and the retry is clean"
\* (serveWebhook): nothing of a delivery answered 503 or 429 runs, waits or holds a slot.
RefusedLeavesNothing ==
    \A r \in Runs : producer[r.by].reply \in {"busy", "full"} /\ r.trig \in producer[r.by].trigs =>
        /\ lim.at[r] \in {"none", "discarded", "dropped"}
        /\ made[r] = 0

\* "their senders were told the firings were taken (a webhook's 200 or 202), so a stop
\* must not lose them" (holdFires): only a daemon killed outright loses a run it has taken.
AcceptedIsKept ==
    \A r \in Runs : producer[r.by].reply = "taken" /\ lim.at[r] = "lost" => ends.kills > 0

\* A queued run "starts in order as the limits allow" (automation_limits.go): none is
\* created while an earlier one of its trigger waits for the same agent.
InOrder ==
    [][\A r \in Runs : made'[r] > made[r] =>
          ~\E q \in Queue(lim, r.trig) : q.agent = r.agent /\ lim.id[q] < lim.id[r]]_vars

\* Every run of a firing that was taken comes to something: it starts, or is refused,
\* dropped, not created or expired, whether the daemon stops in between or not; only a
\* killed daemon loses it (holdFires, due, startRun).
AcceptedSettles ==
    \A r \in Runs : Taken(r) ~> lim.at[r] \in Settled \cup {"lost"}
=============================================================================
