---------------------------- MODULE WatchProofs ----------------------------
(***************************************************************************)
(* The hub loses no update and no wakeup, for any number of jobs, streams  *)
(* and any capacity of its inbox.                                          *)
(***************************************************************************)
EXTENDS Watch, TLAPS

\* A leaf goes to the SMT solver, with time for a busy machine, unless it names another
\* prover.
USE SMTT(60)

\* The first state satisfies the invariant.
LEMMA WatchInit == ASSUME Init PROVE SafeInv
<1>1. TypeOK
  BY WatchAssumption DEF Init, TypeOK, WriterType, PollerType, HubType, SubType, WatchType,
     Version, Pending
<1>2. NoUpdateLost /\ NoLostWakeup /\ InHandWhileSending /\ CalledFirst
  BY DEF Init, NoUpdateLost, NoLostWakeup, InHandWhileSending, CalledFirst
<1>3. QED
  BY <1>1, <1>2 DEF SafeInv

\* Posting keeps the inbox a bounded sequence of messages.
LEMMA PostType == ASSUME TypeOK, NEW m \in Message, Post(m)
                  PROVE  inbox' \in Seq(Message) /\ Len(inbox') <= InboxSize
  BY WatchAssumption DEF TypeOK, Post, Posted, Refused

\* What a turn enqueues keeps the buffers' type.
LEMMA EnqueueType ==
    ASSUME TypeOK, NEW subs \in SUBSET Watches, NEW v \in Version
    PROVE  /\ EnqueueState(subs, v) \in [Watches -> SubType]
           /\ EnqueueJobs(subs, v) \in [Watches -> SubType]
<1>1. ASSUME NEW w \in Watches PROVE /\ sub[w] \in SubType
                                     /\ [sub[w] EXCEPT !.state = v, !.notify = TRUE] \in SubType
                                     /\ [sub[w] EXCEPT !.jobs = v, !.notify = TRUE] \in SubType
  BY ZenonT(60) DEF TypeOK, SubType, Pending, Version
<1>2. QED
  BY ZenonT(60), <1>1 DEF EnqueueState, EnqueueJobs

\* Every step keeps the types.
LEMMA WatchTypeNext == ASSUME TypeOK, [Next]_vars PROVE TypeOK'
<1>1. ASSUME NEW p \in Writers, WriterUpdate(p) PROVE TypeOK'
  <2>1. writer' \in [Writers -> WriterType]
    BY <1>1 DEF WriterUpdate, TypeOK, WriterType
  <2>2. disk' \in Version
    BY <1>1 DEF WriterUpdate, TypeOK, Version
  <2>3. QED
    BY <1>1, <2>1, <2>2 DEF WriterUpdate, TypeOK
<1>2. ASSUME NEW p \in Writers, PushLoad(p) PROVE TypeOK'
  BY <1>2 DEF PushLoad, TypeOK, WriterType, Version
<1>3. ASSUME NEW p \in Writers, PushPost(p) PROVE TypeOK'
  <2>1. [op |-> "state", v |-> writer[p].v] \in Message
    BY DEF TypeOK, WriterType, Message
  <2>2. inbox' \in Seq(Message) /\ Len(inbox') <= InboxSize
    BY <1>3, <2>1, PostType DEF PushPost
  <2>3. writer' \in [Writers -> WriterType]
    BY <1>3 DEF PushPost, TypeOK, WriterType
  <2>4. QED
    BY <1>3, <2>2, <2>3 DEF PushPost, TypeOK
<1>4. ASSUME PollLoad PROVE TypeOK'
  BY <1>4 DEF PollLoad, TypeOK, PollerType
<1>5. ASSUME PollPost PROVE TypeOK'
  <2>1. [op |-> "poll", v |-> poller.v] \in Message
    BY DEF TypeOK, PollerType, Message
  <2>2. inbox' \in Seq(Message) /\ Len(inbox') <= InboxSize
    BY <1>5, <2>1, PostType DEF PollPost
  <2>3. poller' \in PollerType
    BY <1>5 DEF PollPost, TypeOK, PollerType
  <2>4. QED
    BY <1>5, <2>2, <2>3 DEF PollPost, TypeOK
<1>6. ASSUME NEW p \in Changers, JobsChange(p) PROVE TypeOK'
  BY <1>6 DEF JobsChange, TypeOK, Version
<1>7. ASSUME NEW p \in Changers, OnChange(p) PROVE TypeOK'
  <2>1. [op |-> "jobs"] \in Message
    BY DEF Message
  <2>2. inbox' \in Seq(Message) /\ Len(inbox') <= InboxSize
    BY <1>7, <2>1, PostType DEF OnChange
  <2>3. QED
    BY <1>7, <2>2 DEF OnChange, TypeOK
<1>8. ASSUME HubTurn PROVE TypeOK'
  <2> DEFINE m == Head(inbox)
  <2>1. m \in Message /\ inbox' \in Seq(Message) /\ Len(inbox') <= InboxSize
    BY <1>8, WatchAssumption DEF HubTurn, TypeOK
  <2>2. hub' \in HubType /\ sub' \in [Watches -> SubType] /\ watch' \in [Watches -> WatchType]
    <3> HIDE DEF m
    <3>1. CASE TurnState(m)
      <4>1. m.v \in Version
        BY <2>1, <3>1 DEF TurnState, Message
      <4>2. hub' \in HubType
        BY ZenonT(60), <3>1, <4>1 DEF TurnState, TypeOK, HubType, Pending, Version
      <4>3. hub.subs \in SUBSET Watches
        BY DEF TypeOK, HubType
      <4>4. QED
        BY ZenonT(60), <3>1, <4>1, <4>2, <4>3, EnqueueType DEF TurnState, TypeOK
    <3>2. CASE TurnJobs(m)
      <4>1. hub' \in HubType
        BY ZenonT(60), <3>2 DEF TurnJobs, TypeOK, HubType
      <4>2. hub.subs \in SUBSET Watches
        BY DEF TypeOK, HubType
      <4>3. QED
        BY ZenonT(60), <3>2, <4>1, <4>2, EnqueueType DEF TurnJobs, TypeOK
    <3>3. CASE TurnAdd(m)
      <4>1. m.w \in Watches
        BY <2>1, <3>3 DEF TurnAdd, Message
      <4>2. hub' \in HubType
        BY ZenonT(60), <3>3, <4>1 DEF TurnAdd, WithSubs, TypeOK, HubType
      <4>3. [state |-> hub.st, jobs |-> hub.jobs, notify |-> TRUE] \in SubType
        BY DEF TypeOK, HubType, SubType, Pending, Version
      <4>4. QED
        BY ZenonT(60), <3>3, <4>1, <4>2, <4>3 DEF TurnAdd, TypeOK, WatchType
    <3>4. CASE TurnRemove(m)
      BY ZenonT(60), <3>4 DEF TurnRemove, WithSubs, TypeOK, HubType
    <3>5. QED
      BY <1>8, <3>1, <3>2, <3>3, <3>4 DEF HubTurn, m
  <2>3. QED
    BY <1>8, <2>1, <2>2 DEF HubTurn, TypeOK
<1>9. ASSUME CancelHub \/ HubStop PROVE TypeOK'
  <2>1. hub' \in HubType
    BY ZenonT(60), <1>9 DEF CancelHub, HubStop, TypeOK, HubType
  <2>2. QED
    BY <1>9, <2>1 DEF CancelHub, HubStop, TypeOK
<1>10. ASSUME NEW w \in Watches, WatchCall(w) PROVE TypeOK'
  <2>1. [op |-> "add", w |-> w] \in Message
    BY DEF Message
  <2>2. inbox' \in Seq(Message) /\ Len(inbox') <= InboxSize
    BY <1>10, <2>1, PostType DEF WatchCall, Post
  <2>3. watch' \in [Watches -> WatchType]
    <3>1. CASE watch' = [watch EXCEPT ![w].pc = "registering"]
      BY <3>1 DEF TypeOK, WatchType
    <3>2. CASE watch' = [watch EXCEPT ![w].pc = "closed"]
      BY <3>2 DEF TypeOK, WatchType
    <3>3. QED
      BY <1>10, <3>1, <3>2 DEF WatchCall
  <2>4. QED
    BY <1>10, <2>2, <2>3 DEF WatchCall, TypeOK
<1>11. ASSUME NEW w \in Watches, Disconnect(w) \/ EndStream(w) PROVE TypeOK'
  BY <1>11 DEF Disconnect, EndStream, TypeOK
<1>12. ASSUME NEW w \in Watches, WatchRegistered(w) \/ WatchEnd(w) PROVE TypeOK'
  <2>1. watch' \in [Watches -> WatchType]
    <3>1. PICK pc \in {"open", "closed", "leaving"} : watch' = [watch EXCEPT ![w].pc = pc]
      BY <1>12 DEF WatchRegistered, WatchEnd
    <3>2. QED
      BY <3>1 DEF TypeOK, WatchType
  <2>2. QED
    BY <1>12, <2>1 DEF WatchRegistered, WatchEnd, TypeOK
<1>13. ASSUME NEW w \in Watches, Drain(w) PROVE TypeOK'
  <2>1. sub[w].state \in Pending
    BY DEF TypeOK, SubType
  <2>2. watch' \in [Watches -> WatchType]
    BY ZenonT(60), <1>13, <2>1 DEF Drain, TypeOK, WatchType
  <2>3. sub' \in [Watches -> SubType]
    BY ZenonT(60), <1>13 DEF Drain, TypeOK, SubType, Pending
  <2>4. QED
    BY <1>13, <2>2, <2>3 DEF Drain, TypeOK
<1>14. ASSUME NEW w \in Watches, Send(w) PROVE TypeOK'
  <2>1. CASE w \in gone
    <3>1. watch' = [watch EXCEPT ![w].pc = "leaving"] /\ sub' = sub
      BY <1>14, <2>1 DEF Send
    <3>2. watch' \in [Watches -> WatchType]
      BY <3>1 DEF TypeOK, WatchType
    <3>3. QED
      BY <1>14, <3>1, <3>2 DEF Send, TypeOK
  <2>2. CASE w \notin gone
    <3> DEFINE st == Seen(watch[w].state, watch[w].drained)
               jb == Seen(watch[w].jobs, sub[w].jobs)
    <3>1. st \in Pending /\ jb \in Pending
      BY DEF Seen, TypeOK, WatchType, SubType
    <3>2. watch' = [watch EXCEPT ![w].pc = "open", ![w].drained = Nothing, ![w].state = st, ![w].jobs = jb]
      BY <1>14, <2>2 DEF Send
    <3>3. Nothing \in Pending
      BY DEF Pending
    <3> HIDE DEF st, jb
    <3>4. watch' \in [Watches -> WatchType]
      <4>1. watch[w] \in WatchType
        BY DEF TypeOK
      <4>2. [watch[w] EXCEPT !.pc = "open", !.drained = Nothing, !.state = st, !.jobs = jb] \in WatchType
        BY ZenonT(60), <3>1, <3>3, <4>1 DEF WatchType
      <4>3. watch' = [watch EXCEPT ![w] = [watch[w] EXCEPT !.pc = "open", !.drained = Nothing,
                                                           !.state = st, !.jobs = jb]]
        BY ZenonT(60), <3>2, <4>1 DEF TypeOK, WatchType
      <4>4. QED
        BY <4>2, <4>3 DEF TypeOK
    <3>5. sub' \in [Watches -> SubType]
      BY <1>14, <2>2, <3>3 DEF Send, TypeOK, SubType
    <3>6. QED
      BY <1>14, <2>2, <3>4, <3>5 DEF Send, TypeOK
  <2>3. QED
    BY <2>1, <2>2
<1>15. ASSUME NEW w \in Watches, WatchLeave(w) PROVE TypeOK'
  <2>1. [op |-> "remove", w |-> w] \in Message
    BY DEF Message
  <2>2. inbox' \in Seq(Message) /\ Len(inbox') <= InboxSize
    BY <1>15, <2>1, PostType DEF WatchLeave
  <2>3. watch' \in [Watches -> WatchType]
    BY <1>15 DEF WatchLeave, TypeOK, WatchType
  <2>4. QED
    BY <1>15, <2>2, <2>3 DEF WatchLeave, TypeOK
<1>16. ASSUME UNCHANGED vars PROVE TypeOK'
  BY <1>16 DEF vars, TypeOK
<1>17. QED
  BY <1>1, <1>2, <1>3, <1>4, <1>5, <1>6, <1>7, <1>8, <1>9, <1>10, <1>11, <1>12, <1>13, <1>14,
     <1>15, <1>16 DEF Next, WriterStep, PollStep, WatchStep

-----------------------------------------------------------------------------
\* Every step keeps what the subscribers are owed: one step per action that touches the
\* hub, a buffer or a handler; the others leave all of it alone.
LEMMA OwedNext == ASSUME SafeInv, [Next]_vars PROVE (NoUpdateLost /\ NoLostWakeup /\ InHandWhileSending)'
<1> DEFINE Inv == NoUpdateLost /\ NoLostWakeup /\ InHandWhileSending
<1> USE DEF NoUpdateLost, NoLostWakeup, InHandWhileSending
<1>0. TypeOK /\ Inv
  BY DEF SafeInv
<1>1. CASE UNCHANGED <<hub, sub, watch>>
  BY <1>0, <1>1
<1>2. ASSUME HubTurn PROVE Inv'
  <2> DEFINE m == Head(inbox)
  <2>1. m \in Message
    BY <1>0, <1>2 DEF HubTurn, TypeOK
  <2> HIDE DEF m
  <2>2. CASE TurnState(m)
    <3>1. m.v \in Nat /\ m.v # Nothing
      BY <2>1, <2>2, WatchAssumption DEF TurnState, Message, Version
    <3>2. hub'.subs = hub.subs /\ hub'.st = m.v /\ hub'.jobs = hub.jobs /\ watch' = watch
      BY <1>0, <2>2 DEF TurnState, TypeOK, HubType
    <3>3. CASE hub.st = m.v
      BY <1>0, <2>2, <3>2, <3>3 DEF TurnState
    <3>4. CASE hub.st # m.v
      <4>1. \A w \in Watches : IF w \in hub.subs
                               THEN /\ sub'[w].state = m.v /\ sub'[w].notify
                                    /\ sub'[w].jobs = sub[w].jobs
                               ELSE sub'[w] = sub[w]
        BY ZenonT(60), <1>0, <2>2, <3>4 DEF TurnState, EnqueueState, TypeOK, SubType
      <4>2. QED
        BY <1>0, <3>1, <3>2, <4>1 DEF Latest, TypeOK, HubType
    <3>5. QED
      BY <3>3, <3>4
  <2>3. CASE TurnJobs(m)
    <3>1. jobs \in Nat /\ jobs # Nothing
      BY <1>0, WatchAssumption DEF TypeOK, Version
    <3>2. hub'.subs = hub.subs /\ hub'.st = hub.st /\ hub'.jobs = jobs /\ watch' = watch
      BY <1>0, <2>3 DEF TurnJobs, TypeOK, HubType
    <3>3. CASE hub.jobs = jobs
      BY <1>0, <2>3, <3>2, <3>3 DEF TurnJobs
    <3>4. CASE hub.jobs # jobs
      <4>1. \A w \in Watches : IF w \in hub.subs
                               THEN /\ sub'[w].jobs = jobs /\ sub'[w].notify
                                    /\ sub'[w].state = sub[w].state
                               ELSE sub'[w] = sub[w]
        BY ZenonT(60), <1>0, <2>3, <3>4 DEF TurnJobs, EnqueueJobs, TypeOK, SubType
      <4>2. QED
        BY <1>0, <3>1, <3>2, <4>1 DEF Latest, TypeOK, HubType
    <3>5. QED
      BY <3>3, <3>4
  <2>4. CASE TurnAdd(m)
    <3>1. m.w \in Watches
      BY <2>1, <2>4 DEF TurnAdd, Message
    <3>2. hub'.subs = hub.subs \cup {m.w} /\ hub'.st = hub.st /\ hub'.jobs = hub.jobs
      BY <1>0, <2>4 DEF TurnAdd, WithSubs, TypeOK, HubType
    <3>3. /\ sub'[m.w].state = hub.st /\ sub'[m.w].jobs = hub.jobs /\ sub'[m.w].notify
          /\ \A w \in Watches : w # m.w => sub'[w] = sub[w]
      BY <1>0, <2>4, <3>1 DEF TurnAdd, TypeOK
    <3>4. \A w \in Watches : /\ watch'[w].pc = watch[w].pc /\ watch'[w].drained = watch[w].drained
                             /\ watch'[w].state = watch[w].state /\ watch'[w].jobs = watch[w].jobs
      BY <1>0, <2>4, <3>1 DEF TurnAdd, TypeOK, WatchType
    <3>5. hub.st # Nothing /\ hub.jobs # Nothing
      BY <1>0, WatchAssumption DEF TypeOK, HubType, Version
    <3>6. QED
      BY <1>0, <3>1, <3>2, <3>3, <3>4, <3>5 DEF Latest, TypeOK, HubType
  <2>5. CASE TurnRemove(m)
    <3>1. hub'.subs \subseteq hub.subs /\ hub'.st = hub.st /\ hub'.jobs = hub.jobs
      BY <1>0, <2>5 DEF TurnRemove, WithSubs, TypeOK, HubType
    <3>2. QED
      BY ZenonT(60), <1>0, <2>5, <3>1 DEF TurnRemove
  <2>6. QED
    BY <1>2, <2>2, <2>3, <2>4, <2>5 DEF HubTurn, m
<1>3. ASSUME CancelHub \/ HubStop PROVE Inv'
  <2>1. hub'.subs = hub.subs /\ hub'.st = hub.st /\ hub'.jobs = hub.jobs
    BY <1>0, <1>3 DEF CancelHub, HubStop, TypeOK, HubType
  <2>2. QED
    BY <1>0, <1>3, <2>1 DEF CancelHub, HubStop
<1>4. ASSUME NEW w \in Watches, WatchCall(w) PROVE Inv'
  <2>1. watch[w].pc = "off" /\ w \notin hub.subs
    BY <1>4 DEF WatchCall, SafeInv, CalledFirst
  <2>2. PICK pc \in {"registering", "closed"} : watch' = [watch EXCEPT ![w].pc = pc]
    BY <1>4 DEF WatchCall
  <2>3. \A u \in Watches : /\ u # w => watch'[u] = watch[u]
                           /\ watch'[u].drained = watch[u].drained
                           /\ watch'[u].state = watch[u].state
                           /\ watch'[u].jobs = watch[u].jobs
    BY <1>0, <2>2 DEF TypeOK, WatchType
  <2>4. hub' = hub /\ sub' = sub
    BY <1>4 DEF WatchCall
  <2>5. QED
    BY <1>0, <2>1, <2>3, <2>4 DEF TypeOK, HubType
<1>5. ASSUME NEW w \in Watches, WatchRegistered(w) \/ WatchEnd(w) \/ WatchLeave(w) PROVE Inv'
  <2>1. PICK pc \in {"open", "closed", "leaving"} :
          /\ watch' = [watch EXCEPT ![w].pc = pc]
          /\ pc = "open" => watch[w].pc = "registering"
    BY <1>5 DEF WatchRegistered, WatchEnd, WatchLeave
  <2>2. \A u \in Watches : /\ u # w => watch'[u] = watch[u]
                           /\ watch'[u].drained = watch[u].drained
                           /\ watch'[u].state = watch[u].state
                           /\ watch'[u].jobs = watch[u].jobs
    BY <1>0, <2>1 DEF TypeOK, WatchType
  <2>3. watch'[w].pc = pc /\ watch[w].pc \in {"registering", "open", "leaving"}
    BY <1>0, <1>5, <2>1 DEF TypeOK, WatchType, WatchRegistered, WatchEnd, WatchLeave
  <2>4. hub' = hub /\ sub' = sub
    BY <1>5 DEF WatchRegistered, WatchEnd, WatchLeave
  <2>5. \A u \in Watches : sub[u].jobs # Nothing /\ ~sub[u].notify => watch'[u].pc \in {"sending", "leaving", "closed"}
    BY <1>0, <1>5, <2>1, <2>2, <2>3 DEF WatchRegistered, WatchEnd, WatchLeave
  <2>6. QED
    BY <1>0, <2>1, <2>2, <2>3, <2>4, <2>5 DEF TypeOK, HubType
<1>6. ASSUME NEW w \in Watches, Drain(w) PROVE Inv'
  <2>1. /\ watch'[w].pc = "sending" /\ watch'[w].drained = sub[w].state
        /\ watch'[w].state = watch[w].state /\ watch'[w].jobs = watch[w].jobs
        /\ \A u \in Watches : u # w => watch'[u] = watch[u]
    BY <1>0, <1>6 DEF Drain, TypeOK, WatchType
  <2>2. /\ sub'[w].state = Nothing /\ sub'[w].jobs = sub[w].jobs
        /\ \A u \in Watches : u # w => sub'[u] = sub[u]
    BY <1>0, <1>6 DEF Drain, TypeOK, SubType
  <2>3. watch[w].pc = "open" /\ hub' = hub
    BY <1>6 DEF Drain
  <2>4. QED
    BY <1>0, <2>1, <2>2, <2>3 DEF Latest, TypeOK, HubType
<1>7. ASSUME NEW w \in Watches, Send(w) PROVE Inv'
  <2>1. CASE w \in gone
    <3>1. /\ watch'[w].pc = "leaving" /\ hub' = hub /\ sub' = sub
          /\ \A u \in Watches : u # w => watch'[u] = watch[u]
      BY <1>0, <1>7, <2>1 DEF Send, TypeOK, WatchType
    <3>2. QED
      BY <1>0, <3>1 DEF TypeOK, HubType
  <2>2. CASE w \notin gone
    <3>1. /\ watch'[w].pc = "open" /\ watch'[w].drained = Nothing
          /\ watch'[w].state = Seen(watch[w].state, watch[w].drained)
          /\ watch'[w].jobs = Seen(watch[w].jobs, sub[w].jobs)
          /\ \A u \in Watches : u # w => watch'[u] = watch[u]
      BY <1>0, <1>7, <2>2 DEF Send, TypeOK, WatchType
    <3>2. /\ sub'[w].jobs = Nothing /\ sub'[w].state = sub[w].state /\ sub'[w].notify = sub[w].notify
          /\ \A u \in Watches : u # w => sub'[u] = sub[u]
      BY <1>0, <1>7, <2>2 DEF Send, TypeOK, SubType
    <3>3. watch[w].pc = "sending" /\ hub' = hub
      BY <1>7 DEF Send
    <3>4. QED
      BY <1>0, <3>1, <3>2, <3>3 DEF Latest, Seen, TypeOK, HubType
  <2>3. QED
    BY <2>1, <2>2
<1>8. QED
  BY ZenonT(60), <1>1, <1>2, <1>3, <1>4, <1>5, <1>6, <1>7 DEF Next, WriterUpdate, WriterStep, PushLoad, PushPost,
     JobsChange, OnChange, PollStep, PollLoad, PollPost, Disconnect, EndStream, WatchStep, vars

\* A Watch is called before it is registered, whatever is in the inbox meanwhile.
LEMMA CalledNext == ASSUME SafeInv, [Next]_vars PROVE CalledFirst'
<1>0. TypeOK /\ CalledFirst
  BY DEF SafeInv
<1>1. \A w \in Watches : watch[w].pc # "off" => watch'[w].pc # "off"
  <2>1. ASSUME NEW w \in Watches, WatchCall(w) \/ WatchStep(w) PROVE watch'[w].pc # "off"
    BY <1>0, <2>1 DEF WatchCall, WatchStep, WatchRegistered, Drain, Send, WatchEnd, WatchLeave, TypeOK, WatchType
  <2>2. ASSUME NEW w \in Watches, NEW u \in Watches, WatchCall(w) \/ WatchStep(w), u # w PROVE watch'[u] = watch[u]
    BY <1>0, <2>2 DEF WatchCall, WatchStep, WatchRegistered, Drain, Send, WatchEnd, WatchLeave, TypeOK, WatchType
  <2>3. ASSUME HubTurn PROVE \A w \in Watches : watch'[w].pc = watch[w].pc
    <3>1. watch' = watch \/ watch' = [watch EXCEPT ![Head(inbox).w].registered = TRUE]
      BY <2>3 DEF HubTurn, TurnState, TurnJobs, TurnAdd, TurnRemove
    <3>2. QED
      BY <1>0, <3>1 DEF TypeOK, WatchType
  <2>4. QED
    BY ZenonT(60), <2>1, <2>2, <2>3 DEF Next, WriterUpdate, WriterStep, PushLoad, PushPost, JobsChange, OnChange,
       PollStep, PollLoad, PollPost, CancelHub, HubStop, Disconnect, EndStream, vars
<1>2. ASSUME NEW m \in Message, Post(m), hub'.subs = hub.subs, m.op = "add" => watch'[m.w].pc # "off"
      PROVE  CalledFirst'
  <2>1. \A k \in 1..Len(inbox') : inbox'[k] = m \/ (k \in 1..Len(inbox) /\ inbox'[k] = inbox[k])
    BY <1>0, <1>2 DEF Post, Posted, Refused, TypeOK
  <2>2. \A k \in 1..Len(inbox) : inbox[k] \in Message
    BY <1>0 DEF TypeOK
  <2>3. \A k \in 1..Len(inbox) : inbox[k].op = "add" => inbox[k].w \in Watches
    BY <2>2 DEF Message
  <2>4. QED
    BY <1>0, <1>1, <1>2, <2>1, <2>3 DEF CalledFirst, TypeOK, HubType
<1>3. ASSUME inbox' = inbox, hub'.subs = hub.subs PROVE CalledFirst'
  <2>1. \A k \in 1..Len(inbox) : inbox[k] \in Message
    BY <1>0 DEF TypeOK
  <2>2. \A k \in 1..Len(inbox) : inbox[k].op = "add" => inbox[k].w \in Watches
    BY <2>1 DEF Message
  <2>3. QED
    BY <1>0, <1>1, <1>3, <2>2 DEF CalledFirst, TypeOK, HubType
<1>4. ASSUME HubTurn PROVE CalledFirst'
  <2> DEFINE m == Head(inbox)
  <2>1. /\ inbox # <<>> /\ inbox' = Tail(inbox) /\ m = inbox[1] /\ 1 \in 1..Len(inbox)
        /\ \A k \in 1..Len(inbox) : inbox[k] \in Message
    BY <1>0, <1>4 DEF HubTurn, TypeOK
  <2>2. \A k \in 1..Len(inbox') : k + 1 \in 1..Len(inbox) /\ inbox'[k] = inbox[k + 1]
    BY <1>0, <2>1 DEF TypeOK
  <2>3. \A k \in 1..Len(inbox) : inbox[k].op = "add" => inbox[k].w \in Watches
    BY <2>1 DEF Message
  <2>4. \A k \in 1..Len(inbox') : inbox'[k].op = "add" => watch'[inbox'[k].w].pc # "off"
    BY <1>0, <1>1, <2>2, <2>3 DEF CalledFirst
  <2>5. \A w \in hub'.subs : w \in hub.subs \/ (m.op = "add" /\ w = m.w)
    <3> HIDE DEF m
    <3>1. CASE TurnState(m) \/ TurnJobs(m)
      <4>1. hub'.subs = hub.subs
        BY ZenonT(60), <1>0, <3>1 DEF TurnState, TurnJobs, TypeOK, HubType
      <4>2. QED
        BY <4>1
    <3>2. CASE TurnAdd(m)
      <4>1. hub'.subs = hub.subs \cup {m.w} /\ m.op = "add"
        BY <1>0, <3>2 DEF TurnAdd, WithSubs, TypeOK, HubType
      <4>2. QED
        BY <4>1
    <3>3. CASE TurnRemove(m)
      <4>1. hub'.subs = hub.subs \ {m.w}
        BY <1>0, <3>3 DEF TurnRemove, WithSubs, TypeOK, HubType
      <4>2. QED
        BY <4>1
    <3>4. QED
      BY <1>4, <3>1, <3>2, <3>3 DEF HubTurn, m
  <2>6. \A w \in hub'.subs : w \in Watches /\ watch[w].pc # "off"
    BY <1>0, <2>1, <2>3, <2>5 DEF CalledFirst, TypeOK, HubType
  <2>7. QED
    BY <1>1, <2>4, <2>6 DEF CalledFirst
<1>5. ASSUME NEW p \in Writers, PushPost(p) PROVE CalledFirst'
  <2>1. [op |-> "state", v |-> writer[p].v] \in Message
    BY <1>0 DEF TypeOK, WriterType, Message
  <2>2. QED
    BY <1>2, <1>5, <2>1 DEF PushPost
<1>6. ASSUME PollPost PROVE CalledFirst'
  <2>1. [op |-> "poll", v |-> poller.v] \in Message
    BY <1>0 DEF TypeOK, PollerType, Message
  <2>2. QED
    BY <1>2, <1>6, <2>1 DEF PollPost
<1>7. ASSUME NEW p \in Changers, OnChange(p) PROVE CalledFirst'
  <2>1. [op |-> "jobs"] \in Message
    BY DEF Message
  <2>2. QED
    BY <1>2, <1>7, <2>1 DEF OnChange
<1>8. ASSUME NEW w \in Watches, WatchCall(w) PROVE CalledFirst'
  <2>1. [op |-> "add", w |-> w] \in Message
    BY DEF Message
  <2>2. Post([op |-> "add", w |-> w]) /\ watch'[w].pc # "off" /\ hub' = hub
    BY <1>0, <1>8 DEF WatchCall, Post, TypeOK, WatchType
  <2>3. QED
    BY <1>2, <2>1, <2>2
<1>9. ASSUME NEW w \in Watches, WatchLeave(w) PROVE CalledFirst'
  <2>1. [op |-> "remove", w |-> w] \in Message
    BY DEF Message
  <2>2. QED
    BY <1>2, <1>9, <2>1 DEF WatchLeave
<1>10. ASSUME CancelHub \/ HubStop PROVE CalledFirst'
  BY <1>0, <1>3, <1>10 DEF CancelHub, HubStop, TypeOK, HubType
<1>11. QED
  BY ZenonT(60), <1>3, <1>4, <1>5, <1>6, <1>7, <1>8, <1>9, <1>10 DEF Next, WriterUpdate, WriterStep, PushLoad,
     JobsChange, PollStep, PollLoad, Disconnect, EndStream, WatchStep, WatchRegistered, Drain, Send,
     WatchEnd, vars

\* SafeInv holds throughout.
LEMMA WatchAlways == Spec => []SafeInv
<1>1. Init => SafeInv
  BY WatchInit
<1>2. SafeInv /\ [Next]_vars => SafeInv'
  <2> SUFFICES ASSUME SafeInv, [Next]_vars PROVE SafeInv'
    OBVIOUS
  <2>1. TypeOK'
    BY WatchTypeNext DEF SafeInv
  <2>2. QED
    BY <2>1, OwedNext, CalledNext DEF SafeInv
<1>3. QED
  BY <1>1, <1>2, PTL DEF Spec

\* The variables keep their types, and hub.in its capacity.
THEOREM WatchTypeCorrect == Spec => []TypeOK
<1>1. SafeInv => TypeOK
  BY DEF SafeInv
<1>2. QED
  BY <1>1, WatchAlways, PTL

\* Whatever the hub last took in is pending, in the pump's hands or seen, for every
\* subscriber whose handler is still there: conflation loses nothing (hub.go, watch.go).
THEOREM EveryUpdateReaches == Spec => []NoUpdateLost
<1>1. SafeInv => NoUpdateLost
  BY DEF SafeInv
<1>2. QED
  BY <1>1, WatchAlways, PTL

\* Nothing stays pending without its signal: subscriber.signal and the pump agree.
THEOREM EveryWakeupCounts == Spec => []NoLostWakeup
<1>1. SafeInv => NoLostWakeup
  BY DEF SafeInv
<1>2. QED
  BY <1>1, WatchAlways, PTL
=============================================================================
