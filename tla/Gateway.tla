------------------------------ MODULE Gateway ------------------------------
(***************************************************************************)
(* The gateway's sessions (internal/gateway: registry.go, session.go,      *)
(* register.go) and a daemon that registers with it (server/remote).       *)
(*                                                                         *)
(* Every connection has a handler goroutine at the gateway that may lag    *)
(* behind the daemon's end: the daemon gives up, dials again and changes   *)
(* its features while older handlers still run.  The reaper and a restart  *)
(* of the gateway come in between.  A session's secret, public id and      *)
(* registry id are minted together, and one number stands for the three.   *)
(***************************************************************************)
EXTENDS Naturals, Sequences, FiniteSets

CONSTANTS
    MaxConns,     \* bound: connections the daemon opens
    MaxObjects,   \* bound: session objects the gateway makes
    MaxSessions,  \* Config.MaxSessions: the cap of bySecret
    MaxHandlers,  \* the slots of pendingSem
    MaxRestarts   \* bound: restarts of the gateway

ASSUME GatewayAssumption ==
    /\ MaxConns \in Nat /\ MaxObjects \in Nat /\ MaxRestarts \in Nat
    /\ MaxSessions \in Nat /\ MaxHandlers \in Nat

VARIABLES
    conn,      \* per connection: its handler, its request and its two ends
    session,   \* the session objects, in the order they were made
    bySecret,  \* registry.bySecret: the object of each id, or None
    routes,    \* registry.byPublic and byRegistry, which change together
    evicted,   \* reaped sessions whose registry connection is still to be closed
    has,       \* the daemon's session file: the id it holds, or None
    restarts   \* restarts so far

vars == <<conn, session, bySecret, routes, evicted, has, restarts>>

Conns == 1..MaxConns
Objects == 1..MaxObjects
None == 0

\* A conn's yamux session is made with the handshake's last step; tun says how far it is.
ConnType ==
    [pc : {"unused", "sent", "claimed", "dropping", "stored", "made", "binding", "target",
           "installed", "flagged", "serving", "done"},
     kind : {"main", "attach"},
     id : Objects \cup {None},        \* the session the request names
     registry : BOOLEAN,              \* it asks for the registry feature
     s : Objects \cup {None},         \* the session it was given
     isNew : BOOLEAN,                 \* which this handler made
     up : BOOLEAN,                    \* the daemon still has its end
     tun : {"none", "open", "closed"}]

SessionType ==
    [id : Objects,
     ym : Conns \cup {None},                    \* the main tunnel
     closedAt : {"zero", "stamped", "past"},    \* past: sessionTTL ago
     registry : BOOLEAN,                        \* the negotiated feature
     registryYm : Conns \cup {None}]            \* the registry connection

\* Every variable has its type.
TypeOK ==
    /\ conn \in [Conns -> ConnType]
    /\ session \in Seq(SessionType) /\ Len(session) <= MaxObjects
    /\ bySecret \in [Objects -> Objects \cup {None}]
    /\ routes \in [Objects -> Objects \cup {None}]
    /\ evicted \in SUBSET Objects
    /\ has \in Objects \cup {None}
    /\ restarts \in 0..MaxRestarts

Unused == [pc |-> "unused", kind |-> "main", id |-> None, registry |-> FALSE, s |-> None,
           isNew |-> FALSE, up |-> FALSE, tun |-> "none"]

Nothing == [i \in Objects |-> None]

Init ==
    /\ conn = [c \in Conns |-> Unused]
    /\ session = <<>>
    /\ bySecret = Nothing
    /\ routes = Nothing
    /\ evicted = {}
    /\ has = None
    /\ restarts = 0

\* What happens to a connection when its handler returns: the stream ends with it.
Ended == [Unused EXCEPT !.pc = "done", !.tun = "closed"]

\* Conns of cs are closed at the gateway.
Closing(f, cs) == [c \in Conns |-> IF c \in cs THEN [f[c] EXCEPT !.tun = "closed", !.up = FALSE] ELSE f[c]]

IsOpen(c) == c # None /\ conn[c].tun = "open"

-----------------------------------------------------------------------------
(* The daemon.                                                             *)

FirstUnused(c) == conn[c].pc = "unused" /\ \A b \in 1..(c - 1) : conn[b].pc # "unused"
MainUp == {c \in Conns : conn[c].kind = "main" /\ conn[c].up}

\* A stream reaches handleRegister, which sheds it when all slots are taken.
Arrive(c, k) ==
    conn' = [conn EXCEPT ![c] =
               IF Cardinality({b \in Conns : conn[b].pc \notin {"unused", "done"}}) < MaxHandlers
               THEN k ELSE Ended]

\* connectAndServe: one main tunnel at a time, with the session file's id.
Dial(c, registry) ==
    /\ FirstUnused(c) /\ MainUp = {}
    /\ Arrive(c, [Unused EXCEPT !.pc = "sent", !.id = has, !.registry = registry, !.up = TRUE])
    /\ UNCHANGED <<session, bySecret, routes, evicted, has, restarts>>

\* attachRegistry: while a tunnel with the feature is registered.
DialRegistry(c) ==
    /\ FirstUnused(c)
    /\ \E m \in MainUp : conn[m].registry /\ conn[m].pc \in {"made", "binding", "serving"}
    /\ Arrive(c, [Unused EXCEPT !.pc = "sent", !.kind = "attach", !.id = has, !.up = TRUE])
    /\ UNCHANGED <<session, bySecret, routes, evicted, has, restarts>>

\* The daemon's end goes: a timeout, a drop, a reconfiguration, a crash.  Its registry
\* connection goes with the main one.
GiveUp(c) ==
    /\ conn[c].up
    /\ conn' = [b \in Conns |-> IF b = c \/ conn[c].kind = "main" THEN [conn[b] EXCEPT !.up = FALSE] ELSE conn[b]]
    /\ UNCHANGED <<session, bySecret, routes, evicted, has, restarts>>

-----------------------------------------------------------------------------
(* A registration's handler (bindTunnel).                                  *)

\* The session a request's secret, or its token, names.
Known(id) == IF id = None THEN None ELSE bySecret[id]

Reserved == {i \in Objects : bySecret[i] # None}

Given(c, s, isNew) == conn' = [conn EXCEPT ![c].pc = "claimed", ![c].id = None, ![c].s = s, ![c].isNew = isNew]

NewSession(id) ==
    [id |-> id, ym |-> None, closedAt |-> "zero", registry |-> FALSE, registryYm |-> None]

\* Mutant of Claim: an unknown session is never resurrected.
ClaimAfresh(c) ==
    LET id == conn[c].id
        fresh == Len(session) + 1
    IN
    /\ conn[c].pc = "sent" /\ conn[c].kind = "main"
    /\ \/ /\ Known(id) # None
          /\ Given(c, Known(id), FALSE)
          /\ UNCHANGED <<session, bySecret>>
       \/ /\ Known(id) = None /\ Cardinality(Reserved) < MaxSessions /\ fresh \in Objects
          /\ session' = Append(session, NewSession(fresh))
          /\ bySecret' = [bySecret EXCEPT ![fresh] = fresh]
          /\ Given(c, fresh, TRUE)
    /\ UNCHANGED <<routes, evicted, has, restarts>>

\* claim, under the registry's lock: the session of the secret or of the token, a
\* resurrected one under the token's ids, or a fresh one; refused at the cap.
Claim(c) ==
    LET id == conn[c].id
        fresh == Len(session) + 1
        asFresh == IF id # None /\ routes[id] = None THEN id ELSE fresh
    IN
    /\ conn[c].pc = "sent" /\ conn[c].kind = "main"
    /\ \/ /\ Known(id) # None
          /\ Given(c, Known(id), FALSE)
          /\ UNCHANGED <<session, bySecret>>
       \/ /\ Known(id) = None
          /\ IF Cardinality(Reserved) >= MaxSessions
             THEN conn' = [conn EXCEPT ![c] = Ended] /\ UNCHANGED <<session, bySecret>>
             ELSE /\ fresh \in Objects
                  /\ session' = Append(session, NewSession(asFresh))
                  /\ bySecret' = [bySecret EXCEPT ![asFresh] = fresh]
                  /\ Given(c, fresh, TRUE)
    /\ UNCHANGED <<routes, evicted, has, restarts>>

\* The negotiated features are stored on the session.
Negotiate(c) ==
    /\ conn[c].pc = "claimed"
    /\ session' = [session EXCEPT ![conn[c].s].registry = conn[c].registry]
    /\ conn' = [conn EXCEPT ![c].pc = IF conn[c].registry THEN "stored" ELSE "dropping"]
    /\ UNCHANGED <<bySecret, routes, evicted, has, restarts>>

\* closeRegistry.
CloseRegistry(s) == session' = [session EXCEPT ![s].registryYm = None]

Drop(c) ==
    LET s == conn[c].s IN
    /\ conn[c].pc = "dropping"
    /\ CloseRegistry(s)
    /\ conn' = [Closing(conn, {session[s].registryYm}) EXCEPT ![c].pc = "stored"]
    /\ UNCHANGED <<bySecret, routes, evicted, has, restarts>>

\* The reply is written, and the yamux server made.
Reply(c) ==
    /\ conn[c].pc = "stored"
    /\ conn' = [conn EXCEPT ![c].pc = "made", ![c].tun = "open"]
    /\ has' = IF conn[c].up THEN session[conn[c].s].id ELSE has
    /\ UNCHANGED <<session, bySecret, routes, evicted, restarts>>

\* release: what this handler reserved, unless it is bound by now.
Release(s) ==
    IF session[s].ym # None THEN UNCHANGED <<bySecret, routes>>
    ELSE /\ bySecret' = [bySecret EXCEPT ![session[s].id] = None]
         /\ routes' = [routes EXCEPT ![session[s].id] = None]

\* Writing the reply or making the yamux server fails.
ReplyFails(c) ==
    /\ conn[c].pc = "stored"
    /\ conn' = [conn EXCEPT ![c] = Ended]
    /\ IF conn[c].isNew THEN Release(conn[c].s) ELSE UNCHANGED <<bySecret, routes>>
    /\ UNCHANGED <<session, evicted, has, restarts>>

\* bind, its first half: setYamux.  (The tunnel it replaced is closed just after.)
SetYamux(c) ==
    LET s == conn[c].s IN
    /\ conn[c].pc = "made"
    /\ session' = [session EXCEPT ![s].ym = c, ![s].closedAt = "zero"]
    /\ conn' = [Closing(conn, {session[s].ym}) EXCEPT ![c].pc = "binding", ![c].isNew = FALSE]
    /\ UNCHANGED <<bySecret, routes, evicted, has, restarts>>

\* bind, its second half: the routes.
Route(c) ==
    /\ conn[c].pc = "binding"
    /\ routes' = [routes EXCEPT ![session[conn[c].s].id] = conn[c].s]
    /\ conn' = [conn EXCEPT ![c].pc = "serving"]
    /\ UNCHANGED <<session, bySecret, evicted, has, restarts>>

\* yamux notices that the daemon's end is gone.
Notice(c) ==
    /\ conn[c].tun = "open" /\ ~conn[c].up
    /\ conn' = [conn EXCEPT ![c].tun = "closed"]
    /\ UNCHANGED <<session, bySecret, routes, evicted, has, restarts>>

\* The handler returns when its tunnel has closed; the session stays for its grace.
TunnelClosed(c) ==
    /\ conn[c].kind = "main" /\ conn[c].pc = "serving" /\ conn[c].tun = "closed"
    /\ conn' = [conn EXCEPT ![c] = Ended]
    /\ UNCHANGED <<session, bySecret, routes, evicted, has, restarts>>

-----------------------------------------------------------------------------
(* A registry connection's handler (bindAttachment).                       *)

\* attachTarget and the feature check, the reply and the yamux server, or a failure.
AttachTarget(c) ==
    LET s == Known(conn[c].id) IN
    /\ conn[c].pc = "sent" /\ conn[c].kind = "attach"
    /\ \/ /\ s # None /\ session[s].ym # None /\ session[s].registry
          /\ conn' = [conn EXCEPT ![c].pc = "target", ![c].id = None, ![c].s = s, ![c].tun = "open"]
       \/ conn' = [conn EXCEPT ![c] = Ended]
    /\ UNCHANGED <<session, bySecret, routes, evicted, has, restarts>>

\* attachRegistry: the install, which closes an older registry connection.
Install(c) ==
    LET s == conn[c].s IN
    /\ conn[c].pc = "target"
    /\ session' = [session EXCEPT ![s].registryYm = c]
    /\ conn' = [Closing(conn, {session[s].registryYm}) EXCEPT ![c].pc = "installed"]
    /\ UNCHANGED <<bySecret, routes, evicted, has, restarts>>

\* clearRegistryYamux.
ClearRegistry(s, c) ==
    session' = IF session[s].registryYm = c THEN [session EXCEPT ![s].registryYm = None] ELSE session

\* Mutant: what was checked before the handshake is not checked again.
InstalledUnchecked(c) ==
    /\ conn[c].pc = "installed"
    /\ conn' = [conn EXCEPT ![c].pc = "serving"]
    /\ UNCHANGED <<session, bySecret, routes, evicted, has, restarts>>

\* attachRegistry: the session may have lost the feature or been reaped meanwhile.
CheckInstalled(c) ==
    LET s == conn[c].s IN
    /\ \/ /\ conn[c].pc = "installed" /\ session[s].registry
          /\ conn' = [conn EXCEPT ![c].pc = "flagged"]
          /\ UNCHANGED session
       \/ /\ conn[c].pc = "flagged" /\ routes[session[s].id] = s
          /\ conn' = [conn EXCEPT ![c].pc = "serving"]
          /\ UNCHANGED session
       \/ /\ \/ conn[c].pc = "installed" /\ ~session[s].registry
             \/ conn[c].pc = "flagged" /\ routes[session[s].id] # s
          /\ conn' = [conn EXCEPT ![c] = Ended]
          /\ ClearRegistry(s, c)
    /\ UNCHANGED <<bySecret, routes, evicted, has, restarts>>

\* The handler returns when its connection has closed.
RegistryClosed(c) ==
    /\ conn[c].kind = "attach" /\ conn[c].pc = "serving" /\ conn[c].tun = "closed"
    /\ conn' = [conn EXCEPT ![c] = Ended]
    /\ ClearRegistry(conn[c].s, c)
    /\ UNCHANGED <<bySecret, routes, evicted, has, restarts>>

-----------------------------------------------------------------------------
(* The gateway at large.                                                   *)

\* The clock: a closed tunnel passes sessionTTL, far longer than any handshake.
Age(s) ==
    /\ session[s].closedAt = "stamped" /\ s \in {bySecret[i] : i \in Objects}
    /\ \A c \in Conns : conn[c].pc \in {"unused", "serving", "done"}
    /\ session' = [session EXCEPT ![s].closedAt = "past"]
    /\ UNCHANGED <<conn, bySecret, routes, evicted, has, restarts>>

IsClosed(s) == session[s].ym # None /\ ~IsOpen(session[s].ym)

\* A reservation's handler binds or releases it long before reservationGrace.
Reapable(s) == IsClosed(s) /\ session[s].closedAt = "past"

\* Mutant: a closed tunnel is not stamped, so its session never comes of age.
ReapUnstamped(ss) ==
    LET out == {s \in ss : Reapable(s)} IN
    /\ evicted = {} /\ out # {}
    /\ bySecret' = [i \in Objects |-> IF bySecret[i] \in out THEN None ELSE bySecret[i]]
    /\ routes' = [i \in Objects |-> IF \E s \in out : session[s].id = i THEN None ELSE routes[i]]
    /\ evicted' = out
    /\ UNCHANGED <<conn, session, has, restarts>>

\* A pass of the reaper over some of the sessions: evicts and stamps.
ReapOf(ss) ==
    LET out == {s \in ss : Reapable(s)}
        stamp == {s \in ss : IsClosed(s) /\ session[s].closedAt = "zero"}
    IN
    /\ evicted = {} /\ out \cup stamp # {}
    /\ bySecret' = [i \in Objects |-> IF bySecret[i] \in out THEN None ELSE bySecret[i]]
    /\ routes' = [i \in Objects |-> IF \E s \in out : session[s].id = i THEN None ELSE routes[i]]
    /\ session' = [s \in DOMAIN session |->
                     IF s \in stamp THEN [session[s] EXCEPT !.closedAt = "stamped"] ELSE session[s]]
    /\ evicted' = out
    /\ UNCHANGED <<conn, has, restarts>>

\* reap: the reaper looks at every reservation.
Reap == ReapOf({bySecret[i] : i \in Reserved})

\* reap, outside the lock: the evicted sessions' registry connections are closed.
CloseEvicted(s) ==
    /\ s \in evicted
    /\ evicted' = evicted \ {s}
    /\ CloseRegistry(s)
    /\ conn' = Closing(conn, {session[s].registryYm})
    /\ UNCHANGED <<bySecret, routes, has, restarts>>

\* The gateway restarts: its memory and its connections are gone.
Restart ==
    /\ restarts < MaxRestarts
    /\ restarts' = restarts + 1
    /\ conn' = [c \in Conns |-> IF conn[c].pc = "unused" THEN conn[c] ELSE Ended]
    /\ session' = [s \in DOMAIN session |-> NewSession(session[s].id)]
    /\ bySecret' = Nothing
    /\ routes' = Nothing
    /\ evicted' = {}
    /\ UNCHANGED has

Handle(c) ==
    \/ Claim(c) \/ Negotiate(c) \/ Drop(c) \/ Reply(c) \/ SetYamux(c) \/ Route(c) \/ TunnelClosed(c)
    \/ AttachTarget(c) \/ Install(c) \/ CheckInstalled(c) \/ RegistryClosed(c)

Daemon(c) == (\E r \in BOOLEAN : Dial(c, r)) \/ DialRegistry(c) \/ GiveUp(c)

Next ==
    \/ \E c \in Conns : Handle(c) \/ ReplyFails(c) \/ Notice(c) \/ Daemon(c)
    \/ \E s \in DOMAIN session : Age(s) \/ CloseEvicted(s)
    \/ Reap \/ Restart

Spec == Init /\ [][Next]_vars

\* Handlers and the reaper run, time passes, and a dead peer is noticed (keepalive).
Fairness ==
    /\ \A c \in Conns : WF_vars(Handle(c)) /\ WF_vars(Notice(c))
    /\ \A s \in Objects : WF_vars(s \in DOMAIN session /\ Age(s)) /\ WF_vars(s \in DOMAIN session /\ CloseEvicted(s))
    /\ WF_vars(Reap)

FairSpec == Spec /\ Fairness

-----------------------------------------------------------------------------
(* Properties.                                                             *)

\* The session was bound by a handler that had claimed it before it lost its slot, to the
\* reaper or to the release of another handshake.  Nobody looks after its routes any more.
Revived(s) == /\ bySecret[session[s].id] # s
              /\ session[s].ym # None /\ session[s].closedAt = "zero"

Dropped(s) == \E c \in Conns : conn[c].pc = "dropping" /\ conn[c].s = s
Overtaken(s) == \E t \in DOMAIN session : session[t].id = session[s].id /\ Revived(t)

\* attachRegistry: "either the check sees the change, or the change comes after the install
\* and closes ym itself": no registry connection stays with a session that has dropped the
\* feature, or is gone, unless a session of its ids was revived.
AttachmentsServed ==
    \A s \in DOMAIN session :
      LET r == session[s].registryYm IN
      IsOpen(r) /\ conn[r].pc = "serving" /\ s \notin evicted /\ ~Dropped(s) =>
        session[s].registry /\ (routes[session[s].id] = s \/ Overtaken(s))

\* "it guarantees a slot can never be reserved forever" (reapable): a slot is freed or
\* gets an open tunnel.
SlotsFreed ==
    \A i \in Objects :
      bySecret[i] # None ~> (bySecret[i] = None \/ IsOpen(session[bySecret[i]].ym))

\* "live, or resurrected under its original ids" (claim): a daemon that has registered keeps
\* its URL over drops, evictions and restarts of the gateway, unless its id is routed with no
\* reservation (a session of that id was revived).
KeepsItsURL == [][has # None /\ has' # has => routes[has] # None /\ bySecret[has] = None]_vars

-----------------------------------------------------------------------------
(* Why: the invariant that is inductive.                                   *)

\* Ids are minted with their session, or are those of an earlier one.
IdInv ==
    /\ \A s \in DOMAIN session : session[s].id <= s
    /\ has <= Len(session)
    /\ \A c \in Conns : conn[c].id <= Len(session)

\* Slots and routes are under the id of their session; a session that lost its slot has
\* lost its routes too, unless it was revived.
SlotInv ==
    /\ \A i \in Objects : bySecret[i] # None =>
         bySecret[i] \in DOMAIN session /\ session[bySecret[i]].id = i
    /\ \A i \in Objects : routes[i] # None =>
         /\ routes[i] \in DOMAIN session /\ session[routes[i]].id = i
         /\ session[routes[i]].ym # None
         /\ bySecret[i] = routes[i] \/ Revived(routes[i])
    /\ \A s \in DOMAIN session :
         /\ bySecret[session[s].id] # s => session[s].closedAt # "stamped"
         /\ session[s].ym = None => session[s].closedAt = "zero"

\* A handler has the session it works for, one that made it has its slot until it is bound,
\* and while one binds it the session does not come of age.
HandlerInv(c) ==
    LET s == conn[c].s IN
    /\ conn[c].pc \in {"claimed", "dropping", "stored", "made", "binding"} =>
         conn[c].kind = "main" /\ s \in DOMAIN session
    /\ conn[c].pc \in {"target", "installed", "flagged"} => conn[c].kind = "attach"
    /\ conn[c].kind = "attach" /\ conn[c].pc \in {"target", "installed", "flagged", "serving"} =>
         s \in DOMAIN session /\ session[s].ym # None
    /\ conn[c].pc = "binding" => session[s].ym # None /\ session[s].closedAt # "past"
    /\ conn[c].isNew => /\ conn[c].pc \in {"claimed", "dropping", "stored", "made"}
                        /\ session[s].ym = None => bySecret[session[s].id] = s
                        /\ \A b \in Conns : conn[b].isNew /\ conn[b].s = s => b = c

\* A session's registry connection was made for it, checked for the feature once it is
\* flagged, and for the routes once it is served.
AttachInv(s) ==
    LET r == session[s].registryYm IN
    r # None =>
      /\ conn[r].kind = "attach" /\ conn[r].s = s
      /\ conn[r].pc \in {"installed", "flagged", "serving"}
      /\ conn[r].pc # "installed" /\ ~Dropped(s) => session[s].registry
      /\ conn[r].pc = "serving" /\ s \notin evicted => routes[session[s].id] = s \/ Overtaken(s)

\* The daemon's one main connection asks for the id it has, and is given another only when
\* that one is routed with no reservation.
KeepInv(c) ==
    conn[c].kind = "main" /\ conn[c].up =>
      /\ \A b \in Conns : conn[b].kind = "main" /\ conn[b].up => b = c
      /\ conn[c].pc = "sent" => conn[c].id = has
      /\ /\ conn[c].pc \in {"claimed", "dropping", "stored"}
         /\ has # None /\ session[conn[c].s].id # has
         => routes[has] # None /\ bySecret[has] = None

\* The inductive invariant: AttachmentsServed and KeepsItsURL follow from it.
GatewayInv ==
    /\ TypeOK /\ IdInv /\ SlotInv
    /\ \A c \in Conns : HandlerInv(c) /\ KeepInv(c)
    /\ \A s \in DOMAIN session : AttachInv(s)
=============================================================================
