--------------------------- MODULE GatewayProofs ---------------------------
(***************************************************************************)
(* Proofs about Gateway: GatewayInv is inductive, and with it no registry  *)
(* connection is left on a session that cannot use it and the daemon keeps *)
(* its URL, for any number of connections, sessions, slots and restarts.   *)
(***************************************************************************)
EXTENDS Gateway, TLAPS

\* A leaf goes to Zenon, with time for a busy machine, unless it names another prover.
USE ZenonT(60)

-----------------------------------------------------------------------------
(* Connections and sessions.                                               *)

\* What the closing of a connection, at either end, leaves alone.
Kin(k, j) == /\ k.pc = j.pc /\ k.kind = j.kind /\ k.id = j.id /\ k.registry = j.registry
             /\ k.s = j.s /\ k.isNew = j.isNew
             /\ k.up => j.up

\* A connection whose end is closed is the connection it was otherwise.
LEMMA ClosedIsKin ==
    ASSUME NEW k \in ConnType
    PROVE  /\ [k EXCEPT !.tun = "closed", !.up = FALSE] \in ConnType
           /\ Kin([k EXCEPT !.tun = "closed", !.up = FALSE], k)
           /\ [k EXCEPT !.tun = "closed"] \in ConnType /\ Kin([k EXCEPT !.tun = "closed"], k)
           /\ [k EXCEPT !.up = FALSE] \in ConnType /\ Kin([k EXCEPT !.up = FALSE], k)
           /\ Kin(k, k)
<1>1. /\ [k EXCEPT !.tun = "closed", !.up = FALSE] \in ConnType
      /\ [k EXCEPT !.tun = "closed"] \in ConnType /\ [k EXCEPT !.up = FALSE] \in ConnType
  BY DEF ConnType
<1> QED
  BY <1>1, SMTT(60) DEF Kin, ConnType

\* Closing changes no connection but for its ends.
LEMMA ClosingIsKin ==
    ASSUME NEW f \in [Conns -> ConnType], NEW cs
    PROVE  /\ Closing(f, cs) \in [Conns -> ConnType]
           /\ \A b \in Conns : Kin(Closing(f, cs)[b], f[b])
<1>1. ASSUME NEW b \in Conns
      PROVE  Closing(f, cs)[b] \in ConnType /\ Kin(Closing(f, cs)[b], f[b])
  <2>1. Closing(f, cs)[b] = IF b \in cs THEN [f[b] EXCEPT !.tun = "closed", !.up = FALSE] ELSE f[b]
    BY DEF Closing
  <2> QED
    BY <2>1, ClosedIsKin
<1>2. Closing(f, cs) = [b \in Conns |-> Closing(f, cs)[b]]
  BY DEF Closing
<1> QED
  BY <1>1, <1>2

\* What the invariant says, one by one.
LEMMA InvTypes ==
    ASSUME GatewayInv
    PROVE  /\ conn \in [Conns -> ConnType]
           /\ session \in Seq(SessionType) /\ Len(session) \in Nat /\ Len(session) <= MaxObjects
           /\ DOMAIN session = 1..Len(session) /\ DOMAIN session \subseteq Objects
           /\ \A s \in DOMAIN session : session[s] \in SessionType
           /\ bySecret \in [Objects -> Objects \cup {None}]
           /\ routes \in [Objects -> Objects \cup {None}]
           /\ evicted \in SUBSET Objects /\ has \in Objects \cup {None}
           /\ restarts \in 0..MaxRestarts
           /\ None \notin Conns /\ None \notin Objects /\ None \notin DOMAIN session
BY GatewayAssumption, SMTT(60) DEF GatewayInv, TypeOK, Objects, Conns, None

\* The ids that are held, and None, are not past the sessions made.
LEMMA Ids ==
    ASSUME GatewayInv
    PROVE  /\ has \in Objects \cup {None} /\ has <= Len(session) /\ None <= Len(session)
           /\ \A c \in Conns : conn[c].id <= Len(session)
BY InvTypes, SMTT(60) DEF GatewayInv, IdInv, None

\* A connection that is not, or not yet, a registry connection is no session's.
LEMMA NotRegistry ==
    ASSUME GatewayInv, NEW c \in Conns,
           conn[c].kind # "attach" \/ conn[c].pc \notin {"installed", "flagged", "serving"}
    PROVE  \A t \in DOMAIN session : session[t].registryYm # c
BY InvTypes DEF GatewayInv, AttachInv

-----------------------------------------------------------------------------
(* Steps of connections that leave the sessions alone.                     *)

\* Closing ends of connections keeps the invariant.
LEMMA QuietStep ==
    ASSUME GatewayInv, conn' \in [Conns -> ConnType], \A b \in Conns : Kin(conn'[b], conn[b]),
           UNCHANGED <<session, bySecret, routes, evicted, has, restarts>>
    PROVE  GatewayInv'
<1>1. TypeOK' /\ IdInv' /\ SlotInv'
  <2>1. TypeOK'
    BY DEF GatewayInv, TypeOK
  <2>2. IdInv'
    BY DEF GatewayInv, IdInv, Kin
  <2>3. SlotInv'
    BY DEF GatewayInv, SlotInv, Revived
  <2> QED
    BY <2>1, <2>2, <2>3
<1>2. ASSUME NEW b \in Conns
      PROVE  HandlerInv(b)' /\ KeepInv(b)'
  <2>1. HandlerInv(b)'
    BY SMTT(60) DEF GatewayInv, HandlerInv, Kin
  <2>2. KeepInv(b)'
    BY SMTT(60) DEF GatewayInv, KeepInv, Kin
  <2> QED
    BY <2>1, <2>2
<1>3. ASSUME NEW s \in DOMAIN session
      PROVE  AttachInv(s)'
  <2> DEFINE r == session[s].registryYm
  <2>1. CASE r = None
    BY <2>1 DEF AttachInv
  <2>2. CASE r # None
    <3>1. r \in Conns
      BY <2>2, InvTypes DEF SessionType
    <3>2. Dropped(s) <=> Dropped(s)'
      BY DEF Dropped, Kin
    <3>3. Overtaken(s) <=> Overtaken(s)'
      BY DEF Overtaken, Revived
    <3>4. conn'[r].pc = conn[r].pc /\ conn'[r].kind = conn[r].kind /\ conn'[r].s = conn[r].s
      BY <3>1 DEF Kin
    <3> QED
      BY <3>2, <3>3, <3>4 DEF GatewayInv, AttachInv
  <2> QED
    BY <2>1, <2>2
<1> QED
  BY <1>1, <1>2, <1>3 DEF GatewayInv

\* A step of one connection keeps the invariant when it keeps what that says of this
\* connection, and of the session that has it for its registry connection.
LEMMA ConnStep ==
    ASSUME GatewayInv, NEW c \in Conns, conn' \in [Conns -> ConnType],
           \A b \in Conns : b # c => Kin(conn'[b], conn[b]),
           UNCHANGED <<session, bySecret, routes, evicted, restarts>>,
           has' \in Objects \cup {None}, has' <= Len(session),
           has' = has \/ (conn'[c].kind = "main" /\ conn'[c].up),
           conn'[c].id <= Len(session), HandlerInv(c)', KeepInv(c)',
           conn[c].pc # "dropping",
           \A s \in DOMAIN session : session[s].registryYm = c => AttachInv(s)'
    PROVE  GatewayInv'
<1>1. TypeOK' /\ IdInv' /\ SlotInv'
  <2>1. TypeOK'
    BY DEF GatewayInv, TypeOK
  <2>2. IdInv'
    BY DEF GatewayInv, IdInv, Kin
  <2>3. SlotInv'
    BY DEF GatewayInv, SlotInv, Revived
  <2> QED
    BY <2>1, <2>2, <2>3
<1>2. ASSUME NEW b \in Conns, b # c
      PROVE  HandlerInv(b)' /\ KeepInv(b)'
  <2>1. Kin(conn'[b], conn[b]) /\ HandlerInv(b) /\ KeepInv(b)
    BY <1>2 DEF GatewayInv
  <2>2. HandlerInv(b)'
    BY <1>2, <2>1 DEF HandlerInv, Kin
  <2>3. KeepInv(b)'
    BY <1>2, <2>1 DEF KeepInv, Kin
  <2> QED
    BY <2>2, <2>3
<1>3. ASSUME NEW s \in DOMAIN session, session[s].registryYm # c
      PROVE  AttachInv(s)'
  <2> DEFINE r == session[s].registryYm
  <2>1. CASE r = None
    BY <2>1 DEF AttachInv
  <2>2. CASE r # None
    <3>1. r \in Conns /\ r # c
      BY <1>3, <2>2, InvTypes DEF SessionType
    <3>2. Dropped(s) => Dropped(s)'
      BY DEF Dropped, Kin
    <3>3. Overtaken(s) <=> Overtaken(s)'
      BY DEF Overtaken, Revived
    <3>4. conn'[r].pc = conn[r].pc /\ conn'[r].kind = conn[r].kind /\ conn'[r].s = conn[r].s
      BY <3>1 DEF Kin
    <3> QED
      BY <3>2, <3>3, <3>4 DEF GatewayInv, AttachInv
  <2> QED
    BY <2>1, <2>2
<1> QED
  BY <1>1, <1>2, <1>3 DEF GatewayInv

\* An ended connection has no session, no id and no end.
LEMMA EndedType ==
    /\ Unused \in ConnType /\ Ended \in ConnType
    /\ Ended.pc = "done" /\ Ended.kind = "main" /\ Ended.id = None /\ ~Ended.isNew /\ ~Ended.up
    /\ Unused.pc = "unused" /\ Unused.kind = "main" /\ Unused.id = None /\ Unused.s = None
    /\ ~Unused.isNew /\ ~Unused.up /\ ~Unused.registry /\ Unused.tun = "none"
<1>1. Unused \in ConnType
  BY DEF Unused, ConnType
<1>2. Ended \in ConnType
  BY <1>1 DEF Ended, ConnType
<1> QED
  BY <1>1, <1>2 DEF Unused, Ended

\* A connection that no session has for its registry connection ends.
LEMMA EndStep ==
    ASSUME GatewayInv, NEW c \in Conns, conn' = [conn EXCEPT ![c] = Ended],
           UNCHANGED <<session, bySecret, routes, evicted, has, restarts>>,
           conn[c].pc \notin {"dropping", "installed", "flagged"},
           conn[c].pc = "serving" => conn[c].kind = "main"
    PROVE  GatewayInv'
<1>1. /\ conn' \in [Conns -> ConnType] /\ conn'[c] = Ended
      /\ \A b \in Conns : b # c => conn'[b] = conn[b]
  BY InvTypes, EndedType
<1>2. \A b \in Conns : b # c => Kin(conn'[b], conn[b])
  BY <1>1 DEF Kin
<1>3. conn'[c].id <= Len(session)
  BY <1>1, EndedType, Ids
<1>4. HandlerInv(c)' /\ KeepInv(c)'
  BY <1>1, EndedType DEF HandlerInv, KeepInv
<1>5. ASSUME NEW s \in DOMAIN session
      PROVE  session[s].registryYm # c
  BY InvTypes, SMTT(60) DEF GatewayInv, AttachInv
<1>6. has' \in Objects \cup {None} /\ has' <= Len(session)
  BY InvTypes DEF GatewayInv, IdInv
<1> QED
  BY <1>1, <1>2, <1>3, <1>4, <1>5, <1>6, ConnStep

\* connectAndServe and attachRegistry: a request that arrives, or is shed.
LEMMA ArriveStep ==
    ASSUME GatewayInv, NEW c \in Conns, conn[c].pc = "unused", NEW k \in ConnType, Arrive(c, k),
           k.pc = "sent", k.id = has, ~k.isNew, k.kind = "main" => MainUp = {},
           UNCHANGED <<session, bySecret, routes, evicted, has, restarts>>
    PROVE  GatewayInv'
<1>1. conn' = [conn EXCEPT ![c] = k] \/ conn' = [conn EXCEPT ![c] = Ended]
  BY DEF Arrive
<1>2. CASE conn' = [conn EXCEPT ![c] = Ended]
  BY <1>2, EndStep
<1>3. CASE conn' = [conn EXCEPT ![c] = k]
  <2>1. /\ conn' \in [Conns -> ConnType] /\ conn'[c] = k
        /\ \A b \in Conns : b # c => conn'[b] = conn[b]
    BY <1>3, InvTypes
  <2>2. \A b \in Conns : b # c => Kin(conn'[b], conn[b])
    BY <2>1 DEF Kin
  <2>3. has' \in Objects \cup {None} /\ has' <= Len(session) /\ conn'[c].id <= Len(session)
    BY <2>1, InvTypes DEF GatewayInv, IdInv
  <2>4. HandlerInv(c)'
    BY <2>1 DEF HandlerInv
  <2>5. KeepInv(c)'
    BY <2>1 DEF KeepInv, MainUp
  <2>6. ASSUME NEW s \in DOMAIN session
        PROVE  session[s].registryYm # c
    BY InvTypes, SMTT(60) DEF GatewayInv, AttachInv
  <2> QED
    BY <2>1, <2>2, <2>3, <2>4, <2>5, <2>6, ConnStep
<1> QED
  BY <1>1, <1>2, <1>3

\* The daemon's steps.
LEMMA DaemonStep ==
    ASSUME GatewayInv, NEW c \in Conns, Daemon(c)
    PROVE  GatewayInv'
<1>1. ASSUME NEW q \in BOOLEAN, Dial(c, q)
      PROVE  GatewayInv'
  <2> DEFINE k == [Unused EXCEPT !.pc = "sent", !.id = has, !.registry = q, !.up = TRUE]
  <2>1. k \in ConnType
    BY EndedType, InvTypes DEF ConnType
  <2>2. k.pc = "sent" /\ k.id = has /\ ~k.isNew
    BY DEF Unused
  <2>3. /\ Arrive(c, k) /\ conn[c].pc = "unused" /\ MainUp = {}
        /\ UNCHANGED <<session, bySecret, routes, evicted, has, restarts>>
    BY <1>1 DEF Dial, FirstUnused
  <2> HIDE DEF k
  <2> QED
    BY <2>1, <2>2, <2>3, ArriveStep
<1>2. CASE DialRegistry(c)
  <2> DEFINE k == [Unused EXCEPT !.pc = "sent", !.kind = "attach", !.id = has, !.up = TRUE]
  <2>1. k \in ConnType
    BY EndedType, InvTypes DEF ConnType
  <2>2. k.pc = "sent" /\ k.id = has /\ ~k.isNew /\ k.kind = "attach"
    BY DEF Unused
  <2>3. /\ Arrive(c, k) /\ conn[c].pc = "unused"
        /\ UNCHANGED <<session, bySecret, routes, evicted, has, restarts>>
    BY <1>2 DEF DialRegistry, FirstUnused
  <2> HIDE DEF k
  <2> QED
    BY <2>1, <2>2, <2>3, ArriveStep
<1>3. CASE GiveUp(c)
  <2>1. ASSUME NEW b \in Conns
        PROVE  conn'[b] = conn[b] \/ conn'[b] = [conn[b] EXCEPT !.up = FALSE]
    BY <1>3 DEF GiveUp
  <2>2. ASSUME NEW b \in Conns
        PROVE  conn'[b] \in ConnType /\ Kin(conn'[b], conn[b])
    <3>1. conn[b] \in ConnType
      BY InvTypes
    <3> QED
      BY <2>1, <3>1, ClosedIsKin
  <2>3. conn' \in [Conns -> ConnType]
    BY <1>3, <2>2 DEF GiveUp
  <2> QED
    BY <1>3, <2>2, <2>3, QuietStep DEF GiveUp
<1> QED
  BY <1>1, <1>2, <1>3 DEF Daemon

\* yamux notices.
LEMMA NoticeStep ==
    ASSUME GatewayInv, NEW c \in Conns, Notice(c)
    PROVE  GatewayInv'
<1> DEFINE k == [conn[c] EXCEPT !.tun = "closed"]
<1>1. conn' = [conn EXCEPT ![c] = k]
  BY DEF Notice
<1>2. k \in ConnType /\ Kin(k, conn[c])
  BY InvTypes, ClosedIsKin
<1> HIDE DEF k
<1>3. conn' \in [Conns -> ConnType] /\ \A b \in Conns : Kin(conn'[b], conn[b])
  BY <1>1, <1>2, InvTypes, ClosedIsKin
<1> QED
  BY <1>3, QuietStep DEF Notice

-----------------------------------------------------------------------------
(* Steps that change sessions.                                             *)

\* A step on what sessions have of the registry, and on the connections of C, keeps the
\* invariant when it keeps what that says of these.
LEMMA RegistryStep ==
    ASSUME GatewayInv, NEW C \in SUBSET Conns, conn' \in [Conns -> ConnType],
           \A b \in Conns : b \notin C => Kin(conn'[b], conn[b]),
           session' \in Seq(SessionType), Len(session') = Len(session),
           DOMAIN session' = DOMAIN session,
           \A t \in DOMAIN session : /\ session'[t].id = session[t].id
                                     /\ session'[t].ym = session[t].ym
                                     /\ session'[t].closedAt = session[t].closedAt,
           bySecret' = bySecret, routes' = routes, evicted' \in SUBSET Objects, has' = has,
           restarts' = restarts,
           \A b \in C : conn'[b].id <= Len(session) /\ HandlerInv(b)' /\ KeepInv(b)',
           \A t \in DOMAIN session : AttachInv(t)'
    PROVE  GatewayInv'
<1>1. TypeOK' /\ IdInv' /\ SlotInv'
  <2>1. TypeOK'
    BY DEF GatewayInv, TypeOK
  <2>2. IdInv'
    BY DEF GatewayInv, IdInv, Kin
  <2>3. SlotInv'
    <3>1. \A i \in Objects : bySecret[i] # None =>
             bySecret[i] \in DOMAIN session /\ session[bySecret[i]].id = i
      BY DEF GatewayInv, SlotInv
    <3>2. \A i \in Objects : routes[i] # None =>
             /\ routes[i] \in DOMAIN session /\ session[routes[i]].id = i
             /\ session[routes[i]].ym # None
             /\ bySecret[i] = routes[i] \/ Revived(routes[i])
      BY DEF GatewayInv, SlotInv
    <3>3. \A s \in DOMAIN session :
             /\ bySecret[session[s].id] # s => session[s].closedAt # "stamped"
             /\ session[s].ym = None => session[s].closedAt = "zero"
      BY DEF GatewayInv, SlotInv
    <3> QED
      BY <3>1, <3>2, <3>3, SMTT(60) DEF SlotInv, Revived
  <2> QED
    BY <2>1, <2>2, <2>3
<1>2. ASSUME NEW b \in Conns, b \notin C
      PROVE  HandlerInv(b)' /\ KeepInv(b)'
  <2>1. Kin(conn'[b], conn[b]) /\ HandlerInv(b) /\ KeepInv(b)
    BY <1>2 DEF GatewayInv
  <2>2. HandlerInv(b)'
    <3>1. /\ conn'[b].pc = conn[b].pc /\ conn'[b].kind = conn[b].kind
          /\ conn'[b].s = conn[b].s /\ conn'[b].isNew = conn[b].isNew
      BY <2>1 DEF Kin
    <3>2. conn[b].isNew => conn[b].s \in DOMAIN session
      BY <2>1 DEF HandlerInv
    <3>3. conn'[b].isNew => \A d \in Conns : conn'[d].isNew /\ conn'[d].s = conn'[b].s => d = b
      BY <1>2, <2>1, <3>1 DEF HandlerInv, Kin
    <3> QED
      BY <2>1, <3>1, <3>2, <3>3, SMTT(60) DEF HandlerInv
  <2>3. KeepInv(b)'
    <3>1. conn[b].pc \in {"claimed", "dropping", "stored"} => conn[b].s \in DOMAIN session
      BY <2>1 DEF HandlerInv
    <3> QED
      BY <1>2, <2>1, <3>1, SMTT(60) DEF KeepInv, Kin
  <2> QED
    BY <2>2, <2>3
<1> QED
  BY <1>1, <1>2 DEF GatewayInv

\* The same, for one connection.
LEMMA RegistryConnStep ==
    ASSUME GatewayInv, NEW c \in Conns, conn' \in [Conns -> ConnType],
           \A b \in Conns : b # c => Kin(conn'[b], conn[b]),
           session' \in Seq(SessionType), Len(session') = Len(session),
           DOMAIN session' = DOMAIN session,
           \A t \in DOMAIN session : /\ session'[t].id = session[t].id
                                     /\ session'[t].ym = session[t].ym
                                     /\ session'[t].closedAt = session[t].closedAt,
           bySecret' = bySecret, routes' = routes, evicted' = evicted, has' = has,
           restarts' = restarts,
           conn'[c].id <= Len(session), HandlerInv(c)', KeepInv(c)',
           \A t \in DOMAIN session : AttachInv(t)'
    PROVE  GatewayInv'
<1> DEFINE C == {c}
<1>1. C \in SUBSET Conns
  OBVIOUS
<1>2. \A b \in Conns : b \notin C => Kin(conn'[b], conn[b])
  OBVIOUS
<1>3. \A b \in C : conn'[b].id <= Len(session) /\ HandlerInv(b)' /\ KeepInv(b)'
  OBVIOUS
<1>4. evicted' \in SUBSET Objects
  BY InvTypes
<1> HIDE DEF C
<1> QED
  BY <1>1, <1>2, <1>3, <1>4, RegistryStep

\* A session revived stays so over a step that only touches the registry.
LEMMA OvertakenKept ==
    ASSUME DOMAIN session' = DOMAIN session, bySecret' = bySecret,
           \A t \in DOMAIN session : /\ session'[t].id = session[t].id
                                     /\ session'[t].ym = session[t].ym
                                     /\ session'[t].closedAt = session[t].closedAt,
           NEW s \in DOMAIN session
    PROVE  Overtaken(s) => Overtaken(s)'
BY DEF Overtaken, Revived

\* The negotiated feature of a session is set.
LEMMA FlagSet ==
    ASSUME GatewayInv, NEW s \in DOMAIN session, NEW g \in BOOLEAN,
           session' = [session EXCEPT ![s].registry = g]
    PROVE  /\ session' \in Seq(SessionType) /\ Len(session') = Len(session)
           /\ DOMAIN session' = DOMAIN session
           /\ \A t \in DOMAIN session : /\ session'[t].id = session[t].id
                                        /\ session'[t].ym = session[t].ym
                                        /\ session'[t].closedAt = session[t].closedAt
           /\ session'[s].registry = g /\ session'[s].registryYm = session[s].registryYm
           /\ \A t \in DOMAIN session : t # s => session'[t] = session[t]
<1> DEFINE x == [session[s] EXCEPT !.registry = g]
<1>1. session[s] \in SessionType /\ session \in Seq(SessionType)
  BY InvTypes
<1>2. x \in SessionType
  BY <1>1 DEF SessionType
<1>3. /\ x.id = session[s].id /\ x.ym = session[s].ym /\ x.closedAt = session[s].closedAt
      /\ x.registry = g /\ x.registryYm = session[s].registryYm
  BY <1>1 DEF SessionType
<1>4. session' = [session EXCEPT ![s] = x]
  OBVIOUS
<1> HIDE DEF x
<1>5. /\ session' \in Seq(SessionType) /\ Len(session') = Len(session)
      /\ DOMAIN session' = DOMAIN session
      /\ session'[s] = x /\ \A t \in DOMAIN session : t # s => session'[t] = session[t]
  BY <1>1, <1>2, <1>4, SMTT(60)
<1> QED
  BY <1>3, <1>5

\* Session s has registry connection q, and the sessions are otherwise as before.
YamuxIs(s, q) ==
    /\ session' \in Seq(SessionType) /\ Len(session') = Len(session)
    /\ DOMAIN session' = DOMAIN session
    /\ \A t \in DOMAIN session : /\ session'[t].id = session[t].id
                                 /\ session'[t].ym = session[t].ym
                                 /\ session'[t].closedAt = session[t].closedAt
    /\ session'[s].registry = session[s].registry /\ session'[s].registryYm = q
    /\ \A t \in DOMAIN session : t # s => session'[t] = session[t]

\* The registry connection of a session is set.
LEMMA YamuxSet ==
    ASSUME GatewayInv, NEW s \in DOMAIN session, NEW q \in Conns \cup {None},
           session' = [session EXCEPT ![s].registryYm = q]
    PROVE  YamuxIs(s, q)
<1> DEFINE x == [session[s] EXCEPT !.registryYm = q]
<1>1. session[s] \in SessionType /\ session \in Seq(SessionType)
  BY InvTypes
<1>2. x \in SessionType
  BY <1>1 DEF SessionType
<1>3. /\ x.id = session[s].id /\ x.ym = session[s].ym /\ x.closedAt = session[s].closedAt
      /\ x.registry = session[s].registry /\ x.registryYm = q
  BY <1>1 DEF SessionType
<1>4. session' = [session EXCEPT ![s] = x]
  OBVIOUS
<1> HIDE DEF x
<1>5. /\ session' \in Seq(SessionType) /\ Len(session') = Len(session)
      /\ DOMAIN session' = DOMAIN session
      /\ session'[s] = x /\ \A t \in DOMAIN session : t # s => session'[t] = session[t]
  BY <1>1, <1>2, <1>4, SMTT(60)
<1> QED
  BY <1>3, <1>5 DEF YamuxIs

\* bindTunnel stores the features: a session that loses the registry has a handler that
\* drops its registry connection next.
LEMMA NegotiateStep ==
    ASSUME GatewayInv, NEW c \in Conns, Negotiate(c)
    PROVE  GatewayInv'
<1> DEFINE s == conn[c].s
<1> DEFINE k == [conn[c] EXCEPT !.pc = IF conn[c].registry THEN "stored" ELSE "dropping"]
<1>1. /\ conn[c] \in ConnType /\ HandlerInv(c) /\ KeepInv(c) /\ conn[c].pc = "claimed"
      /\ s \in DOMAIN session /\ conn[c].kind = "main" /\ conn[c].registry \in BOOLEAN
      /\ UNCHANGED <<bySecret, routes, evicted, has, restarts>>
  BY InvTypes DEF GatewayInv, HandlerInv, ConnType, Negotiate
<1>2. /\ conn' = [conn EXCEPT ![c] = k]
      /\ session' = [session EXCEPT ![s].registry = conn[c].registry]
  BY DEF Negotiate
<1>3. k \in ConnType
  BY <1>1 DEF ConnType
<1>4. /\ k.pc = (IF conn[c].registry THEN "stored" ELSE "dropping") /\ k.kind = conn[c].kind
      /\ k.id = conn[c].id /\ k.s = s /\ k.isNew = conn[c].isNew /\ k.up = conn[c].up
  BY <1>1 DEF ConnType
<1> HIDE DEF k
<1>5. /\ conn' \in [Conns -> ConnType] /\ conn'[c] = k
      /\ \A b \in Conns : b # c => conn'[b] = conn[b] /\ Kin(conn'[b], conn[b])
  BY <1>2, <1>3, InvTypes DEF Kin
<1>6. /\ session' \in Seq(SessionType) /\ Len(session') = Len(session)
      /\ DOMAIN session' = DOMAIN session
      /\ \A t \in DOMAIN session : /\ session'[t].id = session[t].id
                                   /\ session'[t].ym = session[t].ym
                                   /\ session'[t].closedAt = session[t].closedAt
      /\ session'[s].registry = conn[c].registry /\ session'[s].registryYm = session[s].registryYm
      /\ \A t \in DOMAIN session : t # s => session'[t] = session[t]
  BY <1>1, <1>2, FlagSet
<1>7. conn'[c].id <= Len(session) /\ HandlerInv(c)' /\ KeepInv(c)'
  <2>1. HandlerInv(c)'
    BY <1>1, <1>4, <1>5, <1>6, SMTT(60) DEF HandlerInv
  <2>2. KeepInv(c)'
    BY <1>1, <1>4, <1>5, <1>6, SMTT(60) DEF KeepInv
  <2> QED
    BY <1>4, <1>5, <2>1, <2>2 DEF GatewayInv, IdInv
<1>8. ASSUME NEW t \in DOMAIN session
      PROVE  AttachInv(t)'
  <2>1. AttachInv(t) /\ (Overtaken(t) => Overtaken(t)')
    BY <1>1, <1>6, OvertakenKept DEF GatewayInv
  <2>2. session'[t].registry = session[t].registry \/ session'[t].registry \/ Dropped(t)'
    BY <1>4, <1>5, <1>6 DEF Dropped
  <2>3. Dropped(t) => Dropped(t)'
    BY <1>1, <1>5 DEF Dropped
  <2>4. LET r == session[t].registryYm IN
        r # None => /\ conn'[r].kind = conn[r].kind /\ conn'[r].s = conn[r].s
                    /\ conn'[r].pc = conn[r].pc
    BY <1>1, <1>5, <2>1, InvTypes DEF AttachInv, SessionType
  <2> QED
    BY <1>1, <1>6, <2>1, <2>2, <2>3, <2>4, SMTT(60) DEF AttachInv
<1> QED
  BY <1>1, <1>5, <1>6, <1>7, <1>8, RegistryConnStep

\* A handler moves on as connections are closed.
Moves(g, f, cs, c, p) == g = [Closing(f, cs) EXCEPT ![c].pc = p]

\* Where it moves to.
Moved == {"stored", "installed", "flagged", "serving"}

\* What such a step leaves: ends are closed, and this handler is elsewhere.
OneMoved(g, f, c, p) ==
    /\ g \in [Conns -> ConnType]
    /\ \A b \in Conns : b # c => Kin(g[b], f[b])
    /\ g[c].pc = p /\ g[c].kind = f[c].kind /\ g[c].id = f[c].id /\ g[c].s = f[c].s
    /\ g[c].isNew = f[c].isNew /\ (g[c].up => f[c].up)

\* Such a step changes this handler's place, and closes ends.
LEMMA MovedTo ==
    ASSUME NEW f \in [Conns -> ConnType], NEW cs, NEW c \in Conns, NEW p \in Moved,
           NEW g, Moves(g, f, cs, c, p)
    PROVE  OneMoved(g, f, c, p)
<1> DEFINE h == Closing(f, cs)
<1> DEFINE k == [h[c] EXCEPT !.pc = p]
<1>1. h \in [Conns -> ConnType] /\ \A b \in Conns : Kin(h[b], f[b])
  BY ClosingIsKin
<1> HIDE DEF h
<1>2. k \in ConnType
  <2>1. h[c] \in ConnType /\ p \in {"unused", "sent", "claimed", "dropping", "stored", "made",
           "binding", "target", "installed", "flagged", "serving", "done"}
    BY <1>1 DEF Moved
  <2> QED
    BY <2>1 DEF ConnType
<1>3. /\ k.pc = p /\ k.kind = f[c].kind /\ k.id = f[c].id /\ k.s = f[c].s
      /\ k.isNew = f[c].isNew /\ (k.up => f[c].up)
  BY <1>1, SMTT(60) DEF ConnType, Kin
<1> HIDE DEF k
<1>4. g = [h EXCEPT ![c] = k]
  BY DEF h, k, Moves
<1>5. g \in [Conns -> ConnType] /\ g[c] = k /\ \A b \in Conns : b # c => Kin(g[b], f[b])
  BY <1>1, <1>2, <1>4
<1> QED
  BY <1>3, <1>5 DEF OneMoved

\* What a step of one connection leaves of another session's registry connection.
LEMMA OtherAttach ==
    ASSUME GatewayInv, NEW c, \A b \in Conns : b # c => Kin(conn'[b], conn[b]),
           DOMAIN session' = DOMAIN session,
           \A t \in DOMAIN session : /\ session'[t].id = session[t].id
                                     /\ session'[t].ym = session[t].ym
                                     /\ session'[t].closedAt = session[t].closedAt,
           bySecret' = bySecret, routes' = routes,
           NEW t \in DOMAIN session, session'[t] = session[t], t \notin evicted' => t \notin evicted,
           session[t].registryYm # c, conn[c].pc # "dropping" \/ conn[c].s # t
    PROVE  AttachInv(t)'
<1>1. AttachInv(t) /\ (Overtaken(t) => Overtaken(t)')
  BY OvertakenKept DEF GatewayInv
<1>2. Dropped(t) => Dropped(t)'
  BY DEF Dropped, Kin
<1>3. LET r == session[t].registryYm IN
      r # None => /\ conn'[r].kind = conn[r].kind /\ conn'[r].s = conn[r].s
                  /\ conn'[r].pc = conn[r].pc
  BY InvTypes DEF Kin, SessionType
<1> QED
  BY <1>1, <1>2, <1>3 DEF AttachInv

\* A handler that only moves on has its session as before.
LEMMA MoveKept ==
    ASSUME GatewayInv, NEW c \in Conns, \A b \in Conns : b # c => Kin(conn'[b], conn[b]),
           conn'[c].kind = conn[c].kind, conn'[c].id = conn[c].id, conn'[c].s = conn[c].s,
           conn'[c].isNew = conn[c].isNew, conn'[c].up => conn[c].up,
           \/ conn[c].pc = "dropping" /\ conn'[c].pc = "stored"
           \/ conn[c].pc = "target" /\ conn'[c].pc = "installed"
           \/ conn[c].pc = "installed" /\ conn'[c].pc = "flagged"
           \/ conn[c].pc = "flagged" /\ conn'[c].pc = "serving",
           DOMAIN session' = DOMAIN session,
           \A t \in DOMAIN session : session'[t].id = session[t].id /\ session'[t].ym = session[t].ym,
           bySecret' = bySecret, routes' = routes, has' = has
    PROVE  conn'[c].id <= Len(session) /\ HandlerInv(c)' /\ KeepInv(c)'
<1>1. HandlerInv(c) /\ KeepInv(c) /\ conn[c].id <= Len(session)
  BY DEF GatewayInv, IdInv
<1>2. conn[c].s \in DOMAIN session
  BY <1>1 DEF HandlerInv
<1>3. \A b \in Conns : /\ conn'[b].kind = conn[b].kind /\ conn'[b].s = conn[b].s
                       /\ conn'[b].isNew = conn[b].isNew /\ (conn'[b].up => conn[b].up)
  BY DEF Kin
<1>4. HandlerInv(c)'
  BY <1>1, <1>2, <1>3, SMTT(60) DEF HandlerInv
<1>5. KeepInv(c)'
  BY <1>1, <1>2, <1>3 DEF KeepInv
<1> QED
  BY <1>1, <1>4, <1>5

\* closeRegistry: a session that dropped the feature has no registry connection.
LEMMA DropStep ==
    ASSUME GatewayInv, NEW c \in Conns, Drop(c)
    PROVE  GatewayInv'
<1> DEFINE s == conn[c].s
<1>1. /\ conn[c] \in ConnType /\ HandlerInv(c) /\ KeepInv(c) /\ conn[c].pc = "dropping"
      /\ s \in DOMAIN session /\ conn[c].kind = "main"
      /\ conn \in [Conns -> ConnType] /\ conn[c].id <= Len(session)
  BY InvTypes DEF GatewayInv, HandlerInv, Drop, IdInv
<1>2. /\ bySecret' = bySecret /\ routes' = routes /\ evicted' = evicted /\ has' = has
      /\ restarts' = restarts
      /\ session' = [session EXCEPT ![s].registryYm = None]
  BY DEF Drop, CloseRegistry
<1>3. /\ conn' \in [Conns -> ConnType]
      /\ \A b \in Conns : b # c => Kin(conn'[b], conn[b])
      /\ conn'[c].pc = "stored" /\ conn'[c].kind = "main" /\ conn'[c].id = conn[c].id
      /\ conn'[c].s = s /\ conn'[c].isNew = conn[c].isNew /\ (conn'[c].up => conn[c].up)
  <2>1. Moves(conn', conn, {session[s].registryYm}, c, "stored")
    BY DEF Drop, Moves
  <2>2. "stored" \in Moved /\ conn \in [Conns -> ConnType]
    BY <1>1 DEF Moved
  <2>3. OneMoved(conn', conn, c, "stored")
    BY <2>1, <2>2, MovedTo
  <2> QED
    BY <1>1, <2>3 DEF OneMoved
<1>4. /\ session' \in Seq(SessionType) /\ Len(session') = Len(session)
      /\ DOMAIN session' = DOMAIN session
      /\ \A t \in DOMAIN session : /\ session'[t].id = session[t].id
                                   /\ session'[t].ym = session[t].ym
                                   /\ session'[t].closedAt = session[t].closedAt
      /\ session'[s].registryYm = None
      /\ \A t \in DOMAIN session : t # s => session'[t] = session[t]
  BY <1>1, <1>2, YamuxSet DEF YamuxIs
<1>5. conn'[c].id <= Len(session) /\ HandlerInv(c)' /\ KeepInv(c)'
  BY <1>1, <1>2, <1>3, <1>4, MoveKept
<1>6. ASSUME NEW t \in DOMAIN session
      PROVE  AttachInv(t)'
  <2>1. CASE t = s
    BY <1>4, <2>1 DEF AttachInv
  <2>2. CASE t # s
    <3>1. session[t].registryYm # c
      BY <1>1, NotRegistry
    <3> QED
      BY <1>2, <1>3, <1>4, <2>2, <3>1, OtherAttach
  <2> QED
    BY <2>1, <2>2
<1> QED
  BY <1>2, <1>3, <1>4, <1>5, <1>6, RegistryConnStep

\* A handler that moves on alone.
LEMMA MovedAlone ==
    ASSUME NEW c \in Conns, conn \in [Conns -> ConnType], NEW p \in Moved,
           conn' = [conn EXCEPT ![c].pc = p]
    PROVE  OneMoved(conn', conn, c, p)
<1>1. Closing(conn, {}) = conn
  BY DEF Closing
<1>2. Moves(conn', conn, {}, c, p)
  BY <1>1 DEF Moves
<1> QED
  BY <1>2, MovedTo

\* attachRegistry: the connection is the session's, and is checked next.
LEMMA InstallStep ==
    ASSUME GatewayInv, NEW c \in Conns, Install(c)
    PROVE  GatewayInv'
<1> DEFINE s == conn[c].s
<1>1. /\ HandlerInv(c) /\ KeepInv(c) /\ conn[c].pc = "target"
      /\ s \in DOMAIN session /\ conn[c].kind = "attach"
      /\ conn \in [Conns -> ConnType]
  BY InvTypes DEF GatewayInv, HandlerInv, Install
<1>2. /\ bySecret' = bySecret /\ routes' = routes /\ evicted' = evicted /\ has' = has
      /\ restarts' = restarts
      /\ session' = [session EXCEPT ![s].registryYm = c]
  BY DEF Install
<1>3. /\ conn' \in [Conns -> ConnType]
      /\ \A b \in Conns : b # c => Kin(conn'[b], conn[b])
      /\ conn'[c].pc = "installed" /\ conn'[c].kind = conn[c].kind /\ conn'[c].id = conn[c].id
      /\ conn'[c].s = s /\ conn'[c].isNew = conn[c].isNew /\ (conn'[c].up => conn[c].up)
  <2>1. Moves(conn', conn, {session[s].registryYm}, c, "installed")
    BY DEF Install, Moves
  <2>2. "installed" \in Moved /\ conn \in [Conns -> ConnType]
    BY <1>1 DEF Moved
  <2>3. OneMoved(conn', conn, c, "installed")
    BY <2>1, <2>2, MovedTo
  <2> QED
    BY <2>3 DEF OneMoved
<1>4. /\ session' \in Seq(SessionType) /\ Len(session') = Len(session)
      /\ DOMAIN session' = DOMAIN session
      /\ \A t \in DOMAIN session : /\ session'[t].id = session[t].id
                                   /\ session'[t].ym = session[t].ym
                                   /\ session'[t].closedAt = session[t].closedAt
      /\ session'[s].registryYm = c
      /\ \A t \in DOMAIN session : t # s => session'[t] = session[t]
  BY <1>1, <1>2, YamuxSet DEF YamuxIs
<1>5. conn'[c].id <= Len(session) /\ HandlerInv(c)' /\ KeepInv(c)'
  BY <1>1, <1>2, <1>3, <1>4, MoveKept
<1>6. ASSUME NEW t \in DOMAIN session
      PROVE  AttachInv(t)'
  <2>1. CASE t = s
    BY <1>1, <1>3, <1>4, <2>1 DEF AttachInv
  <2>2. CASE t # s
    <3>1. session[t].registryYm # c
      BY <1>1, NotRegistry
    <3> QED
      BY <1>1, <1>2, <1>3, <1>4, <2>2, <3>1, OtherAttach
  <2> QED
    BY <2>1, <2>2
<1> QED
  BY <1>2, <1>3, <1>4, <1>5, <1>6, RegistryConnStep

\* attachRegistry: the feature and then the routes were seen after the install.
LEMMA CheckedStep ==
    ASSUME GatewayInv, NEW c \in Conns,
           \/ /\ conn[c].pc = "installed" /\ session[conn[c].s].registry
              /\ conn' = [conn EXCEPT ![c].pc = "flagged"]
           \/ /\ conn[c].pc = "flagged" /\ routes[session[conn[c].s].id] = conn[c].s
              /\ conn' = [conn EXCEPT ![c].pc = "serving"],
           UNCHANGED <<session, bySecret, routes, evicted, has, restarts>>
    PROVE  GatewayInv'
<1>1. /\ HandlerInv(c) /\ KeepInv(c) /\ conn[c].kind = "attach" /\ conn \in [Conns -> ConnType]
      /\ has \in Objects \cup {None} /\ has <= Len(session)
  BY InvTypes DEF GatewayInv, HandlerInv, IdInv
<1>2. "flagged" \in Moved /\ "serving" \in Moved
  BY DEF Moved
<1>3. \/ conn[c].pc = "installed" /\ OneMoved(conn', conn, c, "flagged")
      \/ conn[c].pc = "flagged" /\ OneMoved(conn', conn, c, "serving")
  BY <1>1, <1>2, MovedAlone
<1>4. /\ conn' \in [Conns -> ConnType]
      /\ \A b \in Conns : b # c => Kin(conn'[b], conn[b])
      /\ conn'[c].kind = conn[c].kind /\ conn'[c].id = conn[c].id
      /\ conn'[c].s = conn[c].s /\ conn'[c].isNew = conn[c].isNew /\ (conn'[c].up => conn[c].up)
      /\ \/ conn[c].pc = "installed" /\ conn'[c].pc = "flagged"
         \/ conn[c].pc = "flagged" /\ conn'[c].pc = "serving"
  BY <1>3 DEF OneMoved
<1>5. conn'[c].id <= Len(session) /\ HandlerInv(c)' /\ KeepInv(c)'
  BY <1>1, <1>4, MoveKept
<1>6. ASSUME NEW s \in DOMAIN session, session[s].registryYm = c
      PROVE  AttachInv(s)'
  <2>1. AttachInv(s) /\ c # None
    BY InvTypes DEF GatewayInv
  <2>2. conn[c].s = s
    BY <1>6, <2>1 DEF AttachInv
  <2>3. Dropped(s) => Dropped(s)'
    BY <1>4 DEF Dropped, Kin
  <2> QED
    BY <1>4, <1>6, <2>1, <2>2, <2>3 DEF AttachInv
<1> QED
  BY <1>1, <1>4, <1>5, <1>6, ConnStep

\* clearRegistryYamux: the session has no registry connection once its handler has returned.
LEMMA ClearStep ==
    ASSUME GatewayInv, NEW c \in Conns, conn' = [conn EXCEPT ![c] = Ended],
           conn[c].pc # "dropping", conn[c].s \in DOMAIN session, ClearRegistry(conn[c].s, c),
           bySecret' = bySecret, routes' = routes, evicted' = evicted, has' = has,
           restarts' = restarts
    PROVE  GatewayInv'
<1> DEFINE s == conn[c].s
<1>1. /\ conn' \in [Conns -> ConnType] /\ conn'[c] = Ended
      /\ \A b \in Conns : b # c => conn'[b] = conn[b]
  BY InvTypes, EndedType
<1>2. \A b \in Conns : b # c => Kin(conn'[b], conn[b])
  BY <1>1 DEF Kin
<1>3. conn'[c].id <= Len(session) /\ HandlerInv(c)' /\ KeepInv(c)'
  <2>1. conn'[c].id <= Len(session)
    BY <1>1, EndedType, Ids
  <2>2. HandlerInv(c)' /\ KeepInv(c)'
    BY <1>1, EndedType DEF HandlerInv, KeepInv
  <2> QED
    BY <2>1, <2>2
<1>4. /\ session' \in Seq(SessionType) /\ Len(session') = Len(session)
      /\ DOMAIN session' = DOMAIN session
      /\ \A t \in DOMAIN session : /\ session'[t].id = session[t].id
                                   /\ session'[t].ym = session[t].ym
                                   /\ session'[t].closedAt = session[t].closedAt
      /\ session[s].registryYm = c => session'[s].registryYm = None
      /\ session[s].registryYm # c => session'[s] = session[s]
      /\ \A t \in DOMAIN session : t # s => session'[t] = session[t]
  <2>1. CASE session[s].registryYm = c
    <3>1. session' = [session EXCEPT ![s].registryYm = None] /\ None \in Conns \cup {None}
      BY <2>1 DEF ClearRegistry
    <3>2. YamuxIs(s, None)
      BY <3>1, YamuxSet
    <3> QED
      BY <2>1, <3>2 DEF YamuxIs
  <2>2. CASE session[s].registryYm # c
    BY <2>2, InvTypes DEF ClearRegistry
  <2> QED
    BY <2>1, <2>2
<1>5. ASSUME NEW t \in DOMAIN session
      PROVE  AttachInv(t)'
  <2>1. session[t].registryYm = c => t = s
    BY InvTypes, SMTT(60) DEF GatewayInv, AttachInv
  <2>2. CASE session[t].registryYm = c
    BY <1>4, <2>1, <2>2 DEF AttachInv
  <2>3. CASE session[t].registryYm # c
    <3>1. session'[t] = session[t]
      BY <1>4, <2>3
    <3> QED
      BY <1>2, <1>4, <2>3, <3>1, OtherAttach
  <2> QED
    BY <2>2, <2>3
<1> QED
  BY <1>1, <1>2, <1>3, <1>4, <1>5, RegistryConnStep

\* attachRegistry's second look, and the return of the handler.
LEMMA RegistrySteps ==
    ASSUME GatewayInv, NEW c \in Conns, CheckInstalled(c) \/ RegistryClosed(c)
    PROVE  GatewayInv'
<1>1. HandlerInv(c)
  BY DEF GatewayInv
<1>2. CASE RegistryClosed(c)
  <2>1. conn[c].pc # "dropping" /\ conn[c].s \in DOMAIN session
    BY <1>1, <1>2 DEF RegistryClosed, HandlerInv
  <2> QED
    BY <1>2, <2>1, ClearStep DEF RegistryClosed
<1>3. CASE CheckInstalled(c)
  <2>1. conn[c].pc \in {"installed", "flagged"}
    BY <1>3 DEF CheckInstalled
  <2>2. conn[c].pc # "dropping" /\ conn[c].s \in DOMAIN session
    BY <1>1, <2>1 DEF HandlerInv
  <2>3. CASE conn' = [conn EXCEPT ![c] = Ended] /\ ClearRegistry(conn[c].s, c)
    BY <1>3, <2>2, <2>3, ClearStep DEF CheckInstalled
  <2>4. CASE ~(conn' = [conn EXCEPT ![c] = Ended] /\ ClearRegistry(conn[c].s, c))
    BY <1>3, <2>4, CheckedStep DEF CheckInstalled
  <2> QED
    BY <2>3, <2>4
<1> QED
  BY <1>2, <1>3

\* reap, outside the lock: an evicted session has no registry connection afterwards.
LEMMA CloseEvictedStep ==
    ASSUME GatewayInv, NEW s \in DOMAIN session, CloseEvicted(s)
    PROVE  GatewayInv'
<1>1. /\ conn \in [Conns -> ConnType] /\ evicted' = evicted \ {s} /\ evicted' \in SUBSET Objects
      /\ bySecret' = bySecret /\ routes' = routes /\ has' = has /\ restarts' = restarts
      /\ session' = [session EXCEPT ![s].registryYm = None] /\ None \in Conns \cup {None}
  BY InvTypes DEF CloseEvicted, CloseRegistry
<1>2. conn' \in [Conns -> ConnType] /\ \A b \in Conns : Kin(conn'[b], conn[b])
  BY <1>1, ClosingIsKin DEF CloseEvicted
<1>3. /\ session' \in Seq(SessionType) /\ Len(session') = Len(session)
      /\ DOMAIN session' = DOMAIN session
      /\ \A t \in DOMAIN session : /\ session'[t].id = session[t].id
                                   /\ session'[t].ym = session[t].ym
                                   /\ session'[t].closedAt = session[t].closedAt
      /\ session'[s].registryYm = None
      /\ \A t \in DOMAIN session : t # s => session'[t] = session[t]
  BY <1>1, YamuxSet DEF YamuxIs
<1>4. ASSUME NEW t \in DOMAIN session
      PROVE  AttachInv(t)'
  <2>1. CASE t = s
    BY <1>3, <2>1 DEF AttachInv
  <2>2. CASE t # s
    <3>1. session'[t] = session[t] /\ (t \notin evicted' => t \notin evicted)
      BY <1>1, <1>3, <2>2
    <3>2. AttachInv(t) /\ (Overtaken(t) => Overtaken(t)')
      BY <1>1, <1>3, OvertakenKept DEF GatewayInv
    <3>3. Dropped(t) => Dropped(t)'
      BY <1>2 DEF Dropped, Kin
    <3>4. LET r == session[t].registryYm IN
          r # None => /\ conn'[r].kind = conn[r].kind /\ conn'[r].s = conn[r].s
                      /\ conn'[r].pc = conn[r].pc
      BY <1>2, InvTypes DEF Kin, SessionType
    <3> QED
      BY <1>1, <3>1, <3>2, <3>3, <3>4 DEF AttachInv
  <2> QED
    BY <2>1, <2>2
<1> DEFINE C == {}
<1>5. /\ C \in SUBSET Conns /\ \A b \in Conns : b \notin C => Kin(conn'[b], conn[b])
      /\ \A b \in C : conn'[b].id <= Len(session) /\ HandlerInv(b)' /\ KeepInv(b)'
  BY <1>2
<1> HIDE DEF C
<1> QED
  BY <1>1, <1>2, <1>3, <1>4, <1>5, RegistryStep

-----------------------------------------------------------------------------
(* Steps of one handler on the sessions as they are.                       *)

\* The handler of a main tunnel returns, with its session left to its grace.
LEMMA TunnelClosedStep ==
    ASSUME GatewayInv, NEW c \in Conns, TunnelClosed(c)
    PROVE  GatewayInv'
BY EndStep DEF TunnelClosed

\* attachTarget: the connection has the session that its id names, bound and with the
\* feature.
LEMMA AttachTargetStep ==
    ASSUME GatewayInv, NEW c \in Conns, AttachTarget(c)
    PROVE  GatewayInv'
<1>1. /\ conn[c].pc = "sent" /\ conn[c].kind = "attach" /\ conn[c] \in ConnType
      /\ UNCHANGED <<session, bySecret, routes, evicted, has, restarts>>
  BY InvTypes DEF AttachTarget
<1>2. CASE conn' = [conn EXCEPT ![c] = Ended]
  BY <1>1, <1>2, EndStep
<1>3. CASE conn' # [conn EXCEPT ![c] = Ended]
  <2> DEFINE s == Known(conn[c].id)
  <2> DEFINE k == [conn[c] EXCEPT !.pc = "target", !.id = None, !.s = s, !.tun = "open"]
  <2>1. s # None /\ session[s].ym # None /\ conn' = [conn EXCEPT ![c] = k]
    BY <1>3 DEF AttachTarget
  <2>2. s \in Objects /\ s \in DOMAIN session
    BY <1>1, <2>1, InvTypes DEF Known, GatewayInv, SlotInv, ConnType
  <2>3. k \in ConnType
    BY <1>1, <2>2 DEF ConnType
  <2>4. /\ k.pc = "target" /\ k.kind = "attach" /\ k.id = None /\ k.s = s
        /\ k.isNew = conn[c].isNew
    BY <1>1 DEF ConnType
  <2> HIDE DEF k, s
  <2>5. /\ conn' \in [Conns -> ConnType] /\ conn'[c] = k
        /\ \A b \in Conns : b # c => conn'[b] = conn[b] /\ Kin(conn'[b], conn[b])
    BY <2>1, <2>3, InvTypes DEF Kin
  <2>6. has \in Objects \cup {None} /\ has <= Len(session) /\ conn'[c].id <= Len(session)
    BY <2>4, <2>5, Ids
  <2>7. ~conn[c].isNew
    BY <1>1 DEF GatewayInv, HandlerInv
  <2>8. HandlerInv(c)'
    BY <1>1, <2>1, <2>2, <2>4, <2>5, <2>7 DEF HandlerInv
  <2>9. KeepInv(c)'
    BY <2>4, <2>5 DEF KeepInv
  <2>10. ASSUME NEW t \in DOMAIN session
         PROVE  session[t].registryYm # c
    BY <1>1, NotRegistry
  <2> QED
    BY <1>1, <2>5, <2>6, <2>8, <2>9, <2>10, ConnStep
<1> QED
  BY <1>2, <1>3

\* writeRegisterReply: the daemon holds the id of the session it was given.
LEMMA ReplyStep ==
    ASSUME GatewayInv, NEW c \in Conns, Reply(c)
    PROVE  GatewayInv'
<1> DEFINE s == conn[c].s
<1> DEFINE k == [conn[c] EXCEPT !.pc = "made", !.tun = "open"]
<1>1. /\ conn[c] \in ConnType /\ HandlerInv(c) /\ KeepInv(c) /\ conn[c].pc = "stored"
      /\ s \in DOMAIN session /\ conn[c].kind = "main" /\ conn[c].id <= Len(session)
      /\ UNCHANGED <<session, bySecret, routes, evicted, restarts>>
      /\ has' = IF conn[c].up THEN session[s].id ELSE has
  BY InvTypes DEF GatewayInv, HandlerInv, Reply, IdInv
<1>2. conn' = [conn EXCEPT ![c] = k]
  BY DEF Reply
<1>3. k \in ConnType
  BY <1>1 DEF ConnType
<1>4. /\ k.pc = "made" /\ k.kind = "main" /\ k.id = conn[c].id /\ k.s = s
      /\ k.isNew = conn[c].isNew /\ k.up = conn[c].up
  BY <1>1 DEF ConnType
<1> HIDE DEF k
<1>5. /\ conn' \in [Conns -> ConnType] /\ conn'[c] = k
      /\ \A b \in Conns : b # c => conn'[b] = conn[b] /\ Kin(conn'[b], conn[b])
  BY <1>2, <1>3, InvTypes DEF Kin
<1>6. has' \in Objects \cup {None} /\ has' <= Len(session)
  <2>1. session[s].id \in Objects /\ session[s].id <= s /\ s <= Len(session) /\ s \in Nat
    BY <1>1, InvTypes, SMTT(60) DEF GatewayInv, IdInv, SessionType
  <2>2. session[s].id <= Len(session) /\ has \in Objects \cup {None} /\ has <= Len(session)
    BY <2>1, InvTypes, SMTT(60) DEF GatewayInv, IdInv, Objects
  <2> QED
    BY <1>1, <2>1, <2>2
<1>7. has' = has \/ (conn'[c].kind = "main" /\ conn'[c].up)
  BY <1>1, <1>4, <1>5
<1>8. HandlerInv(c)'
  BY <1>1, <1>4, <1>5 DEF HandlerInv
<1>9. KeepInv(c)'
  BY <1>1, <1>4, <1>5 DEF KeepInv
<1>10. ASSUME NEW t \in DOMAIN session
       PROVE  session[t].registryYm # c
  BY <1>1, NotRegistry
<1> QED
  BY <1>1, <1>4, <1>5, <1>6, <1>7, <1>8, <1>9, <1>10, ConnStep

-----------------------------------------------------------------------------
(* Steps that change slots and routes.                                     *)

\* No handler but c's moves, if any does.
ConnsKept(c) ==
    /\ \A b \in Conns : b # c => Kin(conn'[b], conn[b])
    /\ c \in Conns =>
         /\ conn[c].pc # "dropping" /\ \A t \in DOMAIN session : session[t].registryYm # c
         /\ conn'[c].up => conn[c].up /\ conn'[c].kind = conn[c].kind
         /\ conn'[c].isNew => /\ conn[c].isNew \/ conn'[c].s \notin DOMAIN session
                              /\ conn'[c].s = conn[c].s \/ conn'[c].s \notin DOMAIN session

\* No session is lost, loses its tunnel, or is looked after again once it was revived.
SessionsKept ==
    /\ DOMAIN session \subseteq DOMAIN session'
    /\ \A t \in DOMAIN session :
         /\ session'[t].id = session[t].id
         /\ session'[t].ym = None => session[t].ym = None
         /\ session'[t].registry = session[t].registry
         /\ session'[t].registryYm = session[t].registryYm
         /\ Revived(t) => Revived(t)'

\* Such a step keeps what the handlers know.
LEMMA HandlersKept ==
    ASSUME NEW c, NEW b \in Conns, b # c, ConnsKept(c), SessionsKept, HandlerInv(b), KeepInv(b),
           conn[b].pc = "binding" => session'[conn[b].s].closedAt # "past",
           conn[b].isNew /\ session'[conn[b].s].ym = None =>
             bySecret'[session[conn[b].s].id] = conn[b].s,
           has = None \/ (routes[has] # None /\ bySecret[has] = None =>
                            routes'[has] # None /\ bySecret'[has] = None),
           has' = has
    PROVE  HandlerInv(b)' /\ KeepInv(b)'
<1>1. Kin(conn'[b], conn[b])
  BY DEF ConnsKept
<1>2. HandlerInv(b)'
  <2>1. \A d \in Conns : conn'[d].isNew /\ conn'[d].s \in DOMAIN session =>
                           conn[d].isNew /\ conn[d].s = conn'[d].s
    BY DEF ConnsKept, Kin
  <2>2. conn[b].isNew => conn[b].s \in DOMAIN session
    BY DEF HandlerInv
  <2>3. conn'[b].isNew => \A d \in Conns : conn'[d].isNew /\ conn'[d].s = conn'[b].s => d = b
    BY <1>1, <2>1, <2>2 DEF HandlerInv, Kin
  <2> QED
    <3>1. /\ conn'[b].pc = conn[b].pc /\ conn'[b].kind = conn[b].kind
          /\ conn'[b].s = conn[b].s /\ conn'[b].isNew = conn[b].isNew
      BY <1>1 DEF Kin
    <3>2. conn[b].s \in DOMAIN session =>
            /\ conn[b].s \in DOMAIN session' /\ session'[conn[b].s].id = session[conn[b].s].id
            /\ session'[conn[b].s].ym = None => session[conn[b].s].ym = None
      BY DEF SessionsKept
    <3> QED
      BY <2>2, <2>3, <3>1, <3>2 DEF HandlerInv
<1>3. KeepInv(b)'
  <2>1. \A d \in Conns : conn'[d].up => conn[d].up /\ conn'[d].kind = conn[d].kind
    BY DEF ConnsKept, Kin
  <2>2. conn[b].pc \in {"claimed", "dropping", "stored"} => conn[b].s \in DOMAIN session
    BY DEF HandlerInv
  <2>3. conn'[b].pc = conn[b].pc /\ conn'[b].s = conn[b].s /\ conn'[b].id = conn[b].id
    BY <1>1 DEF Kin
  <2> QED
    BY <2>1, <2>2, <2>3 DEF KeepInv, SessionsKept
<1> QED
  BY <1>2, <1>3

\* Such a step keeps what a session knows of its registry connection.
LEMMA AttachKept ==
    ASSUME NEW c, NEW t \in DOMAIN session, ConnsKept(c), SessionsKept, AttachInv(t),
           session[t].registryYm \in Conns \cup {None}, t \notin evicted' => t \notin evicted,
           t \notin evicted' /\ routes[session[t].id] = t =>
             routes'[session[t].id] = t \/ Overtaken(t)'
    PROVE  AttachInv(t)'
<1>1. Dropped(t) => Dropped(t)'
  BY DEF Dropped, ConnsKept, Kin
<1>2. Overtaken(t) => Overtaken(t)'
  BY DEF Overtaken, SessionsKept
<1>3. session[t].registryYm # None => Kin(conn'[session[t].registryYm], conn[session[t].registryYm])
  BY DEF ConnsKept
<1>4. /\ session'[t].id = session[t].id /\ session'[t].registry = session[t].registry
      /\ session'[t].registryYm = session[t].registryYm
  BY DEF SessionsKept
<1> QED
  BY <1>1, <1>2, <1>3, <1>4 DEF AttachInv, Kin

\* Such a step keeps the invariant when it does at its own handler, slots and routes.
LEMMA SlotStep ==
    ASSUME GatewayInv, NEW c, ConnsKept(c), SessionsKept, TypeOK', IdInv', SlotInv',
           c \in Conns => HandlerInv(c)' /\ KeepInv(c)', has' = has,
           \A b \in Conns : /\ conn[b].pc = "binding" => session'[conn[b].s].closedAt # "past"
                            /\ b # c /\ conn[b].isNew /\ session'[conn[b].s].ym = None =>
                                 bySecret'[session[conn[b].s].id] = conn[b].s,
           \A i \in Objects : routes[i] # None /\ bySecret[i] = None =>
                                routes'[i] # None /\ bySecret'[i] = None,
           \A t \in DOMAIN session : /\ t \notin evicted' => t \notin evicted
                                     /\ t \notin evicted' /\ routes[session[t].id] = t =>
                                          routes'[session[t].id] = t \/ Overtaken(t)',
           \A t \in DOMAIN session' : t \in DOMAIN session \/ session'[t].registryYm = None
    PROVE  GatewayInv'
<1>1. ASSUME NEW b \in Conns
      PROVE  HandlerInv(b)' /\ KeepInv(b)'
  <2>1. HandlerInv(b) /\ KeepInv(b) /\ has \in Objects \cup {None}
    BY InvTypes DEF GatewayInv
  <2>2. has = None \/ (routes[has] # None /\ bySecret[has] = None =>
                         routes'[has] # None /\ bySecret'[has] = None)
    BY <2>1
  <2> QED
    BY <2>1, <2>2, HandlersKept
<1>2. ASSUME NEW t \in DOMAIN session'
      PROVE  AttachInv(t)'
  <2>1. CASE t \in DOMAIN session
    <3>1. AttachInv(t) /\ session[t].registryYm \in Conns \cup {None}
      BY <2>1, InvTypes DEF GatewayInv, SessionType
    <3> QED
      BY <2>1, <3>1, AttachKept
  <2>2. CASE t \notin DOMAIN session
    BY <2>2 DEF AttachInv
  <2> QED
    BY <2>1, <2>2
<1> QED
  BY <1>1, <1>2 DEF GatewayInv

-----------------------------------------------------------------------------
(* claim.                                                                  *)

\* A handler is given a session.
LEMMA GivenIs ==
    ASSUME GatewayInv, NEW c \in Conns, NEW s \in Objects, NEW n \in BOOLEAN, Given(c, s, n)
    PROVE  /\ conn' \in [Conns -> ConnType]
           /\ \A b \in Conns : b # c => conn'[b] = conn[b] /\ Kin(conn'[b], conn[b])
           /\ conn'[c].pc = "claimed" /\ conn'[c].kind = conn[c].kind /\ conn'[c].id = None
           /\ conn'[c].s = s /\ conn'[c].isNew = n /\ conn'[c].up = conn[c].up
<1> DEFINE k == [conn[c] EXCEPT !.pc = "claimed", !.id = None, !.s = s, !.isNew = n]
<1>1. conn[c] \in ConnType /\ conn \in [Conns -> ConnType]
  BY InvTypes
<1>2. conn' = [conn EXCEPT ![c] = k]
  BY DEF Given
<1>3. k \in ConnType
  BY <1>1 DEF ConnType
<1>4. /\ k.pc = "claimed" /\ k.kind = conn[c].kind /\ k.id = None /\ k.s = s
      /\ k.isNew = n /\ k.up = conn[c].up
  BY <1>1 DEF ConnType
<1> HIDE DEF k
<1>5. /\ conn' \in [Conns -> ConnType] /\ conn'[c] = k
      /\ \A b \in Conns : b # c => conn'[b] = conn[b] /\ Kin(conn'[b], conn[b])
  BY <1>1, <1>2, <1>3 DEF Kin
<1> QED
  BY <1>4, <1>5

\* claim of a session that has its slot: its id is the one that was asked for.
LEMMA ClaimKnownStep ==
    ASSUME GatewayInv, NEW c \in Conns, conn[c].pc = "sent", conn[c].kind = "main",
           Known(conn[c].id) # None, Given(c, Known(conn[c].id), FALSE),
           UNCHANGED <<session, bySecret, routes, evicted, has, restarts>>
    PROVE  GatewayInv'
<1> DEFINE s == Known(conn[c].id)
<1>1. /\ conn[c] \in ConnType /\ conn[c].id # None /\ s = bySecret[conn[c].id]
      /\ conn[c].id \in Objects
  BY InvTypes DEF Known, ConnType
<1>2. s \in Objects /\ s \in DOMAIN session /\ session[s].id = conn[c].id
  BY <1>1, InvTypes, SMTT(60) DEF GatewayInv, SlotInv
<1> HIDE DEF s
<1>3. /\ conn' \in [Conns -> ConnType]
      /\ \A b \in Conns : b # c => conn'[b] = conn[b] /\ Kin(conn'[b], conn[b])
      /\ conn'[c].pc = "claimed" /\ conn'[c].kind = conn[c].kind /\ conn'[c].id = None
      /\ conn'[c].s = s /\ conn'[c].isNew = FALSE /\ conn'[c].up = conn[c].up
  BY <1>2, GivenIs DEF s
<1>4. has \in Objects \cup {None} /\ has <= Len(session) /\ conn'[c].id <= Len(session)
  BY <1>3, Ids
<1>5. HandlerInv(c)'
  BY <1>2, <1>3 DEF HandlerInv
<1>6. KeepInv(c)'
  <2>1. KeepInv(c)
    BY DEF GatewayInv
  <2> QED
    BY <1>2, <1>3, <2>1 DEF KeepInv
<1>7. ASSUME NEW t \in DOMAIN session
      PROVE  session[t].registryYm # c
  BY NotRegistry
<1> QED
  BY <1>3, <1>4, <1>5, <1>6, <1>7, ConnStep

\* A fresh session comes after the others, which stay as they are.
LEMMA FreshSession ==
    ASSUME GatewayInv, NEW i \in Objects, session' = Append(session, NewSession(i)),
           Len(session) + 1 \in Objects
    PROVE  /\ session' \in Seq(SessionType) /\ Len(session') = Len(session) + 1
           /\ Len(session') <= MaxObjects
           /\ DOMAIN session' = DOMAIN session \cup {Len(session) + 1}
           /\ Len(session) + 1 \notin DOMAIN session
           /\ \A t \in DOMAIN session : session'[t] = session[t]
           /\ session'[Len(session) + 1] = NewSession(i)
<1>1. NewSession(i) \in SessionType
  BY DEF NewSession, SessionType
<1>2. session \in Seq(SessionType) /\ Len(session) \in Nat
  BY InvTypes
<1> QED
  BY <1>1, <1>2, GatewayAssumption, SMTT(60) DEF Objects

\* claim's new session n, its slot and its handler.
Makes(c, i, n) ==
    /\ i = IF conn[c].id # None /\ routes[conn[c].id] = None THEN conn[c].id ELSE n
    /\ session' = Append(session, NewSession(i))
    /\ bySecret' = [bySecret EXCEPT ![i] = n]
    /\ Given(c, n, TRUE)

\* claim makes a session, under the token's ids when nothing is routed there and under
\* fresh ones otherwise: neither has a slot or a route.
LEMMA ClaimNewStep ==
    ASSUME GatewayInv, NEW c \in Conns, conn[c].pc = "sent", conn[c].kind = "main",
           Known(conn[c].id) = None, NEW i, NEW n \in Objects, n = Len(session) + 1,
           Makes(c, i, n), UNCHANGED <<routes, evicted, has, restarts>>
    PROVE  GatewayInv'
<1>1. /\ conn[c] \in ConnType /\ conn[c].id \in Objects \cup {None}
      /\ conn[c].id <= Len(session)
      /\ conn[c].id # None => bySecret[conn[c].id] = None
  BY InvTypes DEF GatewayInv, IdInv, Known, ConnType
<1>2. \A j \in Objects : (bySecret[j] # None \/ routes[j] # None) => j <= Len(session)
  <2>1. ASSUME NEW t \in DOMAIN session
        PROVE  session[t].id <= Len(session)
    BY InvTypes, SMTT(60) DEF GatewayInv, IdInv, SessionType, Objects
  <2> QED
    BY <2>1 DEF GatewayInv, SlotInv
<1>3. n \in Nat /\ ~(n <= Len(session)) /\ n \in Objects
  BY InvTypes, SMTT(60)
<1>4. i \in Objects /\ bySecret[i] = None /\ routes[i] = None /\ i <= n
  BY <1>1, <1>2, <1>3, InvTypes, SMTT(60) DEF Objects, None, Makes
<1>5. /\ session' \in Seq(SessionType) /\ Len(session') = n /\ Len(session') <= MaxObjects
      /\ DOMAIN session' = DOMAIN session \cup {n} /\ n \notin DOMAIN session
      /\ \A t \in DOMAIN session : session'[t] = session[t]
      /\ session'[n] = NewSession(i)
  BY <1>4, FreshSession DEF Makes
<1>6. /\ session'[n].id = i /\ session'[n].ym = None /\ session'[n].closedAt = "zero"
      /\ session'[n].registryYm = None
  BY <1>5, SMTT(60) DEF NewSession
<1>7. /\ conn' \in [Conns -> ConnType]
      /\ \A b \in Conns : b # c => conn'[b] = conn[b]
      /\ conn'[c].pc = "claimed" /\ conn'[c].kind = "main" /\ conn'[c].id = None
      /\ conn'[c].s = n /\ conn'[c].isNew = TRUE /\ conn'[c].up = conn[c].up
  BY <1>3, GivenIs DEF Makes
<1>8. /\ bySecret' \in [Objects -> Objects \cup {None}] /\ bySecret'[i] = n
      /\ \A j \in Objects : j # i => bySecret'[j] = bySecret[j]
      /\ routes' = routes /\ evicted' = evicted /\ has' = has /\ restarts' = restarts
  BY <1>3, <1>4, InvTypes DEF Makes
<1>9. ConnsKept(c) /\ SessionsKept
  <2>1. \A t \in DOMAIN session : session[t].registryYm # c
    BY NotRegistry
  <2>2. ConnsKept(c)
    BY <1>5, <1>7, <2>1 DEF ConnsKept, Kin
  <2>3. \A t \in DOMAIN session : session[t].id \in Objects
    BY InvTypes DEF SessionType
  <2>4. SessionsKept
    <3>1. \A t \in DOMAIN session : Revived(t) => Revived(t)'
      BY <1>5, <1>8, <2>3, SMTT(60) DEF Revived
    <3> QED
      BY <1>5, <3>1 DEF SessionsKept
  <2> QED
    BY <2>2, <2>4
<1>10. TypeOK' /\ IdInv' /\ SlotInv'
  <2>1. TypeOK'
    BY <1>5, <1>7, <1>8 DEF GatewayInv, TypeOK
  <2>2. IdInv'
    <3>1. \A b \in Conns : conn'[b].id <= n
      <4>1. \A b \in Conns : conn[b].id <= Len(session) /\ conn[b].id \in Objects \cup {None}
        BY InvTypes DEF GatewayInv, IdInv, ConnType
      <4> QED
        BY <1>3, <1>7, <4>1, InvTypes, SMTT(60) DEF Objects, None
    <3>2. has <= n
      BY InvTypes, SMTT(60) DEF GatewayInv, IdInv, Objects, None
    <3> QED
      BY <1>4, <1>5, <1>6, <1>8, <3>1, <3>2 DEF GatewayInv, IdInv
  <2>3. ASSUME NEW j \in Objects, bySecret'[j] # None
        PROVE  bySecret'[j] \in DOMAIN session' /\ session'[bySecret'[j]].id = j
    BY <1>5, <1>6, <1>8, <2>3, SMTT(60) DEF GatewayInv, SlotInv
  <2>4. ASSUME NEW j \in Objects, routes'[j] # None
        PROVE  (/\ routes[j] \in DOMAIN session /\ session[routes[j]].id = j
                /\ session[routes[j]].ym # None
                /\ bySecret[j] = routes[j] \/ Revived(routes[j]))'
    <3>1. j # i /\ bySecret'[j] = bySecret[j] /\ routes'[j] = routes[j] /\ routes[j] # None
      BY <1>4, <1>8, <2>4
    <3>2. /\ routes[j] \in DOMAIN session /\ session[routes[j]].id = j
          /\ session[routes[j]].ym # None
          /\ bySecret[j] = routes[j] \/ Revived(routes[j])
      BY <3>1 DEF GatewayInv, SlotInv
    <3> QED
      BY <1>5, <3>1, <3>2 DEF Revived
  <2>5. ASSUME NEW t \in DOMAIN session'
        PROVE  /\ bySecret'[session'[t].id] # t => session'[t].closedAt # "stamped"
               /\ session'[t].ym = None => session'[t].closedAt = "zero"
    <3>1. CASE t = n
      BY <1>6, <3>1
    <3>2. CASE t \in DOMAIN session
      <4>1. session'[t] = session[t] /\ session[t].id \in Objects
        BY <1>5, <3>2, InvTypes DEF SessionType
      <4>2. bySecret'[session[t].id] # t => bySecret[session[t].id] # t
        BY <1>4, <1>8, <3>2, <4>1, InvTypes
      <4> QED
        BY <3>2, <4>1, <4>2 DEF GatewayInv, SlotInv
    <3> QED
      BY <1>5, <3>1, <3>2
  <2> QED
    BY <2>1, <2>2, <2>3, <2>4, <2>5 DEF SlotInv
<1>11. HandlerInv(c)' /\ KeepInv(c)'
  <2>1. HandlerInv(c)'
    <3>1. \A d \in Conns : conn[d].isNew => conn[d].s \in DOMAIN session
      BY DEF GatewayInv, HandlerInv
    <3> QED
      BY <1>5, <1>6, <1>7, <1>8, <3>1, SMTT(60) DEF HandlerInv
  <2>2. KeepInv(c)
    BY DEF GatewayInv
  <2>3. conn[c].id # None /\ i # conn[c].id => routes[conn[c].id] # None
    BY DEF Makes
  <2>4. conn[c].id # None /\ i # conn[c].id => bySecret'[conn[c].id] = None
    BY <1>1, <1>8
  <2>5. KeepInv(c)'
    BY <1>6, <1>7, <1>8, <2>2, <2>3, <2>4, SMTT(60) DEF KeepInv
  <2> QED
    BY <2>1, <2>5
<1>12. ASSUME NEW b \in Conns
       PROVE  /\ conn[b].pc = "binding" => session'[conn[b].s].closedAt # "past"
              /\ b # c /\ conn[b].isNew /\ session'[conn[b].s].ym = None =>
                   bySecret'[session[conn[b].s].id] = conn[b].s
  <2>1. HandlerInv(b)
    BY DEF GatewayInv
  <2>2. conn[b].isNew => conn[b].s \in DOMAIN session /\ session[conn[b].s].id \in Objects
    BY <2>1, InvTypes DEF HandlerInv, SessionType
  <2>3. conn[b].pc = "binding" => session'[conn[b].s].closedAt # "past"
    BY <1>5, <2>1 DEF HandlerInv
  <2>4. conn[b].isNew /\ session[conn[b].s].ym = None =>
          /\ bySecret[session[conn[b].s].id] = conn[b].s /\ conn[b].s # None
          /\ session[conn[b].s].id \in Objects
    BY <2>1, <2>2, InvTypes DEF HandlerInv
  <2>5. conn[b].isNew => session'[conn[b].s] = session[conn[b].s]
    BY <1>5, <2>2
  <2> QED
    BY <1>4, <1>8, <2>3, <2>4, <2>5
<1>13. \A j \in Objects : routes[j] # None /\ bySecret[j] = None =>
                            routes'[j] # None /\ bySecret'[j] = None
  BY <1>4, <1>8
<1>14. \A t \in DOMAIN session : /\ t \notin evicted' => t \notin evicted
                                 /\ t \notin evicted' /\ routes[session[t].id] = t =>
                                      routes'[session[t].id] = t \/ Overtaken(t)'
  BY <1>8
<1>15. \A t \in DOMAIN session' : t \in DOMAIN session \/ session'[t].registryYm = None
  BY <1>5, <1>6
<1> QED
  BY <1>8, <1>9, <1>10, <1>11, <1>12, <1>13, <1>14, <1>15, SlotStep

\* claim: the session of the id, a new one, or a refusal.
LEMMA ClaimStep ==
    ASSUME GatewayInv, NEW c \in Conns, Claim(c)
    PROVE  GatewayInv'
<1> DEFINE n == Len(session) + 1
<1> DEFINE i == IF conn[c].id # None /\ routes[conn[c].id] = None THEN conn[c].id ELSE n
<1>1. /\ conn[c].pc = "sent" /\ conn[c].kind = "main"
      /\ UNCHANGED <<routes, evicted, has, restarts>>
      /\ \/ /\ Known(conn[c].id) # None /\ Given(c, Known(conn[c].id), FALSE)
            /\ UNCHANGED <<session, bySecret>>
         \/ /\ conn' = [conn EXCEPT ![c] = Ended] /\ UNCHANGED <<session, bySecret>>
         \/ Known(conn[c].id) = None /\ n \in Objects /\ Makes(c, i, n)
  BY DEF Claim, Makes
<1>2. CASE /\ Known(conn[c].id) # None /\ Given(c, Known(conn[c].id), FALSE)
           /\ UNCHANGED <<session, bySecret>>
  BY <1>1, <1>2, ClaimKnownStep
<1>3. CASE conn' = [conn EXCEPT ![c] = Ended] /\ UNCHANGED <<session, bySecret>>
  BY <1>1, <1>3, EndStep
<1>4. CASE Known(conn[c].id) = None /\ n \in Objects /\ Makes(c, i, n)
  BY <1>1, <1>4, ClaimNewStep
<1> QED
  BY <1>1, <1>2, <1>3, <1>4

-----------------------------------------------------------------------------
(* bind and release.                                                       *)

\* setYamux: the session has a tunnel, and its grace starts anew.
LEMMA SetYamuxStep ==
    ASSUME GatewayInv, NEW c \in Conns, SetYamux(c)
    PROVE  GatewayInv'
<1> DEFINE s == conn[c].s
<1> DEFINE x == [session[s] EXCEPT !.ym = c, !.closedAt = "zero"]
<1> DEFINE h == Closing(conn, {session[s].ym})
<1> DEFINE k == [h[c] EXCEPT !.pc = "binding", !.isNew = FALSE]
<1>1. /\ HandlerInv(c) /\ conn[c].pc = "made" /\ s \in DOMAIN session /\ conn[c].kind = "main"
      /\ session[s] \in SessionType /\ session \in Seq(SessionType)
  BY InvTypes DEF GatewayInv, HandlerInv, SetYamux
<1>a. /\ bySecret' = bySecret /\ routes' = routes /\ evicted' = evicted /\ has' = has
      /\ restarts' = restarts
  BY DEF SetYamux
<1>2. session' = [session EXCEPT ![s] = x] /\ conn' = [h EXCEPT ![c] = k]
  BY DEF SetYamux
<1>3. h \in [Conns -> ConnType] /\ \A b \in Conns : Kin(h[b], conn[b])
  BY InvTypes, ClosingIsKin
<1> HIDE DEF h
<1>4. k \in ConnType /\ x \in SessionType
  <2>1. h[c] \in ConnType /\ c \in Conns \cup {None}
    BY <1>3
  <2>2. k \in ConnType
    BY <2>1 DEF ConnType
  <2>3. x \in SessionType
    BY <1>1, <2>1 DEF SessionType
  <2> QED
    BY <2>2, <2>3
<1>5. /\ k.pc = "binding" /\ k.kind = conn[c].kind /\ k.id = conn[c].id /\ k.s = s
      /\ k.isNew = FALSE /\ (k.up => conn[c].up)
  BY <1>3, SMTT(60) DEF ConnType, Kin
<1>6. /\ x.id = session[s].id /\ x.ym = c /\ x.closedAt = "zero"
      /\ x.registry = session[s].registry /\ x.registryYm = session[s].registryYm
  BY <1>1 DEF SessionType
<1> HIDE DEF k, x
<1>7. /\ conn' \in [Conns -> ConnType] /\ conn'[c] = k
      /\ \A b \in Conns : b # c => Kin(conn'[b], conn[b])
  BY <1>2, <1>3, <1>4
<1>8. /\ session' \in Seq(SessionType) /\ Len(session') = Len(session)
      /\ DOMAIN session' = DOMAIN session
      /\ session'[s] = x /\ \A t \in DOMAIN session : t # s => session'[t] = session[t]
  BY <1>1, <1>2, <1>4, SMTT(60)
<1>9. \A t \in DOMAIN session :
        /\ session'[t].id = session[t].id /\ (session[t].ym # None => session'[t].ym # None)
        /\ session'[t].closedAt \in {session[t].closedAt, "zero"}
        /\ session'[t].ym = None => session'[t].ym = session[t].ym
        /\ session[t].closedAt = "zero" => session'[t].closedAt = "zero"
        /\ session'[t].registry = session[t].registry
        /\ session'[t].registryYm = session[t].registryYm
  BY <1>6, <1>8, InvTypes
<1>10. /\ session'[s].ym # None /\ session'[s].closedAt = "zero" /\ conn'[c].s = s
       /\ conn'[c].pc = "binding" /\ conn'[c].kind = "main" /\ conn'[c].id = conn[c].id
       /\ conn'[c].isNew = FALSE /\ (conn'[c].up => conn[c].up)
  BY <1>1, <1>5, <1>6, <1>7, <1>8, InvTypes
<1> HIDE DEF s
<1>11. \A b \in Conns : /\ conn'[b].kind = conn[b].kind /\ conn'[b].id = conn[b].id
                        /\ conn'[b].s = conn[b].s /\ (conn'[b].isNew => conn[b].isNew)
                        /\ (conn'[b].up => conn[b].up) /\ (b # c => conn'[b].pc = conn[b].pc)
  BY <1>1, <1>7, <1>10 DEF Kin, s
<1>12. TypeOK' /\ IdInv' /\ SlotInv'
  <2>1. TypeOK'
    BY <1>a, <1>7, <1>8 DEF GatewayInv, TypeOK
  <2>2. IdInv'
    BY <1>a, <1>8, <1>9, <1>11 DEF GatewayInv, IdInv
  <2>3. SlotInv'
    BY <1>a, <1>8, <1>9, SMTT(60) DEF GatewayInv, SlotInv, Revived
  <2> QED
    BY <2>1, <2>2, <2>3
<1>13. ConnsKept(c) /\ SessionsKept
  <2>1. \A t \in DOMAIN session : session[t].registryYm # c
    BY <1>1, NotRegistry
  <2>2. ConnsKept(c)
    BY <1>1, <1>7, <1>10, <2>1 DEF ConnsKept
  <2>3. SessionsKept
    BY <1>a, <1>8, <1>9 DEF SessionsKept, Revived
  <2> QED
    BY <2>2, <2>3
<1>14. HandlerInv(c)' /\ KeepInv(c)'
  <2>1. HandlerInv(c)'
    BY <1>1, <1>8, <1>10 DEF HandlerInv
  <2>2. KeepInv(c)'
    BY <1>10, <1>11 DEF GatewayInv, KeepInv
  <2> QED
    BY <2>1, <2>2
<1>15. ASSUME NEW b \in Conns
       PROVE  /\ conn[b].pc = "binding" => session'[conn[b].s].closedAt # "past"
              /\ b # c /\ conn[b].isNew /\ session'[conn[b].s].ym = None =>
                   bySecret'[session[conn[b].s].id] = conn[b].s
  <2>1. HandlerInv(b)
    BY DEF GatewayInv
  <2> QED
    BY <1>a, <1>9, <2>1 DEF HandlerInv
<1>16. \A t \in DOMAIN session : /\ t \notin evicted' => t \notin evicted
                                 /\ t \notin evicted' /\ routes[session[t].id] = t =>
                                      routes'[session[t].id] = t \/ Overtaken(t)'
  BY <1>a
<1> QED
  BY <1>a, <1>8, <1>12, <1>13, <1>14, <1>15, <1>16, SlotStep

\* bind's routes: a session without its slot that is routed here was revived.
LEMMA RouteStep ==
    ASSUME GatewayInv, NEW c \in Conns, Route(c)
    PROVE  GatewayInv'
<1> DEFINE s == conn[c].s
<1> DEFINE i == session[s].id
<1>1. /\ HandlerInv(c) /\ conn[c].pc = "binding" /\ s \in DOMAIN session /\ conn[c].kind = "main"
      /\ session[s] \in SessionType /\ i \in Objects /\ s \in Objects
      /\ session[s].ym # None /\ session[s].closedAt # "past"
  BY InvTypes DEF GatewayInv, HandlerInv, Route, SessionType
<1>a. /\ session' = session /\ bySecret' = bySecret /\ evicted' = evicted /\ has' = has
      /\ restarts' = restarts
  BY DEF Route
<1>2. bySecret[i] = s \/ Revived(s)
  BY <1>1 DEF GatewayInv, SlotInv, Revived, SessionType
<1> HIDE DEF i, s
<1>3. /\ routes' \in [Objects -> Objects \cup {None}] /\ routes'[i] = s
      /\ \A j \in Objects : j # i => routes'[j] = routes[j]
      /\ \A j \in Objects : routes[j] # None => routes'[j] # None
  BY <1>1, InvTypes DEF Route, i, s
<1>4. OneMoved(conn', conn, c, "serving")
  <2>1. "serving" \in Moved
    BY DEF Moved
  <2> QED
    BY <1>1, <2>1, InvTypes, MovedAlone DEF Route
<1>5. /\ conn' \in [Conns -> ConnType] /\ conn'[c].pc = "serving" /\ conn'[c].kind = "main"
      /\ \A b \in Conns : /\ conn'[b].kind = conn[b].kind /\ conn'[b].id = conn[b].id
                          /\ conn'[b].s = conn[b].s /\ conn'[b].isNew = conn[b].isNew
                          /\ (conn'[b].up => conn[b].up) /\ (b # c => conn'[b].pc = conn[b].pc)
  BY <1>1, <1>4 DEF OneMoved, Kin
<1>6. \A t \in DOMAIN session : Revived(t) <=> Revived(t)'
  BY <1>a DEF Revived
<1>7. TypeOK' /\ IdInv' /\ SlotInv'
  <2>1. TypeOK'
    BY <1>a, <1>3, <1>5 DEF GatewayInv, TypeOK
  <2>2. IdInv'
    BY <1>a, <1>5 DEF GatewayInv, IdInv
  <2>0. SlotInv
    BY DEF GatewayInv
  <2>3. ASSUME NEW j \in Objects, routes'[j] # None
        PROVE  (/\ routes[j] \in DOMAIN session /\ session[routes[j]].id = j
                /\ session[routes[j]].ym # None
                /\ bySecret[j] = routes[j] \/ Revived(routes[j]))'
    <3>1. CASE j = i
      BY <1>1, <1>a, <1>2, <1>3, <3>1 DEF i, Revived
    <3>2. CASE j # i
      BY <1>a, <1>3, <2>0, <2>3, <3>2 DEF SlotInv, Revived
    <3> QED
      BY <3>1, <3>2
  <2>4. SlotInv'
    BY <1>a, <2>0, <2>3 DEF SlotInv
  <2> QED
    BY <2>1, <2>2, <2>4
<1>8. ConnsKept(c) /\ SessionsKept
  <2>1. \A t \in DOMAIN session : session[t].registryYm # c
    BY <1>1, NotRegistry
  <2>2. ConnsKept(c)
    BY <1>1, <1>4, <1>5, <2>1 DEF ConnsKept, OneMoved
  <2>3. SessionsKept
    BY <1>a, <1>6 DEF SessionsKept
  <2> QED
    BY <2>2, <2>3
<1>9. HandlerInv(c)' /\ KeepInv(c)'
  <2>1. HandlerInv(c)'
    BY <1>1, <1>a, <1>5 DEF HandlerInv
  <2>2. KeepInv(c)'
    BY <1>5 DEF GatewayInv, KeepInv
  <2> QED
    BY <2>1, <2>2
<1>10. ASSUME NEW b \in Conns
       PROVE  /\ conn[b].pc = "binding" => session'[conn[b].s].closedAt # "past"
              /\ b # c /\ conn[b].isNew /\ session'[conn[b].s].ym = None =>
                   bySecret'[session[conn[b].s].id] = conn[b].s
  <2>1. HandlerInv(b)
    BY DEF GatewayInv
  <2> QED
    BY <1>a, <2>1 DEF HandlerInv
<1>11. ASSUME NEW t \in DOMAIN session, routes[session[t].id] = t
       PROVE  routes'[session[t].id] = t \/ Overtaken(t)'
  <2>1. session[t].id \in Objects
    BY InvTypes DEF SessionType
  <2>2. CASE session[t].id # i \/ t = s
    BY <1>3, <1>11, <2>1, <2>2
  <2>3. CASE session[t].id = i /\ t # s
    <3>1. Revived(s) \/ Revived(t)
      BY <1>1, <1>2, <1>11, <2>3, InvTypes DEF GatewayInv, SlotInv
    <3> QED
      BY <1>1, <1>a, <1>6, <2>3, <3>1 DEF Overtaken, i
  <2> QED
    BY <2>2, <2>3
<1>12. \A j \in Objects : routes[j] # None /\ bySecret[j] = None =>
                            routes'[j] # None /\ bySecret'[j] = None
  BY <1>a, <1>3
<1> QED
  BY <1>a, <1>7, <1>8, <1>9, <1>10, <1>11, <1>12, SlotStep

\* release frees the slot of id i, and its routes; the handler returns.
Frees(c, i) ==
    /\ conn' = [conn EXCEPT ![c] = Ended]
    /\ bySecret' = [bySecret EXCEPT ![i] = None]
    /\ routes' = [routes EXCEPT ![i] = None]

\* release: a reservation whose handler failed before any bound it frees its slot, and the
\* routes left under its id were those of a session revived.
LEMMA ReleaseStep ==
    ASSUME GatewayInv, NEW c \in Conns, conn[c].pc = "stored", conn[c].isNew,
           session[conn[c].s].ym = None, Frees(c, session[conn[c].s].id),
           UNCHANGED <<session, evicted, has, restarts>>
    PROVE  GatewayInv'
<1> DEFINE s == conn[c].s
<1> DEFINE i == session[s].id
<1>1. /\ HandlerInv(c) /\ s \in DOMAIN session /\ i \in Objects /\ bySecret[i] = s /\ s # None
      /\ session[s].closedAt = "zero"
  BY InvTypes DEF GatewayInv, HandlerInv, SlotInv, SessionType
<1>2. \A b \in Conns : conn[b].isNew /\ conn[b].s = s => b = c
  BY <1>1 DEF HandlerInv
<1> HIDE DEF i, s
<1>3. /\ bySecret' \in [Objects -> Objects \cup {None}] /\ bySecret'[i] = None
      /\ routes' \in [Objects -> Objects \cup {None}] /\ routes'[i] = None
      /\ \A j \in Objects : j # i => bySecret'[j] = bySecret[j] /\ routes'[j] = routes[j]
  BY <1>1, InvTypes DEF i, s, Frees
<1>4. /\ conn' \in [Conns -> ConnType] /\ conn'[c] = Ended
      /\ \A b \in Conns : b # c => conn'[b] = conn[b]
  BY InvTypes, EndedType DEF Frees
<1>5. \A t \in DOMAIN session : session[t].id \in Objects /\ t # None
  BY InvTypes DEF SessionType
<1>6. \A t \in DOMAIN session : Revived(t) => Revived(t)'
  BY <1>3, <1>5 DEF Revived
<1>7. TypeOK' /\ IdInv' /\ SlotInv'
  <2>0. SlotInv
    BY DEF GatewayInv
  <2>1. TypeOK'
    BY <1>3, <1>4 DEF GatewayInv, TypeOK
  <2>2. IdInv'
    <3>1. conn'[c].id <= Len(session)
      BY <1>4, EndedType, Ids
    <3> QED
      BY <1>4, <3>1 DEF GatewayInv, IdInv
  <2>3. ASSUME NEW j \in Objects, routes'[j] # None
        PROVE  (/\ routes[j] \in DOMAIN session /\ session[routes[j]].id = j
                /\ session[routes[j]].ym # None
                /\ bySecret[j] = routes[j] \/ Revived(routes[j]))'
    <3>1. j # i /\ routes'[j] = routes[j] /\ bySecret'[j] = bySecret[j]
      BY <1>3, <2>3
    <3> QED
      BY <1>3, <2>0, <2>3, <3>1, SMTT(60) DEF SlotInv, Revived
  <2>4. ASSUME NEW t \in DOMAIN session, bySecret'[session[t].id] # t
        PROVE  session[t].closedAt # "stamped"
    <3>1. CASE t = s
      BY <1>1, <3>1
    <3>2. CASE t # s
      BY <1>1, <1>3, <1>5, <2>0, <2>4, <3>2 DEF SlotInv
    <3> QED
      BY <3>1, <3>2
  <2>5. SlotInv'
    <3>1. \A j \in Objects : bySecret'[j] # None =>
             bySecret'[j] \in DOMAIN session /\ session[bySecret'[j]].id = j
      BY <1>3, <2>0 DEF SlotInv
    <3>2. \A t \in DOMAIN session : session[t].ym = None => session[t].closedAt = "zero"
      BY <2>0 DEF SlotInv
    <3> QED
      BY <2>3, <2>4, <3>1, <3>2 DEF SlotInv
  <2> QED
    BY <2>1, <2>2, <2>5
<1>8. ConnsKept(c) /\ SessionsKept
  <2>1. \A t \in DOMAIN session : session[t].registryYm # c
    BY NotRegistry
  <2>2. ConnsKept(c)
    BY <1>4, <2>1, EndedType DEF ConnsKept, Kin
  <2>3. SessionsKept
    BY <1>6 DEF SessionsKept
  <2> QED
    BY <2>2, <2>3
<1>9. HandlerInv(c)' /\ KeepInv(c)'
  BY <1>4, EndedType DEF HandlerInv, KeepInv
<1>10. ASSUME NEW b \in Conns
       PROVE  /\ conn[b].pc = "binding" => session'[conn[b].s].closedAt # "past"
              /\ b # c /\ conn[b].isNew /\ session'[conn[b].s].ym = None =>
                   bySecret'[session[conn[b].s].id] = conn[b].s
  <2>1. HandlerInv(b)
    BY DEF GatewayInv
  <2>2. b # c /\ conn[b].isNew => conn[b].s \in DOMAIN session /\ conn[b].s # s
    BY <1>2, <2>1 DEF HandlerInv
  <2> QED
    BY <1>1, <1>3, <1>5, <2>1, <2>2 DEF HandlerInv
<1>11. \A j \in Objects : routes[j] # None /\ bySecret[j] = None =>
                            routes'[j] # None /\ bySecret'[j] = None
  BY <1>1, <1>3
<1>12. ASSUME NEW t \in DOMAIN session, routes[session[t].id] = t
       PROVE  routes'[session[t].id] = t \/ Overtaken(t)'
  <2>1. CASE session[t].id # i
    BY <1>3, <1>5, <1>12, <2>1
  <2>2. CASE session[t].id = i
    <3>1. Revived(t)
      BY <1>1, <1>5, <1>12, <2>2, SMTT(60) DEF GatewayInv, SlotInv, s
    <3> QED
      BY <1>6, <3>1 DEF Overtaken
  <2> QED
    BY <2>1, <2>2
<1> QED
  BY <1>7, <1>8, <1>9, <1>10, <1>11, <1>12, SlotStep

\* A handshake fails: its handler returns, and releases what it alone had reserved.
LEMMA ReplyFailsStep ==
    ASSUME GatewayInv, NEW c \in Conns, ReplyFails(c)
    PROVE  GatewayInv'
<1>1. /\ conn[c].pc = "stored" /\ conn' = [conn EXCEPT ![c] = Ended]
      /\ UNCHANGED <<session, evicted, has, restarts>>
  BY DEF ReplyFails
<1>2. CASE conn[c].isNew /\ session[conn[c].s].ym = None
  <2>1. Frees(c, session[conn[c].s].id)
    BY <1>2 DEF ReplyFails, Release, Frees
  <2> QED
    BY <1>1, <1>2, <2>1, ReleaseStep
<1>3. CASE ~(conn[c].isNew /\ session[conn[c].s].ym = None)
  <2>1. UNCHANGED <<bySecret, routes>>
    BY <1>3 DEF ReplyFails, Release
  <2> QED
    BY <1>1, <2>1, EndStep
<1> QED
  BY <1>2, <1>3

-----------------------------------------------------------------------------
(* The clock, the reaper and a restart.                                    *)

\* A reserved session passes its grace.
LEMMA AgeStep ==
    ASSUME GatewayInv, NEW s \in DOMAIN session, Age(s)
    PROVE  GatewayInv'
<1> DEFINE x == [session[s] EXCEPT !.closedAt = "past"]
<1>1. /\ session[s] \in SessionType /\ session \in Seq(SessionType) /\ session[s].id \in Objects
      /\ session[s].closedAt = "stamped"
      /\ \A c \in Conns : conn[c].pc \in {"unused", "serving", "done"}
  BY InvTypes DEF Age, SessionType
<1>a. /\ conn' = conn /\ bySecret' = bySecret /\ routes' = routes /\ evicted' = evicted
      /\ has' = has /\ restarts' = restarts
  BY DEF Age
<1>b. session' = [session EXCEPT ![s] = x]
  BY DEF Age
<1>2. bySecret[session[s].id] = s /\ session[s].ym # None
  <2>1. PICK i \in Objects : bySecret[i] = s
    BY DEF Age
  <2> QED
    BY <1>1, <2>1, InvTypes DEF GatewayInv, SlotInv
<1>3. x \in SessionType
  BY <1>1 DEF SessionType
<1>4. /\ x.id = session[s].id /\ x.ym = session[s].ym /\ x.closedAt = "past"
      /\ x.registry = session[s].registry /\ x.registryYm = session[s].registryYm
  BY <1>1 DEF SessionType
<1> HIDE DEF x
<1>5. /\ session' \in Seq(SessionType) /\ Len(session') = Len(session)
      /\ DOMAIN session' = DOMAIN session
      /\ session'[s] = x /\ \A t \in DOMAIN session : t # s => session'[t] = session[t]
  BY <1>1, <1>b, <1>3, SMTT(60)
<1>6. \A t \in DOMAIN session : /\ session'[t].id = session[t].id /\ session'[t].ym = session[t].ym
                                /\ session'[t].registry = session[t].registry
                                /\ session'[t].registryYm = session[t].registryYm
  BY <1>4, <1>5
<1>7. \A t \in DOMAIN session : Revived(t) => Revived(t)'
  BY <1>1, <1>a, <1>2, <1>5 DEF Revived
<1>8. TypeOK' /\ IdInv' /\ SlotInv'
  <2>1. TypeOK'
    BY <1>a, <1>5 DEF GatewayInv, TypeOK
  <2>2. IdInv'
    BY <1>a, <1>5, <1>6 DEF GatewayInv, IdInv
  <2>0. SlotInv
    BY DEF GatewayInv
  <2>3. ASSUME NEW j \in Objects, routes[j] # None
        PROVE  (/\ routes[j] \in DOMAIN session /\ session[routes[j]].id = j
                /\ session[routes[j]].ym # None
                /\ bySecret[j] = routes[j] \/ Revived(routes[j]))'
    BY <1>a, <1>5, <1>6, <1>7, <2>0, <2>3, SMTT(60) DEF SlotInv, Revived
  <2>4. ASSUME NEW t \in DOMAIN session
        PROVE  /\ bySecret'[session'[t].id] # t => session'[t].closedAt # "stamped"
               /\ session'[t].ym = None => session'[t].closedAt = "zero"
    BY <1>a, <1>2, <1>4, <1>5, <1>6, <2>0, SMTT(60) DEF SlotInv
  <2>5. \A j \in Objects : bySecret[j] # None =>
           bySecret[j] \in DOMAIN session /\ session[bySecret[j]].id = j
    BY <2>0 DEF SlotInv
  <2>6. SlotInv'
    BY <1>a, <1>5, <1>6, <2>3, <2>4, <2>5 DEF SlotInv
  <2> QED
    BY <2>1, <2>2, <2>6
<1>9. ConnsKept(None) /\ SessionsKept
  BY <1>a, <1>5, <1>6, <1>7, InvTypes DEF ConnsKept, SessionsKept, Kin
<1>10. ASSUME NEW b \in Conns
       PROVE  conn[b].pc # "binding" /\ ~conn[b].isNew
  BY <1>1 DEF GatewayInv, HandlerInv
<1> QED
  BY <1>a, <1>5, <1>8, <1>9, <1>10, InvTypes, SlotStep

\* reap: an evicted session loses its slot and the routes of its id, and whoever else had
\* them was revived; a stamped one keeps its slot.
LEMMA ReapStep ==
    ASSUME GatewayInv, Reap
    PROVE  GatewayInv'
<1> DEFINE ss == {bySecret[i] : i \in Reserved}
<1> DEFINE out == {s \in ss : Reapable(s)}
<1> DEFINE stamp == {s \in ss : IsClosed(s) /\ session[s].closedAt = "zero"}
<1>1. evicted = {} /\ evicted' = out /\ conn' = conn /\ has' = has /\ restarts' = restarts
  BY DEF Reap, ReapOf
<1>a. /\ bySecret' = [i \in Objects |-> IF bySecret[i] \in out THEN None ELSE bySecret[i]]
      /\ routes' = [i \in Objects |-> IF \E s \in out : session[s].id = i THEN None ELSE routes[i]]
  BY DEF Reap, ReapOf
<1>b. session' = [s \in DOMAIN session |->
                    IF s \in stamp THEN [session[s] EXCEPT !.closedAt = "stamped"] ELSE session[s]]
  BY DEF Reap, ReapOf
<1>2. \A s \in ss : /\ s \in DOMAIN session /\ s \in Objects /\ session[s].id \in Objects
                    /\ bySecret[session[s].id] = s
  BY InvTypes, SMTT(60) DEF GatewayInv, SlotInv, Reserved, SessionType
<1>3. /\ \A s \in out : s \in ss /\ session[s].ym # None /\ session[s].closedAt = "past"
      /\ \A s \in stamp : s \in ss /\ session[s].ym # None /\ session[s].closedAt = "zero"
  BY DEF Reapable, IsClosed
<1> HIDE DEF ss, out, stamp
<1>4. \A j \in Objects : (bySecret[j] \in out) <=> (\E s \in out : session[s].id = j)
  BY <1>2, <1>3, InvTypes, SMTT(60) DEF GatewayInv, SlotInv
<1>5. /\ bySecret' \in [Objects -> Objects \cup {None}] /\ routes' \in [Objects -> Objects \cup {None}]
      /\ \A j \in Objects : IF bySecret[j] \in out THEN bySecret'[j] = None /\ routes'[j] = None
                            ELSE bySecret'[j] = bySecret[j] /\ routes'[j] = routes[j]
  BY <1>a, <1>4, InvTypes
<1>6. /\ session' \in Seq(SessionType) /\ Len(session') = Len(session)
      /\ DOMAIN session' = DOMAIN session
      /\ \A t \in DOMAIN session : /\ t \notin stamp => session'[t] = session[t]
                                   /\ session'[t].id = session[t].id
                                   /\ session'[t].ym = session[t].ym
                                   /\ session'[t].registry = session[t].registry
                                   /\ session'[t].registryYm = session[t].registryYm
                                   /\ session'[t].closedAt =
                                        IF t \in stamp THEN "stamped" ELSE session[t].closedAt
  <2>1. ASSUME NEW t \in DOMAIN session
        PROVE  LET x == [session[t] EXCEPT !.closedAt = "stamped"] IN
               /\ x \in SessionType /\ session[t] \in SessionType
               /\ x.id = session[t].id /\ x.ym = session[t].ym /\ x.closedAt = "stamped"
               /\ x.registry = session[t].registry /\ x.registryYm = session[t].registryYm
    <3>1. session[t] \in SessionType
      BY InvTypes
    <3>2. [session[t] EXCEPT !.closedAt = "stamped"] \in SessionType
      BY <3>1 DEF SessionType
    <3> QED
      BY <3>1, <3>2 DEF SessionType
  <2>2. /\ DOMAIN session' = DOMAIN session /\ DOMAIN session = 1..Len(session)
        /\ Len(session) \in Nat
        /\ \A t \in DOMAIN session : session'[t] =
             IF t \in stamp THEN [session[t] EXCEPT !.closedAt = "stamped"] ELSE session[t]
        /\ session' = [t \in DOMAIN session |-> session'[t]]
    BY <1>b, InvTypes
  <2>3. \A t \in 1..Len(session) : session'[t] \in SessionType
    BY <2>1, <2>2
  <2>4. session' \in [1..Len(session) -> SessionType]
    BY <2>2, <2>3
  <2>5. session' \in Seq(SessionType) /\ Len(session') = Len(session)
    BY <2>2, <2>4, SMTT(60)
  <2> QED
    BY <2>1, <2>2, <2>5
<1>7. \A t \in DOMAIN session : Revived(t) => Revived(t)'
  BY <1>2, <1>3, <1>5, <1>6, InvTypes, SMTT(60) DEF Revived, SessionType

<1>8. TypeOK' /\ IdInv' /\ SlotInv'
  <2>1. TypeOK'
    <3>1. out \in SUBSET Objects
      BY <1>2, <1>3
    <3> QED
      BY <1>1, <1>5, <1>6, <3>1 DEF GatewayInv, TypeOK
  <2>2. IdInv'
    BY <1>1, <1>6 DEF GatewayInv, IdInv
  <2>3. ASSUME NEW j \in Objects, routes'[j] # None
        PROVE  (/\ routes[j] \in DOMAIN session /\ session[routes[j]].id = j
                /\ session[routes[j]].ym # None
                /\ bySecret[j] = routes[j] \/ Revived(routes[j]))'
    <3>1. bySecret'[j] = bySecret[j] /\ routes'[j] = routes[j]
      BY <1>5, <2>3
    <3>2. /\ routes[j] \in DOMAIN session /\ session[routes[j]].id = j
          /\ session[routes[j]].ym # None
          /\ bySecret[j] = routes[j] \/ Revived(routes[j])
      BY <2>3, <3>1 DEF GatewayInv, SlotInv
    <3>3. PICK u : u = routes[j]
      OBVIOUS
    <3>4. Revived(u) => Revived(u)'
      BY <1>7, <3>2, <3>3
    <3> QED
      BY <1>6, <3>1, <3>2, <3>3, <3>4 DEF Revived
  <2>4. ASSUME NEW j \in Objects, bySecret'[j] # None
        PROVE  bySecret'[j] \in DOMAIN session' /\ session'[bySecret'[j]].id = j
    BY <1>5, <1>6, <2>4, SMTT(60) DEF GatewayInv, SlotInv
  <2>5. ASSUME NEW t \in DOMAIN session
        PROVE  /\ bySecret'[session'[t].id] # t => session'[t].closedAt # "stamped"
               /\ session'[t].ym = None => session'[t].closedAt = "zero"
    <3>1. /\ bySecret[session[t].id] # t => session[t].closedAt # "stamped"
          /\ session[t].ym = None => session[t].closedAt = "zero"
          /\ session[t].id \in Objects
      BY InvTypes DEF GatewayInv, SlotInv, SessionType
    <3>2. CASE t \in stamp
      <4>1. bySecret[session[t].id] = t /\ t \notin out
        BY <1>2, <1>3, <3>2
      <4> QED
        BY <1>3, <1>5, <1>6, <3>1, <3>2, <4>1, SMTT(60)
    <3>3. CASE t \notin stamp
      BY <1>3, <1>5, <1>6, <3>1, <3>3, SMTT(60)
    <3> QED
      BY <3>2, <3>3
  <2>6. SlotInv'
    BY <1>6, <2>3, <2>4, <2>5 DEF SlotInv
  <2> QED
    BY <2>1, <2>2, <2>6
<1>9. ConnsKept(None) /\ SessionsKept
  BY <1>1, <1>6, <1>7, InvTypes DEF ConnsKept, SessionsKept, Kin
<1>10. ASSUME NEW b \in Conns
       PROVE  /\ conn[b].pc = "binding" => session'[conn[b].s].closedAt # "past"
              /\ b # None /\ conn[b].isNew /\ session'[conn[b].s].ym = None =>
                   bySecret'[session[conn[b].s].id] = conn[b].s
  <2>1. HandlerInv(b)
    BY DEF GatewayInv
  <2>2. conn[b].isNew => conn[b].s \in DOMAIN session /\ session[conn[b].s].id \in Objects
    BY <2>1, InvTypes DEF HandlerInv, SessionType
  <2> QED
    BY <1>3, <1>5, <1>6, <2>1, <2>2 DEF HandlerInv
<1>11. \A j \in Objects : routes[j] # None /\ bySecret[j] = None =>
                            routes'[j] # None /\ bySecret'[j] = None
  BY <1>2, <1>3, <1>5, InvTypes, SMTT(60)
<1>12. ASSUME NEW t \in DOMAIN session, t \notin evicted', routes[session[t].id] = t
       PROVE  routes'[session[t].id] = t \/ Overtaken(t)'
  <2>1. session[t].id \in Objects
    BY InvTypes DEF SessionType
  <2>2. CASE bySecret[session[t].id] \notin out
    BY <1>5, <1>12, <2>1, <2>2
  <2>3. CASE bySecret[session[t].id] \in out
    <3>1. Revived(t)
      BY <1>1, <1>12, <2>1, <2>3, InvTypes, SMTT(60) DEF GatewayInv, SlotInv
    <3> QED
      BY <1>6, <1>7, <3>1 DEF Overtaken
  <2> QED
    BY <2>2, <2>3
<1>13. /\ \A t \in DOMAIN session : t \notin evicted' => t \notin evicted
       /\ \A t \in DOMAIN session' : t \in DOMAIN session \/ session'[t].registryYm = None
       /\ None \notin Conns /\ has' = has
  BY <1>1, <1>6, InvTypes
<1> QED
  BY <1>8, <1>9, <1>10, <1>11, <1>12, <1>13, SlotStep

\* A restart of the gateway: no connection and no session is left.
LEMMA RestartStep ==
    ASSUME GatewayInv, Restart
    PROVE  GatewayInv'
<1>1. /\ restarts' \in 0..MaxRestarts /\ has' = has /\ evicted' = {}
      /\ bySecret' = Nothing /\ routes' = Nothing
      /\ \A i \in Objects : Nothing[i] = None
      /\ Nothing \in [Objects -> Objects \cup {None}]
  <2>1. restarts' \in 0..MaxRestarts
    BY InvTypes, GatewayAssumption, SMTT(60) DEF Restart
  <2> QED
    BY <2>1 DEF Restart, Nothing
<1>2. /\ conn' \in [Conns -> ConnType]
      /\ \A c \in Conns : (conn'[c] = conn[c] /\ conn[c].pc = "unused") \/ conn'[c] = Ended
  BY InvTypes, EndedType DEF Restart
<1>3. /\ session' \in Seq(SessionType) /\ Len(session') = Len(session)
      /\ DOMAIN session' = DOMAIN session
      /\ \A t \in DOMAIN session : session'[t] = NewSession(session[t].id)
  <2>1. ASSUME NEW t \in DOMAIN session
        PROVE  NewSession(session[t].id) \in SessionType
    <3>1. session[t].id \in Objects
      BY InvTypes DEF SessionType
    <3> QED
      BY <3>1 DEF NewSession, SessionType
  <2>2. /\ session' = [t \in 1..Len(session) |-> NewSession(session[t].id)]
        /\ DOMAIN session = 1..Len(session) /\ Len(session) \in Nat
    BY InvTypes DEF Restart
  <2>3. session' \in [1..Len(session) -> SessionType]
    BY <2>1, <2>2
  <2>4. session' \in Seq(SessionType) /\ Len(session') = Len(session)
    BY <2>2, <2>3, SMTT(60)
  <2> QED
    BY <2>2, <2>4
<1>4. \A t \in DOMAIN session : /\ session'[t].id = session[t].id /\ session'[t].ym = None
                                /\ session'[t].closedAt = "zero" /\ session'[t].registryYm = None
  BY <1>3, SMTT(60) DEF NewSession
<1>5. TypeOK' /\ IdInv' /\ SlotInv'
  <2>1. TypeOK'
    BY <1>1, <1>2, <1>3 DEF GatewayInv, TypeOK
  <2>2. IdInv'
    <3>1. \A c \in Conns : conn'[c].id <= Len(session)
      BY <1>2, EndedType, InvTypes, SMTT(60) DEF GatewayInv, IdInv, None
    <3> QED
      BY <1>1, <1>3, <1>4, <3>1 DEF GatewayInv, IdInv
  <2>3. SlotInv'
    BY <1>1, <1>3, <1>4 DEF SlotInv
  <2> QED
    BY <2>1, <2>2, <2>3
<1>6. ASSUME NEW c \in Conns
      PROVE  HandlerInv(c)' /\ KeepInv(c)'
  <2>1. HandlerInv(c) /\ KeepInv(c)
    BY DEF GatewayInv
  <2>2. conn'[c].pc \in {"unused", "done"} /\ ~conn'[c].isNew
    BY <1>2, <2>1, EndedType DEF HandlerInv
  <2>3. HandlerInv(c)'
    BY <2>2 DEF HandlerInv
  <2>4. \A b \in Conns : conn'[b].up => conn'[b] = conn[b]
    BY <1>2, EndedType
  <2>5. KeepInv(c)'
    BY <2>1, <2>2, <2>4 DEF KeepInv
  <2> QED
    BY <2>3, <2>5
<1>7. \A t \in DOMAIN session : AttachInv(t)'
  BY <1>4 DEF AttachInv
<1> QED
  BY <1>3, <1>5, <1>6, <1>7 DEF GatewayInv

-----------------------------------------------------------------------------
(* The theorems.                                                           *)

\* GatewayInv is inductive: every handler, the daemon, the clock, the reaper and a restart
\* keep it.
LEMMA NextKeepsGatewayInv ==
    GatewayInv /\ [Next]_vars => GatewayInv'
<1> SUFFICES ASSUME GatewayInv, [Next]_vars
             PROVE  GatewayInv'
  OBVIOUS
<1>1. CASE UNCHANGED vars
  <2>1. conn' \in [Conns -> ConnType] /\ \A b \in Conns : Kin(conn'[b], conn[b])
    BY <1>1, InvTypes DEF Kin, vars
  <2> QED
    BY <1>1, <2>1, QuietStep DEF vars
<1>2. ASSUME NEW c \in Conns, Handle(c)
      PROVE  GatewayInv'
  BY <1>2, ClaimStep, NegotiateStep, DropStep, ReplyStep, SetYamuxStep, RouteStep, TunnelClosedStep,
     AttachTargetStep, InstallStep, RegistrySteps DEF Handle
<1>3. ASSUME NEW c \in Conns, ReplyFails(c) \/ Notice(c) \/ Daemon(c)
      PROVE  GatewayInv'
  BY <1>3, ReplyFailsStep, NoticeStep, DaemonStep
<1>4. ASSUME NEW s \in DOMAIN session, Age(s) \/ CloseEvicted(s)
      PROVE  GatewayInv'
  BY <1>4, AgeStep, CloseEvictedStep
<1> QED
  BY <1>1, <1>2, <1>3, <1>4, ReapStep, RestartStep DEF Next

\* The gateway starts with no session and the daemon with no id.
LEMMA InitGatewayInv ==
    Init => GatewayInv
<1> SUFFICES ASSUME Init
             PROVE  GatewayInv
  OBVIOUS
<1>1. Unused \in ConnType
  BY DEF Unused, ConnType
<1>2. /\ conn \in [Conns -> ConnType] /\ \A c \in Conns : conn[c] = Unused
      /\ session = <<>> /\ session \in Seq(SessionType) /\ Len(session) = 0 /\ DOMAIN session = {}
  BY <1>1, SMTT(60) DEF Init
<1>3. /\ \A i \in Objects : bySecret[i] = None /\ routes[i] = None
      /\ bySecret \in [Objects -> Objects \cup {None}] /\ routes \in [Objects -> Objects \cup {None}]
      /\ evicted = {} /\ has = None /\ restarts = 0
  BY DEF Init, Nothing
<1>4. TypeOK
  BY <1>2, <1>3, GatewayAssumption, SMTT(60) DEF TypeOK
<1>5. IdInv /\ SlotInv
  BY <1>2, <1>3, SMTT(60) DEF IdInv, SlotInv, Unused, None
<1>6. \A c \in Conns : HandlerInv(c) /\ KeepInv(c)
  BY <1>2, SMTT(60) DEF HandlerInv, KeepInv, Unused
<1> QED
  BY <1>2, <1>4, <1>5, <1>6 DEF GatewayInv

\* In every state of the gateway: slots, routes, handlers and registry connections go with
\* their sessions.
THEOREM GatewayInvariant ==
    Spec => []GatewayInv
<1>1. Init => GatewayInv
  BY InitGatewayInv
<1>2. GatewayInv /\ [Next]_vars => GatewayInv'
  BY NextKeepsGatewayInv
<1> QED
  BY <1>1, <1>2, PTL DEF Spec

\* attachRegistry: no registry connection stays with a session that has dropped the feature,
\* or is gone, unless a session of its ids was revived.
THEOREM AttachmentsAreServed ==
    Spec => []AttachmentsServed
<1>1. GatewayInv => AttachmentsServed
  <2> SUFFICES ASSUME GatewayInv, NEW s \in DOMAIN session, session[s].registryYm # None,
                      conn[session[s].registryYm].pc = "serving", s \notin evicted, ~Dropped(s)
               PROVE  session[s].registry /\ (routes[session[s].id] = s \/ Overtaken(s))
    BY DEF AttachmentsServed, IsOpen
  <2> QED
    BY DEF GatewayInv, AttachInv
<1> QED
  BY <1>1, GatewayInvariant, PTL

\* claim: a daemon that has registered keeps its URL, unless its id is routed with no
\* reservation.
THEOREM DaemonKeepsItsURL ==
    Spec => KeepsItsURL
<1>1. GatewayInv /\ [Next]_vars =>
        [has # None /\ has' # has => routes[has] # None /\ bySecret[has] = None]_vars
  <2> SUFFICES ASSUME GatewayInv, Next, has # None, has' # has
               PROVE  routes[has] # None /\ bySecret[has] = None
    BY DEF vars
  <2>1. PICK c \in Conns : Reply(c)
    BY DEF Next, Handle, Daemon, Claim, Negotiate, Drop, SetYamux, Route, TunnelClosed,
       AttachTarget, Install, CheckInstalled, RegistryClosed, ReplyFails, Notice, Dial,
       DialRegistry, GiveUp, Age, CloseEvicted, Reap, ReapOf, Restart
  <2>2. conn[c].up /\ has' = session[conn[c].s].id /\ conn[c].pc = "stored" /\ conn[c].kind = "main"
    BY <2>1 DEF Reply, GatewayInv, HandlerInv
  <2> QED
    BY <2>2 DEF GatewayInv, KeepInv
<1> QED
  BY <1>1, GatewayInvariant, PTL DEF Spec, KeepsItsURL
=============================================================================
