-------------------------- MODULE OwnerLeaseProofs --------------------------
(***************************************************************************)
(* The owner Lease has one owner at a time, and implements Ownership, for  *)
(* any number of incarnations with one Lease each.                         *)
(***************************************************************************)
EXTENDS OwnerLease, TLAPS

USE SMTT(60)

\* The first state satisfies the invariant.
LEMMA LeaseInit == ASSUME Init PROVE LeaseInv
<1>1. TypeOK
  BY LeaseAssumption
     DEF Init, TypeOK, Time, Version, Request, MemType, CallType, NewMem, NoCall, RequestOf
<1>2. Past /\ CallsInOrder
  BY LeaseAssumption DEF Init, Past, CallsInOrder, NewMem, NoCall, RequestOf
<1>3. ActiveIsSafe
  <2>1. ASSUME NEW l \in Leases, NEW t \in Time PROVE ~Active(l, t)
    BY LeaseAssumption DEF Init, Active, NewMem, NoCall, Time
  <2>2. QED
    BY <2>1 DEF ActiveIsSafe
<1>4. QED
  BY <1>1, <1>2, <1>3 DEF LeaseInv

\* Each process's memory and call have their types.
LEMMA Typed ==
    ASSUME TypeOK, NEW l \in Leases
    PROVE  /\ mem[l] \in MemType /\ mem[l].seen \in Nat /\ mem[l].seenAt \in Nat
           /\ mem[l].heldAt \in Nat \cup {Never}
           /\ call[l] \in CallType /\ call[l].req \in Request /\ call[l].req.rv \in Nat
           /\ call[l].at \in Nat /\ call[l].holder \in Incarnations \cup {NoOne}
           /\ holder[l] \in Incarnations
  BY LeaseAssumption DEF TypeOK, MemType, CallType, Request, Time, Version

\* The server's steps keep the types.
LEMMA ServeType ==
    ASSUME TypeOK, (\E l \in Leases : Serve(l)) \/ (\E q \in late : ServeLate(q))
    PROVE  TypeOK'
<1>1. ASSUME NEW q \in Request, Apply(q) PROVE obj' \in [holder : Incarnations \cup {NoOne}, rv : Version]
  BY <1>1 DEF Apply, TypeOK, Version, Request
<1>2. ASSUME NEW l \in Leases, Serve(l) PROVE TypeOK'
  <2>1. [call[l] EXCEPT !.pc = "wrote"] \in CallType /\ NoCall(l) \in CallType
    BY LeaseAssumption, Typed DEF CallType, NoCall, RequestOf, Request, Version, Time
  <2>2. call' \in [Leases -> CallType]
    BY <1>2, <2>1 DEF Serve, TypeOK
  <2>3. obj' \in [holder : Incarnations \cup {NoOne}, rv : Version]
    BY <1>1, <1>2, Typed DEF Serve, TypeOK
  <2>4. QED
    BY <1>2, <2>2, <2>3 DEF Serve, TypeOK
<1>3. ASSUME NEW q \in late, ServeLate(q) PROVE TypeOK'
  BY <1>1, <1>3 DEF ServeLate, TypeOK
<1>4. QED
  BY <1>2, <1>3

\* The processes' steps and the clock keep the types.
LEMMA StepType ==
    ASSUME TypeOK,
           Tick \/ UNCHANGED vars
             \/ \E l \in Leases : Ensure(l) \/ Release(l) \/ EnsureDecide(l) \/ ReleaseDecide(l)
                                    \/ Hold(l) \/ Fail(l) \/ Restart(l)
    PROVE  TypeOK'
<1>1. CASE Tick \/ UNCHANGED vars
  BY <1>1 DEF Tick, vars, TypeOK, Time
<1>2. ASSUME NEW l \in Leases, Ensure(l) \/ Release(l) PROVE TypeOK'
  <2>0. ASSUME NEW f \in {"Ensure", "Release"}
        PROVE  [pc |-> "got", fn |-> f, holder |-> obj.holder, at |-> 0,
                req |-> RequestOf(l, "update", obj.rv)] \in CallType
    BY LeaseAssumption DEF RequestOf, TypeOK, CallType, Request, Version, Time
  <2>1. call' \in [Leases -> CallType]
    BY <1>2, <2>0 DEF Ensure, Release, Got, TypeOK
  <2>2. mem' \in [Leases -> MemType]
    BY <1>2, Typed DEF Ensure, Release, TypeOK, MemType
  <2>3. QED
    BY <1>2, <2>1, <2>2 DEF Ensure, Release, TypeOK
<1>3. ASSUME NEW l \in Leases, EnsureDecide(l) \/ ReleaseDecide(l) PROVE TypeOK'
  <2>1. NoCall(l) \in CallType
    BY LeaseAssumption DEF CallType, NoCall, RequestOf, Request, Version, Time
  <2>2. ASSUME NEW op \in {"create", "update", "delete"}, Send(l, op) PROVE call' \in [Leases -> CallType]
    BY <2>2, Typed DEF Send, RequestOf, TypeOK, CallType, Request, Version, Time
  <2>3. call' \in [Leases -> CallType]
    BY <1>3, <2>1, <2>2 DEF EnsureDecide, ReleaseDecide, TypeOK
  <2>4. mem' \in [Leases -> MemType]
    BY <1>3, Typed DEF EnsureDecide, ReleaseDecide, TypeOK, MemType, Time, Version
  <2>5. QED
    BY <1>3, <2>3, <2>4 DEF EnsureDecide, ReleaseDecide, TypeOK
<1>4. ASSUME NEW l \in Leases, Hold(l) PROVE TypeOK'
  <2>1. NoCall(l) \in CallType
    BY LeaseAssumption DEF CallType, NoCall, RequestOf, Request, Version, Time
  <2>2. Tenure(mem[l], call[l], call[l].at) \in MemType
    BY Typed DEF Tenure, NewMem, MemType, Time, Version
  <2>3. QED
    BY <1>4, <2>1, <2>2 DEF Hold, TypeOK
<1>5. ASSUME NEW l \in Leases, Fail(l) \/ Restart(l) PROVE TypeOK'
  <2>1. NoCall(l) \in CallType /\ NewMem \in MemType
    BY LeaseAssumption DEF CallType, NoCall, RequestOf, Request, Version, Time, MemType, NewMem
  <2>2. late' \in SUBSET Request
    BY <1>5, Typed DEF Fail, Restart, Abandon, TypeOK
  <2>3. QED
    BY <1>5, <2>1, <2>2 DEF Fail, Restart, Abandon, TypeOK
<1>6. QED
  BY <1>1, <1>2, <1>3, <1>4, <1>5

\* Every step keeps the types.
LEMMA LeaseTypeNext == ASSUME TypeOK, [Next]_vars PROVE TypeOK'
  BY ServeType, StepType DEF Next, Step

\* Every variable keeps its type (the code's own types).
THEOREM LeaseTypeCorrect == Spec => []TypeOK
<1>1. Init => TypeOK
  BY LeaseInit DEF LeaseInv
<1>2. QED
  BY <1>1, LeaseTypeNext, PTL DEF Spec

\* The bookkeeping survives every step.
LEMMA PastNext == ASSUME LeaseInv, [Next]_vars PROVE Past'
<1> USE DEF LeaseInv
<1>1. ASSUME NEW l \in Leases
      PROVE  /\ mem[l].seen \in Nat /\ mem[l].seen <= obj.rv
             /\ mem[l].heldAt \in Nat \cup {Never}
             /\ mem[l].heldAt # Never => mem[l].heldAt <= now
             /\ call[l].req.rv \in Nat /\ call[l].req.rv <= obj.rv
             /\ call[l].at \in Nat /\ call[l].at <= now
             /\ NoCall(l).req.rv = 0 /\ NoCall(l).at = 0
  BY Typed DEF Past, NoCall, RequestOf
<1>2. obj.rv \in Nat \ {0} /\ now \in Nat /\ Never \notin Nat
  BY LeaseAssumption DEF TypeOK, Past, Time, Version
<1>3. \A q \in late : q.rv \in Nat /\ q.rv <= obj.rv
  BY DEF Past, TypeOK, Request, Version
<1>4. CASE Tick \/ UNCHANGED vars
  BY <1>1, <1>2, <1>3, <1>4 DEF Tick, vars, Past
<1>5. ASSUME NEW l \in Leases, Ensure(l) \/ Release(l) PROVE Past'
  <2>1. ASSUME NEW m \in Leases PROVE call'[m].req.rv <= obj.rv /\ call'[m].at <= now
    BY <1>1, <1>2, <1>5 DEF Ensure, Release, Got, RequestOf, TypeOK
  <2>2. ASSUME NEW m \in Leases
        PROVE  mem'[m].seen <= obj.rv /\ (mem'[m].heldAt # Never => mem'[m].heldAt <= now)
    <3>1. \/ mem' = mem
          \/ mem' = [mem EXCEPT ![l].heldAt = Never]
      BY <1>5 DEF Ensure, Release
    <3>2. mem'[m].seen = mem[m].seen /\ mem'[m].heldAt \in {mem[m].heldAt, Never}
      BY <3>1, Typed DEF TypeOK, MemType
    <3>3. QED
      BY <1>1, <3>2
  <2>3. QED
    BY <1>2, <1>3, <1>5, <2>1, <2>2 DEF Ensure, Release, Past
<1>6. ASSUME NEW l \in Leases, EnsureDecide(l) \/ ReleaseDecide(l) PROVE Past'
  <2>1. ASSUME NEW m \in Leases PROVE call'[m].req.rv <= obj.rv /\ call'[m].at <= now
    BY <1>1, <1>2, <1>6 DEF EnsureDecide, ReleaseDecide, Send, RequestOf, TypeOK
  <2>2. ASSUME NEW m \in Leases
        PROVE  mem'[m].seen <= obj.rv /\ (mem'[m].heldAt # Never => mem'[m].heldAt <= now)
    BY <1>1, <1>2, <1>6 DEF EnsureDecide, ReleaseDecide, TypeOK
  <2>3. QED
    BY <1>2, <1>3, <1>6, <2>1, <2>2 DEF EnsureDecide, ReleaseDecide, Past
<1>7. ASSUME NEW l \in Leases, Serve(l) PROVE Past'
  <2>1. obj'.rv \in Nat /\ obj'.rv >= obj.rv
    BY <1>2, <1>7 DEF Serve, Apply
  <2>2. \/ call' = [call EXCEPT ![l].pc = "wrote"]
        \/ call' = [call EXCEPT ![l] = NoCall(l)]
    BY <1>7 DEF Serve
  <2>3. ASSUME NEW m \in Leases
        PROVE  call'[m].req.rv \in {call[m].req.rv, 0} /\ call'[m].at \in {call[m].at, 0}
    BY <1>1, <2>2, Typed DEF TypeOK, CallType
  <2>4. QED
    BY <1>1, <1>2, <1>3, <1>7, <2>1, <2>3 DEF Serve, Past
<1>8. ASSUME NEW l \in Leases, Hold(l) PROVE Past'
  <2>1. /\ Tenure(mem[l], call[l], call[l].at).seen <= obj.rv
        /\ Tenure(mem[l], call[l], call[l].at).heldAt # Never
             => Tenure(mem[l], call[l], call[l].at).heldAt <= now
    BY <1>1, <1>2, Typed DEF Tenure, NewMem, MemType
  <2>2. QED
    BY <1>1, <1>2, <1>3, <1>8, <2>1 DEF Hold, Past, TypeOK
<1>9. ASSUME NEW l \in Leases, Fail(l) \/ Restart(l) PROVE Past'
  BY <1>1, <1>2, <1>3, <1>9 DEF Fail, Restart, Abandon, NewMem, Past, TypeOK
<1>10. ASSUME NEW q \in late, ServeLate(q) PROVE Past'
  BY <1>1, <1>2, <1>3, <1>10 DEF ServeLate, Apply, Past, TypeOK
<1>11. QED
  BY <1>4, <1>5, <1>6, <1>7, <1>8, <1>9, <1>10 DEF Next, Step

\* The calls stay in order.
LEMMA CallsNext == ASSUME LeaseInv, [Next]_vars PROVE CallsInOrder'
<1> USE DEF LeaseInv
<1>1. ASSUME NEW l \in Leases
      PROVE  NoCall(l).req.by = holder[l] /\ NoCall(l).pc = "idle"
  BY DEF NoCall, RequestOf
<1>2. obj.rv \in Nat /\ \A l \in Leases : call[l].req.rv \in Nat /\ call[l].req.rv <= obj.rv
  BY Typed DEF TypeOK, Past, Version
<1>3. CASE Tick \/ UNCHANGED vars
  BY <1>3 DEF Tick, vars, CallsInOrder
<1>4. ASSUME NEW l \in Leases, Ensure(l) \/ Release(l) PROVE CallsInOrder'
  <2>1. /\ call'[l].req.by = holder[l] /\ call'[l].holder = obj.holder
        /\ call'[l].pc = "got" /\ (call'[l].fn = "Release" => mem'[l].heldAt = Never)
    BY <1>4 DEF Ensure, Release, Got, RequestOf, TypeOK, CallType, MemType
  <2>2. \A m \in Leases : m # l => call'[m] = call[m] /\ mem'[m] = mem[m]
    BY <1>4 DEF Ensure, Release, Got, TypeOK
  <2>3. QED
    BY <1>4, <2>1, <2>2 DEF Ensure, Release, CallsInOrder
<1>5. ASSUME NEW l \in Leases, EnsureDecide(l) PROVE CallsInOrder'
  <2>1. CASE Send(l, "create") \/ Send(l, "update")
    BY <1>5, <2>1 DEF EnsureDecide, Send, RequestOf, CallsInOrder, TypeOK
  <2>2. CASE call' = [call EXCEPT ![l] = NoCall(l)]
    BY <1>1, <1>5, <2>2 DEF EnsureDecide, CallsInOrder, TypeOK
  <2>3. QED
    BY <1>5, <2>1, <2>2 DEF EnsureDecide
<1>6. ASSUME NEW l \in Leases, ReleaseDecide(l) PROVE CallsInOrder'
  BY <1>1, <1>6 DEF ReleaseDecide, Send, RequestOf, CallsInOrder, TypeOK
<1>7. ASSUME NEW l \in Leases, Serve(l) PROVE CallsInOrder'
  <2>1. obj' = obj \/ obj'.rv = obj.rv + 1
    BY <1>7 DEF Serve, Apply
  <2>2. \/ call' = [call EXCEPT ![l].pc = "wrote"]
        \/ call' = [call EXCEPT ![l] = NoCall(l)]
    BY <1>7 DEF Serve
  <2>3. \A m \in Leases : m # l => call'[m] = call[m]
    BY <2>2 DEF TypeOK
  <2>4. \/ call'[l].pc = "idle" /\ call'[l].req.by = holder[l]
        \/ /\ call'[l].pc = "wrote" /\ call'[l].fn = call[l].fn /\ call'[l].req = call[l].req
    BY <1>1, <2>2, Typed DEF TypeOK, CallType
  <2>5. QED
    BY <1>2, <1>7, <2>1, <2>3, <2>4 DEF Serve, CallsInOrder
<1>8. ASSUME NEW l \in Leases, Hold(l) PROVE CallsInOrder'
  BY <1>1, <1>8 DEF Hold, CallsInOrder, TypeOK
<1>9. ASSUME NEW l \in Leases, Fail(l) \/ Restart(l) PROVE CallsInOrder'
  BY <1>1, <1>9 DEF Fail, Restart, Abandon, NewMem, CallsInOrder, TypeOK
<1>10. ASSUME NEW q \in late, ServeLate(q) PROVE CallsInOrder'
  BY <1>2, <1>10 DEF ServeLate, Apply, CallsInOrder
<1>11. QED
  BY <1>3, <1>4, <1>5, <1>6, <1>7, <1>8, <1>9, <1>10 DEF Next, Step

\* A step that leaves the object alone keeps the owner safe, when nobody becomes active,
\* what is newly seen is seen now, and a write that is newly under way respects the owner.
LEMMA SafeStays ==
    ASSUME LeaseInv, obj' = obj,
           \A l \in Leases, t \in Time : Active(l, t)' => Active(l, t),
           \A m \in Leases : mem'[m].seen = obj.rv =>
             (mem[m].seen = obj.rv /\ mem'[m].seenAt = mem[m].seenAt) \/ mem'[m].seenAt = now,
           \A q \in Request : Pending(q)' /\ q.rv = obj.rv /\ q.op # "create" =>
             Pending(q) \/ \A l \in Leases, t \in Time : Active(l, t) => q.op = "update" /\ q.by = holder[l]
    PROVE  ActiveIsSafe'
<1>1. SUFFICES ASSUME NEW l \in Leases, NEW t \in Time, Active(l, t)
               PROVE  /\ obj.holder = holder[l]
                      /\ \A m \in Leases : m # l /\ mem'[m].seen = obj.rv => t <= mem'[m].seenAt
                      /\ \A q \in Request : Pending(q)' /\ q.rv = obj.rv /\ q.op # "create" =>
                           q.op = "update" /\ q.by = holder[l]
  BY DEF ActiveIsSafe
<1>2. t <= now
  BY <1>1, Typed, LeaseAssumption DEF LeaseInv, Active, Past, Time
<1>3. QED
  BY <1>1, <1>2 DEF LeaseInv, ActiveIsSafe

\* A write the server applies keeps the owner safe: who was active before is the one
\* who wrote, and its version is new to everybody.
LEMMA SafeApplies ==
    ASSUME LeaseInv, OneLeaseEach, NEW q \in Request, Pending(q), Applies(q), Apply(q), mem' = mem, now' = now,
           \A l \in Leases, t \in Time : Active(l, t)' => Active(l, t) \/ (holder[l] = q.by /\ q.op # "delete"),
           \A r \in Request : Pending(r)' => Pending(r)
    PROVE  ActiveIsSafe'
<1>1. obj.rv \in Nat /\ obj'.rv = obj.rv + 1
  BY DEF LeaseInv, TypeOK, Version, Apply
<1>2. \A r \in Request : Pending(r) => r.rv # obj'.rv
  BY <1>1, Typed DEF LeaseInv, Past, Pending, Request, Version
<1>3. \A m \in Leases : mem'[m].seen # obj'.rv
  BY <1>1, Typed DEF LeaseInv, Past
<1>4. ASSUME NEW l \in Leases, NEW t \in Time, Active(l, t) PROVE q.op = "update" /\ holder[l] = q.by
  BY <1>4, LeaseAssumption DEF LeaseInv, ActiveIsSafe, Applies, Request
<1>5. ASSUME NEW l \in Leases, NEW t \in Time, Active(l, t)' PROVE obj'.holder = holder[l]
  BY <1>4, <1>5 DEF Apply
<1>6. QED
  BY <1>2, <1>3, <1>5 DEF ActiveIsSafe

\* Steps that neither decide nor reach the server.
LEMMA SafeOther ==
    ASSUME LeaseInv,
           Tick \/ UNCHANGED vars \/ \E l \in Leases : Ensure(l) \/ Release(l) \/ Hold(l) \/ Fail(l) \/ Restart(l)
    PROVE  ActiveIsSafe'
<1>0. obj.rv \in Nat \ {0} /\ now \in Nat /\ Duration \in Nat /\ Never \notin Nat
  BY LeaseAssumption DEF LeaseInv, TypeOK, Past, Time, Version
<1>1. CASE Tick \/ UNCHANGED vars
  <2>1. ASSUME NEW l \in Leases, NEW t \in Time, Active(l, t)' PROVE Active(l, t)
    BY <1>0, <1>1, <2>1 DEF Tick, vars, Active, Time
  <2>2. \A q \in Request : Pending(q)' => Pending(q)
    BY <1>1 DEF Tick, vars, Pending
  <2>3. obj' = obj /\ mem' = mem
    BY <1>1 DEF Tick, vars
  <2>4. QED
    BY <2>1, <2>2, <2>3, SafeStays
<1>2. ASSUME NEW l \in Leases, Ensure(l) \/ Release(l) PROVE ActiveIsSafe'
  <2>1. /\ \A m \in Leases : m # l => call'[m] = call[m] /\ mem'[m] = mem[m]
        /\ call'[l].pc = "got" /\ call[l].pc = "idle"
        /\ obj' = obj /\ now' = now /\ late' = late
    BY <1>2 DEF Ensure, Release, Got, LeaseInv, TypeOK
  <2>2. mem'[l].seen = mem[l].seen /\ mem'[l].seenAt = mem[l].seenAt /\ mem'[l].heldAt \in {mem[l].heldAt, Never}
    BY <1>2, Typed DEF Ensure, Release, LeaseInv, TypeOK, MemType
  <2>3. ASSUME NEW m \in Leases, NEW t \in Time, Active(m, t)' PROVE Active(m, t)
    BY <1>0, <2>1, <2>2, <2>3 DEF Active, Time
  <2>4. \A q \in Request : Pending(q)' => Pending(q)
    BY <2>1 DEF Pending
  <2>5. \A m \in Leases : mem'[m].seen = mem[m].seen /\ mem'[m].seenAt = mem[m].seenAt
    BY <2>1, <2>2
  <2>6. QED
    BY <2>1, <2>3, <2>4, <2>5, SafeStays
<1>3. ASSUME NEW l \in Leases, Hold(l) PROVE ActiveIsSafe'
  <2>1. /\ \A m \in Leases : m # l => call'[m] = call[m] /\ mem'[m] = mem[m]
        /\ call'[l].pc = "idle" /\ call[l].pc = "wrote"
        /\ obj' = obj /\ now' = now /\ late' = late
        /\ mem'[l] = Tenure(mem[l], call[l], call[l].at)
    BY <1>3 DEF Hold, NoCall, LeaseInv, TypeOK
  <2>2. /\ (mem'[l].seen = mem[l].seen /\ mem'[l].seenAt = mem[l].seenAt) \/ mem'[l].seen = 0
        /\ mem'[l].heldAt = mem[l].heldAt \/ (mem'[l].heldAt = call[l].at /\ call[l].fn = "Ensure")
    BY <2>1, Typed DEF Tenure, NewMem, MemType, LeaseInv, CallType
  <2>3. ASSUME NEW m \in Leases, NEW t \in Time, Active(m, t)' PROVE Active(m, t)
    BY <2>1, <2>2, <2>3 DEF Active
  <2>4. \A q \in Request : Pending(q)' => Pending(q)
    BY <2>1 DEF Pending
  <2>5. \A m \in Leases : mem'[m].seen = obj.rv => mem[m].seen = obj.rv /\ mem'[m].seenAt = mem[m].seenAt
    BY <1>0, <2>1, <2>2
  <2>6. QED
    BY <2>1, <2>3, <2>4, <2>5, SafeStays
<1>4. ASSUME NEW l \in Leases, Fail(l) \/ Restart(l) PROVE ActiveIsSafe'
  <2>1. /\ \A m \in Leases : m # l => call'[m] = call[m] /\ mem'[m] = mem[m]
        /\ call'[l].pc = "idle" /\ mem'[l] \in {mem[l], NewMem}
        /\ obj' = obj /\ now' = now
        /\ \A q \in late' : q \in late \/ (call[l].pc = "write" /\ q = call[l].req)
    BY <1>4 DEF Fail, Restart, Abandon, NoCall, LeaseInv, TypeOK
  <2>2. ASSUME NEW m \in Leases, NEW t \in Time, Active(m, t)' PROVE Active(m, t)
    BY <1>0, <2>1, <2>2 DEF Active, NewMem, Time
  <2>3. \A q \in Request : Pending(q)' => Pending(q)
    BY <2>1 DEF Pending
  <2>4. \A m \in Leases : mem'[m].seen = obj.rv => mem[m].seen = obj.rv /\ mem'[m].seenAt = mem[m].seenAt
    BY <1>0, <2>1 DEF NewMem
  <2>5. QED
    BY <2>1, <2>2, <2>3, <2>4, SafeStays
<1>5. QED
  BY <1>1, <1>2, <1>3, <1>4

\* A decision respects the owner: a takeover comes a duration after the version was
\* first seen, and only one's own Lease is deleted, after disowning it.
LEMMA SafeDecides ==
    ASSUME LeaseInv, OneLeaseEach, NEW l \in Leases, EnsureDecide(l) \/ ReleaseDecide(l)
    PROVE  ActiveIsSafe'
<1>0. /\ obj.rv \in Nat \ {0} /\ now \in Nat /\ Duration \in Nat \ {0} /\ Never \notin Nat
      /\ obj' = obj /\ now' = now /\ late' = late /\ call[l].pc = "got"
  BY LeaseAssumption DEF LeaseInv, TypeOK, Past, Time, Version, EnsureDecide, ReleaseDecide
<1>1. \A m \in Leases : m # l => call'[m] = call[m] /\ mem'[m] = mem[m]
  BY DEF EnsureDecide, ReleaseDecide, Send, LeaseInv, TypeOK
<1>2. mem'[l].heldAt \in {mem[l].heldAt, Never} /\ call'[l].pc \in {"write", "idle"}
  BY DEF EnsureDecide, ReleaseDecide, Send, NoCall, LeaseInv, TypeOK
<1>3. mem'[l].seen = obj.rv =>
        (mem[l].seen = obj.rv /\ mem'[l].seenAt = mem[l].seenAt) \/ mem'[l].seenAt = now
  BY DEF EnsureDecide, ReleaseDecide, LeaseInv, TypeOK
<1>4. ASSUME NEW m \in Leases, NEW t \in Time, Active(m, t)' PROVE Active(m, t)
  BY <1>0, <1>1, <1>2, <1>4 DEF Active, Time
<1>5. ASSUME NEW q \in Request, Pending(q)', q.rv = obj.rv, q.op # "create", ~Pending(q),
             NEW m \in Leases, NEW t \in Time, Active(m, t)
      PROVE  q.op = "update" /\ q.by = holder[m]
  <2>1. call'[l].pc = "write" /\ q = call'[l].req
    BY <1>0, <1>1, <1>5 DEF Pending
  <2>2. q.rv = call[l].req.rv /\ q.by = holder[l] /\ (Send(l, "update") \/ Send(l, "delete"))
    <3>1. ASSUME NEW op \in {"create", "update", "delete"}, Send(l, op)
          PROVE  call'[l].req.op = op /\ call'[l].req.by = holder[l] /\ call'[l].req.rv = call[l].req.rv
      BY <3>1 DEF Send, RequestOf, LeaseInv, TypeOK
    <3>2. Send(l, "create") \/ Send(l, "update") \/ Send(l, "delete")
      BY <2>1 DEF EnsureDecide, ReleaseDecide, NoCall, LeaseInv, TypeOK
    <3>3. ~Send(l, "create") /\ q.rv = call[l].req.rv /\ q.by = holder[l]
      <4>1. Send(l, "create") => q.op = "create"
        BY <2>1, <3>1
      <4>2. PICK op \in {"create", "update", "delete"} : Send(l, op)
        BY <3>2
      <4>3. q.by = holder[l] /\ q.rv = call[l].req.rv
        BY <2>1, <3>1, <4>2
      <4>4. QED
        BY <1>5, <4>1, <4>3
    <3>4. QED
      BY <3>2, <3>3
  <2>3. call[l].holder = obj.holder /\ obj.holder = holder[m]
    BY <1>0, <1>5, <2>2 DEF LeaseInv, CallsInOrder, ActiveIsSafe
  <2>4. CASE EnsureDecide(l)
    <3>1. q.op = "update" /\ (call[l].holder = holder[l] \/ Expired(l))
      <4>1. ASSUME NEW op, Send(l, op) PROVE call'[l].req.op = op
        BY <4>1 DEF Send, RequestOf, LeaseInv, TypeOK
      <4>2. Send(l, "create") \/ (Send(l, "update") /\ (call[l].holder = holder[l] \/ Expired(l)))
        BY <2>1, <2>4 DEF EnsureDecide, NoCall, LeaseInv, TypeOK
      <4>3. QED
        BY <1>5, <2>1, <4>1, <4>2
    <3>2. CASE Expired(l)
      <4>1. CASE m = l
        BY <2>2, <3>1, <4>1
      <4>2. CASE m # l
        <5>1. now < t + Duration
          BY <1>5 DEF Active
        <5>2. mem[l].seen = obj.rv
          BY <1>5, <2>2, <3>2 DEF Expired
        <5>3. t <= mem[l].seenAt
          BY <1>5, <4>2, <5>2 DEF LeaseInv, ActiveIsSafe
        <5>4. QED
          BY <1>0, <3>2, <5>1, <5>3, Typed DEF Expired, LeaseInv, Time
      <4>3. QED
        BY <4>1, <4>2
    <3>3. QED
      BY <2>2, <2>3, <3>1, <3>2
  <2>5. CASE ReleaseDecide(l)
    <3>1. call[l].holder = holder[l]
      BY <2>1, <2>5 DEF ReleaseDecide, NoCall, LeaseInv, TypeOK
    <3>2. m = l
      BY <2>3, <3>1 DEF OneLeaseEach
    <3>3. mem[l].heldAt = Never
      BY <1>0, <2>5 DEF ReleaseDecide, LeaseInv, CallsInOrder
    <3>4. QED
      BY <1>0, <1>5, <3>2, <3>3 DEF Active, Time
  <2>6. QED
    BY <2>4, <2>5
<1>6. QED
  BY <1>0, <1>1, <1>3, <1>4, <1>5, SafeStays

\* The server's steps respect the owner.
LEMMA SafeServes ==
    ASSUME LeaseInv, OneLeaseEach, (\E l \in Leases : Serve(l)) \/ (\E q \in late : ServeLate(q))
    PROVE  ActiveIsSafe'
<1>1. ASSUME NEW l \in Leases, Serve(l) PROVE ActiveIsSafe'
  <2>1. /\ call[l].pc = "write" /\ call[l].req \in Request /\ Pending(call[l].req)
        /\ mem' = mem /\ now' = now /\ late' = late /\ call[l].req.by = holder[l]
    BY <1>1, Typed DEF Serve, Pending, LeaseInv, CallsInOrder
  <2>2. \A m \in Leases : m # l => call'[m] = call[m]
    BY <1>1 DEF Serve, LeaseInv, TypeOK
  <2>3. CASE Applies(call[l].req)
    <3>1. /\ Apply(call[l].req) /\ call'[l].pc = "wrote" /\ call'[l].fn = call[l].fn
          /\ call'[l].req = call[l].req
      BY <1>1, <2>3, Typed DEF Serve, LeaseInv, TypeOK, CallType
    <3>2. \A r \in Request : Pending(r)' => Pending(r)
      BY <2>1, <2>2, <3>1 DEF Pending
    <3>3. ASSUME NEW m \in Leases, NEW t \in Time, Active(m, t)'
          PROVE  Active(m, t) \/ (holder[m] = call[l].req.by /\ call[l].req.op # "delete")
      BY <2>1, <2>2, <3>1, <3>3 DEF Active, LeaseInv, CallsInOrder
    <3>4. QED
      BY <2>1, <2>3, <3>1, <3>2, <3>3, SafeApplies
  <2>4. CASE ~Applies(call[l].req)
    <3>1. obj' = obj /\ call'[l].pc = "idle"
      BY <1>1, <2>4 DEF Serve, NoCall, LeaseInv, TypeOK
    <3>2. \A r \in Request : Pending(r)' => Pending(r)
      BY <2>1, <2>2, <3>1 DEF Pending
    <3>3. ASSUME NEW m \in Leases, NEW t \in Time, Active(m, t)' PROVE Active(m, t)
      BY <2>1, <2>2, <3>1, <3>3 DEF Active
    <3>4. QED
      BY <2>1, <3>1, <3>2, <3>3, SafeStays
  <2>5. QED
    BY <2>3, <2>4
<1>2. ASSUME NEW q \in late, ServeLate(q) PROVE ActiveIsSafe'
  <2>1. /\ q \in Request /\ Pending(q) /\ mem' = mem /\ now' = now /\ call' = call
        /\ late' \subseteq late
    BY <1>2 DEF ServeLate, Pending, LeaseInv, TypeOK
  <2>2. \A r \in Request : Pending(r)' => Pending(r)
    BY <2>1 DEF Pending
  <2>3. ASSUME NEW m \in Leases, NEW t \in Time, Active(m, t)' PROVE Active(m, t)
    BY <2>1, <2>3 DEF Active
  <2>4. CASE obj' = obj
    BY <2>1, <2>2, <2>3, <2>4, SafeStays
  <2>5. CASE Applies(q) /\ Apply(q)
    BY <2>1, <2>2, <2>3, <2>5, SafeApplies
  <2>6. QED
    BY <1>2, <2>4, <2>5 DEF ServeLate
<1>3. QED
  BY <1>1, <1>2

\* Every step keeps the invariant.
LEMMA LeaseNext == ASSUME LeaseInv, OneLeaseEach, [Next]_vars PROVE LeaseInv'
<1>1. ActiveIsSafe'
  BY SafeOther, SafeDecides, SafeServes DEF Next, Step
<1>2. QED
  BY <1>1, LeaseTypeNext, PastNext, CallsNext DEF LeaseInv

\* Who acts as the owner is the holder written on the object.
LEMMA OwnersHold == ASSUME LeaseInv, NEW l \in Leases, Holding(l) PROVE obj.holder = holder[l]
<1>1. mem[l].heldAt \in Time /\ (Duration * 5) \div 6 <= Duration
  BY LeaseAssumption, Typed DEF LeaseInv, Holding, Time
<1>2. Active(l, mem[l].heldAt)
  BY <1>1, LeaseAssumption DEF Holding, Active, LeaseInv, TypeOK, Time
<1>3. QED
  BY <1>1, <1>2 DEF LeaseInv, ActiveIsSafe

\* "no other incarnation can have taken it over since" (Holding): with one Lease per
\* incarnation there is never a second owner, however slow, lossy or late the API server.
THEOREM OneOwnerAtATime == OneLeaseEach => (Spec => []OneOwner)
<1>0. SUFFICES ASSUME OneLeaseEach PROVE Spec => []OneOwner
  OBVIOUS
<1>1. Init => LeaseInv
  BY LeaseInit
<1>2. LeaseInv /\ [Next]_vars => LeaseInv'
  BY <1>0, LeaseNext
<1>3. LeaseInv => OneOwner
  BY OwnersHold DEF OneOwner, Owners
<1>4. QED
  BY <1>1, <1>2, <1>3, PTL DEF Spec

\* Only an answer makes an owner.
LEMMA OwnersGrow ==
    ASSUME LeaseInv, Next, NEW m \in Leases, Holding(m)', ~Holding(m)
    PROVE  obj' = obj
<1>0. now \in Nat /\ now' \in Nat /\ now <= now' /\ mem[m].heldAt \in Nat \cup {Never}
  <2>1. now \in Nat /\ mem[m].heldAt \in Nat \cup {Never}
    BY Typed DEF LeaseInv, TypeOK, Time
  <2>2. now' = now \/ now' = now + 1
    BY DEF Next, Step, Tick, Ensure, Release, EnsureDecide, ReleaseDecide, Serve, Hold, Fail,
           Restart, ServeLate
  <2>3. QED
    BY <2>1, <2>2
<1>1. CASE mem'[m].heldAt = mem[m].heldAt
  BY <1>0, <1>1, LeaseAssumption DEF Holding
<1>2. CASE mem'[m].heldAt # mem[m].heldAt
  BY <1>2 DEF Next, Step, Tick, Ensure, Release, EnsureDecide, ReleaseDecide, Serve, Hold, Fail,
              Restart, ServeLate
<1>3. QED
  BY <1>1, <1>2

\* The Lease implements Ownership: an incarnation starts to act as the owner only when
\* no one does.
THEOREM LeaseIsOwnership == OneLeaseEach => (Spec => Exclusive)
<1>0. SUFFICES ASSUME OneLeaseEach PROVE Spec => Exclusive
  OBVIOUS
<1>1. Init => LeaseInv
  BY LeaseInit
<1>2. LeaseInv /\ [Next]_vars => LeaseInv'
  BY <1>0, LeaseNext
<1>3. Init => Abstract!Init
  BY DEF Init, Abstract!Init, Owners, Holding, NewMem
<1>h. LeaseInv => \A h \in Owners : h = obj.holder
  BY OwnersHold DEF Owners
<1>4. LeaseInv /\ [Next]_vars => [Abstract!Next]_Owners
  <2>1. SUFFICES ASSUME LeaseInv, [Next]_vars, Owners' # Owners PROVE Abstract!Next
    OBVIOUS
  <2>2. LeaseInv' /\ Next
    BY <1>2, <2>1 DEF vars, Owners, Holding
  <2>3. \A h \in Owners : h = obj.holder /\ h \in Incarnations
    BY <2>1, OwnersHold, LeaseAssumption DEF Owners
  <2>4. \A h \in Owners' : h = obj'.holder /\ h \in Incarnations
    <3>1. (\A h \in Owners : h = obj.holder)'
      BY <1>h, <2>2, PTL
    <3>2. QED
      BY <3>1, LeaseAssumption DEF Owners
  <2>5. CASE Owners' = {}
    BY <2>1, <2>5 DEF Abstract!Next, Abstract!Lapse
  <2>6. CASE Owners' # {}
    <3>1. PICK h \in Owners' : TRUE
      BY <2>6
    <3>2. Owners' = {h} /\ h = obj'.holder /\ h \in Incarnations
      BY <2>4, <3>1
    <3>3. CASE Owners = {}
      BY <3>2, <3>3 DEF Abstract!Next, Abstract!Acquire
    <3>4. CASE Owners # {}
      <4>1. h \notin Owners
        BY <2>1, <2>3, <3>2, <3>4
      <4>2. PICK m \in Leases : Holding(m)' /\ holder[m] = h
        BY <3>1 DEF Owners
      <4>3. ~Holding(m)
        BY <4>1, <4>2 DEF Owners
      <4>4. obj' = obj
        BY <2>1, <2>2, <4>2, <4>3, OwnersGrow
      <4>5. QED
        BY <2>3, <3>2, <3>4, <4>1, <4>4
    <3>5. QED
      BY <3>3, <3>4
  <2>7. QED
    BY <2>5, <2>6
<1>5. QED
  BY <1>1, <1>2, <1>3, <1>4, PTL DEF Spec, Exclusive, Abstract!Spec
=============================================================================
