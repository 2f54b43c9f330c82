----------------------------- MODULE OwnerLease -----------------------------
(***************************************************************************)
(* A connection's owner Lease (internal/k8s/owner/lease.go): which of the  *)
(* daemon's incarnations may adopt and garbage-collect the connection's    *)
(* objects.  An incarnation is one ~/.fleet on one machine; a restored     *)
(* copy of it elsewhere is another with the same labels.                   *)
(*                                                                         *)
(* Ensure and Release are read-decide-write rounds against the API server, *)
(* each of whose calls may be slow, fail, or take effect although its      *)
(* caller has given up on it.  The processes measure durations only, so    *)
(* one clock stands for all of theirs, whatever their offsets.             *)
(***************************************************************************)
EXTENDS Integers, FiniteSets

CONSTANTS
    Leases,        \* owner.Lease values of running daemons
    Incarnations,  \* what they write as the holder
    holder,        \* the incarnation each belongs to
    NoOne,         \* no incarnation
    Never,         \* no time
    Duration,      \* LeaseDuration
    MaxTime,       \* bound of the clock
    MaxWrites,     \* bound of the API server's revisions
    MaxLate        \* bound of the abandoned writes under way

ASSUME LeaseAssumption ==
    /\ holder \in [Leases -> Incarnations]
    /\ NoOne \notin Incarnations
    /\ Never \notin Nat
    /\ Duration \in Nat \ {0}
    /\ MaxTime \in Nat
    /\ MaxWrites \in Nat
    /\ MaxLate \in Nat

VARIABLES
    now,   \* time
    obj,   \* the Lease object: its holder (NoOne: there is none) and resource version
    mem,   \* per Lease: the version it has seen and since when, and when it held the Lease
    call,  \* per Lease: the Ensure or Release under way
    late   \* writes whose callers gave up and that the server may still apply

vars == <<now, obj, mem, call, late>>

Time == Nat
Version == Nat
Request == [op : {"create", "update", "delete"}, by : Incarnations, rv : Version]
MemType == [seen : Version, seenAt : Time, heldAt : Time \cup {Never}]
CallType == [pc : {"idle", "got", "write", "wrote"}, fn : {"Ensure", "Release"},
             holder : Incarnations \cup {NoOne}, req : Request, at : Time]

\* Every variable has its type.
TypeOK ==
    /\ now \in Time
    /\ obj \in [holder : Incarnations \cup {NoOne}, rv : Version]
    /\ mem \in [Leases -> MemType]
    /\ call \in [Leases -> CallType]
    /\ late \in SUBSET Request

\* A process that has just made its Lease: version 0 is no version of the object.
NewMem == [seen |-> 0, seenAt |-> 0, heldAt |-> Never]
RequestOf(l, op, rv) == [op |-> op, by |-> holder[l], rv |-> rv]
NoCall(l) == [pc |-> "idle", fn |-> "Ensure", holder |-> NoOne, at |-> 0, req |-> RequestOf(l, "update", 0)]

Init ==
    /\ now = 0
    /\ obj = [holder |-> NoOne, rv |-> 1]
    /\ mem = [l \in Leases |-> NewMem]
    /\ call = [l \in Leases |-> NoCall(l)]
    /\ late = {}

-----------------------------------------------------------------------------
(* The API server: a create finds no object, an update or a delete the     *)
(* very version it was computed from.                                      *)

Applies(q) ==
    IF q.op = "create" THEN obj.holder = NoOne ELSE obj.holder # NoOne /\ obj.rv = q.rv

Apply(q) ==
    /\ obj.rv < MaxWrites
    /\ obj' = [holder |-> IF q.op = "delete" THEN NoOne ELSE q.by, rv |-> obj.rv + 1]

\* The call's write reaches the server.  One that lost its race concludes nothing: Ensure
\* starts another round or gives up after its fourth, Release is done.
Serve(l) ==
    LET q == call[l].req IN
    /\ call[l].pc = "write"
    /\ IF Applies(q)
       THEN Apply(q) /\ call' = [call EXCEPT ![l].pc = "wrote"]
       ELSE call' = [call EXCEPT ![l] = NoCall(l)] /\ UNCHANGED obj
    /\ UNCHANGED <<now, mem, late>>

\* A write nobody waits for any more reaches the server, or is lost.
ServeLate(q) ==
    /\ late' = late \ {q}
    /\ UNCHANGED obj \/ (Applies(q) /\ Apply(q))
    /\ UNCHANGED <<now, mem, call>>

-----------------------------------------------------------------------------
(* The processes.                                                          *)

\* fn takes l.mu, and the server answers its Get with the object as it is.
Got(l, fn) ==
    call' = [call EXCEPT ![l] = [pc |-> "got", fn |-> fn, holder |-> obj.holder, at |-> 0,
                                 req |-> RequestOf(l, "update", obj.rv)]]

Ensure(l) ==
    /\ call[l].pc = "idle"
    /\ Got(l, "Ensure")
    /\ UNCHANGED <<now, obj, mem, late>>

\* Release disowns the Lease before anything else.
Release(l) ==
    /\ call[l].pc = "idle"
    /\ Got(l, "Release")
    /\ mem' = [mem EXCEPT ![l].heldAt = Never]
    /\ UNCHANGED <<now, obj, late>>

\* The write computed from what was read; its renew time is the clock after the Get.
Send(l, op) ==
    call' = [call EXCEPT ![l] = [pc |-> "write", fn |-> @.fn, holder |-> @.holder, at |-> now,
                                 req |-> RequestOf(l, op, @.req.rv)]]

\* expired: the other holder's Lease has gone unchanged for a duration on this clock.
Expired(l) == mem[l].seen = call[l].req.rv /\ now >= mem[l].seenAt + Duration

\* ensureOnce, once its Get has returned: create, renew or take over, or report the
\* other holder, noting the version seen and when.
EnsureDecide(l) ==
    /\ call[l].pc = "got" /\ call[l].fn = "Ensure"
    /\ \/ /\ call[l].holder = NoOne
          /\ Send(l, "create")
          /\ UNCHANGED mem
       \/ /\ call[l].holder = holder[l] \/ (call[l].holder # NoOne /\ Expired(l))
          /\ Send(l, "update")
          /\ UNCHANGED mem
       \/ /\ call[l].holder \notin {NoOne, holder[l]} /\ ~Expired(l)
          /\ mem' = [mem EXCEPT ![l] =
                       [seen |-> call[l].req.rv,
                        seenAt |-> IF @.seen = call[l].req.rv THEN @.seenAt ELSE now,
                        heldAt |-> Never]]
          /\ call' = [call EXCEPT ![l] = NoCall(l)]
    /\ UNCHANGED <<now, obj, late>>

\* Release, once its Get has returned: only its own Lease is deleted.
ReleaseDecide(l) ==
    /\ call[l].pc = "got" /\ call[l].fn = "Release"
    /\ IF call[l].holder = holder[l] THEN Send(l, "delete")
       ELSE call' = [call EXCEPT ![l] = NoCall(l)]
    /\ UNCHANGED <<now, obj, mem, late>>

\* What a write that took effect leaves a process with: an update ends its watch on
\* another holder (write), and Ensure's tenure starts at the time given.
Tenure(m, c, at) ==
    IF c.fn = "Release" THEN m
    ELSE IF c.req.op = "create" THEN [m EXCEPT !.heldAt = at]
    ELSE [NewMem EXCEPT !.heldAt = at]

\* Mutant: the tenure counts from when the answer came.
HoldFromAnswer(l) ==
    /\ call[l].pc = "wrote"
    /\ mem' = [mem EXCEPT ![l] = Tenure(@, call[l], now)]
    /\ call' = [call EXCEPT ![l] = NoCall(l)]
    /\ UNCHANGED <<now, obj, late>>

\* The answer of a write that took effect: the tenure counts from before the write.
Hold(l) ==
    /\ call[l].pc = "wrote"
    /\ mem' = [mem EXCEPT ![l] = Tenure(@, call[l], call[l].at)]
    /\ call' = [call EXCEPT ![l] = NoCall(l)]
    /\ UNCHANGED <<now, obj, late>>

\* The call is dropped: a write under way may still take effect.
Abandon(l) ==
    /\ \/ UNCHANGED late
       \/ /\ call[l].pc = "write" /\ Cardinality(late) < MaxLate
          /\ late' = late \cup {call[l].req}
    /\ call' = [call EXCEPT ![l] = NoCall(l)]

\* A round trip fails or its context ends: nothing is concluded.
Fail(l) ==
    /\ call[l].pc # "idle"
    /\ Abandon(l)
    /\ UNCHANGED <<now, obj, mem>>

\* The daemon restarts as the same incarnation, or makes the connection's Lease anew.
Restart(l) ==
    /\ mem[l] # NewMem
    /\ Abandon(l)
    /\ mem' = [mem EXCEPT ![l] = NewMem]
    /\ UNCHANGED <<now, obj>>

Tick ==
    /\ now < MaxTime
    /\ now' = now + 1
    /\ UNCHANGED <<obj, mem, call, late>>

Step(l) ==
    \/ Ensure(l) \/ Release(l) \/ EnsureDecide(l) \/ ReleaseDecide(l)
    \/ Serve(l) \/ Hold(l) \/ Fail(l) \/ Restart(l)

Next == Tick \/ (\E l \in Leases : Step(l)) \/ (\E q \in late : ServeLate(q))

Spec == Init /\ [][Next]_vars

-----------------------------------------------------------------------------
(* Properties.                                                             *)

\* Holding: the last Ensure held the Lease less than five sixths of a duration ago.
Holding(l) == mem[l].heldAt # Never /\ now < mem[l].heldAt + (Duration * 5) \div 6

\* The incarnations that may collect garbage now.
Owners == {holder[l] : l \in {m \in Leases : Holding(m)}}

\* "no other incarnation can have taken it over since" (Holding): two incarnations never
\* both act as the owner, however slow the API server and whoever restarts or releases.
OneOwner == \A g, h \in Owners : g = h

\* The Lease implements the ownership its users rely on: no hand-over without a time in
\* between when nobody acts as the owner.
Abstract == INSTANCE Ownership WITH owners <- Owners
Exclusive == Abstract!Spec

-----------------------------------------------------------------------------
(* Why: what keeps the owner the owner until its time is up.               *)

\* Each incarnation has one Lease at a time.
OneLeaseEach == \A l, m \in Leases : holder[l] = holder[m] => l = m

\* l holds the Lease from t on, or will once its answer comes, and that is less than a
\* duration ago.
Active(l, t) ==
    /\ \/ mem[l].heldAt = t
       \/ call[l].pc = "wrote" /\ call[l].fn = "Ensure" /\ call[l].at = t
    /\ now < t + Duration

\* Writes the server may still see.
Pending(q) == q \in late \/ \E l \in Leases : call[l].pc = "write" /\ call[l].req = q

\* A version once read is never more than the current one, and a time never ahead.
Past ==
    /\ obj.rv > 0
    /\ \A q \in late : q.rv <= obj.rv
    /\ \A l \in Leases :
         /\ mem[l].seen <= obj.rv
         /\ mem[l].heldAt # Never => mem[l].heldAt <= now
         /\ call[l].req.rv <= obj.rv
         /\ call[l].at <= now

\* What a call is doing follows from its function and what it read.
CallsInOrder ==
    \A l \in Leases :
      /\ call[l].req.by = holder[l]
      /\ call[l].pc = "got" /\ call[l].req.rv = obj.rv => call[l].holder = obj.holder
      /\ call[l].pc \in {"write", "wrote"} => (call[l].fn = "Release" <=> call[l].req.op = "delete")
      /\ call[l].pc # "idle" /\ call[l].fn = "Release" => mem[l].heldAt = Never

\* While l is active the object is its own, every other process counts from after l's
\* time, and no write under way may take the Lease over or delete it.
ActiveIsSafe ==
    \A l \in Leases, t \in Time : Active(l, t) =>
      /\ obj.holder = holder[l]
      /\ \A m \in Leases : m # l /\ mem[m].seen = obj.rv => t <= mem[m].seenAt
      /\ \A q \in Request : Pending(q) /\ q.rv = obj.rv /\ q.op # "create" =>
           q.op = "update" /\ q.by = holder[l]

LeaseInv == TypeOK /\ Past /\ CallsInOrder /\ ActiveIsSafe
=============================================================================
