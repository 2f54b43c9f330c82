-------------------------- MODULE JobStreamProofs --------------------------
(***************************************************************************)
(* Proofs about JobStream: StreamInv is inductive, and with it the five    *)
(* safety properties of the event stream hold for any number of streams    *)
(* and waits, any buffer and any length of the kept log.  They rest on     *)
(* facts about sequences of events: what moving one from one sequence to   *)
(* another keeps, and that the history emit keeps (Kept) is whole whatever *)
(* came before.                                                            *)
(***************************************************************************)
EXTENDS JobStream, FiniteSetTheorems, SequenceTheorems, WellFoundedInduction, TLAPS

\* A leaf goes to Zenon, with time for a busy machine, unless it names another prover.
USE ZenonT(60)

-----------------------------------------------------------------------------
(* Sequences of events.                                                    *)

\* An event emitted after all of s goes to its end: the order stays.
LEMMA OrderedAppend ==
    ASSUME NEW s \in Seq(Event), NEW ev \in Event, Ordered(s),
           \A g \in DOMAIN s : s[g].n < ev.n
    PROVE  Ordered(Append(s, ev))
BY SMTT(60) DEF Ordered, Event

\* What comes before t and before ev comes before t with ev at its end.
LEMMA BeforeAppend ==
    ASSUME NEW s \in Seq(Event), NEW t \in Seq(Event), NEW ev \in Event, Before(s, t),
           \A g \in DOMAIN s : s[g].n < ev.n
    PROVE  Before(s, Append(t, ev))
BY SMTT(60) DEF Before, Event

\* The rest of an ordered sequence is ordered, and comes after its first event.
LEMMA TailOrdered ==
    ASSUME NEW t \in Seq(Event), t # <<>>, Ordered(t)
    PROVE  /\ Tail(t) \in Seq(Event) /\ Head(t) \in Event
           /\ Head(t) = t[1] /\ 1 \in DOMAIN t
           /\ Len(Tail(t)) = Len(t) - 1
           /\ \A i \in DOMAIN Tail(t) : i + 1 \in DOMAIN t /\ Tail(t)[i] = t[i + 1]
           /\ Ordered(Tail(t))
           /\ \A i \in DOMAIN Tail(t) : Head(t).n < Tail(t)[i].n
<1>1. /\ Tail(t) \in Seq(Event) /\ Head(t) \in Event
      /\ Head(t) = t[1] /\ 1 \in DOMAIN t
      /\ Len(Tail(t)) = Len(t) - 1
      /\ \A i \in 1..Len(Tail(t)) : Tail(t)[i] = t[i + 1]
  BY HeadTailProperties, SMTT(60)
<1>2. \A i \in DOMAIN Tail(t) : i + 1 \in DOMAIN t /\ Tail(t)[i] = t[i + 1]
  BY <1>1, SMTT(60)
<1> QED
  BY <1>1, <1>2, SMTT(60) DEF Ordered

\* The first of t moves to the end of s, as relay sends it: the order stays.
LEMMA MoveHead ==
    ASSUME NEW s \in Seq(Event), NEW t \in Seq(Event), t # <<>>,
           Ordered(s), Ordered(t), Before(s, t)
    PROVE  /\ Ordered(Append(s, Head(t)))
           /\ Before(Append(s, Head(t)), Tail(t))
<1>1. \A g \in DOMAIN s : s[g].n < Head(t).n
  BY TailOrdered DEF Before
<1>2. Ordered(Append(s, Head(t)))
  BY <1>1, TailOrdered, OrderedAppend
<1>3. ASSUME NEW g \in DOMAIN Append(s, Head(t)), NEW i \in DOMAIN Tail(t)
      PROVE  Append(s, Head(t))[g].n < Tail(t)[i].n
  <2>1. CASE g \in DOMAIN s
    BY <2>1, TailOrdered, SMTT(60) DEF Before
  <2>2. CASE g = Len(s) + 1
    BY <2>2, TailOrdered, SMTT(60)
  <2> QED
    BY <2>1, <2>2, TailOrdered, SMTT(60)
<1> QED
  BY <1>2, <1>3 DEF Before

\* What comes after s and after ev comes after s with ev at its end.
LEMMA AppendBefore ==
    ASSUME NEW s \in Seq(Event), NEW t \in Seq(Event), NEW ev \in Event, Before(s, t),
           \A i \in DOMAIN t : ev.n < t[i].n
    PROVE  Before(Append(s, ev), t)
BY SMTT(60) DEF Before, Event

\* What holds of every event of t holds of every event of its tail.
LEMMA TailBefore ==
    ASSUME NEW s \in Seq(Event), NEW t \in Seq(Event), t # <<>>, Ordered(t)
    PROVE  /\ Before(s, t) => Before(s, Tail(t))
           /\ Before(t, s) => Before(Tail(t), s)
           /\ FromJob(t) => FromJob(Tail(t))
<1>1. \A i \in DOMAIN Tail(t) : i + 1 \in DOMAIN t /\ Tail(t)[i] = t[i + 1]
  BY TailOrdered
<1>2. Before(s, t) => Before(s, Tail(t))
  BY <1>1 DEF Before
<1>3. Before(t, s) => Before(Tail(t), s)
  BY <1>1 DEF Before
<1>4. FromJob(t) => FromJob(Tail(t))
  BY <1>1 DEF FromJob
<1> QED
  BY <1>2, <1>3, <1>4

\* The events of the job stay its events when one more is emitted.
LEMMA FromJobAppend ==
    ASSUME NEW s \in Seq(Event), NEW ev \in Event, FromJob(s),
           ev.n \in 1..Len(emitted), ev.kind = emitted[ev.n]
    PROVE  FromJob(Append(s, ev))
BY SMTT(60) DEF FromJob, Event

\* A sequence that ends on a JobDone still does without its first event, if it has another.
LEMMA TailEnds ==
    ASSUME NEW t \in Seq(Event), t # <<>>, EndsOnDone(t)
    PROVE  IF Len(t) = 1 THEN Head(t).kind = "done" /\ Tail(t) = <<>> ELSE EndsOnDone(Tail(t))
<1>1. /\ Tail(t) \in Seq(Event) /\ Head(t) = t[1]
      /\ Len(t) \in Nat \ {0}
      /\ Len(Tail(t)) = Len(t) - 1
      /\ \A i \in 1..Len(Tail(t)) : Tail(t)[i] = t[i + 1]
  BY HeadTailProperties, EmptySeq, SMTT(60)
<1>2. Len(Tail(t)) = 0 <=> Tail(t) = <<>>
  BY <1>1, EmptySeq
<1>3. CASE Len(t) = 1
  BY <1>1, <1>2, <1>3, SMTT(60) DEF EndsOnDone
<1>4. CASE Len(t) # 1
  <2>1. Tail(t)[Len(Tail(t))] = t[Len(t)]
    BY <1>1, <1>4, SMTT(60)
  <2> QED
    BY <1>1, <1>2, <1>4, <2>1, SMTT(60) DEF EndsOnDone
<1> QED
  BY <1>3, <1>4

\* Whether a sequence has a JobDone, when an event comes to its end or its first goes.
LEMMA DoneMoves ==
    ASSUME NEW s \in Seq(Event), NEW ev \in Event
    PROVE  /\ Done(Append(s, ev)) => Done(s) \/ ev.kind = "done"
           /\ s # <<>> /\ Done(Tail(s)) => Done(s)
           /\ s # <<>> /\ ~Done(s) => Head(s).kind # "done"
<1>1. Done(Append(s, ev)) => Done(s) \/ ev.kind = "done"
  BY SMTT(60) DEF Done, Dones
<1>2. ASSUME s # <<>>
      PROVE  (Done(Tail(s)) => Done(s)) /\ (~Done(s) => Head(s).kind # "done")
  <2>1. /\ Head(s) = s[1] /\ 1 \in DOMAIN s
        /\ \A i \in DOMAIN Tail(s) : i + 1 \in DOMAIN s /\ Tail(s)[i] = s[i + 1]
    BY <1>2, HeadTailProperties, SMTT(60)
  <2> QED
    BY <2>1 DEF Done, Dones
<1> QED
  BY <1>1, <1>2

\* The event that relay sends from its history is not lost, and the others stay.
LEMMA HoldsMoves ==
    ASSUME NEW s \in Seq(Event), NEW t \in Seq(Event), NEW ev \in Event, NEW k
    PROVE  /\ Holds(s, k) => Holds(Append(s, ev), k)
           /\ t # <<>> /\ Holds(t, k) => Holds(Append(s, Head(t)), k) \/ Holds(Tail(t), k)
<1>1. Holds(s, k) => Holds(Append(s, ev), k)
  BY SMTT(60) DEF Holds
<1>2. ASSUME t # <<>>, NEW g \in DOMAIN t, t[g] = [n |-> k, kind |-> emitted[k]]
      PROVE  Holds(Append(s, Head(t)), k) \/ Holds(Tail(t), k)
  <2>1. /\ Head(t) = t[1] /\ Head(t) \in Event /\ Len(Tail(t)) = Len(t) - 1
        /\ \A i \in 1..Len(Tail(t)) : Tail(t)[i] = t[i + 1]
        /\ Tail(t) \in Seq(Event)
    BY <1>2, HeadTailProperties, SMTT(60)
  <2>2. CASE g = 1
    <3>1. /\ Len(s) + 1 \in DOMAIN Append(s, Head(t))
          /\ Append(s, Head(t))[Len(s) + 1] = Head(t)
      BY <2>1, SMTT(60)
    <3> QED
      BY <1>2, <2>1, <2>2, <3>1 DEF Holds
  <2>3. CASE g # 1
    <3>1. g - 1 \in DOMAIN Tail(t) /\ Tail(t)[g - 1] = t[g]
      BY <2>1, <2>3, SMTT(60)
    <3> QED
      BY <1>2, <3>1 DEF Holds
  <2> QED
    BY <2>2, <2>3
<1> QED
  BY <1>1, <1>2 DEF Holds

-----------------------------------------------------------------------------
(* emit: the history it keeps.                                             *)

\* A set of positions that is not empty has an oldest.
LEMMA OldestIsLeast ==
    ASSUME NEW S, S \subseteq Nat, S # {}
    PROVE  Oldest(S) \in S /\ \A j \in S : Oldest(S) <= j
<1>1. PICK x \in S : \A y \in S : ~(<<y, x>> \in OpToRel(<, Nat))
  BY NatLessThanWellFounded, WFMin
<1>2. ASSUME NEW y \in Nat, NEW z \in Nat
      PROVE  <<y, z>> \in OpToRel(<, Nat) <=> y < z
  BY DEF OpToRel
<1>3. \A y \in S : ~(y < x)
  BY <1>1, <1>2
<1>4. \A y \in S : x <= y
  BY <1>3, SMTT(60)
<1> QED
  BY <1>4 DEF Oldest

\* The two pieces that dropOldestLogLocked joins.
LEMMA Pieces ==
    ASSUME NEW E, NEW s \in Seq(E), NEW i \in 1..Len(s)
    PROVE  /\ SubSeq(s, 1, i - 1) \in Seq(E) /\ Len(SubSeq(s, 1, i - 1)) = i - 1
           /\ \A j \in 1..(i - 1) : SubSeq(s, 1, i - 1)[j] = s[j]
           /\ SubSeq(s, i + 1, Len(s)) \in Seq(E) /\ Len(SubSeq(s, i + 1, Len(s))) = Len(s) - i
           /\ \A j \in 1..(Len(s) - i) : SubSeq(s, i + 1, Len(s))[j] = s[i + j]
<1>1. \A j \in 1..Len(s) : s[j] \in E
  BY SMTT(60)
<1>2. SubSeq(s, 1, i - 1) \in Seq(E) /\ Len(SubSeq(s, 1, i - 1)) = i - 1
  BY <1>1, SMTT(60)
<1>3. \A j \in 1..(i - 1) : SubSeq(s, 1, i - 1)[j] = s[j]
  BY <1>1, SMTT(60)
<1>4. SubSeq(s, i + 1, Len(s)) \in Seq(E) /\ Len(SubSeq(s, i + 1, Len(s))) = Len(s) - i
  BY <1>1, SMTT(60)
<1>5. \A j \in 1..(Len(s) - i) : SubSeq(s, i + 1, Len(s))[j] = s[i + j]
  BY <1>1, SMTT(60)
<1> QED
  BY <1>2, <1>3, <1>4, <1>5

\* What the elements of two joined sequences are.
LEMMA Concat ==
    ASSUME NEW E, NEW a \in Seq(E), NEW b \in Seq(E)
    PROVE  /\ a \o b \in Seq(E) /\ Len(a \o b) = Len(a) + Len(b)
           /\ \A j \in 1..Len(a) : (a \o b)[j] = a[j]
           /\ \A j \in 1..Len(b) : (a \o b)[Len(a) + j] = b[j]
BY SMTT(60)

\* Joined, they are the sequence without its i-th event.
LEMMA Joined ==
    ASSUME NEW E, NEW s \in Seq(E), NEW i \in 1..Len(s)
    PROVE  LET u == SubSeq(s, 1, i - 1) \o SubSeq(s, i + 1, Len(s)) IN
           /\ u \in Seq(E) /\ Len(u) = Len(s) - 1
           /\ \A j \in 1..(i - 1) : u[j] = s[j]
           /\ \A j \in i..(Len(s) - 1) : u[j] = s[j + 1]
<1> DEFINE a == SubSeq(s, 1, i - 1)
<1> DEFINE b == SubSeq(s, i + 1, Len(s))
<1>1. /\ a \in Seq(E) /\ Len(a) = i - 1 /\ \A j \in 1..(i - 1) : a[j] = s[j]
      /\ b \in Seq(E) /\ Len(b) = Len(s) - i /\ \A j \in 1..(Len(s) - i) : b[j] = s[i + j]
  BY Pieces, SMTT(60)
<1> HIDE DEF a, b
<1>2. /\ a \o b \in Seq(E) /\ Len(a \o b) = Len(a) + Len(b)
      /\ \A j \in 1..Len(a) : (a \o b)[j] = a[j]
      /\ \A j \in 1..Len(b) : (a \o b)[Len(a) + j] = b[j]
  <2>1. a \in Seq(E) /\ b \in Seq(E)
    BY <1>1
  <2> QED
    BY <2>1, Concat, SMTT(60)
<1> DEFINE t == a \o b
<1>3. Len(s) \in Nat /\ Len(t) = Len(s) - 1
  BY <1>1, <1>2, SMTT(60)
<1> HIDE DEF t
<1>4. \A j \in 1..(i - 1) : t[j] = s[j]
  BY <1>1, <1>2 DEF t
<1>5. ASSUME NEW j \in i..(Len(s) - 1)
      PROVE  t[j] = s[j + 1]
  <2>1. /\ j - (i - 1) \in 1..(Len(s) - i)
        /\ j = (i - 1) + (j - (i - 1)) /\ i + (j - (i - 1)) = j + 1
    BY <1>3, SMTT(60)
  <2>2. t[(i - 1) + (j - (i - 1))] = b[j - (i - 1)]
    BY <1>1, <1>2, <2>1 DEF t
  <2>3. b[j - (i - 1)] = s[i + (j - (i - 1))]
    BY <1>1, <2>1
  <2> QED
    BY <2>1, <2>2, <2>3
<1>6. t \in Seq(E)
  BY <1>2 DEF t
<1> QED
  BY <1>3, <1>4, <1>5, <1>6 DEF t, a, b

\* t is the sequence s, of m events, without the i-th.
Without(t, s, m, i) ==
    /\ DOMAIN s = 1..m /\ DOMAIN t = 1..(m - 1)
    /\ \A j \in 1..m : s[j].n \in Nat
    /\ \A j \in 1..(i - 1) : t[j] = s[j]
    /\ \A j \in i..(m - 1) : t[j] = s[j + 1]

\* t has the events of s but the one numbered k, in order.
AllBut(t, s, k) ==
    /\ Ordered(t)
    /\ \A j \in DOMAIN t : \E h \in DOMAIN s : t[j] = s[h] /\ s[h].n # k
    /\ \A h \in DOMAIN s : s[h].n # k => \E j \in DOMAIN t : t[j] = s[h]

\* An ordered stretch without one of its events is ordered, and has all the others.
LEMMA TakenOut ==
    ASSUME NEW m \in Nat, NEW i \in 1..m, NEW s, NEW t, Without(t, s, m, i), Ordered(s)
    PROVE  AllBut(t, s, s[i].n)
<1> USE DEF Without
<1>1. ASSUME NEW j \in DOMAIN t
      PROVE  \E h \in DOMAIN s : t[j] = s[h] /\ h # i
  <2>1. CASE j < i
    <3>1. j \in 1..(i - 1) /\ j \in DOMAIN s /\ j # i
      BY <2>1, SMTT(60)
    <3> QED
      BY <3>1
  <2>2. CASE ~(j < i)
    <3>1. j \in i..(m - 1) /\ j + 1 \in DOMAIN s /\ j + 1 # i
      BY <2>2, SMTT(60)
    <3> QED
      BY <3>1
  <2> QED
    BY <2>1, <2>2
<1>2. ASSUME NEW h \in DOMAIN s, h # i
      PROVE  \E j \in DOMAIN t : t[j] = s[h]
  <2>1. CASE h < i
    <3>1. h \in 1..(i - 1) /\ h \in DOMAIN t
      BY <2>1, SMTT(60)
    <3> QED
      BY <3>1
  <2>2. CASE i < h
    <3>1. h - 1 \in i..(m - 1) /\ (h - 1) + 1 = h /\ h - 1 \in DOMAIN t
      BY <2>2, SMTT(60)
    <3>2. t[h - 1] = s[h]
      BY <3>1
    <3> QED
      BY <3>1, <3>2
  <2> QED
    BY <1>2, <2>1, <2>2, SMTT(60)
<1>3. Ordered(t)
  <2> SUFFICES ASSUME NEW g \in DOMAIN t, NEW h \in DOMAIN t, g < h
               PROVE  t[g].n < t[h].n
    BY DEF Ordered
  <2>1. CASE h < i
    <3>1. t[g] = s[g] /\ t[h] = s[h] /\ g \in DOMAIN s /\ h \in DOMAIN s
      BY <2>1, SMTT(60)
    <3> QED
      BY <3>1 DEF Ordered
  <2>2. CASE g < i /\ ~(h < i)
    <3>1. t[g] = s[g] /\ t[h] = s[h + 1] /\ g \in DOMAIN s /\ h + 1 \in DOMAIN s /\ g < h + 1
      BY <2>2, SMTT(60)
    <3> QED
      BY <3>1 DEF Ordered
  <2>3. CASE ~(g < i)
    <3>1. /\ t[g] = s[g + 1] /\ t[h] = s[h + 1]
          /\ g + 1 \in DOMAIN s /\ h + 1 \in DOMAIN s /\ g + 1 < h + 1
      BY <2>3, SMTT(60)
    <3> QED
      BY <3>1 DEF Ordered
  <2> QED
    BY <2>1, <2>2, <2>3
<1>4. \A h \in DOMAIN s : h # i => s[h].n # s[i].n
  <2> SUFFICES ASSUME NEW h \in DOMAIN s, h # i
               PROVE  s[h].n # s[i].n
    OBVIOUS
  <2>1. h \in 1..m /\ i \in DOMAIN s /\ s[h].n \in Nat /\ s[i].n \in Nat
    OBVIOUS
  <2>2. CASE h < i
    BY <2>1, <2>2, SMTT(60) DEF Ordered
  <2>3. CASE i < h
    <3>1. s[i].n < s[h].n
      BY <2>1, <2>3 DEF Ordered
    <3> QED
      BY <2>1, <3>1, SMTT(60)
  <2> QED
    BY <2>1, <2>2, <2>3, SMTT(60)
<1> QED
  BY <1>1, <1>2, <1>3, <1>4 DEF AllBut

\* Together: what dropOldestLogLocked leaves of a stretch of the job's events.
LEMMA DropStep ==
    ASSUME NEW s \in Seq(Event), Ordered(s), NEW i \in 1..Len(s)
    PROVE  LET u == SubSeq(s, 1, i - 1) \o SubSeq(s, i + 1, Len(s)) IN
           u \in Seq(Event) /\ AllBut(u, s, s[i].n)
<1> DEFINE t == SubSeq(s, 1, i - 1) \o SubSeq(s, i + 1, Len(s))
<1>1. /\ t \in Seq(Event) /\ Len(t) = Len(s) - 1
      /\ \A j \in 1..(i - 1) : t[j] = s[j]
      /\ \A j \in i..(Len(s) - 1) : t[j] = s[j + 1]
  BY Joined
<1> HIDE DEF t
<1>2. DOMAIN t = 1..(Len(s) - 1) /\ DOMAIN s = 1..Len(s) /\ Len(s) \in Nat
  <2>1. DOMAIN t = 1..Len(t) /\ DOMAIN s = 1..Len(s) /\ Len(s) \in Nat
    BY <1>1, SMTT(60)
  <2> QED
    BY <1>1, <2>1
<1>3. \A j \in 1..Len(s) : s[j].n \in Nat
  <2>1. \A j \in 1..Len(s) : s[j] \in Event
    BY <1>2, SMTT(60)
  <2>2. \A e \in Event : e.n \in Nat
    BY DEF Event
  <2> QED
    BY <2>1, <2>2
<1>4. AllBut(t, s, s[i].n)
  <2>1. Without(t, s, Len(s), i)
    BY <1>1, <1>2, <1>3 DEF Without
  <2>2. Len(s) \in Nat
    BY <1>2
  <2> QED
    BY <2>1, <2>2, TakenOut
<1> QED
  BY <1>1, <1>4 DEF t

\* The logs from the k-th event on: a finite set, and fewer the later one starts.
LEMMA LogsFromType ==
    ASSUME NEW em \in Seq(Kinds), NEW k \in Nat, NEW l \in Nat, k <= l
    PROVE  LET from(i) == {j \in i..Len(em) : em[j] = "log"} IN
           /\ IsFiniteSet(from(k)) /\ Cardinality(from(k)) \in Nat
           /\ Cardinality(from(l)) \in Nat /\ Cardinality(from(l)) <= Cardinality(from(k))
           /\ k \in from(k) /\ k < l => Cardinality(from(l)) < Cardinality(from(k))
<1> DEFINE from(i) == {j \in i..Len(em) : em[j] = "log"}
<1>1. IsFiniteSet(k..Len(em))
  BY FS_Interval, SMTT(60)
<1>2. IsFiniteSet(from(k))
  <2>1. from(k) \in SUBSET (k..Len(em))
    OBVIOUS
  <2> QED
    BY <1>1, <2>1, FS_Subset
<1>3. from(l) \in SUBSET from(k) /\ (k \in from(k) /\ k < l => from(l) # from(k))
  BY SMTT(60)
<1>4. IsFiniteSet(from(l))
  BY <1>2, <1>3, FS_Subset
<1> HIDE DEF from
<1>5. Cardinality(from(k)) \in Nat /\ Cardinality(from(l)) \in Nat
  BY <1>2, <1>4, FS_CardinalityType
<1>6. /\ Cardinality(from(l)) <= Cardinality(from(k))
      /\ Cardinality(from(k)) = Cardinality(from(l)) => from(k) = from(l)
  BY <1>2, <1>3, FS_Subset
<1>7. k \in from(k) /\ k < l => Cardinality(from(l)) < Cardinality(from(k))
  BY <1>3, <1>5, <1>6, SMTT(60)
<1> QED
  BY <1>2, <1>5, <1>6, <1>7 DEF from

\* When an ordered stretch h of the events em has every log from its oldest on, its
\* logs are as many as those of em from there on.
LEMMA CountLogs ==
    ASSUME NEW em \in Seq(Kinds), NEW h \in Seq(Event), Ordered(h),
           \A g \in DOMAIN h : h[g].n \in 1..Len(em) /\ h[g].kind = em[h[g].n],
           Logs(h) # {}, NEW k0, k0 = h[Oldest(Logs(h))].n,
           \A k \in k0..Len(em) : em[k] = "log" => \E g \in DOMAIN h : h[g].n = k
    PROVE  /\ k0 \in 1..Len(em) /\ em[k0] = "log"
           /\ \A g \in Logs(h) : k0 <= h[g].n
           /\ IsFiniteSet(Logs(h))
           /\ Cardinality(Logs(h)) = Cardinality({j \in k0..Len(em) : em[j] = "log"})
<1> DEFINE L == Logs(h)
<1> DEFINE T == {j \in k0..Len(em) : em[j] = "log"}
<1> DEFINE f == [g \in L |-> h[g].n]
<1> DEFINE o == Oldest(L)
<1>1. /\ L \subseteq DOMAIN h /\ L \subseteq Nat
      /\ \A g \in L : h[g].kind = "log"
  BY SMTT(60) DEF Logs
<1>2. IsFiniteSet(L)
  <2>1. L \in SUBSET (1..Len(h)) /\ 1 \in Int /\ Len(h) \in Int
    BY <1>1, SMTT(60)
  <2>2. IsFiniteSet(1..Len(h))
    BY <2>1, FS_Interval
  <2> QED
    BY <2>1, <2>2, FS_Subset
<1>3. o \in L /\ \A g \in L : o <= g
  BY <1>1, OldestIsLeast, SMTT(20)
<1> HIDE DEF L, o
<1>4. k0 = h[o].n
  BY DEF o, L
<1>5. k0 \in 1..Len(em) /\ em[k0] = "log"
  BY <1>1, <1>3, <1>4
<1>6. ASSUME NEW g \in L
      PROVE  k0 <= h[g].n /\ h[g].n \in T
  <2>1. /\ o \in DOMAIN h /\ g \in DOMAIN h /\ o <= g
        /\ h[g].n \in 1..Len(em) /\ em[h[g].n] = "log"
    BY <1>1, <1>3
  <2>2. CASE o = g
    BY <1>4, <1>5, <2>1, <2>2, SMTT(60)
  <2>3. CASE o < g
    <3>1. h[o].n < h[g].n
      BY <2>1, <2>3 DEF Ordered
    <3> QED
      BY <1>4, <1>5, <2>1, <3>1, SMTT(60)
  <2>4. o \in Nat /\ g \in Nat
    BY <1>1, <1>3
  <2> QED
    BY <2>1, <2>2, <2>3, <2>4, SMTT(60)
<1>7. ASSUME NEW g \in L, NEW i \in L, h[g].n = h[i].n
      PROVE  g = i
  <2>1. g \in DOMAIN h /\ i \in DOMAIN h /\ h[g].n \in Nat /\ g \in Nat /\ i \in Nat
    BY <1>1, SMTT(60)
  <2>2. (g < i => h[g].n < h[i].n) /\ (i < g => h[i].n < h[g].n)
    BY <2>1 DEF Ordered
  <2> QED
    BY <1>7, <2>1, <2>2, SMTT(60)
<1>8. ASSUME NEW k \in T
      PROVE  \E g \in L : h[g].n = k
  <2>1. PICK g \in DOMAIN h : h[g].n = k
    BY <1>8
  <2>2. h[g].kind = "log"
    BY <2>1
  <2> QED
    BY <2>1, <2>2 DEF L, Logs
<1> HIDE DEF T
<1>9. f \in Bijection(L, T)
  <2>1. f \in [L -> T]
    BY <1>6
  <2>2. f \in Injection(L, T)
    BY <1>7, <2>1 DEF Injection, IsInjective
  <2>3. f \in Surjection(L, T)
    BY <1>8, <2>1, SMTT(20) DEF Surjection
  <2> QED
    BY <2>2, <2>3 DEF Bijection
<1>10. Cardinality(T) = Cardinality(L)
  BY <1>2, <1>9, FS_Bijection DEF ExistsBijection
<1> QED
  BY <1>2, <1>5, <1>6, <1>10 DEF L, T

\* HistoryIsWhole of a history h and what was emitted, em, told by the events' numbers.
Count(em, k) == Cardinality({j \in k..Len(em) : em[j] = "log"})
Has(h, k) == \E g \in DOMAIN h : h[g].n = k
Whole(em, h) ==
    /\ \A g \in DOMAIN h : h[g].n \in 1..Len(em) /\ h[g].kind = em[h[g].n]
    /\ Ordered(h)
    /\ \A k \in 1..Len(em) : (em[k] = "log" => Count(em, k) <= LogHistory) <=> Has(h, k)

\* The logs of a whole history are those of the job from some event on, and they are
\* at most LogHistory.
LEMMA WholeCount ==
    ASSUME NEW em \in Seq(Kinds), NEW h \in Seq(Event), Whole(em, h)
    PROVE  IsFiniteSet(Logs(h)) /\ Cardinality(Logs(h)) \in Nat /\ Cardinality(Logs(h)) <= LogHistory
<1>1. CASE Logs(h) = {}
  BY <1>1, FS_EmptySet, JobStreamAssumption, SMTT(60)
<1>2. CASE Logs(h) # {}
  <2> DEFINE k0 == h[Oldest(Logs(h))].n
  <2>1. Oldest(Logs(h)) \in Logs(h)
    <3>1. Logs(h) \subseteq Nat
      BY SMTT(60) DEF Logs
    <3> QED
      BY <1>2, <3>1, OldestIsLeast
  <2>2. /\ Oldest(Logs(h)) \in DOMAIN h /\ h[Oldest(Logs(h))].kind = "log"
    BY <2>1 DEF Logs
  <2>3. k0 \in 1..Len(em) /\ em[k0] = "log" /\ Has(h, k0)
    BY <2>2 DEF Whole, Has
  <2> HIDE DEF k0
  <2>4. Count(em, k0) <= LogHistory
    BY <2>3 DEF Whole
  <2>5. ASSUME NEW k \in k0..Len(em), em[k] = "log"
        PROVE  Has(h, k)
    <3>1. k \in 1..Len(em) /\ k \in Nat /\ k0 \in Nat /\ k0 <= k
      BY <2>3, SMTT(60)
    <3>2. Count(em, k) <= Count(em, k0) /\ Count(em, k) \in Nat /\ Count(em, k0) \in Nat
      BY <3>1, LogsFromType DEF Count
    <3>3. Count(em, k) <= LogHistory
      BY <2>4, <3>2, JobStreamAssumption, SMTT(60)
    <3> QED
      BY <3>1, <3>3 DEF Whole
  <2>6. IsFiniteSet(Logs(h)) /\ Cardinality(Logs(h)) = Count(em, k0)
    BY <1>2, <2>5, CountLogs DEF Whole, Has, Count, k0
  <2> QED
    BY <2>4, <2>6, FS_CardinalityType
<1> QED
  BY <1>1, <1>2

\* What one more event does to what the history is compared with.
LEMMA CountGrows ==
    ASSUME NEW em \in Seq(Kinds), NEW c \in Kinds, NEW k \in 1..(Len(em) + 1)
    PROVE  /\ Count(em, k) \in Nat
           /\ Count(Append(em, c), k) = IF c = "log" THEN Count(em, k) + 1 ELSE Count(em, k)
<1> DEFINE S == {j \in k..Len(em) : em[j] = "log"}
<1> DEFINE T == {j \in k..Len(Append(em, c)) : Append(em, c)[j] = "log"}
<1>1. IsFiniteSet(S) /\ Cardinality(S) \in Nat
  <2>1. k \in Nat /\ k <= k
    BY SMTT(60)
  <2> QED
    BY <2>1, LogsFromType
<1>2. /\ Len(Append(em, c)) = Len(em) + 1 /\ Len(em) \in Nat
      /\ Append(em, c)[Len(em) + 1] = c
      /\ \A j \in 1..Len(em) : Append(em, c)[j] = em[j]
  BY SMTT(60)
<1>3. T = IF c = "log" THEN S \cup {Len(em) + 1} ELSE S
  BY <1>2, SMTT(60)
<1>4. Len(em) + 1 \notin S
  BY <1>2, SMTT(60)
<1> HIDE DEF S, T
<1>5. Cardinality(S \cup {Len(em) + 1}) = Cardinality(S) + 1
  BY <1>1, <1>4, FS_AddElement
<1> QED
  BY <1>1, <1>3, <1>5 DEF Count, S, T

\* emit: the history stays whole, whether the event is a log or not and whether an
\* older log goes for it or not.
LEMMA KeptIsWhole ==
    ASSUME NEW em \in Seq(Kinds), NEW h \in Seq(Event), Whole(em, h), NEW c \in Kinds
    PROVE  LET k == Kept(h, [n |-> Len(em) + 1, kind |-> c]) IN
           k \in Seq(Event) /\ Whole(Append(em, c), k)
<1> DEFINE n == Len(em)
<1> DEFINE ev == [n |-> Len(em) + 1, kind |-> c]
<1> DEFINE all == Append(h, ev)
<1> DEFINE em2 == Append(em, c)
<1>1. /\ em2 \in Seq(Kinds) /\ Len(em2) = n + 1 /\ n \in Nat
      /\ em2[n + 1] = c /\ \A k \in 1..n : em2[k] = em[k]
  BY SMTT(60)
<1>2. ev \in Event /\ ev.n = n + 1 /\ ev.kind = c
  BY SMTT(60) DEF Event
<1> HIDE DEF ev
<1>3. /\ all \in Seq(Event) /\ Len(h) \in Nat /\ Len(all) = Len(h) + 1
      /\ all[Len(h) + 1] = ev /\ \A g \in DOMAIN h : all[g] = h[g]
      /\ DOMAIN h = 1..Len(h) /\ DOMAIN all = 1..(Len(h) + 1)
  BY <1>2, SMTT(60)
<1>4. \A k \in 1..(n + 1) : Count(em, k) \in Nat
      /\ Count(em2, k) = IF c = "log" THEN Count(em, k) + 1 ELSE Count(em, k)
  BY CountGrows
<1>5. ASSUME NEW k \in 1..(n + 1), NEW l \in 1..(n + 1), k <= l
      PROVE  /\ Count(em2, l) <= Count(em2, k)
             /\ Count(em2, k) \in Nat /\ Count(em2, l) \in Nat
             /\ em2[k] = "log" /\ k < l => Count(em2, l) < Count(em2, k)
  <2>1. k \in Nat /\ l \in Nat /\ k \in k..Len(em2)
    BY <1>1, SMTT(60)
  <2> HIDE DEF em2
  <2>2. em2[k] = "log" => k \in {j \in k..Len(em2) : em2[j] = "log"}
    BY <2>1
  <2> QED
    BY <1>1, <1>5, <2>1, <2>2, LogsFromType DEF Count
<1> HIDE DEF em2, all
<1>6. /\ Ordered(all)
      /\ \A g \in DOMAIN all : all[g].n \in 1..(n + 1) /\ all[g].kind = em2[all[g].n]
  <2>1. \A g \in DOMAIN h : h[g].n \in 1..n /\ h[g].kind = em[h[g].n]
    BY DEF Whole
  <2>2. \A g \in DOMAIN h : h[g].n < ev.n
    BY <1>1, <1>2, <2>1, SMTT(60)
  <2>3. Ordered(all)
    BY <1>2, <2>2, OrderedAppend DEF Whole, all
  <2>4. ASSUME NEW g \in DOMAIN all
        PROVE  all[g].n \in 1..(n + 1) /\ all[g].kind = em2[all[g].n]
    <3>1. CASE g = Len(h) + 1
      BY <1>1, <1>2, <1>3, <3>1, SMTT(60)
    <3>2. CASE g # Len(h) + 1
      <4>1. g \in DOMAIN h /\ all[g] = h[g]
        BY <1>3, <3>2, SMTT(60)
      <4> QED
        BY <1>1, <2>1, <4>1, SMTT(60)
    <3> QED
      BY <3>1, <3>2
  <2> QED
    BY <2>3, <2>4
<1>7. ASSUME NEW k \in 1..(n + 1)
      PROVE  Has(all, k) <=> k = n + 1 \/ Has(h, k)
  <2>1. ASSUME NEW g \in DOMAIN all, all[g].n = k
        PROVE  k = n + 1 \/ Has(h, k)
    <3>1. CASE g = Len(h) + 1
      BY <1>2, <1>3, <2>1, <3>1
    <3>2. CASE g # Len(h) + 1
      <4>1. g \in DOMAIN h /\ all[g] = h[g]
        BY <1>3, <3>2, SMTT(60)
      <4> QED
        BY <2>1, <4>1 DEF Has
    <3> QED
      BY <3>1, <3>2
  <2>2. k = n + 1 => Has(all, k)
    <3>1. Len(h) + 1 \in DOMAIN all
      BY <1>3, SMTT(60)
    <3> QED
      BY <1>2, <1>3, <3>1 DEF Has
  <2>3. ASSUME NEW g \in DOMAIN h, h[g].n = k
        PROVE  Has(all, k)
    <3>1. g \in DOMAIN all /\ all[g] = h[g]
      BY <1>3, SMTT(60)
    <3> QED
      BY <2>3, <3>1 DEF Has
  <2> QED
    BY <2>1, <2>2, <2>3 DEF Has
<1>8. ASSUME NEW k \in 1..(n + 1), em2[k] = "log" => Count(em2, k) <= LogHistory
      PROVE  Has(all, k)
  <2>1. CASE k = n + 1
    BY <1>7, <2>1
  <2>2. CASE k # n + 1
    <3>1. k \in 1..n
      BY <1>1, <2>2, SMTT(60)
    <3>2. em[k] = "log" => Count(em, k) <= LogHistory
      BY <1>1, <1>4, <1>8, <3>1, JobStreamAssumption, SMTT(60)
    <3>3. Has(h, k)
      BY <3>1, <3>2 DEF Whole
    <3> QED
      BY <1>7, <3>3
  <2> QED
    BY <2>1, <2>2
<1>9. /\ IsFiniteSet(Logs(h)) /\ Cardinality(Logs(h)) \in Nat /\ Cardinality(Logs(h)) <= LogHistory
  BY WholeCount
<1>10. Logs(all) = IF c = "log" THEN Logs(h) \cup {Len(h) + 1} ELSE Logs(h)
  BY <1>2, <1>3, SMTT(60) DEF Logs
<1> DEFINE kept == Kept(h, ev)
<1>11. kept = IF Cardinality(Logs(all)) > LogHistory THEN DropOldestLogLocked(all) ELSE all
  BY DEF Kept, all
<1> HIDE DEF kept
<1> DEFINE Few(s) ==
        \A k \in 1..(n + 1) : Has(s, k) => (em2[k] = "log" => Count(em2, k) <= LogHistory)
<1>12. ASSUME Few(all)
       PROVE  Whole(em2, all)
  <2>1. \A k \in 1..Len(em2) : (em2[k] = "log" => Count(em2, k) <= LogHistory) <=> Has(all, k)
    BY <1>1, <1>8, <1>12
  <2>2. \A g \in DOMAIN all : all[g].n \in 1..Len(em2) /\ all[g].kind = em2[all[g].n]
    BY <1>1, <1>6
  <2> QED
    BY <1>6, <2>1, <2>2 DEF Whole
<1>13. ASSUME c # "log"
       PROVE  kept \in Seq(Event) /\ Whole(em2, kept)
  <2>1. kept = all
    BY <1>9, <1>10, <1>11, <1>13, JobStreamAssumption, SMTT(60)
  <2>2. ASSUME NEW k \in 1..(n + 1), Has(all, k), em2[k] = "log"
        PROVE  Count(em2, k) <= LogHistory
    <3>1. k \in 1..n /\ Has(h, k) /\ em[k] = "log"
      BY <1>1, <1>7, <1>13, <2>2, SMTT(60)
    <3>2. Count(em, k) <= LogHistory
      BY <3>1 DEF Whole
    <3>3. Count(em2, k) = Count(em, k)
      BY <1>4, <1>13
    <3> QED
      BY <3>2, <3>3
  <2>3. Few(all)
    BY <2>2
  <2> HIDE DEF Few
  <2> QED
    BY <1>3, <1>12, <2>1, <2>3
<1>14. ASSUME c = "log"
       PROVE  kept \in Seq(Event) /\ Whole(em2, kept)
  <2> DEFINE o == Oldest(Logs(all))
  <2> DEFINE k2 == all[o].n
  <2> DEFINE C == Cardinality(Logs(all))
  <2>1. Logs(all) # {} /\ Logs(all) \subseteq Nat /\ Logs(all) \subseteq DOMAIN all
    BY <1>3, <1>10, <1>14, SMTT(60) DEF Logs
  <2>2. o \in Logs(all) /\ o \in 1..Len(all)
    BY <1>3, <2>1, OldestIsLeast
  <2>3. k2 \in 1..(n + 1) /\ em2[k2] = "log" /\ Has(all, k2)
    BY <1>6, <2>1, <2>2 DEF Logs, Has
  <2>4. C \in Nat /\ C <= LogHistory + 1
    <3>1. Len(h) + 1 \notin Logs(h)
      BY <1>3, SMTT(60) DEF Logs
    <3>2. C = Cardinality(Logs(h)) + 1
      BY <1>9, <1>10, <1>14, <3>1, FS_AddElement
    <3> QED
      BY <1>9, <3>2, JobStreamAssumption, SMTT(60)
  <2> HIDE DEF o, k2
  <2>5. ASSUME NEW k \in k2..(n + 1), em2[k] = "log"
        PROVE  Has(all, k)
    <3>1. CASE k = n + 1
      BY <1>1, <1>7, <3>1, SMTT(60)
    <3>2. CASE k # n + 1
      <4>1. k \in 1..n /\ k2 \in 1..n /\ k2 <= k /\ k \in 1..(n + 1)
        BY <1>1, <2>3, <3>2, SMTT(60)
      <4>2. Has(h, k2) /\ em[k2] = "log" /\ em[k] = "log"
        BY <1>1, <1>7, <2>3, <2>5, <4>1, SMTT(60)
      <4>3. Count(em, k2) <= LogHistory
        BY <4>1, <4>2 DEF Whole
      <4>4. Count(em2, k) <= Count(em2, k2)
        BY <1>5, <2>3, <4>1
      <4>5. Count(em, k) <= LogHistory
        BY <1>4, <1>14, <2>3, <4>1, <4>3, <4>4, JobStreamAssumption, SMTT(60)
      <4>6. Has(h, k)
        BY <4>1, <4>5 DEF Whole
      <4> QED
        BY <1>7, <4>1, <4>6
    <3> QED
      BY <3>1, <3>2
  <2>6. /\ C = Count(em2, k2)
        /\ \A g \in Logs(all) : k2 <= all[g].n
    <3>1. \A g \in DOMAIN all : all[g].n \in 1..Len(em2) /\ all[g].kind = em2[all[g].n]
      BY <1>1, <1>6
    <3>2. \A k \in k2..Len(em2) : em2[k] = "log" => \E g \in DOMAIN all : all[g].n = k
      BY <1>1, <2>5 DEF Has
    <3>3. k2 = all[Oldest(Logs(all))].n
      BY DEF o, k2
    <3>4. em2 \in Seq(Kinds) /\ all \in Seq(Event) /\ Ordered(all) /\ Logs(all) # {}
      BY <1>1, <1>3, <1>6, <2>1
    <3> QED
      BY <3>1, <3>2, <3>3, <3>4, CountLogs DEF Count
  <2>7. ASSUME NEW k \in 1..(n + 1), Has(all, k), em2[k] = "log"
        PROVE  k2 <= k
    BY <1>6, <2>6, <2>7 DEF Has, Logs
  <2> HIDE DEF C
  <2>8. CASE C <= LogHistory
    <3>1. kept = all
      BY <1>11, <2>4, <2>8, JobStreamAssumption, SMTT(60) DEF C
    <3>2. ASSUME NEW k \in 1..(n + 1), Has(all, k), em2[k] = "log"
          PROVE  Count(em2, k) <= LogHistory
      <4>1. k2 <= k
        BY <2>7, <3>2
      <4>2. Count(em2, k) <= C /\ Count(em2, k) \in Nat
        BY <1>5, <2>3, <2>6, <4>1
      <4> QED
        BY <2>4, <2>8, <4>2, JobStreamAssumption, SMTT(60)
    <3>3. Few(all)
      BY <3>2
    <3> HIDE DEF Few
    <3> QED
      BY <1>3, <1>12, <3>1, <3>3
  <2>9. CASE C > LogHistory
    <3>1. kept = SubSeq(all, 1, o - 1) \o SubSeq(all, o + 1, Len(all))
      BY <1>11, <2>9 DEF C, DropOldestLogLocked, o
    <3>2. kept \in Seq(Event) /\ AllBut(kept, all, k2)
      BY <1>3, <1>6, <2>2, <3>1, DropStep DEF k2
    <3>3. ASSUME NEW k \in 1..(n + 1)
          PROVE  Has(kept, k) <=> Has(all, k) /\ k # k2
      BY <3>2 DEF AllBut, Has
    <3>4. ASSUME NEW k \in 1..(n + 1), Has(kept, k), em2[k] = "log"
          PROVE  Count(em2, k) <= LogHistory
      <4>1. k2 < k
        BY <1>1, <2>3, <2>7, <3>3, <3>4, SMTT(60)
      <4>2. Count(em2, k) < C /\ Count(em2, k) \in Nat
        BY <1>1, <1>5, <2>3, <2>6, <4>1, SMTT(60)
      <4> QED
        BY <2>4, <4>2, JobStreamAssumption, SMTT(60)
    <3>5. ASSUME NEW k \in 1..(n + 1), em2[k] = "log" => Count(em2, k) <= LogHistory
          PROVE  Has(kept, k)
      <4>1. k # k2
        BY <2>3, <2>4, <2>6, <2>9, <3>5, JobStreamAssumption, SMTT(60)
      <4> QED
        BY <1>8, <3>3, <3>5, <4>1
    <3>6. \A g \in DOMAIN kept : kept[g].n \in 1..(n + 1) /\ kept[g].kind = em2[kept[g].n]
      BY <1>6, <3>2, SMTT(60) DEF AllBut
    <3>7. \A k \in 1..(n + 1) : (em2[k] = "log" => Count(em2, k) <= LogHistory) <=> Has(kept, k)
      BY <3>4, <3>5
    <3>8. /\ \A g \in DOMAIN kept : kept[g].n \in 1..Len(em2) /\ kept[g].kind = em2[kept[g].n]
          /\ \A k \in 1..Len(em2) : (em2[k] = "log" => Count(em2, k) <= LogHistory) <=> Has(kept, k)
      BY <1>1, <3>6, <3>7
    <3>9. Ordered(kept)
      BY <3>2 DEF AllBut
    <3> QED
      BY <3>2, <3>8, <3>9 DEF Whole
  <2> QED
    BY <2>4, <2>8, <2>9, JobStreamAssumption, SMTT(60)
<1> QED
  BY <1>13, <1>14 DEF kept, em2, ev

\* An event is told by its number and its kind.
LEMMA EventIs ==
    ASSUME NEW e \in Event, NEW k, NEW c
    PROVE  e = [n |-> k, kind |-> c] <=> e.n = k /\ e.kind = c
BY SMTT(60) DEF Event

\* In a stretch h of the events em, the k-th event is there when its number is.
LEMMA HoldsHas ==
    ASSUME NEW em, NEW h \in Seq(Event), NEW k,
           \A g \in DOMAIN h : h[g].n \in 1..Len(em) /\ h[g].kind = em[h[g].n]
    PROVE  (\E g \in DOMAIN h : h[g] = [n |-> k, kind |-> em[k]]) <=> Has(h, k)
<1>1. ASSUME NEW g \in DOMAIN h
      PROVE  h[g] = [n |-> k, kind |-> em[k]] <=> h[g].n = k
  <2>1. h[g] \in Event /\ h[g].kind = em[h[g].n]
    BY SMTT(60)
  <2> QED
    BY <2>1, EventIs, SMTT(60)
<1> QED
  BY <1>1 DEF Has

\* HistoryIsWhole is Whole of the job's variables, in a state ...
LEMMA WholeBefore ==
    ASSUME history \in Seq(Event), HistoryIsWhole, FromJob(history)
    PROVE  Whole(emitted, history)
<1>1. \A g \in DOMAIN history : /\ history[g].n \in 1..Len(emitted)
                                /\ history[g].kind = emitted[history[g].n]
  BY DEF FromJob
<1>2. ASSUME NEW k \in 1..Len(emitted)
      PROVE  (emitted[k] = "log" => Count(emitted, k) <= LogHistory) <=> Has(history, k)
  <2>1. Holds(history, k) <=> Has(history, k)
    BY <1>1, HoldsHas DEF Holds
  <2> QED
    BY <2>1 DEF HistoryIsWhole, LogsFrom, Count
<1> QED
  BY <1>1, <1>2 DEF Whole, Ordered, HistoryIsWhole

\* ... and in the next one.
LEMMA WholeAfter ==
    ASSUME history' \in Seq(Event), Whole(emitted', history')
    PROVE  HistoryIsWhole' /\ FromJob(history)'
<1>1. \A g \in DOMAIN history' : /\ history'[g].n \in 1..Len(emitted')
                                 /\ history'[g].kind = emitted'[history'[g].n]
  BY DEF Whole
<1>2. ASSUME NEW k \in 1..Len(emitted')
      PROVE  (emitted'[k] = "log" => LogsFrom(k)' <= LogHistory) <=> Holds(history, k)'
  <2>1. Holds(history, k)' <=> Has(history', k)
    BY <1>1, HoldsHas DEF Holds
  <2> QED
    BY <2>1 DEF Whole, LogsFrom, Count
<1>3. Ordered(history')
  BY DEF Whole
<1> QED
  BY <1>1, <1>2, <1>3 DEF HistoryIsWhole, FromJob, Ordered

-----------------------------------------------------------------------------
(* A step of one watcher.                                                  *)

\* What the invariant says of a watcher is about its record, the events and the
\* goroutine's place: while these two stand, it holds of whoever has the record.
LEMMA WatcherKept ==
    ASSUME NEW u \in Watchers, NEW v, watch'[u] = v, emitted' = emitted, pc' = pc,
           FlowInv(v), PlaceInv(u, v), u \in Relays => ReplayInv(v)
    PROVE  /\ FlowInv(watch[u])' /\ PlaceInv(u, watch[u])'
           /\ u \in Relays => ReplayInv(watch[u])'
<1>1. FlowInv(watch[u])'
  BY SMT DEF FlowInv, FromJob, Ordered, Before
<1>2. PlaceInv(u, watch[u])'
  BY SMT DEF PlaceInv
<1>3. u \in Relays => ReplayInv(watch[u])'
  BY SMT DEF ReplayInv, Holds
<1> QED
  BY <1>1, <1>2, <1>3

\* A step that leaves the job and the other watchers alone keeps the invariant when it
\* keeps what the invariant says of its own watcher.
LEMMA OneWatcher ==
    ASSUME StreamInv, NEW w \in Watchers, NEW r \in WatchType, watch' = [watch EXCEPT ![w] = r],
           emitted' = emitted, history' = history, step' = step, pc' = pc, plog' = plog,
           subs' = subs \/ subs' = subs \ {w} \/ subs' = subs \cup {w},
           w \in subs' => r.pc # "idle" /\ r.chan = "open",
           Len(r.ch) <= Buffer,
           FlowInv(r), PlaceInv(w, r), w \in Relays => ReplayInv(r)
    PROVE  StreamInv'
<1>1. /\ watch \in [Watchers -> WatchType] /\ watch' \in [Watchers -> WatchType]
      /\ watch'[w] = r /\ \A u \in Watchers : u # w => watch'[u] = watch[u]
  BY DEF StreamInv, TypeOK
<1>2. TypeOK'
  <2>1. \A u \in Watchers : Len(watch'[u].ch) <= Buffer
    BY <1>1 DEF StreamInv, TypeOK
  <2>2. subs' \subseteq Watchers
    BY DEF StreamInv, TypeOK
  <2> QED
    BY <1>1, <2>1, <2>2 DEF StreamInv, TypeOK
<1>3. JobInv' /\ HistoryIsWhole' /\ FromJob(history)'
  <2>1. JobInv'
    BY DEF StreamInv, JobInv, StartedFirstDoneLast
  <2>2. HistoryIsWhole'
    BY DEF StreamInv, HistoryIsWhole, LogsFrom, Holds
  <2>3. FromJob(history)'
    BY DEF StreamInv, FromJob
  <2> QED
    BY <2>1, <2>2, <2>3
<1>4. SubsInv'
  BY <1>1 DEF StreamInv, SubsInv, TypeOK
<1>5. ASSUME NEW u \in Watchers
      PROVE  /\ FlowInv(watch[u])' /\ PlaceInv(u, watch[u])'
             /\ u \in Relays => ReplayInv(watch[u])'
  <2>1. CASE u = w
    BY <1>1, <2>1, WatcherKept
  <2>2. CASE u # w
    BY <1>1, <2>2, WatcherKept DEF StreamInv
  <2> QED
    BY <2>1, <2>2
<1> QED
  BY <1>2, <1>3, <1>4, <1>5 DEF StreamInv, Watchers

\* A JobDone is the last event of any stretch it is in, for it is the job's last.
LEMMA DoneIsLast ==
    ASSUME emitted \in Seq(Kinds), StartedFirstDoneLast,
           NEW s \in Seq(Event), Ordered(s), FromJob(s), NEW g \in Dones(s)
    PROVE  g = Len(s) /\ s[g].n = Len(emitted) /\ EndsOnDone(s)
<1>1. g \in DOMAIN s /\ s[g].kind = "done" /\ s[g].n = Len(emitted)
  BY DEF Dones, FromJob, StartedFirstDoneLast
<1>2. Len(s) \in DOMAIN s /\ g \in 1..Len(s)
  BY <1>1, SMTT(60)
<1>3. s[Len(s)].n \in 1..Len(emitted)
  BY <1>2 DEF FromJob
<1>4. ~(g < Len(s))
  BY <1>1, <1>2, <1>3, SMTT(60) DEF Ordered
<1>5. g = Len(s)
  BY <1>2, <1>4, SMTT(60)
<1> QED
  BY <1>1, <1>5, SMTT(60) DEF EndsOnDone

\* Looked for from the start or from the end, the JobDone found is that one.
LEMMA TheDone ==
    ASSUME emitted \in Seq(Kinds), StartedFirstDoneLast,
           NEW s \in Seq(Event), Ordered(s), FromJob(s), Done(s)
    PROVE  /\ Oldest(Dones(s)) = Len(s) /\ Newest(Dones(s)) = Len(s)
           /\ s[Len(s)] \in Event /\ s[Len(s)].kind = "done" /\ s[Len(s)].n = Len(emitted)
           /\ Len(emitted) \in 1..Len(emitted) /\ emitted[Len(emitted)] = "done"
<1>1. Dones(s) = {Len(s)} /\ Len(s) \in DOMAIN s
  BY DoneIsLast DEF Done, Dones
<1>2. s[Len(s)] \in Event /\ s[Len(s)].kind = "done" /\ s[Len(s)].n = Len(emitted)
  BY <1>1, DoneIsLast, SMTT(60) DEF Dones
<1>3. Oldest({Len(s)}) = Len(s) /\ Newest({Len(s)}) = Len(s)
  BY SMTT(60) DEF Oldest, Newest
<1> QED
  BY <1>1, <1>2, <1>3 DEF FromJob

\* What the invariant says of the job's history and of a watcher.
LEMMA InvFacts ==
    ASSUME StreamInv, NEW w \in Watchers
    PROVE  /\ emitted \in Seq(Kinds) /\ history \in Seq(Event)
           /\ watch \in [Watchers -> WatchType] /\ watch[w] \in WatchType
           /\ Len(watch[w].ch) <= Buffer
           /\ StartedFirstDoneLast /\ Ordered(history) /\ FromJob(history)
           /\ FlowInv(watch[w]) /\ PlaceInv(w, watch[w])
           /\ w \in Relays => ReplayInv(watch[w])
           /\ w \in subs => watch[w].pc # "idle" /\ watch[w].chan = "open"
BY DEF StreamInv, TypeOK, JobInv, HistoryIsWhole, Ordered, SubsInv

\* One event of the job is a stretch of it.
LEMMA Single ==
    ASSUME NEW ev \in Event, ev.n \in 1..Len(emitted), ev.kind = emitted[ev.n],
           NEW s \in Seq(Event), \A i \in DOMAIN s : ev.n < s[i].n
    PROVE  Ordered(<<ev>>) /\ FromJob(<<ev>>) /\ Before(<<ev>>, <<>>) /\ Before(<<ev>>, s)
BY SMTT(60) DEF Ordered, FromJob, Before

\* So is none.
LEMMA EmptyStretch ==
    ASSUME NEW s
    PROVE  Ordered(<<>>) /\ FromJob(<<>>) /\ Before(<<>>, s) /\ Before(s, <<>>)
BY SMTT(60) DEF Ordered, FromJob, Before

\* subscribe: the copy of the history is whole, and without a channel it has the JobDone.
LEMMA SubscribeStep ==
    ASSUME StreamInv, NEW w \in Watchers, Subscribe(w)
    PROVE  StreamInv'
<1> DEFINE v == watch[w]
<1> DEFINE r == [v EXCEPT !.pc = "replay", !.at = Len(emitted), !.hist = history,
                          !.chan = IF Done(history) THEN "nil" ELSE "open"]
<1>1. /\ v \in WatchType /\ Len(emitted) \in Nat /\ history \in Seq(Event)
      /\ Len(v.ch) <= Buffer /\ Ordered(history) /\ FromJob(history)
  BY InvFacts, SMTT(60)
<1>2. watch' = [watch EXCEPT ![w] = r]
  BY InvFacts DEF Subscribe
<1>3. r \in WatchType
  BY <1>1 DEF WatchType
<1>4. /\ r.pc = "replay" /\ r.at = Len(emitted) /\ r.hist = history
      /\ r.ch = v.ch /\ r.sent = v.sent
      /\ r.chan = IF Done(history) THEN "nil" ELSE "open"
  BY <1>1 DEF WatchType
<1>5. v.sent = <<>> /\ v.ch = <<>>
  BY InvFacts DEF PlaceInv, Subscribe
<1> HIDE DEF r, v
<1>6. FlowInv(r)
  BY <1>1, <1>4, <1>5, SMTT(60) DEF FlowInv, Ordered, Before, FromJob
<1>7. Done(history) => EndsOnDone(history)
  BY InvFacts, DoneIsLast DEF Done
<1>8. PlaceInv(w, r)
  BY <1>4, <1>5, <1>7, SMTT(60) DEF PlaceInv, Done, Dones, EndsOnDone
<1>9. ReplayInv(r)
  BY <1>1, <1>4, SMTT(60) DEF StreamInv, ReplayInv, HistoryIsWhole
<1>10. /\ subs' = subs \/ subs' = subs \cup {w}
       /\ w \in subs' => r.pc # "idle" /\ r.chan = "open"
  BY <1>4, InvFacts DEF Subscribe
<1> QED
  BY <1>1, <1>2, <1>3, <1>4, <1>6, <1>8, <1>9, <1>10, OneWatcher DEF Subscribe

\* relay sends the next event of the history it was given.
LEMMA RelayHistoryStep ==
    ASSUME StreamInv, NEW w \in Watchers, RelayHistory(w)
    PROVE  StreamInv'
<1> DEFINE v == watch[w]
<1> DEFINE r == [v EXCEPT !.sent = Append(v.sent, Head(v.hist)), !.hist = Tail(v.hist)]
<1>1. /\ v \in WatchType /\ v.sent \in Seq(Event) /\ v.hist \in Seq(Event) /\ v.ch \in Seq(Event)
      /\ Len(v.ch) <= Buffer /\ FlowInv(v) /\ PlaceInv(w, v) /\ ReplayInv(v)
      /\ v.pc = "replay" /\ v.hist # <<>> /\ w \in Relays /\ w \notin Waiters
  BY InvFacts, JobStreamAssumption DEF RelayHistory, WatchType
<1>2. watch' = [watch EXCEPT ![w] = r]
  BY InvFacts DEF RelayHistory, Sent
<1> DEFINE ev == Head(v.hist)
<1>3. /\ Append(v.sent, ev) \in Seq(Event) /\ Tail(v.hist) \in Seq(Event) /\ ev \in Event
      /\ ev.n \in 1..Len(emitted) /\ ev.kind = emitted[ev.n]
  BY <1>1, TailOrdered, SMTT(60) DEF FlowInv, FromJob
<1>4. r \in WatchType
  BY <1>1, <1>3 DEF WatchType
<1>5. /\ r.pc = v.pc /\ r.at = v.at /\ r.hist = Tail(v.hist)
      /\ r.ch = v.ch /\ r.sent = Append(v.sent, ev) /\ r.chan = v.chan
  BY <1>1 DEF WatchType
<1> HIDE DEF r, v
<1>6. FlowInv(r)
  <2>1. /\ Ordered(v.sent) /\ Ordered(v.hist) /\ Ordered(v.ch)
        /\ Before(v.sent, v.hist) /\ Before(v.sent, v.ch) /\ Before(v.hist, v.ch)
        /\ FromJob(v.sent) /\ FromJob(v.hist) /\ FromJob(v.ch)
    BY <1>1 DEF FlowInv
  <2>2. Ordered(Append(v.sent, ev)) /\ Before(Append(v.sent, ev), Tail(v.hist))
    BY <1>1, <2>1, MoveHead
  <2>3. Before(Append(v.sent, ev), v.ch)
    <3>1. \A i \in DOMAIN v.ch : ev.n < v.ch[i].n
      BY <1>1, <2>1, TailOrdered DEF Before
    <3> QED
      BY <1>1, <1>3, <2>1, <3>1, AppendBefore
  <2>4. Ordered(Tail(v.hist)) /\ Before(Tail(v.hist), v.ch) /\ FromJob(Tail(v.hist))
    BY <1>1, <2>1, TailOrdered, TailBefore
  <2>5. FromJob(Append(v.sent, ev))
    BY <1>1, <1>3, <2>1, FromJobAppend
  <2> QED
    BY <1>5, <2>1, <2>2, <2>3, <2>4, <2>5 DEF FlowInv
<1>7. PlaceInv(w, r)
  <2>1. CASE v.chan = "nil"
    <3>1. EndsOnDone(v.hist)
      BY <1>1, <2>1 DEF PlaceInv
    <3>2. CASE Len(v.hist) = 1
      <4>1. ev.kind = "done" /\ Tail(v.hist) = <<>>
        BY <1>1, <3>1, <3>2, TailEnds
      <4>2. EndsOnDone(Append(v.sent, ev))
        BY <1>1, <1>3, <4>1, AppendProperties, SMTT(60) DEF EndsOnDone
      <4> QED
        BY <1>1, <1>5, <2>1, <4>1, <4>2 DEF PlaceInv
    <3>3. CASE Len(v.hist) # 1
      <4>1. EndsOnDone(Tail(v.hist))
        BY <1>1, <3>1, <3>3, TailEnds
      <4> QED
        BY <1>1, <1>5, <2>1, <4>1 DEF PlaceInv, EndsOnDone
    <3> QED
      BY <3>2, <3>3
  <2>2. CASE v.chan # "nil"
    <3>1. ~Done(Append(v.sent, ev)) /\ ~Done(Tail(v.hist))
      BY <1>1, <1>3, <2>2, DoneMoves DEF PlaceInv
    <3> QED
      BY <1>1, <1>5, <2>2, <3>1 DEF PlaceInv
  <2> QED
    BY <2>1, <2>2
<1>8. ReplayInv(r)
  BY <1>1, <1>3, <1>5, HoldsMoves, SMTT(60) DEF ReplayInv
<1>9. w \in subs => r.pc # "idle" /\ r.chan = "open"
  BY <1>5, InvFacts DEF v
<1> QED
  BY <1>1, <1>2, <1>4, <1>5, <1>6, <1>7, <1>8, <1>9, OneWatcher DEF RelayHistory

\* relay is through with the history: it goes on with the channel, or is over.
LEMMA RelayLiveStep ==
    ASSUME StreamInv, NEW w \in Watchers, RelayLive(w)
    PROVE  StreamInv'
<1> DEFINE v == watch[w]
<1> DEFINE r == [v EXCEPT !.pc = IF v.chan = "nil" THEN "ended" ELSE "live"]
<1>1. /\ v \in WatchType /\ Len(v.ch) <= Buffer
      /\ FlowInv(v) /\ PlaceInv(w, v) /\ ReplayInv(v)
      /\ v.pc = "replay" /\ v.hist = <<>>
      /\ w \in subs => v.pc # "idle" /\ v.chan = "open"
  BY InvFacts DEF RelayLive
<1>2. watch' = [watch EXCEPT ![w] = r]
  BY InvFacts DEF RelayLive
<1>3. r \in WatchType
  BY <1>1 DEF WatchType
<1>4. /\ r.pc = IF v.chan = "nil" THEN "ended" ELSE "live"
      /\ r.at = v.at /\ r.hist = v.hist
      /\ r.ch = v.ch /\ r.sent = v.sent /\ r.chan = v.chan
  BY <1>1 DEF WatchType
<1> HIDE DEF r, v
<1>5. FlowInv(r)
  BY <1>1, <1>4 DEF FlowInv
<1>6. PlaceInv(w, r)
  BY <1>1, <1>4 DEF PlaceInv
<1>7. ReplayInv(r)
  BY <1>1, <1>4 DEF ReplayInv
<1>8. w \in subs => r.pc # "idle" /\ r.chan = "open"
  BY <1>1, <1>4
<1> QED
  BY <1>1, <1>2, <1>3, <1>4, <1>5, <1>6, <1>7, <1>8, OneWatcher DEF RelayLive

\* awaitSubscribed finds the JobDone in the history, or has a channel to wait on.
LEMMA AwaitHistoryStep ==
    ASSUME StreamInv, NEW w \in Watchers, AwaitHistory(w)
    PROVE  StreamInv'
<1> DEFINE v == watch[w]
<1> DEFINE got == IF Done(v.hist) THEN <<v.hist[Oldest(Dones(v.hist))]>> ELSE v.sent
<1> DEFINE to == IF Done(v.hist) THEN "ended"
                 ELSE IF v.chan = "nil" THEN "resultless" ELSE "live"
<1> DEFINE r == [v EXCEPT !.hist = <<>>, !.sent = got, !.pc = to]
<1>1. /\ v \in WatchType /\ v.hist \in Seq(Event) /\ v.sent \in Seq(Event) /\ v.ch \in Seq(Event)
      /\ Len(v.ch) <= Buffer
      /\ FlowInv(v) /\ PlaceInv(w, v) /\ v.pc = "replay"
      /\ w \in Waiters /\ w \notin Relays
      /\ w \in subs => v.pc # "idle" /\ v.chan = "open"
  BY InvFacts, JobStreamAssumption DEF AwaitHistory, WatchType
<1>2. watch' = [watch EXCEPT ![w] = r]
  BY InvFacts DEF AwaitHistory
<1>3. v.sent = <<>> /\ (v.chan = "nil" => EndsOnDone(v.hist))
  BY <1>1 DEF PlaceInv, EndsOnDone
<1>4. v.chan = "nil" => Done(v.hist)
  BY <1>1, <1>3, SMTT(60) DEF EndsOnDone, Done, Dones
<1>5. Done(v.hist) => \E ev \in Event : /\ got = <<ev>> /\ ev.kind = "done"
                                        /\ ev.n \in 1..Len(emitted) /\ ev.kind = emitted[ev.n]
                                        /\ \A i \in DOMAIN v.ch : ev.n < v.ch[i].n
  <2>1. Ordered(v.hist) /\ FromJob(v.hist) /\ Before(v.hist, v.ch)
    BY <1>1 DEF FlowInv
  <2>2. SUFFICES ASSUME Done(v.hist) PROVE v.hist[Len(v.hist)] \in Event
                 /\ got = <<v.hist[Len(v.hist)]>> /\ v.hist[Len(v.hist)].kind = "done"
                 /\ v.hist[Len(v.hist)].n = Len(emitted) /\ Len(v.hist) \in DOMAIN v.hist
    BY <1>1, <2>1 DEF FromJob, Before
  <2>3. /\ Oldest(Dones(v.hist)) = Len(v.hist) /\ v.hist[Len(v.hist)] \in Event
        /\ v.hist[Len(v.hist)].kind = "done" /\ v.hist[Len(v.hist)].n = Len(emitted)
    BY <1>1, <2>1, <2>2, InvFacts, TheDone
  <2>4. Len(v.hist) \in DOMAIN v.hist
    BY <1>1, <2>2, SMTT(60) DEF Done, Dones
  <2> QED
    BY <2>2, <2>3, <2>4
<1>6. /\ got \in Seq(Event) /\ <<>> \in Seq(Event)
      /\ to \in {"idle", "replay", "live", "ended", "resultless", "left"}
  BY <1>1, <1>5, SMTT(60)
<1> HIDE DEF got, to
<1>7. r \in WatchType
  BY <1>1, <1>6 DEF WatchType
<1>8. /\ r.pc = to /\ r.at = v.at /\ r.hist = <<>>
      /\ r.ch = v.ch /\ r.sent = got /\ r.chan = v.chan
  BY <1>1 DEF WatchType
<1> HIDE DEF r
<1>9. FlowInv(r)
  <2>1. CASE Done(v.hist)
    <3>1. PICK ev \in Event : /\ got = <<ev>>
                              /\ ev.n \in 1..Len(emitted) /\ ev.kind = emitted[ev.n]
                              /\ \A i \in DOMAIN v.ch : ev.n < v.ch[i].n
      BY <1>5, <2>1
    <3>2. Ordered(<<ev>>) /\ FromJob(<<ev>>) /\ Before(<<ev>>, <<>>) /\ Before(<<ev>>, v.ch)
      BY <1>1, <3>1, Single
    <3>3. Ordered(<<>>) /\ FromJob(<<>>) /\ Before(<<>>, v.ch)
      BY EmptyStretch
    <3> QED
      BY <1>1, <1>8, <3>1, <3>2, <3>3 DEF FlowInv
  <2>2. CASE ~Done(v.hist)
    <3>1. got = <<>>
      BY <1>3, <2>2 DEF got
    <3> QED
      BY <1>1, <1>8, <3>1, SMTT(60) DEF FlowInv, Ordered, Before, FromJob
  <2> QED
    BY <2>1, <2>2
<1>10. PlaceInv(w, r)
  <2>1. CASE Done(v.hist)
    <3>1. PICK ev \in Event : got = <<ev>> /\ ev.kind = "done"
      BY <1>5, <2>1
    <3>2. <<ev>> # <<>> /\ Len(<<ev>>) = 1 /\ <<ev>>[1] = ev
      OBVIOUS
    <3>3. EndsOnDone(got) /\ to = "ended"
      BY <2>1, <3>1, <3>2 DEF EndsOnDone, to
    <3> QED
      BY <1>1, <1>8, <3>3 DEF PlaceInv
  <2>2. CASE ~Done(v.hist)
    BY <1>1, <1>3, <1>4, <1>8, <2>2 DEF PlaceInv, got, to, Done, Dones
  <2> QED
    BY <2>1, <2>2
<1>11. w \in subs => r.pc # "idle" /\ r.chan = "open"
  BY <1>1, <1>8 DEF to
<1> QED
  BY <1>1, <1>2, <1>7, <1>8, <1>9, <1>10, <1>11, OneWatcher DEF AwaitHistory

\* The next event of the channel: what a stream or a wait does with it keeps the order,
\* and only the JobDone ends it.
LEMMA ReceiveStep ==
    ASSUME StreamInv, NEW w \in Watchers, Receive(w)
    PROVE  StreamInv'
<1> DEFINE v == watch[w]
<1> DEFINE ev == Head(v.ch)
<1> DEFINE got == IF w \in Relays \/ ev.kind = "done" THEN Append(v.sent, ev) ELSE v.sent
<1> DEFINE to == IF ev.kind = "done" THEN "ended" ELSE v.pc
<1> DEFINE r == [v EXCEPT !.ch = Tail(v.ch), !.sent = got, !.pc = to]
<1>1. /\ v \in WatchType /\ v.hist \in Seq(Event) /\ v.sent \in Seq(Event) /\ v.ch \in Seq(Event)
      /\ Len(v.ch) <= Buffer /\ Len(v.ch) \in Nat
      /\ FlowInv(v) /\ PlaceInv(w, v) /\ v.pc = "live" /\ v.ch # <<>>
      /\ w \in Relays => ReplayInv(v)
      /\ w \in subs => v.pc # "idle" /\ v.chan = "open"
  BY InvFacts, SMTT(60) DEF Receive, WatchType
<1>2. watch' = [watch EXCEPT ![w] = r]
  BY InvFacts DEF Receive
<1> HIDE DEF v, got, to, r
<1>3. v.hist = <<>> /\ ~Done(v.sent) /\ v.chan # "nil"
  BY <1>1 DEF PlaceInv
<1>4. /\ Ordered(v.sent) /\ Ordered(v.hist) /\ Ordered(v.ch)
      /\ Before(v.sent, v.ch) /\ FromJob(v.sent) /\ FromJob(v.hist) /\ FromJob(v.ch)
  BY <1>1 DEF FlowInv
<1>5. /\ ev \in Event /\ Tail(v.ch) \in Seq(Event) /\ Len(Tail(v.ch)) = Len(v.ch) - 1
      /\ Ordered(Tail(v.ch)) /\ FromJob(Tail(v.ch)) /\ Before(v.sent, Tail(v.ch))
      /\ ev.n \in 1..Len(emitted) /\ ev.kind = emitted[ev.n]
  BY <1>1, <1>4, TailOrdered, TailBefore, SMTT(60) DEF FromJob
<1>6. /\ got \in Seq(Event) /\ Ordered(got) /\ FromJob(got) /\ Before(got, Tail(v.ch))
  <2>1. /\ Append(v.sent, ev) \in Seq(Event) /\ Ordered(Append(v.sent, ev))
        /\ FromJob(Append(v.sent, ev)) /\ Before(Append(v.sent, ev), Tail(v.ch))
    BY <1>1, <1>4, <1>5, MoveHead, FromJobAppend, SMTT(60)
  <2> QED
    BY <1>1, <1>4, <1>5, <2>1 DEF got
<1>7. to \in {"idle", "replay", "live", "ended", "resultless", "left"}
  BY <1>1 DEF to
<1>8. r \in WatchType
  BY <1>1, <1>5, <1>6, <1>7 DEF r, WatchType
<1>9. /\ r.pc = to /\ r.at = v.at /\ r.hist = v.hist
      /\ r.ch = Tail(v.ch) /\ r.sent = got /\ r.chan = v.chan
  BY <1>1 DEF r, WatchType
<1>10. FlowInv(r)
  BY <1>3, <1>4, <1>5, <1>6, <1>9, SMTT(60) DEF FlowInv, Before
<1>11. PlaceInv(w, r)
  <2>1. CASE ev.kind = "done"
    <3>1. got = Append(v.sent, ev) /\ to = "ended"
      BY <2>1 DEF got, to
    <3>2. EndsOnDone(got)
      BY <1>1, <1>5, <2>1, <3>1, AppendProperties, SMTT(60) DEF EndsOnDone
    <3> QED
      BY <1>1, <1>3, <1>9, <3>1, <3>2 DEF PlaceInv
  <2>2. CASE ev.kind # "done"
    <3>1. ~Done(got) /\ to = "live"
      BY <1>1, <1>3, <1>5, <2>2, DoneMoves DEF got, to
    <3> QED
      BY <1>1, <1>3, <1>9, <3>1 DEF PlaceInv
  <2> QED
    BY <2>1, <2>2
<1>12. w \in Relays => ReplayInv(r)
  <2>1. w \in Relays => got = Append(v.sent, ev)
    BY DEF got
  <2>2. \A k : Holds(v.sent, k) => Holds(Append(v.sent, ev), k)
    BY <1>1, <1>5, HoldsMoves
  <2> HIDE DEF ev
  <2> QED
    BY <1>1, <1>9, <2>1, <2>2 DEF ReplayInv
<1>13. /\ subs' = subs \/ subs' = subs \ {w}
       /\ w \in subs' => r.pc # "idle" /\ r.chan = "open"
  BY <1>1, <1>9 DEF Receive, to, v
<1>14. Len(r.ch) <= Buffer
  BY <1>1, <1>5, <1>9, JobStreamAssumption, SMTT(60)
<1> QED
  BY <1>2, <1>8, <1>10, <1>11, <1>12, <1>13, <1>14, OneWatcher DEF Receive

\* Once its subscribers' channels are closed, the job's history has its JobDone.
LEMMA ClosedIsDone ==
    ASSUME StreamInv, pc \notin {"registered", "working"}
    PROVE  Done(history)
<1>1. PICK k \in 1..Len(emitted) : emitted[k] = "done"
  BY DEF StreamInv, JobInv
<1>2. Holds(history, k)
  BY <1>1 DEF StreamInv, HistoryIsWhole
<1> QED
  BY <1>1, <1>2, SMTT(60) DEF Holds, Done, Dones

\* A closed channel that has lost the JobDone: the one of the history is new to the client.
LEMMA SeeClosedStep ==
    ASSUME StreamInv, NEW w \in Watchers, SeeClosed(w)
    PROVE  StreamInv'
<1> DEFINE v == watch[w]
<1> DEFINE r == [v EXCEPT !.sent = Append(v.sent, Outcome), !.pc = "ended"]
<1>1. /\ v \in WatchType /\ v.sent \in Seq(Event) /\ v.ch = <<>>
      /\ Len(v.ch) <= Buffer
      /\ FlowInv(v) /\ PlaceInv(w, v) /\ v.pc = "live"
      /\ w \in Relays => ReplayInv(v)
      /\ w \in subs => v.pc # "idle" /\ v.chan = "open"
  BY InvFacts DEF SeeClosed, WatchType
<1>2. v.hist = <<>> /\ ~Done(v.sent) /\ v.chan = "closed" /\ pc = "closed"
  BY <1>1 DEF PlaceInv, SeeClosed
<1>3. Done(history)
  BY <1>2, ClosedIsDone
<1>4. watch' = [watch EXCEPT ![w] = r]
  BY <1>3, InvFacts DEF SeeClosed, Sent
<1>5. /\ Outcome \in Event /\ Outcome.kind = "done" /\ Outcome.n = Len(emitted)
      /\ Outcome.n \in 1..Len(emitted) /\ emitted[Outcome.n] = "done"
  BY <1>3, InvFacts, TheDone DEF Outcome
<1>6. Append(v.sent, Outcome) \in Seq(Event)
  BY <1>1, <1>5, SMTT(60)
<1>7. r \in WatchType
  BY <1>1, <1>6 DEF WatchType
<1>8. /\ r.pc = "ended" /\ r.at = v.at /\ r.hist = v.hist
      /\ r.ch = v.ch /\ r.sent = Append(v.sent, Outcome) /\ r.chan = v.chan
  BY <1>1 DEF WatchType
<1> HIDE DEF r, v
<1>9. FlowInv(r)
  <2>1. Ordered(v.sent) /\ FromJob(v.sent)
    BY <1>1 DEF FlowInv
  <2>2. \A g \in DOMAIN v.sent : v.sent[g].n < Outcome.n
    BY <1>2, <1>5, <2>1, SMTT(60) DEF FromJob, Done, Dones
  <2>3. Ordered(Append(v.sent, Outcome)) /\ FromJob(Append(v.sent, Outcome))
    BY <1>1, <1>5, <2>1, <2>2, OrderedAppend, FromJobAppend
  <2> QED
    BY <1>1, <1>2, <1>8, <2>3, SMTT(60) DEF FlowInv, Before
<1>10. EndsOnDone(r.sent)
  BY <1>1, <1>5, <1>8, AppendProperties, SMTT(60) DEF EndsOnDone
<1>11. PlaceInv(w, r)
  BY <1>2, <1>8, <1>10 DEF PlaceInv
<1>12. w \in Relays => ReplayInv(r)
  BY <1>1, <1>5, <1>8, HoldsMoves, SMTT(60) DEF ReplayInv
<1>13. w \in subs => r.pc # "idle" /\ r.chan = "open"
  BY <1>1, <1>8
<1> QED
  BY <1>1, <1>4, <1>7, <1>8, <1>9, <1>11, <1>12, <1>13, OneWatcher DEF SeeClosed

\* The client goes away, as a subscriber or, during the replay, still subscribed.
LEMMA LeaveStep ==
    ASSUME StreamInv, NEW w \in Watchers, Leave(w)
    PROVE  StreamInv'
<1> DEFINE v == watch[w]
<1> DEFINE r == [v EXCEPT !.pc = "left"]
<1>1. /\ v \in WatchType /\ Len(v.ch) <= Buffer /\ FlowInv(v) /\ PlaceInv(w, v)
      /\ w \in subs => v.pc # "idle" /\ v.chan = "open"
  BY InvFacts
<1>2. watch' = [watch EXCEPT ![w] = r]
  BY InvFacts DEF Leave
<1>3. r \in WatchType
  BY <1>1 DEF WatchType
<1>4. /\ r.pc = "left" /\ r.at = v.at /\ r.hist = v.hist
      /\ r.ch = v.ch /\ r.sent = v.sent /\ r.chan = v.chan
  BY <1>1 DEF WatchType
<1> HIDE DEF r, v
<1>5. FlowInv(r) /\ PlaceInv(w, r) /\ ReplayInv(r)
  BY <1>1, <1>4 DEF FlowInv, PlaceInv, ReplayInv
<1>6. /\ subs' = subs \/ subs' = subs \ {w}
      /\ w \in subs' => r.pc # "idle" /\ r.chan = "open"
  BY <1>1, <1>4 DEF Leave
<1> QED
  BY <1>1, <1>2, <1>3, <1>4, <1>5, <1>6, OneWatcher DEF Leave

-----------------------------------------------------------------------------
(* emit: the watchers.                                                     *)

\* What was emitted before stays where it was.
LEMMA EmittedGrows ==
    ASSUME emitted \in Seq(Kinds), NEW c \in Kinds, emitted' = Append(emitted, c)
    PROVE  /\ emitted' \in Seq(Kinds) /\ Len(emitted) \in Nat /\ Len(emitted') = Len(emitted) + 1
           /\ emitted'[Len(emitted) + 1] = c
           /\ \A k \in 1..Len(emitted) : emitted'[k] = emitted[k]
           /\ \A s : FromJob(s) => FromJob(s)'
           /\ \A s : \A k \in 1..Len(emitted) : Holds(s, k) => Holds(s, k)'
<1>1. /\ emitted' \in Seq(Kinds) /\ Len(emitted) \in Nat /\ Len(emitted') = Len(emitted) + 1
      /\ emitted'[Len(emitted) + 1] = c
      /\ \A k \in 1..Len(emitted) : emitted'[k] = emitted[k]
  BY SMTT(60)
<1>2. ASSUME NEW s, FromJob(s)
      PROVE  FromJob(s)'
  BY <1>1, <1>2, SMTT(60) DEF FromJob
<1>3. ASSUME NEW s, NEW k \in 1..Len(emitted), Holds(s, k)
      PROVE  Holds(s, k)'
  BY <1>1, <1>3 DEF Holds
<1> QED
  BY <1>1, <1>2, <1>3

\* A watcher that is not offered the event, or drops it, has the same stretches.
LEMMA FlowGrows ==
    ASSUME emitted \in Seq(Kinds), NEW c \in Kinds, emitted' = Append(emitted, c),
           NEW v \in WatchType, FlowInv(v)
    PROVE  FlowInv(v)' /\ (ReplayInv(v) => ReplayInv(v)')
<1>1. FlowInv(v)'
  BY EmittedGrows DEF FlowInv
<1>2. ASSUME ReplayInv(v), v.pc \in {"replay", "live", "ended"}
      PROVE  /\ v.at <= Len(emitted')
             /\ \A k \in 1..v.at : emitted'[k] # "log" => Holds(v.sent, k)' \/ Holds(v.hist, k)'
  <2>1. /\ v.at \in Nat /\ v.at <= Len(emitted) /\ Len(emitted) \in Nat
        /\ Len(emitted') = Len(emitted) + 1
    BY <1>2, EmittedGrows DEF ReplayInv, WatchType
  <2>2. ASSUME NEW k \in 1..v.at, emitted'[k] # "log"
        PROVE  Holds(v.sent, k)' \/ Holds(v.hist, k)'
    <3>1. k \in 1..Len(emitted)
      BY <2>1, SMTT(60)
    <3>2. emitted[k] # "log"
      BY <2>2, <3>1, EmittedGrows
    <3>3. Holds(v.sent, k) \/ Holds(v.hist, k)
      BY <1>2, <3>2 DEF ReplayInv
    <3> QED
      BY <3>1, <3>3, EmittedGrows
  <2> QED
    BY <2>1, <2>2, SMTT(60)
<1> QED
  BY <1>1, <1>2 DEF ReplayInv

\* The event just emitted makes a longer stretch of the one it is appended to.
LEMMA StretchGrows ==
    ASSUME emitted \in Seq(Kinds), NEW c \in Kinds, emitted' = Append(emitted, c),
           NEW s \in Seq(Event), FromJob(s),
           NEW ev \in Event, ev.n = Len(emitted) + 1, ev.kind = c
    PROVE  FromJob(Append(s, ev))'
<1> DEFINE t == Append(s, ev)
<1>1. Len(s) \in Nat /\ DOMAIN s = 1..Len(s) /\ DOMAIN t = 1..(Len(s) + 1) /\ t[Len(s) + 1] = ev
  BY SMTT(60)
<1>2. \A g \in DOMAIN s : t[g] = s[g]
  BY SMTT(60)
<1> HIDE DEF t
<1>3. ASSUME NEW g \in DOMAIN t
      PROVE  t[g].n \in 1..Len(emitted') /\ t[g].kind = emitted'[t[g].n]
  <2>1. CASE g = Len(s) + 1
    BY <1>1, <2>1, EmittedGrows, SMTT(60)
  <2>2. CASE g # Len(s) + 1
    <3>1. g \in DOMAIN s
      BY <1>1, <2>2, SMTT(60)
    <3>2. FromJob(s)'
      BY EmittedGrows
    <3> QED
      BY <1>2, <3>1, <3>2 DEF FromJob
  <2> QED
    BY <2>1, <2>2
<1> QED
  BY <1>3 DEF FromJob, t

\* A watcher that gets the event in its channel gets it after all it has.
LEMMA FlowOffered ==
    ASSUME emitted \in Seq(Kinds), NEW c \in Kinds, emitted' = Append(emitted, c),
           NEW v \in WatchType, FlowInv(v), NEW ev, ev = [n |-> Len(emitted) + 1, kind |-> c],
           NEW r \in WatchType, r.sent = v.sent, r.hist = v.hist, r.ch = Append(v.ch, ev)
    PROVE  FlowInv(r)'
<1>1. /\ v.sent \in Seq(Event) /\ v.hist \in Seq(Event) /\ v.ch \in Seq(Event)
  BY DEF WatchType
<1>2. /\ Ordered(v.sent) /\ Ordered(v.hist) /\ Ordered(v.ch)
      /\ Before(v.sent, v.hist) /\ Before(v.sent, v.ch) /\ Before(v.hist, v.ch)
      /\ FromJob(v.sent) /\ FromJob(v.hist) /\ FromJob(v.ch)
  BY DEF FlowInv
<1>3. ev \in Event /\ ev.n = Len(emitted) + 1 /\ ev.kind = c /\ Len(emitted) \in Nat
  BY SMTT(60) DEF Event
<1>4. ASSUME NEW s \in Seq(Event), FromJob(s)
      PROVE  \A g \in DOMAIN s : s[g].n < ev.n
  BY <1>3, <1>4, SMTT(60) DEF FromJob
<1>5. Ordered(r.ch) /\ Before(r.sent, r.ch) /\ Before(r.hist, r.ch)
  BY <1>1, <1>2, <1>3, <1>4, OrderedAppend, BeforeAppend
<1>6. FromJob(r.sent)' /\ FromJob(r.hist)'
  BY <1>2, EmittedGrows
<1>7. FromJob(r.ch)'
  BY <1>1, <1>2, <1>3, StretchGrows
<1> QED
  BY <1>2, <1>5, <1>6, <1>7 DEF FlowInv

\* The non-blocking send keeps what the invariant says of the watcher, whether the
\* event fits in its buffer or is dropped.
LEMMA OfferedStep ==
    ASSUME StreamInv, NEW c \in Kinds, emitted' = Append(emitted, c), pc # "closed",
           NEW u \in Watchers, NEW ev, ev = [n |-> Len(emitted) + 1, kind |-> c],
           NEW r, r = Offered(u, ev)
    PROVE  /\ r \in WatchType /\ Len(r.ch) <= Buffer
           /\ FlowInv(r)' /\ PlaceInv(u, r)' /\ (u \in Relays => ReplayInv(r)')
           /\ u \in subs => r.pc # "idle" /\ r.chan = "open"
<1> DEFINE v == watch[u]
<1>1. PICK x : x = v
  OBVIOUS
<1>2. /\ emitted \in Seq(Kinds) /\ Len(emitted) \in Nat
      /\ x \in WatchType /\ Len(x.ch) <= Buffer
      /\ FlowInv(x) /\ PlaceInv(u, x) /\ (u \in Relays => ReplayInv(x))
      /\ u \in subs => x.pc # "idle" /\ x.chan = "open"
  BY <1>1, InvFacts, SMTT(60)
<1>3. FlowInv(x)' /\ (u \in Relays => ReplayInv(x)')
  BY <1>2, FlowGrows
<1>4. PlaceInv(u, x)'
  BY <1>2 DEF PlaceInv
<1>5. CASE ~(u \in subs /\ Len(v.ch) < Buffer)
  <2>1. r = x
    BY <1>1, <1>5 DEF Offered
  <2> QED
    BY <1>2, <1>3, <1>4, <2>1
<1>6. CASE u \in subs /\ Len(v.ch) < Buffer
  <2>1. r = [x EXCEPT !.ch = Append(x.ch, ev)]
    BY <1>1, <1>6 DEF Offered
  <2>2. ev \in Event /\ x.ch \in Seq(Event) /\ Append(x.ch, ev) \in Seq(Event)
    BY <1>2, SMTT(60) DEF Event, WatchType
  <2>3. r \in WatchType
    BY <1>2, <2>1, <2>2 DEF WatchType
  <2>4. /\ r.pc = x.pc /\ r.at = x.at /\ r.hist = x.hist /\ r.chan = x.chan /\ r.sent = x.sent
        /\ r.ch = Append(x.ch, ev)
    BY <1>2, <2>1 DEF WatchType
  <2>5. Len(r.ch) <= Buffer
    BY <1>1, <1>6, <2>2, <2>4, JobStreamAssumption, SMTT(60)
  <2>6. FlowInv(r)'
    BY <1>2, <2>3, <2>4, FlowOffered
  <2>7. PlaceInv(u, r)'
    BY <1>2, <1>4, <1>6, <2>4 DEF PlaceInv
  <2>8. u \in Relays => ReplayInv(r)'
    BY <1>3, <2>4 DEF ReplayInv
  <2> QED
    BY <1>2, <2>3, <2>4, <2>5, <2>6, <2>7, <2>8
<1> QED
  BY <1>5, <1>6

\* A step of the job that keeps what the invariant says of the job and of its history,
\* and of every watcher one by one, keeps the invariant.
LEMMA EveryWatcher ==
    ASSUME emitted' \in Seq(Kinds), history' \in Seq(Event), step' \in 0..Len(emitted'),
           subs' \subseteq Watchers,
           pc' \in {"registered", "working", "done", "finished", "closed"}, plog' \in LogType,
           JobInv', HistoryIsWhole', FromJob(history)',
           NEW W, W \in [Watchers -> WatchType], watch' = W,
           \A u \in Watchers :
               /\ Len(W[u].ch) <= Buffer
               /\ FlowInv(W[u])' /\ PlaceInv(u, W[u])' /\ (u \in Relays => ReplayInv(W[u])')
               /\ u \in subs' => W[u].pc # "idle" /\ W[u].chan = "open"
    PROVE  StreamInv'
<1>1. TypeOK'
  BY DEF TypeOK
<1>2. SubsInv'
  BY DEF SubsInv
<1>3. ASSUME NEW u \in Watchers
      PROVE  /\ FlowInv(watch[u])' /\ PlaceInv(u, watch[u])'
             /\ u \in Relays => ReplayInv(watch[u])'
  <2>1. FlowInv(watch[u])'
    BY <1>3 DEF FlowInv, FromJob, Ordered, Before
  <2>2. PlaceInv(u, watch[u])'
    BY <1>3 DEF PlaceInv
  <2>3. u \in Relays => ReplayInv(watch[u])'
    BY <1>3 DEF ReplayInv, Holds
  <2> QED
    BY <2>1, <2>2, <2>3
<1> QED
  BY <1>1, <1>2, <1>3 DEF StreamInv, Watchers

\* emit, in a step that keeps what the invariant says of the job itself.
LEMMA EmitStep ==
    ASSUME StreamInv, NEW c \in Kinds, Emit(c), pc # "closed", subs' = subs,
           pc' \in {"registered", "working", "done", "finished", "closed"}, plog' \in LogType,
           JobInv'
    PROVE  StreamInv'
<1> DEFINE e == [n |-> Len(emitted) + 1, kind |-> c]
<1>1. PICK ev : ev = e
  OBVIOUS
<1>2. /\ emitted \in Seq(Kinds) /\ history \in Seq(Event) /\ Len(emitted) \in Nat
      /\ step \in 0..Len(emitted) /\ subs \subseteq Watchers
      /\ HistoryIsWhole /\ FromJob(history)
  BY SMTT(60) DEF StreamInv, TypeOK
<1>3. /\ emitted' = Append(emitted, c) /\ history' = Kept(history, e)
      /\ step' = (IF c = "progress" THEN Len(emitted) + 1 ELSE step)
      /\ watch' = [w \in Watchers |-> Offered(w, ev)]
  BY <1>1 DEF Emit
<1>4. emitted' \in Seq(Kinds) /\ Len(emitted') = Len(emitted) + 1
  BY <1>2, <1>3, SMTT(60)
<1>5. step' \in 0..Len(emitted')
  BY <1>2, <1>3, <1>4, SMTT(60)
<1>6. HistoryIsWhole' /\ FromJob(history)' /\ history' \in Seq(Event)
  <2>1. Whole(emitted, history)
    BY <1>2, WholeBefore
  <2>2. history' \in Seq(Event) /\ Whole(emitted', history')
    BY <1>2, <1>3, <2>1, KeptIsWhole
  <2> QED
    BY <2>2, WholeAfter
<1>7. PICK W : W = [w \in Watchers |-> Offered(w, ev)]
  OBVIOUS
<1>8. ASSUME NEW u \in Watchers
      PROVE  /\ W[u] \in WatchType /\ Len(W[u].ch) <= Buffer
             /\ FlowInv(W[u])' /\ PlaceInv(u, W[u])' /\ (u \in Relays => ReplayInv(W[u])')
             /\ u \in subs => W[u].pc # "idle" /\ W[u].chan = "open"
  <2>1. W[u] = Offered(u, ev)
    BY <1>7
  <2> QED
    BY <1>1, <1>3, <2>1, OfferedStep
<1>9. W \in [Watchers -> WatchType]
  BY <1>7, <1>8
<1> QED
  BY <1>2, <1>3, <1>4, <1>5, <1>6, <1>7, <1>8, <1>9, EveryWatcher

-----------------------------------------------------------------------------
(* The job's goroutine and its log.                                        *)

\* runJob emits the JobStarted first.
LEMMA EmitStartedStep ==
    ASSUME StreamInv, EmitStarted
    PROVE  StreamInv'
<1>1. emitted = <<>> /\ plog \in LogType /\ (plog.state = "open" \/ plog.todo # <<>> => FALSE)
  BY DEF StreamInv, TypeOK, JobInv, EmitStarted
<1>2. emitted' = <<"started">> /\ pc' = "working" /\ plog' = plog /\ subs' = subs
  BY <1>1, SMTT(60) DEF EmitStarted, Emit
<1>3. JobInv'
  BY <1>1, <1>2, SMTT(60) DEF JobInv, StartedFirstDoneLast
<1> QED
  BY <1>1, <1>2, <1>3, EmitStep DEF EmitStarted, Kinds

\* The log emits only while the goroutine works, before the JobDone.
LEMMA LogEmitStep ==
    ASSUME StreamInv, LogEmit
    PROVE  StreamInv'
<1> DEFINE c == Head(plog.todo)
<1>1. /\ emitted \in Seq(Kinds) /\ plog \in LogType /\ JobInv
      /\ plog.todo # <<>> /\ pc = "working" /\ pc' = pc /\ subs' = subs
  BY DEF StreamInv, TypeOK, JobInv, LogEmit
<1>2. plog.todo \in Seq({"log", "progress"})
  BY <1>1 DEF LogType
<1>3. c \in {"log", "progress"} /\ Tail(plog.todo) \in Seq({"log", "progress"})
  BY <1>1, <1>2, SMTT(60)
<1> HIDE DEF c
<1>4. c \in Kinds /\ c # "started" /\ c # "done"
  BY <1>3 DEF Kinds
<1>5. plog' = [plog EXCEPT !.todo = Tail(plog.todo)] /\ emitted' = Append(emitted, c)
  BY DEF LogEmit, Emit, c
<1>6. plog' \in LogType
  BY <1>1, <1>3, <1>5 DEF LogType
<1>7. emitted # <<>> /\ \A k \in 1..Len(emitted) : emitted[k] # "done"
  BY <1>1 DEF JobInv
<1>8. JobInv'
  BY <1>1, <1>4, <1>5, <1>7, SMTT(60) DEF JobInv, StartedFirstDoneLast
<1> QED
  BY <1>1, <1>4, <1>6, <1>8, EmitStep DEF LogEmit, c

\* runJob emits the JobDone once its work has returned.
LEMMA EmitDoneStep ==
    ASSUME StreamInv, EmitDone
    PROVE  StreamInv'
<1>1. /\ emitted \in Seq(Kinds) /\ plog \in LogType /\ JobInv
      /\ pc = "working" /\ pc' = "done" /\ subs' = subs /\ plog' = plog
      /\ plog.state # "open" /\ plog.todo = <<>>
      /\ emitted' = Append(emitted, "done")
  BY DEF StreamInv, TypeOK, EmitDone, Emit
<1>2. emitted # <<>> /\ \A k \in 1..Len(emitted) : emitted[k] # "done"
  BY <1>1 DEF JobInv
<1>3. JobInv'
  BY <1>1, <1>2, SMTT(60) DEF JobInv, StartedFirstDoneLast
<1> QED
  BY <1>1, <1>3, EmitStep DEF EmitDone, Kinds

\* A step that emits nothing and leaves the watchers alone.
LEMMA QuietStep ==
    ASSUME StreamInv, UNCHANGED <<emitted, history, step, subs, watch>>,
           pc' \in {"registered", "working", "done", "finished", "closed"}, plog' \in LogType,
           JobInv', pc = "closed" => pc' = "closed"
    PROVE  StreamInv'
<1>1. TypeOK'
  BY DEF StreamInv, TypeOK
<1>2. HistoryIsWhole' /\ FromJob(history)'
  BY DEF StreamInv, HistoryIsWhole, LogsFrom, Holds, FromJob
<1>3. SubsInv'
  BY DEF StreamInv, SubsInv
<1>4. ASSUME NEW u \in Watchers
      PROVE  FlowInv(watch[u])' /\ PlaceInv(u, watch[u])'
  <2>1. FlowInv(watch[u]) /\ PlaceInv(u, watch[u])
    BY DEF StreamInv
  <2>2. FlowInv(watch[u])'
    BY <2>1 DEF FlowInv, FromJob, Ordered, Before
  <2>3. PlaceInv(u, watch[u])'
    BY <2>1 DEF PlaceInv
  <2> QED
    BY <2>2, <2>3
<1>5. ASSUME NEW u \in Relays
      PROVE  ReplayInv(watch[u])'
  BY DEF StreamInv, ReplayInv, Holds
<1> QED
  BY <1>1, <1>2, <1>3, <1>4, <1>5 DEF StreamInv

\* What a call of the log emits: nothing, a line, or one more event after a line.
LEMMA CallTodo ==
    LET T == Seq({"log", "progress"}) IN
    /\ <<>> \in T /\ <<"log">> \in T
    /\ \A f \in {<<>>, <<"log">>} : \A x \in {"log", "progress"} : f \o <<x>> \in T
BY SMTT(60)

\* What the log does between its emits: it opens while the goroutine works, takes
\* calls while it is open, and is finished once.
LEMMA LogStep ==
    ASSUME StreamInv, OpenLog \/ LogCall \/ LogFinish
    PROVE  StreamInv'
<1>1. /\ plog \in LogType /\ JobInv /\ UNCHANGED <<emitted, history, step, subs, pc, watch>>
      /\ pc \in {"registered", "working", "done", "finished", "closed"}
  BY DEF StreamInv, TypeOK, OpenLog, LogCall, Write, Step, Warn, Calling, LogFinish
<1>2. pc = "working"
  BY <1>1 DEF JobInv, OpenLog, LogCall, Write, Step, Warn, Callable, LogFinish
<1>3. /\ <<>> \in Seq({"log", "progress"}) /\ <<"log">> \in Seq({"log", "progress"})
      /\ \A x \in {"log", "progress"} : Flush \o <<x>> \in Seq({"log", "progress"})
  <2>1. Flush \in {<<>>, <<"log">>}
    BY DEF Flush
  <2> QED
    BY <2>1, CallTodo
<1>4. plog' \in LogType
  <2>1. CASE OpenLog
    BY <1>1, <1>3, <2>1 DEF OpenLog, LogType
  <2>2. ASSUME NEW todo \in Seq({"log", "progress"}), NEW partial \in BOOLEAN,
               Callable, Calling(todo, partial)
        PROVE  plog' \in LogType
    <3>1. plog.calls + 1 \in 0..MaxCalls
      BY <1>1, <2>2, JobStreamAssumption, SMTT(60) DEF Callable, LogType
    <3>2. plog' = [plog EXCEPT !.todo = todo, !.partial = partial, !.calls = plog.calls + 1]
      BY <2>2 DEF Calling
    <3> QED
      BY <1>1, <3>1, <3>2 DEF LogType
  <2>3. CASE LogCall
    <3>1. CASE Write(TRUE)
      BY <1>3, <2>2, <3>1 DEF Write
    <3>2. CASE Write(FALSE)
      BY <1>3, <2>2, <3>2 DEF Write
    <3>3. CASE Step
      BY <1>3, <2>2, <3>3 DEF Step
    <3>4. CASE Warn
      BY <1>3, <2>2, <3>4 DEF Warn
    <3> QED
      BY <2>3, <3>1, <3>2, <3>3, <3>4 DEF LogCall
  <2>4. CASE LogFinish
    <3>1. PICK last \in {"log", "progress"} :
            plog' = [plog EXCEPT !.state = "closed", !.todo = Flush \o <<last>>, !.partial = FALSE]
      BY <2>4 DEF LogFinish
    <3> QED
      BY <1>1, <1>3, <3>1 DEF LogType
  <2> QED
    BY <2>1, <2>3, <2>4
<1>5. JobInv'
  BY <1>1, <1>2 DEF JobInv, StartedFirstDoneLast
<1> QED
  BY <1>1, <1>2, <1>4, <1>5, QuietStep

\* jobManager.finish: the job is among the finished ones ...
LEMMA FinishStep ==
    ASSUME StreamInv, Finish
    PROVE  StreamInv'
<1>1. /\ JobInv /\ plog \in LogType /\ pc = "done" /\ pc' = "finished"
      /\ UNCHANGED <<emitted, history, step, subs, plog, watch>>
  BY DEF StreamInv, TypeOK, Finish
<1>2. JobInv'
  BY <1>1 DEF JobInv, StartedFirstDoneLast
<1> QED
  BY <1>1, <1>2, QuietStep

\* ... and its subscribers' channels are closed, after the JobDone.
LEMMA CloseSubsStep ==
    ASSUME StreamInv, CloseSubs
    PROVE  StreamInv'
<1> DEFINE Shut(u) == IF u \in subs THEN [watch[u] EXCEPT !.chan = "closed"] ELSE watch[u]
<1>1. /\ JobInv /\ plog \in LogType /\ pc = "finished" /\ pc' = "closed" /\ subs' = {}
      /\ UNCHANGED <<emitted, history, step, plog>>
      /\ watch' = [u \in Watchers |-> Shut(u)]
      /\ emitted \in Seq(Kinds) /\ history \in Seq(Event) /\ step \in 0..Len(emitted)
      /\ HistoryIsWhole /\ FromJob(history)
  BY DEF StreamInv, TypeOK, CloseSubs
<1>2. JobInv' /\ HistoryIsWhole' /\ FromJob(history)'
  <2>1. JobInv'
    BY <1>1 DEF JobInv, StartedFirstDoneLast
  <2> QED
    BY <1>1, <2>1 DEF HistoryIsWhole, LogsFrom, Holds, FromJob
<1>3. PICK W : W = [u \in Watchers |-> Shut(u)]
  OBVIOUS
<1>4. ASSUME NEW u \in Watchers
      PROVE  /\ W[u] \in WatchType /\ Len(W[u].ch) <= Buffer
             /\ FlowInv(W[u])' /\ PlaceInv(u, W[u])' /\ (u \in Relays => ReplayInv(W[u])')
  <2>1. PICK x : x = watch[u]
    OBVIOUS
  <2>2. PICK r : r = W[u]
    OBVIOUS
  <2>3. /\ x \in WatchType /\ Len(x.ch) <= Buffer
        /\ FlowInv(x) /\ PlaceInv(u, x) /\ (u \in Relays => ReplayInv(x))
        /\ u \in subs => x.chan = "open"
    BY <2>1, InvFacts
  <2>4. r = IF u \in subs THEN [x EXCEPT !.chan = "closed"] ELSE x
    BY <1>3, <2>1, <2>2
  <2>5. r \in WatchType
    BY <2>3, <2>4 DEF WatchType
  <2>6. /\ r.pc = x.pc /\ r.at = x.at /\ r.hist = x.hist /\ r.ch = x.ch /\ r.sent = x.sent
        /\ r.chan = IF u \in subs THEN "closed" ELSE x.chan
    BY <2>3, <2>4 DEF WatchType
  <2>7. FlowInv(r)' /\ (u \in Relays => ReplayInv(r)')
    <3>1. FlowInv(x)' /\ (u \in Relays => ReplayInv(x)')
      BY <1>1, <2>3 DEF FlowInv, FromJob, ReplayInv, Holds
    <3> QED
      BY <2>6, <3>1 DEF FlowInv, ReplayInv
  <2>8. PlaceInv(u, r)'
    BY <1>1, <2>3, <2>6 DEF PlaceInv
  <2> QED
    BY <2>2, <2>3, <2>5, <2>6, <2>7, <2>8
<1>5. W \in [Watchers -> WatchType]
  BY <1>3, <1>4
<1> QED
  BY <1>1, <1>2, <1>3, <1>4, <1>5, EveryWatcher

-----------------------------------------------------------------------------
(* The theorems.                                                           *)

\* Nothing is emitted, kept or watched when runJob's job is registered.
LEMMA StreamInit ==
    ASSUME Init
    PROVE  StreamInv
<1> DEFINE r == [pc |-> "idle", at |-> 0, hist |-> <<>>, ch |-> <<>>, chan |-> "nil", sent |-> <<>>]
<1>1. /\ emitted = <<>> /\ history = <<>> /\ step = 0 /\ subs = {} /\ pc = "registered"
      /\ plog = [state |-> "none", partial |-> FALSE, todo |-> <<>>, calls |-> 0]
      /\ watch = [w \in Watchers |-> r]
  BY DEF Init
<1>2. plog \in LogType
  <2>1. 0 \in 0..MaxCalls /\ <<>> \in Seq({"log", "progress"})
    BY JobStreamAssumption, SMTT(60)
  <2> QED
    BY <1>1, <2>1 DEF LogType
<1>3. r \in WatchType
  <2>1. 0 \in Nat /\ <<>> \in Seq(Event)
    BY SMTT(60)
  <2> QED
    BY <2>1 DEF WatchType
<1>4. /\ r.pc = "idle" /\ r.hist = <<>> /\ r.ch = <<>> /\ r.chan = "nil" /\ r.sent = <<>>
      /\ \A w \in Watchers : watch[w] = r
  BY <1>1
<1> HIDE DEF r
<1>5. TypeOK
  BY <1>1, <1>2, <1>3, <1>4, JobStreamAssumption, SMTT(60) DEF TypeOK
<1>6. JobInv /\ HistoryIsWhole /\ FromJob(history) /\ SubsInv
  BY <1>1, SMTT(60) DEF JobInv, StartedFirstDoneLast, HistoryIsWhole, FromJob, SubsInv
<1>7. FlowInv(r) /\ ReplayInv(r) /\ \A w \in Watchers : PlaceInv(w, r)
  BY <1>4, SMTT(60) DEF FlowInv, Ordered, Before, FromJob, ReplayInv, PlaceInv
<1> QED
  BY <1>4, <1>5, <1>6, <1>7 DEF StreamInv, Watchers

\* Every step of the goroutine, of its log and of a watcher keeps the invariant.
LEMMA StreamNext ==
    ASSUME StreamInv, [Next]_vars
    PROVE  StreamInv'
<1>1. CASE JobStep
  BY <1>1, EmitStartedStep, LogStep, LogEmitStep, EmitDoneStep, FinishStep, CloseSubsStep
     DEF JobStep
<1>2. CASE LogCall
  BY <1>2, LogStep
<1>3. ASSUME NEW w \in Watchers, Subscribe(w) \/ WatchStep(w) \/ Leave(w)
      PROVE  StreamInv'
  BY <1>3, SubscribeStep, RelayHistoryStep, RelayLiveStep, AwaitHistoryStep, ReceiveStep,
     SeeClosedStep, LeaveStep DEF WatchStep
<1>4. CASE UNCHANGED vars
  <2>1. UNCHANGED <<emitted, history, step, subs, watch>> /\ pc' = pc /\ plog' = plog
    BY <1>4 DEF vars
  <2>2. /\ pc \in {"registered", "working", "done", "finished", "closed"} /\ plog \in LogType
        /\ JobInv
    BY DEF StreamInv, TypeOK
  <2>3. JobInv'
    BY <2>1, <2>2 DEF JobInv, StartedFirstDoneLast
  <2> QED
    BY <2>1, <2>2, <2>3, QuietStep
<1> QED
  BY <1>1, <1>2, <1>3, <1>4 DEF Next

\* The invariant behind the stream: what the job emitted, what its history keeps and
\* what every watcher has, replays and has waiting fit together, in every state.
THEOREM StreamInvariant == Spec => []StreamInv
<1>1. Init => StreamInv
  BY StreamInit
<1>2. StreamInv /\ [Next]_vars => StreamInv'
  BY StreamNext
<1> QED
  BY <1>1, <1>2, PTL DEF Spec

\* The history emit keeps is every event but JobLog, and of those the LogHistory most
\* recent, each once and in order, for any LogHistory and any run of the log.
THEOREM HistoryStaysWhole == Spec => []HistoryIsWhole
<1>1. StreamInv => HistoryIsWhole
  BY DEF StreamInv
<1> QED
  BY <1>1, StreamInvariant, PTL

\* The first event is the JobStarted, alone of its kind, and nothing follows the JobDone:
\* no emit of the provisioning log comes after runJob's last one.
THEOREM JobIsFramed == Spec => []StartedFirstDoneLast
<1>1. StreamInv => StartedFirstDoneLast
  BY DEF StreamInv, JobInv
<1> QED
  BY <1>1, StreamInvariant, PTL

\* A client gets every event at most once and in order, over the seam between replay
\* and live events, and nothing after the JobDone, whatever the buffers drop.
THEOREM StreamsInOrder == Spec => []StreamInOrder
<1>1. ASSUME StreamInv
      PROVE  StreamInOrder
  <2>1. ASSUME NEW w \in Watchers, NEW g \in DOMAIN watch[w].sent, NEW h \in DOMAIN watch[w].sent,
               g < h
        PROVE  watch[w].sent[g].n < watch[w].sent[h].n /\ watch[w].sent[g].kind # "done"
    <3>1. /\ watch[w].sent \in Seq(Event) /\ Ordered(watch[w].sent) /\ FromJob(watch[w].sent)
          /\ StartedFirstDoneLast /\ emitted \in Seq(Kinds)
      BY <1>1, InvFacts DEF FlowInv, WatchType
    <3>2. watch[w].sent[g].n < watch[w].sent[h].n
      BY <2>1, <3>1 DEF Ordered
    <3>3. ASSUME watch[w].sent[g].kind = "done"
          PROVE  FALSE
      <4>1. watch[w].sent[h].n \in 1..Len(emitted) /\ Len(emitted) \in Nat
        BY <3>1, SMTT(60) DEF FromJob
      <4>2. g \in Dones(watch[w].sent)
        BY <3>3 DEF Dones
      <4>3. watch[w].sent[g].n = Len(emitted)
        BY <3>1, <4>2, DoneIsLast
      <4> QED
        BY <3>2, <4>1, <4>3, SMTT(60)
    <3> QED
      BY <3>2, <3>3
  <2> QED
    BY <2>1 DEF StreamInOrder
<1> QED
  BY <1>1, StreamInvariant, PTL

\* A stream or a wait that ends by itself has ended with the JobDone, even when its
\* buffer dropped it: a closed channel makes relay and awaitSubscribed look it up.
THEOREM StreamsEndWithDone == Spec => []EndsWithDone
<1>1. StreamInv => EndsWithDone
  BY DEF StreamInv, PlaceInv, EndsWithDone
<1> QED
  BY <1>1, StreamInvariant, PTL

\* A stream past its replay has every event but logs from before its subscription.
THEOREM ReplaysAreWhole == Spec => []ReplayIsWhole
<1>1. ASSUME StreamInv
      PROVE  ReplayIsWhole
  <2>1. ASSUME NEW w \in Relays, watch[w].pc \in {"live", "ended"},
               NEW k \in 1..watch[w].at, emitted[k] # "log"
        PROVE  Holds(watch[w].sent, k)
    <3>1. ReplayInv(watch[w]) /\ PlaceInv(w, watch[w])
      BY <1>1 DEF StreamInv, Watchers
    <3>2. watch[w].hist = <<>>
      BY <2>1, <3>1 DEF PlaceInv
    <3>3. Holds(watch[w].sent, k) \/ Holds(watch[w].hist, k)
      BY <2>1, <3>1 DEF ReplayInv
    <3> QED
      BY <3>2, <3>3, SMTT(60) DEF Holds
  <2> QED
    BY <2>1 DEF ReplayIsWhole
<1> QED
  BY <1>1, StreamInvariant, PTL
=============================================================================
