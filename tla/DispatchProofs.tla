--------------------------- MODULE DispatchProofs ---------------------------
(***************************************************************************)
(* Proofs about Dispatch for every table of rows, every set of workers and *)
(* every configuration of them.  The hints of the listener and the task    *)
(* slots of a worker are changed by several actors in separate steps; what *)
(* keeps them apart is that a hint is taken only by a worker with a free   *)
(* slot, and that its key stays pending until it has been taken.           *)
(***************************************************************************)
EXTENDS Dispatch, SequenceTheorems, FiniteSetTheorems, TLAPS

-----------------------------------------------------------------------------
(* Types.                                                                  *)

States == {"none", "ready", "backoff", "over", "dead"}
Rows == [st: States, upd: Nat, step: Nat, failed: SUBSET Workers, held: BOOLEAN]
Hints == [row: Ids, step: Nat]
Stages == {"new", "run", "saved", "last", "post"}
Tasks == [row: Ids, step: Nat, at: Stages]
Points == {"event", "poll", "batch", "woken", "hint", "drain", "stopped"}
WorkerStates == [pc: Points, hint: Hints \cup {NoHint},
                 batch: Seq(Tasks), inflight: Seq(Tasks)]

\* Every variable the properties look at has its type.
TypeOK ==
  /\ case \in Cases
  /\ row \in [Ids -> Rows] /\ clock \in Nat
  /\ net \in Seq(Hints) /\ hold \in Hints \cup {NoHint}
  /\ pending \subseteq Hints /\ queue \in Seq(Hints)
  /\ w \in [Workers -> WorkerStates]
  /\ told \subseteq Ids

\* A hint has a row, so none of them is NoHint.
LEMMA HintFacts ==
    /\ NoHint \notin Hints
    /\ NoRow \in Rows
    /\ NoWorker \in WorkerStates
<1>1. NoHint \notin Hints
  BY Zenon, DispatchAssumption DEF DispatchAssumption, NoHint, Hints
<1>2. NoRow \in Rows
  BY DEF NoRow, Rows, States
<1>3. NoWorker \in WorkerStates
  BY DEF NoWorker, WorkerStates, Points
<1> QED
  BY <1>1, <1>2, <1>3

\* The elements of a sequence that grows by one, or loses its head.
LEMMA QueueSets ==
    ASSUME NEW T, NEW s \in Seq(T)
    PROVE  /\ Range(s) \subseteq T
           /\ \A e \in T : Append(s, e) \in Seq(T) /\ Range(Append(s, e)) = Range(s) \cup {e}
           /\ s # <<>> => /\ Head(s) \in T /\ Tail(s) \in Seq(T)
                          /\ Range(s) = Range(Tail(s)) \cup {Head(s)}
<1>1. Range(s) \subseteq T
  BY DEF Range
<1>2. ASSUME NEW e \in T
      PROVE  Append(s, e) \in Seq(T) /\ Range(Append(s, e)) = Range(s) \cup {e}
  <2>1. /\ Append(s, e) \in Seq(T) /\ Len(Append(s, e)) = Len(s) + 1
        /\ \A i \in 1..Len(s) : Append(s, e)[i] = s[i]
        /\ Append(s, e)[Len(s) + 1] = e
    BY AppendProperties
  <2>2. /\ DOMAIN Append(s, e) = 1..(Len(s) + 1) /\ DOMAIN s = 1..Len(s) /\ Len(s) \in Nat
    BY <2>1, LenProperties
  <2> QED
    BY <2>1, <2>2 DEF Range
<1>3. ASSUME s # <<>>
      PROVE  /\ Head(s) \in T /\ Tail(s) \in Seq(T)
             /\ Range(s) = Range(Tail(s)) \cup {Head(s)}
  <2>1. /\ Head(s) \in T /\ Tail(s) \in Seq(T) /\ Len(Tail(s)) = Len(s) - 1
        /\ \A i \in 1..Len(Tail(s)) : Tail(s)[i] = s[i + 1]
    BY <1>3, HeadTailProperties
  <2>2. /\ Len(s) \in Nat /\ Len(s) > 0 /\ DOMAIN s = 1..Len(s)
        /\ DOMAIN Tail(s) = 1..(Len(s) - 1) /\ Head(s) = s[1]
    BY <1>3, <2>1, LenProperties, EmptySeq
  <2>3. Range(s) \subseteq Range(Tail(s)) \cup {Head(s)}
    <3> SUFFICES ASSUME NEW i \in 1..Len(s), i # 1 PROVE s[i] \in Range(Tail(s))
      BY <2>2 DEF Range
    <3>1. i - 1 \in 1..Len(Tail(s)) /\ (i - 1) + 1 = i
      BY <2>1, <2>2
    <3>2. Tail(s)[i - 1] = s[(i - 1) + 1]
      BY <2>1, <3>1
    <3> QED
      BY Zenon, <2>1, <2>2, <3>1, <3>2 DEF Range
  <2>4. Range(Tail(s)) \cup {Head(s)} \subseteq Range(s)
    <3>1. Head(s) \in Range(s)
      BY <2>2 DEF Range
    <3>2. ASSUME NEW i \in 1..(Len(s) - 1) PROVE Tail(s)[i] \in Range(s)
      <4>1. i + 1 \in 1..Len(s) /\ Tail(s)[i] = s[i + 1]
        BY <2>1, <2>2
      <4> QED
        BY <2>2, <4>1 DEF Range
    <3> QED
      BY <2>2, <3>1, <3>2 DEF Range
  <2> QED
    BY <2>1, <2>3, <2>4
<1> QED
  BY <1>1, <1>2, <1>3

\* A sequence without its i-th element.
LEMMA Removed ==
    ASSUME NEW T, NEW s \in Seq(T), NEW i \in DOMAIN s
    PROVE  /\ Without(s, i) \in Seq(T) /\ Len(Without(s, i)) = Len(s) - 1
           /\ \A j \in DOMAIN Without(s, i) :
                 Without(s, i)[j] = IF j < i THEN s[j] ELSE s[j + 1]
<1> DEFINE a == SubSeq(s, 1, i - 1)
           b == SubSeq(s, i + 1, Len(s))
<1>0. Len(s) \in Nat /\ DOMAIN s = 1..Len(s) /\ i \in Nat /\ i >= 1 /\ i <= Len(s)
  BY LenProperties
<1>1. /\ a \in Seq(T) /\ Len(a) = i - 1 /\ \A j \in 1..(i - 1) : a[j] = s[j]
  BY <1>0, SubSeqProperties
<1>2. /\ b \in Seq(T) /\ Len(b) = Len(s) - i
      /\ \A j \in 1..(Len(s) - i) : b[j] = s[j + i]
  BY <1>0, SubSeqProperties
<1>3. Without(s, i) = a \o b
  BY DEF Without
<1> HIDE DEF a, b
<1>4. /\ a \o b \in Seq(T) /\ Len(a \o b) = Len(s) - 1
      /\ \A j \in 1..(Len(s) - 1) : (a \o b)[j] = IF j <= i - 1 THEN a[j] ELSE b[j - (i - 1)]
  <2>1. /\ a \o b \in Seq(T) /\ Len(a \o b) = Len(a) + Len(b)
        /\ \A j \in 1..(Len(a) + Len(b)) :
              (a \o b)[j] = IF j <= Len(a) THEN a[j] ELSE b[j - Len(a)]
    BY Zenon, <1>1, <1>2, ConcatProperties
  <2>2. Len(a) + Len(b) = Len(s) - 1
    BY <1>0, <1>1, <1>2
  <2> QED
    BY Zenon, <1>1, <2>1, <2>2
<1>5. DOMAIN (a \o b) = 1..(Len(s) - 1)
  BY <1>4, LenProperties
<1>6. ASSUME NEW j \in 1..(Len(s) - 1)
      PROVE  (a \o b)[j] = IF j < i THEN s[j] ELSE s[j + 1]
  <2>1. CASE j < i
    BY <1>0, <1>1, <1>4, <2>1
  <2>2. CASE ~(j < i)
    <3>1. j - (i - 1) \in 1..(Len(s) - i) /\ (j - (i - 1)) + i = j + 1
      BY <1>0, <2>2
    <3>2. (a \o b)[j] = b[j - (i - 1)]
      <4>1. ~(j <= i - 1)
        BY <1>0, <2>2
      <4> QED
        BY Zenon, <1>4, <4>1
    <3>3. b[j - (i - 1)] = s[(j - (i - 1)) + i]
      BY Zenon, <1>2, <3>1
    <3>4. (a \o b)[j] = s[j + 1]
      BY Zenon, <3>1, <3>2, <3>3
    <3> QED
      BY <2>2, <3>4
  <2> QED
    BY Zenon, <2>1, <2>2
<1> QED
  BY Zenon, <1>3, <1>4, <1>5, <1>6

\* What a scan returns is a list of rows.
LEMMA Scan ==
    ASSUME NEW x, NEW limit, NEW rows \in find_available_tasks(x, limit)
    PROVE  rows \in Seq(Ids)
<1>1. PICK S \in SUBSET Ids : rows \in Orders(S)
  BY Zenon DEF find_available_tasks, Best, Scanned
<1>2. Cardinality(S) \in Nat
  BY Zenon, DispatchAssumption, FS_Subset, FS_CardinalityType DEF DispatchAssumption
<1>3. rows \in [1..Cardinality(S) -> S]
  BY <1>1 DEF Orders, Bijection, Injection
<1> QED
  BY <1>2, <1>3

-----------------------------------------------------------------------------
(* The worker loops.                                                       *)

\* The state v of worker x: only configured workers run, and one that has
\* stopped has no task in flight; it has a hint exactly between taking one and
\* acting on it, and then a slot is free; its tasks never outnumber its slots;
\* and no task of a batch has been started.
Good(x, v) ==
  /\ v.pc = "stopped" => v.inflight = <<>>
  /\ v.pc # "stopped" => /\ x \in DOMAIN case.workers
                         /\ Len(v.inflight) <= case.workers[x].max
  /\ v.hint # NoHint <=> v.pc \in {"woken", "hint"}
  /\ v.pc \in {"woken", "hint"} => Len(v.inflight) < case.workers[x].max
  /\ \A i \in DOMAIN v.batch : v.batch[i].at = "new"

LoopInv == \A x \in Workers : Good(x, w[x])

\* The parts of the record of a worker.
LEMMA WorkerFacts ==
    ASSUME TypeOK, LoopInv, NEW x \in Workers
    PROVE  /\ w[x] \in WorkerStates /\ Good(x, w[x])
           /\ w[x].batch \in Seq(Tasks) /\ w[x].inflight \in Seq(Tasks)
           /\ Len(w[x].inflight) \in Nat
           /\ w[x].pc # "stopped" => case.workers[x].max \in Nat
<1>1. w[x] \in WorkerStates /\ Good(x, w[x])
  BY DEF TypeOK, LoopInv
<1>2. w[x].pc # "stopped" => case.workers[x].max \in Nat
  BY Zenon, <1>1, DispatchAssumption DEF DispatchAssumption, Good, TypeOK
<1> QED
  BY Zenon, <1>1, <1>2, LenProperties DEF WorkerStates

\* A task in flight moves on to another stage or is gone.
LEMMA TaskMoves ==
    ASSUME NEW x \in Workers, Task(x)
    PROVE  \E i \in DOMAIN w[x].inflight, at \in Stages :
             Go(x, InFlight(x, i, at)) \/ Go(x, Gone(x, i))
<1>1. CASE claim_task(x)
  BY Zenon, <1>1 DEF claim_task, Stages
<1>2. CASE settle(x)
  BY Zenon, <1>2 DEF settle, Stages
<1>3. CASE release_task_claim(x)
  BY Zenon, <1>3 DEF release_task_claim, Stages
<1>4. CASE determine_post_task_status(x)
  BY Zenon, <1>4 DEF determine_post_task_status, Stages
<1> QED
  BY <1>1, <1>2, <1>3, <1>4 DEF Task

\* Every step of a loop, and of a task in flight, leaves the worker in a good
\* state: whatever point of the loop the task ends at.
LEMMA WorkerMoves ==
    ASSUME TypeOK, LoopInv, NEW x \in Workers, Loop(x) \/ Task(x)
    PROVE  \E v \in WorkerStates : Go(x, v) /\ Good(x, v)
<1> DEFINE u == w[x]
<1>0. /\ u \in WorkerStates /\ Good(x, u)
      /\ u.batch \in Seq(Tasks) /\ u.inflight \in Seq(Tasks)
      /\ Len(u.inflight) \in Nat /\ (u.pc # "stopped" => case.workers[x].max \in Nat)
  BY Zenon, WorkerFacts
<1>1. CASE tick(x)
  <2>1. /\ u.pc = "event" /\ Go(x, [u EXCEPT !.pc = "poll"])
    BY <1>1 DEF tick, Ready, At
  <2> HIDE DEF u
  <2> QED
    BY <1>0, <2>1 DEF Good, WorkerStates, Points
<1>2. CASE wait_for_wakeup(x)
  <2>1. CASE /\ Ready(x) /\ queue # <<>>
             /\ Go(x, [w[x] EXCEPT !.pc = "woken", !.hint = Head(queue)])
    <3>1. u.pc = "event" /\ Len(u.inflight) < case.workers[x].max
      BY <1>0, <2>1 DEF Ready, At, Full
    <3>2. Head(queue) \in Hints /\ Head(queue) # NoHint
      BY <2>1, QueueSets, HintFacts DEF TypeOK
    <3> DEFINE v == [u EXCEPT !.pc = "woken", !.hint = Head(queue)]
    <3>3. Go(x, v)
      BY <2>1
    <3> HIDE DEF u
    <3>4. /\ v \in WorkerStates /\ v.pc = "woken" /\ v.hint = Head(queue)
          /\ v.batch = u.batch /\ v.inflight = u.inflight
      BY Zenon, <1>0, <3>2 DEF WorkerStates, Points
    <3> HIDE DEF v
    <3> QED
      BY Zenon, <1>0, <3>1, <3>2, <3>3, <3>4 DEF Good
  <2>2. CASE At(x, "woken") /\ Go(x, [w[x] EXCEPT !.pc = "hint"])
    <3>1. u.pc = "woken" /\ Go(x, [u EXCEPT !.pc = "hint"])
      BY <2>2 DEF At
    <3> HIDE DEF u
    <3> QED
      BY <1>0, <3>1 DEF Good, WorkerStates, Points
  <2> QED
    BY <1>2, <2>1, <2>2 DEF wait_for_wakeup
<1>3. CASE spawn_hinted_task(x)
  <2> DEFINE d == Dispatch(u.hint.row)
  <2>1. u.pc = "hint"
    BY Zenon, <1>3 DEF spawn_hinted_task, At
  <2>2. \/ Go(x, [u EXCEPT !.pc = "event", !.hint = NoHint])
        \/ Go(x, [u EXCEPT !.pc = "poll", !.hint = NoHint])
        \/ Go(x, [[u EXCEPT !.pc = "event", !.hint = NoHint]
                     EXCEPT !.inflight = Append(@, d)])
    BY Zenon, <1>3 DEF spawn_hinted_task
  <2>3. d \in Tasks
    BY Zenon, <1>0, <2>1 DEF Dispatch, Tasks, Stages, TypeOK, Rows, Good, WorkerStates, Hints
  <2>4. /\ Append(u.inflight, d) \in Seq(Tasks)
        /\ Len(Append(u.inflight, d)) = Len(u.inflight) + 1
    BY <1>0, <2>3, AppendProperties
  <2> HIDE DEF u, d
  <2>5. Len(u.inflight) + 1 <= case.workers[x].max /\ case.workers[x].max \in Nat
    BY <1>0, <2>1 DEF Good
  <2>6. ASSUME NEW l \in {"event", "poll"}, NEW q \in {u.inflight, Append(u.inflight, d)},
               NEW v, Go(x, v),
               v = [u EXCEPT !.pc = l, !.hint = NoHint, !.inflight = q]
        PROVE  \E z \in WorkerStates : Go(x, z) /\ Good(x, z)
    <3>1. q \in Seq(Tasks) /\ Len(q) <= case.workers[x].max
      BY <1>0, <2>4, <2>5
    <3>2. /\ v \in WorkerStates /\ v.pc = l /\ v.hint = NoHint
          /\ v.batch = u.batch /\ v.inflight = q
      BY Zenon, <1>0, <2>6, <3>1 DEF WorkerStates, Points
    <3> QED
      BY Zenon, <1>0, <2>1, <2>6, <3>1, <3>2 DEF Good
  <2>7. /\ [u EXCEPT !.pc = "event", !.hint = NoHint]
              = [u EXCEPT !.pc = "event", !.hint = NoHint, !.inflight = u.inflight]
        /\ [u EXCEPT !.pc = "poll", !.hint = NoHint]
              = [u EXCEPT !.pc = "poll", !.hint = NoHint, !.inflight = u.inflight]
        /\ [[u EXCEPT !.pc = "event", !.hint = NoHint] EXCEPT !.inflight = Append(@, d)]
              = [u EXCEPT !.pc = "event", !.hint = NoHint,
                          !.inflight = Append(u.inflight, d)]
    BY Zenon, <1>0 DEF WorkerStates
  <2> QED
    BY <2>2, <2>6, <2>7
<1>4. CASE poll_batch(x)
  <2>1. u.pc = "poll"
    BY Zenon, <1>4 DEF poll_batch, At
  <2>2. CASE Go(x, [u EXCEPT !.pc = "event"])
    <3> HIDE DEF u
    <3> QED
      BY <1>0, <2>1, <2>2 DEF Good, WorkerStates, Points
  <2>3. CASE \E limit : \E rows \in find_available_tasks(x, limit) :
               Go(x, [u EXCEPT !.pc = "batch",
                         !.batch = [i \in DOMAIN rows |-> Dispatch(rows[i])]])
    <3>1. PICK rows \in Seq(Ids) :
               Go(x, [u EXCEPT !.pc = "batch",
                         !.batch = [i \in DOMAIN rows |-> Dispatch(rows[i])]])
      BY Zenon, <2>3, Scan
    <3> DEFINE b == [i \in DOMAIN rows |-> Dispatch(rows[i])]
    <3>2. \A r \in Ids : Dispatch(r) \in Tasks /\ Dispatch(r).at = "new"
      BY DEF Dispatch, Tasks, Stages, TypeOK, Rows
    <3>3. Len(rows) \in Nat /\ DOMAIN rows = 1..Len(rows) /\ \A i \in 1..Len(rows) : rows[i] \in Ids
      BY LenProperties
    <3>4. b \in Seq(Tasks) /\ \A i \in DOMAIN b : b[i].at = "new"
      BY <3>2, <3>3
    <3> DEFINE v == [u EXCEPT !.pc = "batch", !.batch = b]
    <3>5. Go(x, v)
      BY <3>1
    <3> HIDE DEF u, b
    <3>6. /\ v \in WorkerStates /\ v.pc = "batch" /\ v.hint = u.hint
          /\ v.batch = b /\ v.inflight = u.inflight
      BY Zenon, <1>0, <3>4 DEF WorkerStates, Points
    <3> HIDE DEF v
    <3> QED
      BY Zenon, <1>0, <2>1, <3>4, <3>5, <3>6 DEF Good
  <2> QED
    BY Zenon, <1>4, <2>2, <2>3 DEF poll_batch
<1>5. CASE spawn_batch(x)
  <2> DEFINE d == Head(u.batch)
             t == Tail(u.batch)
  <2>1. u.pc = "batch"
    BY Zenon, <1>5 DEF spawn_batch, At
  <2>2. CASE Go(x, [u EXCEPT !.pc = "event"])
    <3> HIDE DEF u
    <3> QED
      BY <1>0, <2>1, <2>2 DEF Good, WorkerStates, Points
  <2>3. CASE Go(x, [u EXCEPT !.pc = "drain", !.batch = <<>>])
    <3> DEFINE e == <<>>
               v == [u EXCEPT !.pc = "drain", !.batch = e]
    <3>1. e \in Seq(Tasks) /\ DOMAIN e = {}
      OBVIOUS
    <3>2. Go(x, v)
      BY <2>3
    <3> HIDE DEF u, e
    <3>3. /\ v \in WorkerStates /\ v.pc = "drain" /\ v.hint = u.hint
          /\ v.batch = e /\ v.inflight = u.inflight
      BY Zenon, <1>0, <3>1 DEF WorkerStates, Points
    <3> HIDE DEF v
    <3> QED
      BY Zenon, <1>0, <2>1, <3>1, <3>2, <3>3 DEF Good
  <2>4. CASE /\ u.batch # <<>> /\ ~Full(x)
             /\ \/ Go(x, [[u EXCEPT !.batch = t] EXCEPT !.inflight = Append(@, d)])
                \/ Go(x, [u EXCEPT !.batch = t])
    <3>1. /\ d \in Tasks /\ t \in Seq(Tasks) /\ Len(t) = Len(u.batch) - 1
          /\ \A i \in 1..Len(t) : t[i] = u.batch[i + 1]
      BY Zenon, <1>0, <2>4, HeadTailProperties
    <3>2. \A i \in DOMAIN t : t[i].at = "new"
      <4>1. /\ DOMAIN t = 1..Len(t) /\ DOMAIN u.batch = 1..Len(u.batch)
            /\ Len(u.batch) \in Nat /\ Len(t) \in Nat
        BY Zenon, <1>0, <3>1, LenProperties
      <4>2. ASSUME NEW i \in 1..Len(t) PROVE i + 1 \in 1..Len(u.batch) /\ t[i] = u.batch[i + 1]
        BY <3>1, <4>1
      <4>3. \A i \in DOMAIN u.batch : u.batch[i].at = "new"
        BY Zenon, <1>0 DEF Good
      <4> HIDE DEF t
      <4> QED
        BY <4>1, <4>2, <4>3
    <3>3. /\ Append(u.inflight, d) \in Seq(Tasks)
          /\ Len(Append(u.inflight, d)) = Len(u.inflight) + 1
      BY <1>0, <3>1, AppendProperties
    <3>4. Len(u.inflight) + 1 <= case.workers[x].max /\ case.workers[x].max \in Nat
      BY <1>0, <2>1, <2>4 DEF Full
    <3> HIDE DEF u, d, t
    <3>5. ASSUME NEW q \in {u.inflight, Append(u.inflight, d)}, NEW v, Go(x, v),
                 v = [u EXCEPT !.batch = t, !.inflight = q]
          PROVE  \E z \in WorkerStates : Go(x, z) /\ Good(x, z)
      <4>1. q \in Seq(Tasks) /\ Len(q) <= case.workers[x].max
        <5>1. CASE q = u.inflight
          BY <1>0, <3>4, <5>1
        <5>2. CASE q = Append(u.inflight, d)
          BY <3>3, <3>4, <5>2
        <5> QED
          BY <5>1, <5>2
      <4>2. /\ v \in WorkerStates /\ v.pc = u.pc /\ v.hint = u.hint
            /\ v.batch = t /\ v.inflight = q
        BY Zenon, <1>0, <3>1, <3>5, <4>1 DEF WorkerStates
      <4> QED
        BY Zenon, <1>0, <2>1, <3>2, <3>5, <4>1, <4>2 DEF Good
    <3>6. /\ [[u EXCEPT !.batch = t] EXCEPT !.inflight = Append(@, d)]
                = [u EXCEPT !.batch = t, !.inflight = Append(u.inflight, d)]
          /\ [u EXCEPT !.batch = t] = [u EXCEPT !.batch = t, !.inflight = u.inflight]
      BY Zenon, <1>0 DEF WorkerStates
    <3> QED
      BY <2>4, <3>5, <3>6
  <2> QED
    BY Zenon, <1>5, <2>2, <2>3, <2>4 DEF spawn_batch
<1>6. CASE shutdown_seen(x)
  <2>1. u.pc = "event" /\ Go(x, [u EXCEPT !.pc = "drain"])
    BY <1>6 DEF shutdown_seen, At
  <2> HIDE DEF u
  <2> QED
    BY <1>0, <2>1 DEF Good, WorkerStates, Points
<1>7. CASE drain_inflight(x)
  <2>1. Good(x, NoWorker)
    BY DEF Good, NoWorker
  <2> QED
    BY <1>7, <2>1, HintFacts DEF drain_inflight
<1>8. CASE Task(x)
  <2>1. PICK i \in DOMAIN u.inflight, at \in Stages :
           \/ Go(x, [u EXCEPT !.inflight = [u.inflight EXCEPT ![i].at = at]])
           \/ Go(x, [u EXCEPT !.inflight = Without(u.inflight, i)])
    BY Zenon, <1>8, TaskMoves DEF InFlight, Gone
  <2>2. /\ Without(u.inflight, i) \in Seq(Tasks)
        /\ Len(Without(u.inflight, i)) = Len(u.inflight) - 1
    BY Zenon, <1>0, Removed
  <2>3. /\ [u.inflight EXCEPT ![i].at = at] \in Seq(Tasks)
        /\ Len([u.inflight EXCEPT ![i].at = at]) = Len(u.inflight)
    <3>1. /\ i \in 1..Len(u.inflight) /\ u.inflight[i] \in Tasks
      BY Zenon, <1>0, LenProperties
    <3>2. [u.inflight[i] EXCEPT !.at = at] \in Tasks
      BY Zenon, <3>1 DEF Tasks
    <3>3. [u.inflight EXCEPT ![i].at = at]
             = [u.inflight EXCEPT ![i] = [u.inflight[i] EXCEPT !.at = at]]
      OBVIOUS
    <3> QED
      BY <1>0, <3>1, <3>2, <3>3, ExceptSeq
  <2>4. u.pc # "stopped"
    BY <1>0 DEF Good
  <2> HIDE DEF u
  <2>5. ASSUME NEW q \in Seq(Tasks), Len(q) = Len(u.inflight) \/ Len(q) = Len(u.inflight) - 1
        PROVE  [u EXCEPT !.inflight = q] \in WorkerStates /\ Good(x, [u EXCEPT !.inflight = q])
    BY <1>0, <2>4, <2>5 DEF Good, WorkerStates
  <2> QED
    BY Zenon, <2>1, <2>2, <2>3, <2>5
<1> QED
  BY <1>1, <1>2, <1>3, <1>4, <1>5, <1>6, <1>7, <1>8 DEF Loop

-----------------------------------------------------------------------------
(* The listener.                                                           *)

\* The hint that a save of row r, left at its current step, sends.
HintOf(r) == [row |-> r, step |-> row[r].step]

\* A key is pending only while its hint is queued, about to be queued, or
\* taken by a worker that has yet to give the key back.
PendingInv ==
  \A h \in pending : \/ h \in Range(queue) \/ h = hold
                     \/ \E x \in Workers : w[x].pc = "woken" /\ w[x].hint = h

\* The step of worker x leaves the others alone.
LEMMA OtherWorkers ==
    ASSUME TypeOK, NEW x \in Workers, NEW v, Go(x, v)
    PROVE  /\ w'[x] = v
           /\ \A y \in Workers : y # x => w'[y] = w[y]
BY DEF TypeOK, Go

\* What a save does to the table and to the listener.
LEMMA Saves ==
    ASSUME TypeOK, NEW r \in Ids, NEW new \in Rows, Save(r, new)
    PROVE  /\ row' \in [Ids -> Rows] /\ clock' \in Nat /\ net' \in Seq(Hints)
           /\ told' \subseteq Ids
           /\ Range(net) \subseteq Range(net')
           /\ \A q \in told' : \/ q \in told /\ row'[q].step = row[q].step
                              \/ HintOf(q)' \in Range(net')
<1>0. row \in [Ids -> Rows] /\ clock \in Nat /\ net \in Seq(Hints) /\ told \subseteq Ids
  BY DEF TypeOK
<1> DEFINE t == IF new.st = "over" THEN 0 ELSE clock + 1
           h == [row |-> r, step |-> new.step]
<1>1. CASE UNCHANGED <<row, clock, net, told>>
  BY Zenon, <1>0, <1>1
<1>2. CASE /\ clock' = (IF new.st = "over" THEN clock ELSE clock + 1)
           /\ row' = [row EXCEPT ![r] = [new EXCEPT !.upd = t]]
           /\ \/ net' = Append(net, h) /\ told' = told \cup {r}
              \/ net' = net /\ told' = told \ {r}
  <2>1. clock' \in Nat /\ t \in Nat
    BY <1>0, <1>2
  <2> HIDE DEF t
  <2>2. [new EXCEPT !.upd = t] \in Rows /\ [new EXCEPT !.upd = t].step = new.step
    BY <2>1 DEF Rows
  <2>3. /\ row' \in [Ids -> Rows] /\ row'[r].step = new.step
        /\ \A q \in Ids : q # r => row'[q] = row[q]
    BY <1>0, <1>2, <2>2
  <2>4. h \in Hints
    BY DEF Hints, Rows
  <2>5. CASE net' = Append(net, h) /\ told' = told \cup {r}
    <3> HIDE DEF h
    <3>1. Append(net, h) \in Seq(Hints) /\ Range(Append(net, h)) = Range(net) \cup {h}
      BY <1>0, <2>4, QueueSets
    <3>2. HintOf(r)' = h
      BY <2>3 DEF HintOf, h
    <3> QED
      BY Zenon, <1>0, <2>1, <2>3, <2>5, <3>1, <3>2
  <2>6. CASE net' = net /\ told' = told \ {r}
    BY Zenon, <1>0, <2>1, <2>3, <2>6
  <2> QED
    BY <1>2, <2>5, <2>6
<1> QED
  BY Zenon, <1>1, <1>2 DEF Save

\* A step that takes no hint anywhere keeps the hints where they are.
LEMMA WakeFrame ==
    ASSUME TypeOK, PendingInv, NoLostWakeup, UNCHANGED <<pending, queue, hold>>,
           Range(net) \subseteq Range(net'), told' \subseteq Ids,
           \A r \in told' : \/ r \in told /\ row'[r].step = row[r].step
                            \/ HintOf(r)' \in Range(net'),
           \A x \in Workers :
              \/ w[x].hint = NoHint
              \/ w'[x].hint = w[x].hint /\ w'[x].pc = w[x].pc
    PROVE  PendingInv' /\ NoLostWakeup'
<1>0. NoHint \notin Hints /\ pending \subseteq Hints
      /\ \A r \in told : HintOf(r) \in Hints
  BY Zenon, HintFacts DEF TypeOK, HintOf, Hints, Rows
<1>1. PendingInv'
  <2> SUFFICES ASSUME NEW h \in pending
               PROVE  \/ h \in Range(queue) \/ h = hold
                      \/ \E x \in Workers : w'[x].pc = "woken" /\ w'[x].hint = h
    BY Zenon DEF PendingInv
  <2> QED
    BY ZenonT(30), <1>0 DEF PendingInv
<1>2. ASSUME NEW r \in told'
      PROVE  HintOf(r)' \in Range(net') \cup Range(queue) \cup {hold}
                              \cup {w'[x].hint : x \in Workers}
  <2>1. CASE HintOf(r)' \in Range(net')
    BY <2>1
  <2>2. CASE r \in told /\ row'[r].step = row[r].step
    <3>1. HintOf(r)' = HintOf(r)
      BY Zenon, <2>2 DEF HintOf
    <3>2. HintOf(r) \in Range(net) \cup Range(queue) \cup {hold}
                            \cup {w[x].hint : x \in Workers}
      BY Zenon, <2>2 DEF NoLostWakeup, HintOf
    <3>3. ASSUME NEW x \in Workers, HintOf(r) = w[x].hint PROVE w'[x].hint = HintOf(r)
      BY Zenon, <1>0, <2>2, <3>3
    <3> QED
      BY <3>1, <3>2, <3>3
  <2> QED
    BY Zenon, <2>1, <2>2
<1>3. NoLostWakeup'
  BY Zenon, <1>2 DEF NoLostWakeup, HintOf
<1> QED
  BY <1>1, <1>3

\* The invariant of hints and slots.
WakeInv == LoopInv /\ PendingInv /\ NoLostWakeup

\* The steps of the listener.
LEMMA ListenerKeeps ==
    ASSUME TypeOK, WakeInv,
           receive \/ try_send \/ connect_and_listen \/ disconnect
    PROVE  TypeOK' /\ WakeInv'
<1>0. /\ net \in Seq(Hints) /\ queue \in Seq(Hints) /\ pending \subseteq Hints
      /\ hold \in Hints \cup {NoHint} /\ told \subseteq Ids /\ row \in [Ids -> Rows]
      /\ NoHint \notin Hints /\ <<>> \in Seq(Hints) /\ Range(<<>>) = {}
  BY HintFacts DEF TypeOK, Range
<1>1. UNCHANGED <<case, row, clock, w>> /\ told' \subseteq told
  BY Zenon DEF receive, try_send, connect_and_listen, disconnect
<1>2. LoopInv'
  BY Zenon, <1>1 DEF WakeInv, LoopInv, Good
<1>3. \A r \in told : HintOf(r) \in Hints /\ HintOf(r).row = r
  BY <1>0 DEF HintOf, Hints, Rows
<1>4. CASE receive
  <2>1. /\ Head(net) \in Hints /\ Tail(net) \in Seq(Hints)
        /\ Range(net) = Range(Tail(net)) \cup {Head(net)}
    BY Zenon, <1>0, <1>4, QueueSets DEF receive
  <2>2. /\ hold = NoHint /\ net' = Tail(net) /\ queue' = queue /\ told' = told
        /\ \/ Head(net) \in pending /\ UNCHANGED <<hold, pending>>
           \/ hold' = Head(net) /\ pending' = pending \cup {Head(net)}
    BY <1>4 DEF receive
  <2>3. TypeOK'
    BY Zenon, <1>0, <1>1, <2>1, <2>2 DEF TypeOK
  <2>4. PendingInv'
    BY Zenon, <1>0, <1>1, <2>1, <2>2 DEF WakeInv, PendingInv
  <2>5. ASSUME NEW r \in told
        PROVE  HintOf(r) \in Range(net') \cup Range(queue) \cup {hold'}
                                \cup {w[x].hint : x \in Workers}
    <3>1. HintOf(r) \in Range(net) \cup Range(queue) \cup {hold}
                              \cup {w[x].hint : x \in Workers}
      BY Zenon DEF WakeInv, NoLostWakeup, HintOf
    <3>2. CASE HintOf(r) # Head(net)
      BY <1>0, <1>3, <2>1, <2>2, <3>1, <3>2
    <3>3. CASE HintOf(r) = Head(net) /\ Head(net) \in pending
      BY Zenon, <1>0, <1>3, <2>2, <3>3 DEF WakeInv, PendingInv
    <3>4. CASE HintOf(r) = hold'
      BY <3>4
    <3> QED
      BY Zenon, <2>2, <3>2, <3>3, <3>4
  <2>6. NoLostWakeup'
    BY Zenon, <1>1, <2>2, <2>5 DEF NoLostWakeup, HintOf
  <2> QED
    BY <1>2, <2>3, <2>4, <2>6 DEF WakeInv
<1>5. CASE try_send
  <2>1. hold \in Hints /\ hold' = NoHint /\ net' = net
    BY ZenonT(30), <1>0, <1>5 DEF try_send
  <2>2. CASE queue' = Append(queue, hold) /\ UNCHANGED <<pending, told>>
    <3>1. queue' \in Seq(Hints) /\ Range(queue') = Range(queue) \cup {hold}
      BY <1>0, <2>1, <2>2, QueueSets
    <3>2. TypeOK'
      BY Zenon, <1>0, <1>1, <2>1, <2>2, <3>1 DEF TypeOK
    <3>3. PendingInv'
      BY Zenon, <1>1, <2>2, <3>1 DEF WakeInv, PendingInv
    <3>4. NoLostWakeup'
      BY <1>1, <2>1, <2>2, <3>1 DEF WakeInv, NoLostWakeup
    <3> QED
      BY <1>2, <3>2, <3>3, <3>4 DEF WakeInv
  <2>3. CASE pending' = pending \ {hold} /\ told' = told \ {hold.row} /\ UNCHANGED queue
    <3>1. TypeOK'
      BY Zenon, <1>0, <1>1, <2>1, <2>3 DEF TypeOK
    <3>2. PendingInv'
      BY Zenon, <1>1, <2>3 DEF WakeInv, PendingInv
    <3>3. ASSUME NEW r \in told'
          PROVE  HintOf(r) \in Range(net') \cup Range(queue') \cup {hold'}
                                  \cup {w[x].hint : x \in Workers}
      <4>1. HintOf(r) \in Range(net) \cup Range(queue) \cup {hold}
                                \cup {w[x].hint : x \in Workers}
        BY Zenon, <1>1 DEF WakeInv, NoLostWakeup, HintOf
      <4>2. HintOf(r) # hold
        BY <1>1, <1>3, <2>3
      <4> QED
        BY Zenon, <2>1, <2>3, <4>1, <4>2
    <3>4. NoLostWakeup'
      BY Zenon, <1>1, <3>3 DEF NoLostWakeup, HintOf
    <3> QED
      BY <1>2, <3>1, <3>2, <3>4 DEF WakeInv
  <2> QED
    BY Zenon, <1>5, <2>2, <2>3 DEF try_send
<1>6. CASE connect_and_listen
  <2>1. UNCHANGED <<net, hold, pending, queue, told>>
    BY <1>6 DEF connect_and_listen
  <2> QED
    BY <1>1, <1>2, <2>1 DEF TypeOK, WakeInv, PendingInv, NoLostWakeup
<1>7. CASE disconnect
  <2>1. /\ net' = <<>> /\ told' = told \ {h.row : h \in Range(net)}
        /\ UNCHANGED <<hold, pending, queue>>
    BY Zenon, <1>7 DEF disconnect
  <2>2. TypeOK'
    BY Zenon, <1>0, <1>1, <2>1 DEF TypeOK
  <2>3. PendingInv'
    BY <1>1, <2>1 DEF WakeInv, PendingInv
  <2>4. ASSUME NEW r \in told'
        PROVE  HintOf(r) \in Range(queue') \cup {hold'} \cup {w[x].hint : x \in Workers}
    <3>1. HintOf(r) \in Range(net) \cup Range(queue) \cup {hold}
                              \cup {w[x].hint : x \in Workers}
      BY <1>1 DEF WakeInv, NoLostWakeup, HintOf
    <3>2. HintOf(r) \notin Range(net)
      BY <1>1, <1>3, <2>1
    <3> QED
      BY Zenon, <2>1, <3>1, <3>2
  <2>5. NoLostWakeup'
    BY Zenon, <1>1, <2>4 DEF NoLostWakeup, HintOf
  <2> QED
    BY <1>2, <2>2, <2>3, <2>5 DEF WakeInv
<1> QED
  BY <1>4, <1>5, <1>6, <1>7

\* The steps on the table that no worker takes.
LEMMA TableKeeps ==
    ASSUME TypeOK, WakeInv,
           \/ \E r \in Ids : Submit(r) \/ BackoffOver(r)
           \/ \E x \in Workers : shutdown(x)
    PROVE  TypeOK' /\ WakeInv'
<1>0. row \in [Ids -> Rows] /\ NoRow \in Rows /\ told \subseteq Ids
  BY HintFacts DEF TypeOK
<1>1. UNCHANGED <<case, hold, pending, queue, w>>
  BY Zenon DEF Submit, BackoffOver, shutdown, listener
<1>2. LoopInv'
  BY Zenon, <1>1 DEF WakeInv, LoopInv, Good
<1>3. ASSUME row' \in [Ids -> Rows], clock' \in Nat, net' \in Seq(Hints),
             told' \subseteq Ids, Range(net) \subseteq Range(net'),
             \A q \in told' : \/ q \in told /\ row'[q].step = row[q].step
                              \/ HintOf(q)' \in Range(net')
      PROVE  TypeOK' /\ WakeInv'
  <2>1. TypeOK'
    BY Zenon, <1>1, <1>3 DEF TypeOK
  <2>2. PendingInv' /\ NoLostWakeup'
    BY Zenon, <1>1, <1>3, WakeFrame DEF WakeInv
  <2> QED
    BY <1>2, <2>1, <2>2 DEF WakeInv
<1>4. ASSUME NEW r \in Ids, Submit(r) PROVE TypeOK' /\ WakeInv'
  <2> DEFINE new == [NoRow EXCEPT !.st = "ready", !.step = case.rows[r].steps]
  <2>1. new \in Rows /\ Save(r, new)
    <3>1. case.rows[r].steps \in Nat
      BY Zenon, <1>4, DispatchAssumption DEF Submit, DispatchAssumption, TypeOK
    <3> QED
      BY Zenon, <1>4, <3>1, <1>0 DEF Submit, Rows, States
  <2> HIDE DEF new
  <2> QED
    BY Zenon, <1>3, <2>1, Saves
<1>5. ASSUME NEW r \in Ids, BackoffOver(r) PROVE TypeOK' /\ WakeInv'
  <2>1. row' = [row EXCEPT ![r].st = "ready"] /\ UNCHANGED <<clock, net, told>>
    BY <1>5 DEF BackoffOver, listener
  <2>2. row' \in [Ids -> Rows] /\ \A q \in Ids : row'[q].step = row[q].step
    BY Zenon, <1>0, <2>1 DEF Rows, States
  <2> QED
    BY Zenon, <1>0, <1>3, <2>1, <2>2 DEF TypeOK
<1>6. ASSUME NEW x \in Workers, shutdown(x) PROVE TypeOK' /\ WakeInv'
  <2>1. UNCHANGED <<row, clock, net, told>>
    BY Zenon, <1>6 DEF shutdown, listener
  <2> QED
    BY Zenon, <1>0, <1>3, <2>1 DEF TypeOK
<1> QED
  BY <1>4, <1>5, <1>6

\* The steps of the workers and of their tasks.
LEMMA WorkersKeep ==
    ASSUME TypeOK, WakeInv, NEW x \in Workers, Loop(x) \/ Task(x)
    PROVE  TypeOK' /\ WakeInv'
<1>0. /\ row \in [Ids -> Rows] /\ told \subseteq Ids /\ queue \in Seq(Hints)
      /\ net \in Seq(Hints) /\ pending \subseteq Hints /\ NoHint \notin Hints
      /\ w \in [Workers -> WorkerStates]
      /\ \A r \in told : HintOf(r) \in Hints /\ HintOf(r).row = r
  BY Zenon, HintFacts DEF TypeOK, HintOf, Hints, Rows
<1>1. PICK v \in WorkerStates : Go(x, v) /\ Good(x, v)
  BY WorkerMoves DEF WakeInv
<1>2. w'[x] = v /\ w' \in [Workers -> WorkerStates]
      /\ \A y \in Workers : y # x => w'[y] = w[y]
  BY Zenon, <1>0, <1>1, OtherWorkers DEF Go
<1>3. case' = case /\ hold' = hold
  BY Zenon DEF Loop, Task, tick, wait_for_wakeup, spawn_hinted_task, poll_batch,
         spawn_batch, shutdown_seen, drain_inflight, claim_task, settle,
         release_task_claim, determine_post_task_status, listener
<1>4. LoopInv'
  BY <1>1, <1>2, <1>3 DEF WakeInv, LoopInv, Good
<1>5. w[x] \in WorkerStates /\ Good(x, w[x])
  BY Zenon, WorkerFacts DEF WakeInv
<1>6. ASSUME row' \in [Ids -> Rows], clock' \in Nat, net' \in Seq(Hints),
             told' \subseteq Ids, Range(net) \subseteq Range(net'),
             \A q \in told' : \/ q \in told /\ row'[q].step = row[q].step
                              \/ HintOf(q)' \in Range(net'),
             UNCHANGED <<pending, queue>>,
             w[x].hint = NoHint \/ (v.hint = w[x].hint /\ v.pc = w[x].pc)
      PROVE  TypeOK' /\ WakeInv'
  <2>1. TypeOK'
    BY Zenon, <1>2, <1>3, <1>6 DEF TypeOK
  <2>2. \A y \in Workers : \/ w[y].hint = NoHint
                           \/ w'[y].hint = w[y].hint /\ w'[y].pc = w[y].pc
    BY Zenon, <1>2, <1>6
  <2>3. PendingInv' /\ NoLostWakeup'
    BY Zenon, <1>3, <1>6, <2>2, WakeFrame DEF WakeInv
  <2> QED
    BY <1>4, <2>1, <2>3 DEF WakeInv
<1>7. CASE tick(x) \/ poll_batch(x) \/ spawn_batch(x) \/ shutdown_seen(x)
           \/ drain_inflight(x)
  <2>1. UNCHANGED <<row, clock, net, told, pending, queue>>
    BY Zenon, <1>7 DEF tick, poll_batch, spawn_batch, shutdown_seen, drain_inflight, listener
  <2>2. w[x].hint = NoHint
    BY Zenon, <1>5, <1>7 DEF tick, poll_batch, spawn_batch, shutdown_seen, drain_inflight,
                      Ready, At, Good
  <2> QED
    BY Zenon, <1>0, <1>6, <2>1, <2>2 DEF TypeOK
<1>8. CASE Task(x)
  <2>1. PICK i \in DOMAIN w[x].inflight, at \in Stages :
           \/ Go(x, [w[x] EXCEPT !.inflight = [w[x].inflight EXCEPT ![i].at = at]])
           \/ Go(x, [w[x] EXCEPT !.inflight = Without(w[x].inflight, i)])
    BY Zenon, <1>8, TaskMoves DEF InFlight, Gone
  <2>2. v.hint = w[x].hint /\ v.pc = w[x].pc
    <3>1. \E q : w'[x] = [w[x] EXCEPT !.inflight = q]
      BY Zenon, <1>0, <2>1 DEF Go
    <3> QED
      BY <1>2, <1>5, <3>1 DEF WorkerStates
  <2>3. UNCHANGED <<pending, queue>>
    BY Zenon, <1>8 DEF Task, claim_task, settle, release_task_claim,
                       determine_post_task_status, listener
  <2>6. \A j \in DOMAIN w[x].inflight : w[x].inflight[j].row \in Ids
    <3>1. w[x].inflight \in Seq(Tasks)
      BY Zenon, <1>5 DEF WorkerStates
    <3>2. \A j \in DOMAIN w[x].inflight : w[x].inflight[j] \in Tasks
      BY <3>1
    <3> QED
      BY Zenon, <3>2 DEF Tasks
  <2>4. CASE claim_task(x) \/ release_task_claim(x)
    <3>1. PICK r \in Ids, h \in BOOLEAN : row' = row \/ row' = [row EXCEPT ![r].held = h]
      <4>1. PICK j \in DOMAIN w[x].inflight, h \in BOOLEAN :
               row' = row \/ row' = [row EXCEPT ![w[x].inflight[j].row].held = h]
        BY Zenon, <2>4 DEF claim_task, release_task_claim
      <4> QED
        BY Zenon, <4>1, <2>6
    <3>2. row' \in [Ids -> Rows] /\ \A q \in Ids : row'[q].step = row[q].step
      <4>1. row \in [Ids -> Rows]
        BY <1>0
      <4>2. CASE row' = row
        BY <4>1, <4>2
      <4>3. CASE row' = [row EXCEPT ![r].held = h]
        BY <4>1, <4>3 DEF Rows
      <4> QED
        BY <3>1, <4>2, <4>3
    <3>3. UNCHANGED <<clock, net, told>>
      BY Zenon, <2>4 DEF claim_task, release_task_claim, listener
    <3> QED
      BY Zenon, <1>0, <1>6, <2>2, <2>3, <3>2, <3>3 DEF TypeOK
  <2>5. CASE settle(x) \/ determine_post_task_status(x)
    <3>1. PICK r \in Ids, new \in Rows : Save(r, new)
      <4>1. PICK j \in DOMAIN w[x].inflight :
               LET r == w[x].inflight[j].row
               IN  \/ /\ row[r].step > 1
                      /\ Save(r, [row[r] EXCEPT !.step = @ - 1, !.failed = {}, !.st = "ready"])
                   \/ Save(r, [row[r] EXCEPT !.failed = {}, !.st = "dead"])
                   \/ Save(r, [row[r] EXCEPT !.st = "over"])
                   \/ Save(r, [row[r] EXCEPT !.st = "backoff", !.failed = {x}])
        BY Zenon, <2>5 DEF settle, determine_post_task_status
      <4> DEFINE r == w[x].inflight[j].row
                 old == row[r]
      <4>2. r \in Ids /\ old \in Rows
        BY Zenon, <1>0, <2>6
      <4>3. old.step > 1 => [old EXCEPT !.step = @ - 1, !.failed = {}, !.st = "ready"] \in Rows
        <5> HIDE DEF old, r
        <5> SUFFICES ASSUME old.step > 1
                     PROVE  [old EXCEPT !.step = @ - 1, !.failed = {}, !.st = "ready"] \in Rows
          OBVIOUS
        <5>1. old.step \in Nat /\ old.step - 1 \in Nat
          BY <4>2 DEF Rows
        <5>2. ASSUME NEW k \in Nat
              PROVE  [old EXCEPT !.step = k, !.failed = {}, !.st = "ready"] \in Rows
          BY Zenon, <4>2 DEF Rows, States
        <5> QED
          BY Zenon, <5>1, <5>2
      <4>4. /\ [old EXCEPT !.failed = {}, !.st = "dead"] \in Rows
            /\ [old EXCEPT !.st = "over"] \in Rows
        <5> HIDE DEF old, r
        <5> QED
          BY Zenon, <4>2 DEF Rows, States
      <4>5. [old EXCEPT !.st = "backoff", !.failed = {x}] \in Rows
        <5> HIDE DEF old, r
        <5>1. {x} \in SUBSET Workers
          OBVIOUS
        <5> QED
          BY Zenon, <4>2, <5>1 DEF Rows, States
      <4> QED
        BY Zenon, <4>1, <4>2, <4>3, <4>4, <4>5
    <3> QED
      BY Zenon, <1>6, <2>2, <2>3, <3>1, Saves
  <2> QED
    BY <1>8, <2>4, <2>5 DEF Task
<1>9. CASE wait_for_wakeup(x)
  <2>1. UNCHANGED <<row, clock, net, told>>
    BY <1>9 DEF wait_for_wakeup
  <2>2. CASE /\ Ready(x) /\ queue # <<>> /\ queue' = Tail(queue) /\ pending' = pending
             /\ Go(x, [w[x] EXCEPT !.pc = "woken", !.hint = Head(queue)])
    <3>1. /\ Head(queue) \in Hints /\ Tail(queue) \in Seq(Hints)
          /\ Range(queue) = Range(Tail(queue)) \cup {Head(queue)}
      BY <1>0, <2>2, QueueSets
    <3>2. w'[x].pc = "woken" /\ w'[x].hint = Head(queue) /\ w[x].hint = NoHint
      <4>1. w'[x] = [w[x] EXCEPT !.pc = "woken", !.hint = Head(queue)]
        BY <1>0, <2>2 DEF Go
      <4>2. w[x].hint = NoHint
        BY <1>5, <2>2 DEF Ready, At, Good
      <4> QED
        BY <1>5, <4>1, <4>2 DEF WorkerStates
    <3>3. TypeOK'
      BY ZenonT(30), <1>0, <1>2, <1>3, <2>1, <2>2, <3>1 DEF TypeOK
    <3>4. PendingInv'
      <4> SUFFICES ASSUME NEW h \in pending
                   PROVE  \/ h \in Range(queue') \/ h = hold
                          \/ \E y \in Workers : w'[y].pc = "woken" /\ w'[y].hint = h
        BY <1>3, <2>2 DEF PendingInv
      <4>1. h # NoHint
        BY <1>0
      <4> QED
        BY ZenonT(30), <1>2, <2>2, <3>1, <3>2, <4>1 DEF WakeInv, PendingInv
    <3>5. ASSUME NEW r \in told
          PROVE  HintOf(r) \in Range(net') \cup Range(queue') \cup {hold'}
                                  \cup {w'[y].hint : y \in Workers}
      <4>1. HintOf(r) \in Range(net) \cup Range(queue) \cup {hold}
                                \cup {w[y].hint : y \in Workers}
        BY Zenon DEF WakeInv, NoLostWakeup, HintOf
      <4>2. ASSUME NEW y \in Workers, HintOf(r) = w[y].hint PROVE w'[y].hint = HintOf(r)
        BY Zenon, <1>0, <1>2, <3>2, <4>2
      <4> QED
        BY ZenonT(30), <1>3, <2>1, <2>2, <3>1, <3>2, <4>1, <4>2
    <3>6. NoLostWakeup'
      BY ZenonT(30), <2>1, <3>5 DEF NoLostWakeup, HintOf
    <3> QED
      BY <1>4, <3>3, <3>4, <3>6 DEF WakeInv
  <2>3. CASE /\ At(x, "woken") /\ pending' = pending \ {w[x].hint} /\ queue' = queue
             /\ Go(x, [w[x] EXCEPT !.pc = "hint"])
    <3>1. w'[x].hint = w[x].hint
      BY <1>0, <1>5, <2>3 DEF Go, WorkerStates
    <3>2. TypeOK'
      BY Zenon, <1>0, <1>2, <1>3, <2>1, <2>3 DEF TypeOK
    <3>3. PendingInv'
      <4> SUFFICES ASSUME NEW h \in pending, h # w[x].hint
                   PROVE  \/ h \in Range(queue) \/ h = hold
                          \/ \E y \in Workers : w'[y].pc = "woken" /\ w'[y].hint = h
        BY <1>3, <2>3 DEF PendingInv
      <4> QED
        BY Zenon, <1>2 DEF WakeInv, PendingInv
    <3>4. \A y \in Workers : w'[y].hint = w[y].hint
      BY Zenon, <1>2, <3>1
    <3>5. {w'[y].hint : y \in Workers} = {w[y].hint : y \in Workers}
      BY Zenon, <3>4
    <3>6. NoLostWakeup'
      BY Zenon, <1>3, <2>1, <2>3, <3>5 DEF WakeInv, NoLostWakeup
    <3> QED
      BY <1>4, <3>2, <3>3, <3>6 DEF WakeInv
  <2> QED
    BY Zenon, <1>9, <2>2, <2>3 DEF wait_for_wakeup
<1>10. CASE spawn_hinted_task(x)
  <2>1. /\ w[x].pc = "hint" /\ told' = told \ {w[x].hint.row}
        /\ UNCHANGED <<row, clock, net, pending, queue>>
    BY Zenon, <1>10 DEF spawn_hinted_task, At, listener
  <2>2. TypeOK'
    BY Zenon, <1>0, <1>2, <1>3, <2>1 DEF TypeOK
  <2>3. PendingInv'
    <3> SUFFICES ASSUME NEW h \in pending
                 PROVE  \/ h \in Range(queue) \/ h = hold
                        \/ \E y \in Workers : w'[y].pc = "woken" /\ w'[y].hint = h
      BY Zenon, <1>3, <2>1 DEF PendingInv
    <3> QED
      BY <1>2, <2>1 DEF WakeInv, PendingInv
  <2>4. ASSUME NEW r \in told'
        PROVE  HintOf(r) \in Range(net') \cup Range(queue') \cup {hold'}
                                \cup {w'[y].hint : y \in Workers}
    <3>1. r \in told /\ HintOf(r) # w[x].hint
      BY Zenon, <1>0, <2>1
    <3>2. HintOf(r) \in Range(net) \cup Range(queue) \cup {hold}
                              \cup {w[y].hint : y \in Workers}
      BY Zenon, <3>1 DEF WakeInv, NoLostWakeup, HintOf
    <3>3. ASSUME NEW y \in Workers, HintOf(r) = w[y].hint PROVE w'[y].hint = HintOf(r)
      BY Zenon, <1>2, <3>1, <3>3
    <3> QED
      BY Zenon, <1>3, <2>1, <3>2, <3>3
  <2>5. NoLostWakeup'
    BY Zenon, <2>1, <2>4 DEF NoLostWakeup, HintOf
  <2> QED
    BY <1>4, <2>2, <2>3, <2>5 DEF WakeInv
<1> QED
  BY Zenon, <1>7, <1>8, <1>9, <1>10 DEF Loop

\* TypeOK and WakeInv are inductive.
LEMMA WakeInductive ==
    /\ Init => TypeOK /\ WakeInv
    /\ TypeOK /\ WakeInv /\ [Next]_vars => TypeOK' /\ WakeInv'
<1>1. Init => TypeOK /\ WakeInv
  <2> SUFFICES ASSUME Init PROVE TypeOK /\ WakeInv
    OBVIOUS
  <2>1. PICK c \in Cases :
          /\ case = c
          /\ row = [r \in Ids |-> IF r \in c.dead THEN [NoRow EXCEPT !.st = "dead"] ELSE NoRow]
          /\ w = [x \in Workers |-> IF x \in DOMAIN c.workers
                                    THEN [NoWorker EXCEPT !.pc = "event"] ELSE NoWorker]
    BY DEF Init
  <2>2. [NoRow EXCEPT !.st = "dead"] \in Rows /\ NoRow \in Rows
    BY HintFacts DEF Rows, States
  <2>3. [NoWorker EXCEPT !.pc = "event"] \in WorkerStates /\ NoWorker \in WorkerStates
    BY Zenon, HintFacts DEF WorkerStates, Points
  <2>4. TypeOK
    BY <2>1, <2>2, <2>3 DEF Init, TypeOK
  <2>5. ASSUME NEW x \in Workers PROVE Good(x, w[x])
    <3>1. CASE x \in DOMAIN c.workers
      <4>1. c.workers[x].max \in Nat
        BY Zenon, <3>1, DispatchAssumption DEF DispatchAssumption
      <4> QED
        BY <2>1, <3>1, <4>1 DEF Good, NoWorker
    <3>2. CASE x \notin DOMAIN c.workers
      BY <2>1, <3>2 DEF Good, NoWorker
    <3> QED
      BY <3>1, <3>2
  <2> QED
    BY <2>4, <2>5 DEF Init, WakeInv, LoopInv, PendingInv, NoLostWakeup
<1>2. ASSUME TypeOK, WakeInv, [Next]_vars PROVE TypeOK' /\ WakeInv'
  <2>1. CASE UNCHANGED vars
    <3>1. TypeOK'
      BY ZenonT(30), <1>2, <2>1 DEF TypeOK, vars
    <3>2. LoopInv' /\ PendingInv' /\ NoLostWakeup'
      BY <1>2, <2>1 DEF WakeInv, LoopInv, Good, PendingInv, NoLostWakeup, vars
    <3> QED
      BY <3>1, <3>2 DEF WakeInv
  <2>2. CASE Next
    BY Zenon, <1>2, <2>2, ListenerKeeps, TableKeeps, WorkersKeep DEF Next, Listen
  <2> QED
    BY <1>2, <2>1, <2>2
<1> QED
  BY <1>1, <1>2

\* However hints, batches and polls compete for the slots of a worker, it never
\* runs more tasks than max_concurrent allows.
THEOREM CapacityKept == Spec => []WithinCapacity
<1>1. TypeOK /\ WakeInv => WithinCapacity
  <2> SUFFICES ASSUME TypeOK, WakeInv, NEW x \in DOMAIN case.workers
               PROVE  Len(w[x].inflight) <= case.workers[x].max
    BY DEF WithinCapacity
  <2>1. x \in Workers /\ case.workers[x].max \in Nat
    BY Zenon, DispatchAssumption DEF DispatchAssumption, TypeOK
  <2>2. Good(x, w[x])
    BY <2>1 DEF WakeInv, LoopInv
  <2>3. CASE w[x].pc = "stopped"
    <3>1. Len(w[x].inflight) = 0
      BY <2>2, <2>3 DEF Good
    <3> QED
      BY <2>1, <3>1
  <2> QED
    BY Zenon, <2>2, <2>3 DEF Good
<1> QED
  BY <1>1, WakeInductive, PTL DEF Spec

\* The deduplication of hints loses no wakeup: a notification is dropped only
\* while an equal hint is on its way to a worker that has not acted on it, in
\* whatever order the listener and the workers touch queue and pending set.
THEOREM WakeupsKept == Spec => []NoLostWakeup
<1>1. WakeInv => NoLostWakeup
  BY DEF WakeInv
<1> QED
  BY <1>1, WakeInductive, PTL DEF Spec

=============================================================================
