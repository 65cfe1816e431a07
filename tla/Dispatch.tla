------------------------------ MODULE Dispatch ------------------------------
(***************************************************************************)
(* How the rows of the snapshot table reach the workers of one process:    *)
(* the NOTIFY listener with its queue of hints, the actor loop of each     *)
(* worker (poll ticks, hints, prefetched batches, free slots, shutdown),   *)
(* and the scan that picks the rows.  A run of a task is a claim and an    *)
(* end here; what happens between them is in PgPool.                       *)
(***************************************************************************)
EXTENDS Naturals, Sequences, FiniteSets, FiniteSetsExt, Functions

CONSTANTS
    Ids,       \* the rows of the snapshot table
    Workers,   \* the workers of the process
    Cases,     \* [rows, workers, dead, left]: see Init
    Cap,       \* WAKEUP_CHANNEL_CAPACITY
    Aging      \* aging_interval, in half ticks of the clock; odd, so that no scores tie

ASSUME DispatchAssumption ==
    /\ IsFiniteSet(Ids) /\ "" \notin Ids
    /\ \A c \in Cases :
          /\ DOMAIN c.workers \subseteq Workers
          /\ \A x \in DOMAIN c.workers : c.workers[x].max \in Nat
          /\ \A r \in DOMAIN c.rows : c.rows[r].steps \in Nat

VARIABLES
    case,      \* the configuration: what the rows need, what the workers offer
    row,       \* [st, upd, step, failed, held]: see NoRow
    clock,     \* the time of the last save
    conn,      \* is the listener subscribed?
    net,       \* the notifications on their way to it
    hold,      \* the hint it is about to queue
    pending,   \* the keys of the hints that are queued
    queue,     \* the hints, for whichever worker asks first
    w,         \* the workers: [pc, hint, batch, inflight]
    shut,      \* the workers whose shutdown was requested
    left,      \* the faults and requests that may still come
    told       \* history: the rows whose last save someone has yet to look at

vars == <<case, row, clock, conn, net, hold, pending, queue, w, shut, left, told>>
listener == <<conn, net, hold, pending, queue>>

Spend(k) == left[k] > 0 /\ left' = [left EXCEPT ![k] = @ - 1]

(* st: "none"; "ready" or "backoff" at a task; "over"; or "dead", at a task   *)
(* that has its result already: the last one, until the workflow is marked    *)
(* completed, and for good if a worker stopped before it did.  upd:           *)
(* updated_at; step: the steps still to run; failed: the workers a run has    *)
(* failed on; held: is there a claim on the row?                              *)
NoRow == [st |-> "none", upd |-> 0, step |-> 0, failed |-> {}, held |-> FALSE]
NoHint == [row |-> "", step |-> 0]
NoWorker == [pc |-> "stopped", hint |-> NoHint, batch |-> <<>>, inflight |-> <<>>]

(* exec_save_snapshot: a row that is over is left alone.  A save stamps the   *)
(* row (when it is over, nobody looks at the stamp) and, when it is left at a *)
(* task, notifies the listener: the key of the hint is the row and the step.  *)
Save(r, new) ==
  IF row[r].st = "over" THEN UNCHANGED <<row, clock, net, told>>
  ELSE /\ clock' = IF new.st = "over" THEN clock ELSE clock + 1
       /\ row' = [row EXCEPT ![r] =
                    [new EXCEPT !.upd = IF new.st = "over" THEN 0 ELSE clock + 1]]
       /\ IF new.st \in {"ready", "backoff", "dead"} /\ conn
          THEN net' = Append(net, [row |-> r, step |-> new.step]) /\ told' = told \cup {r}
          ELSE net' = net /\ told' = told \ {r}

Submit(r) ==
  /\ row[r].st = "none" /\ r \in DOMAIN case.rows
  /\ Save(r, [NoRow EXCEPT !.st = "ready", !.step = case.rows[r].steps])
  /\ UNCHANGED <<case, conn, hold, pending, queue, w, shut, left>>

(* ---- the listener ----------------------------------------------------- *)

(* recv_until_error: a hint whose key is still pending is dropped ... *)
receive ==
  /\ hold = NoHint /\ net # <<>>
  /\ net' = Tail(net)
  /\ IF Head(net) \in pending THEN UNCHANGED <<hold, pending>>
     ELSE hold' = Head(net) /\ pending' = pending \cup {Head(net)}
  /\ UNCHANGED <<case, row, clock, conn, queue, w, shut, left, told>>

(* Faulty variant: the key of a hint that found no room stays pending. *)
try_send_leaking ==
  /\ hold # NoHint
  /\ hold' = NoHint
  /\ IF Len(queue) < Cap THEN queue' = Append(queue, hold) /\ UNCHANGED told
     ELSE told' = told \ {hold.row} /\ UNCHANGED queue
  /\ UNCHANGED <<case, row, clock, conn, net, pending, w, shut, left>>
(* ... and a hint that finds no room in the queue gives its key back. *)
try_send ==
  /\ hold # NoHint
  /\ hold' = NoHint
  /\ IF Len(queue) < Cap
     THEN queue' = Append(queue, hold) /\ UNCHANGED <<pending, told>>
     ELSE pending' = pending \ {hold} /\ told' = told \ {hold.row} /\ UNCHANGED queue
  /\ UNCHANGED <<case, row, clock, conn, net, w, shut, left>>

(* run_listener: the connection breaks, and is made again. *)
disconnect ==
  /\ conn /\ hold = NoHint /\ Spend("disconnect")
  /\ conn' = FALSE /\ net' = <<>> /\ told' = told \ {h.row : h \in Range(net)}
  /\ UNCHANGED <<case, row, clock, hold, pending, queue, w, shut>>
connect_and_listen ==
  /\ ~conn
  /\ conn' = TRUE
  /\ UNCHANGED <<case, row, clock, net, hold, pending, queue, w, shut, left, told>>

(* ---- the scan --------------------------------------------------------- *)

(* The ways to list a set of rows; a list without its i-th element. *)
Orders(S) == Bijection(1..Cardinality(S), S)
Without(s, i) == SubSeq(s, 1, i - 1) \o SubSeq(s, i + 1, Len(s))

(* ORDER BY before(_, _) LIMIT n. *)
Best(S, before(_, _), n) == {r \in S : Cardinality({q \in S : before(q, r)}) < n}

(* ELIGIBILITY_PREDICATE and the tag filter. *)
Scanned(x) ==
  {r \in Ids : /\ row[r].st \in {"ready", "backoff", "dead"} /\ ~row[r].held
               /\ \/ case.workers[x].tags = {}
                  \/ case.rows[r].tags \subseteq case.workers[x].tags}

(* Faulty variant: a row that has failed on this worker is left out. *)
find_available_tasks_avoiding(x, limit) ==
  LET older(r, q) == row[r].upd < row[q].upd
      better(r, q) == \/ case.rows[r].prio < case.rows[q].prio
                      \/ case.rows[r].prio = case.rows[q].prio /\ older(r, q)
      score(r) == case.rows[r].prio * Aging + 2 * row[r].upd
      arms == Best(Scanned(x), better, limit) \cup Best(Scanned(x), older, limit)
      ready == {r \in Best(arms, LAMBDA q, t : score(q) < score(t), limit) : row[r].st = "ready"}
      listed == {r \in ready : x \notin row[r].failed}
  IN {rows \in Orders(listed) :
        \A i, j \in DOMAIN rows : score(rows[i]) < score(rows[j]) => i < j}
(* The best rows by priority and the oldest ones, limit of each; of these the *)
(* limit best by the aging score; of these the ones that can be dispatched,   *)
(* those that have failed on this worker last.  The value is the set of the   *)
(* lists that are so ordered.                                                 *)
find_available_tasks(x, limit) ==
  LET older(r, q) == row[r].upd < row[q].upd
      better(r, q) == \/ case.rows[r].prio < case.rows[q].prio
                      \/ case.rows[r].prio = case.rows[q].prio /\ older(r, q)
      score(r) == case.rows[r].prio * Aging + 2 * row[r].upd
      arms == Best(Scanned(x), better, limit) \cup Best(Scanned(x), older, limit)
      ready == {r \in Best(arms, LAMBDA q, t : score(q) < score(t), limit) : row[r].st = "ready"}
      failed(r) == x \in row[r].failed
      before(r, q) == \/ ~failed(r) /\ failed(q)
                      \/ failed(r) = failed(q) /\ score(r) < score(q)
  IN {rows \in Orders(ready) :
        \A i, j \in DOMAIN rows : before(rows[i], rows[j]) => i < j}

(* ---- the actor loop --------------------------------------------------- *)

At(x, pc) == w[x].pc = pc
Go(x, new) == w' = [w EXCEPT ![x] = new]
Full(x) == Len(w[x].inflight) >= case.workers[x].max
Registered(x, r) == case.rows[r].def \in case.workers[x].defs

(* Faulty variant: a tick is taken whether or not a slot is free. *)
Ready_always(x) == At(x, "event") /\ x \notin shut
(* next_loop_event: below capacity, and no shutdown is waiting. *)
Ready(x) == At(x, "event") /\ x \notin shut /\ ~Full(x)

tick(x) ==
  /\ Ready(x)
  /\ Go(x, [w[x] EXCEPT !.pc = "poll"])
  /\ UNCHANGED <<case, row, clock, listener, shut, left, told>>

(* WakeupListener::wait: a hint is taken out of the queue, then its key out   *)
(* of the pending set.                                                        *)
wait_for_wakeup(x) ==
  \/ /\ Ready(x) /\ queue # <<>>
     /\ queue' = Tail(queue)
     /\ Go(x, [w[x] EXCEPT !.pc = "woken", !.hint = Head(queue)])
     /\ UNCHANGED <<case, row, clock, conn, net, hold, pending, shut, left, told>>
  \/ /\ At(x, "woken")
     /\ pending' = pending \ {w[x].hint}
     /\ Go(x, [w[x] EXCEPT !.pc = "hint"])
     /\ UNCHANGED <<case, row, clock, conn, net, hold, queue, shut, left, told>>

can_handle_hint(x, r) ==
  Registered(x, r) /\ case.rows[r].tags \subseteq case.workers[x].tags

(* A task that was spawned; at: what has been done of it.                     *)
Dispatch(r) == [row |-> r, step |-> row[r].step, at |-> "new"]

(* find_hinted_task: the row is still at that step, and unclaimed. *)
find_hinted_task(h) ==
  /\ row[h.row].st \in {"ready", "backoff"} /\ ~row[h.row].held
  /\ row[h.row].step = h.step

(* A hint the worker cannot handle is dropped.  With an external executor the *)
(* hinted task is looked up and spawned; otherwise, and when it is gone or    *)
(* the lookup fails, the worker polls.                                        *)
spawn_hinted_task(x) ==
  LET r == w[x].hint.row
      found == case.workers[x].external /\ find_hinted_task(w[x].hint)
      idle == [w[x] EXCEPT !.pc = "event", !.hint = NoHint]
      poll == [w[x] EXCEPT !.pc = "poll", !.hint = NoHint]
  IN /\ At(x, "hint")
     /\ told' = told \ {r}
     /\ \/ /\ ~can_handle_hint(x, r) /\ Go(x, idle) /\ UNCHANGED left
        \/ /\ can_handle_hint(x, r) /\ found
           /\ Go(x, [idle EXCEPT !.inflight = Append(@, Dispatch(r))])
           /\ UNCHANGED left
        \/ /\ can_handle_hint(x, r)
           /\ IF found THEN Spend("error") ELSE UNCHANGED left
           /\ Go(x, poll)
     /\ UNCHANGED <<case, row, clock, listener, shut>>

(* poll_batch: an error is an empty batch. *)
poll_batch(x) ==
  LET limit == Max({case.workers[x].batch, case.workers[x].max - Len(w[x].inflight)})
  IN /\ At(x, "poll")
     /\ \/ /\ \E rows \in find_available_tasks(x, limit) :
                Go(x, [w[x] EXCEPT !.pc = "batch",
                          !.batch = [i \in DOMAIN rows |-> Dispatch(rows[i])]])
           /\ UNCHANGED left
        \/ Spend("error") /\ Go(x, [w[x] EXCEPT !.pc = "event"])
     /\ UNCHANGED <<case, row, clock, listener, shut, told>>

(* The batch: each task waits for a slot; a shutdown ends the loop, before    *)
(* and after the wait; a task of a workflow that is not registered is         *)
(* skipped.                                                                   *)
spawn_batch(x) ==
  LET d == Head(w[x].batch)
      rest == [w[x] EXCEPT !.batch = Tail(@)]
  IN /\ At(x, "batch")
     /\ IF w[x].batch = <<>> THEN Go(x, [w[x] EXCEPT !.pc = "event"])
        ELSE IF x \in shut THEN Go(x, [w[x] EXCEPT !.pc = "drain", !.batch = <<>>])
        ELSE /\ ~Full(x)
             /\ Go(x, IF Registered(x, d.row)
                      THEN [rest EXCEPT !.inflight = Append(@, d)] ELSE rest)
     /\ UNCHANGED <<case, row, clock, listener, shut, left, told>>

shutdown_seen(x) ==
  /\ At(x, "event") /\ x \in shut
  /\ Go(x, [w[x] EXCEPT !.pc = "drain"])
  /\ UNCHANGED <<case, row, clock, listener, shut, left, told>>

(* Faulty variant: the worker exits and its tasks are dropped. *)
drain_inflight_abort(x) ==
  /\ At(x, "drain")
  /\ Go(x, NoWorker)
  /\ UNCHANGED <<case, row, clock, listener, shut, left, told>>
drain_inflight(x) ==
  /\ At(x, "drain") /\ w[x].inflight = <<>>
  /\ Go(x, NoWorker)
  /\ UNCHANGED <<case, row, clock, listener, shut, left, told>>

(* WorkerHandle::shutdown, or the last handle is dropped. *)
shutdown(x) ==
  /\ x \in DOMAIN case.workers \ shut /\ Spend("shutdown")
  /\ shut' = shut \cup {x}
  /\ UNCHANGED <<case, row, clock, listener, w, told>>

(* ---- the tasks in flight ---------------------------------------------- *)

InFlight(x, i, at) == [w[x] EXCEPT !.inflight = [@ EXCEPT ![i].at = at]]
Gone(x, i) == [w[x] EXCEPT !.inflight = Without(@, i)]

(* execute_task: a claim on a row that has moved on, or is claimed, fails.    *)
(* That the task has a result by now is not noticed.                          *)
claim_task(x) ==
  \E i \in DOMAIN w[x].inflight :
    LET d == w[x].inflight[i]
        ok == /\ row[d.row].st \in {"ready", "backoff", "dead"} /\ ~row[d.row].held
              /\ row[d.row].step = d.step
    IN /\ d.at = "new"
       /\ row' = IF ok THEN [row EXCEPT ![d.row].held = TRUE] ELSE row
       /\ Go(x, IF ok THEN InFlight(x, i, "run") ELSE Gone(x, i))
       /\ UNCHANGED <<case, clock, listener, shut, left, told>>

(* The task ends, and the row is saved under the claim: on to the next step,  *)
(* or, after the last one, with its result; Failed or Cancelled; or a retry.  *)
settle(x) ==
  \E i \in DOMAIN w[x].inflight :
    LET d == w[x].inflight[i]
        old == row[d.row]
    IN /\ d.at = "run"
       /\ \/ /\ old.step > 1 /\ UNCHANGED left
             /\ Save(d.row, [old EXCEPT !.step = @ - 1, !.failed = {}, !.st = "ready"])
             /\ Go(x, InFlight(x, i, "saved"))
          \/ /\ old.step <= 1 /\ UNCHANGED left
             /\ Save(d.row, [old EXCEPT !.failed = {}, !.st = "dead"])
             /\ Go(x, InFlight(x, i, "last"))
          \/ /\ Save(d.row, [old EXCEPT !.st = "over"]) /\ UNCHANGED left
             /\ Go(x, InFlight(x, i, "saved"))
          \/ /\ Spend("retry")
             /\ Save(d.row, [old EXCEPT !.st = "backoff", !.failed = {x}])
             /\ Go(x, InFlight(x, i, "saved"))
       /\ UNCHANGED <<case, conn, hold, pending, queue, shut>>

(* The claim is given back after the save: a worker that the notification has *)
(* woken by then finds the row claimed.                                       *)
release_task_claim(x) ==
  \E i \in DOMAIN w[x].inflight :
    LET d == w[x].inflight[i]
    IN /\ d.at \in {"saved", "last"}
       /\ row' = [row EXCEPT ![d.row].held = FALSE]
       /\ Go(x, IF d.at = "last" THEN InFlight(x, i, "post") ELSE Gone(x, i))
       /\ UNCHANGED <<case, clock, listener, shut, left, told>>

(* After the last task, and without the claim, the workflow is Completed. *)
determine_post_task_status(x) ==
  \E i \in DOMAIN w[x].inflight :
    LET r == w[x].inflight[i].row
    IN /\ w[x].inflight[i].at = "post"
       /\ Save(r, [row[r] EXCEPT !.st = "over"])
       /\ Go(x, Gone(x, i))
       /\ UNCHANGED <<case, conn, hold, pending, queue, shut, left>>

BackoffOver(r) ==
  /\ row[r].st = "backoff"
  /\ row' = [row EXCEPT ![r].st = "ready"]
  /\ UNCHANGED <<case, clock, listener, w, shut, left, told>>

(* ---- the specification ------------------------------------------------ *)

Init ==
  /\ \E c \in Cases :
       /\ case = c /\ left = c.left
       /\ row = [r \in Ids |-> IF r \in c.dead THEN [NoRow EXCEPT !.st = "dead"] ELSE NoRow]
       /\ w = [x \in Workers |-> IF x \in DOMAIN c.workers
                                 THEN [NoWorker EXCEPT !.pc = "event"] ELSE NoWorker]
  /\ clock = 0 /\ conn = TRUE /\ net = <<>> /\ hold = NoHint /\ pending = {} /\ queue = <<>>
  /\ shut = {} /\ told = {}

Loop(x) ==
  \/ tick(x) \/ wait_for_wakeup(x) \/ spawn_hinted_task(x) \/ poll_batch(x)
  \/ spawn_batch(x) \/ shutdown_seen(x) \/ drain_inflight(x)
Task(x) ==
  claim_task(x) \/ settle(x) \/ release_task_claim(x) \/ determine_post_task_status(x)
Listen == receive \/ try_send \/ connect_and_listen

Next ==
  \/ \E r \in Ids : Submit(r) \/ BackoffOver(r)
  \/ Listen \/ disconnect
  \/ \E x \in Workers : Loop(x) \/ Task(x) \/ shutdown(x)

Spec == Init /\ [][Next]_vars

(* The loops are scheduled, ticks come, tasks end, backoffs pass.  Faults,    *)
(* submissions and shutdowns need not come, and no hint need ever arrive.     *)
LiveSpec ==
  /\ Spec /\ WF_vars(\E r \in Ids : BackoffOver(r))
  /\ \A x \in Workers : WF_vars(Loop(x)) /\ WF_vars(Task(x))

(* ---- properties ------------------------------------------------------- *)

(* A worker never has more tasks in flight than max_concurrent: the hinted    *)
(* task is spawned without a look at the slots (spawn_hinted_task), and a     *)
(* batch is fetched for slots that may be gone when it is spawned.            *)
WithinCapacity ==
  \A x \in DOMAIN case.workers : Len(w[x].inflight) <= case.workers[x].max

(* The wakeup for the last save of a row is not lost while the listener is    *)
(* subscribed and has room: it is on its way, or an equal hint still is,      *)
(* which nobody has acted on.  The queue and the pending set are changed in   *)
(* separate steps, by the listener and by every worker.                       *)
NoLostWakeup ==
  \A r \in told : [row |-> r, step |-> row[r].step] \in
     Range(net) \cup Range(queue) \cup {hold} \cup {w[x].hint : x \in Workers}

Takes(x, r) ==
  /\ x \in DOMAIN case.workers \ shut /\ r \in DOMAIN case.rows
  /\ Registered(x, r)
  /\ \/ case.workers[x].tags = {}
     \/ case.rows[r].tags \subseteq case.workers[x].tags
Blocking(x) == {r \in Scanned(x) : r \in case.dead \/ ~Registered(x, r)}
Unblocked(x) == Cardinality(Blocking(x)) < case.workers[x].batch
Ended(r) == row[r].st = "over"
Servable(r) == \E x \in Workers : Takes(x, r) /\ Unblocked(x)
(* A row that a running worker may take is run to its end although hints are  *)
(* lost, dropped or stale and scans fail, provided fewer rows than the        *)
(* worker's batch are in its scan that it can never run: they are offered     *)
(* ahead of it (find_available_tasks).                                        *)
AllServed == \A r \in Ids : (row[r].st = "ready") ~> (Ended(r) \/ ~Servable(r))
Takeable(r) == \E x \in Workers : Takes(x, r)
(* As documented, a row that a running worker may take is eventually offered, *)
(* whatever else the scan of find_available_tasks finds.                      *)
NeverStarved == \A r \in Ids : (row[r].st = "ready") ~> (Ended(r) \/ ~Takeable(r))

AllHeld == \A r \in Ids : row[r].held =>
             \E x \in Workers : \E i \in DOMAIN w[x].inflight :
               w[x].inflight[i].row = r /\ w[x].inflight[i].at \in {"run", "saved", "last"}
(* A worker that is asked to shut down ends, and leaves no row claimed: the   *)
(* request is noticed at every point of the loop, also while it waits for a   *)
(* slot, and the tasks in flight are finished first (drain_inflight).         *)
ShutdownDrains == \A x \in Workers : (x \in shut) ~> [](At(x, "stopped") /\ AllHeld)
=============================================================================
