------------------------------ MODULE LocalPool -----------------------------
(***************************************************************************)
(* PooledWorkers and WorkflowClients in one process, on InMemoryBackend.   *)
(*                                                                         *)
(* The backend keeps snapshots, signals, events and claims each behind a   *)
(* lock of its own, and most of its calls take several locks one after     *)
(* another.  One action is one section under a lock, so a client's call    *)
(* may fall between the sections of a worker's.  Fenced saves are plain    *)
(* saves here (the default of TaskClaimStore).                             *)
(***************************************************************************)
EXTENDS WorkerTree

CONSTANTS
    Cases,     \* [tree, workers, clients, left]: see Init
    Flaky      \* the ids of the tasks that may fail

VARIABLES
    tree,      \* the workflow definition, known to workers and clients
    store,     \* the snapshot of the instance, NoSnapshot when there is none
    sigs,      \* its control signals
    events,    \* its events, a queue for every signal name
    claims,    \* task id -> [by, live]
    w,         \* the workers: where each is and what it holds
    cl,        \* the clients that submit: the submissions they still make
    asking,    \* the control requests between the two sections of store_signal
    delays,    \* the delays and signal timeouts that have not elapsed
    backoff,   \* the tasks whose retry time has not come
    left,      \* the requests and faults that may still come
    ran,       \* history: the task runs [id, of, in, v, again], of the instance's input
    kept,      \* history: every result [id, v] the store has held
    got        \* history: the payload every signal node received

vars == <<tree, store, sigs, events, claims, w, cl, asking, delays, backoff,
          left, ran, kept, got>>

Spend(k) == left[k] > 0 /\ left' = [left EXCEPT ![k] = @ - 1]
Keep == kept' = kept \cup {[id |-> x, v |-> store'.done[x]] : x \in DOMAIN store'.done}

(* The name under which a signal node waits, its id unless one was given. *)
SignalName(n) == IF n.pick = "" THEN n.id ELSE n.pick
SignalNodes(t) == {n \in NodesOf(t) : n.kind = "AwaitSignal"}
NameAt(s) == SignalName(NodeOf(tree, s.pos.id))
AtSignalNode(s) == s.pos.kind \in {"AtSignal", "AtTimedSignal"}

(* ---- the worker's place ----------------------------------------------- *)

(* pc: the next section; then: where check_control_signals was called from;  *)
(* adv: what collect found; task, in, snap: the dispatch; out: the output.   *)
NoAdvance == [k |-> "none", id |-> "", name |-> "", next |-> ""]
Idle == [pc |-> "poll", then |-> "", adv |-> NoAdvance, task |-> "", in |-> Empty,
         snap |-> NoSnapshot, out |-> Empty]

At_(x, pc) == x \in DOMAIN w /\ w[x].pc = pc
Go(x, r) == w' = [w EXCEPT ![x] = r]
To(x, pc) == Go(x, [w[x] EXCEPT !.pc = pc])
Mine(x) == w[x].task \in DOMAIN claims /\ claims[w[x].task].by = x
Node_(x) == NodeOf(tree, w[x].task)

(* ---- find_available_tasks --------------------------------------------- *)

(* Expired claims go; then, under read locks, the parked position that may    *)
(* move is noted: its delay has elapsed, its event has come, or its timeout   *)
(* has passed.                                                                *)
Collected(s) ==
  LET found(k) == [k |-> k, id |-> s.pos.id, next |-> s.pos.next,
                   name |-> IF AtSignalNode(s) THEN NameAt(s) ELSE ""]
  IN CASE s.st # "InProgress" \/ sigs # {} -> NoAdvance
       [] s.pos.kind = "AtDelay" -> IF s.pos.id \in delays THEN NoAdvance ELSE found("delay")
       [] AtSignalNode(s) ->
            IF events[NameAt(s)] # <<>> THEN found("signal")
            ELSE IF s.pos.kind = "AtTimedSignal" /\ s.pos.id \notin delays THEN found("timeout")
            ELSE NoAdvance
       [] OTHER -> NoAdvance

collect(x) ==
  /\ At_(x, "poll")
  /\ claims' = Drop(claims, {t \in DOMAIN claims : ~claims[t].live})
  /\ LET a == Collected(store)
     IN Go(x, [Idle EXCEPT !.pc = IF a.k = "none" THEN "list" ELSE "apply", !.adv = a])
  /\ UNCHANGED <<tree, store, sigs, events, cl, asking, delays, backoff, left, ran, kept, got>>

(* Past the park with result v: at the next task, or completed. *)
advance(s, a, v) ==
  IF s.st = "none" THEN s
  ELSE IF a.next = "" THEN mark_completed(s, v)
  ELSE update_position(s, At("AtTask", a.next, ""))

(* Then, under the write lock, what was noted is done, whatever has happened  *)
(* since.  A signal's payload is stored under its name.                       *)
apply(x) ==
  LET a == w[x].adv
      q == events[a.name]
      v == IF a.k = "signal" /\ q # <<>> THEN Head(q) ELSE Empty
      marked == mark_task_completed(store, a.name, v)
  IN /\ At_(x, "apply")
     /\ IF a.k = "delay"
        THEN /\ store' = advance(store, a, IF Cached(store, a.id) THEN store.done[a.id] ELSE Empty)
             /\ UNCHANGED <<events, got>>
        ELSE /\ store' = advance(marked, a, IF Cached(marked, a.name) THEN marked.done[a.name] ELSE Empty)
             /\ events' = IF a.k = "signal" /\ q # <<>> THEN [events EXCEPT ![a.name] = Tail(@)] ELSE events
             /\ got' = (a.id :> v) @@ got
     /\ Go(x, [Idle EXCEPT !.pc = "list"])
     /\ Keep
     /\ UNCHANGED <<tree, sigs, claims, cl, asking, delays, backoff, left, ran>>

(* Then the task the instance stands at is offered, with a copy of the        *)
(* snapshot, unless it is claimed, completed or backing off, or a signal is   *)
(* pending.                                                                   *)
Available(s) ==
  /\ s.st = "InProgress" /\ sigs = {} /\ s.pos.kind = "AtTask"
  /\ s.pos.id \notin DOMAIN claims /\ s.pos.id \notin DOMAIN s.done /\ s.pos.id \notin backoff
  /\ s.done = Nothing \/ HasLastOutput(s)

list(x) ==
  /\ At_(x, "list")
  /\ Go(x, IF Available(store)
           THEN [Idle EXCEPT !.pc = "claim", !.task = store.pos.id, !.snap = store,
                             !.in = IF store.done = Nothing THEN store.input ELSE LastOutput(store)]
           ELSE Idle)
  /\ UNCHANGED <<tree, store, sigs, events, claims, cl, asking, delays, backoff, left, ran, kept, got>>

(* ---- claim, guards, run ----------------------------------------------- *)

(* validate_task_preconditions looks at the copy; claim_task takes the claim  *)
(* unless a live one is there.                                                *)
claim_task(x) ==
  LET t == w[x].task
      ok == /\ t \in TaskIndex(tree) /\ ~Cached(w[x].snap, t)
            /\ ~(t \in DOMAIN claims /\ claims[t].live)
  IN /\ At_(x, "claim")
     /\ claims' = IF ok THEN (t :> [by |-> x, live |-> TRUE]) @@ claims ELSE claims
     /\ Go(x, IF ok THEN [w[x] EXCEPT !.pc = "cancel?", !.then = "claimed"] ELSE Idle)
     /\ UNCHANGED <<tree, store, sigs, events, cl, asking, delays, backoff, left, ran, kept, got>>

(* Where a worker goes when no signal was applied, and when one was. *)
NoSignal(r) ==
  CASE r.then = "claimed" -> [r EXCEPT !.pc = "run"]
    [] r.then = "committed" -> [r EXCEPT !.pc = "complete"]
    [] OTHER -> Idle
(* Faulty variant: the signal is applied and the worker goes on. *)
Signalled_runs(r) == NoSignal(r)
Signalled(r) == IF r.then = "claimed" THEN [r EXCEPT !.pc = "release_quietly", !.then = ""] ELSE Idle

(* Faulty variant: the request is taken when it is read. *)
get_signal_taking(k) == sigs' = sigs \ {k}
get_signal(k) == UNCHANGED sigs

(* check_and_cancel in three sections: read the request, mark the snapshot,   *)
(* drop the request; then check_and_pause in three more.  settle_cancelled    *)
(* only does the first.                                                       *)
check_and_cancel(x) ==
  LET r == w[x]
      none == IF r.then = "settled" THEN Idle ELSE [r EXCEPT !.pc = "pause?"]
  IN \/ /\ At_(x, "cancel?")
        /\ Go(x, IF "Cancel" \in sigs THEN [r EXCEPT !.pc = "cancel!"] ELSE none)
        /\ get_signal("Cancel")
        /\ UNCHANGED <<tree, store, events, claims, cl, asking, delays, backoff, left, ran, kept, got>>
     \/ /\ At_(x, "cancel!")
        /\ store' = IF store.st = "InProgress" THEN mark_cancelled(store) ELSE store
        /\ Go(x, IF store.st = "InProgress" THEN [r EXCEPT !.pc = "cancel-"]
                 ELSE IF store.st = "none" THEN Idle ELSE none)
        /\ UNCHANGED <<tree, sigs, events, claims, cl, asking, delays, backoff, left, ran, kept, got>>
     \/ /\ At_(x, "cancel-")
        /\ sigs' = sigs \ {"Cancel"}
        /\ Go(x, Signalled(r))
        /\ UNCHANGED <<tree, store, events, claims, cl, asking, delays, backoff, left, ran, kept, got>>

check_and_pause(x) ==
  LET r == w[x]
  IN \/ /\ At_(x, "pause?")
        /\ Go(x, IF "Pause" \in sigs THEN [r EXCEPT !.pc = "pause!"] ELSE NoSignal(r))
        /\ get_signal("Pause")
        /\ UNCHANGED <<tree, store, events, claims, cl, asking, delays, backoff, left, ran, kept, got>>
     \/ /\ At_(x, "pause!")
        /\ store' = IF store.st = "InProgress" THEN mark_paused(store) ELSE store
        /\ Go(x, IF store.st = "InProgress" THEN [r EXCEPT !.pc = "pause-"]
                 ELSE IF store.st = "none" THEN Idle ELSE NoSignal(r))
        /\ UNCHANGED <<tree, sigs, events, claims, cl, asking, delays, backoff, left, ran, kept, got>>
     \/ /\ At_(x, "pause-")
        /\ sigs' = sigs \ {"Pause"}
        /\ Go(x, Signalled(r))
        /\ UNCHANGED <<tree, store, events, claims, cl, asking, delays, backoff, left, ran, kept, got>>

(* The task runs to its end; or it fails, panics or exceeds its deadline; or  *)
(* the id is not a task's, or a branch of the join has no result.             *)
execute_with_deadline(x) ==
  LET r == w[x]
      j == join_input(tree, r.task, r.snap, r.in)
      ok == j.ok /\ Runnable(tree, r.task)
      v == execute_task_by_id(tree, r.task, j.v)
  IN /\ At_(x, "run")
     /\ \/ /\ ok
           /\ Go(x, [r EXCEPT !.pc = "commit", !.out = v])
           /\ ran' = ran \cup {[id |-> r.task, of |-> r.snap.input, in |-> j.v, v |-> v,
                                again |-> [id |-> r.task, v |-> v] \in kept]}
           /\ UNCHANGED left
        \/ /\ IF ok THEN r.task \in Flaky /\ Spend("fail") ELSE UNCHANGED left
           /\ To(x, "settle_failure")
           /\ UNCHANGED ran
     /\ UNCHANGED <<tree, store, sigs, events, claims, cl, asking, delays, backoff, kept, got>>

(* A tick of run_with_heartbeat looks for a cancel request, then renews the   *)
(* claim if it is still there.  The request drops the task; a lost claim      *)
(* abandons it.                                                               *)
heartbeat(x) ==
  LET r == w[x]
  IN \/ /\ At_(x, "run")
        /\ Go(x, [r EXCEPT !.pc = "beat", !.then = IF "Cancel" \in sigs THEN "settled" ELSE @])
        /\ UNCHANGED <<tree, store, sigs, events, claims, cl, asking, delays, backoff, left, ran, kept, got>>
     \/ /\ At_(x, "beat")
        /\ claims' = IF Mine(x) THEN [claims EXCEPT ![r.task].live = TRUE] ELSE claims
        /\ IF r.then = "settled" THEN To(x, "release_quietly")
           ELSE IF Mine(x) THEN To(x, "run") ELSE Go(x, Idle)
        /\ UNCHANGED <<tree, store, sigs, events, cl, asking, delays, backoff, left, ran, kept, got>>

(* ---- settle ----------------------------------------------------------- *)

(* The time of a delay, or of a signal with a timeout, starts with the park. *)
Started(s) == IF s.pos.kind \in {"AtDelay", "AtTimedSignal"} THEN delays \cup {s.pos.id} ELSE delays

(* settle_failure: record the attempt and back off, or fail the workflow. *)
settle_failure(x) ==
  LET r == w[x]
      retry == Node_(x).n > 0 /\ ~retries_exhausted(r.snap, Node_(x))
  IN /\ At_(x, "settle_failure")
     /\ store' = IF retry THEN record_retry(r.snap, r.task) ELSE mark_failed(r.snap)
     /\ backoff' = IF retry THEN backoff \cup {r.task} ELSE backoff
     /\ Go(x, [r EXCEPT !.pc = "release_quietly", !.then = ""])
     /\ Keep
     /\ UNCHANGED <<tree, sigs, events, claims, cl, asking, delays, left, ran, got>>

(* release_quietly: whoever holds the claim, the worker goes on. *)
release_quietly(x) ==
  /\ At_(x, "release_quietly")
  /\ claims' = IF Mine(x) THEN Drop(claims, {w[x].task}) ELSE claims
  /\ Go(x, IF w[x].then = "settled" THEN [w[x] EXCEPT !.pc = "cancel?"] ELSE Idle)
  /\ UNCHANGED <<tree, store, sigs, events, cl, asking, delays, backoff, left, ran, kept, got>>

(* Faulty variant: the result is saved and the position is not. *)
committed_result(x) ==
  mark_task_completed(clear_retry_state(w[x].snap, w[x].task), w[x].task, w[x].out)
(* commit_task_result saves the copy with the result and the position after   *)
(* the task.                                                                  *)
committed(x) ==
  update_position_after_task(tree, w[x].task,
    mark_task_completed(clear_retry_state(w[x].snap, w[x].task), w[x].task, w[x].out))

commit_task_result(x) ==
  /\ At_(x, "commit")
  /\ store' = committed(x) /\ delays' = Started(committed(x))
  /\ Go(x, [w[x] EXCEPT !.pc = "drain", !.snap = committed(x)])
  /\ Keep
  /\ UNCHANGED <<tree, sigs, events, claims, cl, asking, backoff, left, ran, got>>

(* drain_pending_signal: an event that came before the park is consumed in    *)
(* one section and saved in the next, until none is there.                    *)
drain_pending_signal(x) ==
  LET r == w[x] s == r.snap
      drained == advance(mark_task_completed(s, s.pos.id, r.in), s.pos, r.in)
  IN \/ /\ At_(x, "drain")
        /\ IF s.st = "InProgress" /\ AtSignalNode(s) /\ events[NameAt(s)] # <<>>
           THEN /\ events' = [events EXCEPT ![NameAt(s)] = Tail(@)]
                /\ Go(x, [r EXCEPT !.pc = "drained", !.in = Head(events[NameAt(s)])])
           ELSE UNCHANGED events /\ To(x, "release")
        /\ UNCHANGED <<tree, store, sigs, claims, cl, asking, delays, backoff, left, ran, kept, got>>
     \/ /\ At_(x, "drained")
        /\ store' = drained
        /\ got' = (s.pos.id :> r.in) @@ got
        /\ Go(x, [r EXCEPT !.pc = "drain", !.snap = drained])
        /\ Keep
        /\ UNCHANGED <<tree, sigs, events, claims, cl, asking, delays, backoff, left, ran>>

(* claim.release: an error when the claim is no longer the worker's. *)
release(x) ==
  /\ At_(x, "release")
  /\ claims' = IF Mine(x) THEN Drop(claims, {w[x].task}) ELSE claims
  /\ IF Mine(x) THEN To(x, "loops") ELSE Go(x, Idle)
  /\ UNCHANGED <<tree, store, sigs, events, cl, asking, delays, backoff, left, ran, kept, got>>

(* resolve_loop_completions: the loops that ended, with a save for each (only *)
(* the last one matters: no other section can tell them apart).               *)
resolve_loop_completions(x) ==
  LET a == resolve_loops(tree, [mem |-> w[x].snap, store |-> store, ok |-> TRUE])
  IN /\ At_(x, "loops")
     /\ store' = a.store
     /\ Go(x, IF a.ok THEN [w[x] EXCEPT !.pc = "cancel?", !.then = "committed", !.snap = a.mem] ELSE Idle)
     /\ Keep
     /\ UNCHANGED <<tree, sigs, events, claims, cl, asking, delays, backoff, left, ran, got>>

(* determine_post_task_status, after the guards. *)
determine_post_task_status(x) ==
  /\ At_(x, "complete")
  /\ store' = IF is_workflow_complete(tree, w[x].snap) THEN mark_completed(w[x].snap, w[x].out) ELSE store
  /\ Go(x, Idle)
  /\ Keep
  /\ UNCHANGED <<tree, sigs, events, claims, cl, asking, delays, backoff, left, ran, got>>
=============================================================================
