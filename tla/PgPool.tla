------------------------------- MODULE PgPool -------------------------------
(***************************************************************************)
(* One workflow instance served by a fleet of pooled workers over the      *)
(* Postgres backend.  The workflow is a chain of tasks, delays and signal  *)
(* waits.  Each worker runs several dispatches (slots) at a time; a slot   *)
(* finds the instance, claims its current task, checks for control         *)
(* signals, runs the task under a heartbeat, commits the result behind the *)
(* claim fence, drains a buffered event, releases the claim and decides    *)
(* whether the workflow is complete.  Clients cancel, pause, unpause and   *)
(* send events.                                                            *)
(*                                                                         *)
(* One action is one statement or transaction of the database, together    *)
(* with the local code up to the next one.  A slot may stop between any    *)
(* two of them (a crash, a dropped connection): its claim row stays behind *)
(* and its copy of the snapshot is lost.                                   *)
(***************************************************************************)
EXTENDS Naturals, Sequences

CONSTANTS
    Slots,          \* dispatches in flight, over all workers
    Workers,        \* worker ids
    WorkerOf,       \* the worker each slot belongs to
    Chain,          \* the nodes of the workflow: "task", "delay" or "signal"
    HasRetryPolicy, \* do the tasks carry a retry policy?
    MaxRetries,     \* its max_retries
    SignalKinds,    \* the control signals clients send: "Cancel", "Pause"
    MaxEvents,      \* bound on the external events clients send
    MaxAbandons,    \* bound on slots that stop between two steps
    SlowWorkers,    \* may a lease lapse while its slot is still at work?
    UseHints        \* do the workers dispatch from NOTIFY hints?

N == Len(Chain)
Nodes == 1..N

ASSUME PoolAssumption ==
    /\ Chain \in Seq({"task", "delay", "signal"})
    /\ Len(Chain) > 0
    /\ WorkerOf \in [Slots -> Workers]
    /\ HasRetryPolicy \in BOOLEAN
    /\ MaxRetries \in Nat
    /\ SignalKinds \subseteq {"Cancel", "Pause"}
    /\ MaxEvents \in Nat
    /\ MaxAbandons \in Nat
    /\ SlowWorkers \in BOOLEAN
    /\ UseHints \in BOOLEAN

VARIABLES
    row,      \* the snapshot row
    outs,     \* the task sidecar: the output of each node, 0 when NULL
    claim,    \* the claim row of the instance
    signals,  \* the pending control signal rows
    events,   \* the buffered external events, oldest first
    sent,     \* how many events clients have sent; an event is its number
    sender,   \* the client inside send_event: "idle", "lock" or "buffer"
    hints,    \* the NOTIFY hints queued at each worker
    abandons, \* how many slots have stopped between two steps
    pc,       \* where each slot is
    task,     \* the task each slot dispatches
    snap,     \* each slot's own copy of the snapshot
    hand,     \* the event a slot has consumed and not yet saved, 0 if none
    lapsed    \* history: did the slot's lease lapse while it was at work?

db == <<row, outs, claim, signals, events, hints>>
client == <<sent, sender>>
local == <<pc, task, snap, hand, lapsed>>
vars == <<row, outs, claim, signals, events, hints, sent, sender, abandons,
          pc, task, snap, hand, lapsed>>

Terminal == {"Completed", "Failed", "Cancelled"}
Statuses == Terminal \cup {"InProgress", "Paused"}

\* A snapshot: its status and position, the nodes with a result, the retry
\* attempts of the current task, and whether the time it waits for (the
\* delay's wake-up, the retry's backoff, the signal's timeout) has come.  A
\* terminal snapshot drops its results; the model keeps them as history.
Snapshot == [status: Statuses, kind: {"AtTask", "AtDelay", "AtSignal"},
             node: Nodes, done: SUBSET Nodes, att: Nat, due: BOOLEAN]

\* The claim row of the instance: who holds which task, and whether the
\* lease is unexpired.  No row is task 0.
NoClaim == [worker |-> "nobody", task |-> 0, live |-> FALSE]
ClaimRow == [worker: Workers \cup {"nobody"}, task: 0..N, live: BOOLEAN]

\* The snapshot prepare_run saves for a fresh instance.
FreshSnapshot == [status |-> "InProgress", kind |-> "AtTask", node |-> 1,
                  done |-> {}, att |-> 0, due |-> TRUE]

-----------------------------------------------------------------------------
(* Operations on a snapshot.                                               *)

mark_completed(r) == [r EXCEPT !.status = "Completed", !.att = 0]
mark_failed(r) == [r EXCEPT !.status = "Failed", !.att = 0]
mark_paused(r) == [r EXCEPT !.status = "Paused"]
mark_unpaused(r) == [r EXCEPT !.status = "InProgress"]
mark_cancelled(r) == [r EXCEPT !.status = "Cancelled"]

mark_task_completed(r, n) == [r EXCEPT !.done = @ \cup {n}]

\* Faulty variant: one retry too many.
retries_exhausted_late(r) == r.att > MaxRetries

retries_exhausted(r) == r.att > 0 /\ r.att >= MaxRetries

\* Faulty variant: the attempts are counted down.
record_retry_down(r) == [r EXCEPT !.att = @ - 1, !.due = FALSE]

record_retry(r) == [r EXCEPT !.att = @ + 1, !.due = FALSE]

\* Enter node n: a delay and a signal wait are parked on, and a delay is
\* marked completed as soon as it is entered.
set_position_at(r, n) ==
    CASE Chain[n] = "delay" ->
           [mark_task_completed(r, n) EXCEPT
               !.kind = "AtDelay", !.node = n, !.due = FALSE]
      [] Chain[n] = "signal" ->
           [r EXCEPT !.kind = "AtSignal", !.node = n, !.due = FALSE]
      [] OTHER ->
           [r EXCEPT !.kind = "AtTask", !.node = n, !.due = TRUE]

\* Faulty variant: the position is not advanced.
update_position_forgotten(r, n) == r

\* The last node has no successor: the position stays on it.
update_position_after_task(r, n) ==
    IF n = N THEN r ELSE set_position_at(r, n + 1)

\* What a successful run of task n makes of the dispatched snapshot.
TaskResult(r, n) ==
    LET settled == [mark_task_completed(r, n) EXCEPT !.att = 0, !.due = TRUE]
    IN  update_position_after_task(settled, n)

\* Faulty variant: the next position names the park itself.
LeavePark_to_itself(r) ==
    IF r.node = N THEN mark_completed(r)
    ELSE [r EXCEPT !.kind = "AtTask", !.due = TRUE]

\* Leave a delay or a signal wait: its next_task_id was fixed when it was
\* entered, and the next position is AtTask whatever that node is.
LeavePark(r) ==
    IF r.node = N
    THEN mark_completed(r)
    ELSE [r EXCEPT !.kind = "AtTask", !.node = @ + 1, !.due = TRUE]

\* Faulty variant: the signal's own result is not recorded.
ResumeSignal_unmarked(r) == LeavePark(r)

ResumeSignal(r) == LeavePark(mark_task_completed(r, r.node))

\* Faulty variant: ships the output of the task even when a delay follows it.
last_completed_is_task(r, n) == n

\* The node whose output a save of r ships: the last one marked completed.
last_completed_task_id(r, n) == IF r.kind = "AtDelay" THEN r.node ELSE n

\* Faulty variants: complete after any result; never complete.
is_workflow_complete_early(r) == r.status = "InProgress" /\ r.done # {}
is_workflow_complete_never(r) == r.status = "InProgress" /\ r.done = 0..N

is_workflow_complete(r) == r.status = "InProgress" /\ r.done = Nodes

-----------------------------------------------------------------------------
(* The tables.                                                             *)

build_task_ready_payload(r) ==
    IF r.status = "InProgress" /\ r.kind = "AtTask" THEN {r.node} ELSE {}

\* A write of the snapshot row that went through queues a hint everywhere.
Notify(r) ==
    hints' = IF UseHints
             THEN [w \in Workers |-> hints[w] \cup build_task_ready_payload(r)]
             ELSE hints

\* Faulty variant: the upsert is not guarded by the status of the row.
exec_save_unguarded(r) == row' = r /\ Notify(r)

\* The upsert leaves a terminal row alone, and then notifies nobody.
exec_save_snapshot(r) ==
    IF row.status \in Terminal
    THEN UNCHANGED <<row, hints>>
    ELSE row' = r /\ Notify(r)

\* Faulty variant: the output is not shipped.
ship_nothing(n, out) == UNCHANGED outs

\* The sidecar row of node n is written even when the snapshot row is not.
ship_output(n, out) == outs' = [outs EXCEPT ![n] = out]

\* The output of a task or a delay; that of a signal is its event.
TaskOutput == 1

Owns(s) == claim.worker = WorkerOf[s] /\ claim.task = task[s]

\* Faulty variant: an expired claim still blocks the instance.
Eligible_unclaimed == claim = NoClaim /\ signals = {}

Eligible == ~claim.live /\ signals = {}

-----------------------------------------------------------------------------
(* A slot.                                                                 *)

\* The program points at which a slot believes it holds the claim.
Holding == {"guard", "guardCancel", "guardPause", "running", "drain",
            "drainSave", "release", "quiet", "quietCancel"}

PCs == Holding \cup {"idle", "advance", "found", "post", "postCancel",
                     "postPause", "complete", "cancelling"}

Goto(s, l) == pc' = [pc EXCEPT ![s] = l]

\* The dispatch ends: its copy of the snapshot is dropped.
EndDispatch(s) ==
    /\ Goto(s, "idle")
    /\ task' = [task EXCEPT ![s] = 1]
    /\ snap' = [snap EXCEPT ![s] = FreshSnapshot]
    /\ hand' = [hand EXCEPT ![s] = 0]
    /\ lapsed' = [lapsed EXCEPT ![s] = FALSE]

Dispatch(s, r, l) ==
    /\ Goto(s, l)
    /\ task' = [task EXCEPT ![s] = r.node]
    /\ snap' = [snap EXCEPT ![s] = r]
    /\ UNCHANGED <<hand, lapsed>>

\* Faulty variant: a poll does not look at the clock.
find_ignoring_clock(s) ==
    /\ pc[s] = "idle"
    /\ row.status = "InProgress" /\ Eligible
    /\ \/ /\ row.kind = "AtTask" /\ row.node \notin row.done
          /\ Dispatch(s, row, "found")
       \/ /\ row.kind = "AtDelay"
          /\ Dispatch(s, row, "advance")
    /\ UNCHANGED <<db, client, abandons>>

\* A poll returns the instance when nobody holds it, no control signal is
\* pending, and it is at a task that has no result and is not backing off,
\* or at a delay that has elapsed.
find_available_tasks(s) ==
    /\ pc[s] = "idle"
    /\ row.status = "InProgress" /\ Eligible /\ row.due
    /\ \/ /\ row.kind = "AtTask" /\ row.node \notin row.done
          /\ Dispatch(s, row, "found")
       \/ /\ row.kind = "AtDelay"
          /\ Dispatch(s, row, "advance")
    /\ UNCHANGED <<db, client, abandons>>

\* Still in find_available_tasks: the elapsed delay is advanced past on the
\* copy that was read, and saved without any fence.
advance_delay(s) ==
    LET r == LeavePark(snap[s])
    IN  /\ pc[s] = "advance"
        /\ exec_save_snapshot(r)
        /\ IF r.status = "InProgress"
           THEN Dispatch(s, r, "found")
           ELSE EndDispatch(s)
        /\ UNCHANGED <<outs, claim, signals, events, client, abandons>>

\* A hinted lookup of one task.  It does not look at the retry backoff.
find_hinted_task(s) ==
    LET w == WorkerOf[s]
    IN  /\ pc[s] = "idle"
        /\ \E n \in hints[w] :
              /\ hints' = [hints EXCEPT ![w] = @ \ {n}]
              /\ IF /\ row.status = "InProgress" /\ row.kind = "AtTask"
                    /\ row.node = n /\ n \notin row.done /\ Eligible
                 THEN Dispatch(s, row, "found")
                 ELSE UNCHANGED local
        /\ UNCHANGED <<row, outs, claim, signals, events, client, abandons>>

\* Faulty variant: the claim statement steals a live claim.
claim_task_steals(s) ==
    /\ pc[s] = "found"
    /\ IF row.status = "InProgress" /\ row.kind = "AtTask" /\ row.node = task[s]
       THEN /\ claim' = [worker |-> WorkerOf[s], task |-> task[s], live |-> TRUE]
            /\ Goto(s, "guard")
            /\ UNCHANGED <<task, snap, hand, lapsed>>
       ELSE EndDispatch(s) /\ UNCHANGED claim
    /\ UNCHANGED <<row, outs, signals, events, hints, client, abandons>>

\* The precondition check reads the slot's own copy, the claim statement the
\* row: it must still be at this task, under no live claim.
claim_task(s) ==
    /\ pc[s] = "found"
    /\ IF /\ task[s] \notin snap[s].done
          /\ row.status = "InProgress" /\ row.kind = "AtTask"
          /\ row.node = task[s] /\ ~claim.live
       THEN /\ claim' = [worker |-> WorkerOf[s], task |-> task[s], live |-> TRUE]
            /\ Goto(s, "guard")
            /\ UNCHANGED <<task, snap, hand, lapsed>>
       ELSE EndDispatch(s) /\ UNCHANGED claim
    /\ UNCHANGED <<row, outs, signals, events, hints, client, abandons>>

\* Faulty variant: no probe after the release.
check_control_signals_once(s) ==
    /\ \/ /\ pc[s] = "guard"
          /\ Goto(s, IF signals = {} THEN "running" ELSE "guardCancel")
       \/ pc[s] = "post" /\ Goto(s, "complete")
    /\ UNCHANGED <<db, client, abandons, task, snap, hand, lapsed>>

\* The probe of check_control_signals, after the claim and after the release.
check_control_signals(s) ==
    /\ \/ /\ pc[s] = "guard"
          /\ Goto(s, IF signals = {} THEN "running" ELSE "guardCancel")
       \/ /\ pc[s] = "post"
          /\ Goto(s, IF signals = {} THEN "complete" ELSE "postCancel")
    /\ UNCHANGED <<db, client, abandons, task, snap, hand, lapsed>>

\* A control signal of kind k moves an in-progress row, and is consumed.
CanApply(k) == k \in signals /\ row.status = "InProgress"
Apply(k, r) == row' = r /\ signals' = signals \ {k}

\* After the claim (on to the pause check, or release), after the release (on
\* to the pause check, or done) and after an interrupted task.
check_and_cancel(s) ==
    /\ pc[s] \in {"guardCancel", "postCancel", "cancelling"}
    /\ IF CanApply("Cancel")
       THEN Apply("Cancel", mark_cancelled(row))
       ELSE UNCHANGED <<row, signals>>
    /\ CASE pc[s] = "guardCancel" ->
              /\ Goto(s, IF CanApply("Cancel") THEN "quiet" ELSE "guardPause")
              /\ UNCHANGED <<task, snap, hand, lapsed>>
         [] pc[s] = "postCancel" /\ ~CanApply("Cancel") ->
              Goto(s, "postPause") /\ UNCHANGED <<task, snap, hand, lapsed>>
         [] OTHER -> EndDispatch(s)
    /\ UNCHANGED <<outs, claim, events, hints, client, abandons>>

check_and_pause(s) ==
    /\ pc[s] \in {"guardPause", "postPause"}
    /\ IF CanApply("Pause")
       THEN Apply("Pause", mark_paused(row))
       ELSE UNCHANGED <<row, signals>>
    /\ CASE pc[s] = "guardPause" ->
              /\ Goto(s, IF CanApply("Pause") THEN "quiet" ELSE "running")
              /\ UNCHANGED <<task, snap, hand, lapsed>>
         [] pc[s] = "postPause" /\ ~CanApply("Pause") ->
              Goto(s, "complete") /\ UNCHANGED <<task, snap, hand, lapsed>>
         [] OTHER -> EndDispatch(s)
    /\ UNCHANGED <<outs, claim, events, hints, client, abandons>>

\* A tick of the heartbeat renews the lease whether or not it has expired,
\* looks for a cancel signal, and gives up a claim that is no longer its own.
run_with_heartbeat(s) ==
    /\ pc[s] = "running"
    /\ claim' = IF Owns(s) THEN [claim EXCEPT !.live = TRUE] ELSE claim
    /\ IF "Cancel" \in signals
       THEN Goto(s, "quietCancel") /\ UNCHANGED <<task, snap, hand, lapsed>>
       ELSE IF Owns(s)
       THEN /\ lapsed' = [lapsed EXCEPT ![s] = FALSE]
            /\ UNCHANGED <<pc, task, snap, hand>>
       ELSE EndDispatch(s)
    /\ UNCHANGED <<row, outs, signals, events, hints, client, abandons>>

\* Faulty variant: no fence.
Unfenced(s) == TRUE

\* save_snapshot_fenced writes only under the worker's own unexpired claim.
Fenced(s) == Owns(s) /\ claim.live

\* The task succeeded.  A position that names a delay or a signal wait has
\* no task to run.
commit_task_result(s) ==
    LET r == TaskResult(snap[s], task[s])
    IN  /\ pc[s] = "running" /\ Chain[task[s]] = "task"
        /\ IF Fenced(s)
           THEN /\ exec_save_snapshot(r)
                /\ ship_output(last_completed_task_id(r, task[s]), TaskOutput)
                /\ snap' = [snap EXCEPT ![s] = r]
                /\ Goto(s, "drain")
                /\ UNCHANGED <<task, hand, lapsed>>
           ELSE EndDispatch(s) /\ UNCHANGED <<row, outs, hints>>
        /\ UNCHANGED <<claim, signals, events, client, abandons>>

\* What a failed run (an error, a panic, a timeout, or no such task) makes of
\* the dispatched snapshot.
try_schedule_retry(s) ==
    HasRetryPolicy /\ Chain[task[s]] = "task" /\ ~retries_exhausted(snap[s])

FailedSnapshot(s) ==
    IF try_schedule_retry(s) THEN record_retry(snap[s]) ELSE mark_failed(snap[s])

\* The task failed; a write the fence refuses, or that errors, is ignored.
settle_failure(s) ==
    /\ pc[s] = "running"
    /\ \/ /\ Fenced(s)
          /\ exec_save_snapshot(FailedSnapshot(s))
          /\ UNCHANGED abandons
       \/ /\ ~Fenced(s)
          /\ UNCHANGED <<row, hints, abandons>>
       \/ /\ abandons < MaxAbandons
          /\ abandons' = abandons + 1
          /\ UNCHANGED <<row, hints>>
    /\ Goto(s, "quiet")
    /\ UNCHANGED <<outs, claim, signals, events, client, task, snap, hand, lapsed>>

\* Faulty variant: the buffer is never drained.
consume_nothing(s) ==
    /\ pc[s] = "drain"
    /\ Goto(s, "release")
    /\ UNCHANGED <<db, client, abandons, task, snap, hand, lapsed>>

\* drain_pending_signal, first half: a slot whose committed snapshot is parked
\* on a signal takes the oldest buffered event out of the table.
consume_event(s) ==
    /\ pc[s] = "drain"
    /\ IF /\ snap[s].status = "InProgress" /\ snap[s].kind = "AtSignal"
          /\ events # <<>>
       THEN /\ hand' = [hand EXCEPT ![s] = Head(events)]
            /\ events' = Tail(events)
            /\ Goto(s, "drainSave")
       ELSE Goto(s, "release") /\ UNCHANGED <<hand, events>>
    /\ UNCHANGED <<row, outs, claim, signals, hints, client, abandons,
                   task, snap, lapsed>>

\* Second half: the slot's copy is advanced and saved without any fence.  A
\* snapshot that is now Completed has no last completed task to ship.
drain_pending_signal(s) ==
    LET r == ResumeSignal(snap[s])
    IN  /\ pc[s] = "drainSave"
        /\ exec_save_snapshot(r)
        /\ IF r.status = "InProgress"
           THEN ship_output(snap[s].node, hand[s])
           ELSE UNCHANGED outs
        /\ snap' = [snap EXCEPT ![s] = r]
        /\ hand' = [hand EXCEPT ![s] = 0]
        /\ Goto(s, "drain")
        /\ UNCHANGED <<claim, signals, events, client, abandons, task, lapsed>>

\* Faulty variant: whatever claim row is there is deleted.
release_any_claim(s) ==
    /\ pc[s] \in {"release", "quiet", "quietCancel"}
    /\ claim' = NoClaim
    /\ EndDispatch(s)
    /\ UNCHANGED <<row, outs, signals, events, hints, client, abandons>>

\* The claim row is deleted if it is the slot's own, expired or not.  After a
\* commit a failed release is an error that skips the completion check.
release_task_claim(s) ==
    /\ pc[s] \in {"release", "quiet", "quietCancel"}
    /\ claim' = IF Owns(s) THEN NoClaim ELSE claim
    /\ CASE pc[s] = "release" /\ Owns(s) ->
              Goto(s, "post") /\ UNCHANGED <<task, snap, hand, lapsed>>
         [] pc[s] = "quietCancel" ->
              Goto(s, "cancelling") /\ UNCHANGED <<task, snap, hand, lapsed>>
         [] OTHER -> EndDispatch(s)
    /\ UNCHANGED <<row, outs, signals, events, hints, client, abandons>>

\* Every node of the slot's copy has a result: the workflow is Completed.
determine_post_task_status(s) ==
    /\ pc[s] = "complete"
    /\ IF is_workflow_complete(snap[s])
       THEN exec_save_snapshot(mark_completed(snap[s]))
       ELSE UNCHANGED <<row, hints>>
    /\ EndDispatch(s)
    /\ UNCHANGED <<outs, claim, signals, events, client, abandons>>

\* A crash, a backend error that propagates, or a heartbeat that failed too
\* often: the dispatch ends where it is and nothing is released.
Abandon(s) ==
    /\ pc[s] # "idle"
    /\ abandons < MaxAbandons
    /\ abandons' = abandons + 1
    /\ EndDispatch(s)
    /\ UNCHANGED <<db, client>>

-----------------------------------------------------------------------------
(* Time and clients.                                                       *)

\* Unless workers may be slow, heartbeats keep a claim alive while its slot
\* is at work.
LeaseExpires ==
    /\ claim.live
    /\ SlowWorkers \/ \A s \in Slots : ~(pc[s] \in Holding /\ Owns(s))
    /\ claim' = [claim EXCEPT !.live = FALSE]
    /\ lapsed' = [s \in Slots |-> lapsed[s] \/ (pc[s] \in Holding /\ Owns(s))]
    /\ UNCHANGED <<row, outs, signals, events, hints, client, abandons,
                   pc, task, snap, hand>>

TimerElapses ==
    /\ row.status \notin Terminal /\ ~row.due
    /\ row' = [row EXCEPT !.due = TRUE]
    /\ UNCHANGED <<outs, claim, signals, events, hints, client, abandons, local>>

validate_signal_allowed(k) ==
    row.status \notin (IF k = "Cancel" THEN {"Completed", "Failed"} ELSE Terminal)

store_signal(k) ==
    /\ validate_signal_allowed(k)
    /\ signals' = signals \cup {k}
    /\ UNCHANGED <<row, outs, claim, events, hints, client, abandons, local>>

unpause ==
    /\ row.status = "Paused"
    /\ row' = mark_unpaused(row)
    /\ Notify(mark_unpaused(row))
    /\ UNCHANGED <<outs, claim, signals, events, client, abandons, local>>

\* send_event probes the status without a lock ...
send_event ==
    /\ sender = "idle" /\ sent < MaxEvents
    /\ sent' = sent + 1
    /\ sender' = IF row.status = "InProgress" THEN "lock" ELSE "buffer"
    /\ UNCHANGED <<db, abandons, local>>

\* Faulty variant: the status of the locked row is not looked at.
signal_resume_any_status == row.kind = "AtSignal"

signal_resume_target == row.status = "InProgress" /\ row.kind = "AtSignal"

\* ... then either resumes the parked row under the lock, or buffers.
deliver_event ==
    /\ sender # "idle"
    /\ sender' = "idle"
    /\ IF sender = "lock" /\ signal_resume_target
       THEN /\ row' = ResumeSignal(row)
            /\ ship_output(row.node, sent)
            /\ Notify(ResumeSignal(row))
            /\ UNCHANGED events
       ELSE /\ events' = Append(events, sent)
            /\ UNCHANGED <<row, outs, hints>>
    /\ UNCHANGED <<claim, signals, sent, abandons, local>>

-----------------------------------------------------------------------------
Init ==
    /\ row = FreshSnapshot
    /\ outs = [n \in Nodes |-> 0]
    /\ claim = NoClaim
    /\ signals = {}
    /\ events = <<>>
    /\ sent = 0
    /\ sender = "idle"
    /\ hints = [w \in Workers |-> IF UseHints THEN {1} ELSE {}]
    /\ abandons = 0
    /\ pc = [s \in Slots |-> "idle"]
    /\ task = [s \in Slots |-> 1]
    /\ snap = [s \in Slots |-> FreshSnapshot]
    /\ hand = [s \in Slots |-> 0]
    /\ lapsed = [s \in Slots |-> FALSE]

\* What a slot does when it is scheduled; its task ends one way or the other.
Work(s) ==
    \/ find_available_tasks(s) \/ advance_delay(s) \/ claim_task(s)
    \/ check_control_signals(s) \/ check_and_cancel(s) \/ check_and_pause(s)
    \/ commit_task_result(s) \/ settle_failure(s)
    \/ consume_event(s) \/ drain_pending_signal(s)
    \/ release_task_claim(s) \/ determine_post_task_status(s)

Next ==
    \/ \E s \in Slots : \/ Work(s) \/ find_hinted_task(s)
                        \/ run_with_heartbeat(s) \/ Abandon(s)
    \/ LeaseExpires \/ TimerElapses
    \/ \E k \in SignalKinds : store_signal(k)
    \/ unpause \/ send_event \/ deliver_event

Spec == Init /\ [][Next]_vars

\* Workers keep polling and working, clocks advance and a client finishes the
\* call it is in.  Crashes, signals, events and hints need never come.
Fairness ==
    /\ \A s \in Slots : WF_vars(Work(s))
    /\ WF_vars(LeaseExpires) /\ WF_vars(TimerElapses) /\ WF_vars(deliver_event)

FairSpec == Spec /\ Fairness

-----------------------------------------------------------------------------
(* Properties.                                                             *)

\* Every variable has its type.
TypeOK ==
    /\ row \in Snapshot
    /\ outs \in [Nodes -> Nat]
    /\ claim \in ClaimRow
    /\ signals \subseteq {"Cancel", "Pause"}
    /\ events \in Seq(Nat \ {0})
    /\ sent \in 0..MaxEvents
    /\ sender \in {"idle", "lock", "buffer"}
    /\ hints \in [Workers -> SUBSET Nodes]
    /\ abandons \in 0..MaxAbandons
    /\ pc \in [Slots -> PCs]
    /\ task \in [Slots -> Nodes]
    /\ snap \in [Slots -> Snapshot]
    /\ hand \in [Slots -> Nat]
    /\ lapsed \in [Slots -> BOOLEAN]

\* The results of a snapshot are exactly those of the nodes before its
\* position (and of the position itself at a delay or after the last task).
Coherent(r) ==
    \/ r.status \in Terminal
    \/ r.kind = "AtTask" /\ r.done = 1..(r.node - 1)
    \/ r.kind = "AtTask" /\ r.node = N /\ r.done = Nodes
    \/ r.kind = "AtDelay" /\ r.done = 1..r.node
    \/ r.kind = "AtSignal" /\ r.done = 1..(r.node - 1)

\* The row and every copy a slot works on are coherent, whatever stale copies
\* find_available_tasks, commit_task_result, drain_pending_signal and
\* determine_post_task_status write over it.
SnapshotsCoherent == Coherent(row) /\ \A s \in Slots : Coherent(snap[s])

\* A workflow is reported Completed only when every node has a result, although
\* the completion is decided on a copy read before the claim, and saved after
\* the release.
CompletedMeansDone == row.status = "Completed" => row.done = Nodes

\* A slot that believes it holds the claim, and whose lease did not lapse on
\* it, really is the one the claim row names: nobody released or stole it.
LeaseIsOwn ==
    \A s \in Slots :
        pc[s] \in Holding /\ ~lapsed[s] => Owns(s) /\ claim.live

\* Two slots never run a task of the instance at once unless a lease lapsed:
\* claim_task and release_task_claim exclude each other's owners.
NoConcurrentRun ==
    \A s, t \in Slots :
        s # t /\ pc[s] = "running" /\ pc[t] = "running" => lapsed[s] \/ lapsed[t]

\* A task is dispatched only when the output it takes as its input, that of
\* the node before it, is in the sidecar: the copy's list of results and the
\* table of outputs are written and read by different statements.
InputIsDurable ==
    \A s \in Slots :
        pc[s] \in {"found", "guard", "running"} /\ task[s] > 1
            => outs[task[s] - 1] # 0

\* A terminal row never changes again: a save from a stale copy, a late event
\* and a late control signal all leave it alone.
TerminalIsFinal == [][row.status \in Terminal => row' = row]_vars

\* No result of a node before the last one is ever taken back by a stale copy:
\* the fence of save_snapshot_fenced stops the commits that come too late.
ProgressKept == [][row.done \ {N} \subseteq row'.done]_vars

\* The row as a client sees it.
Run == INSTANCE Lifecycle WITH status <- row.status, done <- row.done

\* To a client the fleet is one sequential run of the workflow (Lifecycle):
\* crashes, lapsed leases and saves of stale copies neither reorder, skip nor
\* withdraw results (but the last one's), and move the status only along the
\* edges of the lifecycle.  It is meant for chains of tasks.
ImplementsLifecycle == Run!Spec

\* No task with a result is run again (the no-replay promise).
NoReexecution ==
    [][\A s \in Slots : pc[s] = "found" /\ pc'[s] = "guard"
                            => task[s] \notin row.done]_vars

\* The recorded retries of a task never exceed max_retries, although record_retry
\* counts on copies (retries_exhausted, try_schedule_retry).
AttemptsBounded == row.att <= MaxRetries

\* Only a client brings a paused workflow back: no slot's save does.
PauseSticks ==
    [][row.status = "Paused" /\ (\E s \in Slots : pc'[s] # pc[s])
          => row'.status # "InProgress"]_vars

\* A workflow parked on a delay leaves it only when the delay has elapsed: neither
\* find_available_tasks nor a late save of a slot moves it on before.
DelayHonoured ==
    [][row.status = "InProgress" /\ row.kind = "AtDelay" /\ ~row.due
          => \/ row'.status \in {"Paused", "Cancelled"}
             \/ row'.status = "InProgress" /\ row'.kind = "AtDelay"]_vars

\* A task position always names a task, never a delay or a signal wait that
\* no dispatch can run (set_position_at, and the advance of elapsed delays).
NoPhantomTask ==
    row.status = "InProgress" /\ row.kind = "AtTask" => Chain[row.node] = "task"

\* No event a client handed over is lost: it is buffered, in the hands of a
\* draining slot, still on its way, or the output of a signal node.
NoEventLost ==
    \A e \in 1..sent :
        \/ \E i \in DOMAIN events : events[i] = e
        \/ \E s \in Slots : hand[s] = e
        \/ e = sent /\ sender # "idle"
        \/ \E n \in Nodes : Chain[n] = "signal" /\ outs[n] = e
        \/ row.status \in Terminal

\* A workflow parked on a signal whose event is already buffered has a slot
\* that is about to drain it, unless a slot has stopped half way: nothing else
\* would ever look at the buffer.
NoStrandedEvent ==
    signal_resume_target /\ events # <<>> /\ abandons = 0 =>
        \E s \in Slots : pc[s] \in {"drain", "drainSave"}

\* The workflow ends: some worker runs every task and some worker notices that
\* the last one is done.
Terminates == <>(row.status \in Terminal)

\* The workflow ends when no slot stops half way and no client interferes: the
\* slot that commits the last task also completes it
\* (determine_post_task_status).
TerminatesUndisturbed == [](abandons = 0 /\ signals = {}) => Terminates

\* Every task is done, or the workflow has ended, although slots stop half way:
\* the work they leave behind is taken over once their claim expires.
AllTasksDone ==
    [](signals = {}) => <>(row.done = Nodes \/ row.status \in Terminal)

\* A cancel that is pending on a running workflow takes effect.
CancelApplied ==
    "Cancel" \in signals /\ row.status = "InProgress" ~> row.status \in Terminal

\* A cancel that arrives while a slot is running a task takes effect: a heartbeat
\* or the check after the release (check_control_signals) applies it.
CancelSeenAtBoundary ==
    ("Cancel" \in signals /\ \E s \in Slots : pc[s] = "running")
        ~> row.status \in Terminal

\* A cancel that arrives while a task runs takes effect when no slot stops half
\* way and no retry is scheduled.
CancelSeenUndisturbed ==
    [](abandons = 0 /\ row.att = 0) => CancelSeenAtBoundary

\* A signal wait whose timeout has passed does not wait on.
SignalTimeoutFires ==
    row.status = "InProgress" /\ row.kind = "AtSignal" /\ row.due
        ~> row.kind # "AtSignal" \/ row.status # "InProgress"

=============================================================================
