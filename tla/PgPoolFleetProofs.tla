------------------------- MODULE PgPoolFleetProofs --------------------------
(***************************************************************************)
(* Proofs about the claims and the parks of PgPool.                        *)
(*                                                                         *)
(* The claim: a lease that did not lapse is the slot's own, two slots run  *)
(* at once only if a lease lapsed, and the claim fence keeps stale copies  *)
(* from taking back progress. A claim row names a worker and a task, not a *)
(* dispatch, so all three need that two dispatches of the instance are     *)
(* never by the same worker.                                               *)
(*                                                                         *)
(* The lifecycle: for every chain of tasks and every set of single-slot    *)
(* workers, what a client sees of the row is a sequential run of the       *)
(* workflow. The fence makes what a slot saves at the end of its run the   *)
(* successor of the row it replaces (FenceInv). The completion is saved    *)
(* without a fence and after the release, so it needs an invariant of its  *)
(* own.                                                                    *)
(*                                                                         *)
(* Positions: where a chain has no two parks in a row and starts with a    *)
(* task, the position of the row always fits its node: the next task id    *)
(* that a park fixes on entry names a task.                                *)
(*                                                                         *)
(* Events: unless workflows are paused, an event that is buffered for a    *)
(* parked workflow has a slot about to drain it.                           *)
(*                                                                         *)
(* Delays: a single delay after tasks is never cut short, although the     *)
(* copies that elapsed polls and drained signals save pass no fence.       *)
(***************************************************************************)
EXTENDS PgPoolProofs

\* No worker has two dispatches of the instance in flight.
OneSlotPerWorker ==
    \A s, t \in Slots : WorkerOf[s] = WorkerOf[t] => s = t

-----------------------------------------------------------------------------
(* The lease.                                                              *)

\* A step that leaves the claim alone, and after which the slots that hold it
\* are slots that held it before, keeps LeaseIsOwn.
LEMMA LeaseFrame ==
    ASSUME LeaseIsOwn, UNCHANGED claim,
           \A t \in Slots : pc'[t] \in Holding =>
               pc[t] \in Holding /\ task'[t] = task[t] /\ lapsed'[t] = lapsed[t]
    PROVE  LeaseIsOwn'
BY DEF LeaseIsOwn, Owns

\* What a slot that ends its dispatch, or moves on, does to the slots.
LEMMA Moves ==
    ASSUME TypeInv, NEW s \in Slots
    PROVE  /\ EndDispatch(s) =>
                 \A t \in Slots : pc'[t] \in Holding =>
                     /\ t # s /\ pc'[t] = pc[t] /\ task'[t] = task[t]
                     /\ lapsed'[t] = lapsed[t]
           /\ \A l : Goto(s, l) =>
                 /\ pc'[s] = l
                 /\ \A t \in Slots \ {s} : pc'[t] = pc[t]
           /\ \A r \in Snapshot : \A l \in {"found", "advance"} :
                 Dispatch(s, r, l) =>
                 \A t \in Slots : pc'[t] \in Holding =>
                     /\ t # s /\ pc'[t] = pc[t] /\ task'[t] = task[t]
                     /\ lapsed'[t] = lapsed[t]
<1>1. EndDispatch(s) =>
        \A t \in Slots : pc'[t] \in Holding =>
            t # s /\ pc'[t] = pc[t] /\ task'[t] = task[t] /\ lapsed'[t] = lapsed[t]
  BY ZenonT(30) DEF EndDispatch, Goto, Holding, TypeInv, TypeOK
<1>2. \A l : Goto(s, l) =>
        pc'[s] = l /\ \A t \in Slots \ {s} : pc'[t] = pc[t]
  BY DEF Goto, TypeInv, TypeOK
<1>3. \A r \in Snapshot : \A l \in {"found", "advance"} : Dispatch(s, r, l) =>
        \A t \in Slots : pc'[t] \in Holding =>
            t # s /\ pc'[t] = pc[t] /\ task'[t] = task[t] /\ lapsed'[t] = lapsed[t]
  BY Zenon DEF Dispatch, Goto, Holding, TypeInv, TypeOK
<1> QED
  BY <1>1, <1>2, <1>3

\* Every step of a slot keeps LeaseIsOwn.
LEMMA SlotLeases ==
    ASSUME OneSlotPerWorker, TypeInv, LeaseIsOwn, NEW s \in Slots,
           Work(s) \/ find_hinted_task(s) \/ run_with_heartbeat(s) \/ Abandon(s)
    PROVE  LeaseIsOwn'
<1>0. row \in Snapshot /\ snap[s] \in Snapshot /\ LeavePark(snap[s]) \in Snapshot
  BY Zenon, OperationTypes, ChainFacts DEF TypeInv, TypeOK
<1>1. CASE find_available_tasks(s) \/ find_hinted_task(s) \/ advance_delay(s)
  <2>1. UNCHANGED claim
    BY Zenon, <1>1 DEF find_available_tasks, find_hinted_task, advance_delay, db
  <2>2. CASE UNCHANGED local
    BY <2>1, <2>2, LeaseFrame DEF local
  <2>3. CASE EndDispatch(s)
    BY Zenon, <2>1, <2>3, Moves, LeaseFrame
  <2>4. ASSUME NEW r \in Snapshot, NEW l \in {"found", "advance"}, Dispatch(s, r, l)
        PROVE  LeaseIsOwn'
    BY <2>1, <2>4, Moves, LeaseFrame
  <2> QED
    BY Zenon, <1>0, <1>1, <2>2, <2>3, <2>4
    DEF find_available_tasks, find_hinted_task, advance_delay
<1>2. CASE claim_task(s)
  <2>1. CASE EndDispatch(s) /\ UNCHANGED claim
    BY <2>1, Moves, LeaseFrame
  <2>2. CASE /\ ~claim.live /\ Goto(s, "guard") /\ UNCHANGED <<task, lapsed>>
             /\ claim' = [worker |-> WorkerOf[s], task |-> task[s], live |-> TRUE]
    <3>1. ASSUME NEW t \in Slots, pc'[t] \in Holding, ~lapsed'[t]
          PROVE  t = s
      BY Zenon, <2>2, <3>1, Moves DEF LeaseIsOwn
    <3> QED
      BY Zenon, <2>2, <3>1 DEF LeaseIsOwn, Owns
  <2> QED
    BY Zenon, <1>2, <2>1, <2>2 DEF claim_task
<1>3. CASE check_control_signals(s)
  <2>1. UNCHANGED <<claim, task, lapsed>>
    BY <1>3 DEF check_control_signals, db
  <2>2. PICK l : Goto(s, l) /\ (l \in Holding => pc[s] \in Holding)
    BY <1>3 DEF check_control_signals, Holding
  <2> QED
    BY Zenon, <2>1, <2>2, Moves, LeaseFrame
<1>4. CASE check_and_cancel(s) \/ check_and_pause(s)
  <2>1. UNCHANGED claim
    BY <1>4 DEF check_and_cancel, check_and_pause
  <2>2. CASE EndDispatch(s)
    BY <2>1, <2>2, Moves, LeaseFrame
  <2>3. ASSUME NEW l, Goto(s, l), UNCHANGED <<task, snap, hand, lapsed>>,
               l \in Holding => pc[s] \in Holding
        PROVE  LeaseIsOwn'
    BY Zenon, <2>1, <2>3, Moves, LeaseFrame
  <2> QED
    BY Zenon, <1>4, <2>2, <2>3 DEF check_and_cancel, check_and_pause, Holding
<1>5. CASE run_with_heartbeat(s)
  <2>1. claim' = IF Owns(s) THEN [claim EXCEPT !.live = TRUE] ELSE claim
    BY <1>5 DEF run_with_heartbeat
  <2>2. /\ claim'.worker = claim.worker /\ claim'.task = claim.task
        /\ claim.live \/ Owns(s) => claim'.live
    BY <2>1 DEF TypeInv, TypeOK, ClaimRow
  <2>3. CASE EndDispatch(s)
    BY ZenonT(30), <2>2, <2>3, Moves DEF LeaseIsOwn, Owns
  <2>4. CASE Goto(s, "quietCancel") /\ UNCHANGED <<task, snap, hand, lapsed>>
    <3>1. \A t \in Slots : pc'[t] \in Holding => pc[t] \in Holding
      BY Zenon, <1>5, <2>4, Moves DEF run_with_heartbeat, Holding
    <3> QED
      BY Zenon, <2>2, <2>4, <3>1 DEF LeaseIsOwn, Owns
  <2>5. CASE /\ Owns(s) /\ lapsed' = [lapsed EXCEPT ![s] = FALSE]
             /\ UNCHANGED <<pc, task, snap, hand>>
    BY Zenon, <2>2, <2>5 DEF LeaseIsOwn, Owns, TypeInv, TypeOK
  <2> QED
    BY Zenon, <1>5, <2>3, <2>4, <2>5 DEF run_with_heartbeat
<1>6. CASE commit_task_result(s) \/ settle_failure(s) \/ consume_event(s)
           \/ drain_pending_signal(s)
  <2>1. UNCHANGED claim
    BY Zenon, <1>6 DEF commit_task_result, settle_failure, consume_event,
                drain_pending_signal
  <2>2. CASE EndDispatch(s)
    BY <2>1, <2>2, Moves, LeaseFrame
  <2>3. ASSUME NEW l, Goto(s, l), UNCHANGED <<task, lapsed>>, pc[s] \in Holding
        PROVE  LeaseIsOwn'
    BY Zenon, <2>1, <2>3, Moves, LeaseFrame
  <2> QED
    BY Zenon, <1>6, <2>2, <2>3
    DEF commit_task_result, settle_failure, consume_event,
        drain_pending_signal, Holding
<1>7. CASE release_task_claim(s)
  <2> DEFINE Others ==
        \A t \in Slots : pc'[t] \in Holding =>
           t # s /\ pc'[t] = pc[t] /\ task'[t] = task[t] /\ lapsed'[t] = lapsed[t]
  <2>1. Others
    <3>1. CASE EndDispatch(s)
      BY Zenon, <3>1, Moves
    <3>2. ASSUME NEW l \in {"post", "cancelling"}, Goto(s, l),
                 UNCHANGED <<task, snap, hand, lapsed>>
          PROVE  Others
      BY <3>2, Moves DEF Holding
    <3> QED
      BY <1>7, <3>1, <3>2 DEF release_task_claim
  <2>2. CASE Owns(s)
    <3>1. ASSUME NEW t \in Slots, pc'[t] \in Holding
          PROVE  lapsed'[t]
      BY <2>1, <2>2, <3>1 DEF LeaseIsOwn, Owns, OneSlotPerWorker
    <3> QED
      BY <3>1 DEF LeaseIsOwn
  <2>3. CASE ~Owns(s)
    <3>1. UNCHANGED claim
      BY <1>7, <2>3 DEF release_task_claim
    <3> QED
      BY Zenon, <2>1, <3>1, LeaseFrame
  <2> QED
    BY <2>2, <2>3
<1>8. CASE determine_post_task_status(s) \/ Abandon(s)
  <2>1. UNCHANGED claim /\ EndDispatch(s)
    BY Zenon, <1>8 DEF determine_post_task_status, Abandon, db
  <2> QED
    BY Zenon, <2>1, Moves, LeaseFrame
<1> QED
  BY Zenon, <1>1, <1>2, <1>3, <1>4, <1>5, <1>6, <1>7, <1>8 DEF Work

\* LeaseIsOwn is inductive, given the types.
LEMMA LeaseInductive ==
    ASSUME OneSlotPerWorker
    PROVE  /\ Init => LeaseIsOwn
           /\ TypeInv /\ LeaseIsOwn /\ [Next]_vars => LeaseIsOwn'
<1>1. Init => LeaseIsOwn
  BY DEF Init, LeaseIsOwn, Holding
<1>2. TypeInv /\ LeaseIsOwn /\ [Next]_vars => LeaseIsOwn'
  <2> SUFFICES ASSUME TypeInv, LeaseIsOwn, [Next]_vars
               PROVE  LeaseIsOwn'
    OBVIOUS
  <2>1. CASE LeaseExpires
    <3>1. claim'.worker = claim.worker /\ claim'.task = claim.task
      BY <2>1 DEF LeaseExpires, TypeInv, TypeOK, ClaimRow
    <3>2. ASSUME NEW t \in Slots, pc'[t] \in Holding
          PROVE  lapsed'[t]
      BY Zenon, <2>1, <3>2 DEF LeaseExpires, LeaseIsOwn
    <3> QED
      BY Zenon, <3>2 DEF LeaseIsOwn
  <2>2. CASE \/ TimerElapses \/ unpause \/ send_event \/ deliver_event
             \/ \E k \in SignalKinds : store_signal(k)
    BY Zenon, <2>2, LeaseFrame
    DEF TimerElapses, unpause, send_event, deliver_event, store_signal, db, local
  <2>3. CASE UNCHANGED vars
    BY Zenon, <2>3 DEF LeaseIsOwn, Owns, vars
  <2> QED
    BY <2>1, <2>2, <2>3, SlotLeases DEF Next
<1> QED
  BY <1>1, <1>2

\* A slot that believes it holds the claim, and whose lease did not lapse,
\* owns the claim row: no release, steal or expiry by another took it away.
THEOREM LeaseOwned ==
    ASSUME OneSlotPerWorker
    PROVE  Spec => []LeaseIsOwn
BY LeaseInductive, TypeInductive, PTL DEF Spec

\* Two workers run a task of the instance at the same time only after the
\* lease of one of them lapsed.
THEOREM MutualExclusion ==
    ASSUME OneSlotPerWorker
    PROVE  Spec => []NoConcurrentRun
<1>1. LeaseIsOwn => NoConcurrentRun
  BY OneSlotPerWorker DEF LeaseIsOwn, NoConcurrentRun, Owns, Holding, OneSlotPerWorker
<1> QED
  BY <1>1, LeaseOwned, PTL

-----------------------------------------------------------------------------
(* The fence, for chains of tasks.                                         *)

\* The chain has neither delays nor signal waits.
TasksOnly == \A n \in Nodes : Chain[n] = "task"

\* In a chain of tasks nothing is ever parked.
NothingParked == row.kind = "AtTask" /\ \A s \in Slots : snap[s].kind = "AtTask"

\* A slot that has not yet committed and owns the claim row, live or not, is at
\* the task the row is at: only the owner could have moved the row on.
OwnerIsCurrent ==
    \A s \in Slots :
        pc[s] \in {"guard", "guardCancel", "guardPause", "running"} /\ Owns(s) =>
            row.status \in Terminal \/ row.node = task[s]

\* What the fence relies on.
FenceInv == NothingParked /\ OwnerIsCurrent

\* What the operations make of position and results in a chain of tasks.
LEMMA TaskOps ==
    ASSUME TasksOnly, NEW r \in Snapshot, r.kind = "AtTask", NEW n \in Nodes
    PROVE  /\ TaskResult(r, n).kind = "AtTask"
           /\ r.done \subseteq TaskResult(r, n).done
<1> DEFINE m == [mark_task_completed(r, n) EXCEPT !.att = 0, !.due = TRUE]
<1>1. m \in Snapshot /\ m.kind = "AtTask" /\ r.done \subseteq m.done
  <2>1. m \in Snapshot
    BY Zenon, OperationTypes
  <2>2. m.kind = "AtTask" /\ r.done \subseteq m.done
    BY DEF mark_task_completed, Snapshot
  <2> QED
    BY <2>1, <2>2
<1>2. TaskResult(r, n) = update_position_after_task(m, n)
  BY DEF TaskResult
<1> HIDE DEF m
<1>3. CASE n = N
  BY <1>1, <1>2, <1>3 DEF update_position_after_task
<1>4. CASE n # N
  <2>1. n + 1 \in Nodes /\ TaskResult(r, n) = set_position_at(m, n + 1)
    BY <1>2, <1>4, ChainFacts DEF update_position_after_task
  <2>2. Chain[n + 1] = "task"
    BY <2>1 DEF TasksOnly
  <2> QED
    BY Zenon, <1>1, <2>1, <2>2 DEF set_position_at, Snapshot
<1> QED
  BY Zenon, <1>3, <1>4

\* The operations that leave position and results alone.
LEMMA KeptFields ==
    ASSUME NEW r \in Snapshot
    PROVE  /\ \A q \in {mark_completed(r), mark_failed(r), mark_cancelled(r),
                        mark_paused(r), mark_unpaused(r), record_retry(r),
                        [r EXCEPT !.due = TRUE]} :
                 q.kind = r.kind /\ q.node = r.node /\ q.done = r.done
           /\ mark_completed(r).status = "Completed"
BY DEF mark_completed, mark_failed, mark_cancelled, mark_paused, mark_unpaused,
       record_retry, Snapshot

\* The program points between the claim and the end of the run.
Uncommitted == {"guard", "guardCancel", "guardPause", "running"}

\* What a step of slot s may do to the row in a chain of tasks: leave position
\* and results alone, complete the workflow, or write behind the fence what
\* the slot made of its own copy.
RowMove(s) ==
    \/ row'.node = row.node /\ row'.done = row.done
    \/ row'.status = "Completed" /\ row'.done = Nodes
    \/ /\ pc[s] = "running" /\ pc'[s] \notin Uncommitted /\ Fenced(s)
       /\ row.status \notin Terminal
       /\ snap[s].done \subseteq row'.done

\* Every step of a slot does one of the three.
LEMMA RowMoves ==
    ASSUME TasksOnly, TypeInv, CopyInv, NothingParked, NEW s \in Slots,
           Work(s) \/ find_hinted_task(s) \/ run_with_heartbeat(s) \/ Abandon(s)
    PROVE  RowMove(s) /\ NothingParked'
<1>0. /\ row \in Snapshot /\ snap[s] \in Snapshot /\ task[s] \in Nodes
      /\ row.kind = "AtTask" /\ snap[s].kind = "AtTask"
      /\ PointInv(pc[s], task[s], snap[s], hand[s])
  BY Zenon DEF TypeInv, TypeOK, NothingParked, CopyInv
<1>1. \A r : r.kind = "AtTask" /\ snap' = [snap EXCEPT ![s] = r] =>
         \A t \in Slots : snap'[t].kind = "AtTask"
  BY DEF TypeInv, TypeOK, NothingParked
<1>2. UNCHANGED snap \/ EndDispatch(s) => \A t \in Slots : snap'[t].kind = "AtTask"
  BY <1>1 DEF NothingParked, EndDispatch, FreshSnapshot
<1>3. CASE find_available_tasks(s) \/ find_hinted_task(s)
  <2>1. row' = row
    BY Zenon, <1>3 DEF find_available_tasks, find_hinted_task, db
  <2>2. UNCHANGED snap \/ snap' = [snap EXCEPT ![s] = row]
    BY Zenon, <1>3 DEF find_available_tasks, find_hinted_task, Dispatch, local
  <2> QED
    BY Zenon, <1>0, <1>1, <1>2, <2>1, <2>2 DEF RowMove, NothingParked
<1>4. CASE advance_delay(s) \/ drain_pending_signal(s)
  BY Zenon, <1>0, <1>4 DEF advance_delay, drain_pending_signal, PointInv
<1>5. CASE \/ claim_task(s) \/ check_control_signals(s) \/ run_with_heartbeat(s)
           \/ consume_event(s) \/ release_task_claim(s) \/ Abandon(s)
  <2>1. row' = row /\ (UNCHANGED snap \/ EndDispatch(s))
    BY Zenon, <1>5 DEF claim_task, check_control_signals, run_with_heartbeat,
                consume_event, release_task_claim, Abandon, db
  <2> QED
    BY Zenon, <1>0, <1>2, <2>1 DEF RowMove, NothingParked
<1>6. CASE check_and_cancel(s) \/ check_and_pause(s)
  <2>1. row' \in {row, mark_cancelled(row), mark_paused(row)}
    BY Zenon, <1>6 DEF check_and_cancel, check_and_pause, Apply
  <2>2. UNCHANGED snap \/ EndDispatch(s)
    BY Zenon, <1>6 DEF check_and_cancel, check_and_pause
  <2>3. row'.kind = row.kind /\ row'.node = row.node /\ row'.done = row.done
    BY <1>0, <2>1, KeptFields
  <2> QED
    BY Zenon, <1>0, <1>2, <2>2, <2>3 DEF RowMove, NothingParked
<1>7. CASE commit_task_result(s)
  <2> DEFINE r == TaskResult(snap[s], task[s])
  <2>1. r.kind = "AtTask" /\ snap[s].done \subseteq r.done
    BY Zenon, <1>0, TaskOps
  <2>2. CASE ~Fenced(s)
    BY Zenon, <1>0, <1>2, <1>7, <2>2 DEF commit_task_result, RowMove, NothingParked
  <2>3. CASE Fenced(s)
    <3>1. /\ exec_save_snapshot(r) /\ snap' = [snap EXCEPT ![s] = r]
          /\ pc[s] = "running" /\ Goto(s, "drain")
      BY Zenon, <1>7, <2>3 DEF commit_task_result
    <3> HIDE DEF r
    <3>2. pc'[s] \notin Uncommitted
      BY <3>1 DEF Goto, Uncommitted, TypeInv, TypeOK
    <3>3. \/ row' = row
          \/ row.status \notin Terminal /\ row' = r
      BY <3>1 DEF exec_save_snapshot
    <3> QED
      BY Zenon, <1>0, <1>1, <2>1, <2>3, <3>1, <3>2, <3>3 DEF RowMove, NothingParked
  <2> QED
    BY <2>2, <2>3
<1>8. CASE settle_failure(s)
  <2> DEFINE r == FailedSnapshot(s)
  <2>1. r.kind = "AtTask" /\ r.done = snap[s].done
    BY <1>0, KeptFields DEF FailedSnapshot
  <2>2. pc'[s] \notin Uncommitted /\ pc[s] = "running" /\ UNCHANGED snap
    BY Zenon, <1>8 DEF settle_failure, Goto, Uncommitted, TypeInv, TypeOK
  <2>3. \/ row' = row
        \/ row.status \notin Terminal /\ row' = r /\ Fenced(s)
    BY <1>8 DEF settle_failure, exec_save_snapshot
  <2> HIDE DEF r
  <2> QED
    BY Zenon, <1>0, <1>2, <2>1, <2>2, <2>3 DEF RowMove, NothingParked
<1>9. CASE determine_post_task_status(s)
  <2> DEFINE r == mark_completed(snap[s])
  <2>1. r.kind = "AtTask" /\ r.status = "Completed" /\ r.done = snap[s].done
    BY <1>0, KeptFields
  <2>2. row' = row \/ (row' = r /\ snap[s].done = Nodes)
    BY Zenon, <1>9 DEF determine_post_task_status, exec_save_snapshot, is_workflow_complete
  <2>3. EndDispatch(s)
    BY Zenon, <1>9 DEF determine_post_task_status
  <2> HIDE DEF r
  <2> QED
    BY Zenon, <1>0, <1>2, <2>1, <2>2, <2>3 DEF RowMove, NothingParked
<1> QED
  BY Zenon, <1>3, <1>4, <1>5, <1>6, <1>7, <1>8, <1>9 DEF Work

\* After a step of slot s, an uncommitted slot that owns the claim row either
\* did so before, or has just claimed the task the row is at.
LEMMA Owners ==
    ASSUME OneSlotPerWorker, TypeInv, NEW s \in Slots,
           Work(s) \/ find_hinted_task(s) \/ run_with_heartbeat(s) \/ Abandon(s),
           NEW t \in Slots, pc'[t] \in Uncommitted, Owns(t)'
    PROVE  \/ pc[t] \in Uncommitted /\ Owns(t) /\ task'[t] = task[t]
           \/ row' = row /\ row.node = task'[t]
<1>0. /\ pc \in [Slots -> PCs] /\ task \in [Slots -> Nodes] /\ claim \in ClaimRow
      /\ Uncommitted \subseteq Holding
      /\ row \in Snapshot /\ snap[s] \in Snapshot /\ LeavePark(snap[s]) \in Snapshot
  BY Zenon, OperationTypes, ChainFacts DEF TypeInv, TypeOK, Uncommitted, Holding
<1>1. CASE EndDispatch(s) /\ UNCHANGED claim
  BY Zenon, <1>0, <1>1, Moves DEF Owns
<1>2. ASSUME NEW l, Goto(s, l), UNCHANGED <<task, claim>>,
             l \in Uncommitted => pc[s] \in Uncommitted
      PROVE  pc[t] \in Uncommitted /\ Owns(t) /\ task'[t] = task[t]
  BY Zenon, <1>0, <1>2, Moves DEF Owns
<1>3. CASE find_available_tasks(s) \/ find_hinted_task(s) \/ advance_delay(s)
  <2>1. UNCHANGED claim
    BY Zenon, <1>3 DEF find_available_tasks, find_hinted_task, advance_delay, db
  <2>2. CASE UNCHANGED local
    BY <2>1, <2>2 DEF local, Owns
  <2>3. ASSUME NEW r \in Snapshot, NEW l \in {"found", "advance"}, Dispatch(s, r, l)
        PROVE  pc[t] \in Uncommitted /\ Owns(t) /\ task'[t] = task[t]
    BY <1>0, <2>1, <2>3, Moves DEF Owns
  <2> QED
    BY Zenon, <1>0, <1>1, <1>3, <2>1, <2>2, <2>3
    DEF find_available_tasks, find_hinted_task, advance_delay
<1>4. CASE claim_task(s)
  <2>1. CASE /\ row.node = task[s] /\ Goto(s, "guard") /\ UNCHANGED <<task, row>>
             /\ claim' = [worker |-> WorkerOf[s], task |-> task[s], live |-> TRUE]
    <3>1. t = s
      BY Zenon, <2>1 DEF Owns, OneSlotPerWorker
    <3> QED
      BY Zenon, <2>1, <3>1
  <2> QED
    BY Zenon, <1>1, <1>4, <2>1 DEF claim_task
<1>5. CASE \/ check_control_signals(s) \/ check_and_cancel(s) \/ check_and_pause(s)
  BY Zenon, <1>1, <1>2, <1>5
  DEF check_control_signals, check_and_cancel, check_and_pause, db, Uncommitted
<1>6. CASE run_with_heartbeat(s)
  <2>1. claim'.worker = claim.worker /\ claim'.task = claim.task
    BY <1>0, <1>6 DEF run_with_heartbeat, ClaimRow
  <2>2. CASE EndDispatch(s)
    BY Zenon, <1>0, <2>1, <2>2, Moves DEF Owns
  <2>3. CASE Goto(s, "quietCancel") /\ UNCHANGED task
    <3>1. t # s
      BY <2>3, Moves DEF Uncommitted
    <3> QED
      BY ZenonT(30), <2>1, <2>3, <3>1, Moves DEF Owns
  <2>4. CASE UNCHANGED <<pc, task>>
    BY Zenon, <2>1, <2>4 DEF Owns
  <2> QED
    BY Zenon, <1>6, <2>2, <2>3, <2>4 DEF run_with_heartbeat
<1>7. CASE \/ commit_task_result(s) \/ settle_failure(s) \/ consume_event(s)
           \/ drain_pending_signal(s)
  <2>1. UNCHANGED claim
    BY Zenon, <1>7 DEF commit_task_result, settle_failure, consume_event,
                drain_pending_signal
  <2>2. \/ EndDispatch(s)
        \/ UNCHANGED task /\ \E l \in {"drain", "quiet", "drainSave", "release"} :
              Goto(s, l)
    BY Zenon, <1>7 DEF commit_task_result, settle_failure, consume_event,
                drain_pending_signal
  <2> QED
    BY Zenon, <1>1, <1>2, <2>1, <2>2 DEF Uncommitted
<1>8. CASE release_task_claim(s)
  <2>1. claim' = claim
    <3>1. NoClaim.task = 0 /\ task'[t] # 0
      <4>1. task'[t] \in Nodes
        BY <1>0, <1>8, ChainFacts DEF release_task_claim, EndDispatch
      <4> QED
        BY <4>1, ChainFacts DEF NoClaim
    <3> QED
      BY <1>8, <3>1 DEF release_task_claim, Owns
  <2> QED
    BY Zenon, <1>1, <1>2, <1>8, <2>1 DEF release_task_claim, Uncommitted
<1>9. CASE determine_post_task_status(s) \/ Abandon(s)
  BY Zenon, <1>1, <1>9 DEF determine_post_task_status, Abandon, db
<1> QED
  BY Zenon, <1>3, <1>4, <1>5, <1>6, <1>7, <1>8, <1>9 DEF Work

\* FenceInv is inductive in a chain of tasks.
LEMMA FenceInductive ==
    ASSUME OneSlotPerWorker, TasksOnly
    PROVE  /\ Init => FenceInv
           /\ TypeInv /\ CopyInv /\ FenceInv /\ [Next]_vars => FenceInv'
<1>1. Init => FenceInv
  BY DEF Init, FenceInv, NothingParked, OwnerIsCurrent, FreshSnapshot
<1>2. TypeInv /\ CopyInv /\ FenceInv /\ [Next]_vars => FenceInv'
  <2> SUFFICES ASSUME TypeInv, CopyInv, FenceInv, [Next]_vars
               PROVE  FenceInv'
    OBVIOUS
  <2> USE DEF FenceInv
  <2>1. ASSUME NEW s \in Slots,
               Work(s) \/ find_hinted_task(s) \/ run_with_heartbeat(s) \/ Abandon(s)
        PROVE  FenceInv'
    <3>1. RowMove(s) /\ NothingParked'
      BY <2>1, RowMoves
    <3>2. row.status \in Terminal => row' = row
      BY <2>1, TerminalStep DEF Next
    <3>3. ASSUME NEW t \in Slots, pc'[t] \in Uncommitted, Owns(t)'
          PROVE  row'.status \in Terminal \/ row'.node = task'[t]
      <4>1. CASE row' = row /\ row.node = task'[t]
        BY <4>1
      <4>2. CASE pc[t] \in Uncommitted /\ Owns(t) /\ task'[t] = task[t]
        <5>1. row.status \in Terminal \/ row.node = task[t]
          BY <4>2 DEF OwnerIsCurrent, Uncommitted
        <5>2. CASE row'.node = row.node
          BY <3>2, <4>2, <5>1, <5>2
        <5>3. CASE row'.status = "Completed"
          BY <5>3 DEF Terminal
        <5>4. CASE pc'[s] \notin Uncommitted /\ Fenced(s)
          <6>1. t # s
            BY <3>3, <5>4
          <6> QED
            BY Zenon, <4>2, <5>4, <6>1 DEF Fenced, Owns, OneSlotPerWorker
        <5> QED
          BY Zenon, <3>1, <5>2, <5>3, <5>4 DEF RowMove
      <4> QED
        BY Zenon, <2>1, <3>3, <4>1, <4>2, Owners
    <3> QED
      BY <3>1, <3>3 DEF OwnerIsCurrent, Uncommitted
  <2>2. row \in Snapshot /\ row.kind = "AtTask"
    BY DEF TypeInv, TypeOK, NothingParked
  <2>3. CASE LeaseExpires
    <3>1. claim'.worker = claim.worker /\ claim'.task = claim.task
      BY <2>3 DEF LeaseExpires, TypeInv, TypeOK, ClaimRow
    <3> QED
      BY <2>3, <3>1 DEF LeaseExpires, OwnerIsCurrent, NothingParked, Owns
  <2>4. CASE TimerElapses \/ unpause
    <3>1. row'.kind = row.kind /\ row'.node = row.node /\ row.status \notin Terminal
      BY Zenon, <2>2, <2>4, KeptFields DEF TimerElapses, unpause, Terminal
    <3> QED
      BY <2>4, <3>1
      DEF TimerElapses, unpause, local, OwnerIsCurrent, NothingParked, Owns
  <2>5. CASE send_event \/ deliver_event \/ \E k \in SignalKinds : store_signal(k)
    <3>1. UNCHANGED <<row, claim, local>>
      BY Zenon, <2>2, <2>5
      DEF send_event, deliver_event, store_signal, signal_resume_target, db
    <3> QED
      BY Zenon, <3>1 DEF local, OwnerIsCurrent, NothingParked, Owns
  <2>6. CASE UNCHANGED vars
    BY Zenon, <2>6 DEF vars, OwnerIsCurrent, NothingParked, Owns
  <2> QED
    BY <2>1, <2>3, <2>4, <2>5, <2>6 DEF Next
<1> QED
  BY <1>1, <1>2

\* A step of a chain of tasks keeps every result before the last node's: the
\* copy a slot saves behind the fence has all of them.
LEMMA ProgressStep ==
    ASSUME OneSlotPerWorker, TasksOnly, TypeInv, CopyInv, FenceInv, Next
    PROVE  row.done \ {N} \subseteq row'.done
<1>0. row \in Snapshot /\ row.kind = "AtTask" /\ row.done \subseteq Nodes
  BY Zenon DEF TypeInv, TypeOK, FenceInv, NothingParked, Snapshot
<1>1. ASSUME NEW s \in Slots,
             Work(s) \/ find_hinted_task(s) \/ run_with_heartbeat(s) \/ Abandon(s)
      PROVE  row.done \ {N} \subseteq row'.done
  <2>1. CASE row'.done = row.done \/ row'.done = Nodes
    BY <1>0, <2>1
  <2>2. CASE /\ pc[s] = "running" /\ Fenced(s) /\ row.status \notin Terminal
             /\ snap[s].done \subseteq row'.done
    <3>1. row.node = task[s] /\ task[s] \in Nodes
      BY Zenon, <2>2 DEF FenceInv, OwnerIsCurrent, Fenced, TypeInv, TypeOK
    <3>2. snap[s].done = 1..(task[s] - 1)
      BY Zenon, <2>2, <3>1 DEF CopyInv, SnapInv, Coherent, PointInv, Terminal
    <3>3. \/ row.done = 1..(task[s] - 1)
          \/ task[s] = N /\ row.done = Nodes
      BY Zenon, <1>0, <2>2, <3>1 DEF CopyInv, SnapInv, Coherent
    <3>4. Nodes \ {N} \subseteq 1..(N - 1)
      BY ChainFacts DEF Nodes
    <3> QED
      BY Zenon, <2>2, <3>2, <3>3, <3>4
  <2> QED
    BY Zenon, <1>1, <2>1, <2>2, RowMoves DEF RowMove, FenceInv
<1>2. CASE TimerElapses \/ unpause
  BY Zenon, <1>0, <1>2, KeptFields DEF TimerElapses, unpause
<1>3. CASE LeaseExpires \/ send_event \/ deliver_event
           \/ \E k \in SignalKinds : store_signal(k)
  <2>1. row' = row
    BY Zenon, <1>0, <1>3 DEF LeaseExpires, send_event, deliver_event, store_signal,
                      signal_resume_target, db
  <2> QED
    BY <2>1
<1> QED
  BY Zenon, <1>1, <1>2, <1>3 DEF Next

\* In a chain of tasks no result before the last node's is ever taken back,
\* although a slot saves a copy of the snapshot that it read before its claim.
THEOREM FenceKeepsProgress ==
    ASSUME OneSlotPerWorker, TasksOnly
    PROVE  Spec => ProgressKept
<1>1. TypeInv /\ CopyInv /\ FenceInv /\ [Next]_vars
         => [row.done \ {N} \subseteq row'.done]_vars
  BY OneSlotPerWorker, TasksOnly, ProgressStep
<1> QED
  BY <1>1, TypeInductive, CopyInductive, FenceInductive, PTL DEF Spec, ProgressKept

-----------------------------------------------------------------------------
(* The lifecycle.                                                          *)

\* The program points between the commit and the completion.
Committed == {"drain", "release", "post", "postCancel", "postPause", "complete"}

\* A slot on its way to the completion has a copy with every result; the row
\* has at least those before the last, whatever happened since the commit.
LateInv ==
    \A s \in Slots :
        pc[s] \in Committed /\ snap[s].done = Nodes =>
            row.status \in Terminal \/ 1..(N - 1) \subseteq row.done

\* The nodes without the last one.
LEMMA LastNode ==
    /\ Nodes = 1..N /\ 1..(N - 1) \subseteq Nodes \ {N}
    /\ \A d \in SUBSET Nodes :
          1..(N - 1) \subseteq d => d = 1..(N - 1) \/ d = 1..N
<1>1. Nodes = 1..N /\ 1..(N - 1) \subseteq Nodes \ {N} /\ Nodes = 1..(N - 1) \cup {N}
  BY ChainFacts DEF Nodes
<1> HIDE DEF Nodes
<1> QED
  BY Zenon, <1>1

\* What a slot that runs a task behind the fence knows of row and copy.
LEMMA FencedRun ==
    ASSUME TypeInv, CopyInv, FenceInv, NEW s \in Slots,
           pc[s] = "running", Fenced(s), row.status \notin Terminal
    PROVE  /\ task[s] \in Nodes /\ row.node = task[s]
           /\ snap[s].done = 1..(task[s] - 1)
           /\ \/ row.done = 1..(task[s] - 1)
              \/ task[s] = N /\ row.done = 1..N
<1>1. row.node = task[s] /\ task[s] \in Nodes /\ row.kind = "AtTask"
  BY Zenon DEF FenceInv, OwnerIsCurrent, NothingParked, Fenced, TypeInv, TypeOK
<1>2. snap[s].done = 1..(task[s] - 1)
  BY Zenon, <1>1 DEF CopyInv, SnapInv, Coherent, PointInv, Terminal
<1>3. row.done = 1..(task[s] - 1) \/ (task[s] = N /\ row.done = Nodes)
  BY Zenon, <1>1 DEF CopyInv, SnapInv, Coherent
<1> QED
  BY Zenon, <1>1, <1>2, <1>3, LastNode

\* What a commit writes in a chain of tasks.
LEMMA CommitWrites ==
    ASSUME TasksOnly, NEW r \in Snapshot, NEW n \in Nodes,
           r.status = "InProgress", r.done = 1..(n - 1)
    PROVE  TaskResult(r, n).status = "InProgress" /\ TaskResult(r, n).done = 1..n
<1> DEFINE m == [mark_task_completed(r, n) EXCEPT !.att = 0, !.due = TRUE]
<1>1. m \in Snapshot /\ m.status = "InProgress" /\ m.done = r.done \cup {n}
  <2>1. m \in Snapshot
    BY Zenon, OperationTypes
  <2>2. m.status = "InProgress" /\ m.done = r.done \cup {n}
    BY DEF mark_task_completed, Snapshot
  <2> QED
    BY <2>1, <2>2
<1>2. TaskResult(r, n) = update_position_after_task(m, n)
  BY DEF TaskResult
<1>3. m.done = 1..n
  BY Zenon, <1>1, Intervals
<1> HIDE DEF m
<1>4. CASE n = N
  BY Zenon, <1>1, <1>2, <1>3, <1>4 DEF update_position_after_task
<1>5. CASE n # N
  <2>1. n + 1 \in Nodes /\ TaskResult(r, n) = set_position_at(m, n + 1)
    BY Zenon, <1>2, <1>5, ChainFacts DEF update_position_after_task
  <2>2. Chain[n + 1] = "task"
    BY Zenon, <2>1 DEF TasksOnly
  <2> QED
    BY Zenon, <1>1, <1>3, <2>1, <2>2 DEF set_position_at, Snapshot
<1> QED
  BY Zenon, <1>4, <1>5

-----------------------------------------------------------------------------
\* What a step of slot s does to its point and copy, and to the row, when it
\* ends on the way to the completion.
LEMMA LateSlot ==
    ASSUME OneSlotPerWorker, TasksOnly, TypeInv, CopyInv, FenceInv, NEW s \in Slots,
           Work(s) \/ find_hinted_task(s) \/ run_with_heartbeat(s) \/ Abandon(s),
           pc'[s] \in Committed
    PROVE  \/ pc[s] \in Committed /\ snap'[s] = snap[s]
           \/ row'.status \in Terminal
           \/ row'.done = snap'[s].done
<1>0. /\ pc \in [Slots -> PCs] /\ snap \in [Slots -> Snapshot]
      /\ snap[s] \in Snapshot /\ row \in Snapshot
      /\ PointInv(pc[s], task[s], snap[s], hand[s]) /\ snap[s].kind = "AtTask"
  BY Zenon DEF TypeInv, TypeOK, CopyInv, FenceInv, NothingParked
<1>1. ~EndDispatch(s)
  BY Zenon, <1>0 DEF EndDispatch, Goto, Committed
<1>2. ASSUME NEW l, Goto(s, l) PROVE l = pc'[s]
  BY Zenon, <1>0, <1>2 DEF Goto
<1>3. CASE find_available_tasks(s) \/ find_hinted_task(s)
  <2>1. CASE UNCHANGED local
    BY Zenon, <2>1 DEF local
  <2> QED
    BY Zenon, <1>2, <1>3, <2>1
    DEF find_available_tasks, find_hinted_task, Dispatch, Committed
<1>4. CASE advance_delay(s) \/ drain_pending_signal(s)
  BY Zenon, <1>0, <1>4 DEF advance_delay, drain_pending_signal, PointInv
<1>5. CASE claim_task(s) \/ run_with_heartbeat(s) \/ settle_failure(s)
  <2>1. CASE UNCHANGED <<pc, task, snap, hand>>
    BY Zenon, <2>1
  <2> QED
    BY ZenonT(30), <1>1, <1>2, <1>5, <2>1
    DEF claim_task, run_with_heartbeat, settle_failure, Committed
<1>6. CASE \/ check_control_signals(s) \/ check_and_cancel(s) \/ check_and_pause(s)
  BY Zenon, <1>1, <1>2, <1>6
  DEF check_control_signals, check_and_cancel, check_and_pause, Committed
<1>7. CASE consume_event(s) \/ release_task_claim(s)
  BY Zenon, <1>1, <1>2, <1>7 DEF consume_event, release_task_claim, Committed
<1>8. CASE commit_task_result(s)
  <2> DEFINE r == TaskResult(snap[s], task[s])
  <2>1. exec_save_snapshot(r) /\ snap' = [snap EXCEPT ![s] = r]
    BY Zenon, <1>1, <1>8 DEF commit_task_result
  <2> HIDE DEF r
  <2>2. snap'[s] = r
    BY Zenon, <1>0, <2>1
  <2> QED
    BY Zenon, <2>1, <2>2 DEF exec_save_snapshot
<1>9. CASE determine_post_task_status(s) \/ Abandon(s)
  BY Zenon, <1>1, <1>9 DEF determine_post_task_status, Abandon
<1> QED
  BY Zenon, <1>3, <1>4, <1>5, <1>6, <1>7, <1>8, <1>9 DEF Work

\* LateInv is inductive: a commit establishes it, and no step withdraws the
\* results before the last.
LEMMA LateInductive ==
    ASSUME OneSlotPerWorker, TasksOnly
    PROVE  /\ Init => LateInv
           /\ TypeInv /\ CopyInv /\ FenceInv /\ LateInv /\ [Next]_vars => LateInv'
<1>1. Init => LateInv
  BY Zenon DEF Init, LateInv, Committed
<1>2. TypeInv /\ CopyInv /\ FenceInv /\ LateInv /\ [Next]_vars => LateInv'
  <2> SUFFICES ASSUME TypeInv, CopyInv, FenceInv, LateInv, [Next]_vars,
                      NEW t \in Slots, pc'[t] \in Committed, snap'[t].done = Nodes
               PROVE  row'.status \in Terminal \/ 1..(N - 1) \subseteq row'.done
    BY Zenon DEF LateInv
  <2>1. CASE UNCHANGED vars
    BY Zenon, <2>1 DEF vars, LateInv
  <2>2. ASSUME Next, pc[t] \in Committed, snap'[t] = snap[t]
        PROVE  row'.status \in Terminal \/ 1..(N - 1) \subseteq row'.done
    <3>1. row.done \ {N} \subseteq row'.done
      BY Zenon, <2>2, ProgressStep, OneSlotPerWorker, TasksOnly
    <3>2. row.status \in Terminal => row' = row
      BY Zenon, <2>2, TerminalStep
    <3>3. row.status \in Terminal \/ 1..(N - 1) \subseteq row.done
      BY <2>2 DEF LateInv
    <3> QED
      BY Zenon, <3>1, <3>2, <3>3, LastNode
  <2>3. ASSUME NEW s \in Slots,
               Work(s) \/ find_hinted_task(s) \/ run_with_heartbeat(s) \/ Abandon(s)
        PROVE  row'.status \in Terminal \/ 1..(N - 1) \subseteq row'.done
    <3>1. Next
      BY Zenon, <2>3 DEF Next
    <3>2. CASE t = s
      <4>1. CASE pc[s] \in Committed /\ snap'[s] = snap[s]
        BY <2>2, <3>1, <3>2, <4>1
      <4>2. CASE row'.done = snap'[s].done
        BY Zenon, <3>2, <4>2, LastNode
      <4> QED
        BY Zenon, <2>3, <3>2, <4>1, <4>2, LateSlot, OneSlotPerWorker, TasksOnly
    <3>3. CASE t # s
      <4>1. pc'[t] = pc[t] /\ snap'[t] = snap[t]
        BY Zenon, <2>3, <3>3, OtherSlots
      <4> QED
        BY <2>2, <3>1, <4>1
    <3> QED
      BY <3>2, <3>3
  <2>4. CASE \/ LeaseExpires \/ TimerElapses \/ unpause \/ send_event \/ deliver_event
             \/ \E k \in SignalKinds : store_signal(k)
    <3>1. UNCHANGED <<pc, snap>>
      BY Zenon, <2>4 DEF LeaseExpires, TimerElapses, unpause, send_event, deliver_event,
                  store_signal, local
    <3> QED
      BY Zenon, <2>2, <2>4, <3>1 DEF Next
  <2> QED
    BY Zenon, <2>1, <2>3, <2>4 DEF Next
<1> QED
  BY <1>1, <1>2

-----------------------------------------------------------------------------
\* A step of a slot is a step of the lifecycle, or leaves status and results.
LEMMA SlotMoves ==
    ASSUME TasksOnly, TypeInv, CopyInv, FenceInv, LateInv, NEW s \in Slots,
           Work(s) \/ find_hinted_task(s) \/ run_with_heartbeat(s) \/ Abandon(s)
    PROVE  Run!Move \/ row' = row
<1>0. /\ snap[s] \in Snapshot /\ row \in Snapshot /\ task[s] \in Nodes
      /\ PointInv(pc[s], task[s], snap[s], hand[s]) /\ snap[s].kind = "AtTask"
      /\ row.status \notin Terminal => row.status \in Run!Active
  BY Zenon DEF TypeInv, TypeOK, CopyInv, FenceInv, NothingParked, Snapshot, Statuses,
         Terminal, Run!Active
<1>1. CASE \/ find_available_tasks(s) \/ find_hinted_task(s) \/ claim_task(s)
           \/ check_control_signals(s) \/ run_with_heartbeat(s) \/ consume_event(s)
           \/ release_task_claim(s) \/ Abandon(s)
  BY Zenon, <1>1 DEF find_available_tasks, find_hinted_task, claim_task,
              check_control_signals, run_with_heartbeat, consume_event,
              release_task_claim, Abandon, db
<1>2. CASE advance_delay(s) \/ drain_pending_signal(s)
  BY Zenon, <1>0, <1>2 DEF advance_delay, drain_pending_signal, PointInv
<1>3. CASE check_and_cancel(s)
  <2>1. CASE CanApply("Cancel") /\ row' = mark_cancelled(row)
    <3>1. row.status = "InProgress" /\ row'.status = "Cancelled" /\ row'.done = row.done
      BY <1>0, <2>1 DEF CanApply, mark_cancelled, Snapshot
    <3> QED
      BY <3>1 DEF Run!Move, Run!Cancel
  <2> QED
    BY <1>3, <2>1 DEF check_and_cancel, Apply
<1>4. CASE check_and_pause(s)
  <2>1. CASE CanApply("Pause") /\ row' = mark_paused(row)
    <3>1. row.status = "InProgress" /\ row'.status = "Paused" /\ row'.done = row.done
      BY <1>0, <2>1 DEF CanApply, mark_paused, Snapshot
    <3> QED
      BY <3>1 DEF Run!Move, Run!Pause
  <2> QED
    BY <1>4, <2>1 DEF check_and_pause, Apply
<1>5. CASE commit_task_result(s)
  <2> DEFINE r == TaskResult(snap[s], task[s])
  <2>1. row' # row => /\ pc[s] = "running" /\ Fenced(s)
                      /\ row.status \notin Terminal /\ row' = r
    BY Zenon, <1>5 DEF commit_task_result, exec_save_snapshot
  <2> SUFFICES ASSUME row' # row PROVE Run!Move
    OBVIOUS
  <2>2. /\ snap[s].done = 1..(task[s] - 1)
        /\ row.done = 1..(task[s] - 1) \/ (task[s] = N /\ row.done = 1..N)
    BY Zenon, <2>1, FencedRun
  <2>3. row'.status = "InProgress" /\ row'.done = 1..task[s]
    BY ZenonT(30), <1>0, <2>1, <2>2, CommitWrites DEF PointInv
  <2> HIDE DEF r
  <2>4. CASE row.done = 1..(task[s] - 1)
    BY Zenon, <1>0, <2>1, <2>3, <2>4, LastNode DEF Run!Move, Run!Record
  <2>5. CASE task[s] = N /\ row.done = 1..N
    BY Zenon, <1>0, <2>1, <2>3, <2>5 DEF Run!Move, Run!Retry, Run!Kept
  <2> QED
    BY Zenon, <2>2, <2>4, <2>5
<1>6. CASE settle_failure(s)
  <2>1. row' # row => /\ pc[s] = "running" /\ Fenced(s)
                      /\ row.status \notin Terminal /\ row' = FailedSnapshot(s)
    BY Zenon, <1>6 DEF settle_failure, exec_save_snapshot
  <2> SUFFICES ASSUME row' # row PROVE Run!Move
    OBVIOUS
  <2>2. /\ snap[s].done = 1..(task[s] - 1)
        /\ row.done = 1..(task[s] - 1) \/ (task[s] = N /\ row.done = 1..N)
    BY Zenon, <2>1, FencedRun
  <2>3. row'.status \in {"InProgress", "Failed"} /\ row'.done = snap[s].done
    BY Zenon, <1>0, <2>1 DEF FailedSnapshot, record_retry, mark_failed, PointInv, Snapshot
  <2>4. Run!Kept
    BY Zenon, <2>2, <2>3 DEF Run!Kept
  <2> QED
    BY Zenon, <1>0, <2>1, <2>3, <2>4 DEF Run!Move, Run!Retry, Run!Fail
<1>7. CASE determine_post_task_status(s)
  <2>1. row' # row => /\ pc[s] = "complete" /\ snap[s].done = Nodes
                      /\ row.status \notin Terminal /\ row' = mark_completed(snap[s])
    BY Zenon, <1>7 DEF determine_post_task_status, exec_save_snapshot, is_workflow_complete
  <2> SUFFICES ASSUME row' # row PROVE Run!Move
    OBVIOUS
  <2>2. row'.status = "Completed" /\ row'.done = 1..N
    BY <1>0, <2>1, KeptFields, LastNode
  <2>3. row.done \in {1..(N - 1), 1..N}
    <3>1. 1..(N - 1) \subseteq row.done /\ row.done \in SUBSET Nodes
      BY Zenon, <1>0, <2>1 DEF LateInv, Committed, Snapshot
    <3> QED
      BY Zenon, <3>1, LastNode
  <2> QED
    BY Zenon, <1>0, <2>1, <2>2, <2>3 DEF Run!Move, Run!Complete
<1> QED
  BY Zenon, <1>1, <1>2, <1>3, <1>4, <1>5, <1>6, <1>7 DEF Work

\* The fleet implements the lifecycle: for every chain of tasks, whatever the
\* number of workers, the lapsed leases and the crashes, the row goes through
\* a sequential run of the workflow.
THEOREM FleetIsSequential ==
    ASSUME OneSlotPerWorker, TasksOnly
    PROVE  Spec => ImplementsLifecycle
<1>1. Init => Run!Start
  BY DEF Init, FreshSnapshot, Run!Start
<1>2. TypeInv /\ CopyInv /\ FenceInv /\ LateInv /\ [Next]_vars
         => [Run!Move]_(Run!lifecycle)
  <2> SUFFICES ASSUME TypeInv, CopyInv, FenceInv, LateInv, [Next]_vars
               PROVE  Run!Move \/ (row'.status = row.status /\ row'.done = row.done)
    BY DEF Run!lifecycle
  <2>0. row \in Snapshot /\ row.kind = "AtTask"
    BY DEF TypeInv, TypeOK, FenceInv, NothingParked
  <2>1. ASSUME NEW s \in Slots,
               Work(s) \/ find_hinted_task(s) \/ run_with_heartbeat(s) \/ Abandon(s)
        PROVE  Run!Move \/ row' = row
    BY <2>1, SlotMoves, TasksOnly
  <2>2. CASE TimerElapses
    BY <2>0, <2>2, KeptFields DEF TimerElapses, Snapshot
  <2>3. CASE unpause
    <3>1. row.status = "Paused" /\ row'.status = "InProgress" /\ row'.done = row.done
      BY <2>0, <2>3 DEF unpause, mark_unpaused, Snapshot
    <3> QED
      BY Zenon, <3>1 DEF Run!Move, Run!Unpause
  <2>4. CASE LeaseExpires \/ send_event \/ deliver_event
             \/ \E k \in SignalKinds : store_signal(k)
    BY Zenon, <2>0, <2>4 DEF LeaseExpires, send_event, deliver_event, store_signal,
                      signal_resume_target, db
  <2>5. CASE UNCHANGED vars
    BY <2>5 DEF vars
  <2> QED
    BY Zenon, <2>1, <2>2, <2>3, <2>4, <2>5 DEF Next
<1> QED
  BY <1>1, <1>2, TypeInductive, CopyInductive, FenceInductive, LateInductive,
     OneSlotPerWorker, TasksOnly, PTL
  DEF Spec, ImplementsLifecycle, Run!Spec

-----------------------------------------------------------------------------
(* Positions.                                                              *)

\* The chain starts with a task, and what follows a park is a task.
ParksApart ==
    /\ Chain[1] = "task"
    /\ \A n \in Nodes : n # N /\ Chain[n] # "task" => Chain[n + 1] = "task"

\* The kind of position fits the node it names.
Fits(r) ==
    r.status \notin Terminal =>
        /\ r.kind = "AtTask" => Chain[r.node] = "task"
        /\ r.kind = "AtDelay" => Chain[r.node] = "delay"
        /\ r.kind = "AtSignal" => Chain[r.node] = "signal"

\* It does in the row and in every copy, however stale.
FitInv == Fits(row) /\ \A s \in Slots : Fits(snap[s])

\* The operations that leave the position alone.
LEMMA FitStatus ==
    ASSUME NEW r \in Snapshot, Fits(r), r.status \notin Terminal
    PROVE  /\ Fits(mark_completed(r)) /\ Fits(mark_failed(r)) /\ Fits(mark_cancelled(r))
           /\ Fits(mark_paused(r)) /\ Fits(mark_unpaused(r))
           /\ Fits(record_retry(r)) /\ Fits([r EXCEPT !.due = TRUE])
BY DEF mark_completed, mark_failed, mark_cancelled, mark_paused, mark_unpaused,
       record_retry, Fits, Snapshot, Terminal

\* Leaving a park.
LEMMA FitPark ==
    ASSUME ParksApart, NEW r \in Snapshot, Fits(r), r.status = "InProgress",
           r.kind # "AtTask"
    PROVE  Fits(LeavePark(r)) /\ Fits(ResumeSignal(r))
<1> DEFINE m == mark_task_completed(r, r.node)
<1>1. r.node \in Nodes /\ Chain[r.node] # "task" /\ r.status \notin Terminal
  BY DEF Fits, Snapshot, Terminal
<1>2. /\ m \in Snapshot /\ Fits(m) /\ m.status = r.status
      /\ m.kind = r.kind /\ m.node = r.node
  <2>1. m \in Snapshot
    BY Zenon, <1>1, OperationTypes
  <2>2. m.status = r.status /\ m.kind = r.kind /\ m.node = r.node
    BY DEF mark_task_completed, Snapshot
  <2> QED
    BY Zenon, <2>1, <2>2 DEF Fits
<1>3. ASSUME NEW q \in Snapshot, q.status = r.status, q.node = r.node
      PROVE  Fits(LeavePark(q))
  <2>1. CASE q.node = N
    BY <1>3, <2>1 DEF LeavePark, mark_completed, Fits, Snapshot, Terminal
  <2>2. CASE q.node # N
    <3>1. Chain[q.node + 1] = "task"
      BY <1>1, <1>3, <2>2 DEF ParksApart
    <3> QED
      BY <1>3, <2>2, <3>1 DEF LeavePark, Fits, Snapshot
  <2> QED
    BY <2>1, <2>2
<1> QED
  BY <1>2, <1>3 DEF ResumeSignal

\* A successful run.
LEMMA FitCommit ==
    ASSUME NEW r \in Snapshot, Fits(r), r.status = "InProgress", NEW n \in Nodes
    PROVE  Fits(TaskResult(r, n))
<1> DEFINE m == [mark_task_completed(r, n) EXCEPT !.att = 0, !.due = TRUE]
<1>1. m \in Snapshot /\ m.status = r.status /\ m.kind = r.kind /\ m.node = r.node
  <2>1. m \in Snapshot
    BY Zenon, OperationTypes
  <2>2. m.status = r.status /\ m.kind = r.kind /\ m.node = r.node
    BY DEF mark_task_completed, Snapshot
  <2> QED
    BY <2>1, <2>2
<1>2. TaskResult(r, n) = update_position_after_task(m, n)
  BY DEF TaskResult
<1> HIDE DEF m
<1>3. CASE n = N
  BY Zenon, <1>1, <1>2, <1>3 DEF update_position_after_task, Fits
<1>4. CASE n # N
  <2>1. n + 1 \in Nodes /\ TaskResult(r, n) = set_position_at(m, n + 1)
    BY <1>2, <1>4, ChainFacts DEF update_position_after_task
  <2>2. Chain[n + 1] \in {"task", "delay", "signal"}
    BY <2>1, PoolAssumption DEF PoolAssumption, Nodes, N
  <2>3. CASE Chain[n + 1] = "delay"
    <3>1. /\ TaskResult(r, n).kind = "AtDelay" /\ TaskResult(r, n).node = n + 1
      BY Zenon, <1>1, <2>1, <2>3 DEF set_position_at, mark_task_completed, Snapshot
    <3> QED
      BY Zenon, <2>3, <3>1 DEF Fits
  <2>4. CASE Chain[n + 1] = "signal"
    <3>1. /\ TaskResult(r, n).kind = "AtSignal" /\ TaskResult(r, n).node = n + 1
      BY Zenon, <1>1, <2>1, <2>4 DEF set_position_at, Snapshot
    <3> QED
      BY Zenon, <2>4, <3>1 DEF Fits
  <2>5. CASE Chain[n + 1] = "task"
    <3>1. /\ TaskResult(r, n).kind = "AtTask" /\ TaskResult(r, n).node = n + 1
      BY Zenon, <1>1, <2>1, <2>5 DEF set_position_at, Snapshot
    <3> QED
      BY Zenon, <2>5, <3>1 DEF Fits
  <2> QED
    BY <2>2, <2>3, <2>4, <2>5
<1> QED
  BY <1>3, <1>4

-----------------------------------------------------------------------------
\* What a step of slot s writes to the row and to its copy fits.
LEMMA FitSlot ==
    ASSUME ParksApart, TypeInv, CopyInv, FitInv, NEW s \in Slots,
           Work(s) \/ find_hinted_task(s) \/ run_with_heartbeat(s) \/ Abandon(s)
    PROVE  Fits(row') /\ Fits(snap'[s])
<1>0. /\ snap \in [Slots -> Snapshot] /\ snap[s] \in Snapshot /\ row \in Snapshot
      /\ task[s] \in Nodes /\ Fits(row) /\ Fits(snap[s])
      /\ PointInv(pc[s], task[s], snap[s], hand[s])
  BY Zenon DEF TypeInv, TypeOK, CopyInv, FitInv
<1>1. ASSUME NEW r, snap' = [snap EXCEPT ![s] = r] PROVE snap'[s] = r
  BY ZenonT(30), <1>0, <1>1
<1>2. EndDispatch(s) => Fits(snap'[s])
  BY <1>0, <1>1 DEF EndDispatch, FreshSnapshot, Fits, ParksApart
<1>3. CASE \/ find_available_tasks(s) \/ find_hinted_task(s) \/ claim_task(s)
           \/ check_control_signals(s) \/ run_with_heartbeat(s) \/ consume_event(s)
           \/ release_task_claim(s) \/ Abandon(s)
  <2>1. row' = row
    BY Zenon, <1>3 DEF find_available_tasks, find_hinted_task, claim_task,
                check_control_signals, run_with_heartbeat, consume_event,
                release_task_claim, Abandon, db
  <2>2. snap' = [snap EXCEPT ![s] = row] \/ snap' = snap \/ EndDispatch(s)
    BY Zenon, <1>3 DEF find_available_tasks, find_hinted_task, claim_task,
                check_control_signals, run_with_heartbeat, consume_event,
                release_task_claim, Abandon, Dispatch, local
  <2> QED
    BY Zenon, <1>0, <1>1, <1>2, <2>1, <2>2
<1>4. CASE check_and_cancel(s) \/ check_and_pause(s)
  <2>1. snap' = snap \/ EndDispatch(s)
    BY <1>4 DEF check_and_cancel, check_and_pause
  <2>2. \/ row' = row
        \/ row.status = "InProgress" /\ row' \in {mark_cancelled(row), mark_paused(row)}
    BY Zenon, <1>4 DEF check_and_cancel, check_and_pause, Apply, CanApply
  <2> QED
    BY Zenon, <1>0, <1>2, <2>1, <2>2, FitStatus DEF Terminal
<1>5. ASSUME NEW r, exec_save_snapshot(r), Fits(r),
             snap' = [snap EXCEPT ![s] = r] \/ snap' = snap \/ EndDispatch(s)
      PROVE  Fits(row') /\ Fits(snap'[s])
  <2>1. row' = row \/ row' = r
    BY <1>5 DEF exec_save_snapshot
  <2> QED
    BY Zenon, <1>0, <1>1, <1>2, <1>5, <2>1
<1>6. CASE advance_delay(s)
  <2> DEFINE r == LeavePark(snap[s])
  <2>1. Fits(r)
    BY Zenon, <1>0, <1>6, FitPark DEF advance_delay, PointInv
  <2>2. /\ exec_save_snapshot(r)
        /\ snap' = [snap EXCEPT ![s] = r] \/ EndDispatch(s)
    BY Zenon, <1>6 DEF advance_delay, Dispatch
  <2> HIDE DEF r
  <2> QED
    BY <1>5, <2>1, <2>2
<1>7. CASE commit_task_result(s)
  <2> DEFINE r == TaskResult(snap[s], task[s])
  <2>1. Fits(r)
    BY Zenon, <1>0, <1>7, FitCommit DEF commit_task_result, PointInv
  <2>2. \/ exec_save_snapshot(r) /\ snap' = [snap EXCEPT ![s] = r]
        \/ row' = row /\ EndDispatch(s)
    BY Zenon, <1>7 DEF commit_task_result
  <2> HIDE DEF r
  <2> QED
    BY Zenon, <1>0, <1>2, <1>5, <2>1, <2>2
<1>8. CASE settle_failure(s)
  <2>1. Fits(FailedSnapshot(s))
    BY Zenon, <1>0, <1>8, FitStatus DEF settle_failure, FailedSnapshot, PointInv, Terminal
  <2>2. /\ exec_save_snapshot(FailedSnapshot(s)) \/ row' = row
        /\ snap' = snap
    BY Zenon, <1>8 DEF settle_failure
  <2> QED
    BY Zenon, <1>0, <1>5, <2>1, <2>2
<1>9. CASE drain_pending_signal(s)
  <2> DEFINE r == ResumeSignal(snap[s])
  <2>1. Fits(r)
    BY Zenon, <1>0, <1>9, FitPark DEF drain_pending_signal, PointInv
  <2>2. exec_save_snapshot(r) /\ snap' = [snap EXCEPT ![s] = r]
    BY Zenon, <1>9 DEF drain_pending_signal
  <2> HIDE DEF r
  <2> QED
    BY Zenon, <1>5, <2>1, <2>2
<1>10. CASE determine_post_task_status(s)
  <2>1. \/ row' = row
        \/ snap[s].status = "InProgress" /\ exec_save_snapshot(mark_completed(snap[s]))
    BY Zenon, <1>10 DEF determine_post_task_status, is_workflow_complete
  <2>2. EndDispatch(s)
    BY <1>10 DEF determine_post_task_status
  <2> QED
    BY Zenon, <1>0, <1>2, <1>5, <2>1, <2>2, FitStatus DEF Terminal
<1> QED
  BY Zenon, <1>3, <1>4, <1>6, <1>7, <1>8, <1>9, <1>10 DEF Work

\* FitInv is inductive.
LEMMA FitInductive ==
    ASSUME ParksApart
    PROVE  /\ Init => FitInv
           /\ TypeInv /\ CopyInv /\ FitInv /\ [Next]_vars => FitInv'
<1>1. Init => FitInv
  BY DEF Init, FitInv, Fits, FreshSnapshot, ParksApart
<1>2. TypeInv /\ CopyInv /\ FitInv /\ [Next]_vars => FitInv'
  <2> SUFFICES ASSUME TypeInv, CopyInv, FitInv, [Next]_vars
               PROVE  FitInv'
    OBVIOUS
  <2>0. row \in Snapshot /\ Fits(row)
    BY Zenon DEF TypeInv, TypeOK, FitInv
  <2>1. ASSUME NEW s \in Slots,
               Work(s) \/ find_hinted_task(s) \/ run_with_heartbeat(s) \/ Abandon(s)
        PROVE  FitInv'
    <3>1. Fits(row') /\ Fits(snap'[s])
      BY <2>1, FitSlot, ParksApart
    <3>2. \A t \in Slots : t # s => snap'[t] = snap[t]
      BY Zenon, <2>1, OtherSlots
    <3> QED
      BY ZenonT(30), <3>1, <3>2 DEF FitInv, Fits
  <2>2. CASE \/ LeaseExpires \/ TimerElapses \/ unpause \/ send_event \/ deliver_event
             \/ \E k \in SignalKinds : store_signal(k)
    <3>1. snap' = snap
      BY Zenon, <2>2 DEF LeaseExpires, TimerElapses, unpause, send_event, deliver_event,
                  store_signal, local
    <3>2. CASE TimerElapses \/ unpause
      BY Zenon, <2>0, <3>1, <3>2, FitStatus DEF TimerElapses, unpause, FitInv, Terminal
    <3>3. CASE deliver_event
      <4>1. row' = row \/ (signal_resume_target /\ row' = ResumeSignal(row))
        BY <3>3 DEF deliver_event
      <4>2. Fits(row')
        BY <2>0, <4>1, FitPark, ParksApart DEF signal_resume_target
      <4> QED
        BY <3>1, <4>2 DEF FitInv
    <3>4. CASE LeaseExpires \/ send_event \/ \E k \in SignalKinds : store_signal(k)
      <4>1. row' = row
        BY <3>4 DEF LeaseExpires, send_event, store_signal, db
      <4> QED
        BY <3>1, <4>1 DEF FitInv
    <3> QED
      BY <2>2, <3>2, <3>3, <3>4
  <2>3. CASE UNCHANGED vars
    BY <2>3 DEF vars, FitInv
  <2> QED
    BY Zenon, <2>1, <2>2, <2>3 DEF Next
<1> QED
  BY <1>1, <1>2

\* Where parks are apart, the row never names as a task what is none: no chain
\* of stale saves, resumed signals and elapsed delays leads there.
THEOREM NoPhantom ==
    ASSUME ParksApart
    PROVE  Spec => []NoPhantomTask
<1>1. FitInv => NoPhantomTask
  BY Zenon DEF FitInv, Fits, NoPhantomTask, Terminal
<1> QED
  BY <1>1, TypeInductive, CopyInductive, FitInductive, ParksApart, PTL DEF Spec

-----------------------------------------------------------------------------
(* Buffered events.                                                        *)

\* Clients cancel workflows but do not pause them.
NoPauses == "Pause" \notin SignalKinds

\* A slot whose next step takes an event that is buffered out of the table, or
\* saves the one it took.
Draining(s) ==
    \/ pc[s] = "drain" /\ snap[s].status = "InProgress" /\ snap[s].kind = "AtSignal"
    \/ pc[s] = "drainSave"

\* Without pauses a client buffers an event unseen only when the workflow has
\* ended, and a row is parked on a signal only by a slot that goes on to drain.
DrainInv ==
    /\ "Pause" \notin signals
    /\ row.status # "Paused" /\ \A s \in Slots : snap[s].status # "Paused"
    /\ sender = "buffer" => row.status \in Terminal
    /\ signal_resume_target /\ events # <<>> /\ abandons = 0
          => \E s \in Slots : Draining(s)

\* No operation on a snapshot but mark_paused pauses it, and one that leaves a
\* park parks nowhere.
LEMMA UnpausedOps ==
    ASSUME NEW r \in Snapshot, r.status = "InProgress", NEW n \in Nodes
    PROVE  /\ LeavePark(r).status # "Paused" /\ ResumeSignal(r).status # "Paused"
           /\ TaskResult(r, n).status # "Paused"
           /\ \A q \in {LeavePark(r), ResumeSignal(r)} :
                 q.status = "InProgress" => q.kind = "AtTask"
<1>1. /\ LeavePark(r).status # "Paused"
      /\ LeavePark(r).status = "InProgress" => LeavePark(r).kind = "AtTask"
  BY DEF LeavePark, mark_completed, Snapshot
<1>2. /\ mark_task_completed(r, r.node) \in Snapshot
      /\ mark_task_completed(r, r.node).status = "InProgress"
  BY ZenonT(30), OperationTypes DEF mark_task_completed, Snapshot
<1>3. /\ ResumeSignal(r).status # "Paused"
      /\ ResumeSignal(r).status = "InProgress" => ResumeSignal(r).kind = "AtTask"
  BY <1>2 DEF ResumeSignal, LeavePark, mark_completed, Snapshot
<1>4. TaskResult(r, n).status # "Paused"
  BY DEF TaskResult, update_position_after_task, set_position_at,
         mark_task_completed, Snapshot
<1> QED
  BY <1>1, <1>3, <1>4

\* What a step of slot s does to the row, the events and the slots, as far as
\* the drain goes: a row that is parked on a signal either was so before, or s
\* has just parked it; and s stops draining only when there is nothing to drain.
LEMMA DrainSlot ==
    ASSUME TypeInv, CopyInv, DrainInv, NEW s \in Slots,
           Work(s) \/ find_hinted_task(s) \/ run_with_heartbeat(s) \/ Abandon(s)
    PROVE  /\ row'.status # "Paused" /\ snap'[s].status # "Paused"
           /\ sender' = sender
           /\ row.status \in Terminal => row' = row
           /\ signal_resume_target' /\ events' # <<>> /\ abandons' = 0 =>
                 \/ Draining(s)'
                 \/ /\ signal_resume_target /\ events # <<>> /\ abandons = 0
                    /\ ~Draining(s)
<1>0. /\ snap \in [Slots -> Snapshot] /\ snap[s] \in Snapshot /\ row \in Snapshot
      /\ pc \in [Slots -> PCs] /\ task[s] \in Nodes /\ abandons \in Nat
      /\ row.status # "Paused" /\ snap[s].status # "Paused"
      /\ PointInv(pc[s], task[s], snap[s], hand[s])
  BY PoolAssumption DEF TypeInv, TypeOK, CopyInv, DrainInv, PoolAssumption
<1>1. sender' = sender
  BY Zenon DEF Work, find_available_tasks, advance_delay, claim_task,
         check_control_signals, check_and_cancel, check_and_pause,
         commit_task_result, settle_failure, consume_event, drain_pending_signal,
         release_task_claim, determine_post_task_status, find_hinted_task,
         run_with_heartbeat, Abandon, client
<1>2. ASSUME NEW r, snap' = [snap EXCEPT ![s] = r] PROVE snap'[s] = r
  BY Zenon, <1>0, <1>2
<1>3. ASSUME NEW l, Goto(s, l) PROVE pc'[s] = l
  BY Zenon, <1>0, <1>3 DEF Goto
<1>4. EndDispatch(s) => snap'[s].status # "Paused" /\ ~Draining(s)'
  <2> SUFFICES ASSUME EndDispatch(s)
               PROVE  snap'[s].status # "Paused" /\ ~Draining(s)'
    BY Zenon
  <2>1. snap'[s] = FreshSnapshot /\ pc'[s] = "idle"
    BY Zenon, <1>2, <1>3 DEF EndDispatch
  <2> QED
    BY <2>1 DEF FreshSnapshot, Draining
<1>5. CASE \/ find_available_tasks(s) \/ find_hinted_task(s) \/ claim_task(s)
           \/ check_control_signals(s) \/ run_with_heartbeat(s)
           \/ release_task_claim(s)
  <2>1. row' = row /\ events' = events /\ abandons' = abandons
    BY Zenon, <1>5 DEF find_available_tasks, find_hinted_task, claim_task,
                check_control_signals, run_with_heartbeat, release_task_claim, db
  <2>2. snap' = [snap EXCEPT ![s] = row] \/ snap' = snap \/ EndDispatch(s)
    BY Zenon, <1>5 DEF find_available_tasks, find_hinted_task, claim_task,
                check_control_signals, run_with_heartbeat, release_task_claim,
                Dispatch, local
  <2>3. ~Draining(s)
    BY ZenonT(30), <1>5 DEF find_available_tasks, find_hinted_task, claim_task, Draining,
                check_control_signals, run_with_heartbeat, release_task_claim
  <2> QED
    BY Zenon, <1>0, <1>1, <1>2, <1>4, <2>1, <2>2, <2>3 DEF signal_resume_target
<1>6. CASE Abandon(s)
  BY <1>0, <1>1, <1>4, <1>6 DEF Abandon, db
<1>7. CASE check_and_cancel(s) \/ check_and_pause(s)
  <2>1. snap' = snap \/ EndDispatch(s)
    BY Zenon, <1>7 DEF check_and_cancel, check_and_pause
  <2>2. /\ events' = events /\ abandons' = abandons /\ ~Draining(s)
        /\ \/ row' = row
           \/ row.status = "InProgress" /\ row' = mark_cancelled(row)
    BY Zenon, <1>7 DEF check_and_cancel, check_and_pause, Apply, CanApply, Draining, DrainInv
  <2>3. mark_cancelled(row).status = "Cancelled"
    BY Zenon, <1>0 DEF mark_cancelled, Snapshot
  <2> QED
    BY Zenon, <1>0, <1>1, <1>4, <2>1, <2>2, <2>3 DEF signal_resume_target, Terminal
<1>8. ASSUME NEW r, exec_save_snapshot(r), r.status # "Paused"
      PROVE  /\ row'.status # "Paused" /\ (row.status \in Terminal => row' = row)
             /\ signal_resume_target' => r.status = "InProgress" /\ r.kind = "AtSignal"
                                         /\ row' = r
  BY Zenon, <1>0, <1>8 DEF exec_save_snapshot, signal_resume_target, Terminal
<1>9. CASE advance_delay(s) \/ drain_pending_signal(s)
  <2> DEFINE r == IF pc[s] = "advance" THEN LeavePark(snap[s]) ELSE ResumeSignal(snap[s])
  <2>1. /\ r.status # "Paused" /\ (r.status = "InProgress" => r.kind = "AtTask")
    BY Zenon, <1>0, <1>9, UnpausedOps DEF advance_delay, drain_pending_signal, PointInv
  <2>2. /\ exec_save_snapshot(r)
        /\ snap' = [snap EXCEPT ![s] = r] \/ EndDispatch(s)
    BY Zenon, <1>9 DEF advance_delay, drain_pending_signal, Dispatch
  <2> HIDE DEF r
  <2> QED
    BY Zenon, <1>1, <1>2, <1>4, <1>8, <2>1, <2>2
<1>10. CASE commit_task_result(s)
  <2> DEFINE r == TaskResult(snap[s], task[s])
  <2>1. r.status # "Paused" /\ ~Draining(s)
    BY Zenon, <1>0, <1>10, UnpausedOps DEF commit_task_result, PointInv, Draining
  <2>2. /\ events' = events /\ abandons' = abandons
        /\ \/ exec_save_snapshot(r) /\ snap' = [snap EXCEPT ![s] = r] /\ Goto(s, "drain")
           \/ row' = row /\ EndDispatch(s)
    BY Zenon, <1>10 DEF commit_task_result
  <2> HIDE DEF r
  <2>3. CASE exec_save_snapshot(r) /\ snap' = [snap EXCEPT ![s] = r] /\ Goto(s, "drain")
    <3>1. snap'[s] = r /\ pc'[s] = "drain"
      BY Zenon, <1>2, <1>3, <2>3
    <3> QED
      BY Zenon, <1>1, <1>8, <2>1, <2>3, <3>1 DEF Draining
  <2>4. CASE row' = row /\ EndDispatch(s)
    BY Zenon, <1>0, <1>1, <1>4, <2>1, <2>2, <2>4 DEF signal_resume_target
  <2> QED
    BY Zenon, <2>2, <2>3, <2>4
<1>11. CASE settle_failure(s)
  <2>1. FailedSnapshot(s).status # "Paused"
        /\ (FailedSnapshot(s).status = "InProgress" => FailedSnapshot(s).kind = "AtTask")
    BY ZenonT(30), <1>0, <1>11 DEF settle_failure, FailedSnapshot, record_retry, mark_failed,
                       PointInv, Snapshot
  <2>2. /\ events' = events /\ snap' = snap /\ ~Draining(s)
        /\ \/ exec_save_snapshot(FailedSnapshot(s)) \/ row' = row
        /\ abandons' = abandons \/ abandons' # 0
    BY <1>0, <1>11 DEF settle_failure, Draining
  <2> QED
    BY Zenon, <1>0, <1>1, <1>8, <2>1, <2>2 DEF signal_resume_target
<1>12. CASE consume_event(s)
  <2>1. /\ row' = row /\ snap' = snap /\ abandons' = abandons
        /\ \/ Goto(s, "drainSave")
           \/ events' = events /\ (events = <<>> \/ ~Draining(s))
    BY Zenon, <1>12 DEF consume_event, Draining
  <2> QED
    BY Zenon, <1>0, <1>1, <1>3, <2>1 DEF Draining, signal_resume_target
<1>13. CASE determine_post_task_status(s)
  <2>1. /\ events' = events /\ abandons' = abandons /\ ~Draining(s) /\ EndDispatch(s)
        /\ row' = row \/ exec_save_snapshot(mark_completed(snap[s]))
    BY Zenon, <1>13 DEF determine_post_task_status, Draining
  <2>2. mark_completed(snap[s]).status = "Completed"
    BY <1>0 DEF mark_completed, Snapshot
  <2> QED
    BY Zenon, <1>0, <1>1, <1>4, <1>8, <2>1, <2>2 DEF signal_resume_target
<1> QED
  BY ZenonT(30), <1>5, <1>6, <1>7, <1>9, <1>10, <1>11, <1>12, <1>13 DEF Work

\* Without pauses nobody stores a pause.
LEMMA NoPauseStored ==
    ASSUME NoPauses, "Pause" \notin signals, [Next]_vars
    PROVE  "Pause" \notin signals'
<1>1. signals' \subseteq signals \cup SignalKinds
  BY ZenonT(30) DEF Next, Work, find_available_tasks, advance_delay, claim_task,
         check_control_signals, check_and_cancel, check_and_pause, Apply,
         commit_task_result, settle_failure, consume_event, drain_pending_signal,
         release_task_claim, determine_post_task_status, find_hinted_task,
         run_with_heartbeat, Abandon, LeaseExpires, TimerElapses, store_signal,
         unpause, send_event, deliver_event, vars, db
<1> QED
  BY <1>1 DEF NoPauses

\* DrainInv is inductive.
LEMMA DrainInductive ==
    ASSUME NoPauses
    PROVE  /\ Init => DrainInv
           /\ TypeInv /\ CopyInv /\ DrainInv /\ [Next]_vars => DrainInv'
<1>1. Init => DrainInv
  BY DEF Init, DrainInv, FreshSnapshot, signal_resume_target
<1>2. ASSUME TypeInv, CopyInv, DrainInv, [Next]_vars
      PROVE  DrainInv'
  <2>p. "Pause" \notin signals'
    BY Zenon, <1>2, NoPauses, NoPauseStored DEF DrainInv
  <2>0. row \in Snapshot /\ row.status # "Paused"
    BY Zenon, <1>2 DEF TypeInv, TypeOK, DrainInv
  <2>1. ASSUME NEW s \in Slots,
               Work(s) \/ find_hinted_task(s) \/ run_with_heartbeat(s) \/ Abandon(s)
        PROVE  DrainInv'
    <3>1. \A t \in Slots : t # s => pc'[t] = pc[t] /\ snap'[t] = snap[t]
      BY Zenon, <1>2, <2>1, OtherSlots
    <3>2. ASSUME NEW t \in Slots, Draining(t), ~Draining(s) PROVE Draining(t)'
      BY Zenon, <3>1, <3>2 DEF Draining
    <3>3. /\ row'.status # "Paused" /\ snap'[s].status # "Paused"
          /\ sender' = sender /\ (row.status \in Terminal => row' = row)
          /\ signal_resume_target' /\ events' # <<>> /\ abandons' = 0 =>
                \/ Draining(s)'
                \/ /\ signal_resume_target /\ events # <<>> /\ abandons = 0
                   /\ ~Draining(s)
      BY Zenon, <1>2, <2>1, DrainSlot
    <3>4. /\ \A t \in Slots : snap'[t].status # "Paused"
          /\ sender' = "buffer" => row'.status \in Terminal
      BY Zenon, <1>2, <3>1, <3>3 DEF DrainInv
    <3>5. signal_resume_target' /\ events' # <<>> /\ abandons' = 0
             => \E t \in Slots : Draining(t)'
      BY Zenon, <1>2, <3>2, <3>3 DEF DrainInv
    <3> QED
      BY Zenon, <2>p, <3>3, <3>4, <3>5 DEF DrainInv
  <2>2. CASE LeaseExpires \/ \E k \in SignalKinds : store_signal(k)
    BY <1>2, <2>p, <2>2 DEF LeaseExpires, store_signal, local, client, DrainInv, Draining,
                      signal_resume_target
  <2>3. CASE TimerElapses
    <3>1. row'.status = row.status /\ row'.kind = row.kind
      BY <2>0, <2>3 DEF TimerElapses, Snapshot
    <3> QED
      BY <1>2, <2>p, <2>3, <3>1 DEF TimerElapses, local, client, DrainInv, Draining,
                              signal_resume_target
  <2>4. CASE unpause
    BY <2>0, <2>4 DEF unpause
  <2>5. CASE send_event
    <3>1. sender' = "buffer" => row.status \in Terminal
      BY <2>0, <2>5 DEF send_event, Snapshot, Statuses
    <3> QED
      BY Zenon, <1>2, <2>p, <2>5, <3>1 DEF send_event, local, db, DrainInv, Draining,
                              signal_resume_target
  <2>6. CASE deliver_event
    <3>1. sender' = "idle" /\ UNCHANGED <<abandons, pc, snap>>
      BY Zenon, <2>6 DEF deliver_event, local
    <3>2. CASE sender = "lock" /\ signal_resume_target
      <4>1. row' = ResumeSignal(row)
        BY <2>6, <3>2 DEF deliver_event
      <4>2. row'.status # "Paused" /\ ~signal_resume_target'
        BY Zenon, <2>0, <3>2, <4>1, ChainFacts, UnpausedOps DEF signal_resume_target
      <4> QED
        BY Zenon, <1>2, <2>p, <3>1, <4>2 DEF DrainInv
    <3>3. CASE ~(sender = "lock" /\ signal_resume_target)
      <4>1. row' = row
        BY Zenon, <2>6, <3>3 DEF deliver_event
      <4>2. ~signal_resume_target
        BY Zenon, <1>2, <2>p, <2>6, <3>3
        DEF deliver_event, DrainInv, TypeInv, TypeOK, signal_resume_target, Terminal
      <4> QED
        BY Zenon, <1>2, <2>p, <3>1, <4>1, <4>2 DEF DrainInv, signal_resume_target
    <3> QED
      BY <3>2, <3>3
  <2>7. CASE UNCHANGED vars
    BY Zenon, <1>2, <2>p, <2>7 DEF vars, DrainInv, Draining, signal_resume_target
  <2> QED
    BY Zenon, <1>2, <2>p, <2>1, <2>2, <2>3, <2>4, <2>5, <2>6, <2>7 DEF Next
<1> QED
  BY <1>1, <1>2

\* Unless workflows are paused, a parked workflow whose event is buffered has a
\* slot about to drain it, however the probe and the locked step of send_event,
\* stale commits and lapsed leases interleave.  (An event that is buffered
\* while the workflow is paused is stranded by the unpause.)
THEOREM EventsDrained ==
    ASSUME NoPauses
    PROVE  Spec => []NoStrandedEvent
<1>1. DrainInv => NoStrandedEvent
  BY Zenon DEF DrainInv, NoStrandedEvent, Draining
<1> QED
  BY <1>1, TypeInductive, CopyInductive, DrainInductive, NoPauses, PTL DEF Spec

-----------------------------------------------------------------------------
(* Delays.                                                                 *)

\* Node d is the only delay: tasks alone come before it, and something after.
LoneDelay(d) ==
    /\ d \in Nodes \ {1, N} /\ Chain[d] = "delay"
    /\ \A n \in Nodes : n < d => Chain[n] = "task"
    /\ \A n \in Nodes : n > d => Chain[n] # "delay"

\* A snapshot is at the delay exactly when its position names node d, and
\* waits for signals only after it.
Sited(d, r) ==
    /\ r.kind = "AtDelay" <=> r.node = d
    /\ r.kind = "AtSignal" => r.node > d

\* The workflow is past the delay, or has ended.
Passed(d) == row.node > d \/ row.status \in Terminal

\* A copy past the delay means that the row is; a slot that advances past it
\* read an elapsed delay; and once the delay is reached, nobody who can write
\* behind the fence is at a task before it.
DelayInv(d) ==
    /\ Sited(d, row) /\ \A s \in Slots : Sited(d, snap[s])
    /\ \A s \in Slots :
          /\ snap[s].node > d => Passed(d)
          /\ pc[s] = "advance" => Passed(d) \/ (row.node = d /\ row.due)
          /\ pc[s] \in Uncommitted /\ Owns(s) =>
                row.node < d \/ row.status \in Terminal \/ task[s] > d

\* The operations on the snapshots of such a chain.
LEMMA SitedOps ==
    ASSUME NEW d, LoneDelay(d), NEW r \in Snapshot, Sited(d, r)
    PROVE  /\ r.kind # "AtTask" =>
                 \A q \in {LeavePark(r), ResumeSignal(r)} : Sited(d, q) /\ q.node > d
           /\ \A n \in Nodes : r.kind = "AtTask" /\ r.node = n =>
                 /\ Sited(d, TaskResult(r, n))
                 /\ n > d => TaskResult(r, n).node > d
                 /\ n < d => TaskResult(r, n).node <= d
<1>0. /\ d \in Nat /\ d > 1 /\ d < N /\ N \in Nat /\ r.node \in Nat /\ r.node <= N
      /\ r.node \in Nodes
  BY ChainFacts DEF LoneDelay, Nodes, Snapshot
<1>1. ASSUME r.kind # "AtTask", NEW m \in Snapshot, m.kind = r.kind, m.node = r.node
      PROVE  Sited(d, LeavePark(m)) /\ LeavePark(m).node > d
  <2>1. r.node = d \/ r.node > d
    BY Zenon, <1>1 DEF Sited, Snapshot
  <2>2. CASE r.node = N
    BY <1>0, <1>1, <2>1, <2>2 DEF LeavePark, mark_completed, Sited, Snapshot
  <2>3. CASE r.node # N
    BY <1>0, <1>1, <2>1, <2>3 DEF LeavePark, Sited, Snapshot
  <2> QED
    BY Zenon, <2>2, <2>3
<1>2. /\ mark_task_completed(r, r.node) \in Snapshot
      /\ mark_task_completed(r, r.node).kind = r.kind
      /\ mark_task_completed(r, r.node).node = r.node
  BY ZenonT(30), <1>0, OperationTypes DEF mark_task_completed, Snapshot
<1>3. ASSUME NEW n \in Nodes, r.kind = "AtTask", r.node = n
      PROVE  /\ Sited(d, TaskResult(r, n))
             /\ n > d => TaskResult(r, n).node > d
             /\ n < d => TaskResult(r, n).node <= d
  <2> DEFINE m == [mark_task_completed(r, n) EXCEPT !.att = 0, !.due = TRUE]
  <2>1. m \in Snapshot /\ m.kind = "AtTask" /\ m.node = n
    BY Zenon, <1>3 DEF mark_task_completed, Snapshot
  <2>2. TaskResult(r, n) = update_position_after_task(m, n)
    BY DEF TaskResult
  <2>3. n # d
    BY <1>3 DEF Sited
  <2> HIDE DEF m
  <2>4. CASE n = N
    BY <1>0, <2>1, <2>2, <2>4 DEF update_position_after_task, Sited
  <2>5. CASE n # N
    <3>1. /\ n + 1 \in Nodes /\ TaskResult(r, n) = set_position_at(m, n + 1)
          /\ n \in Nat
      BY <2>2, <2>5, ChainFacts DEF update_position_after_task
    <3>2. Chain[n + 1] \in {"task", "delay", "signal"}
      BY <3>1, PoolAssumption DEF PoolAssumption, Nodes, N
    <3>3. /\ set_position_at(m, n + 1).node = n + 1
          /\ set_position_at(m, n + 1).kind =
                IF Chain[n + 1] = "delay" THEN "AtDelay"
                ELSE IF Chain[n + 1] = "signal" THEN "AtSignal" ELSE "AtTask"
      BY <2>1, <3>2 DEF set_position_at, mark_task_completed, Snapshot
    <3>4. /\ Chain[n + 1] = "delay" <=> n + 1 = d
          /\ Chain[n + 1] = "signal" => n + 1 > d
      BY <1>0, <3>1 DEF LoneDelay
    <3> QED
      BY <1>0, <2>3, <3>1, <3>2, <3>3, <3>4 DEF Sited
  <2> QED
    BY Zenon, <2>4, <2>5
<1> QED
  BY Zenon, <1>0, <1>1, <1>2, <1>3 DEF ResumeSignal

\* What a step of slot s may do to the row: leave its position and its clock
\* alone; put it past the delay, where it was already or which s saw elapse;
\* or commit a task before the delay when the row is before it too.
DelayRow(d, s) ==
    \/ /\ row'.node = row.node /\ row'.kind = row.kind /\ (row.due => row'.due)
       /\ row.status \in Terminal => row' = row
       /\ row'.status = row.status \/ row'.status \in {"Paused", "Cancelled"}
    \/ /\ row'.node > d /\ row.status \notin Terminal
       /\ row.node > d \/ (pc[s] = "advance" /\ row.node = d /\ row.due)
    \/ /\ pc[s] = "running" /\ pc'[s] \notin Uncommitted
       /\ Owns(s) /\ UNCHANGED claim
       /\ row.node < d /\ row'.node <= d /\ row.status \notin Terminal

\* Every step of a slot is one of these, and what it writes is well sited.
LEMMA DelaySlot ==
    ASSUME NEW d, LoneDelay(d), TypeInv, CopyInv, DelayInv(d), NEW s \in Slots,
           Work(s) \/ find_hinted_task(s) \/ run_with_heartbeat(s) \/ Abandon(s)
    PROVE  /\ DelayRow(d, s) /\ Sited(d, row') /\ Sited(d, snap'[s])
           /\ snap'[s].node > d => Passed(d)'
           /\ pc'[s] = "advance" =>
                 row' = row /\ row.node = d /\ row.due
<1>0. /\ snap \in [Slots -> Snapshot] /\ snap[s] \in Snapshot /\ row \in Snapshot
      /\ pc \in [Slots -> PCs] /\ task[s] \in Nodes
      /\ row.node \in Nat /\ task[s] \in Nat /\ snap[s].node \in Nat
      /\ d \in Nat /\ d > 1 /\ d < N /\ N \in Nat
      /\ Sited(d, row) /\ Sited(d, snap[s]) /\ (snap[s].node > d => Passed(d))
      /\ PointInv(pc[s], task[s], snap[s], hand[s])
  <2>1. /\ snap \in [Slots -> Snapshot] /\ row \in Snapshot
        /\ pc \in [Slots -> PCs] /\ task[s] \in Nodes
    BY Zenon DEF TypeInv, TypeOK
  <2>2. snap[s] \in Snapshot
    BY Zenon, <2>1
  <2>3. N \in Nat /\ d \in Nat /\ d > 1 /\ d < N
    BY ChainFacts DEF LoneDelay, Nodes
  <2>4. \A q \in Snapshot : q.node \in Nat
    BY Zenon, ChainFacts DEF Snapshot, Nodes
  <2>5. task[s] \in Nat
    BY Zenon, <2>1, ChainFacts DEF Nodes
  <2>6. Sited(d, row) /\ Sited(d, snap[s]) /\ (snap[s].node > d => Passed(d))
    BY Zenon DEF DelayInv
  <2>7. PointInv(pc[s], task[s], snap[s], hand[s])
    BY Zenon DEF CopyInv
  <2> QED
    BY Zenon, <2>1, <2>2, <2>3, <2>4, <2>5, <2>6, <2>7
<1>1. ASSUME NEW r, snap' = [snap EXCEPT ![s] = r] PROVE snap'[s] = r
  BY Zenon, <1>0, <1>1
<1>2. ASSUME NEW l, Goto(s, l) PROVE pc'[s] = l
  BY ZenonT(30), <1>0, <1>2 DEF Goto
<1>3. /\ Sited(d, FreshSnapshot) /\ ~(FreshSnapshot.node > d)
  BY <1>0 DEF FreshSnapshot, Sited
<1>4. EndDispatch(s) => pc'[s] = "idle" /\ snap'[s] = FreshSnapshot
  BY Zenon, <1>1, <1>2 DEF EndDispatch
<1>5. ASSUME row' = row PROVE DelayRow(d, s) /\ Sited(d, row') /\ Passed(d)' = Passed(d)
  BY Zenon, <1>0, <1>5 DEF DelayRow, Passed
<1>6. CASE \/ find_available_tasks(s) \/ find_hinted_task(s) \/ claim_task(s)
           \/ check_control_signals(s) \/ run_with_heartbeat(s) \/ consume_event(s)
           \/ release_task_claim(s) \/ Abandon(s)
  <2>1. row' = row
    BY Zenon, <1>6 DEF find_available_tasks, find_hinted_task, claim_task,
                check_control_signals, run_with_heartbeat, consume_event,
                release_task_claim, Abandon, db
  <2>2. snap' = [snap EXCEPT ![s] = row] \/ snap' = snap \/ EndDispatch(s)
    BY Zenon, <1>6 DEF find_available_tasks, find_hinted_task, claim_task,
                check_control_signals, run_with_heartbeat, consume_event,
                release_task_claim, Abandon, Dispatch, local
  <2>3. pc'[s] = "advance" => row.kind = "AtDelay" /\ row.due
    <3>1. CASE find_available_tasks(s)
      BY Zenon, <1>0, <1>2, <3>1 DEF find_available_tasks, Dispatch
    <3>2. CASE \/ find_hinted_task(s) \/ claim_task(s)
               \/ check_control_signals(s) \/ run_with_heartbeat(s) \/ consume_event(s)
               \/ release_task_claim(s) \/ Abandon(s)
      <4>1. \/ UNCHANGED pc /\ pc[s] # "advance"
            \/ EndDispatch(s)
            \/ \E l \in {"found", "guard", "running", "guardCancel", "complete",
                         "postCancel", "quietCancel", "drainSave", "release", "post",
                         "cancelling"} : Goto(s, l)
        BY Zenon, <3>2 DEF find_hinted_task, claim_task, check_control_signals,
                    run_with_heartbeat, consume_event, release_task_claim, Abandon,
                    Dispatch, local
      <4> QED
        BY Zenon, <1>2, <1>4, <4>1
    <3> QED
      BY Zenon, <1>6, <3>1, <3>2
  <2>4. Sited(d, snap'[s]) /\ (snap'[s].node > d => Passed(d))
    BY Zenon, <1>0, <1>1, <1>3, <1>4, <2>2 DEF Passed
  <2> QED
    BY Zenon, <1>0, <1>5, <2>1, <2>3, <2>4 DEF Sited
<1>7. CASE check_and_cancel(s) \/ check_and_pause(s)
  <2>1. snap' = snap \/ EndDispatch(s)
    BY Zenon, <1>7 DEF check_and_cancel, check_and_pause
  <2>2. pc'[s] # "advance"
    <3>1. EndDispatch(s) \/ \E l \in {"quiet", "guardPause", "postPause",
                                      "running", "complete"} : Goto(s, l)
      BY Zenon, <1>7 DEF check_and_cancel, check_and_pause
    <3> QED
      BY Zenon, <1>2, <1>4, <3>1
  <2>3. \/ row' = row
        \/ row.status = "InProgress" /\ row' \in {mark_cancelled(row), mark_paused(row)}
    BY Zenon, <1>7 DEF check_and_cancel, check_and_pause, Apply, CanApply
  <2>4. \A q \in {mark_cancelled(row), mark_paused(row)} :
           /\ q.node = row.node /\ q.kind = row.kind /\ (row.due => q.due)
           /\ q.status \in {"Cancelled", "Paused"}
    BY Zenon, <1>0 DEF mark_cancelled, mark_paused, Snapshot
  <2>5. DelayRow(d, s) /\ Sited(d, row') /\ (Passed(d) => Passed(d)')
    BY Zenon, <1>0, <1>5, <2>3, <2>4 DEF DelayRow, Sited, Passed, Terminal
  <2> QED
    BY Zenon, <1>0, <1>1, <1>3, <1>4, <2>1, <2>2, <2>5
<1>8. ASSUME NEW r, exec_save_snapshot(r)
      PROVE  \/ row' = r /\ row.status \notin Terminal
             \/ row' = row /\ row.status \in Terminal
  BY Zenon, <1>8 DEF exec_save_snapshot
<1>9. CASE advance_delay(s) \/ drain_pending_signal(s)
  <2> DEFINE r == IF pc[s] = "advance" THEN LeavePark(snap[s]) ELSE ResumeSignal(snap[s])
  <2>1. Sited(d, r) /\ r.node > d
    <3>1. snap[s].kind # "AtTask"
      BY Zenon, <1>0, <1>9 DEF advance_delay, drain_pending_signal, PointInv
    <3> QED
      BY Zenon, <1>0, <3>1, SitedOps
  <2>2. /\ exec_save_snapshot(r)
        /\ snap' = [snap EXCEPT ![s] = r] \/ EndDispatch(s)
    BY Zenon, <1>9 DEF advance_delay, drain_pending_signal, Dispatch
  <2>3. pc'[s] # "advance"
    BY Zenon, <1>2, <1>4, <1>9 DEF advance_delay, drain_pending_signal, Dispatch
  <2>4. row.status \notin Terminal =>
           row.node > d \/ (pc[s] = "advance" /\ row.node = d /\ row.due)
    <3>1. CASE pc[s] = "advance"
      BY Zenon, <3>1 DEF DelayInv, Passed
    <3>2. CASE pc[s] # "advance"
      <4>1. snap[s].node > d
        BY Zenon, <1>0, <1>9, <3>2 DEF advance_delay, drain_pending_signal, PointInv, Sited
      <4> QED
        BY Zenon, <1>0, <4>1 DEF Passed
    <3> QED
      BY Zenon, <3>1, <3>2
  <2> HIDE DEF r
  <2>5. DelayRow(d, s) /\ Sited(d, row') /\ Passed(d)'
    BY Zenon, <1>0, <1>5, <1>8, <2>1, <2>2, <2>4 DEF DelayRow, Passed
  <2> QED
    BY Zenon, <1>1, <1>3, <1>4, <2>1, <2>2, <2>3, <2>5
<1>10. CASE commit_task_result(s) \/ settle_failure(s)
  <2> DEFINE r == IF commit_task_result(s) THEN TaskResult(snap[s], task[s])
                  ELSE FailedSnapshot(s)
  <2>1. /\ snap[s].kind = "AtTask" /\ snap[s].node = task[s] /\ pc[s] = "running"
        /\ task[s] # d
    BY Zenon, <1>0, <1>10 DEF commit_task_result, settle_failure, PointInv, Sited
  <2>2. /\ Sited(d, r) /\ (task[s] > d => r.node > d) /\ (task[s] < d => r.node <= d)
    <3>1. CASE commit_task_result(s)
      BY Zenon, <1>0, <2>1, <3>1, SitedOps
    <3>2. CASE ~commit_task_result(s)
      <4>1. r \in {record_retry(snap[s]), mark_failed(snap[s])}
        BY Zenon, <3>2 DEF FailedSnapshot
      <4>2. r.kind = snap[s].kind /\ r.node = snap[s].node
        BY Zenon, <1>0, <4>1 DEF record_retry, mark_failed, Snapshot
      <4>3. Sited(d, r) /\ r.node = task[s]
        BY Zenon, <1>0, <2>1, <4>2 DEF Sited
      <4>4. task[s] \in Nat /\ d \in Nat
        BY Zenon, <1>0
      <4> HIDE DEF r
      <4> QED
        BY <4>3, <4>4
    <3> QED
      BY Zenon, <3>1, <3>2
  <2>3. /\ \/ /\ Fenced(s) /\ exec_save_snapshot(r) /\ UNCHANGED claim
              /\ Goto(s, "drain") \/ Goto(s, "quiet")
              /\ snap' = [snap EXCEPT ![s] = r] \/ snap' = snap
           \/ row' = row /\ (EndDispatch(s) \/ (snap' = snap /\ Goto(s, "quiet")))
    BY Zenon, <1>10 DEF commit_task_result, settle_failure
  <2> HIDE DEF r
  <2>4. CASE row' = row
    <3>1. pc'[s] # "advance"
      BY Zenon, <1>2, <1>4, <2>3
    <3>2. CASE snap' = snap \/ EndDispatch(s)
      BY ZenonT(30), <1>0, <1>3, <1>4, <1>5, <2>4, <3>1, <3>2
    <3>3. CASE /\ Fenced(s) /\ exec_save_snapshot(r)
               /\ snap' = [snap EXCEPT ![s] = r]
      <4>1. snap'[s] = r
        BY Zenon, <1>1, <3>3
      <4>2. row' = r \/ Passed(d)
        BY Zenon, <1>8, <3>3 DEF Passed
      <4> QED
        BY Zenon, <1>5, <2>2, <2>4, <3>1, <4>1, <4>2 DEF Passed
    <3> QED
      BY Zenon, <2>3, <3>2, <3>3
  <2>5. CASE row' # row
    <3>1. /\ Fenced(s) /\ exec_save_snapshot(r) /\ UNCHANGED claim
          /\ pc'[s] \in {"drain", "quiet"} /\ snap'[s] \in {r, snap[s]}
      BY Zenon, <1>1, <1>2, <2>3, <2>5
    <3>2. row' = r /\ row.status \notin Terminal
      BY Zenon, <1>8, <2>5, <3>1
    <3>3. CASE task[s] > d
      <4>1. row.node > d
        BY Zenon, <1>0, <2>1, <3>2, <3>3 DEF Passed
      <4> QED
        BY Zenon, <1>0, <2>2, <3>1, <3>2, <3>3, <4>1 DEF DelayRow, Passed
    <3>4. CASE task[s] < d
      <4>1. row.node < d
        <5>1. pc[s] \in Uncommitted /\ Owns(s)
          BY Zenon, <2>1, <3>1 DEF Uncommitted, Fenced
        <5>2. row.node < d \/ task[s] > d
          BY Zenon, <3>2, <5>1 DEF DelayInv
        <5>3. d \in Nat /\ task[s] \in Nat
          BY Zenon, <1>0
        <5> QED
          BY <3>4, <5>2, <5>3
      <4> QED
        BY ZenonT(30), <1>0, <2>1, <2>2, <3>1, <3>2, <3>4, <4>1
        DEF DelayRow, Passed, Fenced, Uncommitted
    <3>5. task[s] > d \/ task[s] < d
      <4>1. d \in Nat /\ task[s] \in Nat /\ task[s] # d
        BY Zenon, <1>0, <2>1
      <4> QED
        BY <4>1
    <3> QED
      BY Zenon, <3>3, <3>4, <3>5
  <2> QED
    BY Zenon, <2>4, <2>5
<1>11. CASE determine_post_task_status(s)
  <2> DEFINE r == mark_completed(snap[s])
  <2>1. EndDispatch(s) /\ (row' = row \/ (is_workflow_complete(snap[s]) /\ exec_save_snapshot(r)))
    BY Zenon, <1>11 DEF determine_post_task_status
  <2>2. Sited(d, r) /\ r.node = snap[s].node
    BY <1>0 DEF mark_completed, Sited, Snapshot
  <2> HIDE DEF r
  <2>3. is_workflow_complete(snap[s]) => snap[s].node > d
    <3> SUFFICES ASSUME is_workflow_complete(snap[s]) PROVE snap[s].node = N
      BY Zenon, <1>0
    <3>1. Coherent(snap[s]) /\ snap[s].status = "InProgress" /\ snap[s].done = Nodes
      BY Zenon DEF CopyInv, SnapInv, is_workflow_complete
    <3>2. N \in snap[s].done /\ snap[s].node <= N
      BY ZenonT(30), <1>0, <3>1, ChainFacts DEF Snapshot
    <3>3. snap[s].node = N \/ snap[s].done \in {1..(snap[s].node - 1), 1..snap[s].node}
      BY Zenon, <3>1 DEF Coherent, Terminal
    <3>4. N \in Nat /\ snap[s].node \in Nat
      BY Zenon, <1>0
    <3> QED
      BY <3>2, <3>3, <3>4
  <2> QED
    BY ZenonT(30), <1>0, <1>3, <1>4, <1>5, <1>8, <2>1, <2>2, <2>3 DEF DelayRow, Passed
<1> QED
  BY Zenon, <1>6, <1>7, <1>9, <1>10, <1>11 DEF Work

\* Other slots keep their task.
LEMMA OtherTasks ==
    ASSUME TypeInv, NEW s \in Slots,
           Work(s) \/ find_hinted_task(s) \/ run_with_heartbeat(s) \/ Abandon(s),
           NEW t \in Slots, t # s
    PROVE  task'[t] = task[t]
<1>1. \/ task' = task \/ \E n : task' = [task EXCEPT ![s] = n]
  BY Zenon DEF Work, find_available_tasks, advance_delay, claim_task,
         check_control_signals, check_and_cancel, check_and_pause,
         commit_task_result, settle_failure, consume_event, drain_pending_signal,
         release_task_claim, determine_post_task_status, find_hinted_task,
         run_with_heartbeat, Abandon, Dispatch, EndDispatch, local
<1> QED
  BY Zenon, <1>1 DEF TypeInv, TypeOK

\* DelayInv is inductive.
LEMMA DelayInductive ==
    ASSUME NEW d, LoneDelay(d), OneSlotPerWorker
    PROVE  /\ Init => DelayInv(d)
           /\ TypeInv /\ CopyInv /\ DelayInv(d) /\ [Next]_vars => DelayInv(d)'
<1>0. d \in Nat /\ d > 1
  BY ChainFacts DEF LoneDelay, Nodes
<1>1. Init => DelayInv(d)
  BY <1>0 DEF Init, DelayInv, Sited, FreshSnapshot, Uncommitted
<1>2. ASSUME TypeInv, CopyInv, DelayInv(d), [Next]_vars
      PROVE  DelayInv(d)'
  <2>0. row \in Snapshot /\ row.node \in Nat /\ Sited(d, row)
    BY Zenon, <1>2, ChainFacts DEF TypeInv, TypeOK, Snapshot, DelayInv
  <2>1. ASSUME NEW s \in Slots,
               Work(s) \/ find_hinted_task(s) \/ run_with_heartbeat(s) \/ Abandon(s)
        PROVE  DelayInv(d)'
    <3>1. /\ DelayRow(d, s) /\ Sited(d, row') /\ Sited(d, snap'[s])
          /\ snap'[s].node > d => Passed(d)'
          /\ pc'[s] = "advance" => row' = row /\ row.node = d /\ row.due
      BY Zenon, <1>2, <2>1, LoneDelay(d), DelaySlot
    <3>2. \A t \in Slots : t # s => /\ pc'[t] = pc[t] /\ snap'[t] = snap[t]
                                    /\ task'[t] = task[t]
      BY ZenonT(30), <1>2, <2>1, OtherSlots, OtherTasks
    <3>3. Passed(d) => Passed(d)'
      BY <1>0, <2>0, <3>1 DEF DelayRow, Passed
    <3>4. ASSUME NEW t \in Slots
          PROVE  /\ Sited(d, snap'[t]) /\ (snap'[t].node > d => Passed(d)')
                 /\ pc'[t] = "advance" => Passed(d)' \/ (row'.node = d /\ row'.due)
      <4>1. CASE t = s
        BY Zenon, <3>1, <4>1
      <4>2. CASE t # s
        <5>1. /\ Sited(d, snap[t]) /\ (snap[t].node > d => Passed(d))
              /\ pc[t] = "advance" => Passed(d) \/ (row.node = d /\ row.due)
          BY Zenon, <1>2 DEF DelayInv
        <5>2. row.node = d /\ row.due => Passed(d)' \/ (row'.node = d /\ row'.due)
          BY <1>0, <3>1 DEF DelayRow, Passed
        <5> QED
          BY Zenon, <3>2, <3>3, <4>2, <5>1, <5>2
      <4> QED
        BY Zenon, <4>1, <4>2
    <3>5. ASSUME NEW t \in Slots, pc'[t] \in Uncommitted, Owns(t)',
                 ~(row'.node < d), row'.status \notin Terminal
          PROVE  task'[t] > d
      <4>1. CASE pc[t] \in Uncommitted /\ Owns(t) /\ task'[t] = task[t]
        <5>1. row.node < d \/ row.status \in Terminal \/ task[t] > d
          BY Zenon, <1>2, <4>1 DEF DelayInv
        <5>2. CASE row.node < d \/ row.status \in Terminal
          <6>1. /\ pc[s] = "running" /\ pc'[s] \notin Uncommitted /\ Owns(s)
            BY <1>0, <2>0, <3>1, <3>5, <5>2 DEF DelayRow
          <6>2. t = s
            BY Zenon, <4>1, <6>1, OneSlotPerWorker DEF OneSlotPerWorker, Owns
          <6> QED
            BY ZenonT(30), <3>5, <6>1, <6>2
        <5> QED
          BY Zenon, <4>1, <5>1, <5>2
      <4>2. CASE row' = row /\ row.node = task'[t]
        <5>1. snap'[t].kind = "AtTask" /\ snap'[t].node = task'[t]
          <6>1. CopyInv'
            BY Zenon, <1>2, CopyInductive
          <6> QED
            BY Zenon, <3>5, <6>1 DEF CopyInv, PointInv, Uncommitted
        <5>2. task'[t] # d
          BY Zenon, <3>4, <5>1 DEF Sited
        <5> QED
          BY <1>0, <2>0, <3>5, <4>2, <5>2
      <4> QED
        BY ZenonT(30), <1>2, <2>1, <3>5, <4>1, <4>2, Owners, OneSlotPerWorker
    <3> QED
      BY Zenon, <3>1, <3>4, <3>5 DEF DelayInv
  <2>2. ASSUME UNCHANGED <<pc, task, snap>>,
               claim'.worker = claim.worker, claim'.task = claim.task,
               Sited(d, row'), row.status \in Terminal => row' = row,
               \/ row'.node = row.node /\ (row.due => row'.due)
               \/ row.node > d /\ row'.node > d
        PROVE  DelayInv(d)'
    <3>1. Passed(d) => Passed(d)'
      BY Zenon, <1>0, <2>0, <2>2 DEF Passed
    <3>2. \A t \in Slots : Owns(t)' = Owns(t)
      BY ZenonT(30), <2>2 DEF Owns
    <3>3. ASSUME NEW t \in Slots
          PROVE  /\ Sited(d, snap'[t]) /\ (snap'[t].node > d => Passed(d)')
                 /\ pc'[t] = "advance" => Passed(d)' \/ (row'.node = d /\ row'.due)
                 /\ pc'[t] \in Uncommitted /\ Owns(t)' =>
                       row'.node < d \/ row'.status \in Terminal \/ task'[t] > d
      BY <1>0, <1>2, <2>0, <2>2, <3>1, <3>2 DEF DelayInv, Passed
    <3> QED
      BY Zenon, <2>2, <3>3 DEF DelayInv
  <2>3. CASE \/ LeaseExpires \/ send_event \/ UNCHANGED vars
             \/ \E k \in SignalKinds : store_signal(k)
    <3>1. /\ UNCHANGED <<row, pc, task, snap>>
          /\ claim'.worker = claim.worker /\ claim'.task = claim.task
      BY ZenonT(30), <1>2, <2>3 DEF LeaseExpires, send_event, store_signal, vars, local, db,
                        TypeInv, TypeOK, ClaimRow
    <3> QED
      BY Zenon, <2>0, <2>2, <3>1
  <2>4. CASE TimerElapses \/ unpause
    <3>1. /\ UNCHANGED <<claim, pc, task, snap>> /\ row.status \notin Terminal
          /\ row' \in {mark_unpaused(row), [row EXCEPT !.due = TRUE]}
      BY <2>4 DEF TimerElapses, unpause, local, Terminal
    <3>2. row'.kind = row.kind /\ row'.node = row.node /\ (row.due => row'.due)
      BY <2>0, <3>1 DEF mark_unpaused, Snapshot
    <3>3. Sited(d, row')
      BY Zenon, <2>0, <3>2 DEF Sited
    <3> QED
      BY <2>2, <3>1, <3>2, <3>3
  <2>5. CASE deliver_event
    <3>1. UNCHANGED <<claim, pc, task, snap>>
      BY Zenon, <2>5 DEF deliver_event, local
    <3>2. CASE row' = row
      BY Zenon, <2>0, <2>2, <3>1, <3>2
    <3>3. CASE row' = ResumeSignal(row) /\ signal_resume_target
      <4>1. row.kind = "AtSignal" /\ row.status \notin Terminal /\ row.node > d
        BY Zenon, <2>0, <3>3 DEF signal_resume_target, Sited, Terminal
      <4>2. Sited(d, row') /\ row'.node > d
        BY Zenon, <2>0, <3>3, <4>1, LoneDelay(d), SitedOps
      <4> QED
        BY Zenon, <2>2, <3>1, <4>1, <4>2
    <3> QED
      BY Zenon, <2>5, <3>2, <3>3 DEF deliver_event
  <2> QED
    BY Zenon, <1>2, <2>1, <2>3, <2>4, <2>5 DEF Next
<1> QED
  BY <1>1, <1>2

\* A step leaves a delay that has not elapsed only for a pause or a cancel.
LEMMA DelayStep ==
    ASSUME NEW d, LoneDelay(d), TypeInv, CopyInv, DelayInv(d), Next,
           row.status = "InProgress", row.kind = "AtDelay", ~row.due
    PROVE  \/ row'.status \in {"Paused", "Cancelled"}
           \/ row'.status = "InProgress" /\ row'.kind = "AtDelay"
<1>0. row \in Snapshot /\ row.node = d /\ d \in Nat
  BY Zenon, ChainFacts DEF TypeInv, TypeOK, DelayInv, Sited, LoneDelay, Nodes
<1>1. ASSUME NEW s \in Slots,
             Work(s) \/ find_hinted_task(s) \/ run_with_heartbeat(s) \/ Abandon(s)
      PROVE  row'.kind = "AtDelay"
             /\ (row'.status = row.status \/ row'.status \in {"Paused", "Cancelled"})
  <2>1. DelayRow(d, s)
    BY Zenon, <1>1, LoneDelay(d), DelaySlot
  <2> QED
    BY <1>0, <2>1 DEF DelayRow
<1>2. CASE \/ LeaseExpires \/ TimerElapses \/ unpause \/ send_event \/ deliver_event
           \/ \E k \in SignalKinds : store_signal(k)
  BY Zenon, <1>0, <1>2 DEF LeaseExpires, TimerElapses, unpause, send_event, deliver_event,
                    store_signal, signal_resume_target, db, Snapshot
<1> QED
  BY Zenon, <1>1, <1>2 DEF Next

\* With one delay, which tasks lead up to and which is not the last node, and
\* no worker dispatching the instance twice, the delay is honoured: the stale
\* copies that find_available_tasks and drain_pending_signal save without a
\* fence lie beyond it.  (Each hypothesis is needed: with a second delay, a
\* signal before the delay, or a delay at the end it is cut short.)
THEOREM LoneDelayHonoured ==
    ASSUME NEW d, LoneDelay(d), OneSlotPerWorker
    PROVE  Spec => DelayHonoured
<1>1. TypeInv /\ CopyInv /\ DelayInv(d) /\ [Next]_vars =>
        [row.status = "InProgress" /\ row.kind = "AtDelay" /\ ~row.due
            => \/ row'.status \in {"Paused", "Cancelled"}
               \/ row'.status = "InProgress" /\ row'.kind = "AtDelay"]_vars
  BY Zenon, LoneDelay(d), DelayStep
<1>2. /\ Init => DelayInv(d)
      /\ TypeInv /\ CopyInv /\ DelayInv(d) /\ [Next]_vars => DelayInv(d)'
  BY LoneDelay(d), OneSlotPerWorker, DelayInductive
<1> QED
  BY <1>1, <1>2, TypeInductive, CopyInductive, PTL DEF Spec, DelayHonoured

=============================================================================
