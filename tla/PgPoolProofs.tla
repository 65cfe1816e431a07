---------------------------- MODULE PgPoolProofs ----------------------------
(***************************************************************************)
(* Proofs about PgPool for every set of slots and workers, every chain of  *)
(* tasks, delays and signal waits, and every value of the bounds: types,   *)
(* the finality of a terminal row, and what the snapshots say.             *)
(*                                                                         *)
(* The row and the copies that slots work on are coherent, a completed     *)
(* workflow has every result, and a task is dispatched only with its input *)
(* in the sidecar. The inductive invariant CopyInv states the facts of     *)
(* each single snapshot, together with what the program point of a slot    *)
(* says of its copy. The facts are preserved by each operation on a        *)
(* snapshot, so it does not matter how stale the copy is that a slot       *)
(* saves.                                                                  *)
(***************************************************************************)
EXTENDS PgPool, TLAPS

-----------------------------------------------------------------------------
(* The operations on snapshots and tables.                                 *)

\* Constants have their types, and the chain has a first node.
LEMMA ChainFacts ==
    /\ N \in Nat /\ N > 0
    /\ \A n \in Nodes : n \in Nat /\ n > 0 /\ n <= N
    /\ \A n \in Nodes : n # N => n + 1 \in Nodes
    /\ 1 \in Nodes /\ N \in Nodes
BY PoolAssumption DEF PoolAssumption, N, Nodes

\* The snapshot saved for a fresh instance is a snapshot.
LEMMA FreshType == FreshSnapshot \in Snapshot
BY ChainFacts DEF FreshSnapshot, Snapshot, Statuses

\* Every operation on a snapshot yields a snapshot.
LEMMA OperationTypes ==
    ASSUME NEW r \in Snapshot, NEW n \in Nodes
    PROVE  /\ mark_completed(r) \in Snapshot /\ mark_failed(r) \in Snapshot
           /\ mark_paused(r) \in Snapshot /\ mark_unpaused(r) \in Snapshot
           /\ mark_cancelled(r) \in Snapshot
           /\ mark_task_completed(r, n) \in Snapshot
           /\ record_retry(r) \in Snapshot
           /\ [r EXCEPT !.att = 0, !.due = TRUE] \in Snapshot
           /\ [r EXCEPT !.due = TRUE] \in Snapshot
           /\ set_position_at(r, n) \in Snapshot
           /\ LeavePark(r) \in Snapshot
<1>1. /\ mark_completed(r) \in Snapshot /\ mark_failed(r) \in Snapshot
      /\ mark_paused(r) \in Snapshot /\ mark_unpaused(r) \in Snapshot
      /\ mark_cancelled(r) \in Snapshot
  BY Zenon DEF mark_completed, mark_failed, mark_paused, mark_unpaused, mark_cancelled,
         Snapshot, Statuses, Terminal
<1>2. mark_task_completed(r, n) \in Snapshot
  BY DEF mark_task_completed, Snapshot
<1>3. \A x \in Snapshot : \A b \in BOOLEAN : [x EXCEPT !.due = b] \in Snapshot
  BY DEF Snapshot
<1>a. \A x \in Snapshot : \A k \in Nat : [x EXCEPT !.att = k] \in Snapshot
  BY DEF Snapshot
<1>b. [r EXCEPT !.att = 0, !.due = TRUE] \in Snapshot
  BY <1>3, <1>a, Zenon
<1>c. record_retry(r) \in Snapshot
  <2>1. r.att + 1 \in Nat
    BY DEF Snapshot
  <2> QED
    BY <1>3, <1>a, <2>1, Zenon DEF record_retry
<1>4. set_position_at(r, n) \in Snapshot
  <2>1. CASE Chain[n] = "delay"
    BY Zenon, <1>2, <2>1 DEF set_position_at, Snapshot
  <2>2. CASE Chain[n] = "signal"
    BY Zenon, <2>2 DEF set_position_at, Snapshot
  <2>3. CASE Chain[n] \notin {"delay", "signal"}
    BY Zenon, <2>3 DEF set_position_at, Snapshot
  <2> QED
    BY <2>1, <2>2, <2>3
<1>5. LeavePark(r) \in Snapshot
  <2>1. CASE r.node = N
    BY <1>1, <2>1 DEF LeavePark
  <2>2. CASE r.node # N
    <3>1. r.node + 1 \in Nodes
      BY Zenon, <2>2, ChainFacts DEF Snapshot
    <3> QED
      BY Zenon, <2>2, <3>1 DEF LeavePark, Snapshot
  <2> QED
    BY <2>1, <2>2
<1> QED
  BY <1>1, <1>2, <1>3, <1>b, <1>c, <1>4, <1>5, Zenon

\* So do the compositions of them that the actions use.
LEMMA ResultTypes ==
    ASSUME NEW r \in Snapshot, NEW n \in Nodes
    PROVE  /\ TaskResult(r, n) \in Snapshot
           /\ ResumeSignal(r) \in Snapshot
           /\ last_completed_task_id(r, n) \in Nodes
<1>1. TaskResult(r, n) \in Snapshot
  <2> DEFINE settled == [mark_task_completed(r, n) EXCEPT !.att = 0, !.due = TRUE]
  <2>1. settled \in Snapshot
    BY Zenon, OperationTypes
  <2> HIDE DEF settled
  <2>2. update_position_after_task(settled, n) \in Snapshot
    BY Zenon, <2>1, OperationTypes, ChainFacts DEF update_position_after_task
  <2> QED
    BY <2>2 DEF TaskResult, settled
<1>2. r.node \in Nodes
  BY DEF Snapshot
<1>3. ResumeSignal(r) \in Snapshot
  BY Zenon, <1>2, OperationTypes DEF ResumeSignal
<1>4. last_completed_task_id(r, n) \in Nodes
  BY <1>2 DEF last_completed_task_id
<1> QED
  BY <1>1, <1>3, <1>4

-----------------------------------------------------------------------------
(* Types.                                                                  *)

\* The type of a slot's own variables.
LocalOK ==
    /\ pc \in [Slots -> PCs]
    /\ task \in [Slots -> Nodes]
    /\ snap \in [Slots -> Snapshot]
    /\ hand \in [Slots -> Nat]
    /\ lapsed \in [Slots -> BOOLEAN]

\* TypeOK is inductive once it is known that a client inside send_event has
\* numbered its event.
TypeInv == TypeOK /\ (sender # "idle" => sent > 0)

\* A dispatch that ends, or that starts from a snapshot, keeps the types.
LEMMA LocalTypes ==
    ASSUME LocalOK, NEW s \in Slots, NEW r \in Snapshot, NEW l \in PCs
    PROVE  /\ EndDispatch(s) => LocalOK'
           /\ Dispatch(s, r, l) => LocalOK'
           /\ Goto(s, l) /\ UNCHANGED <<task, snap, hand, lapsed>> => LocalOK'
<1>1. r.node \in Nodes /\ 1 \in Nodes /\ 0 \in Nat /\ FALSE \in BOOLEAN
  BY ChainFacts DEF Snapshot
<1>2. "idle" \in PCs
  BY DEF PCs
<1>3. EndDispatch(s) => LocalOK'
  BY <1>1, <1>2, FreshType DEF LocalOK, EndDispatch, Goto
<1>4. Dispatch(s, r, l) => LocalOK'
  BY <1>1 DEF LocalOK, Dispatch, Goto
<1>5. Goto(s, l) /\ UNCHANGED <<task, snap, hand, lapsed>> => LocalOK'
  BY DEF LocalOK, Goto
<1> QED
  BY <1>3, <1>4, <1>5

\* A write of the snapshot row, and the hint it queues, keep the types.
LEMMA TableTypes ==
    ASSUME row \in Snapshot, hints \in [Workers -> SUBSET Nodes],
           NEW r \in Snapshot
    PROVE  /\ Notify(r) => hints' \in [Workers -> SUBSET Nodes]
           /\ exec_save_snapshot(r) =>
                 row' \in Snapshot /\ hints' \in [Workers -> SUBSET Nodes]
<1>1. build_task_ready_payload(r) \in SUBSET Nodes
  BY DEF build_task_ready_payload, Snapshot
<1>2. Notify(r) => hints' \in [Workers -> SUBSET Nodes]
  BY <1>1 DEF Notify
<1>3. exec_save_snapshot(r) =>
         row' \in Snapshot /\ hints' \in [Workers -> SUBSET Nodes]
  BY <1>2 DEF exec_save_snapshot
<1> QED
  BY <1>2, <1>3

\* An output put into the sidecar keeps its type.
LEMMA OutputTypes ==
    ASSUME outs \in [Nodes -> Nat], NEW n \in Nodes, NEW out \in Nat,
           ship_output(n, out)
    PROVE  outs' \in [Nodes -> Nat]
BY DEF ship_output

\* Every program point that a slot moves to.
LEMMA Points ==
    {"idle", "advance", "found", "guard", "guardCancel", "guardPause", "running",
     "drain", "drainSave", "release", "quiet", "quietCancel", "post",
     "postCancel", "postPause", "complete", "cancelling"} \subseteq PCs
BY DEF PCs, Holding

\* Every step of a slot keeps the types.
LEMMA SlotTypes ==
    ASSUME TypeInv, NEW s \in Slots,
           Work(s) \/ find_hinted_task(s) \/ run_with_heartbeat(s) \/ Abandon(s)
    PROVE  TypeInv'
<1> USE DEF TypeInv, TypeOK
<1>0. LocalOK /\ snap[s] \in Snapshot /\ task[s] \in Nodes
  BY Zenon DEF LocalOK
<1>1. CASE find_available_tasks(s)
  <2>1. LocalOK'
    BY Zenon, <1>0, <1>1, LocalTypes, Points DEF find_available_tasks
  <2> QED
    BY Zenon, <1>1, <2>1 DEF find_available_tasks, db, client, LocalOK
<1>2. CASE advance_delay(s)
  <2> DEFINE r == LeavePark(snap[s])
  <2>1. r \in Snapshot
    BY Zenon, <1>0, OperationTypes
  <2>2. LocalOK'
    BY Zenon, <1>0, <1>2, <2>1, LocalTypes, Points DEF advance_delay
  <2>3. row' \in Snapshot /\ hints' \in [Workers -> SUBSET Nodes]
    BY Zenon, <1>2, <2>1, TableTypes DEF advance_delay
  <2> QED
    BY Zenon, <1>2, <2>2, <2>3 DEF advance_delay, client, LocalOK
<1>3. CASE find_hinted_task(s)
  <2>1. LocalOK'
    BY Zenon, <1>0, <1>3, LocalTypes, Points DEF find_hinted_task, local, LocalOK
  <2>2. hints' \in [Workers -> SUBSET Nodes]
    BY ZenonT(30), <1>3 DEF find_hinted_task
  <2> QED
    BY Zenon, <1>3, <2>1, <2>2 DEF find_hinted_task, client, LocalOK
<1>4. CASE claim_task(s)
  <2>1. LocalOK'
    BY Zenon, <1>0, <1>4, LocalTypes, Points DEF claim_task
  <2>2. claim' \in ClaimRow
    <3>1. [worker |-> WorkerOf[s], task |-> task[s], live |-> TRUE] \in ClaimRow
      BY <1>0, PoolAssumption, ChainFacts DEF ClaimRow, PoolAssumption, Nodes
    <3> QED
      BY Zenon, <1>4, <3>1 DEF claim_task
  <2> QED
    BY Zenon, <1>4, <2>1, <2>2 DEF claim_task, client, LocalOK
<1>5. CASE check_control_signals(s)
  <2>1. LocalOK'
    BY Zenon, <1>0, <1>5, LocalTypes, Points DEF check_control_signals
  <2> QED
    BY Zenon, <1>5, <2>1 DEF check_control_signals, db, client, LocalOK
<1>6. CASE check_and_cancel(s)
  <2>1. LocalOK'
    BY Zenon, <1>0, <1>6, LocalTypes, Points DEF check_and_cancel
  <2>2. row' \in Snapshot /\ signals' \subseteq {"Cancel", "Pause"}
    BY Zenon, <1>6, OperationTypes, ChainFacts DEF check_and_cancel, Apply
  <2> QED
    BY Zenon, <1>6, <2>1, <2>2 DEF check_and_cancel, client, LocalOK
<1>7. CASE check_and_pause(s)
  <2>1. LocalOK'
    BY Zenon, <1>0, <1>7, LocalTypes, Points DEF check_and_pause
  <2>2. row' \in Snapshot /\ signals' \subseteq {"Cancel", "Pause"}
    BY Zenon, <1>7, OperationTypes, ChainFacts DEF check_and_pause, Apply
  <2> QED
    BY Zenon, <1>7, <2>1, <2>2 DEF check_and_pause, client, LocalOK
<1>8. CASE run_with_heartbeat(s)
  <2>1. LocalOK'
    <3>1. CASE Goto(s, "quietCancel") /\ UNCHANGED <<task, snap, hand, lapsed>>
      BY <1>0, <3>1, LocalTypes, Points
    <3>2. CASE /\ lapsed' = [lapsed EXCEPT ![s] = FALSE]
               /\ UNCHANGED <<pc, task, snap, hand>>
      BY Zenon, <1>0, <3>2 DEF LocalOK
    <3>3. CASE EndDispatch(s)
      BY <1>0, <3>3, LocalTypes, Points
    <3> QED
      BY Zenon, <1>8, <3>1, <3>2, <3>3 DEF run_with_heartbeat
  <2>2. claim' \in ClaimRow
    <3>1. [claim EXCEPT !.live = TRUE] \in ClaimRow
      BY Zenon DEF ClaimRow
    <3> QED
      BY <1>8, <3>1 DEF run_with_heartbeat
  <2> QED
    BY Zenon, <1>8, <2>1, <2>2 DEF run_with_heartbeat, client, LocalOK
<1>9. CASE commit_task_result(s)
  <2> DEFINE r == TaskResult(snap[s], task[s])
  <2>1. r \in Snapshot /\ last_completed_task_id(r, task[s]) \in Nodes
    BY Zenon, <1>0, ResultTypes
  <2>2. LocalOK'
    <3>1. CASE Fenced(s)
      BY ZenonT(30), <1>0, <1>9, <2>1, <3>1, Points DEF commit_task_result, Goto, LocalOK
    <3>2. CASE ~Fenced(s)
      BY Zenon, <1>0, <1>9, <2>1, <3>2, LocalTypes, Points DEF commit_task_result
    <3> QED
      BY <3>1, <3>2
  <2>3. /\ row' \in Snapshot /\ hints' \in [Workers -> SUBSET Nodes]
        /\ outs' \in [Nodes -> Nat]
    <3>1. CASE Fenced(s)
      BY Zenon, <1>9, <2>1, <3>1, TableTypes, OutputTypes DEF commit_task_result, TaskOutput
    <3>2. CASE ~Fenced(s)
      BY Zenon, <1>9, <3>2 DEF commit_task_result
    <3> QED
      BY Zenon, <3>1, <3>2
  <2> QED
    BY Zenon, <1>9, <2>2, <2>3 DEF commit_task_result, client, LocalOK
<1>10. CASE settle_failure(s)
  <2>1. LocalOK'
    BY Zenon, <1>0, <1>10, LocalTypes, Points DEF settle_failure
  <2>2. FailedSnapshot(s) \in Snapshot
    BY Zenon, <1>0, OperationTypes DEF FailedSnapshot
  <2>3. row' \in Snapshot /\ hints' \in [Workers -> SUBSET Nodes]
    BY Zenon, <1>10, <2>2, TableTypes DEF settle_failure
  <2>4. abandons' \in 0..MaxAbandons
    BY <1>10, PoolAssumption DEF settle_failure, PoolAssumption
  <2> QED
    BY Zenon, <1>10, <2>1, <2>3, <2>4 DEF settle_failure, client, LocalOK
<1>11. CASE consume_event(s)
  <2>1. LocalOK' /\ events' \in Seq(Nat \ {0})
    <3>1. CASE UNCHANGED <<hand, events>> /\ Goto(s, "release")
      BY Zenon, <1>0, <1>11, <3>1, LocalTypes, Points DEF consume_event
    <3>2. CASE /\ events # <<>> /\ events' = Tail(events)
               /\ hand' = [hand EXCEPT ![s] = Head(events)]
               /\ Goto(s, "drainSave")
      <4>1. Head(events) \in Nat /\ Tail(events) \in Seq(Nat \ {0})
        BY <3>2
      <4> QED
        BY Zenon, <1>0, <1>11, <3>2, <4>1, Points DEF consume_event, Goto, LocalOK
    <3> QED
      BY Zenon, <1>11, <3>1, <3>2 DEF consume_event
  <2> QED
    BY Zenon, <1>11, <2>1 DEF consume_event, client, LocalOK
<1>12. CASE drain_pending_signal(s)
  <2> DEFINE r == ResumeSignal(snap[s])
  <2>1. r \in Snapshot /\ snap[s].node \in Nodes
    BY Zenon, <1>0, ResultTypes DEF Snapshot
  <2>2. LocalOK'
    BY Zenon, <1>0, <1>12, <2>1, Points DEF drain_pending_signal, Goto, LocalOK
  <2>3. row' \in Snapshot /\ hints' \in [Workers -> SUBSET Nodes]
    BY Zenon, <1>12, <2>1, TableTypes DEF drain_pending_signal
  <2>4. outs' \in [Nodes -> Nat]
    BY Zenon, <1>12, <2>1, OutputTypes DEF drain_pending_signal
  <2> QED
    BY Zenon, <1>12, <2>2, <2>3, <2>4 DEF drain_pending_signal, client, LocalOK
<1>13. CASE release_task_claim(s)
  <2>1. LocalOK'
    BY Zenon, <1>0, <1>13, LocalTypes, Points DEF release_task_claim
  <2>2. claim' \in ClaimRow
    BY <1>13, ChainFacts DEF release_task_claim, NoClaim, ClaimRow
  <2> QED
    BY Zenon, <1>13, <2>1, <2>2 DEF release_task_claim, client, LocalOK
<1>14. CASE determine_post_task_status(s)
  <2>1. LocalOK'
    BY Zenon, <1>0, <1>14, LocalTypes, Points DEF determine_post_task_status
  <2>2. row' \in Snapshot /\ hints' \in [Workers -> SUBSET Nodes]
    BY Zenon, <1>0, <1>14, OperationTypes, TableTypes DEF determine_post_task_status
  <2> QED
    BY Zenon, <1>14, <2>1, <2>2 DEF determine_post_task_status, client, LocalOK
<1>15. CASE Abandon(s)
  <2>1. LocalOK'
    BY Zenon, <1>0, <1>15, LocalTypes, Points DEF Abandon
  <2>2. abandons' \in 0..MaxAbandons
    BY <1>15, PoolAssumption DEF Abandon, PoolAssumption
  <2> QED
    BY Zenon, <1>15, <2>1, <2>2 DEF Abandon, db, client, LocalOK
<1> QED
  BY Zenon, <1>1, <1>2, <1>3, <1>4, <1>5, <1>6, <1>7, <1>8, <1>9, <1>10, <1>11, <1>12,
     <1>13, <1>14, <1>15 DEF Work

\* So does the passing of time and every step of a client.
LEMMA EnvironmentTypes ==
    ASSUME TypeInv,
           \/ LeaseExpires \/ TimerElapses \/ unpause \/ send_event \/ deliver_event
           \/ \E k \in SignalKinds : store_signal(k)
    PROVE  TypeInv'
<1> USE DEF TypeInv, TypeOK
<1>1. CASE LeaseExpires
  <2>1. [claim EXCEPT !.live = FALSE] \in ClaimRow
    BY Zenon DEF ClaimRow
  <2>2. lapsed' \in [Slots -> BOOLEAN]
    BY Zenon, <1>1 DEF LeaseExpires
  <2> QED
    BY Zenon, <1>1, <2>1, <2>2 DEF LeaseExpires, client
<1>2. CASE TimerElapses
  BY Zenon, <1>2, OperationTypes, ChainFacts DEF TimerElapses, client, local
<1>3. CASE unpause
  <2>1. mark_unpaused(row) \in Snapshot
    BY Zenon, OperationTypes, ChainFacts
  <2>2. hints' \in [Workers -> SUBSET Nodes]
    BY Zenon, <1>3, <2>1, TableTypes DEF unpause
  <2> QED
    BY Zenon, <1>3, <2>1, <2>2 DEF unpause, client, local
<1>4. CASE send_event
  BY <1>4, PoolAssumption DEF send_event, PoolAssumption, db, local
<1>5. CASE deliver_event
  <2>1. CASE sender = "lock" /\ signal_resume_target
    <3>1. ResumeSignal(row) \in Snapshot /\ row.node \in Nodes
      BY Zenon, ResultTypes, ChainFacts DEF Snapshot
    <3>2. hints' \in [Workers -> SUBSET Nodes]
      BY Zenon, <1>5, <2>1, <3>1, TableTypes DEF deliver_event
    <3>3. outs' \in [Nodes -> Nat]
      BY <1>5, <2>1, <3>1, OutputTypes DEF deliver_event
    <3> QED
      BY Zenon, <1>5, <2>1, <3>1, <3>2, <3>3 DEF deliver_event, local
  <2>2. CASE ~(sender = "lock" /\ signal_resume_target)
    <3>1. sent \in Nat \ {0}
      BY <1>5, PoolAssumption DEF deliver_event, PoolAssumption
    <3>2. events' = Append(events, sent)
      BY Zenon, <1>5, <2>2 DEF deliver_event
    <3>3. events' \in Seq(Nat \ {0})
      <4> HIDE DEF TypeInv
      <4>1. \A S : \A q \in Seq(S) : \A x \in S : Append(q, x) \in Seq(S)
        OBVIOUS
      <4> QED
        BY Zenon, <3>1, <3>2, <4>1 DEF TypeInv
    <3> QED
      BY Zenon, <1>5, <2>2, <3>3 DEF deliver_event, local
  <2> QED
    BY Zenon, <2>1, <2>2
<1>6. ASSUME NEW k \in SignalKinds, store_signal(k)
      PROVE  TypeInv'
  BY Zenon, <1>6, PoolAssumption DEF store_signal, PoolAssumption, client, local
<1> QED
  BY Zenon, <1>1, <1>2, <1>3, <1>4, <1>5, <1>6

\* TypeInv is inductive.
LEMMA TypeInductive ==
    /\ Init => TypeInv
    /\ TypeInv /\ [Next]_vars => TypeInv'
<1>1. Init => TypeInv
  <2> HAVE Init
  <2>1. row \in Snapshot /\ outs \in [Nodes -> Nat] /\ claim \in ClaimRow
    BY FreshType, ChainFacts DEF Init, NoClaim, ClaimRow
  <2>2. /\ signals \subseteq {"Cancel", "Pause"} /\ events \in Seq(Nat \ {0})
        /\ sent \in 0..MaxEvents /\ abandons \in 0..MaxAbandons
        /\ sender = "idle"
    BY PoolAssumption DEF Init, PoolAssumption
  <2>3. hints \in [Workers -> SUBSET Nodes]
    BY ChainFacts DEF Init
  <2>4. LocalOK
    BY Zenon, FreshType, ChainFacts, Points DEF Init, LocalOK
  <2> QED
    BY Zenon, <2>1, <2>2, <2>3, <2>4 DEF TypeInv, TypeOK, LocalOK
<1>2. TypeInv /\ [Next]_vars => TypeInv'
  <2> SUFFICES ASSUME TypeInv, [Next]_vars
               PROVE  TypeInv'
    OBVIOUS
  <2>1. CASE UNCHANGED vars
    BY Zenon, <2>1 DEF TypeInv, TypeOK, vars
  <2>2. CASE Next
    BY Zenon, <2>2, SlotTypes, EnvironmentTypes DEF Next
  <2> QED
    BY <2>1, <2>2
<1> QED
  BY <1>1, <1>2

\* Every variable of every reachable state has its type.
THEOREM TypeCorrect == Spec => []TypeOK
<1>1. TypeInv => TypeOK
  BY DEF TypeInv
<1> QED
  BY <1>1, TypeInductive, PTL DEF Spec

-----------------------------------------------------------------------------
(* Terminal rows.                                                          *)

\* No step changes a terminal row: every save is guarded by the status of the
\* row, every other write requires it to be InProgress or Paused.
LEMMA TerminalStep == Next /\ row.status \in Terminal => row' = row
<1> SUFFICES ASSUME Next, row.status \in Terminal
             PROVE  row' = row
  OBVIOUS
<1>1. row.status # "InProgress" /\ row.status # "Paused"
  BY DEF Terminal
<1>2. \A r : exec_save_snapshot(r) => row' = row
  BY DEF exec_save_snapshot
<1>3. \A k : ~CanApply(k)
  BY <1>1 DEF CanApply
<1>4. ASSUME NEW s \in Slots,
             Work(s) \/ find_hinted_task(s) \/ run_with_heartbeat(s) \/ Abandon(s)
      PROVE  row' = row
  <2>1. CASE check_and_cancel(s) \/ check_and_pause(s)
    BY <1>3, <2>1 DEF check_and_cancel, check_and_pause
  <2>2. CASE commit_task_result(s) \/ settle_failure(s)
    BY Zenon, <1>2, <2>2 DEF commit_task_result, settle_failure
  <2>3. CASE advance_delay(s) \/ drain_pending_signal(s)
             \/ determine_post_task_status(s)
    BY Zenon, <1>2, <2>3
    DEF advance_delay, drain_pending_signal, determine_post_task_status
  <2> QED
    BY Zenon, <1>4, <2>1, <2>2, <2>3
    DEF Work, find_available_tasks, find_hinted_task, claim_task,
        check_control_signals, run_with_heartbeat, consume_event,
        release_task_claim, Abandon, db
<1>5. CASE LeaseExpires \/ TimerElapses \/ unpause \/ send_event
  BY <1>1, <1>5 DEF LeaseExpires, TimerElapses, unpause, send_event, db
<1>6. CASE deliver_event
  BY <1>1, <1>6 DEF deliver_event, signal_resume_target
<1>7. CASE \E k \in SignalKinds : store_signal(k)
  BY <1>7 DEF store_signal
<1> QED
  BY <1>4, <1>5, <1>6, <1>7 DEF Next

\* A terminal row is final, however many stale copies, late events and late
\* control signals reach it.
THEOREM TerminalFinal == Spec => TerminalIsFinal
<1>1. [Next]_vars => [row.status \in Terminal => row' = row]_vars
  BY TerminalStep
<1> QED
  BY <1>1, PTL DEF Spec, TerminalIsFinal

-----------------------------------------------------------------------------
(* What holds of each snapshot r, given the sidecar o.                     *)

\* The input of the task that r is at, or will be at after its delay, is in
\* the sidecar.
Fed(o, r) ==
    r.status \notin Terminal =>
        /\ r.kind = "AtTask" /\ r.node > 1 => o[r.node - 1] # 0
        /\ r.kind = "AtDelay" => o[r.node] # 0

\* What holds of the row and of every copy, given the sidecar o.
SnapInv(o, r) ==
    /\ Coherent(r)
    /\ r.status = "Completed" => r.done = Nodes
    /\ Fed(o, r)
    /\ r.att <= 1 \/ r.att <= MaxRetries

\* What a slot at program point l knows of its task n, copy r and event h.
PointInv(l, n, r, h) ==
    /\ l = "advance" => r.status = "InProgress" /\ r.kind = "AtDelay"
    /\ l \in {"found", "guard", "guardCancel", "guardPause", "running"} =>
          /\ r.status = "InProgress" /\ r.kind = "AtTask"
          /\ r.node = n /\ n \notin r.done
    /\ l = "drainSave" =>
          r.status = "InProgress" /\ r.kind = "AtSignal" /\ h # 0

\* The inductive invariant: of the row, of every copy and of every slot.
CopyInv ==
    /\ SnapInv(outs, row)
    /\ \A s \in Slots : /\ SnapInv(outs, snap[s])
                        /\ PointInv(pc[s], task[s], snap[s], hand[s])

\* Outputs of the sidecar are replaced, never removed.
Grows(o, p) == \A n \in Nodes : o[n] # 0 => p[n] # 0

\* The nodes up to n are those before n, and n.
LEMMA Intervals ==
    ASSUME NEW n \in Nodes
    PROVE  /\ (1..(n - 1)) \cup {n} = 1..n
           /\ (1..n) \cup {n + 1} = 1..(n + 1)
           /\ (n + 1) - 1 = n /\ n + 1 \notin 1..n
<1>1. n \in Nat /\ n > 0
  BY ChainFacts
<1> QED
  BY <1>1

\* A snapshot is still fed from a sidecar that has grown.
LEMMA FedGrows ==
    ASSUME NEW o, NEW p, NEW r \in Snapshot, Grows(o, p), SnapInv(o, r)
    PROVE  SnapInv(p, r)
<1>1. r.node \in Nodes /\ (r.node > 1 => r.node - 1 \in Nodes)
  BY ChainFacts DEF Snapshot, Nodes
<1> QED
  BY Zenon, <1>1 DEF SnapInv, Fed, Grows

\* The fresh snapshot needs no input.
LEMMA FreshInv ==
    ASSUME NEW o
    PROVE  SnapInv(o, FreshSnapshot)
BY ChainFacts DEF SnapInv, Fed, Coherent, FreshSnapshot, Terminal

\* The operations that leave position and results alone.
LEMMA StatusOps ==
    ASSUME NEW o, NEW r \in Snapshot, SnapInv(o, r), r.status \notin Terminal
    PROVE  /\ SnapInv(o, mark_failed(r)) /\ SnapInv(o, mark_cancelled(r))
           /\ SnapInv(o, mark_paused(r)) /\ SnapInv(o, mark_unpaused(r))
           /\ ~retries_exhausted(r) => SnapInv(o, record_retry(r))
           /\ SnapInv(o, [r EXCEPT !.due = TRUE])
           /\ r.done = Nodes => SnapInv(o, mark_completed(r))
<1>1. SnapInv(o, mark_failed(r)) /\ SnapInv(o, mark_cancelled(r))
  BY DEF SnapInv, Fed, Coherent, mark_failed, mark_cancelled, Snapshot, Terminal
<1>2. SnapInv(o, mark_paused(r)) /\ SnapInv(o, mark_unpaused(r))
  BY DEF SnapInv, Fed, Coherent, mark_paused, mark_unpaused, Snapshot, Terminal
<1>3. ~retries_exhausted(r) => SnapInv(o, record_retry(r))
  <2> DEFINE q == record_retry(r)
  <2>1. /\ q.status = r.status /\ q.kind = r.kind /\ q.node = r.node
        /\ q.done = r.done /\ q.att = r.att + 1
    BY DEF record_retry, Snapshot
  <2>2. ~retries_exhausted(r) => q.att <= 1 \/ q.att <= MaxRetries
    BY <2>1, PoolAssumption DEF retries_exhausted, Snapshot, PoolAssumption
  <2> HIDE DEF q
  <2>3. ~retries_exhausted(r) => SnapInv(o, q)
    BY Zenon, <2>1, <2>2 DEF SnapInv, Fed, Coherent, Terminal
  <2> QED
    BY <2>3 DEF q
<1>4. SnapInv(o, [r EXCEPT !.due = TRUE])
  BY DEF SnapInv, Fed, Coherent, Snapshot, Terminal
<1>5. r.done = Nodes => SnapInv(o, mark_completed(r))
  BY DEF SnapInv, Fed, Coherent, mark_completed, Snapshot, Terminal
<1> QED
  BY <1>1, <1>2, <1>3, <1>4, <1>5

\* Leaving an elapsed delay.
LEMMA DelayOps ==
    ASSUME NEW o, NEW r \in Snapshot, SnapInv(o, r),
           r.status = "InProgress", r.kind = "AtDelay"
    PROVE  LET q == LeavePark(r)
           IN  /\ SnapInv(o, q)
               /\ q.status = "InProgress" =>
                     q.kind = "AtTask" /\ q.node \notin q.done
<1>1. /\ r.node \in Nodes /\ r.done = 1..r.node /\ o[r.node] # 0
      /\ r.att <= 1 \/ r.att <= MaxRetries
  BY Zenon DEF SnapInv, Fed, Coherent, Snapshot, Terminal
<1>2. CASE r.node = N
  BY <1>1, <1>2, ChainFacts
  DEF LeavePark, mark_completed, SnapInv, Fed, Coherent, Snapshot, Terminal, Nodes
<1>3. CASE r.node # N
  <2> DEFINE q == LeavePark(r)
  <2>1. /\ q.status = "InProgress" /\ q.kind = "AtTask"
        /\ q.node = r.node + 1 /\ q.done = r.done /\ q.att = r.att
    BY <1>3 DEF LeavePark, Snapshot
  <2> HIDE DEF q
  <2>2. q.done = 1..(q.node - 1) /\ q.node \notin q.done /\ o[q.node - 1] # 0
    BY <1>1, <2>1, Intervals
  <2>3. SnapInv(o, q)
    BY Zenon, <1>1, <2>1, <2>2 DEF SnapInv, Fed, Coherent, Terminal
  <2> QED
    BY Zenon, <2>1, <2>2, <2>3 DEF q
<1> QED
  BY Zenon, <1>2, <1>3

\* Leaving a signal wait whose event has been recorded.
LEMMA SignalOps ==
    ASSUME NEW o, NEW p, NEW r \in Snapshot, SnapInv(o, r), Grows(o, p),
           r.status = "InProgress", r.kind = "AtSignal",
           r.node # N => p[r.node] # 0
    PROVE  SnapInv(p, ResumeSignal(r))
<1> DEFINE m == mark_task_completed(r, r.node)
<1>1. r.node \in Nodes /\ r.done = 1..(r.node - 1)
  BY DEF SnapInv, Coherent, Snapshot, Terminal
<1>2. /\ m \in Snapshot /\ m.status = "InProgress" /\ m.node = r.node
      /\ m.done = r.done \cup {r.node} /\ m.att = r.att
  BY ZenonT(30), <1>1, OperationTypes DEF mark_task_completed, Snapshot
<1>3. m.done = 1..m.node
  BY Zenon, <1>1, <1>2, Intervals
<1> HIDE DEF m
<1>4. SnapInv(p, LeavePark(m))
  <2>1. CASE m.node = N
    BY <1>2, <1>3, <2>1
    DEF LeavePark, mark_completed, SnapInv, Fed, Coherent, Snapshot, Terminal, Nodes
  <2>2. CASE m.node # N
    <3> DEFINE q == LeavePark(m)
    <3>1. /\ q.status = "InProgress" /\ q.kind = "AtTask"
          /\ q.node = m.node + 1 /\ q.done = m.done /\ q.att = r.att
      BY <1>2, <2>2 DEF LeavePark, Snapshot
    <3> HIDE DEF q
    <3>2. q.done = 1..(q.node - 1) /\ p[q.node - 1] # 0
      BY <1>1, <1>2, <1>3, <2>2, <3>1, Intervals
    <3>3. SnapInv(p, q)
      BY Zenon, <3>1, <3>2 DEF SnapInv, Fed, Coherent, Terminal
    <3> QED
      BY Zenon, <3>3 DEF q
  <2> QED
    BY Zenon, <2>1, <2>2
<1> QED
  BY <1>4 DEF ResumeSignal, m

\* Committing the result of the task a snapshot is at.
LEMMA CommitOps ==
    ASSUME NEW o, NEW p, NEW n \in Nodes, NEW r \in Snapshot,
           SnapInv(o, r), Grows(o, p),
           r.status = "InProgress", r.kind = "AtTask", r.node = n, n \notin r.done,
           p[last_completed_task_id(TaskResult(r, n), n)] # 0
    PROVE  SnapInv(p, TaskResult(r, n)) /\ TaskResult(r, n).status = "InProgress"
<1> DEFINE m == [mark_task_completed(r, n) EXCEPT !.att = 0, !.due = TRUE]
           q == TaskResult(r, n)
<1>1. r.done = 1..(n - 1)
  BY Zenon, ChainFacts DEF SnapInv, Coherent, Terminal
<1>2. /\ m.status = "InProgress" /\ m.kind = "AtTask" /\ m.node = n
      /\ m.done = r.done \cup {n} /\ m.att = 0
  BY DEF mark_task_completed, Snapshot
<1>3. m.done = 1..n
  BY ZenonT(30), <1>1, <1>2, Intervals
<1>4. m \in Snapshot
  BY Zenon, OperationTypes
<1>5. q = update_position_after_task(m, n)
  BY DEF TaskResult
<1> HIDE DEF m, q
<1>6. CASE n = N
  <2>1. q = m
    BY Zenon, <1>5, <1>6 DEF update_position_after_task
  <2>2. n > 1 => p[n - 1] # 0
    <3>1. n > 1 => o[n - 1] # 0 /\ n - 1 \in Nodes
      BY ChainFacts DEF SnapInv, Fed, Terminal, Nodes
    <3> QED
      BY Zenon, <3>1 DEF Grows
  <2>3. SnapInv(p, q)
    BY <1>2, <1>3, <1>6, <2>1, <2>2 DEF SnapInv, Fed, Coherent, Terminal, Nodes
  <2> QED
    BY Zenon, <1>2, <2>1, <2>3 DEF q
<1>7. CASE n # N
  <2>1. q = set_position_at(m, n + 1) /\ n + 1 \in Nodes
    BY Zenon, <1>5, <1>7, ChainFacts DEF update_position_after_task
  <2>2. CASE Chain[n + 1] = "delay"
    <3>1. /\ q.status = "InProgress" /\ q.kind = "AtDelay" /\ q.node = n + 1
          /\ q.done = m.done \cup {n + 1} /\ q.att = 0
      BY Zenon, <1>2, <1>4, <2>1, <2>2
      DEF set_position_at, mark_task_completed, Snapshot
    <3>2. q.done = 1..(n + 1)
      BY <1>3, <3>1, Intervals
    <3>3. p[n + 1] # 0
      BY Zenon, <3>1 DEF last_completed_task_id, q
    <3>4. SnapInv(p, q)
      <4>1. Coherent(q)
        BY Zenon, <3>1, <3>2 DEF Coherent
      <4>2. Fed(p, q)
        BY Zenon, <3>1, <3>3 DEF Fed
      <4>3. q.att <= 1
        BY <3>1
      <4> QED
        BY Zenon, <3>1, <4>1, <4>2, <4>3 DEF SnapInv
    <3> QED
      BY Zenon, <3>1, <3>4 DEF q
  <2>3. CASE Chain[n + 1] # "delay"
    <3>1. /\ q.status = "InProgress" /\ q.kind \in {"AtTask", "AtSignal"}
          /\ q.node = n + 1 /\ q.done = m.done /\ q.att = 0
      BY <1>2, <1>4, <2>1, <2>3 DEF set_position_at, Snapshot
    <3>2. q.done = 1..(q.node - 1) /\ q.node - 1 = n
      BY <1>3, <3>1, Intervals
    <3>3. p[n] # 0
      BY ZenonT(30), <3>1 DEF last_completed_task_id, q
    <3>4. SnapInv(p, q)
      BY <3>1, <3>2, <3>3 DEF SnapInv, Fed, Coherent, Terminal
    <3> QED
      BY Zenon, <3>1, <3>4 DEF q
  <2> QED
    BY Zenon, <2>2, <2>3
<1> QED
  BY Zenon, <1>6, <1>7

-----------------------------------------------------------------------------
(* CopyInv is inductive.                                                   *)

\* All slots but s keep what is their own.
OnlySlot(s) ==
    \A t \in Slots \ {s} : /\ pc'[t] = pc[t] /\ task'[t] = task[t]
                           /\ snap'[t] = snap[t] /\ hand'[t] = hand[t]

\* A step of one slot keeps CopyInv if it keeps what CopyInv says of the row
\* and of that slot.
LEMMA Frame ==
    ASSUME TypeInv, CopyInv, NEW s \in Slots, OnlySlot(s), Grows(outs, outs'),
           SnapInv(outs', row'), SnapInv(outs', snap'[s]),
           PointInv(pc'[s], task'[s], snap'[s], hand'[s])
    PROVE  CopyInv'
<1>1. ASSUME NEW t \in Slots, t # s
      PROVE  /\ SnapInv(outs', snap'[t])
             /\ PointInv(pc'[t], task'[t], snap'[t], hand'[t])
  <2>1. snap[t] \in Snapshot
    BY Zenon DEF TypeInv, TypeOK
  <2>2. SnapInv(outs', snap[t])
    BY ZenonT(30), <2>1, FedGrows DEF CopyInv
  <2> QED
    BY Zenon, <1>1, <2>2 DEF CopyInv, OnlySlot
<1> QED
  BY Zenon, <1>1 DEF CopyInv

\* A slot whose dispatch ends holds the fresh snapshot.
LEMMA Ended ==
    ASSUME TypeInv, NEW s \in Slots, EndDispatch(s)
    PROVE  /\ OnlySlot(s) /\ SnapInv(outs', snap'[s])
           /\ PointInv(pc'[s], task'[s], snap'[s], hand'[s])
<1>1. pc'[s] = "idle" /\ snap'[s] = FreshSnapshot
  BY Zenon DEF EndDispatch, Goto, TypeInv, TypeOK
<1>2. OnlySlot(s)
  BY Zenon DEF EndDispatch, Goto, TypeInv, TypeOK, OnlySlot
<1> QED
  BY Zenon, <1>1, <1>2, FreshInv DEF PointInv

\* A slot that moves to l and keeps its task and copy.
LEMMA Moved ==
    ASSUME TypeInv, NEW s \in Slots, NEW l,
           Goto(s, l), UNCHANGED <<task, snap, hand>>
    PROVE  OnlySlot(s) /\ pc'[s] = l
BY DEF Goto, TypeInv, TypeOK, OnlySlot

\* A slot that is handed the snapshot r.
LEMMA Dispatched ==
    ASSUME TypeInv, NEW s \in Slots, NEW r \in Snapshot, NEW l, Dispatch(s, r, l)
    PROVE  /\ OnlySlot(s) /\ pc'[s] = l /\ task'[s] = r.node /\ snap'[s] = r
           /\ hand'[s] = hand[s]
BY Zenon DEF Dispatch, Goto, TypeInv, TypeOK, OnlySlot

\* A save writes the row it is given, or leaves the row alone.
LEMMA Saved ==
    ASSUME NEW r, exec_save_snapshot(r)
    PROVE  row' = r \/ row' = row
BY DEF exec_save_snapshot

\* A step of one slot leaves the others where they are.
LEMMA OtherSlots ==
    ASSUME TypeInv, NEW s \in Slots,
           Work(s) \/ find_hinted_task(s) \/ run_with_heartbeat(s) \/ Abandon(s),
           NEW t \in Slots, t # s
    PROVE  pc'[t] = pc[t] /\ snap'[t] = snap[t]
<1>0. pc \in [Slots -> PCs] /\ snap \in [Slots -> Snapshot]
  BY Zenon DEF TypeInv, TypeOK
<1>1. ASSUME \/ UNCHANGED pc \/ \E l : Goto(s, l)
      PROVE  pc'[t] = pc[t]
  BY <1>0, <1>1 DEF Goto
<1>2. ASSUME \/ UNCHANGED snap \/ \E r : snap' = [snap EXCEPT ![s] = r]
      PROVE  snap'[t] = snap[t]
  BY Zenon, <1>0, <1>2
<1>3. \/ UNCHANGED pc \/ \E l : Goto(s, l)
  BY Zenon DEF Work, find_available_tasks, find_hinted_task, advance_delay, claim_task,
         check_control_signals, check_and_cancel, check_and_pause,
         commit_task_result, settle_failure, consume_event, drain_pending_signal,
         release_task_claim, determine_post_task_status, run_with_heartbeat,
         Abandon, Dispatch, EndDispatch, local
<1>4. \/ UNCHANGED snap \/ \E r : snap' = [snap EXCEPT ![s] = r]
  BY Zenon DEF Work, find_available_tasks, find_hinted_task, advance_delay, claim_task,
         check_control_signals, check_and_cancel, check_and_pause,
         commit_task_result, settle_failure, consume_event, drain_pending_signal,
         release_task_claim, determine_post_task_status, run_with_heartbeat,
         Abandon, Dispatch, EndDispatch, local
<1> QED
  BY Zenon, <1>1, <1>2, <1>3, <1>4

\* Every step of a slot keeps CopyInv.
LEMMA SlotCopies ==
    ASSUME TypeInv, CopyInv, NEW s \in Slots,
           Work(s) \/ find_hinted_task(s) \/ run_with_heartbeat(s) \/ Abandon(s)
    PROVE  CopyInv'
<1>0. /\ row \in Snapshot /\ snap[s] \in Snapshot /\ task[s] \in Nodes
      /\ outs \in [Nodes -> Nat] /\ hand[s] \in Nat
      /\ SnapInv(outs, row) /\ SnapInv(outs, snap[s])
      /\ PointInv(pc[s], task[s], snap[s], hand[s])
  BY Zenon DEF TypeInv, TypeOK, CopyInv
<1>g. Grows(outs, outs) /\ (outs' = outs => Grows(outs, outs'))
  BY DEF Grows
<1>1. CASE find_available_tasks(s)
  <2>1. outs' = outs /\ row' = row
    BY Zenon, <1>1 DEF find_available_tasks, db
  <2>2. CASE row.kind = "AtTask" /\ row.node \notin row.done /\ Dispatch(s, row, "found")
    <3>1. PointInv("found", row.node, row, hand[s])
      BY Zenon, <1>1, <2>2 DEF find_available_tasks, PointInv
    <3>2. /\ OnlySlot(s) /\ pc'[s] = "found" /\ task'[s] = row.node /\ snap'[s] = row
          /\ hand'[s] = hand[s]
      BY Zenon, <1>0, <2>2, Dispatched
    <3> QED
      BY Zenon, <1>0, <1>g, <2>1, <3>1, <3>2, Frame
  <2>3. CASE row.kind = "AtDelay" /\ Dispatch(s, row, "advance")
    <3>1. PointInv("advance", row.node, row, hand[s])
      BY Zenon, <1>1, <2>3 DEF find_available_tasks, PointInv
    <3>2. /\ OnlySlot(s) /\ pc'[s] = "advance" /\ task'[s] = row.node /\ snap'[s] = row
          /\ hand'[s] = hand[s]
      BY Zenon, <1>0, <2>3, Dispatched
    <3> QED
      BY Zenon, <1>0, <1>g, <2>1, <3>1, <3>2, Frame
  <2> QED
    BY ZenonT(30), <1>1, <2>2, <2>3 DEF find_available_tasks
<1>2. CASE advance_delay(s)
  <2> DEFINE r == LeavePark(snap[s])
  <2>1. r \in Snapshot
    BY Zenon, <1>0, OperationTypes
  <2>2. snap[s].status = "InProgress" /\ snap[s].kind = "AtDelay"
    BY Zenon, <1>0, <1>2 DEF advance_delay, PointInv
  <2>3. /\ SnapInv(outs, r)
        /\ r.status = "InProgress" => r.kind = "AtTask" /\ r.node \notin r.done
    BY Zenon, <1>0, <2>2, DelayOps
  <2>4. outs' = outs /\ exec_save_snapshot(r)
    BY Zenon, <1>2 DEF advance_delay
  <2>5. r.status = "InProgress" => Dispatch(s, r, "found")
    BY ZenonT(30), <1>2 DEF advance_delay
  <2>6. r.status # "InProgress" => EndDispatch(s)
    BY Zenon, <1>2 DEF advance_delay
  <2> HIDE DEF r
  <2>7. SnapInv(outs', row')
    BY Zenon, <1>0, <2>3, <2>4, Saved
  <2>8. CASE r.status = "InProgress"
    <3>1. PointInv("found", r.node, r, hand[s])
      BY Zenon, <2>3, <2>8 DEF PointInv
    <3>2. /\ OnlySlot(s) /\ pc'[s] = "found" /\ task'[s] = r.node /\ snap'[s] = r
          /\ hand'[s] = hand[s]
      BY Zenon, <2>1, <2>5, <2>8, Dispatched
    <3> QED
      BY Zenon, <1>g, <2>3, <2>4, <2>7, <3>1, <3>2, Frame
  <2>9. CASE r.status # "InProgress"
    BY Zenon, <1>g, <2>4, <2>6, <2>7, <2>9, Ended, Frame
  <2> QED
    BY <2>8, <2>9
<1>3. CASE find_hinted_task(s)
  <2>1. outs' = outs /\ row' = row
    BY Zenon, <1>3 DEF find_hinted_task
  <2>2. CASE UNCHANGED local
    BY Zenon, <2>1, <2>2 DEF local, CopyInv
  <2>3. CASE /\ Dispatch(s, row, "found") /\ row.status = "InProgress"
             /\ row.kind = "AtTask" /\ row.node \notin row.done
    <3>1. PointInv("found", row.node, row, hand[s])
      BY Zenon, <2>3 DEF PointInv
    <3>2. /\ OnlySlot(s) /\ pc'[s] = "found" /\ task'[s] = row.node /\ snap'[s] = row
          /\ hand'[s] = hand[s]
      BY Zenon, <1>0, <2>3, Dispatched
    <3> QED
      BY Zenon, <1>0, <1>g, <2>1, <3>1, <3>2, Frame
  <2> QED
    BY Zenon, <1>3, <2>2, <2>3 DEF find_hinted_task
<1>4. CASE claim_task(s)
  <2>1. outs' = outs /\ row' = row
    BY Zenon, <1>4 DEF claim_task
  <2>2. CASE Goto(s, "guard") /\ UNCHANGED <<task, snap, hand, lapsed>>
    <3>1. PointInv("guard", task[s], snap[s], hand[s])
      BY Zenon, <1>0, <1>4 DEF claim_task, PointInv
    <3> QED
      BY Zenon, <1>0, <1>g, <2>1, <2>2, <3>1, Moved, Frame
  <2>3. CASE EndDispatch(s)
    BY Zenon, <1>0, <1>g, <2>1, <2>3, Ended, Frame
  <2> QED
    BY Zenon, <1>4, <2>2, <2>3 DEF claim_task
<1>5. CASE check_control_signals(s)
  <2>1. outs' = outs /\ row' = row /\ UNCHANGED <<task, snap, hand>>
    BY <1>5 DEF check_control_signals, db
  <2>2. PICK l : /\ Goto(s, l)
                 /\ l \in {"running", "guardCancel"} => pc[s] = "guard"
                 /\ l \in {"running", "guardCancel", "complete", "postCancel"}
    BY <1>5 DEF check_control_signals
  <2>3. PointInv(l, task[s], snap[s], hand[s])
    BY Zenon, <1>0, <2>2 DEF PointInv
  <2> QED
    BY Zenon, <1>0, <1>g, <2>1, <2>2, <2>3, Moved, Frame
<1>6. CASE check_and_cancel(s)
  <2>1. outs' = outs
    BY <1>6 DEF check_and_cancel
  <2>2. SnapInv(outs', row')
    BY Zenon, <1>0, <1>6, <2>1, StatusOps
    DEF check_and_cancel, CanApply, Apply, Terminal
  <2>3. CASE EndDispatch(s)
    BY Zenon, <1>g, <2>1, <2>2, <2>3, Ended, Frame
  <2>4. ASSUME NEW l, Goto(s, l), UNCHANGED <<task, snap, hand, lapsed>>,
               l = "guardPause" => pc[s] = "guardCancel",
               l \in {"quiet", "guardPause", "postPause"}
        PROVE  CopyInv'
    <3>1. PointInv(l, task[s], snap[s], hand[s])
      BY Zenon, <1>0, <2>4 DEF PointInv
    <3> QED
      BY Zenon, <1>0, <1>g, <2>1, <2>2, <2>4, <3>1, Moved, Frame
  <2> QED
    BY <1>6, <2>3, <2>4 DEF check_and_cancel
<1>7. CASE check_and_pause(s)
  <2>1. outs' = outs
    BY <1>7 DEF check_and_pause
  <2>2. SnapInv(outs', row')
    BY ZenonT(30), <1>0, <1>7, <2>1, StatusOps
    DEF check_and_pause, CanApply, Apply, Terminal
  <2>3. CASE EndDispatch(s)
    BY Zenon, <1>g, <2>1, <2>2, <2>3, Ended, Frame
  <2>4. ASSUME NEW l, Goto(s, l), UNCHANGED <<task, snap, hand, lapsed>>,
               l = "running" => pc[s] = "guardPause",
               l \in {"quiet", "running", "complete"}
        PROVE  CopyInv'
    <3>1. PointInv(l, task[s], snap[s], hand[s])
      BY Zenon, <1>0, <2>4 DEF PointInv
    <3> QED
      BY Zenon, <1>0, <1>g, <2>1, <2>2, <2>4, <3>1, Moved, Frame
  <2> QED
    BY <1>7, <2>3, <2>4 DEF check_and_pause
<1>8. CASE run_with_heartbeat(s)
  <2>1. outs' = outs /\ row' = row
    BY <1>8 DEF run_with_heartbeat
  <2>2. CASE Goto(s, "quietCancel") /\ UNCHANGED <<task, snap, hand, lapsed>>
    <3>1. PointInv("quietCancel", task[s], snap[s], hand[s])
      BY Zenon DEF PointInv
    <3> QED
      BY Zenon, <1>0, <1>g, <2>1, <2>2, <3>1, Moved, Frame
  <2>3. CASE UNCHANGED <<pc, task, snap, hand>>
    BY ZenonT(30), <2>1, <2>3 DEF CopyInv
  <2>4. CASE EndDispatch(s)
    BY Zenon, <1>0, <1>g, <2>1, <2>4, Ended, Frame
  <2> QED
    BY <1>8, <2>2, <2>3, <2>4 DEF run_with_heartbeat
<1>9. CASE commit_task_result(s)
  <2> DEFINE r == TaskResult(snap[s], task[s])
             n == last_completed_task_id(r, task[s])
  <2>1. CASE ~Fenced(s)
    <3>1. outs' = outs /\ row' = row /\ EndDispatch(s)
      BY Zenon, <1>9, <2>1 DEF commit_task_result
    <3> QED
      BY Zenon, <1>0, <1>g, <3>1, Ended, Frame
  <2>2. CASE Fenced(s)
    <3>1. /\ exec_save_snapshot(r) /\ ship_output(n, TaskOutput)
          /\ snap' = [snap EXCEPT ![s] = r] /\ Goto(s, "drain")
          /\ UNCHANGED <<task, hand>>
      BY Zenon, <1>9, <2>2 DEF commit_task_result
    <3>2. r \in Snapshot /\ n \in Nodes
      BY Zenon, <1>0, ResultTypes
    <3>3. Grows(outs, outs') /\ outs'[n] # 0
      <4>1. TaskOutput # 0
        BY DEF TaskOutput
      <4> QED
        BY Zenon, <1>0, <3>1, <3>2, <4>1 DEF ship_output, Grows
    <3>4. /\ snap[s].status = "InProgress" /\ snap[s].kind = "AtTask"
          /\ snap[s].node = task[s] /\ task[s] \notin snap[s].done
      BY Zenon, <1>0, <1>9 DEF commit_task_result, PointInv
    <3>5. SnapInv(outs', r)
      BY Zenon, <1>0, <3>3, <3>4, CommitOps
    <3> HIDE DEF r, n
    <3>6. SnapInv(outs', row')
      BY Zenon, <1>0, <3>1, <3>3, <3>5, Saved, FedGrows
    <3>7. OnlySlot(s) /\ pc'[s] = "drain" /\ snap'[s] = r
      BY Zenon, <3>1 DEF Goto, OnlySlot, TypeInv, TypeOK
    <3>8. PointInv("drain", task'[s], snap'[s], hand'[s])
      BY Zenon DEF PointInv
    <3> QED
      BY Zenon, <3>3, <3>5, <3>6, <3>7, <3>8, Frame
  <2> QED
    BY <2>1, <2>2
<1>10. CASE settle_failure(s)
  <2>1. outs' = outs /\ Goto(s, "quiet") /\ UNCHANGED <<task, snap, hand>>
    BY Zenon, <1>10 DEF settle_failure
  <2>2. SnapInv(outs, FailedSnapshot(s))
    <3>1. snap[s].status \notin Terminal
      BY Zenon, <1>0, <1>10 DEF settle_failure, PointInv, Terminal
    <3> QED
      BY Zenon, <1>0, <3>1, StatusOps DEF FailedSnapshot, try_schedule_retry
  <2>3. SnapInv(outs', row')
    BY Zenon, <1>0, <1>10, <2>1, <2>2, Saved DEF settle_failure
  <2>4. PointInv("quiet", task[s], snap[s], hand[s])
    BY Zenon DEF PointInv
  <2> QED
    BY Zenon, <1>0, <1>g, <2>1, <2>3, <2>4, Moved, Frame
<1>11. CASE consume_event(s)
  <2>1. outs' = outs /\ row' = row /\ UNCHANGED <<task, snap>>
    BY Zenon, <1>11 DEF consume_event
  <2>2. CASE UNCHANGED hand /\ Goto(s, "release")
    <3>1. PointInv("release", task[s], snap[s], hand[s])
      BY Zenon DEF PointInv
    <3> QED
      BY Zenon, <1>0, <1>g, <2>1, <2>2, <3>1, Moved, Frame
  <2>3. CASE /\ snap[s].status = "InProgress" /\ snap[s].kind = "AtSignal"
             /\ events # <<>> /\ hand' = [hand EXCEPT ![s] = Head(events)]
             /\ Goto(s, "drainSave")
    <3>1. Head(events) # 0
      BY <2>3 DEF TypeInv, TypeOK
    <3>2. OnlySlot(s) /\ pc'[s] = "drainSave" /\ hand'[s] = Head(events)
      BY Zenon, <2>1, <2>3 DEF Goto, OnlySlot, TypeInv, TypeOK
    <3>3. PointInv("drainSave", task[s], snap[s], hand'[s])
      BY Zenon, <2>3, <3>1, <3>2 DEF PointInv
    <3> QED
      BY Zenon, <1>0, <1>g, <2>1, <3>2, <3>3, Frame
  <2> QED
    BY Zenon, <1>11, <2>2, <2>3 DEF consume_event
<1>12. CASE drain_pending_signal(s)
  <2> DEFINE r == ResumeSignal(snap[s])
  <2>1. /\ snap[s].status = "InProgress" /\ snap[s].kind = "AtSignal"
        /\ hand[s] # 0 /\ snap[s].node \in Nodes
    BY Zenon, <1>0, <1>12 DEF drain_pending_signal, PointInv, Snapshot
  <2>2. /\ exec_save_snapshot(r) /\ snap' = [snap EXCEPT ![s] = r]
        /\ hand' = [hand EXCEPT ![s] = 0] /\ Goto(s, "drain") /\ UNCHANGED task
    BY Zenon, <1>12 DEF drain_pending_signal
  <2>3. snap[s].node # N => r.status = "InProgress"
    BY <1>0, <2>1
    DEF ResumeSignal, LeavePark, mark_task_completed, Snapshot
  <2>4. Grows(outs, outs') /\ (snap[s].node # N => outs'[snap[s].node] # 0)
    BY Zenon, <1>0, <1>12, <2>1, <2>3 DEF drain_pending_signal, ship_output, Grows
  <2>5. SnapInv(outs', r)
    BY Zenon, <1>0, <2>1, <2>4, SignalOps
  <2> HIDE DEF r
  <2>6. SnapInv(outs', row')
    BY Zenon, <1>0, <2>2, <2>4, <2>5, Saved, FedGrows
  <2>7. OnlySlot(s) /\ pc'[s] = "drain" /\ snap'[s] = r
    BY Zenon, <2>2 DEF Goto, OnlySlot, TypeInv, TypeOK
  <2>8. PointInv("drain", task'[s], snap'[s], hand'[s])
    BY Zenon DEF PointInv
  <2> QED
    BY Zenon, <2>4, <2>5, <2>6, <2>7, <2>8, Frame
<1>13. CASE release_task_claim(s)
  <2>1. outs' = outs /\ row' = row
    BY <1>13 DEF release_task_claim
  <2>2. CASE EndDispatch(s)
    BY <1>0, <1>g, <2>1, <2>2, Ended, Frame
  <2>3. ASSUME NEW l \in {"post", "cancelling"},
               Goto(s, l), UNCHANGED <<task, snap, hand, lapsed>>
        PROVE  CopyInv'
    <3>1. PointInv(l, task[s], snap[s], hand[s])
      BY Zenon DEF PointInv
    <3> QED
      BY Zenon, <1>0, <1>g, <2>1, <2>3, <3>1, Moved, Frame
  <2> QED
    BY <1>13, <2>2, <2>3 DEF release_task_claim
<1>14. CASE determine_post_task_status(s)
  <2>1. outs' = outs /\ EndDispatch(s)
    BY Zenon, <1>14 DEF determine_post_task_status
  <2>2. SnapInv(outs', row')
    <3>1. CASE is_workflow_complete(snap[s])
      <4>1. SnapInv(outs, mark_completed(snap[s]))
        BY Zenon, <1>0, <3>1, StatusOps DEF is_workflow_complete, Terminal
      <4> QED
        BY Zenon, <1>0, <1>14, <2>1, <3>1, <4>1, Saved DEF determine_post_task_status
    <3>2. CASE ~is_workflow_complete(snap[s])
      BY ZenonT(30), <1>0, <1>14, <2>1, <3>2 DEF determine_post_task_status
    <3> QED
      BY <3>1, <3>2
  <2> QED
    BY Zenon, <1>g, <2>1, <2>2, Ended, Frame
<1>15. CASE Abandon(s)
  <2>1. outs' = outs /\ row' = row /\ EndDispatch(s)
    BY <1>15 DEF Abandon, db
  <2> QED
    BY Zenon, <1>0, <1>g, <2>1, Ended, Frame
<1> QED
  BY Zenon, <1>1, <1>2, <1>3, <1>4, <1>5, <1>6, <1>7, <1>8, <1>9, <1>10, <1>11, <1>12,
     <1>13, <1>14, <1>15 DEF Work

\* So does the passing of time and every step of a client.
LEMMA EnvironmentCopies ==
    ASSUME TypeInv, CopyInv,
           \/ LeaseExpires \/ TimerElapses \/ unpause \/ send_event \/ deliver_event
           \/ \E k \in SignalKinds : store_signal(k)
    PROVE  CopyInv'
<1>0. /\ row \in Snapshot /\ outs \in [Nodes -> Nat] /\ SnapInv(outs, row)
      /\ \A s \in Slots : snap[s] \in Snapshot
  BY Zenon DEF TypeInv, TypeOK, CopyInv
<1>1. UNCHANGED <<pc, task, snap, hand>>
  BY Zenon DEF LeaseExpires, TimerElapses, unpause, send_event, deliver_event,
         store_signal, local
<1>2. ASSUME Grows(outs, outs'), SnapInv(outs', row')
      PROVE  CopyInv'
  BY Zenon, <1>0, <1>1, <1>2, FedGrows DEF CopyInv
<1>3. outs' = outs => Grows(outs, outs')
  BY DEF Grows
<1>4. CASE LeaseExpires \/ send_event \/ \E k \in SignalKinds : store_signal(k)
  <2>1. outs' = outs /\ row' = row
    BY Zenon, <1>4 DEF LeaseExpires, send_event, store_signal, db
  <2> QED
    BY <1>0, <1>2, <1>3, <2>1
<1>5. CASE TimerElapses
  BY <1>0, <1>2, <1>3, <1>5, StatusOps DEF TimerElapses
<1>6. CASE unpause
  BY Zenon, <1>0, <1>2, <1>3, <1>6, StatusOps DEF unpause, Terminal
<1>7. CASE deliver_event
  <2>1. CASE sender = "lock" /\ signal_resume_target
    <3>1. row.node \in Nodes /\ sent \in Nat /\ sent # 0
      BY <1>0, <1>7, <2>1, PoolAssumption
      DEF deliver_event, TypeInv, TypeOK, Snapshot, PoolAssumption
    <3>2. Grows(outs, outs') /\ outs'[row.node] # 0
      BY Zenon, <1>0, <1>7, <2>1, <3>1 DEF deliver_event, ship_output, Grows
    <3>3. SnapInv(outs', ResumeSignal(row))
      BY Zenon, <1>0, <2>1, <3>2, SignalOps DEF signal_resume_target
    <3> QED
      BY Zenon, <1>2, <1>7, <2>1, <3>2, <3>3 DEF deliver_event
  <2>2. CASE ~(sender = "lock" /\ signal_resume_target)
    BY Zenon, <1>0, <1>2, <1>3, <1>7, <2>2 DEF deliver_event
  <2> QED
    BY <2>1, <2>2
<1> QED
  BY <1>4, <1>5, <1>6, <1>7

\* CopyInv, with the types, is inductive.
LEMMA CopyInductive ==
    /\ Init => CopyInv
    /\ TypeInv /\ CopyInv /\ [Next]_vars => CopyInv'
<1>1. Init => CopyInv
  BY Zenon, FreshInv DEF Init, CopyInv, PointInv
<1>2. TypeInv /\ CopyInv /\ [Next]_vars => CopyInv'
  <2> SUFFICES ASSUME TypeInv, CopyInv, [Next]_vars
               PROVE  CopyInv'
    OBVIOUS
  <2>1. CASE UNCHANGED vars
    BY Zenon, <2>1 DEF CopyInv, vars
  <2>2. CASE Next
    BY <2>2, SlotCopies, EnvironmentCopies DEF Next
  <2> QED
    BY <2>1, <2>2
<1> QED
  BY <1>1, <1>2

\* CopyInv holds in every reachable state.
THEOREM CopiesInvariant == Spec => []CopyInv
BY TypeInductive, CopyInductive, PTL DEF Spec

\* For every chain: the results a snapshot lists are those its position says,
\* in the row and in each copy.
THEOREM CoherentSnapshots == Spec => []SnapshotsCoherent
<1>1. CopyInv => SnapshotsCoherent
  BY Zenon DEF CopyInv, SnapInv, SnapshotsCoherent
<1> QED
  BY <1>1, CopiesInvariant, PTL

\* For every chain: a Completed workflow has the result of every node.
THEOREM CompletedIsDone == Spec => []CompletedMeansDone
<1>1. CopyInv => CompletedMeansDone
  BY Zenon DEF CopyInv, SnapInv, CompletedMeansDone
<1> QED
  BY <1>1, CopiesInvariant, PTL

\* For every chain: a dispatched task finds its input in the sidecar.
THEOREM InputsDurable == Spec => []InputIsDurable
<1>1. CopyInv => InputIsDurable
  BY Zenon DEF CopyInv, SnapInv, PointInv, Fed, InputIsDurable, Terminal
<1> QED
  BY <1>1, CopiesInvariant, PTL

\* A policy that allows at least one retry is never exceeded.
THEOREM RetriesBounded ==
    ASSUME MaxRetries > 0
    PROVE  Spec => []AttemptsBounded
<1>1. TypeInv /\ CopyInv => AttemptsBounded
  BY PoolAssumption
  DEF TypeInv, TypeOK, Snapshot, CopyInv, SnapInv, AttemptsBounded, PoolAssumption
<1> QED
  BY <1>1, TypeInductive, CopiesInvariant, PTL DEF Spec

=============================================================================
