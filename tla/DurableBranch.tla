--------------------------- MODULE DurableBranch ----------------------------
(***************************************************************************)
(* The steps that the two branch executors of the runtime share: the ones  *)
(* that run a fork branch or a routed arm.  A branch frame reads and marks *)
(* a snapshot of its own, loaded when its call started; a task's result    *)
(* goes to the store alone, and a node with a subtree saves the whole      *)
(* snapshot of its frame.                                                  *)
(***************************************************************************)
EXTENDS Durable

Own(t) == Top(t).snap
WithSnap(t, s) == [Top(t) EXCEPT !.snap = s]
DoBranch(t, r, s) == Do(t, r, mem, s, sigs)

(* The call begins: load the stored snapshot. *)
load_snapshot(t) ==
  /\ t \in DOMAIN th /\ Stk(t) # <<>> /\ Top(t).pc = "load"
  /\ DoBranch(t, SetTop(t, [WithSnap(t, store) EXCEPT !.pc = "enter"]), store)

(* branch_execute_or_skip_task under the retry loop: attempts are counted   *)
(* in the frame's snapshot only, the result is saved to the store only.     *)
branch_task_step(t) ==
  LET f == Top(t) n == f.at v == Apply(n.id, f.val)
      again == [f EXCEPT !.snap = record_retry(Own(t), n.id)]
  IN \/ /\ Here(t, "branch", "Task", "enter")
        /\ IF Cached(Own(t), n.id) THEN DoBranch(t, Advance(Stk(t), Own(t).done[n.id]), store)
           ELSE DoBranch(t, SetTop(t, [f EXCEPT !.pc = "exec"]), store)
     \/ /\ Here(t, "branch", "Task", "exec")
        /\ \/ DoRun(t, SetTop(t, [f EXCEPT !.pc = "save", !.val = v,
                                    !.snap = clear_retry_state(@, n.id)]), mem, n, v)
           \/ /\ MayFail(n)
              /\ IF n.n > 0 /\ ~retries_exhausted(Own(t), n)
                 THEN DoFail(t, SetTop(t, again), mem, store)
                 ELSE DoFail(t, Throw(Stk(t), "Error"), mem, store)
     \/ /\ Here(t, "branch", "Task", "save")
        /\ DoBranch(t, Advance(Stk(t), f.val), save_task_result(store, n.id, f.val))

(* save_branch_park_checkpoint: a delay leaves its result in the store and  *)
(* no position; a signal leaves nothing, and nothing consumes its event.    *)
branch_delay_step(t) ==
  LET f == Top(t) n == f.at
  IN /\ Here(t, "branch", "Delay", "enter")
     /\ IF Cached(Own(t), n.id) THEN DoBranch(t, Advance(Stk(t), Own(t).done[n.id]), store)
        ELSE DoDelay(t, Throw(Stk(t), "Waiting"), mem, save_task_result(store, n.id, f.val), n.id)

branch_signal_step(t) ==
  LET n == Top(t).at
  IN /\ Here(t, "branch", "AwaitSignal", "enter")
     /\ IF Cached(Own(t), n.id) THEN DoBranch(t, Advance(Stk(t), Own(t).done[n.id]), store)
        ELSE DoBranch(t, Throw(Stk(t), "AwaitingSignal"), store)

(* A node with a subtree inside a branch: skip, fail or call. *)
BranchEnterOrSkip(t, kind, f, sub) ==
  LET n == Top(t).at
  IN /\ Here(t, "branch", kind, "enter")
     /\ IF Cached(Own(t), n.id) THEN DoBranch(t, Advance(Stk(t), Own(t).done[n.id]), store)
        ELSE IF sub = <<>> THEN DoBranch(t, Throw(Stk(t), "Error"), store)
        ELSE DoBranch(t, Call(t, f, sub[1], Top(t).val, "branch"), store)

(* Save the frame's whole snapshot with v as the node's result. *)
SaveOwn(t, kind, v) ==
  LET s == mark_task_completed(Own(t), Top(t).at.id, v)
  IN /\ Here(t, "branch", kind, "back")
     /\ DoBranch(t, Advance(ReplaceTop(Stk(t), WithSnap(t, s)), v), s)

branch_child_step(t) ==
  \/ BranchEnterOrSkip(t, "ChildWorkflow", Waits(t), Top(t).at.subs)
  \/ SaveOwn(t, "ChildWorkflow", Top(t).ret)

branch_loop_entry(t) ==
  LET n == Top(t).at i == loop_iteration(Own(t), n.id)
  IN BranchEnterOrSkip(t, "Loop", [Waits(t) EXCEPT !.i = i],
                       IF i < n.n THEN n.subs ELSE <<>>)

(* run_loop_async with CheckpointingLoopHooks: as the main loop, on the     *)
(* frame's snapshot and without a position.                                *)
branch_loop_step(t) ==
  LET f == Top(t) n == f.at
      s == remove_task_results(Own(t), AllIds(n.subs[1]))
      d == LoopDecision(n, f.ret, f.i)
      exit == LoopExit(s, n, f.ret)
      next == set_loop_iteration(s, n.id, f.i + 1)
  IN \/ branch_loop_entry(t)
     \/ /\ Here(t, "branch", "Loop", "back")
        /\ CASE d = "exit" -> DoBranch(t, Advance(ReplaceTop(Stk(t), WithSnap(t, exit)), f.ret), exit)
             [] d = "next" ->
                  DoBranch(t, Call(t, [Waits(t) EXCEPT !.i = f.i + 1, !.snap = next],
                                   n.subs[1], f.ret, "branch"), next)
             [] OTHER -> DoBranch(t, Throw(Stk(t), "Error"), store)

(* ---- forks ------------------------------------------------------------ *)

Result(id, v) == [id |-> id, v |-> v]

(* The branches of fork n that snapshot s has a result for: a branch goes   *)
(* by the id of its first node.                                             *)
CachedBranches(s, n) == SelectSeq(n.subs, LAMBDA b : Cached(s, b.id))
(* Faulty variant: results are named by their place among the cached ones. *)
collect_cached_by_place(s, n) ==
  LET bs == CachedBranches(s, n)
  IN [k \in DOMAIN bs |-> Result(n.subs[k].id, s.done[bs[k].id])]
collect_cached_branches(s, n) ==
  LET bs == CachedBranches(s, n)
  IN [k \in DOMAIN bs |-> Result(bs[k].id, s.done[bs[k].id])]
AllCached(s, n) == Len(CachedBranches(s, n)) = Len(n.subs)

(* mark_task_completed for every result in turn: of two with the same id,   *)
(* the later one stays.                                                     *)
LastOf(results, id) ==
  CHOOSE k \in DOMAIN results :
    results[k].id = id /\ \A j \in DOMAIN results : results[j].id = id => j <= k
MarkAll(s, results) ==
  IF s.st # "InProgress" \/ results = <<>> THEN s
  ELSE [s EXCEPT !.done = [id \in {results[k].id : k \in DOMAIN results} |->
                             results[LastOf(results, id)].v] @@ @,
                 !.last = results[Len(results)].id]

(* Past the fork: on to the join, or out of the call with the last result. *)
Joined(stk, results) ==
  LET j == resolve_join(TopOf(stk).at, results)
  IN IF j.ok THEN Advance(stk, j.v) ELSE Throw(stk, "Error")

(* Faulty variant: the position is put on the snapshot the fork started with. *)
park_at_fork_stale(t) ==
  LET s == update_position(mem, At("AtFork", Top(t).at.id, ""))
  IN Do(t, Throw(Stk(t), "Waiting"), s, s, sigs)
(* park_at_fork saves the branch results one by one; then it reloads what   *)
(* the branches have saved, which the process takes over; then it puts the  *)
(* position on it and saves that.                                           *)
park_at_fork(t) ==
  LET f == Top(t) s == update_position(mem, At("AtFork", f.at.id, ""))
      next == SetTop(t, [f EXCEPT !.i = @ + 1])
  IN IF f.i < Len(f.acc)
     THEN DoBranch(t, next, save_task_result(store, f.acc[f.i + 1].id, f.acc[f.i + 1].v))
     ELSE IF f.i = Len(f.acc) THEN Do(t, next, store, store, sigs)
     ELSE Do(t, Throw(Stk(t), "Waiting"), s, s, sigs)

(* save_join_position, from the process's snapshot. *)
save_join_position(t) ==
  LET f == Top(t) n == f.at m == MarkAll(mem, f.acc)
  IN IF n.next = <<>> THEN m
     ELSE update_position(m, At("AtJoin", FirstTask(n.next[1]), ""))

(* settle_fork_outcome: every branch has been attempted. *)
settle_fork_outcome(t) ==
  /\ Here(t, "main", "Fork", "settle")
  /\ IF Top(t).wait THEN park_at_fork(t)
     ELSE LET m == save_join_position(t)
          IN Guarded(t, Joined(Stk(t), Top(t).acc), m, m)
=============================================================================
