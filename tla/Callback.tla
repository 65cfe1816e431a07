------------------------------ MODULE Callback ------------------------------
(***************************************************************************)
(* execute_continuation_with_checkpointing and its branch executor: the    *)
(* durable engine under the Node and Python bindings.  One thread; fork    *)
(* branches run one after the other.                                       *)
(***************************************************************************)
EXTENDS DurableBranch

(* ---- the main executor ------------------------------------------------ *)

c_task(t) == impl = "callback" /\ execute_task_step(t)
c_delay(t) == impl = "callback" /\ delay_step(t)
c_signal(t) == impl = "callback" /\ signal_step(t)
c_branch(t) == impl = "callback" /\ branch_step(t, "branch")
c_loop(t) == impl = "callback" /\ loop_step(t)
c_child(t) == impl = "callback" /\ child_step(t)

(* Guards; all branches cached, or run them from the first. *)
c_fork(t) ==
  LET f == Top(t)
  IN /\ impl = "callback" /\ Here(t, "main", "Fork", "enter")
     /\ IF AllCached(mem, f.at)
        THEN Guarded(t, Joined(Stk(t), collect_cached_branches(mem, f.at)), mem, store)
        ELSE Guarded(t, SetTop(t, [f EXCEPT !.pc = "fork", !.i = 1]), mem, store)

(* execute_fork_branches_sequential: a cached branch is not run; a branch   *)
(* that returns is marked and saved; one that waits is remembered.          *)
execute_fork_branches_sequential(t) ==
  LET f == Top(t) b == f.at.subs[f.i] m == mark_task_completed(mem, b.id, f.ret)
      took(v) == SetTop(t, [f EXCEPT !.pc = "fork", !.i = @ + 1, !.acc = Append(@, Result(b.id, v))])
  IN \/ /\ impl = "callback" /\ Here(t, "main", "Fork", "fork")
        /\ IF f.i > Len(f.at.subs)
           THEN Do(t, SetTop(t, [f EXCEPT !.pc = "settle", !.i = 0]), mem, store, sigs)
           ELSE IF Cached(mem, b.id) THEN Do(t, took(mem.done[b.id]), mem, store, sigs)
           ELSE Do(t, Call(t, [f EXCEPT !.pc = "seq"], b, f.val, "branch"), mem, store, sigs)
     \/ /\ impl = "callback" /\ Here(t, "main", "Fork", "back")
        /\ Do(t, took(f.ret), m, save_task_result(store, b.id, f.ret), sigs)

(* ---- the branch executor ---------------------------------------------- *)

c_branch_task(t) == impl = "callback" /\ branch_task_step(t)
c_branch_delay(t) == impl = "callback" /\ branch_delay_step(t)
c_branch_signal(t) == impl = "callback" /\ branch_signal_step(t)
c_branch_loop(t) == impl = "callback" /\ branch_loop_step(t)
c_branch_child(t) == impl = "callback" /\ branch_child_step(t)

(* A routed arm inside a branch saves its envelope alone. *)
c_branch_branch(t) ==
  LET f == Top(t) v == Envelope(f.at, f.ret)
  IN \/ impl = "callback" /\ BranchEnterOrSkip(t, "Branch", Waits(t), resolve_branch(f.at))
     \/ /\ impl = "callback" /\ Here(t, "branch", "Branch", "back")
        /\ DoBranch(t, Advance(Stk(t), v), save_task_result(store, f.at.id, v))

(* execute_nested_branches: one after the other, nothing cached, nothing    *)
(* saved, and every error goes up.                                          *)
execute_nested_branches(t) ==
  LET f == Top(t) n == f.at
      call(i, acc) == Call(t, [f EXCEPT !.pc = "wait", !.i = i, !.acc = acc], n.subs[i], f.val, "branch")
      acc == Append(f.acc, Result(n.subs[f.i].id, f.ret))
  IN \/ /\ impl = "callback" /\ Here(t, "branch", "Fork", "enter")
        /\ DoBranch(t, IF n.subs = <<>> THEN Joined(Stk(t), <<>>) ELSE call(1, <<>>), store)
     \/ /\ impl = "callback" /\ Here(t, "branch", "Fork", "back")
        /\ DoBranch(t, IF f.i < Len(n.subs) THEN call(f.i + 1, acc) ELSE Joined(Stk(t), acc), store)

CallbackStep(t) ==
  \/ c_task(t) \/ c_delay(t) \/ c_signal(t) \/ c_branch(t) \/ c_loop(t) \/ c_child(t)
  \/ c_fork(t) \/ execute_fork_branches_sequential(t) \/ settle_fork_outcome(t)
  \/ load_snapshot(t)
  \/ c_branch_task(t) \/ c_branch_delay(t) \/ c_branch_signal(t) \/ c_branch_loop(t)
  \/ c_branch_child(t) \/ c_branch_branch(t) \/ execute_nested_branches(t)
=============================================================================
