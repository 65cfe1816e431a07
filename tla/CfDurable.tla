------------------------------ MODULE CfDurable -----------------------------
(***************************************************************************)
(* The durable engine of Cloudflare Workers.  One executor and one         *)
(* snapshot for the whole tree: a branch, an arm, a body and a child are   *)
(* run by the same function, and every checkpoint saves everything.        *)
(***************************************************************************)
EXTENDS Durable

(* A cached task is skipped and saves nothing; a call that fails is not     *)
(* retried.                                                                 *)
handle_task(t) ==
  LET f == Top(t) n == f.at v == Apply(n.id, f.val)
  IN \/ /\ impl = "cf" /\ Here(t, "main", "Task", "enter")
        /\ IF Cached(mem, n.id) THEN Guarded(t, Advance(Stk(t), mem.done[n.id]), mem, store)
           ELSE Guarded(t, SetTop(t, [f EXCEPT !.pc = "exec"]), mem, store)
     \/ /\ impl = "cf" /\ Here(t, "main", "Task", "exec")
        /\ \/ DoRun(t, SetTop(t, [f EXCEPT !.pc = "save", !.val = v]), mem, n, v)
           \/ MayFail(n) /\ DoFail(t, Throw(Stk(t), "Error"), mem, store)
     \/ /\ impl = "cf" /\ Here(t, "main", "Task", "save")
        /\ SavedGuarded(t, Advance(Stk(t), f.val),
                        AtNext(mark_task_completed(mem, n.id, f.val), n))

handle_delay(t) == impl = "cf" /\ delay_step(t)
handle_await_signal(t) == impl = "cf" /\ signal_step(t)
handle_branch(t) == impl = "cf" /\ branch_step(t, "main")
handle_child_workflow(t) == impl = "cf" /\ child_step(t)

(* Branch by branch: a branch with a result is not run, one that returns is *)
(* checkpointed under its id, one that waits is remembered.  Then the fork  *)
(* parks (park_at_fork, on the executor's own snapshot), or hands the named *)
(* results on.                                                              *)
handle_fork(t) ==
  LET f == Top(t) n == f.at b == n.subs[f.i]
      m == mark_task_completed(mem, b.id, f.ret)
      parked == update_position(mem, At("AtFork", n.id, ""))
      took(v) == SetTop(t, [f EXCEPT !.pc = "fork", !.i = @ + 1,
                                     !.acc = Append(@, [id |-> b.id, v |-> v])])
  IN \/ /\ impl = "cf" /\ Here(t, "main", "Fork", "enter")
        /\ Guarded(t, SetTop(t, [f EXCEPT !.pc = "fork", !.i = 1]), mem, store)
     \/ /\ impl = "cf" /\ Here(t, "main", "Fork", "fork")
        /\ IF f.i > Len(n.subs)
           THEN IF f.wait THEN Do(t, Throw(Stk(t), "Waiting"), parked, parked, sigs)
                ELSE Do(t, Advance(Stk(t), Named(n.subs, f.acc)), mem, store, sigs)
           ELSE IF Cached(mem, b.id) THEN Do(t, took(mem.done[b.id]), mem, store, sigs)
           ELSE Do(t, Call(t, [f EXCEPT !.pc = "seq"], b, f.val, "main"), mem, store, sigs)
     \/ /\ impl = "cf" /\ Here(t, "main", "Fork", "back")
        /\ Do(t, took(f.ret), m, m, sigs)

(* Every Again is saved, the one of the last iteration included; only then  *)
(* does the policy decide ("max").                                          *)
handle_loop(t) ==
  LET f == Top(t) n == f.at i == loop_iteration(mem, n.id)
      m == remove_task_results(mem, AllIds(n.subs[1]))
      exit == LoopExit(m, n, f.ret)
      next == InLoop(m, n, f.i + 1)
      last == LoopExit(mem, n, f.val)
  IN \/ /\ impl = "cf" /\ Here(t, "main", "Loop", "enter")
        /\ IF Cached(mem, n.id) \/ i < n.n
           THEN EnterOrSkip(t, "Loop", [Waits(t) EXCEPT !.i = i], n.subs, f.val, "main")
           ELSE Guarded(t, SetTop(t, [f EXCEPT !.pc = "max"]), mem, store)
     \/ /\ impl = "cf" /\ Here(t, "main", "Loop", "back")
        /\ IF ~SaysAgain(n, f.ret) THEN Do(t, Advance(Stk(t), f.ret), exit, exit, sigs)
           ELSE IF f.i + 1 < n.n
           THEN Do(t, Call(t, [Waits(t) EXCEPT !.i = f.i + 1], n.subs[1], f.ret, "main"),
                   next, next, sigs)
           ELSE Do(t, SetTop(t, [f EXCEPT !.pc = "max", !.val = f.ret]), next, next, sigs)
     \/ /\ impl = "cf" /\ Here(t, "main", "Loop", "max")
        /\ IF n.pick = "exit_with_last" THEN Do(t, Advance(Stk(t), f.val), last, last, sigs)
           ELSE Do(t, Throw(Stk(t), "Error"), mem, store, sigs)

CfStep(t) ==
  \/ handle_task(t) \/ handle_delay(t) \/ handle_await_signal(t) \/ handle_fork(t)
  \/ handle_branch(t) \/ handle_loop(t) \/ handle_child_workflow(t)
=============================================================================
