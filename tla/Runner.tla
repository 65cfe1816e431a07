------------------------------- MODULE Runner -------------------------------
(***************************************************************************)
(* CheckpointingRunner: the durable engine of Rust programs.  The branches *)
(* of a fork are tokio tasks of a JoinSet, so they interleave, with one    *)
(* another and with the thread that joins them, at every await.            *)
(***************************************************************************)
EXTENDS DurableBranch

(* ---- the main executor ------------------------------------------------ *)

r_task(t) == impl = "runner" /\ execute_task_step(t)
r_delay(t) == impl = "runner" /\ delay_step(t)
r_signal(t) == impl = "runner" /\ signal_step(t)
r_branch(t) == impl = "runner" /\ branch_step(t, "branch")
r_loop(t) == impl = "runner" /\ loop_step(t)
r_child(t) == impl = "runner" /\ child_step(t)

(* The JoinSet of thread t, and the tasks of it that have ended: a branch   *)
(* of t has the path of t and its own number.                               *)
JoinSet(t) == {p \in DOMAIN th : p # Main /\ Below(p) = t}
Joinable(t) == {p \in JoinSet(t) : th[p].res # "run"}
Spawned(t, is) ==
  [p \in {Append(t, i) : i \in is} |->
     Running(<<Frame(Top(t).at.subs[TopOf(p)], Top(t).val, "branch")>>)]
With(old, new) ==
  [p \in DOMAIN old \cup DOMAIN new |-> IF p \in DOMAIN new THEN new[p] ELSE old[p]]
DoThreads(threads) ==
  /\ th' = threads
  /\ UNCHANGED <<env, mem, store, sigs, events, left, delays, ran, kept, got>>

(* Guards; all branches cached, or a task for every branch without a result. *)
r_fork(t) ==
  LET f == Top(t) n == f.at g == check_guards(store, sigs)
      todo == {i \in DOMAIN n.subs : ~Cached(mem, n.subs[i].id)}
      cached == collect_cached_branches(mem, n)
  IN /\ impl = "runner" /\ Here(t, "main", "Fork", "enter")
     /\ IF todo = {} \/ g.e # "" THEN Guarded(t, Joined(Stk(t), cached), mem, store)
        ELSE DoThreads(With([th EXCEPT ![t] = SetTop(t, [f EXCEPT !.pc = "join", !.acc = cached])],
                            Spawned(t, todo)))

(* join_next: the branch's result, a branch that waits, or an error that    *)
(* leaves the fork.  Dropping the JoinSet aborts the other branches, but    *)
(* each runs on until it next yields (see Aborted).                         *)
Collect(t, p, catches) ==
  LET f == Top(t) r == th[p]
      rest == Drop(th, {p})
      on(g) == DoThreads([rest EXCEPT ![t] = SetTop(t, g)])
  IN IF r.res = "ok"
     THEN on([f EXCEPT !.acc = Append(@, Result(f.at.subs[TopOf(p)].id, r.val))])
     ELSE IF r.res = "Waiting" /\ catches THEN on([f EXCEPT !.wait = TRUE])
     ELSE DoThreads([rest EXCEPT ![t] = Throw(Stk(t), r.res)])

execute_fork_branches_parallel(t) ==
  /\ Here(t, "main", "Fork", "join")
  /\ \/ \E p \in Joinable(t) : Collect(t, p, TRUE)
     \/ /\ JoinSet(t) = {}
        /\ DoThreads([th EXCEPT ![t] = SetTop(t, [Top(t) EXCEPT !.pc = "settle"])])

(* A task whose JoinSet is gone is dropped the next time it yields. *)
Aborted(t) ==
  /\ t \in DOMAIN th /\ t # Main
  /\ ~(Below(t) \in DOMAIN th /\ Stk(Below(t)) # <<>> /\ Top(Below(t)).pc = "join")
  /\ DoThreads(Drop(th, {t}))

(* ---- the branch executor ---------------------------------------------- *)

r_branch_task(t) == impl = "runner" /\ branch_task_step(t)
r_branch_delay(t) == impl = "runner" /\ branch_delay_step(t)
r_branch_signal(t) == impl = "runner" /\ branch_signal_step(t)
r_branch_loop(t) == impl = "runner" /\ branch_loop_step(t)
r_branch_child(t) == impl = "runner" /\ branch_child_step(t)

(* A routed arm inside a branch saves the frame's whole snapshot. *)
r_branch_branch(t) ==
  /\ impl = "runner"
  /\ \/ BranchEnterOrSkip(t, "Branch", Waits(t), resolve_branch(Top(t).at))
     \/ SaveOwn(t, "Branch", Envelope(Top(t).at, Top(t).ret))

(* execute_nested_fork_branches: a task for every branch, cached or not, and *)
(* every error leaves the fork.                                              *)
execute_nested_fork_branches(t) ==
  LET f == Top(t)
  IN \/ /\ impl = "runner" /\ Here(t, "branch", "Fork", "enter")
        /\ DoThreads(With([th EXCEPT ![t] = SetTop(t, [f EXCEPT !.pc = "join"])],
                          Spawned(t, DOMAIN f.at.subs)))
     \/ /\ Here(t, "branch", "Fork", "join")
        /\ \/ \E p \in Joinable(t) : Collect(t, p, FALSE)
           \/ /\ JoinSet(t) = {}
              /\ DoThreads([th EXCEPT ![t] = Joined(Stk(t), f.acc)])

RunnerStep(t) ==
  \/ r_task(t) \/ r_delay(t) \/ r_signal(t) \/ r_branch(t) \/ r_loop(t) \/ r_child(t)
  \/ r_fork(t) \/ execute_fork_branches_parallel(t) \/ settle_fork_outcome(t)
  \/ load_snapshot(t) \/ Aborted(t)
  \/ r_branch_task(t) \/ r_branch_delay(t) \/ r_branch_signal(t) \/ r_branch_loop(t)
  \/ r_branch_child(t) \/ r_branch_branch(t) \/ execute_nested_fork_branches(t)
=============================================================================
