----------------------------- MODULE WorkerTree -----------------------------
(***************************************************************************)
(* How a PooledWorker reads a continuation tree.  It runs one task per     *)
(* dispatch, so where an executor walks the tree it has to find its place  *)
(* again from the ids in the snapshot: the function to call, the input of  *)
(* a join, the position after a task, the loops that ended, the end.       *)
(***************************************************************************)
EXTENDS Flow, Snapshot

RECURSIVE NodesOf(_)
NodesOf(n) == {n} \cup UNION {NodesOf(m) : m \in ToSet(n.subs \o n.next)}

(* TaskIndex::build: the ids a dispatch may name. *)
TaskIndex(n) == {m.id : m \in {x \in NodesOf(n) : x.kind \in {"Task", "Delay", "AwaitSignal"}}}

(* execute_task_by_id: the walk ends at the function of the task, or with    *)
(* TaskNotFound when the id is not that of a task.                           *)
Runnable(n, id) == \E m \in NodesOf(n) : m.kind = "Task" /\ m.id = id /\ m.fn # ""

(* The output of the last task of a loop body is an envelope: the decision   *)
(* and the value.                                                            *)
LoopEnvelope(v) == Term("loop", <<v>>)
EndsBody(n, id) == \E l \in NodesOf(n) : l.kind = "Loop" /\ terminal_node(l.subs[1]).id = id
execute_task_by_id(n, id, v) ==
  LET out == Apply(NodeOf(n, id).fn, v)
  IN IF EndsBody(n, id) THEN LoopEnvelope(out) ELSE out

(* find_fork_branches_for_join: the fork whose join starts with this task. *)
find_fork_branches_for_join(n, id) ==
  {f \in NodesOf(n) : f.kind = "Fork" /\ f.next # <<>> /\ first_task_id(f.next[1]) = id}

(* Faulty variant: a branch is looked up by the id of its first task. *)
join_input_entry(n, id, s, v) ==
  LET forks == find_fork_branches_for_join(n, id)
      subs  == (CHOOSE f \in forks : TRUE).subs
  IN IF forks = {} THEN [ok |-> TRUE, v |-> v]
     ELSE IF \E i \in DOMAIN subs : ~Cached(s, first_task_id(subs[i]))
     THEN [ok |-> FALSE, v |-> Empty]
     ELSE [ok |-> TRUE, v |-> Named(subs, [i \in DOMAIN subs |->
             [id |-> subs[i].id, v |-> s.done[first_task_id(subs[i])]]])]

(* The input of a dispatched task: that of a join is rebuilt from the        *)
(* results of the branches' last tasks; any other is the one it came with.   *)
join_input(n, id, s, v) ==
  LET forks == find_fork_branches_for_join(n, id)
      subs  == (CHOOSE f \in forks : TRUE).subs
  IN IF forks = {} THEN [ok |-> TRUE, v |-> v]
     ELSE IF \E i \in DOMAIN subs : ~Cached(s, terminal_task_id(subs[i]))
     THEN [ok |-> FALSE, v |-> Empty]
     ELSE [ok |-> TRUE, v |-> Named(subs, [i \in DOMAIN subs |->
             [id |-> subs[i].id, v |-> s.done[terminal_task_id(subs[i])]]])]

(* get_last_task_output, and its default. *)
HasLastOutput(s) == s.st = "InProgress" /\ s.last \in DOMAIN s.done
LastOutput(s) == IF HasLastOutput(s) THEN s.done[s.last] ELSE Empty

(* set_position_at: a delay or a signal at the head of the chain is parked   *)
(* at; a delay gets its result, the value passing through, at once.          *)
set_position_at(n, s) ==
  CASE n.kind = "Delay" ->
         mark_task_completed(update_position(s, At("AtDelay", n.id, first_of(n.next))),
                             n.id, LastOutput(s))
    [] n.kind = "AwaitSignal" ->
         update_position(s, At(IF n.to THEN "AtTimedSignal" ELSE "AtSignal", n.id, first_of(n.next)))
    [] OTHER -> update_position(s, At("AtTask", first_task_id(n), ""))

(* A branch of the fork ended: on to the first branch without a result of    *)
(* its first task, then to the join.                                         *)
drive_fork(n, s) ==
  LET i == SelectInSeq(n.subs, LAMBDA b : ~Cached(s, first_task_id(b)))
  IN IF i # 0 THEN set_position_at(n.subs[i], s)
     ELSE IF n.next # <<>> THEN set_position_at(n.next[1], s) ELSE s

RECURSIVE update_position_after_task(_, _, _)
update_position_after_task(n, id, s) ==
  LET inner == FoldLeft(LAMBDA t, m : update_position_after_task(m, id, t), s, n.subs \o n.next)
  IN CASE n.id = id /\ n.kind \in {"Task", "Delay", "AwaitSignal"} ->
            IF n.next = <<>> THEN s ELSE set_position_at(n.next[1], s)
       [] n.kind = "Fork" ->
            IF inner.pos.kind = "AtTask" /\ inner.pos.id = id THEN drive_fork(n, inner) ELSE inner
       [] OTHER -> inner

(* resolve_loops_recursive at one loop whose body has ended: a is the        *)
(* worker's snapshot, the last one it saved, and whether it may go on.       *)
resolve_loop(n, a) ==
  LET t    == terminal_task_id(n.subs[1])
      v    == a.mem.done[t]
      i    == loop_iteration(a.mem, n.id) + 1
      exit == mark_task_completed(clear_loop_iteration(a.mem, n.id), n.id, v.args[1])
      next == set_loop_iteration(remove_task_results(a.mem, IdsOf(n.subs[1])), n.id, i)
      saved(s) == [a EXCEPT !.mem = s, !.store = s]
  IN IF Cached(a.mem, n.id) \/ ~Cached(a.mem, t) THEN a
     ELSE IF v.op # "loop" THEN [a EXCEPT !.ok = FALSE]
     ELSE IF ~Again(n, v.args[1]) THEN saved(exit)
     ELSE IF i < n.n THEN saved(next)
     ELSE IF n.pick = "exit_with_last" THEN saved(exit) ELSE [a EXCEPT !.ok = FALSE]

RECURSIVE resolve_loops(_, _)
resolve_loops(n, a) ==
  IF ~a.ok THEN a
  ELSE FoldLeft(LAMBDA b, m : resolve_loops(m, b),
                IF n.kind = "Loop" THEN resolve_loop(n, a) ELSE a,
                IF n.kind = "Branch" THEN n.next ELSE n.subs \o n.next)

RECURSIVE is_workflow_complete(_, _)
is_workflow_complete(n, s) ==
  /\ IF n.kind = "Fork" THEN \A b \in ToSet(n.subs) : is_workflow_complete(b, s)
     ELSE Cached(s, n.id)
  /\ \A m \in ToSet(n.next) : is_workflow_complete(m, s)
=============================================================================
