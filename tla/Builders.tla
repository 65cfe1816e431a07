------------------------------ MODULE Builders ------------------------------
(***************************************************************************)
(* The three front ends that make a workflow: the typed Rust               *)
(* WorkflowBuilder with a TaskRegistry, and the JavaScript and Python Flow *)
(* classes, which keep their own registry beside the shared FlowBuilder.   *)
(*                                                                         *)
(* A builder b is a value: cont the Rust continuation so far, tasks the    *)
(* BuilderTasks of a FlowBuilder, reg the registry, the four id counters,  *)
(* last the node with_metadata applies to, err whether a call recorded or  *)
(* threw an error.  A step is [id, fn, n]: the id it is given ("" for an   *)
(* anonymous function), the callable, its metadata (see Definition).       *)
(***************************************************************************)
EXTENDS Definition

Builder(reg) ==
  [cont |-> <<>>, tasks |-> <<>>, reg |-> reg, lambdas |-> 0, loops |-> 0,
   branches |-> 0, children |-> 0, last |-> "", err |-> FALSE]

(* ---- registries ------------------------------------------------------- *)

(* register, register_fn, _taskRegistry[id] = fn: the last one wins. *)
register(b, id, fn, n) == [b EXCEPT !.reg = (id :> [fn |-> fn, n |-> n]) @@ @]
register_all(b, steps) ==
  FoldLeft(LAMBDA a, s : register(a, s.id, s.fn, s.n), b, steps)
(* Faulty variant: the child's registrations win. *)
merge_over(b, reg) == [b EXCEPT !.reg = reg @@ @]
(* merge, ??=, setdefault: what the parent has stays. *)
merge(b, reg) == [b EXCEPT !.reg = @ @@ reg]
Failing(b, bad) == [b EXCEPT !.err = @ \/ bad]
child_node_id(b) == "child_" \o ToString(b.children)

(* A chain of tasks, in Rust, in build_chain and in a SubBuilder. *)
ChainOf(steps) ==
  LET t(s) == TaskOf(s.id, s.fn, s.n)
  IN FoldLeft(LAMBDA a, s : append_to_chain(a, t(s)), t(Head(steps)), Tail(steps))
ForkOf(chains, join) ==
  Fork(derive_fork_id([i \in DOMAIN chains |-> chains[i].id]), chains,
       <<TaskOf(join.id, join.fn, join.n)>>)
RouteOf(id, key_fn, keys, arms) ==
  [Branch(id, keys, arms, "", <<>>) EXCEPT !.fn = key_fn]
LoopOf(id, s, max, on_max) == Loop(id, TaskOf(s.id, s.fn, s.n), 0, max, on_max, <<>>)

(* The keys a route declares; "_" marks its default. *)
Keys == {"l", "r"}
(* Arms without a declared key, or, without a default, keys without an arm. *)
inexhaustive(keys) ==
  \/ ~(ToSet(keys) \ {"_"} \subseteq Keys)
  \/ "_" \notin ToSet(keys) /\ ~(Keys \subseteq ToSet(keys))

(* ======== WorkflowBuilder (Rust) ======================================= *)

(* ContinuationState::append. *)
append(b, node, last) ==
  [b EXCEPT !.cont = IF @ = <<>> THEN <<node>> ELSE <<append_to_chain(@[1], node)>>,
            !.last = last]

rust_then(b, s) == append(register(b, s.id, s.fn, 0), TaskOf(s.id, s.fn, 0), s.id)
then_task_with(b, s) == append(register(b, s.id, s.fn, s.n), TaskOf(s.id, s.fn, s.n), s.id)
(* A step the registry already has: a missing one is an error at build. *)
Registered(b, id) == [id |-> id, fn |-> Get(b.reg, id), n |-> GetMeta(b.reg, id)]
then_registered(b, id) ==
  LET s == Registered(b, id)
  IN Failing(append(b, TaskOf(id, s.fn, s.n), id), s.fn = "")

loop_task_with_policy(b, s, max, on_max) ==
  LET id == loop_node_id(b.loops)
  IN Failing([append(register(b, s.id, s.fn, 0), LoopOf(id, [s EXCEPT !.n = 0], max, on_max), id)
               EXCEPT !.loops = @ + 1], max = 0)
loop_task_struct_with_policy(b, s, max, on_max) ==
  LET id == loop_node_id(b.loops)
  IN Failing([append(register(b, s.id, s.fn, s.n), LoopOf(id, s, max, on_max), id)
               EXCEPT !.loops = @ + 1], max = 0)
loop_task_registered(b, id, max, on_max) ==
  LET s == Registered(b, id)
      l == loop_node_id(b.loops)
  IN Failing([append(b, LoopOf(l, s, max, on_max), l) EXCEPT !.loops = @ + 1],
             max = 0 \/ s.fn = "")

rust_delay(b, id, d) == append(b, [Delay(id, <<>>) EXCEPT !.n = d], id)
SignalOf(id, name, to) == [AwaitSignal(id, <<>>) EXCEPT !.pick = name, !.to = to]
rust_wait_for_signal(b, id, name, to) == append(b, SignalOf(id, name, to), id)

(* then_flow takes the tree of a child, then_serializable_flow its registry *)
(* too.                                                                     *)
then_flow(b, child) ==
  LET id == child_node_id(b)
  IN [append(b, ChildWorkflow(id, child.cont[1], <<>>), id) EXCEPT !.children = @ + 1]
then_serializable_flow(b, child) == then_flow(merge(b, child.reg), child)

(* with_metadata: on the registry's entry and on the node, if it is a task. *)
set_metadata(reg, id, n) == IF id \in DOMAIN reg THEN [reg EXCEPT ![id].n = n] ELSE reg
with_metadata(b, n) ==
  IF b.last = "" THEN b
  ELSE [b EXCEPT !.reg = set_metadata(@, b.last, n),
                 !.cont = <<set_task_metadata(@[1], b.last, n)>>]

(* ForkBuilder: branch and branch_task register; the collector of branches()*)
(* does not; join drops the metadata of its branches, join_registered looks *)
(* it up.                                                                   *)
fork_branch(b, s) == register(b, s.id, s.fn, 0)
branch_task_with(b, s) == register(b, s.id, s.fn, s.n)
collector_add(b, s) == b
rust_join(b, brs, join) ==
  LET chains == [i \in DOMAIN brs |-> TaskOf(brs[i].id, brs[i].fn, 0)]
  IN append(register(b, join.id, join.fn, 0), ForkOf(chains, [join EXCEPT !.n = 0]), join.id)
branch_registered(b, ids) ==
  LET found == SelectSeq(ids, LAMBDA id : Get(b.reg, id) # "")
  IN [i \in DOMAIN found |-> Registered(b, found[i])]
join_registered(b, ids, join) ==
  LET brs == branch_registered(b, ids)
      j == Registered(b, join)
      chains == [i \in DOMAIN brs |-> TaskOf(brs[i].id, brs[i].fn, brs[i].n)]
  IN IF brs = <<>> THEN Failing(b, TRUE)
     ELSE Failing(append(b, ForkOf(chains, j), join), Len(brs) < Len(ids) \/ j.fn = "")

(* RouteBuilder: the counter goes up first; each arm is a SubBuilder that   *)
(* registers into the same registry; an arm without a step is an error.     *)
sub_then(b, steps) == register_all(b, [i \in DOMAIN steps |-> [steps[i] EXCEPT !.n = 0]])
sub_build(steps) == IF steps = <<>> THEN <<>>
                    ELSE <<ChainOf([i \in DOMAIN steps |-> [steps[i] EXCEPT !.n = 0]])>>
rust_route(b, key_fn) ==
  LET id == "branch_" \o ToString(b.branches + 1)
  IN [register(b, key_fn_id(id), key_fn, 0) EXCEPT !.branches = @ + 1, !.last = id]
rust_route_branch(b, arm) == Failing(sub_then(b, arm.steps), arm.steps = <<>>)
rust_route_done(b, key_fn, arms) ==
  LET opened == FoldLeft(rust_route_branch, rust_route(b, key_fn), arms)
      full == SelectSeq(arms, LAMBDA a : a.steps # <<>>)
      keys == [i \in DOMAIN full |-> full[i].key]
      node == RouteOf(opened.last, key_fn, keys,
                      [i \in DOMAIN full |-> sub_build(full[i].steps)[1]])
  IN Failing(append(opened, node, opened.last), inexhaustive(keys))

(* RouteRegisteredBuilder: arms by id; which keys there are it cannot know. *)
build_chain_from_registry(b, ids) ==
  LET steps == [i \in DOMAIN ids |-> Registered(b, ids[i])]
  IN IF ids = <<>> \/ \E i \in DOMAIN steps : steps[i].fn = "" THEN <<>>
     ELSE <<ChainOf(steps)>>
route_registered_done(b, id, arms) ==
  LET chain(a) == build_chain_from_registry(b, a.ids)
      full == SelectSeq(arms, LAMBDA a : chain(a) # <<>>)
      key_fn == Get(b.reg, key_fn_id(id))
      node == RouteOf(id, key_fn, [i \in DOMAIN full |-> full[i].key],
                      [i \in DOMAIN full |-> chain(full[i])[1]])
  IN Failing(append(b, node, id), Len(full) < Len(arms) \/ key_fn = "")

rust_build(b) ==
  IF b.err \/ find_duplicate_id(b.cont[1]) THEN <<>> ELSE b.cont

(* ======== FlowBuilder (shared by the bindings) ========================= *)

next_lambda_id(b) == "lambda_" \o ToString(b.lambdas)
Push(b, node) == [b EXCEPT !.tasks = Append(@, node)]

add_sequential(b, s) == Push(b, TaskOf(s.id, s.fn, s.n))
add_fork(b, brs, join) ==
  IF brs = <<>> \/ \E i \in DOMAIN brs : brs[i] = <<>> THEN Failing(b, TRUE)
  ELSE Push(b, ForkOf([i \in DOMAIN brs |-> ChainOf(brs[i])], join))
add_delay(b, id, d) == IF d < 0 THEN Failing(b, TRUE) ELSE Push(b, [Delay(id, <<>>) EXCEPT !.n = d])
add_signal(b, id, name, to) == Push(b, SignalOf(id, name, to))
add_loop(b, s, max, on_max) ==
  IF max = 0 THEN Failing(b, TRUE)
  ELSE [Push(b, LoopOf("loop_" \o ToString(b.loops), s, max, on_max)) EXCEPT !.loops = @ + 1]
branch_node_id(b) == "branch_" \o ToString(b.branches)
add_branch(b, key_fn, arms) ==
  IF SelectSeq(arms, LAMBDA a : a.key # "_") = <<>> \/ \E i \in DOMAIN arms : arms[i].steps = <<>>
  THEN Failing(b, TRUE)
  ELSE [Push(b, RouteOf(branch_node_id(b), key_fn, [i \in DOMAIN arms |-> arms[i].key],
                        [i \in DOMAIN arms |-> ChainOf(arms[i].steps)]))
          EXCEPT !.branches = @ + 1]

(* build_continuation: from the last task to the first; no duplicate check. *)
build_continuation(tasks) ==
  IF tasks = <<>> THEN <<>>
  ELSE <<FoldLeft(append_to_chain, Head(tasks), Tail(tasks))>>
add_child_workflow(b, id, tasks) ==
  Push(b, ChildWorkflow(id, build_continuation(tasks)[1], <<>>))
flow_build(b) == IF b.err THEN <<>> ELSE build_continuation(b.tasks)

(* ---- Flow: the JavaScript and Python classes --------------------------- *)

(* What each call writes into the registry and what it asks of the          *)
(* FlowBuilder, in that order.  A call that throws leaves err set.          *)

(* An anonymous function takes the next lambda id (with a prefix where the  *)
(* caller has one); the builder counts.                                     *)
Resolved(b, s, prefix) ==
  IF s.id # "" THEN [b |-> b, s |-> s]
  ELSE [b |-> [b EXCEPT !.lambdas = @ + 1],
        s |-> [s EXCEPT !.id = prefix \o next_lambda_id(b)]]

(* ---- JavaScript ------------------------------------------------------- *)

js_then(b, s) ==
  LET r == Resolved(b, s, "")
  IN add_sequential(register(r.b, r.s.id, r.s.fn, 0), r.s)

(* ForkBuilder.join: branch() named every step; the join has no metadata. *)
js_join(b, brs, join) ==
  add_fork(register(register_all(b, FlattenSeq(brs)), join.id, join.fn, 0),
           brs, [join EXCEPT !.n = 0])

(* RouteBuilder: branch and defaultBranch only collect, done checks, then   *)
(* registers the arms, adds the node and registers the key function.        *)
resolveBranchTask(acc, arm) ==
  LET r == Resolved(acc.b, arm.steps[1], IF arm.key = "_" THEN "_default_" ELSE arm.key \o "_")
  IN [b |-> r.b, arms |-> Append(acc.arms, [arm EXCEPT !.steps = <<r.s>>])]
js_done(b, key_fn, arms) ==
  LET r == FoldLeft(resolveBranchTask, [b |-> b, arms |-> <<>>], arms)
      regd == register_all(r.b, FlattenSeq([i \in DOMAIN r.arms |-> r.arms[i].steps]))
  IN IF inexhaustive([i \in DOMAIN arms |-> arms[i].key]) THEN Failing(r.b, TRUE)
     ELSE register(add_branch(regd, key_fn, r.arms),
                   key_fn_id(branch_node_id(regd)), key_fn, 0)

(* loop: the body is registered before maxIterations is looked at. *)
js_loop(b, s, max, on_max) ==
  LET r == Resolved(b, s, "")
      regd == register(r.b, r.s.id, r.s.fn, 0)
  IN IF max < 1 THEN Failing(regd, TRUE) ELSE add_loop(regd, r.s, max, on_max)

js_delay(b, id, d) == add_delay(b, id, d)
js_waitForSignal(b, id, name, to) == add_signal(b, id, name, to)

js_thenFlow(b, child) ==
  [add_child_workflow(merge(b, child.reg), child_node_id(b), child.tasks)
     EXCEPT !.children = @ + 1]

(* ---- Python ----------------------------------------------------------- *)

(* _register_task, and what a chain of functions gives. *)
register_task(b, s) ==
  LET r == Resolved(b, s, "")
  IN [b |-> register(r.b, r.s.id, r.s.fn, 0), s |-> r.s]
register_chain(acc, s) ==
  LET r == register_task(acc.b, s) IN [b |-> r.b, steps |-> Append(acc.steps, r.s)]

py_then(b, s) == LET r == register_task(b, s) IN add_sequential(r.b, r.s)

(* ForkBuilder.branch registers at once, join last. *)
py_branch(acc, steps) ==
  LET r == FoldLeft(register_chain, [b |-> acc.b, steps |-> <<>>], steps)
  IN [b |-> r.b, brs |-> Append(acc.brs, r.steps)]
py_join(b, brs, join) ==
  LET r == FoldLeft(py_branch, [b |-> b, brs |-> <<>>], brs)
      j == register_task(r.b, join)
  IN add_fork(j.b, r.brs, j.s)

(* BranchBuilder.branch refuses a key that was not declared, and registers. *)
py_route_branch(acc, arm) ==
  LET r == FoldLeft(register_chain, [b |-> acc.b, steps |-> <<>>], arm.steps)
  IN IF acc.b.err \/ arm.key \notin Keys \cup {"_"} THEN [acc EXCEPT !.b = Failing(@, TRUE)]
     ELSE [b |-> r.b, arms |-> Append(acc.arms, [arm EXCEPT !.steps = r.steps])]
py_done(b, key_fn, arms) ==
  LET r == FoldLeft(py_route_branch, [b |-> b, arms |-> <<>>], arms)
  IN IF r.b.err \/ inexhaustive([i \in DOMAIN r.arms |-> r.arms[i].key])
     THEN Failing(r.b, TRUE)
     ELSE register(add_branch(r.b, key_fn, r.arms),
                   key_fn_id(branch_node_id(r.b)), key_fn, 0)

py_loop(b, s, max, on_max) ==
  LET r == register_task(b, s) IN add_loop(r.b, r.s, max, on_max)

py_delay(b, id, d) == add_delay(b, id, d)
py_wait_for_signal(b, id, name, to) == add_signal(b, id, name, to)

py_then_flow(b, child) ==
  [add_child_workflow(merge(b, child.reg), child_node_id(b), child.tasks)
     EXCEPT !.children = @ + 1]
=============================================================================
