------------------------------ MODULE Stepper -------------------------------
(***************************************************************************)
(* WasmContinuationStepper and NapiContinuationStepper: the executors of   *)
(* runWorkflow() in the Cloudflare and Node bindings.  A tree is flattened *)
(* into a plan once; JavaScript is handed one task at a time and the plan  *)
(* is spliced in place when a route or a loop is reached.  The two files   *)
(* hold the same algorithm; they differ in how a failure is reported.      *)
(***************************************************************************)
EXTENDS Definition

(* PlannedStep, one shape for its nine variants. *)
Step(op, id) ==
  [op |-> op, id |-> id, keys |-> <<>>, arms |-> <<>>, max |-> 0,
   on_max |-> "", iteration |-> 0]

RECURSIVE flatten(_)
flatten(n) ==
  LET rest == FlattenSeq([i \in DOMAIN n.next |-> flatten(n.next[i])])
      subs == [i \in DOMAIN n.subs |-> flatten(n.subs[i])]
  IN CASE n.kind = "Task" -> <<Step("Task", n.id)>> \o rest
       [] n.kind = "Fork" ->
            FlattenSeq([i \in DOMAIN subs |->
              <<Step("RestoreForkInput", "")>> \o subs[i]
                \o <<Step("SaveBranchResult", first_task_id(n.subs[i]))>>])
              \o <<Step("CollectBranches", "")>> \o rest
       [] n.kind = "Branch" ->
            <<Step("SaveBranchInput", ""), Step("Task", key_fn_id(n.id)),
              [Step("BranchDispatch", n.id) EXCEPT !.keys = n.keys, !.arms = subs]>>
              \o rest
       [] n.kind = "Loop" ->
            <<[Step("LoopStart", n.id) EXCEPT !.arms = subs, !.max = n.n,
                                              !.on_max = n.pick]>> \o rest
       [] n.kind = "ChildWorkflow" -> subs[1] \o rest
       [] OTHER -> rest

(* flatten refuses a tree that holds an AwaitSignal. *)
RECURSIVE HasSignal(_)
HasSignal(n) ==
  \/ n.kind = "AwaitSignal"
  \/ \E m \in ToSet(n.subs) \cup ToSet(n.next) : HasSignal(m)

(* The stepper; err is set by the step that returned an error. *)
Splice(s, steps) ==
  [s EXCEPT !.steps = SubSeq(@, 1, s.pos) \o steps \o SubSeq(@, s.pos + 1, Len(@)),
            !.pos = @ + 1]
Fail(s) == [s EXCEPT !.err = TRUE, !.pos = Len(s.steps) + 1]

(* Faulty variant: the arm is given the key instead of the saved input. *)
handle_dispatch_key(s, p) ==
  LET key == KeyFns[s.cur.op]
      arm == SelectInSeq(p.keys, LAMBDA k : k \in {key, "_"})
  IN IF s.cur.op \notin DOMAIN KeyFns \/ arm = 0 THEN Fail(s)
     ELSE Splice(s, p.arms[arm] \o <<Step("WrapBranchEnvelope", key)>>)

(* BranchDispatch: the input saved before the key function ran goes to the  *)
(* arm; a key without an arm goes to the default.                           *)
handle_dispatch(s, p) ==
  LET key   == KeyFns[s.cur.op]
      named == SelectInSeq(p.keys, LAMBDA k : k = key)
      other == SelectInSeq(p.keys, LAMBDA k : k = "_")
      arm   == IF named # 0 THEN named ELSE other
  IN IF s.cur.op \notin DOMAIN KeyFns \/ arm = 0 THEN Fail(s)
     ELSE Splice([s EXCEPT !.cur = Last(s.inputs), !.inputs = Front(@)],
                 p.arms[arm] \o <<Step("WrapBranchEnvelope", key)>>)

handle_branch_step(s, p) ==
  IF p.op = "BranchDispatch" THEN handle_dispatch(s, p)
  ELSE [s EXCEPT !.cur = Term("env", <<Term(p.id, <<>>), s.cur>>), !.pos = @ + 1]

(* LoopStart and LoopCheck: the body is spliced once per iteration. *)
BodyAgain(p, i) ==
  p.arms[1] \o <<[p EXCEPT !.op = "LoopCheck", !.iteration = i]>>

(* Faulty variant: one iteration too many. *)
handle_loop_step_off_by_one(s, p) ==
  IF p.op = "LoopStart" THEN Splice(s, BodyAgain(p, 0))
  ELSE IF s.cur.op \notin DOMAIN Bodies THEN Fail(s)
  ELSE IF Occurrences(s.cur, s.cur.op) <= Bodies[s.cur.op] /\ p.iteration < p.max
       THEN Splice(s, BodyAgain(p, p.iteration + 1))
  ELSE [s EXCEPT !.pos = @ + 1]

handle_loop_step(s, p) ==
  IF p.op = "LoopStart" THEN Splice(s, BodyAgain(p, 0))
  ELSE IF s.cur.op \notin DOMAIN Bodies THEN Fail(s)
  ELSE IF Occurrences(s.cur, s.cur.op) > Bodies[s.cur.op]
       THEN [s EXCEPT !.pos = @ + 1]
  ELSE IF p.iteration + 1 < p.max THEN Splice(s, BodyAgain(p, p.iteration + 1))
  ELSE IF p.on_max = "fail" THEN Fail(s) ELSE [s EXCEPT !.pos = @ + 1]

(* encode_branch_map: an object by branch id, a repeated id keeping the     *)
(* last value, in the order the join function's wrapper reads it.           *)
encode_branch_map(results) ==
  Term("named", [i \in DOMAIN results |->
    results[SelectLastInSeq(results, LAMBDA r : r.id = results[i].id)].v])

(* One turn of skip_non_tasks, and the loop that ends at a task. *)
NonTask(s, p) ==
  CASE p.op = "RestoreForkInput" ->
         IF s.forks # <<>> THEN [s EXCEPT !.cur = Last(s.forks), !.pos = @ + 1]
         ELSE [s EXCEPT !.forks = <<s.cur>>, !.results = Append(@, <<>>), !.pos = @ + 1]
    [] p.op = "SaveBranchResult" ->
         [s EXCEPT !.results[Len(s.results)] = Append(@, [id |-> p.id, v |-> s.cur]),
                   !.pos = @ + 1]
    [] p.op = "CollectBranches" ->
         [s EXCEPT !.forks = Front(@), !.results = Front(@), !.pos = @ + 1,
                   !.cur = encode_branch_map(Last(s.results))]
    [] p.op = "SaveBranchInput" ->
         [s EXCEPT !.inputs = Append(@, s.cur), !.pos = @ + 1]
    [] p.op \in {"BranchDispatch", "WrapBranchEnvelope"} -> handle_branch_step(s, p)
    [] OTHER -> handle_loop_step(s, p)

RECURSIVE skip_non_tasks(_)
skip_non_tasks(s) ==
  IF s.pos > Len(s.steps) \/ s.steps[s.pos].op = "Task" THEN s
  ELSE skip_non_tasks(NonTask(s, s.steps[s.pos]))

(* new: a fresh stepper, already moved to its first task. *)
new_stepper(n) ==
  LET fresh == [steps |-> flatten(n), pos |-> 1, cur |-> Input, forks |-> <<>>,
                results |-> <<>>, inputs |-> <<>>, err |-> FALSE]
  IN IF HasSignal(n) THEN Fail(fresh) ELSE skip_non_tasks(fresh)

(* current: the task to run, or that the plan is done. *)
done(s) == s.pos > Len(s.steps)
current(s) == s.steps[s.pos].id

submit_result(s, output) ==
  skip_non_tasks([s EXCEPT !.cur = output, !.pos = @ + 1])
=============================================================================
