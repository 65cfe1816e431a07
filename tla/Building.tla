------------------------------ MODULE Building ------------------------------
(***************************************************************************)
(* A program defines a workflow, perhaps first a child it inlines, in one  *)
(* of the three languages, and runs it without a store: JavaScript through *)
(* the stepper or synchronously, Python synchronously, Rust from its       *)
(* serialized form.  Calls come in any order.                              *)
(***************************************************************************)
EXTENDS Builders, Stepper

CONSTANTS
  Langs,      \* the languages to define workflows in
  Names,      \* the ids steps are given by name
  MaxCalls    \* builder calls, in the child and the parent together

VARIABLES
  lang, b,    \* the language and the builder in use
  child,      \* the built child, [tree, reg, tasks, cont, host]; tree = <<>>: none
  phase,      \* "child", "parent": defining; "built"; "run"; "done"; "rejected"
  calls,      \* calls made
  tree, reg,  \* the built workflow and its registry
  st,         \* the stepper
  ran,        \* the ids of the tasks run, in order
  out         \* the outcome
vars == <<lang, b, child, phase, calls, tree, reg, st, ran, out>>

(* What a Rust program may hand to with_existing_registry; the host of a     *)
(* child is what its parent was made with.                                   *)
Existing ==
  ("p" :> [fn |-> "tp", n |-> 1]) @@ ("q" :> [fn |-> "tq", n |-> 0])
    @@ ("wp" :> [fn |-> "w1", n |-> 1]) @@ ("g::key_fn" :> [fn |-> "kr", n |-> 0])
None == [tree |-> <<>>, reg |-> <<>>, tasks |-> <<>>, cont |-> <<>>, host |-> <<>>]
Unset == [ok |-> FALSE, v |-> Empty]

(* The callables of a call are new. *)
Fn(i) == "t" \o ToString(calls) \o ToString(i)
NewStep(id, i, n) == [id |-> id, fn |-> Fn(i), n |-> n]
(* Beside Names: an anonymous function, or an id the existing registry has. *)
Other == IF lang = "rust" THEN {"p"} ELSE {""}

Defining == phase \in {"child", "parent"} /\ ~b.err
(* A child leaves its parent a call to make. *)
Calling(c) ==
  /\ Defining /\ calls < IF phase = "child" THEN MaxCalls - 1 ELSE MaxCalls
  /\ b' = c /\ calls' = calls + 1
  /\ UNCHANGED <<lang, child, phase, tree, reg, st, ran, out>>

(* ---- calls ------------------------------------------------------------ *)

Then(id, n) ==
  LET s == NewStep(id, 1, n)
  IN Calling(CASE lang = "js" -> js_then(b, s)
               [] lang = "py" -> py_then(b, s)
               [] OTHER -> IF n = 0 THEN rust_then(b, s) ELSE then_task_with(b, s))
ThenRegistered(id) == lang = "rust" /\ Calling(then_registered(b, id))
WithMetadata(n) == lang = "rust" /\ Calling(with_metadata(b, n))

(* A Python branch may be a chain; a Rust one is registered or collected. *)
ForkJoin(how) ==
  LET x == NewStep("x", 1, 1)
      y == NewStep("y", 2, 0)
      z == NewStep("", 3, 0)
      j == NewStep("j", 4, 0)
      named == CASE how = "branch" -> fork_branch(fork_branch(b, x), y)
                 [] how = "task" -> branch_task_with(branch_task_with(b, x), y)
                 [] OTHER -> collector_add(collector_add(b, x), y)
  IN CASE lang = "js" -> how = "branch" /\ Calling(js_join(b, <<<<x>>, <<y>>>>, j))
       [] lang = "py" -> how # "task" /\ Calling(py_join(b, <<IF how = "branch" THEN <<x>> ELSE <<x, z>>, <<y>>>>, j))
       [] OTHER -> Calling(rust_join(named, <<x, y>>, j))
ForkRegistered == lang = "rust" /\ Calling(join_registered(b, <<"p", "q">>, "wp"))

(* The arms of a route by their keys, the second step anonymous. *)
Route(key_fn, keys) ==
  LET id(i) == IF lang # "rust" /\ i = 2 THEN "" ELSE "m" \o ToString(i)
      arms == [i \in DOMAIN keys |-> [key |-> keys[i], steps |-> <<NewStep(id(i), i, 0)>>]]
  IN Calling(CASE lang = "js" -> js_done(b, key_fn, arms)
               [] lang = "py" -> py_done(b, key_fn, arms)
               [] OTHER -> rust_route_done(b, key_fn, arms))
RouteRegistered(keys) ==
  /\ lang = "rust"
  /\ Calling(route_registered_done(b, "g", [i \in DOMAIN keys |-> [key |-> keys[i], ids |-> <<"p", "q">>]]))

LoopStep(id, fn, n, max, on_max) ==
  LET s == [id |-> id, fn |-> fn, n |-> n]
  IN Calling(CASE lang = "js" -> js_loop(b, s, max, on_max)
               [] lang = "py" -> py_loop(b, s, max, on_max)
               [] OTHER -> IF n = 0 THEN loop_task_with_policy(b, s, max, on_max)
                           ELSE loop_task_struct_with_policy(b, s, max, on_max))
LoopRegistered(max) == lang = "rust" /\ Calling(loop_task_registered(b, "wp", max, "fail"))

Wait(d) ==
  Calling(CASE lang = "js" -> js_delay(b, "d", d)
            [] lang = "py" -> py_delay(b, "d", d)
            [] OTHER -> rust_delay(b, "d", d))
Signal(name, to) ==
  Calling(CASE lang = "js" -> js_waitForSignal(b, "s", name, to)
            [] lang = "py" -> py_wait_for_signal(b, "s", name, to)
            [] OTHER -> rust_wait_for_signal(b, "s", name, to))

ThenFlow(how) ==
  /\ phase = "parent" /\ child.tree # <<>>
  /\ how = "merge" \/ lang = "rust"
  /\ Calling(CASE lang = "js" -> js_thenFlow(b, child)
               [] lang = "py" -> py_then_flow(b, child)
               [] how = "merge" -> then_serializable_flow(b, child)
               [] OTHER -> then_flow(b, child))

(* ---- build and run ---------------------------------------------------- *)

(* The Rust builder's type has no build() before the first step. *)
Build ==
  LET t == IF lang = "rust" THEN rust_build(b) ELSE flow_build(b)
  IN /\ phase \in {"child", "parent"}
     /\ lang = "rust" => b.cont # <<>>
     /\ IF t = <<>> THEN phase' = "rejected" /\ UNCHANGED <<child, b, tree, reg>>
        ELSE IF phase = "child"
        THEN /\ phase' = "parent" /\ UNCHANGED <<tree, reg>>
             /\ \E r \in IF lang = "rust" THEN {<<>>, Existing} ELSE {<<>>} :
                  /\ b' = Builder(r)
                  /\ child' = [tree |-> t, reg |-> b.reg, tasks |-> b.tasks, cont |-> t, host |-> r]
        ELSE phase' = "built" /\ tree' = t /\ reg' = b.reg /\ UNCHANGED <<child, b>>
     /\ UNCHANGED <<lang, calls, st, ran, out>>

(* SerializableWorkflow::to_runnable, then the async executor. *)
RunRust ==
  LET t == to_runnable(to_serializable(tree[1]), reg)
  IN /\ phase = "built" /\ lang = "rust"
     /\ IF t = <<>> THEN phase' = "rejected" /\ UNCHANGED out
        ELSE phase' = "done" /\ out' = execute_async_inner(t[1])
     /\ UNCHANGED <<lang, b, child, calls, tree, reg, st, ran>>

(* runWorkflowSync and run_workflow. *)
RunSync ==
  /\ phase = "built" /\ lang # "rust"
  /\ phase' = "done" /\ out' = execute_continuation_sync(Bind(tree[1], reg))
  /\ UNCHANGED <<lang, b, child, calls, tree, reg, st, ran>>

(* runWorkflow: one task of the registry per turn. *)
RunStepper ==
  /\ phase = "built" /\ lang = "js"
  /\ phase' = "run" /\ st' = new_stepper(tree[1])
  /\ UNCHANGED <<lang, b, child, calls, tree, reg, ran, out>>
RunTask ==
  LET fn == Get(reg, current(st))
  IN /\ phase = "run" /\ ~done(st)
     /\ st' = IF fn = "" THEN Fail(st) ELSE submit_result(st, Apply(fn, st.cur))
     /\ ran' = Append(ran, current(st))
     /\ UNCHANGED <<lang, b, child, phase, calls, tree, reg, out>>
Finish ==
  /\ phase = "run" /\ done(st)
  /\ phase' = "done"
  /\ out' = IF st.err THEN Unset ELSE [ok |-> TRUE, v |-> st.cur]
  /\ UNCHANGED <<lang, b, child, calls, tree, reg, st, ran>>

(* ---- the specification ------------------------------------------------ *)

Init ==
  /\ lang \in Langs /\ phase \in {"child", "parent"}
  /\ \E r \in IF lang = "rust" THEN {<<>>, Existing} ELSE {<<>>} : b = Builder(r)
  /\ child = None /\ calls = 0 /\ tree = <<>> /\ reg = <<>>
  /\ st = <<>> /\ ran = <<>> /\ out = Unset

(* Complete, with a default, incomplete, with an undeclared key. *)
Arms == {<<"l", "r">>, <<"l", "_">>, <<"l">>, <<"l", "o", "r">>}

(* Body, max_iterations, on_max: invalid, done in time, and at the bound. *)
Loops == {<<"w0", 0, "fail">>, <<"w1", 2, "fail">>, <<"w1", 1, "fail">>,
          <<"w1", 1, "exit_with_last">>}

Define ==
  \/ \E id \in Names \cup Other : Then(id, 0)
  \/ Then("a", 1)
  \/ \E id \in {"p", "b"} : ThenRegistered(id)
  \/ \E n \in 2..3 : WithMetadata(n)
  \/ \E how \in {"branch", "task", "add"} : ForkJoin(how)
  \/ ForkRegistered
  \/ \E k \in DOMAIN KeyFns, keys \in Arms : Route(k, keys)
  \/ \E keys \in {<<"l", "r">>, <<"l">>} : RouteRegistered(keys)
  \/ \E id \in {"a"} \cup (Other \ {"p"}), l \in Loops : LoopStep(id, l[1], 0, l[2], l[3])
  \/ lang = "rust" /\ LoopStep("a", "w0", 1, 1, "fail")
  \/ \E max \in 0..1 : LoopRegistered(max)
  \/ \E d \in 1..2 : Wait(d)
  \/ \E name \in {"go", "on"}, to \in BOOLEAN : (name = "on" => to) /\ Signal(name, to)
  \/ \E how \in {"merge", "plain"} : ThenFlow(how)

Next == Define \/ Build \/ RunRust \/ RunSync \/ RunStepper \/ RunTask \/ Finish

Spec == Init /\ [][Next]_vars

(* ---- properties ------------------------------------------------------- *)

Unique == IsInjective(task_ids(tree[1]))

(* Ids are given for the callable of a node: its own, or its key function's. *)
CallableId(n) == IF n.kind = "Branch" THEN key_fn_id(n.id) ELSE n.id
(* The workflow as it was written, in the sense of the documentation: on id  *)
(* collisions the registry of the parent wins over a step of the child.      *)
RECURSIVE ParentWins(_, _)
ParentWins(n, inside) ==
  [n EXCEPT !.fn = IF inside /\ CallableId(n) \in DOMAIN child.host
                   THEN child.host[CallableId(n)].fn ELSE @,
            !.subs = [i \in DOMAIN @ |->
                        ParentWins(@[i], inside \/ n.kind = "ChildWorkflow")],
            !.next = [i \in DOMAIN @ |-> ParentWins(@[i], inside)]]
Written == ParentWins(tree[1], FALSE)

(* A workflow whose ids are all different computes what was written: every  *)
(* callable runs where its author put it, whatever the order of the calls   *)
(* and the counters behind generated ids, and whichever engine runs it      *)
(* (then, join, done, loop, thenFlow, runWorkflow, run_workflow,            *)
(* to_runnable).  The one exception is the documented one: a step of a      *)
(* child whose id is in the registry its parent was made with runs what     *)
(* that registry has (merge).                                               *)
RunsAsWritten ==
  phase = "done" /\ Unique => out = execute_continuation_sync(Written)

(* runWorkflow and runWorkflowSync of the Node binding agree on every       *)
(* workflow that can be built, also one with repeated ids: the flat plan    *)
(* with its splices computes what the recursive executor does.              *)
StepperAgrees ==
  phase = "done" /\ st # <<>> => out = execute_continuation_sync(Bind(tree[1], reg))

(* A Rust workflow sent through its serialized form either fails to come    *)
(* back or comes back as it was built, structure and metadata included      *)
(* (to_serializable, to_runnable).  A callable differs only where merge is  *)
(* documented to change it: in a step of the child whose id the registry    *)
(* of the parent already had, which then runs the parent's callable.        *)
RoundTripIsExact ==
  phase = "built" /\ lang = "rust"
    => to_runnable(to_serializable(tree[1]), reg) \in {<<>>, <<Written>>}

(* Ids that contain the punctuation of the hashed text. *)
Punctuated == {"a;T:b"}
RECURSIVE WithoutHints(_)
WithoutHints(n) ==
  [n EXCEPT !.n = IF n.kind = "Task" /\ @ = 3 THEN 2 ELSE @,
            !.subs = [i \in DOMAIN @ |-> WithoutHints(@[i])],
            !.next = [i \in DOMAIN @ |-> WithoutHints(@[i])]]
SameHash == hash_continuation(child.tree[1]) = hash_continuation(tree[1])
SameDefinition ==
  WithoutHints(to_serializable(child.tree[1])) = WithoutHints(to_serializable(tree[1]))
(* Two definitions with the same hashed text are the same but for the       *)
(* priorities and the tags of their tasks, so a resume that passes the      *)
(* DefinitionMismatch check has the tree its checkpoint was written for     *)
(* (compute_definition_hash).  The text is not escaped: this is for ids     *)
(* without its punctuation, which no builder asks for.                      *)
HashSeparates ==
  phase = "built" /\ child.tree # <<>> /\ SameHash
    /\ (IdsOf(child.tree[1]) \cup IdsOf(tree[1])) \cap Punctuated = {}
  => SameDefinition
(* As documented, the hash detects a state that was created with a          *)
(* different definition, whatever its ids.                                  *)
HashSeparatesAnyIds == phase = "built" /\ child.tree # <<>> /\ SameHash => SameDefinition

IndexOf(id) ==
  SelectInSeq(iter_nodes(tree[1]), LAMBDA m : id \in {m.id, key_fn_id(m.id)})
(* The tasks of a run come in the order in which iter_nodes lists them, the *)
(* key function of a route at its node.                                     *)
ListedInRunOrder ==
  phase = "run" /\ Unique =>
    \A i \in 2..Len(ran) : IndexOf(ran[i - 1]) <= IndexOf(ran[i])

(* As documented, a build fails when a parent and a child, or any two       *)
(* steps, have the same id.                                                 *)
DuplicatesRejected == phase = "built" => Unique
=============================================================================
