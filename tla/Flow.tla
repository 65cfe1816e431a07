-------------------------------- MODULE Flow --------------------------------
(***************************************************************************)
(* The walks over a continuation tree, and what a workflow means: the      *)
(* executor without a store.                                               *)
(***************************************************************************)
EXTENDS Tree, SequencesExt

(* ---- walks ------------------------------------------------------------ *)

(* first_task_id: the first task a cursor placed on this node means. *)
RECURSIVE first_task_id(_)
first_task_id(n) ==
  CASE n.kind \in {"Task", "Delay", "AwaitSignal", "Branch"} -> n.id
    [] n.kind = "Fork" ->
         IF n.subs = <<>> THEN "unknown" ELSE first_task_id(n.subs[1])
    [] OTHER -> first_task_id(n.subs[1])

first_of(next) == IF next = <<>> THEN "" ELSE first_task_id(next[1])

RECURSIVE terminal_node(_)
terminal_node(n) == IF n.next = <<>> THEN n ELSE terminal_node(n.next[1])
terminal_task_id(n) == first_task_id(terminal_node(n))

(* The ids of a tree in the order task_ids lists them. *)
RECURSIVE task_ids(_)
task_ids(n) ==
  <<n.id>> \o FlattenSeq([i \in DOMAIN n.subs |-> task_ids(n.subs[i])])
           \o FlattenSeq([i \in DOMAIN n.next |-> task_ids(n.next[i])])

IdsOf(n) == ToSet(task_ids(n))

(* The ids that come after node d in the flow. *)
RECURSIVE Followers(_, _)
Followers(n, d) ==
  LET inside == UNION {IdsOf(n.subs[i]) : i \in DOMAIN n.subs}
  IN UNION {Followers(n.subs[i], d) : i \in DOMAIN n.subs}
     \cup IF n.next = <<>> THEN {}
          ELSE IF d \in {n.id} \cup inside THEN IdsOf(n.next[1])
          ELSE Followers(n.next[1], d)

(* The node of an id that is in the tree. *)
RECURSIVE NodeOf(_, _)
NodeOf(n, id) ==
  IF n.id = id THEN n
  ELSE LET subs == {i \in DOMAIN n.subs : id \in IdsOf(n.subs[i])}
       IN IF subs # {} THEN NodeOf(n.subs[CHOOSE i \in subs : TRUE], id)
          ELSE NodeOf(n.next[1], id)

(* ---- loops ------------------------------------------------------------ *)

(* decode_loop_envelope: how often the body's last node is in the value     *)
(* decides Again or Done.                                                  *)
RECURSIVE Occurrences(_, _)
Occurrences(v, op) ==
  (IF v.op = op THEN 1 ELSE 0)
    + FoldLeft(LAMBDA a, w : a + Occurrences(w, op), 0, v.args)
Again(n, v) == Occurrences(v, terminal_node(n.subs[1]).fn) <= n.again

(* resolve_loop_iteration: "exit" with the value, "next", or "max" when     *)
(* MaxIterationsPolicy::Fail applies.                                      *)
resolve_loop_iteration(n, v, iteration) ==
  IF ~Again(n, v) THEN "exit"
  ELSE IF iteration + 1 < n.n THEN "next"
  ELSE IF n.pick = "exit_with_last" THEN "exit" ELSE "max"

(* ---- what a workflow computes ----------------------------------------- *)

(* execute_continuation_sync, with got the payload every signal received    *)
(* (a partial function: a signal without one stops the evaluation).  The    *)
(* result says how it ended, the value, and the set of task runs.          *)
Ended(k, v, runs) == [k |-> k, v |-> v, runs |-> runs]

RECURSIVE Eval(_, _, _), EvalNode(_, _, _), EvalLoop(_, _, _, _)
Eval(n, v, got) ==
  LET r == EvalNode(n, v, got)
  IN IF r.k # "ok" \/ n.next = <<>> THEN r
     ELSE LET s == Eval(n.next[1], r.v, got)
          IN [s EXCEPT !.runs = @ \cup r.runs]

EvalNode(n, v, got) ==
  CASE n.kind = "Task" ->
         IF n.fn = "" THEN Ended("error", v, {})
         ELSE Ended("ok", Apply(n.fn, v), {[id |-> n.id, v |-> Apply(n.fn, v)]})
    [] n.kind = "Delay" -> Ended("ok", v, {})
    [] n.kind = "AwaitSignal" ->
         IF n.id \in DOMAIN got THEN Ended("ok", got[n.id], {})
         ELSE Ended("signal", v, {})
    [] n.kind = "Fork" ->
         LET rs   == [i \in DOMAIN n.subs |-> Eval(n.subs[i], v, got)]
             runs == UNION {rs[i].runs : i \in DOMAIN rs}
             bad  == {i \in DOMAIN rs : rs[i].k # "ok"}
             join == resolve_join(n, [i \in DOMAIN rs |->
                                        [id |-> n.subs[i].id, v |-> rs[i].v]])
         IN IF bad # {} THEN Ended(rs[CHOOSE i \in bad : \A j \in bad : i <= j].k, v, runs)
            ELSE Ended(IF join.ok THEN "ok" ELSE "error", join.v, runs)
    [] n.kind = "Branch" ->
         LET arm == resolve_branch(n)
         IN IF arm = <<>> THEN Ended("error", v, {})
            ELSE LET r == Eval(arm[1], v, got)
                 IN IF r.k = "ok" THEN [r EXCEPT !.v = Envelope(n, @)] ELSE r
    [] n.kind = "Loop" -> EvalLoop(n, v, got, 0)
    [] OTHER -> Eval(n.subs[1], v, got)

EvalLoop(n, v, got, i) ==
  IF i >= n.n THEN Ended("error", v, {})
  ELSE LET r == Eval(n.subs[1], v, got)
           d == resolve_loop_iteration(n, r.v, i)
       IN IF r.k # "ok" \/ d = "exit" THEN r
          ELSE IF d = "max" THEN [r EXCEPT !.k = "error"]
          ELSE LET s == EvalLoop(n, r.v, got, i + 1)
               IN [s EXCEPT !.runs = @ \cup r.runs]
=============================================================================
