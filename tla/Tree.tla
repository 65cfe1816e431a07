-------------------------------- MODULE Tree --------------------------------
(***************************************************************************)
(* Continuation trees and the values that flow through them.               *)
(*                                                                         *)
(* A node is a record of one shape for the seven kinds of                  *)
(* WorkflowContinuation.  An Option is a sequence of length 0 or 1, so     *)
(* n.next # <<>> is next.is_some().  A value is the term that produced it: *)
(* the task applied to its input, the named results of a fork, the         *)
(* envelope of a branch.  Two executions agree when their terms do.        *)
(***************************************************************************)
EXTENDS Integers, Sequences, FiniteSets, FiniteSetsExt, TLC

(* ---- nodes ------------------------------------------------------------ *)

Node(kind, id, subs, next) ==
  [kind |-> kind, id |-> id, fn |-> id, subs |-> subs, keys |-> <<>>,
   pick |-> "", n |-> 0, to |-> FALSE, again |-> 0, next |-> next]

(* fn is the callable of a task, named after its id unless said otherwise; *)
(* "" when there is none.                                                  *)

(* A task; n is max_retries (0: no policy), to whether it has a timeout. *)
Task(id, next) == Node("Task", id, <<>>, next)
RetryTask(id, n, next) == [Task(id, next) EXCEPT !.n = n]
TimedTask(id, n, next) == [Task(id, next) EXCEPT !.n = n, !.to = TRUE]
Delay(id, next) == Node("Delay", id, <<>>, next)
AwaitSignal(id, next) == Node("AwaitSignal", id, <<>>, next)
TimedSignal(id, next) == [AwaitSignal(id, next) EXCEPT !.to = TRUE]
(* The join of a fork is its next. *)
Fork(id, branches, join) == Node("Fork", id, branches, join)
(* keys[i] routes to subs[i]; "_" is the default; pick is what the key      *)
(* function returns.                                                       *)
Branch(id, keys, arms, pick, next) ==
  [Node("Branch", id, arms, next) EXCEPT !.keys = keys, !.pick = pick]
(* The body says Again until `again` iterations have gone into its value.  *)
Loop(id, body, again, max, on_max, next) ==
  [Node("Loop", id, <<body>>, next)
     EXCEPT !.again = again, !.n = max, !.pick = on_max]
ChildWorkflow(id, child, next) == Node("ChildWorkflow", id, <<child>>, next)

(* ---- values ----------------------------------------------------------- *)

Term(op, args) == [op |-> op, args |-> args]
Input == Term("input", <<>>)
(* What a signal that timed out, or a default, leaves behind. *)
Empty == Term("", <<>>)
Apply(id, v) == Term(id, <<v>>)

(* serialize_branch_results: results is a sequence of [id, v]; the join     *)
(* looks a branch up by its name.                                          *)
Named(branches, results) ==
  Term("named", [i \in DOMAIN branches |->
    IF \E j \in DOMAIN results : results[j].id = branches[i].id
    THEN results[CHOOSE j \in DOMAIN results : results[j].id = branches[i].id].v
    ELSE Empty])

(* resolve_join: the named results when there is a join, else the result    *)
(* that came last; a fork without branches or join is an error.             *)
resolve_join(n, results) ==
  IF n.next # <<>> THEN [ok |-> TRUE, v |-> Named(n.subs, results)]
  ELSE IF results # <<>> THEN [ok |-> TRUE, v |-> results[Len(results)].v]
  ELSE [ok |-> FALSE, v |-> Empty]

(* resolve_branch: the arm of the key, the default, or an error. *)
Routes(n, key) == {i \in DOMAIN n.keys : n.keys[i] = key}
resolve_branch(n) ==
  IF Routes(n, n.pick) # {} THEN <<n.subs[Min(Routes(n, n.pick))]>>
  ELSE IF Routes(n, "_") # {} THEN <<n.subs[Min(Routes(n, "_"))]>> ELSE <<>>
Envelope(n, v) == Term("env", <<Term(n.pick, <<>>), v>>)
=============================================================================
