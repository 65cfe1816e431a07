------------------------------ MODULE Snapshot ------------------------------
(***************************************************************************)
(* WorkflowSnapshot: the checkpoint of one workflow instance and the       *)
(* operations every executor, worker and backend applies to it.            *)
(*                                                                         *)
(* One record shape serves the five states.  The results are kept under    *)
(* InProgress, Cancelled and Paused only (see Cached).                     *)
(***************************************************************************)
EXTENDS Tree

(* ---- the checkpoint --------------------------------------------------- *)

Nothing == [id \in {} |-> 0]
Drop(f, ids) == [x \in DOMAIN f \ ids |-> f[x]]
At(kind, id, next) == [kind |-> kind, id |-> id, next |-> next]

(* No row, and the value of a snapshot variable that is not in use. *)
NoSnapshot == [st |-> "none", pos |-> At("NotStarted", "", ""), done |-> Nothing,
               last |-> "", input |-> Input, out |-> Empty, iter |-> Nothing, att |-> Nothing]

with_initial_input == [NoSnapshot EXCEPT !.st = "InProgress"]

(* get_task_result: the states that keep their results. *)
Cached(s, id) == s.st \in {"InProgress", "Cancelled", "Paused"} /\ id \in DOMAIN s.done

mark_task_completed(s, id, v) ==
  IF s.st = "InProgress" THEN [s EXCEPT !.done = (id :> v) @@ @, !.last = id]
  ELSE s
update_position(s, pos) == IF s.st = "InProgress" THEN [s EXCEPT !.pos = pos] ELSE s
(* Faulty variant: the results of a loop body outlive the iteration. *)
remove_task_results_never(s, ids) == s
remove_task_results(s, ids) ==
  IF s.st = "InProgress" THEN [s EXCEPT !.done = Drop(@, ids)] ELSE s

loop_iteration(s, id) == IF id \in DOMAIN s.iter THEN s.iter[id] ELSE 0
set_loop_iteration(s, id, i) == [s EXCEPT !.iter = (id :> i) @@ @]
clear_loop_iteration(s, id) == [s EXCEPT !.iter = Drop(@, {id})]

(* The deadline of a task is left out of the snapshot: it is set anew       *)
(* before every read, so what a crash leaves behind is never looked at.     *)
Attempts(s, id) == IF id \in DOMAIN s.att THEN s.att[id] ELSE 0
record_retry(s, id) == [s EXCEPT !.att = (id :> Attempts(s, id) + 1) @@ @]
clear_retry_state(s, id) == [s EXCEPT !.att = Drop(@, {id})]
retries_exhausted(s, n) == n.id \in DOMAIN s.att /\ s.att[n.id] >= n.n

mark_completed(s, v) ==
  [s EXCEPT !.st = "Completed", !.out = v, !.att = Nothing, !.iter = Nothing,
            !.done = Nothing]
mark_failed(s) ==
  [s EXCEPT !.st = "Failed", !.att = Nothing, !.iter = Nothing, !.done = Nothing]
mark_paused(s) == [s EXCEPT !.st = "Paused"]
mark_unpaused(s) == [s EXCEPT !.st = "InProgress"]
mark_cancelled(s) ==
  [s EXCEPT !.st = "Cancelled", !.done = IF s.st = "InProgress" THEN @ ELSE Nothing]
=============================================================================
