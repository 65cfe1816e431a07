----------------------------- MODULE MCDispatch -----------------------------
(* Small fleets for Dispatch: one process, up to two workers, three rows.    *)
EXTENDS Dispatch

Row(prio, tags, def, steps) == [prio |-> prio, tags |-> tags, def |-> def, steps |-> steps]
Worker(max, batch, tags, defs, external) ==
  [max |-> max, batch |-> batch, tags |-> tags, defs |-> defs, external |-> external]
Left(errors, retries, cuts, stops) ==
  [error |-> errors, retry |-> retries, disconnect |-> cuts, shutdown |-> stops]

(* A row that is saved again, and two workers for its hints: one of bindings, *)
(* which spawns the hinted task, one in process, which polls.                 *)
Shared(left_) ==
  [rows |-> [a |-> Row(1, {}, "d", 1)], dead |-> {},
   workers |-> [w1 |-> Worker(1, 1, {}, {"d"}, TRUE), w2 |-> Worker(1, 1, {}, {"d"}, FALSE)],
   left |-> left_]
(* More rows than room in the queue, a batch larger than the slots, a backend *)
(* that fails and a connection that breaks.                                   *)
Batched(steps, left_) ==
  [rows |-> [a |-> Row(1, {}, "d", steps), b |-> Row(2, {}, "d", 1)],
   dead |-> {}, workers |-> [w1 |-> Worker(1, 2, {}, {"d"}, TRUE)],
   left |-> left_]
(* Two slots and a batch of one. *)
Slots ==
  [rows |-> [a |-> Row(1, {}, "d", 1), b |-> Row(2, {}, "d", 1)],
   dead |-> {}, workers |-> [w1 |-> Worker(2, 1, {}, {"d"}, FALSE)],
   left |-> Left(0, 0, 0, 0)]
(* Tags: the untagged worker drops the hints for a tagged row, but polls it. *)
Tagged ==
  [rows |-> [a |-> Row(1, {"t"}, "d", 2)], dead |-> {},
   workers |-> [w1 |-> Worker(1, 1, {}, {"d"}, TRUE), w2 |-> Worker(1, 1, {"t"}, {"d"}, TRUE)],
   left |-> Left(0, 0, 0, 0)]
(* One worker, one slot, with a row it can never run in each scan. *)
Blocked(batch) ==
  [rows |-> [a |-> Row(1, {}, "d", 1), b |-> Row(1, {}, "d", 1), c |-> Row(1, {}, "e", 1)],
   dead |-> {"a"}, workers |-> [w1 |-> Worker(1, batch, {}, {"d"}, FALSE)],
   left |-> Left(0, 1, 0, 1)]

Fleets ==
  {Shared(Left(0, 1, 0, 0)), Shared(Left(0, 0, 0, 1)), Batched(2, Left(1, 0, 1, 0)),
   Batched(1, Left(1, 0, 0, 1)), Slots, Tagged, Blocked(3)}
Starving == {Blocked(1)}
=============================================================================
