------------------------- MODULE EnginesBaseProofs --------------------------
(***************************************************************************)
(* What the proofs about the engines of module Engines have in common:     *)
(* lemmas about sequences as stacks and paths, about the snapshots that    *)
(* the marks of module Snapshot give, and about the forms that a step of a *)
(* thread has.                                                             *)
(***************************************************************************)
EXTENDS Engines, TLAPS

(* Sequences, frames and snapshots are the functions they should be. *)
IsSeq(s) == Len(s) \in Nat /\ s = [k \in 1..Len(s) |-> s[k]]
IsFrame(f) == DOMAIN f = {"at", "val", "mode", "snap", "i", "pc", "acc", "wait", "ret"}
IsSnap(s) == DOMAIN s = {"st", "pos", "done", "last", "input", "out", "iter", "att"}
Open(s) == IsSnap(s) /\ s.st = "InProgress"

(* ---- sequences -------------------------------------------------------- *)

(* What is known of a sequence in Seq(S), without the S. *)
LEMMA SeqIs ==
  ASSUME NEW S, NEW s \in Seq(S)
  PROVE IsSeq(s)
  BY DEF IsSeq

(* The empty sequence, and the others. *)
LEMMA EmptySeq == IsSeq(<<>>)
  BY DEF IsSeq

(* A sequence that is not empty has a first element. *)
LEMMA OtherSeq ==
  ASSUME NEW s, IsSeq(s), s # <<>>
  PROVE Len(s) > 0
  <1>1. s \in Seq({s[k] : k \in 1..Len(s)})
    BY DEF IsSeq
  <1>2. QED
    BY <1>1

(* Append adds one element at the end. *)
LEMMA AppendSeq ==
  ASSUME NEW s, IsSeq(s), NEW x
  PROVE /\ IsSeq(Append(s, x)) /\ Append(s, x) # <<>>
        /\ Len(Append(s, x)) = Len(s) + 1
        /\ Append(s, x)[Len(s) + 1] = x
        /\ \A k \in 1..Len(s) : Append(s, x)[k] = s[k]
        /\ TopOf(Append(s, x)) = x
  <1> DEFINE S == {s[k] : k \in 1..Len(s)} \cup {x}
  <1>1. s \in Seq(S) /\ x \in S
    BY DEF IsSeq
  <1> HIDE DEF S
  <1>2. Append(s, x) \in Seq(S) /\ Len(Append(s, x)) = Len(s) + 1 /\ Len(s) \in Nat
    BY <1>1
  <1>3. Append(s, x)[Len(s) + 1] = x
    BY <1>1
  <1>4. \A k \in 1..Len(s) : Append(s, x)[k] = s[k]
    BY <1>1
  <1>5. Append(s, x) # <<>>
    BY <1>2, EmptySeq
  <1>6. QED
    BY Zenon, <1>2, <1>3, <1>4, <1>5, SeqIs DEF TopOf

(* A prefix has the elements of the sequence. *)
LEMMA PrefixSeq ==
  ASSUME NEW s, IsSeq(s), NEW n \in 0..Len(s)
  PROVE /\ IsSeq(SubSeq(s, 1, n)) /\ Len(SubSeq(s, 1, n)) = n
        /\ \A k \in 1..n : SubSeq(s, 1, n)[k] = s[k]
  <1> DEFINE S == {s[k] : k \in 1..Len(s)}
  <1>1. s \in Seq(S) /\ Len(s) \in Nat
    BY DEF IsSeq
  <1> HIDE DEF S
  <1>2. \A k \in 1..n : s[k] \in S
    BY <1>1
  <1>3. SubSeq(s, 1, n) \in Seq(S) /\ Len(SubSeq(s, 1, n)) = n
    BY <1>1, <1>2
  <1>4. \A k \in 1..n : SubSeq(s, 1, n)[k] = s[k]
    BY <1>1
  <1>5. QED
    BY Zenon, <1>3, <1>4, SeqIs

(* Below drops the last element. *)
LEMMA BelowSeq ==
  ASSUME NEW s, IsSeq(s), s # <<>>
  PROVE /\ IsSeq(Below(s)) /\ Len(Below(s)) = Len(s) - 1 /\ Len(s) \in Nat \ {0}
        /\ \A k \in 1..(Len(s) - 1) : Below(s)[k] = s[k]
  <1>1. Len(s) \in Nat /\ Len(s) > 0
    BY OtherSeq DEF IsSeq
  <1>2. Len(s) - 1 \in 0..Len(s)
    BY <1>1
  <1> DEFINE n == Len(s) - 1
  <1>3. /\ IsSeq(SubSeq(s, 1, n)) /\ Len(SubSeq(s, 1, n)) = n
        /\ \A k \in 1..n : SubSeq(s, 1, n)[k] = s[k]
    <2> HIDE DEF n
    <2>1. n \in 0..Len(s)
      BY <1>2 DEF n
    <2>2. QED
      BY <2>1, PrefixSeq
  <1>4. Below(s) = SubSeq(s, 1, n)
    BY DEF Below
  <1>5. QED
    BY <1>1, <1>3, <1>4

(* ---- snapshots -------------------------------------------------------- *)

(* Every operation of the executors leaves an open snapshot open, and none   *)
(* changes the state of one.                                                 *)
LEMMA MarkIsSnap ==
  ASSUME NEW s, IsSnap(s), NEW id, NEW v
  PROVE /\ IsSnap(mark_task_completed(s, id, v)) /\ mark_task_completed(s, id, v).st = s.st
        /\ s.st # "InProgress" => mark_task_completed(s, id, v) = s
  BY DEF IsSnap, mark_task_completed

(* A new position. *)
LEMMA PositionIsSnap ==
  ASSUME NEW s, IsSnap(s), NEW pos
  PROVE IsSnap(update_position(s, pos)) /\ update_position(s, pos).st = s.st
  BY DEF IsSnap, update_position

(* Results dropped by a loop. *)
LEMMA RemoveIsSnap ==
  ASSUME NEW s, IsSnap(s), NEW ids
  PROVE IsSnap(remove_task_results(s, ids)) /\ remove_task_results(s, ids).st = s.st
  BY DEF IsSnap, remove_task_results

(* Loop and retry counters. *)
LEMMA CountersAreSnap ==
  ASSUME NEW s, IsSnap(s), NEW id, NEW i
  PROVE /\ IsSnap(set_loop_iteration(s, id, i)) /\ set_loop_iteration(s, id, i).st = s.st
        /\ IsSnap(clear_loop_iteration(s, id)) /\ clear_loop_iteration(s, id).st = s.st
        /\ IsSnap(record_retry(s, id)) /\ record_retry(s, id).st = s.st
        /\ IsSnap(clear_retry_state(s, id)) /\ clear_retry_state(s, id).st = s.st
  BY DEF IsSnap, set_loop_iteration, clear_loop_iteration, record_retry, clear_retry_state

(* The marks that do change the state: ends, pause, unpause. *)
LEMMA EndsAreSnap ==
  ASSUME NEW s, IsSnap(s), NEW v
  PROVE /\ IsSnap(mark_completed(s, v)) /\ IsSnap(mark_failed(s))
        /\ IsSnap(mark_paused(s)) /\ IsSnap(mark_cancelled(s))
        /\ Open(mark_unpaused(s))
  BY DEF IsSnap, Open, mark_completed, mark_failed, mark_paused, mark_cancelled, mark_unpaused

(* A row whose park is over. *)
LEMMA UnparkedIsSnap ==
  ASSUME NEW s, IsSnap(s), NEW v
  PROVE IsSnap(Unparked(s, v))
  <1>1. IsSnap(mark_completed(s, v))
    BY Zenon, EndsAreSnap
  <1>2. \A pos : IsSnap(update_position(s, pos))
    BY Zenon, PositionIsSnap
  <1>3. QED
    BY Zenon, <1>1, <1>2 DEF Unparked

(* The results of a fork, marked together. *)
LEMMA MarkAllIsSnap ==
  ASSUME NEW s, IsSnap(s), NEW results
  PROVE IsSnap(MarkAll(s, results)) /\ MarkAll(s, results).st = s.st
  BY DEF IsSnap, MarkAll

(* The same of an open snapshot. *)
LEMMA MarksAreOpen ==
  ASSUME NEW s, Open(s), NEW id, NEW v, NEW pos
  PROVE /\ Open(mark_task_completed(s, id, v)) /\ Open(save_task_result(s, id, v))
        /\ Open(update_position(s, pos))
  BY MarkIsSnap, PositionIsSnap DEF Open, save_task_result

(* The composed ones. *)
LEMMA ComposedAreOpen ==
  ASSUME NEW s, Open(s), NEW n, NEW v, NEW i
  PROVE /\ Open(AtNext(s, n)) /\ Open(ParkedAtDelay(s, n, v)) /\ Open(ParkedAtSignal(s, n))
        /\ Open(LoopExit(s, n, v)) /\ Open(InLoop(s, n, i))
  <1>1. Open(AtNext(s, n))
    BY Zenon, PositionIsSnap DEF Open, AtNext
  <1>2. Open(ParkedAtDelay(s, n, v))
    BY PositionIsSnap, MarkIsSnap DEF Open, ParkedAtDelay
  <1>3. Open(ParkedAtSignal(s, n))
    BY PositionIsSnap DEF Open, ParkedAtSignal
  <1>4. Open(LoopExit(s, n, v))
    BY CountersAreSnap, MarkIsSnap DEF Open, LoopExit
  <1>5. Open(InLoop(s, n, i))
    BY CountersAreSnap, PositionIsSnap DEF Open, InLoop
  <1>6. QED
    BY <1>1, <1>2, <1>3, <1>4, <1>5

(* ---- moves of a thread ------------------------------------------------ *)

(* Thread t alone moves, to r. *)
Moves(t, r) == th' = [th EXCEPT ![t] = r] /\ impl' = impl /\ tree' = tree

(* What the forms of a step do to the row and the snapshot. *)
LEMMA DoIs ==
  ASSUME NEW t, NEW r, NEW m, NEW s, NEW sg, Do(t, r, m, s, sg)
  PROVE Moves(t, r) /\ mem' = m /\ store' = s
  BY DEF Do, Moves, env

(* A call of user code. *)
LEMMA DoRunIs ==
  ASSUME NEW t, NEW r, NEW m, NEW n, NEW v, DoRun(t, r, m, n, v)
  PROVE Moves(t, r) /\ mem' = m /\ store' = store
  BY DEF DoRun, Moves, env

(* A step that starts a delay. *)
LEMMA DoDelayIs ==
  ASSUME NEW t, NEW r, NEW m, NEW s, NEW d, DoDelay(t, r, m, s, d)
  PROVE Moves(t, r) /\ mem' = m /\ store' = s
  BY DEF DoDelay, Moves, env

(* A failing call. *)
LEMMA DoFailIs ==
  ASSUME NEW t, NEW r, NEW m, NEW s, DoFail(t, r, m, s)
  PROVE Moves(t, r) /\ mem' = m /\ store' = s
  BY DEF DoFail, Moves, env

=============================================================================
