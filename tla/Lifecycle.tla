----------------------------- MODULE Lifecycle -----------------------------
(***************************************************************************)
(* What a client may rely on when it watches one instance of a workflow of *)
(* N tasks: a single, sequential run.  Results appear one at a time and in *)
(* the order of the tasks, whoever produces them; the workflow is Completed *)
(* only together with its last result; and an end is an end.  There are no *)
(* workers, claims, copies or crashes at this level.                       *)
(*                                                                         *)
(* Two weaknesses of the implementation are part of the promise.  The last *)
(* task may be taken up again after its result is recorded, and a failed   *)
(* run of it withdraws that result.  A worker that was already running when *)
(* the workflow was paused puts it back InProgress with its result.        *)
(***************************************************************************)
EXTENDS Naturals

CONSTANT N

VARIABLES
    status,  \* what the instance reports
    done     \* the tasks that have a result

lifecycle == <<status, done>>

Active == {"InProgress", "Paused"}

Start == status = "InProgress" /\ done = {}

\* The task after the last one with a result gets its own.
Record ==
    /\ status \in Active /\ status' = "InProgress"
    /\ \E n \in 1..N : done = 1..(n - 1) /\ done' = 1..n

\* A run ended without a new result.
Kept == done' = done \/ (done = 1..N /\ done' = 1..(N - 1))

Retry == status \in Active /\ status' = "InProgress" /\ Kept
Fail == status \in Active /\ status' = "Failed" /\ Kept

Complete ==
    /\ status \in Active /\ status' = "Completed"
    /\ done \in {1..(N - 1), 1..N} /\ done' = 1..N

Pause == status = "InProgress" /\ status' = "Paused" /\ UNCHANGED done
Unpause == status = "Paused" /\ status' = "InProgress" /\ UNCHANGED done
Cancel == status = "InProgress" /\ status' = "Cancelled" /\ UNCHANGED done

Move == Record \/ Retry \/ Fail \/ Complete \/ Pause \/ Unpause \/ Cancel

Spec == Start /\ [][Move]_lifecycle

=============================================================================
