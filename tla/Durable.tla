------------------------------ MODULE Durable -------------------------------
(***************************************************************************)
(* What the durable executors share: the checkpoint and its operations,    *)
(* the store, the control signals, the call stack of an executor, and the  *)
(* run, resume, finalize life of one workflow instance.                    *)
(*                                                                         *)
(* An execution is a set of threads (one, unless fork branches run in      *)
(* parallel).  A thread is a stack of frames, one per call of an execute   *)
(* function; a frame walks one chain of nodes.  Main frames share the      *)
(* snapshot `mem`; a branch frame has a snapshot of its own, loaded when   *)
(* the call starts.  One action runs up to the next await of the store or  *)
(* of user code; the process may die between any two.                      *)
(***************************************************************************)
EXTENDS Snapshot

CONSTANTS
    Cases,   \* [impl, tree, left]: executor, workflow, budget of each fault
    Flaky,   \* the ids of the tasks that may fail
    (* what is read off a definition: first_task_id and first_of, IdsOf,    *)
    (* NodeOf, Followers, Again, resolve_loop_iteration and Eval of Flow    *)
    FirstTask(_), FirstOrNone(_), AllIds(_), NodeById(_, _), TasksAfter(_, _),
    SaysAgain(_, _), LoopDecision(_, _, _), Evaluated(_, _, _)

VARIABLES
    impl,    \* the executor that serves the instance
    tree,    \* the workflow definition
    store,   \* the stored checkpoint
    sigs,    \* the stored control signals
    events,  \* the buffered external events, oldest first
    mem,     \* the running process's snapshot
    th,      \* its threads, by path; none when no process runs
    left,    \* the faults and requests that may still come
    delays,  \* the delays that were started and have not elapsed
    ran,     \* history: the task runs [id, v] with two marks (see DoRun)
    kept,    \* history: every result [id, v] the store has held
    got      \* history: the payload every signal node received

env == <<impl, tree>>
vars == <<impl, tree, store, sigs, events, mem, th, left, delays, ran, kept, got>>

(* ---- the store -------------------------------------------------------- *)

(* Faulty variant: a result is stored whatever the state of the row. *)
save_task_result_any(s, id, v) == [s EXCEPT !.done = (id :> v) @@ @]
(* save_task_result marks the stored row; save_snapshot replaces it. *)
save_task_result(s, id, v) == mark_task_completed(s, id, v)

(* check_and_cancel, then check_and_pause, on the stored row: what the      *)
(* guard leaves behind and the error it ends with, if any.                  *)
check_guards(s, sg) ==
  IF "Cancel" \in sg /\ s.st = "InProgress"
  THEN [e |-> "Cancelled", store |-> mark_cancelled(s), sigs |-> sg \ {"Cancel"}]
  ELSE IF "Pause" \in sg /\ s.st = "InProgress"
  THEN [e |-> "Paused", store |-> mark_paused(s), sigs |-> sg \ {"Pause"}]
  ELSE [e |-> "", store |-> s, sigs |-> sg]

(* ---- frames and threads ----------------------------------------------- *)

(* mode: "main" or "branch"; pc: where the frame is in the node `at`; val:  *)
(* the value going in, and at "save" the one coming out; i, acc, wait: the  *)
(* branch or iteration, the results so far, whether a branch is waiting;    *)
(* ret: what the call below returned.                                       *)
Frame(n, v, mode) ==
  [at |-> n, val |-> v, mode |-> mode, snap |-> NoSnapshot, i |-> 0,
   pc |-> IF mode = "branch" THEN "load" ELSE "enter",
   acc |-> <<>>, wait |-> FALSE, ret |-> Empty]

Main == <<>>
Running(stk) == [stk |-> stk, res |-> "run", val |-> Empty]
TopOf(stk) == stk[Len(stk)]
Below(stk) == SubSeq(stk, 1, Len(stk) - 1)
ReplaceTop(stk, f) == Append(Below(stk), f)

(* The call returns v to its caller, or ends the thread. *)
Return(stk, v) ==
  IF stk = <<>> THEN [stk |-> <<>>, res |-> "ok", val |-> v]
  ELSE Running(ReplaceTop(stk, [TopOf(stk) EXCEPT !.pc = "back", !.ret = v]))

(* The node is done with output v: the step at the end of every executor's  *)
(* loop, to the next node of the chain or out of the call.                  *)
Advance(stk, v) ==
  LET f == TopOf(stk)
  IN IF f.at.next = <<>> THEN Return(Below(stk), v)
     ELSE Running(ReplaceTop(stk,
            [f EXCEPT !.at = f.at.next[1], !.val = v, !.pc = "enter",
                      !.i = 0, !.acc = <<>>, !.wait = FALSE]))

(* The error e leaves every call up to the fork that catches it: only a     *)
(* fork running its branches one by one ("seq") catches, and only Waiting;  *)
(* of several, the innermost.                                               *)
Catchers(stk) ==
  {k \in DOMAIN stk : /\ stk[k].pc = "seq"
                      /\ \A j \in DOMAIN stk : j > k => stk[j].pc # "seq"}
Throw(stk, e) ==
  IF e = "Waiting" /\ Catchers(stk) # {}
  THEN LET k == CHOOSE x \in Catchers(stk) : TRUE
       IN Running(Append(SubSeq(stk, 1, k - 1),
            [stk[k] EXCEPT !.pc = "fork", !.wait = TRUE, !.i = @ + 1]))
  ELSE [stk |-> <<>>, res |-> e, val |-> Empty]

Stk(t) == th[t].stk
Top(t) == TopOf(th[t].stk)
SetTop(t, f) == Running(ReplaceTop(Stk(t), f))
Call(t, f, n, v, mode) == Running(Append(ReplaceTop(Stk(t), f), Frame(n, v, mode)))

(* Thread t stands at pc in a node of this kind, in this mode. *)
Here(t, mode, kind, pc) ==
  /\ t \in DOMAIN th /\ Stk(t) # <<>> /\ Top(t).mode = mode /\ Top(t).at.kind = kind /\ Top(t).pc = pc

(* Every step adds what the store holds to the history. *)
Keep == kept' = kept \cup {[id |-> x, v |-> store'.done[x]] : x \in DOMAIN store'.done}

(* The step of thread t: its next state, snapshot, store and signals. *)
Do(t, r, m, s, sg) ==
  /\ th' = [th EXCEPT ![t] = r]
  /\ mem' = m /\ store' = s /\ sigs' = sg /\ Keep
  /\ UNCHANGED <<env, events, left, delays, ran, got>>

(* The guards before a node; r, m and s are the step when they pass. *)
Guarded(t, r, m, s) ==
  LET g == check_guards(store, sigs)
  IN IF g.e = "" THEN Do(t, r, m, s, sigs)
     ELSE Do(t, Throw(Stk(t), g.e), mem, g.store, g.sigs)

(* Save the snapshot m and check the guards after it. *)
SavedGuarded(t, r, m) ==
  LET g == check_guards(m, sigs)
  IN Do(t, IF g.e = "" THEN r ELSE Throw(Stk(t), g.e), m, g.store, g.sigs)

(* User code that returned: the run goes into the history, marked "again"   *)
(* when the store has held its result before and "early" when it comes      *)
(* after a delay in the flow that has not elapsed.                          *)
DoRun(t, r, m, n, v) ==
  /\ th' = [th EXCEPT ![t] = r]
  /\ mem' = m
  /\ ran' = ran \cup {[id |-> n.id, v |-> v,
                       again |-> [id |-> n.id, v |-> v] \in kept,
                       early |-> \E d \in delays : n.id \in TasksAfter(tree, d)]}
  /\ UNCHANGED <<env, store, sigs, events, left, delays, kept, got>>

(* The clock of delay d starts; the step is otherwise that of Do. *)
DoDelay(t, r, m, s, d) ==
  /\ th' = [th EXCEPT ![t] = r]
  /\ mem' = m /\ store' = s /\ Keep
  /\ delays' = delays \cup {d}
  /\ UNCHANGED <<env, sigs, events, left, ran, got>>

(* User code that failed or timed out, while it still may. *)
MayFail(n) == left.fail > 0 /\ (n.id \in Flaky \/ n.to)
DoFail(t, r, m, s) ==
  /\ th' = [th EXCEPT ![t] = r]
  /\ mem' = m /\ store' = s /\ Keep
  /\ left' = [left EXCEPT !.fail = @ - 1]
  /\ UNCHANGED <<env, sigs, events, delays, ran, got>>

(* ---- the main executors' steps ---------------------------------------- *)

(* The position after a node that has a successor. *)
AtNext(s, n) ==
  IF n.next = <<>> THEN s
  ELSE update_position(s, At("AtTask", FirstTask(n.next[1]), ""))

(* set_deadline_if_needed, of a task without a result: it saves the         *)
(* snapshot when it sets a deadline.                                        *)
set_deadline_if_needed(n) == IF n.to THEN mem ELSE store

(* execute_or_skip_task: a task with a result is not run again. *)
execute_or_skip_task(t) ==
  LET f == Top(t) n == f.at
  IN IF Cached(mem, n.id)
     THEN Guarded(t, SetTop(t, [f EXCEPT !.pc = "save", !.val = mem.done[n.id]]),
                  clear_retry_state(mem, n.id), store)
     ELSE Guarded(t, SetTop(t, [f EXCEPT !.pc = "exec"]), mem,
                  set_deadline_if_needed(n))

(* retry_with_checkpoint: a success clears the retry state; a failure is    *)
(* recorded and saved while attempts are left, then tried again.            *)
retry_with_checkpoint(t) ==
  LET f == Top(t) n == f.at v == Apply(n.id, f.val) m == record_retry(mem, n.id)
  IN \/ DoRun(t, SetTop(t, [f EXCEPT !.pc = "save", !.val = v]),
              mark_task_completed(clear_retry_state(mem, n.id), n.id, v), n, v)
     \/ /\ MayFail(n)
        /\ IF n.n > 0 /\ ~retries_exhausted(mem, n) THEN DoFail(t, th[t], m, m)
           ELSE DoFail(t, Throw(Stk(t), "Error"), mem, store)

(* execute_task_step: guards and deadline, the attempts, then the           *)
(* checkpoint at the next task and the guards again.                        *)
execute_task_step(t) ==
  \/ Here(t, "main", "Task", "enter") /\ execute_or_skip_task(t)
  \/ Here(t, "main", "Task", "exec") /\ retry_with_checkpoint(t)
  \/ /\ Here(t, "main", "Task", "save")
     /\ SavedGuarded(t, Advance(Stk(t), Top(t).val), AtNext(mem, Top(t).at))

(* Faulty variant: only the position is saved. *)
ParkedAtDelay_position(s, n, v) == update_position(s, At("AtDelay", n.id, FirstOrNone(n.next)))
(* save_park_checkpoint at a delay: the position and the result together. *)
ParkedAtDelay(s, n, v) ==
  mark_task_completed(update_position(s, At("AtDelay", n.id, FirstOrNone(n.next))), n.id, v)

(* save_park_checkpoint at a signal: only the position. *)
ParkedAtSignal(s, n) ==
  update_position(s, At(IF n.to THEN "AtTimedSignal" ELSE "AtSignal", n.id, FirstOrNone(n.next)))

delay_step(t) ==
  LET f == Top(t) m == ParkedAtDelay(mem, f.at, f.val) g == check_guards(store, sigs)
  IN /\ Here(t, "main", "Delay", "enter")
     /\ IF Cached(mem, f.at.id) \/ g.e # "" THEN Guarded(t, Advance(Stk(t), f.val), mem, store)
        ELSE DoDelay(t, Throw(Stk(t), "Waiting"), m, m, f.at.id)

(* An AwaitSignal node takes a buffered event in one call and saves it in   *)
(* the next; without an event it parks.                                     *)
signal_step(t) ==
  LET f == Top(t) n == f.at
      parked == ParkedAtSignal(mem, n)
      g == check_guards(store, sigs)
      m == AtNext(mark_task_completed(mem, n.id, f.val), n)
  IN \/ /\ Here(t, "main", "AwaitSignal", "enter")
        /\ IF Cached(mem, n.id) THEN Guarded(t, Advance(Stk(t), mem.done[n.id]), mem, store)
           ELSE IF events = <<>> THEN Guarded(t, Throw(Stk(t), "AwaitingSignal"), parked, parked)
           ELSE IF g.e # "" THEN Guarded(t, th[t], mem, store)
           ELSE /\ events' = Tail(events)
                /\ th' = [th EXCEPT ![t] = SetTop(t, [f EXCEPT !.pc = "save", !.val = Head(events)])]
                /\ UNCHANGED <<env, store, sigs, mem, left, delays, ran, kept, got>>
     \/ /\ Here(t, "main", "AwaitSignal", "save")
        /\ th' = [th EXCEPT ![t] = Advance(Stk(t), f.val)]
        /\ mem' = m /\ store' = m /\ Keep
        /\ got' = (n.id :> f.val) @@ got
        /\ UNCHANGED <<env, sigs, events, left, delays, ran>>

(* A node with a subtree: skip it when its result is known, else call. *)
EnterOrSkip(t, kind, f, sub, v, mode) ==
  /\ Here(t, "main", kind, "enter")
  /\ IF Cached(mem, Top(t).at.id)
     THEN Guarded(t, Advance(Stk(t), mem.done[Top(t).at.id]), mem, store)
     ELSE IF sub = <<>> THEN Guarded(t, Throw(Stk(t), "Error"), mem, store)
     ELSE Guarded(t, Call(t, f, sub[1], v, mode), mem, store)

(* The call came back: save its value as the node's result. *)
SaveResult(t, kind, v) ==
  LET m == mark_task_completed(mem, Top(t).at.id, v)
  IN /\ Here(t, "main", kind, "back")
     /\ Do(t, Advance(Stk(t), v), m, m, sigs)

Waits(t) == [Top(t) EXCEPT !.pc = "wait"]

branch_step(t, mode) ==
  \/ EnterOrSkip(t, "Branch", Waits(t), resolve_branch(Top(t).at), Top(t).val, mode)
  \/ SaveResult(t, "Branch", Envelope(Top(t).at, Top(t).ret))

child_step(t) ==
  \/ EnterOrSkip(t, "ChildWorkflow", Waits(t), Top(t).at.subs, Top(t).val, "main")
  \/ SaveResult(t, "ChildWorkflow", Top(t).ret)

(* Enter the loop at the saved iteration, unless none is left. *)
LoopEntry(t) ==
  LET n == Top(t).at i == loop_iteration(mem, n.id)
  IN EnterOrSkip(t, "Loop", [Waits(t) EXCEPT !.i = i],
                 IF i < n.n THEN n.subs ELSE <<>>, Top(t).val, "main")

(* After an iteration the body's results go; the loop exits with a result   *)
(* of its own, or saves the count and runs the body again.                  *)
LoopExit(s, n, v) == mark_task_completed(clear_loop_iteration(s, n.id), n.id, v)
InLoop(s, n, i) ==
  update_position(set_loop_iteration(s, n.id, i), At("InLoop", n.id, FirstTask(n.subs[1])))

loop_step(t) ==
  LET f == Top(t) n == f.at
      m == remove_task_results(mem, AllIds(n.subs[1]))
      d == LoopDecision(n, f.ret, f.i)
      exit == LoopExit(m, n, f.ret)
      next == InLoop(m, n, f.i + 1)
  IN \/ LoopEntry(t)
     \/ /\ Here(t, "main", "Loop", "back")
        /\ CASE d = "exit" -> Do(t, Advance(Stk(t), f.ret), exit, exit, sigs)
             [] d = "next" -> Do(t, Call(t, [Waits(t) EXCEPT !.i = f.i + 1], n.subs[1], f.ret, "main"),
                                 next, next, sigs)
             [] OTHER -> Do(t, Throw(Stk(t), "Error"), m, store, sigs)
=============================================================================
