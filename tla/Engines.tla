------------------------------ MODULE Engines -------------------------------
(***************************************************************************)
(* One durable workflow instance under one of the three engines: it is     *)
(* run, parks, is resumed by whoever watches it, is paused, unpaused,      *)
(* cancelled and sent events by its clients, and its process may die       *)
(* between any two steps.                                                  *)
(***************************************************************************)
EXTENDS Runner, Callback, CfDurable

(* ---- prepare, resume, finalize ---------------------------------------- *)

(* A process that works on the instance, if any; no two are started.  The   *)
(* tasks of an aborted JoinSet have yielded by the time of the next call.   *)
Idle == DOMAIN th = {}

Start(v) == [t \in {Main} |-> Running(<<Frame(tree, v, "main")>>)]

(* prepare_run saves the first checkpoint, then the executor starts. *)
prepare_run ==
  LET s == update_position(with_initial_input, At("AtTask", FirstTask(tree), ""))
  IN /\ Idle /\ store.st = "none"
     /\ store' = s /\ mem' = s /\ th' = Start(Input)
     /\ Keep
     /\ UNCHANGED <<env, sigs, events, left, delays, ran, got>>

(* get_resume_input: the initial input, or the output of the last task; no  *)
(* thread starts when there is none (ResumeError).                          *)
get_resume_input(s) ==
  IF s.done = Nothing THEN Start(Input)
  ELSE IF s.last \in DOMAIN s.done THEN Start(s.done[s.last]) ELSE <<>>

Parked(s) == s.pos.kind \in {"AtDelay", "AtFork", "AtSignal", "AtTimedSignal"}
AtSignalNode(s) == s.pos.kind \in {"AtSignal", "AtTimedSignal"}

(* Faulty variant: a parked fork may always be resumed. *)
Expired_fork(s) ==
  \/ s.pos.kind = "AtDelay" /\ s.pos.id \notin delays
  \/ s.pos.kind \in {"AtFork", "AtTimedSignal"}
(* The wake time of the position has passed: for a fork, the latest of its   *)
(* delays; a signal's timeout may pass at any time.                          *)
Expired(s) ==
  CASE s.pos.kind = "AtDelay" -> s.pos.id \notin delays
    [] s.pos.kind = "AtFork" -> delays \cap AllIds([NodeById(tree, s.pos.id) EXCEPT !.next = <<>>]) = {}
    [] OTHER -> s.pos.kind = "AtTimedSignal"

(* The park is over with the value v at the parked node. *)
Unparked(s, v) ==
  IF s.pos.kind = "AtFork" THEN s
  ELSE IF s.pos.next = "" THEN mark_completed(s, v)
  ELSE update_position(s, At("AtTask", s.pos.next, ""))

Resolving(v) == [t \in {Main} |-> [stk |-> <<>>, res |-> "resolve", val |-> v]]

(* prepare_resume with ResumeParkedPosition::resolve.  A resume that finds   *)
(* the instance finished, paused or not ready changes nothing.               *)
resume_unparked ==
  /\ Idle /\ store.st = "InProgress" /\ ~Parked(store)
  /\ mem' = store /\ th' = get_resume_input(store)
  /\ UNCHANGED <<env, store, sigs, events, left, delays, ran, got, kept>>

(* The parked position: cancel and pause first. *)
check_parked_position ==
  LET g == check_guards(store, sigs)
  IN /\ Idle /\ store.st = "InProgress" /\ Parked(store) /\ g.e # ""
     /\ store' = g.store /\ sigs' = g.sigs
     /\ Keep
     /\ UNCHANGED <<env, events, mem, th, left, delays, ran, got>>

(* Then the event, for a signal; then the time.  The advanced snapshot is    *)
(* saved by the next step.                                                   *)
resolve ==
  LET marked(v) == mark_task_completed(store, store.pos.id, v)
      go(s, v) == mem' = Unparked(s, v) /\ th' = Resolving(v)
  IN /\ Idle /\ store.st = "InProgress" /\ Parked(store)
     /\ check_guards(store, sigs).e = ""
     /\ IF AtSignalNode(store) /\ events # <<>>
        THEN go(marked(Head(events)), Head(events)) /\ events' = Tail(events)
        ELSE /\ Expired(store)
             /\ IF AtSignalNode(store) THEN go(marked(Empty), Empty)
                ELSE go(store, IF Cached(store, store.pos.id) THEN store.done[store.pos.id] ELSE Empty)
             /\ UNCHANGED events
     /\ UNCHANGED <<env, store, sigs, left, delays, ran, got, kept>>

save_resolved ==
  /\ Main \in DOMAIN th /\ th[Main].res = "resolve"
  /\ store' = mem
  /\ got' = IF AtSignalNode(store) THEN (store.pos.id :> th[Main].val) @@ got ELSE got
  /\ th' = IF mem.st = "InProgress" THEN get_resume_input(mem) ELSE <<>>
  /\ Keep
  /\ UNCHANGED <<env, sigs, events, mem, left, delays, ran>>

(* finalize_execution: a result completes the workflow, an error that is not *)
(* a park or a stop fails it.                                                *)
finalize_execution ==
  LET r == th[Main]
      m == CASE r.res = "ok" -> mark_completed(mem, r.val)
             [] r.res = "Error" -> mark_failed(mem)
             [] OTHER -> mem
  IN /\ Main \in DOMAIN th /\ r.res \notin {"run", "resolve"}
     /\ mem' = m /\ store' = IF r.res \in {"ok", "Error"} THEN m ELSE store
     /\ th' = Drop(th, {Main})
     /\ Keep
     /\ UNCHANGED <<env, sigs, events, left, delays, ran, got>>

(* ---- the world -------------------------------------------------------- *)

Spend(k) == left[k] > 0 /\ left' = [left EXCEPT ![k] = @ - 1]

(* The process dies: what it held in memory is gone. *)
Crash ==
  /\ ~Idle /\ Spend("crash")
  /\ th' = <<>> /\ mem' = NoSnapshot
  /\ UNCHANGED <<env, store, sigs, events, delays, ran, got, kept>>

(* store_signal refuses a finished workflow; a pause of a paused one is      *)
(* nothing new.                                                              *)
store_signal(kind) ==
  /\ store.st \in IF kind = "Cancel" THEN {"InProgress", "Paused"} ELSE {"InProgress"}
  /\ Spend(kind)
  /\ sigs' = sigs \cup {kind}
  /\ UNCHANGED <<env, store, events, mem, th, delays, ran, got, kept>>

unpause ==
  /\ store.st = "Paused"
  /\ store' = mark_unpaused(store)
  /\ Keep
  /\ UNCHANGED <<env, sigs, events, mem, th, left, delays, ran, got>>

(* The payloads are told apart by their number. *)
send_event ==
  /\ store.st # "none"
  /\ Spend("event")
  /\ events' = Append(events, Term("event", <<Term(ToString(left.event), <<>>)>>))
  /\ UNCHANGED <<env, store, sigs, mem, th, delays, ran, got, kept>>

Elapse(d) ==
  /\ delays' = delays \ {d}
  /\ UNCHANGED <<env, store, sigs, events, mem, th, left, ran, got, kept>>

(* ---- the specification ------------------------------------------------ *)

Init ==
  /\ \E c \in Cases : impl = c.impl /\ tree = c.tree /\ left = c.left
  /\ store = NoSnapshot /\ mem = NoSnapshot
  /\ sigs = {} /\ events = <<>> /\ th = <<>> /\ delays = {}
  /\ ran = {} /\ kept = {} /\ got = Nothing

Step == \E t \in DOMAIN th : RunnerStep(t) \/ CallbackStep(t) \/ CfStep(t)

Lifecycle ==
  \/ prepare_run \/ resume_unparked \/ check_parked_position \/ resolve \/ save_resolved
  \/ finalize_execution

Client == \/ \E k \in {"Cancel", "Pause"} : store_signal(k)
          \/ unpause \/ send_event

Clock == \E d \in delays : Elapse(d)

Next == Step \/ Lifecycle \/ Client \/ Crash \/ Clock

Spec == Init /\ [][Next]_vars

(* Tokio polls every ready task; an operator resumes what is neither paused  *)
(* nor finished, unpauses what is paused; time passes.                       *)
LiveSpec ==
  Spec /\ WF_vars(Step) /\ WF_vars(Lifecycle) /\ WF_vars(Clock) /\ WF_vars(unpause)

(* ---- properties ------------------------------------------------------- *)

(* They are stated of the definitions, with what may happen to them, that    *)
(* MCEngines!Covered describes: all that have none of the shapes in which    *)
(* a resume is known to go wrong.                                            *)

(* What the definition computes for the payloads the signals received. *)
Ref == Evaluated(tree, Input, got)

(* A workflow that a durable engine completes has the output the definition  *)
(* computes: no crash, pause, park or order in which the branches of a fork  *)
(* finish (execute_fork_branches_parallel, park_at_fork) changes it.  Not    *)
(* covered: a child, or an arm of Cloudflare, that ends in a delay or a      *)
(* signal, whose resolution completes the whole workflow (Unparked); and a   *)
(* resume in the middle of a fork that is the first node.                    *)
CompletedIsRight == store.st = "Completed" => Ref.k = "ok" /\ store.out = Ref.v

(* Every call of user code is one the definition makes, on the input the     *)
(* definition gives it: a resume (get_resume_input) or a loop iteration      *)
(* never runs a task on somebody else's value.  What get_resume_input gives  *)
(* is the output of whichever task was last; it is harmless where the first  *)
(* node is a task that has its own result, and is not when it is a fork,     *)
(* whose unfinished branches would run on it.                                *)
TrueRuns == \A r \in ran : Result(r.id, r.v) \in Ref.runs

(* A task whose result has reached the store is not run again on the same    *)
(* input: later saves (park_at_fork, save_join_position, the hooks of a      *)
(* loop) do not lose results that execute_or_skip_task would have skipped    *)
(* on.  Not covered: an interrupted loop, which starts again, and an         *)
(* interrupted child or route inside an arm, which saves the snapshot that   *)
(* the arm had loaded over the results since.                                *)
NoRerun == \A r \in ran : ~r.again

(* No task that comes after a delay runs before the delay has elapsed,       *)
(* whoever resumes the workflow and however often                            *)
(* (ResumeParkedPosition::resolve).  Two places are not covered.  The park   *)
(* of a delay inside a routed arm stores no position                         *)
(* (save_branch_park_checkpoint), so the next resume goes on at once; and so *)
(* does one after a crash between the saved result of a delay in a fork      *)
(* branch and the position that park_at_fork saves after it.                 *)
NotEarly == \A r \in ran : ~r.early

Finished == store.st \in {"Completed", "Failed", "Cancelled"}
(* A finished workflow stays as it is: neither an aborted branch that still  *)
(* saves the result of a task nor a pending signal changes it                *)
(* (save_task_result, check_guards, finalize_execution).  A child workflow,  *)
(* a loop or a route in a branch of the runner's fork saves a whole snapshot *)
(* instead, and does so after a sibling has failed the workflow too: such    *)
(* definitions are covered as long as no branch fails.                       *)
FinishedIsFinal == [][Finished => store' = store]_vars

AwaitsEvent == store.pos.kind = "AtSignal" /\ events = <<>>
EndsAwaiting == Main \in DOMAIN th /\ th[Main].res = "AwaitingSignal"
(* A workflow that is resumed, and unpaused, again and again ends, unless it *)
(* waits for a signal that has no event (signal_step) or that stands in a    *)
(* branch, where nothing consumes one (branch_signal_step).                  *)
Ends == <>Finished \/ <>[]AwaitsEvent \/ []<>EndsAwaiting
=============================================================================
