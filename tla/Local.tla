-------------------------------- MODULE Local -------------------------------
(***************************************************************************)
(* WorkflowClient on the same backend: clients submit an instance under a  *)
(* conflict policy, cancel it, pause and unpause it and send it events,    *)
(* while the workers of LocalPool run it.                                  *)
(***************************************************************************)
EXTENDS LocalPool

(* ---- submit ----------------------------------------------------------- *)

(* A client makes its submissions [policy, input] one after the other; pc is *)
(* the next section of the current one.                                      *)
Client(i, pc) == i \in DOMAIN cl /\ cl[i].todo # <<>> /\ cl[i].pc = pc
Policy(i) == Head(cl[i].todo).policy
Step(i, pc) == cl' = [cl EXCEPT ![i].pc = pc]
Done(i) == cl' = [cl EXCEPT ![i].pc = "check", ![i].todo = Tail(@)]

(* check_existing_instance: under Fail and UseExisting an instance that is   *)
(* there ends the call.                                                      *)
check_existing_instance(i) ==
  /\ Client(i, "check")
  /\ IF Policy(i) # "TerminateExisting" /\ store.st # "none" THEN Done(i) ELSE Step(i, "load")
  /\ UNCHANGED <<tree, store, sigs, events, claims, w, asking, delays, backoff, left, ran, kept, got>>

(* prepare_run: load again; under TerminateExisting delete what is there and *)
(* drop its signals; then save the first snapshot.                           *)
prepare_run(i) ==
  LET s == [with_initial_input EXCEPT !.input = Head(cl[i].todo).input]
  IN \/ /\ Client(i, "load")
        /\ IF store.st = "none" THEN Step(i, "save")
           ELSE IF Policy(i) = "TerminateExisting" THEN Step(i, "delete") ELSE Done(i)
        /\ UNCHANGED <<tree, store, sigs, events, claims, w, asking, delays, backoff, left, ran, kept, got>>
     \/ /\ Client(i, "delete")
        /\ store' = NoSnapshot
        /\ IF store.st = "none" THEN Done(i) ELSE Step(i, "Cancel")
        /\ UNCHANGED <<tree, sigs, events, claims, w, asking, delays, backoff, left, ran, kept, got>>
     \/ \E k \in {"Cancel", "Pause"} :
          /\ Client(i, k)
          /\ sigs' = sigs \ {k}
          /\ Step(i, IF k = "Cancel" THEN "Pause" ELSE "save")
          /\ UNCHANGED <<tree, store, events, claims, w, asking, delays, backoff, left, ran, kept, got>>
     \/ /\ Client(i, "save")
        /\ store' = update_position(s, At("AtTask", first_task_id(tree), ""))
        /\ Done(i)
        /\ IF Policy(i) = "TerminateExisting" THEN ran' = {} /\ kept' = {} /\ got' = Nothing
           ELSE UNCHANGED <<ran, kept, got>>
        /\ UNCHANGED <<tree, sigs, events, claims, w, asking, delays, backoff, left>>

(* ---- signals and events ----------------------------------------------- *)

(* store_signal: the state is checked under one lock and the request stored  *)
(* under another.  A finished workflow is refused; a repeated request is not *)
(* stored.                                                                   *)
store_signal(k) ==
  \/ /\ k \notin asking
     /\ store.st \in IF k = "Cancel" THEN {"InProgress", "Paused"} ELSE {"InProgress"}
     /\ Spend(k)
     /\ asking' = asking \cup {k}
     /\ UNCHANGED <<tree, store, sigs, events, claims, w, cl, delays, backoff, ran, kept, got>>
  \/ /\ k \in asking
     /\ asking' = asking \ {k}
     /\ sigs' = sigs \cup {k}
     /\ UNCHANGED <<tree, store, events, claims, w, cl, delays, backoff, left, ran, kept, got>>

(* Faulty variant: the workflow starts over. *)
unpause_restart ==
  /\ store.st = "Paused"
  /\ store' = [with_initial_input EXCEPT !.pos = At("AtTask", first_task_id(tree), "")]
  /\ UNCHANGED <<tree, sigs, events, claims, w, cl, asking, delays, backoff, left, ran, kept, got>>
unpause ==
  /\ store.st = "Paused"
  /\ store' = mark_unpaused(store)
  /\ UNCHANGED <<tree, sigs, events, claims, w, cl, asking, delays, backoff, left, ran, kept, got>>

(* send_event only buffers; the payloads are told apart by their number. *)
send_event(n) ==
  /\ Spend("event")
  /\ events' = [events EXCEPT ![n] = Append(@, Term("event", <<Term(ToString(left.event), <<>>)>>))]
  /\ UNCHANGED <<tree, store, sigs, claims, w, cl, asking, delays, backoff, ran, kept, got>>

(* ---- time ------------------------------------------------------------- *)

Elapse(d) ==
  /\ delays' = delays \ {d}
  /\ UNCHANGED <<tree, store, sigs, events, claims, w, cl, asking, backoff, left, ran, kept, got>>

BackoffOver(t) ==
  /\ backoff' = backoff \ {t}
  /\ UNCHANGED <<tree, store, sigs, events, claims, w, cl, asking, delays, left, ran, kept, got>>

(* A claim outlives its TTL: user code that blocks its thread holds up the   *)
(* heartbeat as well.                                                        *)
Expire(t) ==
  /\ claims[t].live /\ Spend("expire")
  /\ claims' = [claims EXCEPT ![t].live = FALSE]
  /\ UNCHANGED <<tree, store, sigs, events, w, cl, asking, delays, backoff, ran, kept, got>>

(* ---- the specification ------------------------------------------------ *)

Init ==
  /\ \E c \in Cases :
       /\ tree = c.tree /\ left = c.left
       /\ w = [x \in c.workers |-> Idle]
       /\ cl = [i \in DOMAIN c.clients |-> [pc |-> "check", todo |-> c.clients[i]]]
       /\ events = [n \in {SignalName(s) : s \in SignalNodes(c.tree)} |-> <<>>]
  /\ store = NoSnapshot /\ sigs = {} /\ claims = Nothing /\ asking = {}
  /\ delays = {} /\ backoff = {} /\ ran = {} /\ kept = {} /\ got = Nothing

Workers == {"w1", "w2"}
WorkerStep(x) ==
  \/ collect(x) \/ apply(x) \/ list(x)
  \/ claim_task(x) \/ check_and_cancel(x) \/ check_and_pause(x)
  \/ execute_with_deadline(x) \/ heartbeat(x)
  \/ settle_failure(x) \/ release_quietly(x)
  \/ commit_task_result(x) \/ drain_pending_signal(x) \/ release(x)
  \/ resolve_loop_completions(x) \/ determine_post_task_status(x)

Submit == \E i \in 1..2 : check_existing_instance(i) \/ prepare_run(i)
Request == \/ \E k \in {"Cancel", "Pause"} : store_signal(k)
           \/ unpause
           \/ \E n \in DOMAIN events : send_event(n)
Clock == \/ \E d \in delays : Elapse(d)
         \/ \E t \in backoff : BackoffOver(t)

Next ==
  \/ \E x \in Workers : WorkerStep(x)
  \/ Submit \/ Request \/ Clock
  \/ \E t \in DOMAIN claims : Expire(t)

Spec == Init /\ [][Next]_vars

(* Tokio polls every worker and every client call that has started; a task   *)
(* that runs comes to an end, however often the heartbeat ticks; time passes. *)
LiveSpec ==
  /\ Spec
  /\ \A x \in Workers : WF_vars(WorkerStep(x)) /\ SF_vars(execute_with_deadline(x))
  /\ WF_vars(Submit) /\ WF_vars(Clock)

(* ---- properties ------------------------------------------------------- *)

KindsOf(t) == {n.kind : n \in NodesOf(t)}
Alone == Cardinality(DOMAIN w) = 1
(* What a definition computes for an input and the payloads of its signals. *)
Ref(input) == Eval(tree, input, got)
(* As documented, every task, those in the branches of a fork included, runs *)
(* on the input its definition gives it (find_available_tasks).              *)
RunsAsDefined == \A r \in ran : [id |-> r.id, v |-> r.v] \in Ref(r.of).runs
(* What completes has the output its definition computes for the input of    *)
(* the stored instance (find_available_tasks, determine_post_task_status).   *)
OutputAsDefined ==
  store.st = "Completed" => Ref(store.input).k = "ok" /\ store.out = Ref(store.input).v

(* No forks, and no parks either if there is more than one worker.  Two that *)
(* have both noted a delay or an event (collect) both apply it, the second   *)
(* with an empty value over the first.                                       *)
Sequential == KindsOf(tree) \subseteq IF Alone THEN {"Task", "Delay", "AwaitSignal"} ELSE {"Task"}
(* A sequential workflow that is completed has the output its definition     *)
(* computes for the input it was submitted with, however the events, the     *)
(* pauses, the retries, the dispatches of another worker and a submission    *)
(* anew fall between the lock sections of the backend: what is stored never  *)
(* mixes an instance with the one that replaced it (find_available_tasks,    *)
(* drain_pending_signal, determine_post_task_status).                        *)
CompletedIsRight == Sequential => OutputAsDefined

(* In a sequential workflow every task runs on the output of the step before *)
(* it, in the instance it was dispatched for: what find_available_tasks      *)
(* offers as input is never the output of an older step, nor an event meant  *)
(* for another signal.                                                       *)
TrueRuns == Sequential => RunsAsDefined

(* A join gets the stored result of the last task of every branch, under the *)
(* branch's name (find_fork_branches_for_join), and never a part of one: it  *)
(* runs after all of them (update_position_after_task).                      *)
JoinSeesBranches ==
  \A r \in ran : \A f \in NodesOf(tree) :
    f.kind = "Fork" /\ f.next # <<>> /\ f.next[1].id = r.id =>
      /\ r.in.op = "named"
      /\ \A i \in DOMAIN f.subs :
           [id |-> terminal_node(f.subs[i]).id, v |-> r.in.args[i]] \in kept

(* A single worker does not run a task again, on the same input, after its   *)
(* result has been stored, whoever pauses, resumes or submits again          *)
(* (find_available_tasks, commit_task_result).                               *)
NoRerun == Alone => \A r \in ran : ~r.again

Finished == store.st \in {"Completed", "Failed", "Cancelled"}
Terminating(pc) == \E i \in DOMAIN cl : Client(i, pc) /\ Policy(i) = "TerminateExisting"
(* With a single worker a finished workflow stays as it is, unless a client  *)
(* submits the instance anew under TerminateExisting: a request that was     *)
(* checked before the end and stored after it (store_signal) changes         *)
(* nothing.                                                                  *)
FinishedIsFinal ==
  [][Alone /\ Finished => store' = store \/ Terminating("delete") \/ Terminating("save")]_vars

Kept(k, st) ==
  k \in sigs \ sigs' => store.st = st \/ Terminating(k)
(* A cancel request that was stored is only dropped from a cancelled         *)
(* workflow, or by a client that submits it anew, with any number of workers *)
(* (check_and_cancel).                                                       *)
CancelKeptAnyhow == [][Kept("Cancel", "Cancelled")]_vars
Replaced == \E x \in DOMAIN w : At_(x, "cancel-") /\ store.input # w[x].snap.input
(* The same of a single worker and an instance that is not replaced under    *)
(* it: no client's call that falls between the three sections of             *)
(* check_and_cancel, an unpause or a request checked before the cancel among *)
(* them, leaves the request dropped and the workflow running.                *)
CancelKept == [][Alone => Replaced \/ Kept("Cancel", "Cancelled")]_vars
(* The same of a pause request, which is dropped from a paused workflow      *)
(* (check_and_pause).                                                        *)
PauseKept == [][Kept("Pause", "Paused")]_vars

(* A submission under TerminateExisting replaces the instance for good: no   *)
(* worker that still runs a task of the old one saves it over the new one    *)
(* (prepare_run, commit_task_result).                                        *)
SubmissionKept ==
  [][store.st # "none" /\ store'.input # store.input => Terminating("delete") \/ Terminating("save")]_vars

AwaitsEvent == store.pos.kind = "AtSignal" /\ events[NameAt(store)] = <<>>
Supported == KindsOf(tree) \subseteq {"Task", "Delay", "AwaitSignal", "Fork"}
(* The property below, with any number of workers. *)
EndsAnyhow == Supported /\ [](sigs = {}) => <>[]Finished \/ <>[]AwaitsEvent
(* A workflow of tasks, delays, signals and forks that was submitted and is  *)
(* not asked to stop ends, with a single worker, unless it waits for an      *)
(* event nobody sends: no order of send_event, park and poll leaves a        *)
(* buffered event unseen (find_available_tasks, drain_pending_signal).       *)
Ends == Alone => EndsAnyhow
=============================================================================
