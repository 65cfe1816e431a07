------------------------------ MODULE MCEngines -----------------------------
EXTENDS Engines

(* ---- the walks over a definition -------------------------------------- *)
F == INSTANCE Flow
MCFirstTask(n) == F!first_task_id(n)
MCFirstOrNone(next) == F!first_of(next)
MCAllIds(n) == F!IdsOf(n)
MCNodeById(n, id) == F!NodeOf(n, id)
MCTasksAfter(n, d) == F!Followers(n, d)
MCSaysAgain(n, v) == F!Again(n, v)
MCLoopDecision(n, v, i) == F!resolve_loop_iteration(n, v, i)
MCEvaluated(n, v, payloads) == F!Eval(n, v, payloads)

NoFaults == [crash |-> 0, Cancel |-> 0, Pause |-> 0, event |-> 0, fail |-> 0]
Case(i, t, l) == [impl |-> i, tree |-> t, left |-> l]

(* ---- workflows -------------------------------------------------------- *)
Chain == Task("a", <<Delay("d", <<RetryTask("b", 1, <<Task("c", <<>>)>>)>>)>>)
Signals == Task("a", <<AwaitSignal("s", <<Task("b", <<TimedSignal("u", <<Task("c", <<>>)>>)>>)>>)>>)
ForkFlow == Task("a", <<Fork("f", <<Task("p", <<>>), Task("q", <<>>)>>, <<Task("j", <<Task("z", <<>>)>>)>>)>>)
ForkDelay == Task("a", <<Fork("f", <<Task("p", <<>>), Delay("w", <<>>)>>, <<Task("j", <<>>)>>)>>)
Route == Task("a", <<Branch("r", <<"k", "_">>, <<Task("x", <<Task("y", <<>>)>>), Task("o", <<>>)>>, "k", <<Task("z", <<>>)>>)>>)
Child == Task("a", <<ChildWorkflow("k", Task("x", <<Delay("e", <<Task("y", <<>>)>>)>>), <<Task("z", <<>>)>>)>>)
LoopFlow(max, on_max) == Task("a", <<Loop("l", Task("x", <<Task("y", <<>>)>>), 1, max, on_max, <<Task("z", <<>>)>>)>>)
Nested == Task("a", <<Fork("f", <<Task("p", <<Fork("g", <<Task("x", <<>>), Task("y", <<>>)>>, <<Task("w", <<>>)>>)>>), Task("q", <<>>)>>, <<Task("j", <<>>)>>)>>)
NoArm == Task("a", <<Branch("r", <<"k">>, <<Task("x", <<>>)>>, "no", <<>>)>>)

(* A loop, a child, a route and a fork inside the branches of a fork. *)
Deep == Task("a", <<Fork("f",
          <<Loop("l", Task("x", <<>>), 1, 3, "fail", <<ChildWorkflow("k", Task("y", <<>>), <<>>)>>),
            Branch("r", <<"k">>, <<Task("w", <<>>)>>, "k", <<>>)>>, <<Task("j", <<>>)>>)>>)
Timed == Task("a", <<TimedTask("b", 1, <<Task("c", <<>>)>>)>>)

(* Every tree of k nodes, with forks of two branches; an id is its place.    *)
RECURSIVE Trees(_, _)
Trees(k, id) ==
  LET Rest(j) == IF j = 0 THEN {<<>>} ELSE {<<n>> : n \in Trees(j, id \o "n")}
      Sub(i, j) == Trees(j, id \o ToString(i))
  IN UNION {{Task(id, n), Delay(id, n), AwaitSignal(id, n)} : n \in Rest(k - 1)}
     \cup UNION {UNION {{Branch(id, <<"k">>, <<s>>, "k", n), ChildWorkflow(id, s, n),
                          Loop(id, s, 1, 3, "fail", n)} : s \in Sub(1, j), n \in Rest(k - 1 - j)}
                 : j \in 1..(k - 1)}
     \cup UNION {{Fork(id, <<s, u>>, n) : s \in Sub(1, j[1]), u \in Sub(2, j[2]),
                                          n \in Rest(k - 1 - j[1] - j[2])}
                 : j \in {q \in (1..k) \X (1..k) : q[1] + q[2] < k}}

(* ---- the definitions the properties of Engines speak of --------------- *)

KindsOf(n) == {F!NodeOf(n, i).kind : i \in F!IdsOf(n)}
Parks == {"Delay", "AwaitSignal"}

(* Covered: the definitions, each with what may happen to it, for which the  *)
(* properties hold.  A definition that is interrupted begins with a task,    *)
(* whose stored result stands in for the input of the resume, has no loop,   *)
(* forks with single nodes for branches and arms of tasks and signals.  The  *)
(* last node of a child is not a park.  A delay stands in no arm, and in a   *)
(* branch only where nothing is interrupted between its result and the       *)
(* position of the fork; a signal stands in no arm or branch of Cloudflare.  *)
(* README names the code behind every exclusion.                             *)
Covered(c) ==
  LET nodes == {F!NodeOf(c.tree, i) : i \in F!IdsOf(c.tree)}
      of(kind) == {n \in nodes : n.kind = kind}
      inside(kind) == UNION {Range(n.subs) : n \in of(kind)}
      interrupted == c.left.crash > 0 \/ c.left.Pause > 0
      cf == c.impl = "cf"
  IN /\ interrupted => c.tree.kind = "Task"
     /\ \A s \in inside("ChildWorkflow") : F!terminal_node(s).kind \notin Parks
     /\ \A s \in inside("Loop") : /\ ~interrupted /\ KindsOf(s) \cap Parks = {}
                                  /\ F!terminal_node(s).kind = "Task"
     /\ \A s \in inside("Branch") :
          /\ KindsOf(s) \cap (IF cf THEN Parks ELSE {"Delay"}) = {}
          /\ interrupted \/ "AwaitSignal" \in KindsOf(s) => KindsOf(s) \subseteq {"Task", "AwaitSignal"}
     /\ \A n \in of("Fork") :
          LET kinds == UNION {KindsOf(s) : s \in Range(n.subs)}
          IN /\ n.next # <<>>
             /\ cf => "AwaitSignal" \notin kinds
             /\ c.left.crash > 0 \/ (cf /\ interrupted) => "Delay" \notin kinds
             /\ interrupted \/ c.left.fail > 0 \/ kinds \cap Parks # {}
                  => \A s \in Range(n.subs) : s.subs = <<>> /\ s.next = <<>>

Impls == {"runner", "callback", "cf"}
Crashed == [NoFaults EXCEPT !.crash = 2, !.Pause = 1, !.Cancel = 1]
Chosen ==
  UNION {
    {Case(i, Chain, [Crashed EXCEPT !.fail = 2]),
     Case(i, Timed, [Crashed EXCEPT !.fail = 1]),
     Case(i, Signals, [Crashed EXCEPT !.event = 2]),
     Case(i, ForkFlow, Crashed),
     Case(i, ForkFlow, [NoFaults EXCEPT !.fail = 1]),
     Case(i, ForkDelay, [NoFaults EXCEPT !.Pause = 1]),
     Case(i, ForkDelay, NoFaults),
     Case(i, Route, Crashed),
     Case(i, Child, Crashed),
     Case(i, Nested, [NoFaults EXCEPT !.Cancel = 1]),
     Case(i, Deep, NoFaults),
     Case(i, NoArm, NoFaults)}
    \cup {Case(i, LoopFlow(m, p), [NoFaults EXCEPT !.Cancel = 1]) :
             m \in {1, 2, 3}, p \in {"fail", "exit_with_last"}}
    : i \in Impls}
MaxNodes == 4
OneEvent == [NoFaults EXCEPT !.event = 1]
Small == {Case(i, t, l) : i \in Impls, t \in UNION {Trees(k, "a") : k \in 1..MaxNodes},
                          l \in {OneEvent, [OneEvent EXCEPT !.crash = 1, !.Pause = 1]}}
MCCases == {c \in Chosen \cup Small : Covered(c)}

(* ---- cases that are not covered --------------------------------------- *)

OneCrash == [NoFaults EXCEPT !.crash = 1]

LoopFirst == Loop("l", Task("x", <<>>), 1, 3, "fail", <<Task("z", <<>>)>>)
LoopFirstCases == {Case(i, LoopFirst, OneCrash) : i \in Impls}
LoopAfterCases == {Case(i, LoopFlow(3, "fail"), OneCrash) : i \in Impls}

ArmDelay == Task("a", <<Branch("r", <<"k">>, <<Task("x", <<Delay("d", <<Task("y", <<>>)>>)>>)>>, "k", <<>>)>>)
ArmDelayCases == {Case(i, ArmDelay, NoFaults) : i \in {"runner", "callback"}}

(* A resume in the middle of a fork that is the first node, of one with a    *)
(* delay in a branch, of a branch of two tasks (which the Python builder     *)
(* makes), and of an arm with a child.                                       *)
ForkFirst == Fork("f", <<Task("p", <<>>), Task("q", <<>>)>>, <<Task("j", <<>>)>>)
TwoTasks == Task("a", <<Fork("f", <<Task("p", <<Task("x", <<>>)>>), Task("q", <<>>)>>, <<Task("j", <<>>)>>)>>)
ArmChild == Task("a", <<Branch("r", <<"k">>, <<Task("x", <<ChildWorkflow("k", Task("y", <<>>), <<>>)>>)>>, "k", <<>>)>>)
ResumeCases == {Case(i, t, OneCrash) : i \in Impls, t \in {ForkFirst, ForkDelay, TwoTasks, ArmChild}}

(* A park at the end of a child, and of a routed arm of Cloudflare. *)
ChildEnd(n) == Task("a", <<ChildWorkflow("k", n, <<Task("z", <<>>)>>)>>)
ArmEnd == Task("a", <<Branch("r", <<"k">>, <<Delay("d", <<>>)>>, "k", <<Task("z", <<>>)>>)>>)
ParkEndCases == {Case(i, ChildEnd(n), OneEvent) : i \in Impls, n \in {Delay("e", <<>>), AwaitSignal("e", <<>>)}}
                \cup {Case("cf", ArmEnd, NoFaults)}

MCFlaky == {"b", "q"}
=============================================================================
