------------------------------- MODULE MCLocal ------------------------------
EXTENDS Local

None == [Cancel |-> 0, Pause |-> 0, event |-> 0, fail |-> 0, expire |-> 0]
Sub(policy, input) == [policy |-> policy, input |-> input]
First == Sub("Fail", Input)
Once == <<<<First>>>>
Again_(policy) == <<<<First, Sub(policy, Term("input2", <<>>))>>>>
Case(t, clients, l) == [tree |-> t, workers |-> {"w1"}, clients |-> clients, left |-> l]
Two(t, clients, l) == [Case(t, clients, l) EXCEPT !.workers = {"w1", "w2"}]

Chain == Task("a", <<Delay("d", <<RetryTask("b", 1, <<Task("c", <<>>)>>)>>)>>)
Short == Task("a", <<Task("b", <<>>)>>)
Parks == Task("a", <<AwaitSignal("s", <<Task("b", <<TimedSignal("u", <<>>)>>)>>)>>)
TrailingDelay == Task("a", <<Delay("d", <<>>)>>)
ForkFlow == Task("a", <<Fork("f", <<Task("p", <<Task("x", <<>>)>>), Task("q", <<>>)>>, <<Task("j", <<Task("z", <<>>)>>)>>)>>)
SmallFork == Task("a", <<Fork("f", <<Task("p", <<>>), Task("q", <<>>)>>, <<Task("j", <<>>)>>)>>)
LoopFlow == Task("a", <<Loop("l", Task("x", <<>>), 1, 3, "fail", <<>>)>>)
Route == Task("a", <<Branch("r", <<"k">>, <<Task("x", <<>>)>>, "k", <<>>)>>)
Child == Task("a", <<ChildWorkflow("k", Task("x", <<>>), <<Task("z", <<>>)>>)>>)

Asked == [None EXCEPT !.Cancel = 1, !.Pause = 2]
MCCases ==
  {Case(Chain, Once, [Asked EXCEPT !.fail = 2, !.expire = 1]),
   Case(Parks, Once, [Asked EXCEPT !.event = 2]),
   Case(TrailingDelay, Once, Asked),
   Case(ForkFlow, Once, [Asked EXCEPT !.fail = 1]),
   Case(LoopFlow, Once, None), Case(Route, Once, None), Case(Child, Once, None)}
  \cup {Case(Short, Again_(p), Asked) : p \in {"Fail", "UseExisting", "TerminateExisting"}}
  \cup {Two(Short, Once, [None EXCEPT !.Cancel = 1, !.Pause = 1]),
        Two(Short, Once, [None EXCEPT !.fail = 1, !.expire = 1]),
        Two(Short, Again_("TerminateExisting"), None),
        Two(SmallFork, Once, None)}

(* Two workers with a delay, with signals, with a cancel; a fork; a pause    *)
(* that is taken back and repeated, two submissions at once, one that        *)
(* replaces the other.                                                       *)
TwoWorkersCases ==
  {Two(Chain, Once, None), Two(TrailingDelay, Once, None),
   Two(Parks, Once, [None EXCEPT !.event = 1]), Two(Short, Once, [None EXCEPT !.Cancel = 1])}
ForkCases == {Case(ForkFlow, Once, None)}
ClientCases ==
  {Case(Short, Once, [None EXCEPT !.Pause = 2]), Case(Short, <<<<First>>, <<First>>>>, None),
   Case(Short, Again_("TerminateExisting"), None)}
MCFlaky == {"b", "q"}
=============================================================================
