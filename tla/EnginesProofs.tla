---------------------------- MODULE EnginesProofs ----------------------------
(***************************************************************************)
(* A workflow that has finished stays finished: the proof, for the three   *)
(* engines of module Engines, every definition, and any number of crashes, *)
(* requests and failures.  EnginesMainProofs has the invariant and the     *)
(* main thread; here are the threads of fork branches, the steps of a      *)
(* resume, of the clients and of a crash, and the theorem.                 *)
(***************************************************************************)
EXTENDS EnginesMainProofs

(* ---- the threads of the runner ---------------------------------------- *)

(* A step that changes the threads alone. *)
LEMMA ThreadsKeep ==
  ASSUME Inv, store' = store, mem' = mem, impl' = impl, tree' = tree,
         \A p \in DOMAIN th' : /\ IsSeq(p) /\ StackOK(impl, p, th'[p].stk)
                               /\ impl # "runner" => p = Main,
         Main \in DOMAIN th' => /\ Main \in DOMAIN th
                                /\ th'[Main] = th[Main] \/ th[Main].stk # <<>>
  PROVE Steady
  <1>1. ThreadsOK'
    BY DEF ThreadsOK
  <1>2. LiveInv'
    <2>1. CASE Main \in DOMAIN th' /\ th'[Main] = th[Main]
      BY Zenon, <2>1 DEF Inv, LiveInv, Busy
    <2>2. CASE Main \in DOMAIN th' /\ th[Main].stk # <<>>
      BY Zenon, <2>2 DEF Inv, LiveInv, Busy
    <2>3. CASE Main \notin DOMAIN th'
      BY <2>3 DEF LiveInv
    <2>4. QED
      BY <2>1, <2>2, <2>3
  <1>3. QED
    BY <1>1, <1>2 DEF Inv, NodeOK, Steady

(* What such a step leaves alone. *)
LEMMA DoThreadsIs ==
  ASSUME NEW threads, DoThreads(threads)
  PROVE th' = threads /\ store' = store /\ mem' = mem /\ impl' = impl /\ tree' = tree
  BY DEF DoThreads, env

(* One frame. *)
LEMMA StackOne ==
  ASSUME NEW e, NEW t, NEW f, Fresh(e, t, f)
  PROVE StackOK(e, t, <<f>>)
  <1>1. <<f>> \in Seq({f}) /\ Len(<<f>>) = 1
    OBVIOUS
  <1>2. IsSeq(<<f>>)
    BY Zenon, <1>1, SeqIs
  <1>3. \A k \in 1..1 : <<f>>[k] = f /\ ~(k < 1)
    OBVIOUS
  <1>4. QED
    BY <1>1, <1>2, <1>3 DEF StackOK

(* A fork spawns a thread for some of its branches, each of plain nodes. *)
LEMMA SpawnKeeps ==
  ASSUME Inv, PlainBranches, NEW t, Standing(t), impl = "runner", Top(t).at.kind = "Fork",
         NEW is, is \subseteq DOMAIN Top(t).at.subs, NEW g, Like(Top(t), g),
         DoThreads(With([th EXCEPT ![t] = SetTop(t, g)], Spawned(t, is)))
  PROVE Steady
  <1> DEFINE new == Spawned(t, is)
             old == [th EXCEPT ![t] = SetTop(t, g)]
             n == Top(t).at
  <1>1. th' = With(old, new) /\ store' = store /\ mem' = mem /\ impl' = impl /\ tree' = tree
    BY Zenon, DoThreadsIs
  <1>2. t \in DOMAIN th /\ IsSeq(t) /\ th[t].stk # <<>>
    BY Zenon DEF Standing, Inv, ThreadsOK, Stk
  <1>3. NodeOK(impl, t, n)
    BY Zenon DEF Standing, Settled, Fresh
  <1>4. \A i \in is : n.subs[i] \in Inside
    BY Zenon, <1>3 DEF NodeOK, PlainBranches
  <1>5. DOMAIN new = {Append(t, i) : i \in is}
    BY Zenon DEF Spawned
  <1>6. ASSUME NEW p \in DOMAIN new
        PROVE /\ IsSeq(p) /\ p # Main /\ StackOK(impl, p, new[p].stk)
    <2>1. PICK i \in is : p = Append(t, i)
      BY Zenon, <1>5
    <2>2. IsSeq(p) /\ p # Main /\ TopOf(p) = i
      BY Zenon, <1>2, <2>1, AppendSeq DEF Main
    <2> DEFINE f == Frame(n.subs[i], Top(t).val, "branch")
    <2>3. new[p] = Running(<<f>>)
      BY Zenon, <1>5, <2>2 DEF Spawned
    <2>4. /\ IsFrame(f) /\ f.at = n.subs[i] /\ f.mode = "branch"
          /\ f.pc = "load"
      BY Zenon DEF Frame, IsFrame
    <2> HIDE DEF f
    <2>5. Fresh(impl, p, f)
      BY Zenon, <1>4, <2>2, <2>4 DEF Fresh, NodeOK
    <2>6. StackOK(impl, p, <<f>>)
      BY Zenon, <2>5, StackOne
    <2>7. QED
      BY Zenon, <2>2, <2>3, <2>6, RunningStack
  <1>7. ASSUME NEW p \in DOMAIN old
        PROVE /\ IsSeq(p) /\ StackOK(impl, p, old[p].stk) /\ p \in DOMAIN th
              /\ p # t => old[p] = th[p]
    <2>1. StackOK(impl, t, SetTop(t, g).stk)
      BY Zenon, SetTopStack
    <2>2. p \in DOMAIN th /\ IsSeq(p) /\ StackOK(impl, p, th[p].stk)
      BY Zenon DEF Inv, ThreadsOK
    <2>3. CASE p = t
      BY Zenon, <2>1, <2>2, <2>3
    <2>4. CASE p # t
      BY Zenon, <2>2, <2>4
    <2>5. QED
      BY Zenon, <2>3, <2>4
  <1> HIDE DEF new, old
  <1>8. /\ DOMAIN th' = DOMAIN new \cup DOMAIN old
        /\ \A p \in DOMAIN new : th'[p] = new[p]
        /\ \A p \in DOMAIN old : p \notin DOMAIN new => th'[p] = old[p]
    BY Zenon, <1>1 DEF With
  <1>9. \A p \in DOMAIN th' : IsSeq(p) /\ StackOK(impl, p, th'[p].stk)
    BY Zenon, <1>6, <1>7, <1>8
  <1>10. Main \in DOMAIN th' => /\ Main \in DOMAIN th
                                /\ th'[Main] = th[Main] \/ th[Main].stk # <<>>
    BY Zenon, <1>2, <1>6, <1>7, <1>8
  <1>11. QED
    BY Zenon, <1>1, <1>9, <1>10, ThreadsKeep

(* Thread t moves and thread p goes, or one of the two. *)
LEMMA JoinMove ==
  ASSUME Inv, NEW t, Standing(t), NEW r, StackOK(impl, t, r.stk), NEW gone,
         DoThreads([Drop(th, gone) EXCEPT ![t] = r])
  PROVE Steady
  <1> DEFINE rest == Drop(th, gone)
  <1>1. /\ th' = [rest EXCEPT ![t] = r]
        /\ store' = store /\ mem' = mem /\ impl' = impl /\ tree' = tree
    BY Zenon, DoThreadsIs
  <1>2. DOMAIN rest \subseteq DOMAIN th /\ \A p \in DOMAIN rest : rest[p] = th[p]
    BY DEF Drop
  <1>3. th[t].stk # <<>>
    BY DEF Standing, Stk
  <1> HIDE DEF rest
  <1>4. /\ DOMAIN th' = DOMAIN rest
        /\ \A p \in DOMAIN rest : th'[p] = IF p = t THEN r ELSE rest[p]
    BY <1>1
  <1>5. ASSUME NEW p \in DOMAIN th'
        PROVE /\ IsSeq(p) /\ StackOK(impl, p, th'[p].stk)
              /\ impl # "runner" => p = Main
    <2>1. /\ p \in DOMAIN th /\ th'[p] = IF p = t THEN r ELSE th[p]
      BY Zenon, <1>2, <1>4
    <2>2. /\ IsSeq(p) /\ StackOK(impl, p, th[p].stk)
          /\ impl # "runner" => p = Main
      BY Zenon, <2>1 DEF Inv, ThreadsOK
    <2>3. QED
      BY Zenon, <2>1, <2>2
  <1>6. Main \in DOMAIN th' => /\ Main \in DOMAIN th
                               /\ th'[Main] = th[Main] \/ th[Main].stk # <<>>
    BY Zenon, <1>2, <1>3, <1>4
  <1>7. QED
    BY Zenon, <1>1, <1>5, <1>6, ThreadsKeep

(* One thread moves. *)
LEMMA MoveKeeps ==
  ASSUME Inv, NEW t, Standing(t), NEW r, StackOK(impl, t, r.stk),
         DoThreads([th EXCEPT ![t] = r])
  PROVE Steady
  <1>1. /\ th' = [th EXCEPT ![t] = r]
        /\ store' = store /\ mem' = mem /\ impl' = impl /\ tree' = tree
    BY Zenon, DoThreadsIs
  <1>2. t \in DOMAIN th /\ th[t].stk # <<>>
    BY DEF Standing, Stk
  <1>3. Moves(t, r) /\ IsSnap(store')
    BY <1>1 DEF Moves, Inv
  <1>4. QED
    BY Zenon, <1>1, <1>2, <1>3, PlainMove

(* Threads go. *)
LEMMA DropKeeps ==
  ASSUME Inv, NEW gone, DoThreads(Drop(th, gone))
  PROVE Steady
  <1>1. /\ th' = Drop(th, gone)
        /\ store' = store /\ mem' = mem /\ impl' = impl /\ tree' = tree
    BY Zenon, DoThreadsIs
  <1>2. DOMAIN th' \subseteq DOMAIN th /\ \A p \in DOMAIN th' : th'[p] = th[p]
    BY <1>1 DEF Drop
  <1>3. \A p \in DOMAIN th' : /\ IsSeq(p) /\ StackOK(impl, p, th'[p].stk)
                              /\ impl # "runner" => p = Main
    BY Zenon, <1>2 DEF Inv, ThreadsOK
  <1>4. QED
    BY Zenon, <1>1, <1>2, <1>3, ThreadsKeep

(* The frames of a fork that joins. *)
LEMMA JoinFrames ==
  ASSUME NEW f, IsFrame(f), NEW x, NEW cached
  PROVE /\ Like(f, [f EXCEPT !.acc = Append(@, x)])
        /\ Like(f, [f EXCEPT !.wait = TRUE])
        /\ Like(f, [f EXCEPT !.pc = "settle"])
        /\ Like(f, [f EXCEPT !.pc = "join"])
        /\ Like(f, [f EXCEPT !.pc = "join", !.acc = cached])
  BY DEF Like, IsFrame

(* A fork takes the outcome of a branch that has ended. *)
LEMMA CollectKeeps ==
  ASSUME Inv, NEW t, Standing(t), NEW p, NEW catches, Collect(t, p, catches)
  PROVE Steady
  <1> DEFINE f == Top(t)
             r == th[p]
             took == [f EXCEPT !.acc = Append(@, Result(f.at.subs[TopOf(p)].id, r.val))]
             waits == [f EXCEPT !.wait = TRUE]
  <1>1. \/ DoThreads([Drop(th, {p}) EXCEPT ![t] = SetTop(t, took)])
        \/ DoThreads([Drop(th, {p}) EXCEPT ![t] = SetTop(t, waits)])
        \/ DoThreads([Drop(th, {p}) EXCEPT ![t] = Throw(Stk(t), r.res)])
    BY Zenon DEF Collect
  <1>2. Like(f, took) /\ Like(f, waits)
    BY Zenon, JoinFrames DEF Standing
  <1> HIDE DEF took, waits
  <1>3. /\ StackOK(impl, t, SetTop(t, took).stk) /\ StackOK(impl, t, SetTop(t, waits).stk)
        /\ StackOK(impl, t, Throw(Stk(t), r.res).stk)
    BY Zenon, <1>2, SetTopStack, ThrowStack
  <1>4. QED
    BY Zenon, <1>1, <1>3, JoinMove

(* A fork of the main thread collects cached results and spawns the others. *)
LEMMA RunnerForkKeeps ==
  ASSUME Inv, PlainBranches, NEW t, r_fork(t)
  PROVE Steady
  <1> DEFINE f == Top(t)
             todo == {i \in DOMAIN f.at.subs : ~Cached(mem, f.at.subs[i].id)}
             cached == collect_cached_branches(mem, f.at)
             g == [f EXCEPT !.pc = "join", !.acc = cached]
  <1>1. /\ impl = "runner" /\ Here(t, "main", "Fork", "enter")
        /\ \/ Guarded(t, Joined(Stk(t), cached), mem, store)
           \/ DoThreads(With([th EXCEPT ![t] = SetTop(t, g)], Spawned(t, todo)))
    BY Zenon DEF r_fork
  <1>2. /\ t = Main /\ Standing(Main) /\ Main \in DOMAIN th /\ Stk(Main) # <<>>
        /\ Open(store) /\ Open(mem) /\ IsFrame(f) /\ Top(Main).pc # "load"
        /\ f.at.kind = "Fork"
    BY <1>1, MainStands
  <1>3. Like(f, g) /\ todo \subseteq DOMAIN f.at.subs
    BY Zenon, <1>2, JoinFrames
  <1> HIDE DEF g, cached, todo
  <1>4. StackOK(impl, Main, Joined(Stk(Main), cached).stk)
    BY Zenon, <1>2, JoinedStack
  <1>5. CASE Guarded(t, Joined(Stk(t), cached), mem, store)
    BY Zenon, <1>2, <1>4, <1>5, GuardedKeeps
  <1>6. CASE DoThreads(With([th EXCEPT ![t] = SetTop(t, g)], Spawned(t, todo)))
    BY Zenon, <1>1, <1>2, <1>3, <1>6, SpawnKeeps
  <1>7. QED
    BY Zenon, <1>1, <1>5, <1>6

(* It joins its branches. *)
LEMMA ParallelKeeps ==
  ASSUME Inv, PlainBranches, NEW t, execute_fork_branches_parallel(t)
  PROVE Steady
  <1> DEFINE g == [Top(t) EXCEPT !.pc = "settle"]
  <1>1. /\ Here(t, "main", "Fork", "join")
        /\ \/ \E p : Collect(t, p, TRUE)
           \/ DoThreads([th EXCEPT ![t] = SetTop(t, g)])
    BY Zenon DEF execute_fork_branches_parallel
  <1>2. Standing(t) /\ IsFrame(Top(t))
    BY <1>1, HereStands DEF Standing
  <1>3. Like(Top(t), g)
    BY Zenon, <1>2, JoinFrames
  <1> HIDE DEF g
  <1>4. StackOK(impl, t, SetTop(t, g).stk)
    BY Zenon, <1>2, <1>3, SetTopStack
  <1>5. QED
    BY Zenon, <1>1, <1>2, <1>4, CollectKeeps, MoveKeeps

(* A thread whose fork is gone ends. *)
LEMMA AbortedKeeps ==
  ASSUME Inv, NEW t, Aborted(t)
  PROVE Steady
  BY Zenon, DropKeeps DEF Aborted
(* ---- the branch executors --------------------------------------------- *)

(* A thread at a node of a branch: where it may go. *)
LEMMA BranchStands ==
  ASSUME Inv, PlainBranches, NEW t, NEW kind, NEW pc, pc # "load", Here(t, "branch", kind, pc)
  PROVE /\ Standing(t) /\ IsFrame(Top(t)) /\ Top(t).mode = "branch" /\ Top(t).pc # "load"
        /\ Top(t).at.kind = kind /\ NodeOK(impl, t, Top(t).at)
        /\ t = Main => Open(Own(t)) /\ Open(store) /\ Open(mem)
        /\ \A v : StackOK(impl, t, Advance(Stk(t), v).stk)
        /\ \A err : StackOK(impl, t, Throw(Stk(t), err).stk)
  <1>1. /\ Standing(t) /\ Top(t).mode = "branch" /\ Top(t).pc # "load"
        /\ Top(t).at.kind = kind /\ NodeOK(impl, t, Top(t).at)
    BY HereStands
  <1>2. IsFrame(Top(t)) /\ (t = Main => Open(Own(t)))
    BY Zenon, <1>1 DEF Standing, Settled, Own
  <1>3. t = Main => Open(store) /\ Open(mem)
    BY Zenon, <1>1, MainIsOpen DEF Standing, Stk
  <1>4. \A v : StackOK(impl, t, Advance(Stk(t), v).stk)
    BY Zenon, <1>1, AdvanceStack
  <1>5. \A err : StackOK(impl, t, Throw(Stk(t), err).stk)
    BY Zenon, <1>1, ThrowStack
  <1>6. QED
    BY ZenonT(30), <1>1, <1>2, <1>3, <1>4, <1>5

(* It leaves the row as it is, or marks a result in it. *)
LEMMA StoredIs ==
  ASSUME Inv, NEW s, s = store \/ \E id, v : s = save_task_result(store, id, v)
  PROVE /\ IsSnap(s) /\ s.st = store.st
        /\ store.st # "InProgress" => s = store
  <1>1. CASE s = store
    BY Zenon, <1>1 DEF Inv
  <1>2. CASE \E id, v : s = save_task_result(store, id, v)
    <2>1. PICK id, v : s = save_task_result(store, id, v)
      BY <1>2
    <2>2. QED
      BY Zenon, <2>1, MarkIsSnap DEF Inv, save_task_result
  <1>3. QED
    BY Zenon, <1>1, <1>2

(* Such a step keeps the invariant. *)
LEMMA StoreMove ==
  ASSUME Inv, NEW t, Standing(t), NEW r, StackOK(impl, t, r.stk), Moves(t, r), mem' = mem,
         store' = store \/ \E id, v : store' = save_task_result(store, id, v)
  PROVE Steady
  <1>1. /\ IsSnap(store') /\ store'.st = store.st
        /\ store.st # "InProgress" => store' = store
    BY Zenon, StoredIs
  <1>2. t \in DOMAIN th /\ th[t].stk # <<>>
    BY Zenon DEF Standing, Stk
  <1>3. QED
    BY Zenon, <1>1, <1>2, PlainMove

(* So does a step of a branch that saves no more than that. *)
LEMMA DoBranchKeeps ==
  ASSUME Inv, NEW t, Standing(t), NEW r, StackOK(impl, t, r.stk), NEW s, DoBranch(t, r, s),
         s = store \/ \E id, v : s = save_task_result(store, id, v)
  PROVE Steady
  <1>1. Moves(t, r) /\ mem' = mem /\ store' = s
    BY Zenon, DoIs DEF DoBranch
  <1>2. QED
    BY Zenon, <1>1, StoreMove

(* A frame with another snapshot, open when the old one had to be. *)
LEMMA OtherSnap ==
  ASSUME NEW t, Standing(t), Top(t).pc # "load", NEW g, IsFrame(g), g.at = Top(t).at,
         g.mode = Top(t).mode, t = Main /\ g.mode = "branch" => Open(g.snap)
  PROVE Settled(impl, t, g) /\ Fresh(impl, t, g) /\ StackOK(impl, t, SetTop(t, g).stk)
  <1>1. Settled(impl, t, g) /\ Fresh(impl, t, g)
    BY Zenon DEF Standing, Settled, Fresh
  <1>2. StackOK(impl, t, ReplaceTop(Stk(t), g))
    BY Zenon, <1>1, StackReplace DEF Standing
  <1>3. QED
    BY Zenon, <1>1, <1>2 DEF SetTop, Running

(* The snapshot is loaded: an open one, for the main thread. *)
LEMMA LoadKeeps ==
  ASSUME Inv, NEW t, load_snapshot(t)
  PROVE Steady
  <1> DEFINE g == [WithSnap(t, store) EXCEPT !.pc = "enter"]
  <1>1. t \in DOMAIN th /\ Stk(t) # <<>> /\ DoBranch(t, SetTop(t, g), store)
    BY DEF load_snapshot
  <1>2. StackOK(impl, t, Stk(t))
    BY <1>1 DEF Inv, ThreadsOK, Stk
  <1>3. Fresh(impl, t, Top(t))
    BY <1>1, <1>2, StackTop DEF Top, Stk
  <1>4. IsFrame(g) /\ g.at = Top(t).at /\ g.mode = Top(t).mode /\ g.snap = store
    BY <1>3 DEF Fresh, IsFrame, WithSnap
  <1>5. t = Main => Open(store)
    BY <1>1, MainIsOpen DEF Stk
  <1> HIDE DEF g
  <1>6. Fresh(impl, t, g)
    BY Zenon, <1>3, <1>4, <1>5 DEF Fresh
  <1>7. StackOK(impl, t, SetTop(t, g).stk)
    BY Zenon, <1>1, <1>2, <1>6, StackReplace DEF SetTop, Running
  <1>8. Moves(t, SetTop(t, g)) /\ mem' = mem /\ store' = store
    BY Zenon, <1>1, DoIs DEF DoBranch
  <1>9. IsSnap(store') /\ th[t].stk # <<>>
    BY Zenon, <1>1, <1>8 DEF Inv, Stk
  <1>10. QED
    BY Zenon, <1>1, <1>7, <1>8, <1>9, PlainMove

(* A task of a branch: skipped, run, retried, or its result marked in the row. *)
LEMMA BranchTaskKeeps ==
  ASSUME Inv, PlainBranches, NEW t, branch_task_step(t)
  PROVE Steady
  <1> DEFINE f == Top(t)
             n == f.at
             v == Apply(n.id, f.val)
             again == [f EXCEPT !.snap = record_retry(Own(t), n.id)]
             exec == [f EXCEPT !.pc = "exec"]
             save == [f EXCEPT !.pc = "save", !.val = v, !.snap = clear_retry_state(@, n.id)]
  <1>1. /\ \E pc \in {"enter", "exec", "save"} : Here(t, "branch", "Task", pc)
        /\ \/ \E w : DoBranch(t, Advance(Stk(t), w), store)
           \/ DoBranch(t, SetTop(t, exec), store)
           \/ DoRun(t, SetTop(t, save), mem, n, v)
           \/ DoFail(t, SetTop(t, again), mem, store)
           \/ DoFail(t, Throw(Stk(t), "Error"), mem, store)
           \/ DoBranch(t, Advance(Stk(t), f.val), save_task_result(store, n.id, f.val))
    BY Zenon DEF branch_task_step
  <1>2. /\ Standing(t) /\ IsFrame(f) /\ Top(t).mode = "branch" /\ Top(t).pc # "load"
        /\ t = Main => Open(Own(t))
        /\ \A w : StackOK(impl, t, Advance(Stk(t), w).stk)
        /\ StackOK(impl, t, Throw(Stk(t), "Error").stk)
    BY Zenon, <1>1, BranchStands
  <1>3. Like(f, exec)
    BY Zenon, <1>2, LikeForms
  <1>4. /\ IsFrame(again) /\ again.at = f.at /\ again.mode = f.mode
        /\ again.snap = record_retry(Own(t), n.id)
    BY <1>2 DEF IsFrame
  <1>5. /\ IsFrame(save) /\ save.at = f.at /\ save.mode = f.mode
        /\ save.snap = clear_retry_state(Own(t), n.id)
    BY Zenon, <1>2 DEF IsFrame, Own
  <1>6. t = Main => Open(record_retry(Own(t), n.id)) /\ Open(clear_retry_state(Own(t), n.id))
    BY Zenon, <1>2, CountersAreSnap DEF Open
  <1> HIDE DEF again, exec, save, v
  <1>7. /\ StackOK(impl, t, SetTop(t, exec).stk)
        /\ StackOK(impl, t, SetTop(t, again).stk) /\ StackOK(impl, t, SetTop(t, save).stk)
    BY ZenonT(30), <1>2, <1>3, <1>4, <1>5, <1>6, SetTopStack, OtherSnap
  <1>8. CASE DoRun(t, SetTop(t, save), mem, n, v)
    <2>1. Moves(t, SetTop(t, save)) /\ mem' = mem /\ store' = store
      BY Zenon, <1>8, DoRunIs
    <2>2. QED
      BY Zenon, <1>2, <1>7, <2>1, StoreMove
  <1>9. CASE DoFail(t, SetTop(t, again), mem, store)
    <2>1. Moves(t, SetTop(t, again)) /\ mem' = mem /\ store' = store
      BY <1>9, DoFailIs
    <2>2. QED
      BY Zenon, <1>2, <1>7, <2>1, StoreMove
  <1>10. CASE DoFail(t, Throw(Stk(t), "Error"), mem, store)
    <2>1. Moves(t, Throw(Stk(t), "Error")) /\ mem' = mem /\ store' = store
      BY Zenon, <1>10, DoFailIs
    <2>2. QED
      BY Zenon, <1>2, <2>1, StoreMove
  <1>11. QED
    BY ZenonT(30), <1>1, <1>2, <1>7, <1>8, <1>9, <1>10, DoBranchKeeps

(* A delay of a branch. *)
LEMMA BranchDelayKeeps ==
  ASSUME Inv, PlainBranches, NEW t, branch_delay_step(t)
  PROVE Steady
  <1> DEFINE f == Top(t)
             s == save_task_result(store, f.at.id, f.val)
  <1>1. /\ Here(t, "branch", "Delay", "enter")
        /\ \/ \E w : DoBranch(t, Advance(Stk(t), w), store)
           \/ DoDelay(t, Throw(Stk(t), "Waiting"), mem, s, f.at.id)
    BY Zenon DEF branch_delay_step
  <1>2. /\ Standing(t)
        /\ \A w : StackOK(impl, t, Advance(Stk(t), w).stk)
        /\ StackOK(impl, t, Throw(Stk(t), "Waiting").stk)
    BY Zenon, <1>1, BranchStands
  <1>3. CASE DoDelay(t, Throw(Stk(t), "Waiting"), mem, s, f.at.id)
    <2>1. Moves(t, Throw(Stk(t), "Waiting")) /\ mem' = mem /\ store' = s
      BY Zenon, <1>3, DoDelayIs
    <2>2. QED
      BY Zenon, <1>2, <2>1, StoreMove
  <1>4. QED
    BY Zenon, <1>1, <1>2, <1>3, DoBranchKeeps

(* A signal of a branch. *)
LEMMA BranchSignalKeeps ==
  ASSUME Inv, PlainBranches, NEW t, branch_signal_step(t)
  PROVE Steady
  <1>1. /\ Here(t, "branch", "AwaitSignal", "enter")
        /\ \/ \E w : DoBranch(t, Advance(Stk(t), w), store)
           \/ DoBranch(t, Throw(Stk(t), "AwaitingSignal"), store)
    BY Zenon DEF branch_signal_step
  <1>2. /\ Standing(t)
        /\ \A w : StackOK(impl, t, Advance(Stk(t), w).stk)
        /\ StackOK(impl, t, Throw(Stk(t), "AwaitingSignal").stk)
    BY Zenon, <1>1, BranchStands
  <1>3. QED
    BY Zenon, <1>1, <1>2, DoBranchKeeps

(* Only the main thread meets a node that saves the whole snapshot. *)
LEMMA SaverIsMain ==
  ASSUME Inv, PlainBranches, NEW t, NEW kind, kind \in {"Branch", "Loop", "ChildWorkflow"},
         NEW pc, pc # "load", Here(t, "branch", kind, pc)
  PROVE t = Main
  <1>1. t \in DOMAIN th /\ Top(t).at.kind = kind /\ NodeOK(impl, t, Top(t).at)
    BY Zenon, BranchStands DEF Standing
  <1>2. impl # "runner" => t = Main
    BY Zenon, <1>1 DEF Inv, ThreadsOK
  <1>3. QED
    BY Zenon, <1>1, <1>2 DEF NodeOK, PlainBranches

(* A composite node of a branch is entered, or skipped. *)
LEMMA BranchEnters ==
  ASSUME Inv, PlainBranches, NEW t, NEW kind, NEW f, NEW sub, BranchEnterOrSkip(t, kind, f, sub),
         Like(Top(t), f), sub # <<>> => NodeOK(impl, t, sub[1])
  PROVE Steady
  <1>1. /\ Here(t, "branch", kind, "enter")
        /\ \/ \E w : DoBranch(t, Advance(Stk(t), w), store)
           \/ DoBranch(t, Throw(Stk(t), "Error"), store)
           \/ sub # <<>> /\ DoBranch(t, Call(t, f, sub[1], Top(t).val, "branch"), store)
    BY Zenon DEF BranchEnterOrSkip
  <1>2. /\ Standing(t)
        /\ \A w : StackOK(impl, t, Advance(Stk(t), w).stk)
        /\ StackOK(impl, t, Throw(Stk(t), "Error").stk)
    BY Zenon, <1>1, BranchStands
  <1>3. sub # <<>> => StackOK(impl, t, Call(t, f, sub[1], Top(t).val, "branch").stk)
    BY Zenon, <1>2, CallStack
  <1>4. QED
    BY ZenonT(30), <1>1, <1>2, <1>3, DoBranchKeeps

(* The main thread saves the snapshot of its branch frame. *)
LEMMA OwnSaved ==
  ASSUME Inv, Main \in DOMAIN th, Open(store), Open(mem), NEW r, StackOK(impl, Main, r.stk),
         NEW s, Open(s), DoBranch(Main, r, s)
  PROVE Steady
  BY Zenon, DoKeeps DEF DoBranch

(* Its stack, then. *)
LEMMA OwnAdvance ==
  ASSUME PlainBranches, NEW t, Standing(t), Top(t).pc # "load", NEW s, Open(s), NEW v
  PROVE StackOK(impl, t, Advance(ReplaceTop(Stk(t), WithSnap(t, s)), v).stk)
  <1> DEFINE g == WithSnap(t, s)
             k == ReplaceTop(Stk(t), g)
  <1>1. IsFrame(g) /\ g.at = Top(t).at /\ g.mode = Top(t).mode /\ g.snap = s /\ g.pc = Top(t).pc
    BY DEF WithSnap, Standing, IsFrame
  <1> HIDE DEF g
  <1>2. Fresh(impl, t, g)
    BY Zenon, <1>1, OtherSnap
  <1>3. StackOK(impl, t, k) /\ k # <<>> /\ TopOf(k) = g
    BY <1>2, StackReplace DEF Standing
  <1> HIDE DEF k
  <1>4. StackOK(impl, t, Advance(k, v).stk)
    BY Zenon, <1>1, <1>3, AdvanceOK
  <1>5. QED
    BY <1>4 DEF k, g

(* Its result is saved with the snapshot of the branch. *)
LEMMA SaveOwnKeeps ==
  ASSUME Inv, PlainBranches, NEW t, NEW kind, kind \in {"Branch", "ChildWorkflow"}, NEW v,
         SaveOwn(t, kind, v)
  PROVE Steady
  <1> DEFINE s == mark_task_completed(Own(t), Top(t).at.id, v)
  <1>1. /\ Here(t, "branch", kind, "back")
        /\ DoBranch(t, Advance(ReplaceTop(Stk(t), WithSnap(t, s)), v), s)
    BY Zenon DEF SaveOwn
  <1>2. t = Main
    BY Zenon, <1>1, SaverIsMain
  <1>3. /\ Standing(t) /\ Top(t).pc # "load" /\ Open(Own(t)) /\ Open(store) /\ Open(mem)
    BY Zenon, <1>1, <1>2, BranchStands
  <1>4. Open(s)
    BY Zenon, <1>3, MarksAreOpen
  <1> HIDE DEF s
  <1>5. StackOK(impl, t, Advance(ReplaceTop(Stk(t), WithSnap(t, s)), v).stk) /\ Main \in DOMAIN th
    BY ZenonT(30), <1>2, <1>3, <1>4, OwnAdvance DEF Standing
  <1>6. QED
    BY ZenonT(30), <1>1, <1>2, <1>3, <1>4, <1>5, OwnSaved

(* A child workflow in a branch. *)
LEMMA BranchChildKeeps ==
  ASSUME Inv, PlainBranches, NEW t, branch_child_step(t)
  PROVE Steady
  <1>1. CASE BranchEnterOrSkip(t, "ChildWorkflow", Waits(t), Top(t).at.subs)
    <2>1. Here(t, "branch", "ChildWorkflow", "enter")
      BY Zenon, <1>1 DEF BranchEnterOrSkip
    <2>2. t = Main
      BY <2>1, SaverIsMain
    <2>3. IsFrame(Top(t)) /\ NodeOK(impl, t, Top(t).at) /\ Top(t).at.kind = "ChildWorkflow"
      BY Zenon, <2>1, BranchStands
    <2>4. Like(Top(t), Waits(t)) /\ NodeOK(impl, t, Top(t).at.subs[1])
      BY ZenonT(30), <2>2, <2>3, LikeForms, NodesBelow DEF Waits
    <2>5. QED
      BY Zenon, <1>1, <2>4, BranchEnters
  <1>2. CASE SaveOwn(t, "ChildWorkflow", Top(t).ret)
    BY <1>2, SaveOwnKeeps
  <1>3. QED
    BY <1>1, <1>2 DEF branch_child_step

(* A route in a branch. *)
LEMMA BranchBranchKeeps ==
  ASSUME Inv, PlainBranches, NEW t, r_branch_branch(t) \/ c_branch_branch(t)
  PROVE Steady
  <1> DEFINE v == Envelope(Top(t).at, Top(t).ret)
             s == save_task_result(store, Top(t).at.id, v)
  <1>1. \/ BranchEnterOrSkip(t, "Branch", Waits(t), resolve_branch(Top(t).at))
        \/ SaveOwn(t, "Branch", v)
        \/ Here(t, "branch", "Branch", "back") /\ DoBranch(t, Advance(Stk(t), v), s)
    BY Zenon DEF r_branch_branch, c_branch_branch
  <1>2. CASE BranchEnterOrSkip(t, "Branch", Waits(t), resolve_branch(Top(t).at))
    <2>1. Here(t, "branch", "Branch", "enter")
      BY Zenon, <1>2 DEF BranchEnterOrSkip
    <2>2. t = Main
      BY <2>1, SaverIsMain
    <2>3. IsFrame(Top(t)) /\ NodeOK(impl, t, Top(t).at) /\ Top(t).at.kind = "Branch"
      BY Zenon, <2>1, BranchStands
    <2>4. /\ Like(Top(t), Waits(t))
          /\ resolve_branch(Top(t).at) # <<>> => NodeOK(impl, t, resolve_branch(Top(t).at)[1])
      BY Zenon, <2>2, <2>3, LikeForms, NodesBelow DEF Waits
    <2>5. QED
      BY Zenon, <1>2, <2>4, BranchEnters
  <1>3. CASE SaveOwn(t, "Branch", v)
    BY <1>3, SaveOwnKeeps
  <1>4. CASE Here(t, "branch", "Branch", "back") /\ DoBranch(t, Advance(Stk(t), v), s)
    <2>1. Standing(t) /\ StackOK(impl, t, Advance(Stk(t), v).stk)
      BY Zenon, <1>4, BranchStands
    <2>2. QED
      BY Zenon, <1>4, <2>1, DoBranchKeeps
  <1>5. QED
    BY ZenonT(30), <1>1, <1>2, <1>3, <1>4

(* A loop in a branch. *)
LEMMA BranchLoopKeeps ==
  ASSUME Inv, PlainBranches, NEW t, branch_loop_step(t)
  PROVE Steady
  <1> DEFINE f == Top(t)
             n == f.at
             i == loop_iteration(Own(t), n.id)
             sub == IF i < n.n THEN n.subs ELSE <<>>
             s == remove_task_results(Own(t), AllIds(n.subs[1]))
             exit == LoopExit(s, n, f.ret)
             next == set_loop_iteration(s, n.id, f.i + 1)
             first == [Waits(t) EXCEPT !.i = i]
             g == [Waits(t) EXCEPT !.i = f.i + 1, !.snap = next]
  <1>1. \/ BranchEnterOrSkip(t, "Loop", first, sub)
        \/ /\ Here(t, "branch", "Loop", "back")
           /\ \/ DoBranch(t, Advance(ReplaceTop(Stk(t), WithSnap(t, exit)), f.ret), exit)
              \/ DoBranch(t, Call(t, g, n.subs[1], f.ret, "branch"), next)
              \/ DoBranch(t, Throw(Stk(t), "Error"), store)
    BY Zenon DEF branch_loop_step, branch_loop_entry
  <1>2. PICK pc \in {"enter", "back"} : Here(t, "branch", "Loop", pc)
    BY Zenon, <1>1 DEF BranchEnterOrSkip
  <1>3. t = Main
    BY <1>2, SaverIsMain
  <1>4. /\ Standing(t) /\ IsFrame(f) /\ Top(t).pc # "load" /\ NodeOK(impl, t, n) /\ n.kind = "Loop"
        /\ Open(Own(t)) /\ Open(store) /\ Open(mem)
        /\ StackOK(impl, t, Throw(Stk(t), "Error").stk)
    BY Zenon, <1>2, <1>3, BranchStands
  <1>5. NodeOK(impl, t, n.subs[1]) /\ Main \in DOMAIN th
    BY Zenon, <1>3, <1>4, NodesBelow DEF Standing
  <1>6. CASE BranchEnterOrSkip(t, "Loop", first, sub)
    <2>1. Like(f, first)
      BY Zenon, <1>4, LikeForms DEF Waits
    <2>2. sub # <<>> => NodeOK(impl, t, sub[1])
      BY Zenon, <1>5
    <2> HIDE DEF first, sub
    <2>3. QED
      BY ZenonT(30), <1>6, <2>1, <2>2, BranchEnters
  <1>7. Open(s)
    BY Zenon, <1>4, RemoveIsSnap DEF Open
  <1>8. Open(exit) /\ Open(next)
    <2> HIDE DEF s
    <2>1. QED
      BY <1>7, ComposedAreOpen, CountersAreSnap DEF Open
  <1>9. CASE DoBranch(t, Advance(ReplaceTop(Stk(t), WithSnap(t, exit)), f.ret), exit)
    <2> HIDE DEF exit
    <2>1. StackOK(impl, t, Advance(ReplaceTop(Stk(t), WithSnap(t, exit)), f.ret).stk)
      BY Zenon, <1>4, <1>8, OwnAdvance
    <2>2. QED
      BY ZenonT(30), <1>3, <1>4, <1>5, <1>8, <1>9, <2>1, OwnSaved
  <1>10. CASE DoBranch(t, Call(t, g, n.subs[1], f.ret, "branch"), next)
    <2>1. IsFrame(g) /\ g.at = f.at /\ g.mode = f.mode /\ g.snap = next
      <3> HIDE DEF next
      <3>1. QED
        BY <1>4 DEF IsFrame, Waits
    <2> HIDE DEF g, next
    <2>2. Settled(impl, t, g)
      BY ZenonT(30), <1>4, <1>8, <2>1, OtherSnap
    <2>3. StackOK(impl, t, Append(ReplaceTop(Stk(t), g), Frame(n.subs[1], f.ret, "branch")))
      BY ZenonT(30), <1>4, <1>5, <2>2, CallOK DEF Standing
    <2>4. StackOK(impl, t, Call(t, g, n.subs[1], f.ret, "branch").stk)
      BY Zenon, <2>3 DEF Call, Running
    <2>5. QED
      BY ZenonT(30), <1>3, <1>4, <1>5, <1>8, <1>10, <2>4, OwnSaved
  <1>11. CASE DoBranch(t, Throw(Stk(t), "Error"), store)
    BY Zenon, <1>4, <1>11, DoBranchKeeps
  <1>12. QED
    BY ZenonT(30), <1>1, <1>6, <1>9, <1>10, <1>11

(* The forks inside a branch. *)
LEMMA NestedParallelKeeps ==
  ASSUME Inv, PlainBranches, NEW t, execute_nested_fork_branches(t)
  PROVE Steady
  <1> DEFINE f == Top(t)
             g == [f EXCEPT !.pc = "join"]
  <1>1. \/ /\ impl = "runner" /\ Here(t, "branch", "Fork", "enter")
           /\ DoThreads(With([th EXCEPT ![t] = SetTop(t, g)], Spawned(t, DOMAIN f.at.subs)))
        \/ /\ Here(t, "branch", "Fork", "join")
           /\ \/ \E p : Collect(t, p, FALSE)
              \/ DoThreads([th EXCEPT ![t] = Joined(Stk(t), f.acc)])
    BY Zenon DEF execute_nested_fork_branches
  <1>2. PICK pc \in {"enter", "join"} : Here(t, "branch", "Fork", pc)
    BY Zenon, <1>1
  <1>3. Standing(t) /\ IsFrame(f) /\ Top(t).pc # "load" /\ f.at.kind = "Fork"
    BY Zenon, <1>2, BranchStands
  <1>4. Like(f, g)
    BY Zenon, <1>3, JoinFrames
  <1> HIDE DEF g
  <1>5. CASE /\ impl = "runner"
             /\ DoThreads(With([th EXCEPT ![t] = SetTop(t, g)], Spawned(t, DOMAIN f.at.subs)))
    <2>1. DOMAIN f.at.subs \subseteq DOMAIN Top(t).at.subs
      BY Zenon
    <2>2. QED
      BY ZenonT(30), <1>3, <1>4, <1>5, <2>1, SpawnKeeps
  <1>6. CASE \E p : Collect(t, p, FALSE)
    BY Zenon, <1>3, <1>6, CollectKeeps
  <1>7. CASE DoThreads([th EXCEPT ![t] = Joined(Stk(t), f.acc)])
    <2>1. StackOK(impl, t, Joined(Stk(t), f.acc).stk)
      BY Zenon, <1>3, JoinedStack
    <2>2. QED
      BY Zenon, <1>3, <1>7, <2>1, MoveKeeps
  <1>8. QED
    BY ZenonT(30), <1>1, <1>5, <1>6, <1>7

(* The frame of a nested fork that waits for a branch. *)
LEMMA NestedFrames ==
  ASSUME NEW f, IsFrame(f), NEW i, NEW acc
  PROVE Like(f, [f EXCEPT !.pc = "wait", !.i = i, !.acc = acc])
  BY DEF Like, IsFrame

(* A nested fork of the callback engine. *)
LEMMA NestedSequentialKeeps ==
  ASSUME Inv, PlainBranches, NEW t, execute_nested_branches(t)
  PROVE Steady
  <1> DEFINE f == Top(t)
             n == f.at
             call(i, acc) == Call(t, [f EXCEPT !.pc = "wait", !.i = i, !.acc = acc], n.subs[i], f.val, "branch")
  <1>1. /\ impl = "callback"
        /\ \E pc \in {"enter", "back"} : Here(t, "branch", "Fork", pc)
        /\ \/ \E results : DoBranch(t, Joined(Stk(t), results), store)
           \/ \E i, acc : DoBranch(t, call(i, acc), store)
    BY Zenon DEF execute_nested_branches
  <1>2. Standing(t) /\ IsFrame(f) /\ Top(t).pc # "load"
    BY Zenon, <1>1, BranchStands
  <1>3. \A results : StackOK(impl, t, Joined(Stk(t), results).stk)
    BY Zenon, <1>2, JoinedStack
  <1>4. ASSUME NEW i, NEW acc
        PROVE StackOK(impl, t, call(i, acc).stk)
    <2> DEFINE g == [f EXCEPT !.pc = "wait", !.i = i, !.acc = acc]
    <2>1. Like(f, g)
      BY Zenon, <1>2, NestedFrames
    <2>2. NodeOK(impl, t, n.subs[i])
      BY Zenon, <1>1 DEF NodeOK
    <2> HIDE DEF g
    <2>3. StackOK(impl, t, Call(t, g, n.subs[i], f.val, "branch").stk)
      BY ZenonT(30), <1>2, <2>1, <2>2, CallStack
    <2>4. QED
      BY Zenon, <2>3 DEF g
  <1> HIDE DEF call
  <1>5. QED
    BY ZenonT(30), <1>1, <1>2, <1>3, <1>4, DoBranchKeeps

(* ---- every step of a thread ------------------------------------------- *)

(* Every step of every executor keeps the invariant. *)
LEMMA StepKeeps ==
  ASSUME Inv, PlainBranches, Step
  PROVE Steady
  <1>1. PICK t \in DOMAIN th : RunnerStep(t) \/ CallbackStep(t) \/ CfStep(t)
    BY Zenon DEF Step
  <1>2. CASE RunnerStep(t)
    <2>1. CASE r_task(t) \/ r_delay(t) \/ r_signal(t) \/ r_branch(t) \/ r_loop(t) \/ r_child(t)
      BY ZenonT(30), <2>1, TaskKeeps, DelayKeeps, SignalKeeps, BranchKeeps, LoopKeeps, ChildKeeps
         DEF r_task, r_delay, r_signal, r_branch, r_loop, r_child
    <2>2. CASE \/ r_fork(t) \/ execute_fork_branches_parallel(t) \/ settle_fork_outcome(t)
               \/ load_snapshot(t) \/ Aborted(t)
      BY ZenonT(30), <2>2, RunnerForkKeeps, ParallelKeeps, SettleKeeps, LoadKeeps, AbortedKeeps
    <2>3. CASE \/ r_branch_task(t) \/ r_branch_delay(t) \/ r_branch_signal(t) \/ r_branch_loop(t)
               \/ r_branch_child(t) \/ r_branch_branch(t) \/ execute_nested_fork_branches(t)
      BY ZenonT(30), <2>3, BranchTaskKeeps, BranchDelayKeeps, BranchSignalKeeps, BranchLoopKeeps,
         BranchChildKeeps, BranchBranchKeeps, NestedParallelKeeps
         DEF r_branch_task, r_branch_delay, r_branch_signal, r_branch_loop, r_branch_child
    <2>4. QED
      BY ZenonT(30), <1>2, <2>1, <2>2, <2>3 DEF RunnerStep
  <1>3. CASE CallbackStep(t)
    <2>1. CASE c_task(t) \/ c_delay(t) \/ c_signal(t) \/ c_branch(t) \/ c_loop(t) \/ c_child(t)
      BY ZenonT(30), <2>1, TaskKeeps, DelayKeeps, SignalKeeps, BranchKeeps, LoopKeeps, ChildKeeps
         DEF c_task, c_delay, c_signal, c_branch, c_loop, c_child
    <2>2. CASE \/ c_fork(t) \/ execute_fork_branches_sequential(t) \/ settle_fork_outcome(t)
               \/ load_snapshot(t)
      BY ZenonT(30), <2>2, CallbackForkKeeps, SequentialKeeps, SettleKeeps, LoadKeeps
    <2>3. CASE \/ c_branch_task(t) \/ c_branch_delay(t) \/ c_branch_signal(t) \/ c_branch_loop(t)
               \/ c_branch_child(t) \/ c_branch_branch(t) \/ execute_nested_branches(t)
      BY ZenonT(30), <2>3, BranchTaskKeeps, BranchDelayKeeps, BranchSignalKeeps, BranchLoopKeeps,
         BranchChildKeeps, BranchBranchKeeps, NestedSequentialKeeps
         DEF c_branch_task, c_branch_delay, c_branch_signal, c_branch_loop, c_branch_child
    <2>4. QED
      BY Zenon, <1>3, <2>1, <2>2, <2>3 DEF CallbackStep
  <1>4. CASE CfStep(t)
    BY ZenonT(30), <1>4, CfTaskKeeps, DelayKeeps, SignalKeeps, CfForkKeeps, BranchKeeps, CfLoopKeeps,
       ChildKeeps
       DEF CfStep, handle_delay, handle_await_signal, handle_branch, handle_child_workflow
  <1>5. QED
    BY ZenonT(30), <1>1, <1>2, <1>3, <1>4

(* ---- the life of the instance ----------------------------------------- *)

(* No thread. *)
LEMMA NoThreads ==
  ASSUME Inv, DOMAIN th' = {}, impl' = impl, tree' = tree, IsSnap(store'), IsSnap(mem'),
         Finished => store' = store
  PROVE Steady
  <1>1. ThreadsOK' /\ LiveInv'
    BY Zenon DEF ThreadsOK, LiveInv
  <1>2. QED
    BY Zenon, <1>1 DEF Inv, NodeOK, Steady

(* A process starts on an open row. *)
LEMMA StartKeeps ==
  ASSUME Inv, NEW v, th' = Start(v), impl' = impl, tree' = tree, Open(store'), Open(mem'),
         ~Finished
  PROVE Steady
  <1> DEFINE f == Frame(tree, v, "main")
  <1>1. /\ IsFrame(f) /\ f.at = tree /\ f.mode = "main"
    BY Zenon DEF Frame, IsFrame
  <1>2. DOMAIN th' = {Main} /\ th'[Main].stk = <<f>>
    BY Zenon DEF Start, Running
  <1> HIDE DEF f
  <1>3. Fresh(impl, Main, f)
    BY Zenon, <1>1 DEF Fresh, Inv
  <1>4. StackOK(impl, Main, <<f>>) /\ IsSeq(Main)
    BY Zenon, <1>3, StackOne, EmptySeq DEF Main
  <1>5. ThreadsOK'
    BY Zenon, <1>2, <1>4 DEF ThreadsOK
  <1>6. LiveInv'
    BY Zenon DEF LiveInv, Open
  <1>7. QED
    BY Zenon, <1>5, <1>6 DEF Inv, NodeOK, Open, Steady

(* The same for a resume, which starts no thread when the input is missing. *)
LEMMA InputKeeps ==
  ASSUME Inv, NEW s, th' = get_resume_input(s), impl' = impl, tree' = tree, Open(store'), Open(mem'),
         ~Finished
  PROVE Steady
  <1>1. CASE \E v : th' = Start(v)
    BY Zenon, <1>1, StartKeeps
  <1>2. CASE th' = <<>>
    BY <1>2, NoThreads DEF Open
  <1>3. QED
    BY Zenon, <1>1, <1>2 DEF get_resume_input

(* The first run. *)
LEMMA PrepareKeeps ==
  ASSUME Inv, prepare_run
  PROVE Steady
  <1> DEFINE s == update_position(with_initial_input, At("AtTask", FirstTask(tree), ""))
  <1>1. /\ store.st = "none" /\ store' = s /\ mem' = s /\ th' = Start(Input)
        /\ impl' = impl /\ tree' = tree
    BY Zenon DEF prepare_run, env
  <1>2. Open(with_initial_input)
    BY DEF with_initial_input, NoSnapshot, Open, IsSnap
  <1>3. Open(s)
    BY Zenon, <1>2, MarksAreOpen
  <1>4. ~Finished
    BY Zenon, <1>1 DEF Finished
  <1>5. QED
    BY ZenonT(30), <1>1, <1>3, <1>4, StartKeeps

(* A resume of an open row that is not parked. *)
LEMMA ResumeKeeps ==
  ASSUME Inv, resume_unparked
  PROVE Steady
  <1>1. /\ store.st = "InProgress" /\ store' = store /\ mem' = store
        /\ th' = get_resume_input(store) /\ impl' = impl /\ tree' = tree
    BY DEF resume_unparked, env
  <1>2. Open(store) /\ ~Finished
    BY <1>1 DEF Inv, Open, Finished
  <1>3. QED
    BY Zenon, <1>1, <1>2, InputKeeps

(* A resume that finds a cancel or a pause. *)
LEMMA CheckKeeps ==
  ASSUME Inv, check_parked_position
  PROVE Steady
  <1> DEFINE g == check_guards(store, sigs)
  <1>1. /\ DOMAIN th' = {} /\ store.st = "InProgress" /\ store' = g.store /\ mem' = mem
        /\ impl' = impl /\ tree' = tree
    BY Zenon DEF check_parked_position, env, Idle
  <1>2. Open(store) /\ ~Finished /\ IsSnap(mem)
    BY <1>1 DEF Inv, Open, Finished
  <1>3. IsSnap(g.store)
    BY Zenon, <1>2, GuardsStop
  <1> HIDE DEF g
  <1>4. QED
    BY ZenonT(30), <1>1, <1>2, <1>3, NoThreads

(* A resume whose park is over. *)
LEMMA ResolveKeeps ==
  ASSUME Inv, resolve
  PROVE Steady
  <1>1. /\ store.st = "InProgress" /\ store' = store /\ impl' = impl /\ tree' = tree
        /\ \E s, v : /\ mem' = Unparked(s, v) /\ th' = Resolving(v)
                     /\ s = store \/ \E w : s = mark_task_completed(store, store.pos.id, w)
    BY Zenon DEF resolve, env
  <1>2. PICK s, v : /\ mem' = Unparked(s, v) /\ th' = Resolving(v)
                    /\ s = store \/ \E w : s = mark_task_completed(store, store.pos.id, w)
    BY Zenon, <1>1
  <1>3. IsSnap(s)
    <2>1. \A w : IsSnap(mark_task_completed(store, store.pos.id, w))
      BY Zenon, MarkIsSnap DEF Inv
    <2>2. QED
      BY Zenon, <1>2, <2>1 DEF Inv
  <1>4. IsSnap(mem')
    BY Zenon, <1>2, <1>3, UnparkedIsSnap
  <1>5. DOMAIN th' = {Main} /\ th'[Main].stk = <<>> /\ th'[Main].res = "resolve"
    BY Zenon, <1>2 DEF Resolving
  <1>6. ThreadsOK'
    BY Zenon, <1>5, StackEmpty, EmptySeq DEF ThreadsOK, Main
  <1>7. LiveInv'
    BY Zenon, <1>1, <1>5 DEF LiveInv, Busy
  <1>8. QED
    BY ZenonT(30), <1>1, <1>4, <1>6, <1>7 DEF Inv, NodeOK, Steady

(* The row moves past the park, or ends with it. *)
LEMMA SaveResolvedKeeps ==
  ASSUME Inv, save_resolved
  PROVE Steady
  <1>1. /\ Main \in DOMAIN th /\ th[Main].res = "resolve" /\ store' = mem /\ mem' = mem
        /\ th' = IF mem.st = "InProgress" THEN get_resume_input(mem) ELSE <<>>
        /\ impl' = impl /\ tree' = tree
    BY DEF save_resolved, env
  <1>2. store.st = "InProgress" /\ IsSnap(mem)
    BY Zenon, <1>1 DEF Inv, LiveInv
  <1>3. ~Finished
    BY <1>2 DEF Finished
  <1>4. CASE mem.st = "InProgress"
    <2>1. Open(mem) /\ th' = get_resume_input(mem)
      BY Zenon, <1>1, <1>2, <1>4 DEF Open
    <2>2. QED
      BY Zenon, <1>1, <1>3, <2>1, InputKeeps
  <1>5. CASE mem.st # "InProgress"
    <2>1. DOMAIN th' = {}
      BY <1>1, <1>5
    <2>2. QED
      BY ZenonT(30), <1>1, <1>2, <1>3, <2>1, NoThreads
  <1>6. QED
    BY <1>4, <1>5

(* The end of the main thread; threads of an aborted fork may be left. *)
LEMMA FinalizeKeeps ==
  ASSUME Inv, finalize_execution
  PROVE Steady
  <1> DEFINE r == th[Main]
             m == CASE r.res = "ok" -> mark_completed(mem, r.val)
                    [] r.res = "Error" -> mark_failed(mem)
                    [] OTHER -> mem
  <1>1. /\ Main \in DOMAIN th /\ mem' = m /\ th' = Drop(th, {Main})
        /\ store' = IF r.res \in {"ok", "Error"} THEN m ELSE store
        /\ impl' = impl /\ tree' = tree
    BY DEF finalize_execution, env
  <1>2. IsSnap(mem) /\ IsSnap(store)
    BY DEF Inv
  <1>3. IsSnap(mark_completed(mem, r.val)) /\ IsSnap(mark_failed(mem))
    BY Zenon, <1>2, EndsAreSnap
  <1>4. IsSnap(m)
    BY <1>2, <1>3
  <1>5. Finished => store' = store
    BY Zenon, <1>1 DEF Inv, LiveInv, Busy, Finished
  <1> HIDE DEF m
  <1>6. IsSnap(store') /\ IsSnap(mem')
    BY Zenon, <1>1, <1>2, <1>4
  <1>7. Main \notin DOMAIN th' /\ DOMAIN th' \subseteq DOMAIN th /\ \A p \in DOMAIN th' : th'[p] = th[p]
    BY Zenon, <1>1 DEF Drop
  <1>8. ThreadsOK'
    BY Zenon, <1>1, <1>7 DEF Inv, ThreadsOK
  <1>9. LiveInv'
    BY Zenon, <1>7 DEF LiveInv
  <1>10. QED
    BY ZenonT(30), <1>1, <1>5, <1>6, <1>8, <1>9 DEF Inv, NodeOK, Steady

(* What the world does. *)
LEMMA WorldKeeps ==
  ASSUME Inv, Client \/ Crash \/ Clock \/ UNCHANGED vars
  PROVE Steady
  <1>1. CASE /\ store' = store /\ mem' = mem /\ th' = th /\ impl' = impl /\ tree' = tree
    BY Zenon, <1>1 DEF Inv, LiveInv, ThreadsOK, NodeOK, Steady
  <1>2. CASE unpause
    <2>1. /\ store.st = "Paused" /\ store' = mark_unpaused(store)
          /\ mem' = mem /\ th' = th /\ impl' = impl /\ tree' = tree
      BY Zenon, <1>2 DEF unpause, env
    <2>2. Open(store') /\ ~Finished
      BY Zenon, <2>1, EndsAreSnap DEF Inv, Finished
    <2>3. LiveInv'
      BY Zenon, <2>1, <2>2 DEF Inv, LiveInv, Open
    <2>4. QED
      BY ZenonT(30), <2>1, <2>2, <2>3 DEF Inv, ThreadsOK, NodeOK, Open, Steady
  <1>3. CASE Crash
    <2>1. DOMAIN th' = {} /\ store' = store /\ mem' = NoSnapshot /\ impl' = impl /\ tree' = tree
      BY <1>3 DEF Crash, env
    <2>2. IsSnap(store') /\ IsSnap(NoSnapshot)
      BY Zenon, <2>1 DEF Inv, IsSnap, NoSnapshot
    <2>3. QED
      BY <2>1, <2>2, NoThreads
  <1>4. CASE \E k \in {"Cancel", "Pause"} : store_signal(k)
    BY Zenon, <1>1, <1>4 DEF store_signal, env
  <1>5. CASE send_event
    BY Zenon, <1>1, <1>5 DEF send_event, env
  <1>6. CASE Clock
    BY Zenon, <1>1, <1>6 DEF Clock, Elapse, env
  <1>7. CASE UNCHANGED vars
    BY Zenon, <1>1, <1>7 DEF vars
  <1>8. QED
    BY <1>2, <1>3, <1>4, <1>5, <1>6, <1>7 DEF Client

(* ---- the theorem ------------------------------------------------------ *)

(* The invariant holds before the workflow is submitted. *)
LEMMA InitInv ==
  ASSUME PlainBranches, Init
  PROVE Inv
  <1>1. store = NoSnapshot /\ mem = NoSnapshot /\ th = <<>>
    BY Zenon DEF Init
  <1>2. IsSnap(store) /\ IsSnap(mem)
    BY Zenon, <1>1 DEF IsSnap, NoSnapshot
  <1>3. NodeOK(impl, Main, tree)
    BY Zenon DEF Init, PlainBranches, NodeOK
  <1>4. ThreadsOK /\ LiveInv
    BY <1>1 DEF ThreadsOK, LiveInv
  <1>5. QED
    BY <1>2, <1>3, <1>4 DEF Inv

(* Every step keeps the invariant, and a finished row (Steady). *)
LEMMA NextKeeps ==
  ASSUME Inv, PlainBranches, [Next]_vars
  PROVE Steady
  <1>1. CASE Step
    BY <1>1, StepKeeps
  <1>2. CASE Lifecycle
    BY ZenonT(30), <1>2, PrepareKeeps, ResumeKeeps, CheckKeeps, ResolveKeeps, SaveResolvedKeeps,
       FinalizeKeeps DEF Lifecycle
  <1>3. CASE Client \/ Crash \/ Clock \/ UNCHANGED vars
    BY <1>3, WorldKeeps
  <1>4. QED
    BY Zenon, <1>1, <1>2, <1>3 DEF Next

(* A finished workflow stays as it is: for every definition whose fork       *)
(* branches are plain under the runner, and every definition under the other *)
(* engines, whatever the faults and the requests, no step of an engine       *)
(* (save_snapshot, save_task_result), of a resume or of a client changes a   *)
(* row that is Completed, Failed or Cancelled.                               *)
THEOREM FinalKept ==
  ASSUME PlainBranches
  PROVE Spec => FinishedIsFinal
  <1>1. Init => Inv
    BY InitInv
  <1>2. Inv /\ [Next]_vars => Inv' /\ (Finished => store' = store)
    BY NextKeeps DEF Steady
  <1>3. QED
    BY <1>1, <1>2, PTL DEF Spec, FinishedIsFinal
==============================================================================
