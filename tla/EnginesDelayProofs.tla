------------------------- MODULE EnginesDelayProofs -------------------------
(***************************************************************************)
(* Delays are waited for (NotEarly), continued: the branch executors, the  *)
(* threads that the runner spawns for the branches of a fork, the life of  *)
(* the instance (start, resume, finalize, crash, requests, time) and the   *)
(* theorem.                                                                *)
(***************************************************************************)
EXTENDS EnginesDelayMainProofs

(* ---- the branch executors --------------------------------------------- *)

(* A branch step leaves the snapshot of the process alone. *)
LEMMA DoBranchD ==
  ASSUME DInv, NEW t, Stands(t), NEW r, ThreadD(t, r), NEW s, IsSnap(s), DoBranch(t, r, s)
  PROVE DInv'
  <1>1. Fits(t, r, mem)
    BY Zenon DEF Fits, DInv, Stands, Stk
  <1>2. QED
    BY Zenon, <1>1, DoD DEF DoBranch

(* A branch frame at a node: no delay is below it. *)
LEMMA BranchHereD ==
  ASSUME DInv, DelaysOnSpine, NEW t, NEW kind, NEW pc, pc # "join", Here(t, "branch", kind, pc)
  PROVE /\ Stands(t) /\ StackD(t, Stk(t)) /\ FrameD(t, Top(t)) /\ IsFrame(Top(t))
        /\ Top(t).at.kind = kind /\ Top(t).pc = pc /\ Top(t).at \in Quiet /\ kind # "Delay"
        /\ Stk(t) # <<>> /\ IsSnap(store) /\ IsSnap(Own(t)) /\ Fits(t, th[t], mem)
        /\ \A v : ThreadD(t, Advance(Stk(t), v))
        /\ ThreadD(t, Throw(Stk(t), "Error")) /\ ThreadD(t, Throw(Stk(t), "AwaitingSignal"))
  <1>1. "Error" # "Waiting" /\ "AwaitingSignal" # "Waiting" /\ "branch" # "main"
    OBVIOUS
  <1>2. /\ Stands(t) /\ StackD(t, Stk(t)) /\ FrameD(t, Top(t)) /\ IsFrame(Top(t))
        /\ Top(t).at.kind = kind /\ Top(t).pc = pc /\ Top(t).at \in Quiet
        /\ \A v : ThreadD(t, Advance(Stk(t), v))
        /\ ThreadD(t, Throw(Stk(t), "Error")) /\ ThreadD(t, Throw(Stk(t), "AwaitingSignal"))
    BY Zenon, <1>1, HereD
  <1>3. kind # "Delay"
    BY Zenon, <1>2 DEF DelaysOnSpine
  <1>4. IsSnap(Own(t)) /\ IsSnap(store)
    BY Zenon, <1>2 DEF FrameD, Own, DInv
  <1>5. Fits(t, th[t], mem)
    BY Zenon, <1>2 DEF Fits, DInv, Stands, Stk
  <1>6. QED
    BY Zenon, <1>2, <1>3, <1>4, <1>5 DEF Stands

(* load_snapshot. *)
LEMMA LoadD ==
  ASSUME DInv, DelaysOnSpine, NEW t, load_snapshot(t)
  PROVE DInv'
  <1> DEFINE g == [WithSnap(t, store) EXCEPT !.pc = "enter"]
  <1>1. /\ t \in DOMAIN th /\ Stk(t) # <<>> /\ Top(t).pc = "load"
        /\ DoBranch(t, SetTop(t, g), store)
    BY Zenon DEF load_snapshot
  <1>2. Stands(t) /\ "enter" # "fork" /\ IsSnap(store)
    BY Zenon, <1>1 DEF Stands, DInv
  <1>3. StackD(t, Stk(t))
    BY Zenon, <1>1 DEF DInv, ThreadD, Stk
  <1>4. FrameD(t, Top(t))
    BY Zenon, <1>1, <1>3, BelowD DEF Top, Stk
  <1>5. LikeD(Top(t), g)
    BY Zenon, <1>2, <1>4, FormsD DEF WithSnap
  <1> HIDE DEF g
  <1>6. ThreadD(t, SetTop(t, g))
    BY Zenon, <1>1, <1>3, <1>4, <1>5, SetTopD
  <1>7. QED
    BY Zenon, <1>1, <1>2, <1>6, DoBranchD

(* branch_task_step. *)
LEMMA BranchTaskD ==
  ASSUME DInv, DelaysOnSpine, NEW t, branch_task_step(t)
  PROVE DInv'
  <1> DEFINE f == Top(t)
             n == f.at
             v == Apply(n.id, f.val)
             again == [f EXCEPT !.snap = record_retry(Own(t), n.id)]
             exec == [f EXCEPT !.pc = "exec"]
             save == [f EXCEPT !.pc = "save", !.val = v, !.snap = clear_retry_state(@, n.id)]
             s == save_task_result(store, n.id, f.val)
  <1>1. /\ \E pc \in {"enter", "exec", "save"} : Here(t, "branch", "Task", pc)
        /\ \/ \E w : DoBranch(t, Advance(Stk(t), w), store)
           \/ DoBranch(t, SetTop(t, exec), store)
           \/ DoRun(t, SetTop(t, save), mem, n, v)
           \/ DoFail(t, SetTop(t, again), mem, store)
           \/ DoFail(t, Throw(Stk(t), "Error"), mem, store)
           \/ DoBranch(t, Advance(Stk(t), f.val), s)
    BY Zenon DEF branch_task_step
  <1>2. PICK pc \in {"enter", "exec", "save"} : Here(t, "branch", "Task", pc)
    BY Zenon, <1>1
  <1>3. pc # "join" /\ "save" # "fork" /\ "exec" # "fork"
    OBVIOUS
  <1>4. /\ Stands(t) /\ StackD(t, Stk(t)) /\ FrameD(t, f) /\ Stk(t) # <<>>
        /\ IsSnap(store) /\ IsSnap(Own(t)) /\ \A w : ThreadD(t, Advance(Stk(t), w))
        /\ ThreadD(t, Throw(Stk(t), "Error")) /\ Fits(t, th[t], mem)
    BY Zenon, <1>2, <1>3, BranchHereD
  <1>5. LikeD(f, exec) /\ LikeD(f, again) /\ LikeD(f, save)
    <2>1. IsSnap(record_retry(Own(t), n.id)) /\ IsSnap(clear_retry_state(f.snap, n.id))
      BY Zenon, <1>4, CountersAreSnap DEF Own
    <2>2. save = [f EXCEPT !.pc = "save", !.val = v, !.snap = clear_retry_state(f.snap, n.id)]
      OBVIOUS
    <2>3. QED
      BY Zenon, <1>3, <1>4, <2>1, <2>2, FormsD
  <1>6. IsSnap(s)
    BY Zenon, <1>4, MarkIsSnap DEF save_task_result
  <1> HIDE DEF again, exec, save, s, v
  <1>7. ThreadD(t, SetTop(t, exec)) /\ ThreadD(t, SetTop(t, again)) /\ ThreadD(t, SetTop(t, save))
    BY Zenon, <1>4, <1>5, SetTopD
  <1>8. \A r : Fits(t, r, mem)
    BY Zenon, <1>4 DEF Fits, Stands, Stk
  <1>9. CASE \/ \E w : DoBranch(t, Advance(Stk(t), w), store)
             \/ DoBranch(t, SetTop(t, exec), store)
             \/ DoBranch(t, Advance(Stk(t), f.val), s)
    BY ZenonT(30), <1>4, <1>6, <1>7, <1>9, DoBranchD
  <1>10. CASE DoRun(t, SetTop(t, save), mem, n, v)
    BY Zenon, <1>4, <1>7, <1>8, <1>10, DoRunD
  <1>11. CASE \/ DoFail(t, SetTop(t, again), mem, store)
              \/ DoFail(t, Throw(Stk(t), "Error"), mem, store)
    BY ZenonT(30), <1>4, <1>7, <1>8, <1>11, DoFailD
  <1>12. QED
    BY Zenon, <1>1, <1>9, <1>10, <1>11

(* A branch meets no delay, and a signal ends it or is passed. *)
LEMMA BranchWaitsD ==
  ASSUME DInv, DelaysOnSpine, NEW t, branch_delay_step(t) \/ branch_signal_step(t)
  PROVE DInv'
  <1>1. "enter" # "join"
    OBVIOUS
  <1>2. ~Here(t, "branch", "Delay", "enter")
    BY Zenon, <1>1, BranchHereD
  <1>3. /\ Here(t, "branch", "AwaitSignal", "enter")
        /\ \/ \E w : DoBranch(t, Advance(Stk(t), w), store)
           \/ DoBranch(t, Throw(Stk(t), "AwaitingSignal"), store)
    BY Zenon, <1>2 DEF branch_delay_step, branch_signal_step
  <1>4. /\ Stands(t) /\ IsSnap(store) /\ \A w : ThreadD(t, Advance(Stk(t), w))
        /\ ThreadD(t, Throw(Stk(t), "AwaitingSignal"))
    BY Zenon, <1>1, <1>3, BranchHereD
  <1>5. QED
    BY Zenon, <1>3, <1>4, DoBranchD

(* A node with a subtree in a branch. *)
LEMMA BranchEnterD ==
  ASSUME DInv, DelaysOnSpine, NEW t, NEW kind, NEW f, NEW sub, BranchEnterOrSkip(t, kind, f, sub),
         LikeD(Top(t), f), sub # <<>> => sub[1] \in Quiet
  PROVE DInv'
  <1>1. /\ Here(t, "branch", kind, "enter")
        /\ \/ \E w : DoBranch(t, Advance(Stk(t), w), store)
           \/ DoBranch(t, Throw(Stk(t), "Error"), store)
           \/ sub # <<>> /\ DoBranch(t, Call(t, f, sub[1], Top(t).val, "branch"), store)
    BY Zenon DEF BranchEnterOrSkip
  <1>2. "enter" # "join" /\ "branch" \in {"main", "branch"}
    OBVIOUS
  <1>3. /\ Stands(t) /\ StackD(t, Stk(t)) /\ FrameD(t, Top(t)) /\ Stk(t) # <<>>
        /\ IsSnap(store) /\ \A w : ThreadD(t, Advance(Stk(t), w))
        /\ ThreadD(t, Throw(Stk(t), "Error"))
    BY Zenon, <1>1, <1>2, BranchHereD
  <1>4. sub # <<>> => sub[1] \in Quiet \cup Spine
    OBVIOUS
  <1>5. sub # <<>> => ThreadD(t, Call(t, f, sub[1], Top(t).val, "branch"))
    BY Zenon, <1>2, <1>3, <1>4, CallsD
  <1>6. QED
    BY Zenon, <1>1, <1>3, <1>5, DoBranchD

(* Past a node, with another snapshot in the frame. *)
LEMMA SnapAdvanceD ==
  ASSUME DelaysOnSpine, NEW t, StackD(t, Stk(t)), Stk(t) # <<>>, FrameD(t, Top(t)),
         NEW s, IsSnap(s), NEW v
  PROVE ThreadD(t, Advance(ReplaceTop(Stk(t), WithSnap(t, s)), v))
  <1> DEFINE g == WithSnap(t, s)
  <1>1. "enter" # "fork"
    OBVIOUS
  <1>2. LikeD(Top(t), g)
    BY Zenon, <1>1, FormsD DEF WithSnap
  <1> HIDE DEF g
  <1>3. FrameD(t, g)
    BY Zenon, <1>2, SetTopD
  <1>4. g.at = TopOf(Stk(t)).at
    BY Zenon, <1>2 DEF LikeD, Top, Stk
  <1>5. StackD(t, ReplaceTop(Stk(t), g)) /\ ReplaceTop(Stk(t), g) # <<>>
    BY Zenon, <1>3, <1>4, ReplaceD
  <1>6. QED
    BY Zenon, <1>5, AdvanceD DEF g

(* Its result is saved, with the snapshot of the frame. *)
LEMMA SaveOwnD ==
  ASSUME DInv, DelaysOnSpine, NEW t, NEW kind, NEW v, SaveOwn(t, kind, v)
  PROVE DInv'
  <1> DEFINE s == mark_task_completed(Own(t), Top(t).at.id, v)
  <1>1. /\ Here(t, "branch", kind, "back") /\ "back" # "join"
        /\ DoBranch(t, Advance(ReplaceTop(Stk(t), WithSnap(t, s)), v), s)
    BY DEF SaveOwn
  <1>2. /\ Stands(t) /\ StackD(t, Stk(t)) /\ FrameD(t, Top(t)) /\ Stk(t) # <<>>
        /\ IsSnap(Own(t))
    BY Zenon, <1>1, BranchHereD
  <1>3. IsSnap(s)
    BY Zenon, <1>2, MarkIsSnap
  <1> HIDE DEF s
  <1>4. ThreadD(t, Advance(ReplaceTop(Stk(t), WithSnap(t, s)), v))
    BY Zenon, <1>2, <1>3, SnapAdvanceD
  <1>5. QED
    BY ZenonT(30), <1>1, <1>2, <1>3, <1>4, DoBranchD

(* The frame of a node in a branch that has called its subtree. *)
LEMMA WaitsD ==
  ASSUME NEW t, FrameD(t, Top(t))
  PROVE LikeD(Top(t), Waits(t))
  <1>1. "wait" # "fork"
    OBVIOUS
  <1>2. QED
    BY Zenon, <1>1, FormsD DEF Waits

(* branch_child_step. *)
LEMMA BranchChildD ==
  ASSUME DInv, DelaysOnSpine, NEW t, branch_child_step(t)
  PROVE DInv'
  <1>1. CASE BranchEnterOrSkip(t, "ChildWorkflow", Waits(t), Top(t).at.subs)
    <2>1. Here(t, "branch", "ChildWorkflow", "enter") /\ "enter" # "join"
      BY Zenon, <1>1 DEF BranchEnterOrSkip
    <2>2. FrameD(t, Top(t)) /\ Top(t).at \in Quiet /\ Top(t).at.kind = "ChildWorkflow"
      BY Zenon, <2>1, BranchHereD
    <2>3. Top(t).at.subs[1] \in Quiet
      BY Zenon, <2>2 DEF DelaysOnSpine
    <2>4. QED
      BY ZenonT(30), <1>1, <2>2, <2>3, WaitsD, BranchEnterD
  <1>2. QED
    BY Zenon, <1>1, SaveOwnD DEF branch_child_step

(* A route in a branch is entered. *)
LEMMA BranchRoutesD ==
  ASSUME DInv, DelaysOnSpine, NEW t,
         BranchEnterOrSkip(t, "Branch", Waits(t), resolve_branch(Top(t).at))
  PROVE DInv'
  <1>1. Here(t, "branch", "Branch", "enter") /\ "enter" # "join"
    BY Zenon DEF BranchEnterOrSkip
  <1>2. FrameD(t, Top(t)) /\ Top(t).at \in Quiet /\ Top(t).at.kind = "Branch"
    BY Zenon, <1>1, BranchHereD
  <1>3. resolve_branch(Top(t).at) # <<>> => resolve_branch(Top(t).at)[1] \in Quiet
    BY Zenon, <1>2 DEF DelaysOnSpine
  <1>4. QED
    BY Zenon, <1>2, <1>3, WaitsD, BranchEnterD

(* r_branch_branch and c_branch_branch. *)
LEMMA RunnerRouteD ==
  ASSUME DInv, DelaysOnSpine, NEW t, r_branch_branch(t)
  PROVE DInv'
  BY Zenon, BranchRoutesD, SaveOwnD DEF r_branch_branch

(* The engine of the bindings saves the envelope of the route alone. *)
LEMMA CallbackRouteD ==
  ASSUME DInv, DelaysOnSpine, NEW t, c_branch_branch(t)
  PROVE DInv'
  <1> DEFINE f == Top(t)
             v == Envelope(f.at, f.ret)
             s == save_task_result(store, f.at.id, v)
  <1>1. CASE /\ Here(t, "branch", "Branch", "back")
             /\ DoBranch(t, Advance(Stk(t), v), s)
    <2>1. "back" # "join"
      OBVIOUS
    <2>2. Stands(t) /\ IsSnap(store) /\ ThreadD(t, Advance(Stk(t), v))
      BY Zenon, <1>1, <2>1, BranchHereD
    <2>3. IsSnap(s)
      BY Zenon, <2>2, MarkIsSnap DEF save_task_result
    <2> HIDE DEF s, v
    <2>4. QED
      BY ZenonT(30), <1>1, <2>2, <2>3, DoBranchD
  <1>2. QED
    BY Zenon, <1>1, BranchRoutesD DEF c_branch_branch

(* branch_loop_step. *)
LEMMA BranchLoopD ==
  ASSUME DInv, DelaysOnSpine, NEW t, branch_loop_step(t)
  PROVE DInv'
  <1> DEFINE f == Top(t)
             n == f.at
             s == remove_task_results(Own(t), AllIds(n.subs[1]))
             exit == LoopExit(s, n, f.ret)
             next == set_loop_iteration(s, n.id, f.i + 1)
             g == [Waits(t) EXCEPT !.i = f.i + 1, !.snap = next]
  <1>1. CASE branch_loop_entry(t)
    <2> DEFINE i == loop_iteration(Own(t), n.id)
               sub == IF i < n.n THEN n.subs ELSE <<>>
    <2>1. /\ BranchEnterOrSkip(t, "Loop", [Waits(t) EXCEPT !.i = i], sub)
          /\ Here(t, "branch", "Loop", "enter") /\ "enter" # "join"
      BY Zenon, <1>1 DEF branch_loop_entry, BranchEnterOrSkip
    <2>2. FrameD(t, Top(t)) /\ Top(t).at \in Quiet /\ Top(t).at.kind = "Loop"
      BY Zenon, <2>1, BranchHereD
    <2>3. n.subs[1] \in Quiet
      BY <2>2 DEF DelaysOnSpine
    <2>4. sub # <<>> => sub[1] \in Quiet
      BY Zenon, <2>3
    <2> HIDE DEF i, sub
    <2>5. LikeD(Top(t), [Waits(t) EXCEPT !.i = i])
      BY Zenon, <2>2, LoopFrameD
    <2>6. QED
      BY Zenon, <2>1, <2>4, <2>5, BranchEnterD
  <1>2. CASE /\ Here(t, "branch", "Loop", "back")
             /\ \/ DoBranch(t, Advance(ReplaceTop(Stk(t), WithSnap(t, exit)), f.ret), exit)
                \/ DoBranch(t, Call(t, g, n.subs[1], f.ret, "branch"), next)
                \/ DoBranch(t, Throw(Stk(t), "Error"), store)
    <2>1. "back" # "join" /\ "branch" \in {"main", "branch"} /\ "wait" # "fork" /\ "Loop" # "Fork"
      OBVIOUS
    <2>2. /\ Stands(t) /\ StackD(t, Stk(t)) /\ FrameD(t, f) /\ Stk(t) # <<>>
          /\ IsSnap(store) /\ IsSnap(Own(t)) /\ f.at \in Quiet /\ f.at.kind = "Loop"
          /\ ThreadD(t, Throw(Stk(t), "Error"))
      BY Zenon, <1>2, <2>1, BranchHereD
    <2>3. n.subs[1] \in Quiet /\ n.subs[1] \in Quiet \cup Spine
      BY Zenon, <2>2 DEF DelaysOnSpine
    <2>4. IsSnap(s)
      BY Zenon, <2>2, RemoveIsSnap
    <2>5. IsSnap(exit) /\ IsSnap(next)
      BY Zenon, <2>4, CountersAreSnap, MarkIsSnap DEF LoopExit
    <2>6. LikeD(f, g)
      BY ZenonT(30), <2>1, <2>2, <2>5, FormsD DEF Waits
    <2> HIDE DEF s, exit, next, g
    <2>7. ThreadD(t, Call(t, g, n.subs[1], f.ret, "branch"))
      BY ZenonT(30), <2>1, <2>2, <2>3, <2>6, CallsD
    <2>8. ThreadD(t, Advance(ReplaceTop(Stk(t), WithSnap(t, exit)), f.ret))
      BY Zenon, <2>2, <2>5, SnapAdvanceD
    <2>9. QED
      BY ZenonT(30), <1>2, <2>2, <2>5, <2>7, <2>8, DoBranchD
  <1>3. QED
    BY Zenon, <1>1, <1>2 DEF branch_loop_step

(* execute_nested_branches. *)
LEMMA NestedD ==
  ASSUME DInv, DelaysOnSpine, NEW t, execute_nested_branches(t)
  PROVE DInv'
  <1> DEFINE f == Top(t)
             n == f.at
             call(i, a) == Call(t, [f EXCEPT !.pc = "wait", !.i = i, !.acc = a], n.subs[i],
                                f.val, "branch")
             acc == Append(f.acc, Result(n.subs[f.i].id, f.ret))
  <1>1. \E pc \in {"enter", "back"} :
          /\ Here(t, "branch", "Fork", pc)
          /\ \/ \E rs : DoBranch(t, Joined(Stk(t), rs), store)
             \/ n.subs # <<>> /\ DoBranch(t, call(1, <<>>), store)
             \/ f.i < Len(n.subs) /\ DoBranch(t, call(f.i + 1, acc), store)
    BY Zenon DEF execute_nested_branches
  <1>2. PICK pc \in {"enter", "back"} : Here(t, "branch", "Fork", pc)
    BY Zenon, <1>1
  <1>3. pc # "join" /\ "branch" \in {"main", "branch"}
    OBVIOUS
  <1>4. /\ Stands(t) /\ StackD(t, Stk(t)) /\ FrameD(t, f) /\ Stk(t) # <<>>
        /\ IsSnap(store) /\ f.at \in Quiet /\ f.at.kind = "Fork"
    BY Zenon, <1>2, <1>3, BranchHereD
  <1>5. n.subs \in Seq(Quiet) /\ f.i \in Nat /\ f.at \in Quiet \cup Spine
    BY Zenon, <1>4 DEF DelaysOnSpine, FrameD
  <1>6. \A a : /\ LikeD(f, [f EXCEPT !.pc = "wait", !.i = 1, !.acc = a])
               /\ LikeD(f, [f EXCEPT !.pc = "wait", !.i = f.i + 1, !.acc = a])
    BY Zenon, <1>4, ForkFormsD
  <1>7. n.subs # <<>> => n.subs[1] \in Quiet
    BY <1>5
  <1>8. f.i < Len(n.subs) => n.subs[f.i + 1] \in Quiet
    BY <1>5
  <1>9. n.subs # <<>> => ThreadD(t, call(1, <<>>))
    <2> DEFINE g == [f EXCEPT !.pc = "wait", !.i = 1, !.acc = <<>>]
               b == n.subs[1]
    <2>1. LikeD(f, g) /\ (n.subs # <<>> => b \in Quiet /\ b \in Quiet \cup Spine)
      BY Zenon, <1>6, <1>7
    <2>2. call(1, <<>>) = Call(t, g, b, f.val, "branch")
      OBVIOUS
    <2> HIDE DEF g, b, call
    <2>3. QED
      BY Zenon, <1>3, <1>4, <2>1, <2>2, CallsD
  <1>10. f.i < Len(n.subs) => ThreadD(t, call(f.i + 1, acc))
    <2> DEFINE g == [f EXCEPT !.pc = "wait", !.i = f.i + 1, !.acc = acc]
               b == n.subs[f.i + 1]
    <2> HIDE DEF acc
    <2>1. LikeD(f, g) /\ (f.i < Len(n.subs) => b \in Quiet /\ b \in Quiet \cup Spine)
      BY Zenon, <1>6, <1>8
    <2>2. call(f.i + 1, acc) = Call(t, g, b, f.val, "branch")
      OBVIOUS
    <2> HIDE DEF g, b, call
    <2>3. QED
      BY Zenon, <1>3, <1>4, <2>1, <2>2, CallsD
  <1>11. \A rs : ThreadD(t, Joined(Stk(t), rs))
    BY Zenon, <1>4, JoinedD
  <1> HIDE DEF call, acc
  <1>12. QED
    BY ZenonT(30), <1>1, <1>4, <1>9, <1>10, <1>11, DoBranchD

(* ---- the threads of the runner ---------------------------------------- *)

(* Sequences with the same elements are the same. *)
LEMMA SameSeq ==
  ASSUME NEW s, IsSeq(s), NEW r, IsSeq(r), Len(s) = Len(r), \A k \in 1..Len(s) : s[k] = r[k]
  PROVE s = r
  <1>1. [k \in 1..Len(s) |-> s[k]] = [k \in 1..Len(r) |-> r[k]]
    OBVIOUS
  <1>2. QED
    BY Zenon, <1>1 DEF IsSeq

(* A prefix of a prefix, and of a path with one more number. *)
LEMMA Prefixes ==
  ASSUME NEW q, IsSeq(q), NEW n \in 0..Len(q), NEW k \in 0..n
  PROVE SubSeq(SubSeq(q, 1, n), 1, k) = SubSeq(q, 1, k)
  <1> DEFINE p == SubSeq(q, 1, n)
  <1>1. IsSeq(p) /\ Len(p) = n /\ \A j \in 1..n : p[j] = q[j]
    BY Zenon, PrefixSeq
  <1> HIDE DEF p
  <1>2. Len(q) \in Nat /\ k \in 0..Len(q) /\ k \in 0..Len(p)
    BY <1>1 DEF IsSeq
  <1>3. IsSeq(SubSeq(q, 1, k)) /\ Len(SubSeq(q, 1, k)) = k /\ \A j \in 1..k : SubSeq(q, 1, k)[j] = q[j]
    BY Zenon, <1>2, PrefixSeq
  <1>4. IsSeq(SubSeq(p, 1, k)) /\ Len(SubSeq(p, 1, k)) = k /\ \A j \in 1..k : SubSeq(p, 1, k)[j] = p[j]
    BY ZenonT(30), <1>1, <1>2, PrefixSeq
  <1>5. \A j \in 1..k : p[j] = q[j]
    BY <1>1
  <1>6. SubSeq(p, 1, k) = SubSeq(q, 1, k)
    BY <1>3, <1>4, <1>5, SameSeq
  <1>7. QED
    BY Zenon, <1>6 DEF p

(* The whole of a sequence, and all but its last element. *)
LEMMA WholePrefix ==
  ASSUME NEW q, IsSeq(q)
  PROVE SubSeq(q, 1, Len(q)) = q /\ Below(q) = SubSeq(q, 1, Len(q) - 1)
  <1>1. Len(q) \in 0..Len(q)
    BY DEF IsSeq
  <1>2. /\ IsSeq(SubSeq(q, 1, Len(q))) /\ Len(SubSeq(q, 1, Len(q))) = Len(q)
        /\ \A j \in 1..Len(q) : SubSeq(q, 1, Len(q))[j] = q[j]
    BY Zenon, <1>1, PrefixSeq
  <1>3. QED
    BY Zenon, <1>2, SameSeq DEF Below

(* The path of a branch of t. *)
LEMMA BranchPath ==
  ASSUME NEW t, IsSeq(t), NEW i
  PROVE /\ IsSeq(Append(t, i)) /\ Append(t, i) # Main /\ TopOf(Append(t, i)) = i
        /\ Len(Append(t, i)) = Len(t) + 1
        /\ \A k \in 0..Len(t) : SubSeq(Append(t, i), 1, k) = SubSeq(t, 1, k)
        /\ Below(Append(t, i)) = t
  <1> DEFINE q == Append(t, i)
  <1>1. /\ IsSeq(q) /\ q # <<>> /\ Len(q) = Len(t) + 1 /\ TopOf(q) = i
        /\ \A k \in 1..Len(t) : q[k] = t[k]
    BY ZenonT(30), AppendSeq
  <1>2. Len(t) \in Nat
    BY DEF IsSeq
  <1> HIDE DEF q
  <1>3. ASSUME NEW k \in 0..Len(t) PROVE SubSeq(q, 1, k) = SubSeq(t, 1, k)
    <2>1. k \in 0..Len(q) /\ k \in 0..Len(t) /\ 1..k \subseteq 1..Len(t)
      BY <1>1, <1>2
    <2>2. IsSeq(SubSeq(q, 1, k)) /\ Len(SubSeq(q, 1, k)) = k /\ \A j \in 1..k : SubSeq(q, 1, k)[j] = q[j]
      BY Zenon, <1>1, <2>1, PrefixSeq
    <2>3. IsSeq(SubSeq(t, 1, k)) /\ Len(SubSeq(t, 1, k)) = k /\ \A j \in 1..k : SubSeq(t, 1, k)[j] = t[j]
      BY Zenon, <2>1, PrefixSeq
    <2>4. \A j \in 1..k : q[j] = t[j]
      BY <1>1, <2>1
    <2>5. QED
      BY Zenon, <2>2, <2>3, <2>4, SameSeq
  <1>4. Len(t) \in 0..Len(t) /\ Len(q) - 1 = Len(t)
    BY <1>1, <1>2
  <1>5. Below(q) = t
    BY ZenonT(30), <1>1, <1>3, <1>4, WholePrefix
  <1>6. QED
    BY Zenon, <1>1, <1>3, <1>5 DEF q, Main

(* Below the path of a branch of t is t. *)
LEMMA BranchPrefix ==
  ASSUME NEW q, IsSeq(q), NEW k \in 0..(Len(q) - 1), NEW t, IsSeq(t), NEW i,
         SubSeq(q, 1, k) = Append(t, i)
  PROVE k > 0 /\ k - 1 \in 0..(Len(q) - 1) /\ SubSeq(q, 1, k - 1) = t
  <1>1. Len(q) \in Nat /\ Len(t) \in Nat /\ k \in 0..Len(q)
    BY DEF IsSeq
  <1>2. Len(SubSeq(q, 1, k)) = k
    BY Zenon, <1>1, PrefixSeq
  <1>3. k = Len(t) + 1
    BY Zenon, <1>2, BranchPath
  <1>4. k > 0 /\ k - 1 \in 0..(Len(q) - 1) /\ k - 1 \in 0..k /\ k - 1 \in 0..Len(t) /\ k - 1 = Len(t)
    BY <1>1, <1>3
  <1>5. SubSeq(SubSeq(q, 1, k), 1, k - 1) = SubSeq(q, 1, k - 1)
    BY Zenon, <1>1, <1>4, Prefixes
  <1>6. SubSeq(Append(t, i), 1, k - 1) = SubSeq(t, 1, k - 1)
    BY Zenon, <1>4, BranchPath
  <1>7. SubSeq(t, 1, k - 1) = t
    BY Zenon, <1>4, WholePrefix
  <1>8. QED
    BY ZenonT(30), <1>4, <1>5, <1>6, <1>7

(* A step that changes the threads alone. *)
LEMMA ThreadsD ==
  ASSUME DInv, NEW threads, DoThreads(threads), delays = {},
         \A p \in DOMAIN threads : IsSeq(p) /\ ThreadD(p, threads[p]) /\ (impl # "runner" => p = Main),
         Main \in DOMAIN threads /\ threads[Main].stk # <<>> => mem.st = "InProgress",
         Family'
  PROVE DInv'
  <1>1. /\ th' = threads /\ store' = store /\ mem' = mem /\ impl' = impl /\ tree' = tree
        /\ delays' = delays /\ ran' = ran
    BY Zenon DEF DoThreads, env
  <1>2. AtRest'
    BY Zenon, <1>1 DEF AtRest
  <1>3. NotEarly'
    BY Zenon, <1>1 DEF NotEarly, DInv
  <1>4. QED
    BY Zenon, <1>1, <1>2, <1>3 DEF DInv

(* A stack of one frame. *)
LEMMA OneD ==
  ASSUME NEW t, NEW f, FrameD(t, f)
  PROVE ThreadD(t, Running(<<f>>))
  <1>1. <<f>> \in Seq({f}) /\ Len(<<f>>) = 1
    OBVIOUS
  <1>2. IsSeq(<<f>>)
    BY Zenon, <1>1, SeqIs
  <1>3. \A k \in 1..1 : <<f>>[k] = f /\ ~(k < 1)
    OBVIOUS
  <1>4. StackD(t, <<f>>)
    BY <1>1, <1>2, <1>3 DEF StackD
  <1>5. QED
    BY Zenon, <1>4, RunningD

(* A fork spawns threads for some of its branches, and joins them. *)
LEMMA SpawnD ==
  ASSUME DInv, DelaysOnSpine, NEW t, Stands(t), StackD(t, Stk(t)), FrameD(t, Top(t)),
         impl = "runner", Top(t).at.kind = "Fork",
         NEW is, is \subseteq DOMAIN Top(t).at.subs, NEW g, LikeD(Top(t), g), g.pc = "join",
         DoThreads(With([th EXCEPT ![t] = SetTop(t, g)], Spawned(t, is)))
  PROVE DInv'
  <1> DEFINE new == Spawned(t, is)
             old == [th EXCEPT ![t] = SetTop(t, g)]
             all == With(old, new)
             n == Top(t).at
  <1>1. th' = all /\ DoThreads(all)
    BY Zenon DEF DoThreads
  <1>2. t \in DOMAIN th /\ IsSeq(t) /\ Stk(t) # <<>> /\ delays = {} /\ Leaf(t)
    <2>1. t \in DOMAIN th /\ IsSeq(t) /\ Stk(t) # <<>>
      BY Zenon DEF Stands, DInv
    <2>2. QED
      BY ZenonT(30), <2>1, NoneElapsing, Childless DEF Stk
  <1>3. ThreadD(t, SetTop(t, g)) /\ Joins(SetTop(t, g))
    <2>1. FrameD(t, g) /\ ThreadD(t, SetTop(t, g))
      BY Zenon, <1>2, SetTopD
    <2>2. g.at = TopOf(Stk(t)).at
      BY Zenon DEF LikeD, Top, Stk
    <2>3. ReplaceTop(Stk(t), g) # <<>> /\ TopOf(ReplaceTop(Stk(t), g)) = g
      BY ZenonT(30), <1>2, <2>1, <2>2, ReplaceD
    <2>4. SetTop(t, g).stk = ReplaceTop(Stk(t), g)
      BY Zenon DEF SetTop, Running
    <2>5. QED
      BY ZenonT(30), <2>1, <2>3, <2>4 DEF Joins
  <1>4. \A i \in is : n.subs[i] \in Quiet
    <2>1. n \in Quiet \cup Spine
      BY Zenon DEF FrameD
    <2>2. n.subs \in Seq(Quiet)
      BY Zenon, <2>1, NodesD
    <2>3. QED
      BY <2>2
  <1>5. DOMAIN new = {Append(t, i) : i \in is}
    BY Zenon DEF Spawned
  <1>6. ASSUME NEW p \in DOMAIN new
        PROVE IsSeq(p) /\ p # Main /\ ThreadD(p, new[p])
    <2>1. PICK i \in is : p = Append(t, i)
      BY Zenon, <1>5
    <2>2. IsSeq(p) /\ p # Main /\ TopOf(p) = i
      BY Zenon, <1>2, <2>1, BranchPath
    <2> DEFINE f == Frame(n.subs[i], Top(t).val, "branch")
    <2>3. new[p] = Running(<<f>>)
      BY Zenon, <1>5, <2>2 DEF Spawned
    <2>4. n.subs[i] \in Quiet /\ n.subs[i] \in Quiet \cup Spine /\ "branch" \in {"main", "branch"}
      BY Zenon, <1>4
    <2>5. FrameD(p, f)
      BY Zenon, <2>4, NewD
    <2> HIDE DEF f
    <2>6. QED
      BY ZenonT(30), <2>2, <2>3, <2>5, OneD
  <1>7. /\ DOMAIN old = DOMAIN th /\ old[t] = SetTop(t, g)
        /\ \A p \in DOMAIN th : p # t => old[p] = th[p]
    BY Zenon, <1>2
  <1> HIDE DEF new, old
  <1>8. /\ DOMAIN all = DOMAIN th \cup DOMAIN new
        /\ \A p \in DOMAIN new : all[p] = new[p]
        /\ \A p \in DOMAIN th : p \notin DOMAIN new => all[p] = old[p]
    BY Zenon, <1>7 DEF With
  <1>9. \A p \in DOMAIN new : \A q \in DOMAIN th : \A k \in 0..(Len(q) - 1) : SubSeq(q, 1, k) # p
    <2>1. SUFFICES ASSUME NEW i \in is, NEW q \in DOMAIN th, NEW k \in 0..(Len(q) - 1),
                          SubSeq(q, 1, k) = Append(t, i)
                   PROVE FALSE
      BY Zenon, <1>5
    <2>2. IsSeq(q)
      BY Zenon DEF DInv
    <2>3. k - 1 \in 0..(Len(q) - 1) /\ SubSeq(q, 1, k - 1) = t
      BY <1>2, <2>1, <2>2, BranchPrefix
    <2>4. QED
      BY Zenon, <1>2, <2>3 DEF Leaf
  <1>10. t \notin DOMAIN new
    <2>1. Len(t) \in Nat
      BY Zenon, <1>2 DEF IsSeq
    <2>2. \A i : Len(Append(t, i)) = Len(t) + 1
      BY Zenon, <1>2, BranchPath
    <2>3. QED
      BY <1>5, <2>1, <2>2
  <1> HIDE DEF all
  <1>11. all[t] = SetTop(t, g)
    BY ZenonT(30), <1>2, <1>7, <1>8, <1>10
  <1>12. ASSUME NEW q \in DOMAIN th, NEW k \in 0..(Len(q) - 1)
         PROVE /\ SubSeq(q, 1, k) \in DOMAIN all =>
                    Joins(all[SubSeq(q, 1, k)]) \/ Broken(all[SubSeq(q, 1, k)])
               /\ k > 0 /\ SubSeq(q, 1, k) \notin DOMAIN all /\ SubSeq(q, 1, k - 1) \in DOMAIN all =>
                    Broken(all[SubSeq(q, 1, k - 1)])
    <2>1. \A j \in 0..(Len(q) - 1) : SubSeq(q, 1, j) \in DOMAIN all =>
            SubSeq(q, 1, j) \in DOMAIN th /\ all[SubSeq(q, 1, j)] = th[SubSeq(q, 1, j)]
      BY ZenonT(30), <1>2, <1>7, <1>8, <1>9 DEF Leaf
    <2>2. k > 0 => k - 1 \in 0..(Len(q) - 1)
      <3>1. Len(q) \in Nat
        BY Zenon DEF DInv, IsSeq
      <3>2. QED
        BY <3>1
    <2>3. SubSeq(q, 1, k) \notin DOMAIN all => SubSeq(q, 1, k) \notin DOMAIN th
      BY Zenon, <1>8
    <2>4. QED
      BY ZenonT(30), <2>1, <2>2, <2>3 DEF DInv, Family
  <1>13. ASSUME NEW i \in is, NEW k \in 0..(Len(Append(t, i)) - 1), NEW q, q = Append(t, i)
         PROVE /\ SubSeq(q, 1, k) \in DOMAIN all =>
                    Joins(all[SubSeq(q, 1, k)]) \/ Broken(all[SubSeq(q, 1, k)])
               /\ k > 0 /\ SubSeq(q, 1, k) \notin DOMAIN all /\ SubSeq(q, 1, k - 1) \in DOMAIN all =>
                    Broken(all[SubSeq(q, 1, k - 1)])
    <2>1. /\ Len(q) = Len(t) + 1 /\ Len(t) \in Nat
          /\ \A j \in 0..Len(t) : SubSeq(q, 1, j) = SubSeq(t, 1, j)
      BY ZenonT(30), <1>2, <1>13, BranchPath DEF IsSeq
    <2>2. k \in 0..Len(t) /\ (k > 0 => k - 1 \in 0..Len(t))
      BY <1>13, <2>1
    <2>3. CASE k = Len(t)
      <3>1. SubSeq(q, 1, k) = t
        BY ZenonT(30), <1>2, <2>1, <2>2, <2>3, WholePrefix
      <3>2. QED
        BY ZenonT(30), <1>2, <1>3, <1>8, <1>11, <3>1
    <2>4. CASE k # Len(t)
      <3>1. k \in 0..(Len(t) - 1)
        BY <2>1, <2>2, <2>4
      <3>2. SubSeq(q, 1, k) = SubSeq(t, 1, k) /\ (k > 0 => SubSeq(q, 1, k - 1) = SubSeq(t, 1, k - 1))
        BY Zenon, <2>1, <2>2
      <3>3. QED
        BY ZenonT(30), <1>2, <1>12, <3>1, <3>2
    <2>5. QED
      BY Zenon, <2>3, <2>4
  <1>14. Family'
    BY ZenonT(30), <1>1, <1>5, <1>8, <1>12, <1>13 DEF Family
  <1>15. \A p \in DOMAIN all : IsSeq(p) /\ ThreadD(p, all[p]) /\ (impl # "runner" => p = Main)
    BY ZenonT(30), <1>3, <1>6, <1>7, <1>8 DEF DInv
  <1>16. Main \in DOMAIN all /\ all[Main].stk # <<>> => mem.st = "InProgress"
    <2>1. Main \in DOMAIN all => Main \in DOMAIN th /\ all[Main] = old[Main]
      BY Zenon, <1>6, <1>8
    <2>2. CASE t = Main
      BY ZenonT(30), <1>2, <2>2 DEF DInv, Stk
    <2>3. CASE t # Main
      BY ZenonT(30), <1>7, <2>1, <2>3 DEF DInv
    <2>4. QED
      BY Zenon, <2>2, <2>3
  <1>17. QED
    BY ZenonT(30), <1>1, <1>2, <1>14, <1>15, <1>16, ThreadsD

(* r_fork. *)
LEMMA RunnerForkD ==
  ASSUME DInv, DelaysOnSpine, NEW t, r_fork(t)
  PROVE DInv'
  <1> DEFINE f == Top(t)
             n == f.at
             todo == {i \in DOMAIN n.subs : ~Cached(mem, n.subs[i].id)}
             cached == collect_cached_branches(mem, n)
             g == [f EXCEPT !.pc = "join", !.acc = cached]
  <1>1. /\ impl = "runner" /\ Here(t, "main", "Fork", "enter")
        /\ \/ Guarded(t, Joined(Stk(t), cached), mem, store)
           \/ DoThreads(With([th EXCEPT ![t] = SetTop(t, g)], Spawned(t, todo)))
    BY Zenon DEF r_fork
  <1>2. "enter" # "join" /\ "join" # "fork"
    OBVIOUS
  <1>3. /\ t = Main /\ Stands(Main) /\ StackD(Main, Stk(Main)) /\ FrameD(Main, f)
        /\ f.at.kind = "Fork" /\ Stk(Main) # <<>> /\ Open(mem) /\ IsSnap(store)
    BY ZenonT(30), <1>1, <1>2, MainD DEF Stands
  <1>4. todo \subseteq DOMAIN n.subs
    OBVIOUS
  <1> HIDE DEF cached, todo
  <1>5. LikeD(f, g) /\ g.pc = "join"
    <2>1. LikeD(f, g)
      BY ZenonT(30), <1>2, <1>3, FormsD
    <2>2. g.pc = "join"
      BY <1>3 DEF FrameD, IsFrame
    <2>3. QED
      BY <2>1, <2>2
  <1> HIDE DEF g
  <1>6. ThreadD(Main, Joined(Stk(Main), cached))
    BY Zenon, <1>3, JoinedD
  <1>7. QED
    BY ZenonT(30), <1>1, <1>3, <1>4, <1>5, <1>6, GuardedD, SpawnD

(* A thread that joins branches. *)
LEMMA JoinHereD ==
  ASSUME DInv, DelaysOnSpine, NEW t, NEW mode, Here(t, mode, "Fork", "join")
  PROVE /\ t \in DOMAIN th /\ IsSeq(t) /\ Stk(t) # <<>> /\ delays = {}
        /\ StackD(t, Stk(t)) /\ FrameD(t, Top(t)) /\ IsFrame(Top(t)) /\ Top(t).pc = "join"
        /\ Joins(th[t]) /\ ~Broken(th[t])
  <1>1. t \in DOMAIN th /\ IsSeq(t) /\ Stk(t) # <<>> /\ Top(t).pc = "join"
    BY Zenon DEF Here, DInv
  <1>2. delays = {} /\ StackD(t, Stk(t))
    BY ZenonT(30), <1>1, NoneElapsing DEF DInv, ThreadD, Stk
  <1>3. FrameD(t, Top(t))
    BY ZenonT(30), <1>1, <1>2, BelowD DEF Top, Stk
  <1>4. Joins(th[t]) /\ ~Broken(th[t])
    BY Zenon, <1>1 DEF Joins, Broken, Top, Stk
  <1>5. QED
    BY ZenonT(30), <1>1, <1>2, <1>3, <1>4 DEF FrameD

(* What is below p or t when p is dropped and t becomes r. *)
Kept(p, t, r) ==
  \A q \in DOMAIN th : \A k \in 0..(Len(q) - 1) :
    /\ SubSeq(q, 1, k) = t => Joins(r) \/ Broken(r)
    /\ SubSeq(q, 1, k) = p => SubSeq(q, 1, k - 1) = t /\ Broken(r)

(* A thread is dropped and another changes. *)
LEMMA DropD ==
  ASSUME DInv, NEW t \in DOMAIN th, th[t].stk # <<>>, NEW p \in DOMAIN th, p # t, p # Main,
         NEW r, ThreadD(t, r), DoThreads([Drop(th, {p}) EXCEPT ![t] = r]), Kept(p, t, r)
  PROVE DInv'
  <1> DEFINE rest == Drop(th, {p})
             all == [rest EXCEPT ![t] = r]
  <1>1. /\ DOMAIN rest = DOMAIN th \ {p} /\ t \in DOMAIN rest
        /\ \A q \in DOMAIN rest : rest[q] = th[q]
    BY DEF Drop
  <1> HIDE DEF rest
  <1>2. /\ DOMAIN all = DOMAIN th \ {p} /\ all[t] = r
        /\ \A q \in DOMAIN th : q # p /\ q # t => all[q] = th[q]
    BY <1>1
  <1>3. th' = all /\ DoThreads(all) /\ delays = {}
    <2>1. th' = all /\ DoThreads(all)
      BY Zenon DEF DoThreads, rest
    <2>2. QED
      BY Zenon, <2>1, NoneElapsing
  <1> HIDE DEF all
  <1>4. ASSUME NEW q \in DOMAIN th, NEW k \in 0..(Len(q) - 1)
        PROVE /\ SubSeq(q, 1, k) \in DOMAIN all =>
                   Joins(all[SubSeq(q, 1, k)]) \/ Broken(all[SubSeq(q, 1, k)])
              /\ k > 0 /\ SubSeq(q, 1, k) \notin DOMAIN all /\ SubSeq(q, 1, k - 1) \in DOMAIN all =>
                   Broken(all[SubSeq(q, 1, k - 1)])
    <2>1. k > 0 => k - 1 \in 0..(Len(q) - 1)
      <3>1. Len(q) \in Nat
        BY Zenon DEF DInv, IsSeq
      <3>2. QED
        BY <3>1
    <2>2. SubSeq(q, 1, k) \in DOMAIN all =>
            Joins(all[SubSeq(q, 1, k)]) \/ Broken(all[SubSeq(q, 1, k)])
      <3>1. CASE SubSeq(q, 1, k) = t
        BY Zenon, <1>2, <3>1 DEF Kept
      <3>2. CASE SubSeq(q, 1, k) # t
        BY Zenon, <1>2, <3>2 DEF DInv, Family
      <3>3. QED
        BY Zenon, <3>1, <3>2
    <2>3. ASSUME k > 0, SubSeq(q, 1, k) \notin DOMAIN all, SubSeq(q, 1, k - 1) \in DOMAIN all
          PROVE Broken(all[SubSeq(q, 1, k - 1)])
      <3>1. CASE SubSeq(q, 1, k) = p
        BY Zenon, <1>2, <2>3, <3>1 DEF Kept
      <3>2. CASE SubSeq(q, 1, k) # p
        <4>1. SubSeq(q, 1, k) \notin DOMAIN th /\ SubSeq(q, 1, k - 1) \in DOMAIN th
          BY Zenon, <1>2, <2>3, <3>2
        <4>2. Broken(th[SubSeq(q, 1, k - 1)])
          BY ZenonT(30), <2>3, <4>1 DEF DInv, Family
        <4>3. SubSeq(q, 1, k - 1) # t
          BY Zenon, <4>2 DEF Broken
        <4>4. QED
          BY ZenonT(30), <1>2, <2>3, <4>1, <4>2, <4>3
      <3>3. QED
        BY Zenon, <3>1, <3>2
    <2>4. QED
      BY Zenon, <2>2, <2>3
  <1>5. Family'
    BY ZenonT(30), <1>2, <1>3, <1>4 DEF Family
  <1>6. \A q \in DOMAIN all : IsSeq(q) /\ ThreadD(q, all[q]) /\ (impl # "runner" => q = Main)
    BY Zenon, <1>2 DEF DInv
  <1>7. Main \in DOMAIN all /\ all[Main].stk # <<>> => mem.st = "InProgress"
    BY Zenon, <1>2 DEF DInv
  <1>8. QED
    BY ZenonT(30), <1>3, <1>5, <1>6, <1>7, ThreadsD

(* join_next. *)
LEMMA CollectD ==
  ASSUME DInv, DelaysOnSpine, NEW t, NEW mode, Here(t, mode, "Fork", "join"),
         NEW p \in Joinable(t), NEW catches, Collect(t, p, catches)
  PROVE DInv'
  <1> DEFINE f == Top(t)
             r == th[p]
             acc == Append(f.acc, Result(f.at.subs[TopOf(p)].id, r.val))
             g == [f EXCEPT !.acc = acc]
             rest == Drop(th, {p})
  <1>1. /\ t \in DOMAIN th /\ IsSeq(t) /\ Stk(t) # <<>> /\ StackD(t, Stk(t)) /\ FrameD(t, f)
        /\ f.pc = "join" /\ Joins(th[t]) /\ ~Broken(th[t]) /\ th[t].stk # <<>> /\ IsFrame(f)
    BY Zenon, JoinHereD DEF Stk
  <1>2. p \in DOMAIN th /\ p # Main /\ Below(p) = t /\ r.res # "run" /\ IsSeq(p) /\ p # <<>>
    BY Zenon DEF Joinable, JoinSet, DInv, Main
  <1>3. r.res # "Waiting" /\ p # t
    <2>1. r.res # "Waiting"
      BY Zenon, <1>2 DEF DInv, ThreadD
    <2>2. Len(Below(p)) = Len(p) - 1 /\ Len(p) \in Nat
      BY ZenonT(30), <1>2, BelowSeq DEF IsSeq
    <2>3. p # t
      BY <1>2, <2>2
    <2>4. QED
      BY <2>1, <2>3
  <1>4. ASSUME NEW q \in DOMAIN th, NEW k \in 0..(Len(q) - 1), SubSeq(q, 1, k) = p
        PROVE SubSeq(q, 1, k - 1) = t
    <2>1. IsSeq(q) /\ Len(q) \in Nat /\ k \in 0..Len(q)
      BY DEF DInv, IsSeq
    <2>2. Len(p) = k
      BY ZenonT(30), <1>4, <2>1, PrefixSeq
    <2>3. k > 0
      BY ZenonT(30), <1>2, <2>2, OtherSeq
    <2>4. k - 1 \in 0..k
      BY <2>1, <2>3
    <2>5. SubSeq(p, 1, k - 1) = SubSeq(q, 1, k - 1)
      BY ZenonT(30), <1>4, <2>1, <2>4, Prefixes
    <2>6. Below(p) = SubSeq(p, 1, k - 1)
      BY ZenonT(30), <1>2, <2>2, WholePrefix
    <2>7. QED
      BY ZenonT(30), <1>2, <2>5, <2>6
  <1>5. \/ r.res = "ok" /\ DoThreads([rest EXCEPT ![t] = SetTop(t, g)])
        \/ r.res # "ok" /\ DoThreads([rest EXCEPT ![t] = Throw(Stk(t), r.res)])
    BY Zenon, <1>3 DEF Collect
  <1>6. CASE r.res = "ok" /\ DoThreads([rest EXCEPT ![t] = SetTop(t, g)])
    <2>1. "join" # "fork"
      OBVIOUS
    <2> HIDE DEF acc
    <2>2. LikeD(f, g)
      BY ZenonT(30), <1>1, <2>1, FormsD
    <2>3. g.pc = "join"
      BY <1>1 DEF IsFrame
    <2> HIDE DEF g
    <2>4. FrameD(t, g) /\ ThreadD(t, SetTop(t, g))
      BY ZenonT(30), <1>1, <2>2, SetTopD
    <2>5. g.at = TopOf(Stk(t)).at
      BY Zenon, <2>2 DEF LikeD, Top, Stk
    <2>6. ReplaceTop(Stk(t), g) # <<>> /\ TopOf(ReplaceTop(Stk(t), g)) = g
      BY ZenonT(30), <1>1, <2>4, <2>5, ReplaceD
    <2>7. SetTop(t, g).stk = ReplaceTop(Stk(t), g)
      BY Zenon DEF SetTop, Running
    <2>8. Joins(SetTop(t, g))
      BY ZenonT(30), <2>3, <2>6, <2>7 DEF Joins
    <2>9. Leaf(p)
      BY ZenonT(30), <1>2, <1>6, Childless
    <2>10. Kept(p, t, SetTop(t, g))
      BY Zenon, <2>8, <2>9 DEF Leaf, Kept
    <2>11. QED
      BY ZenonT(30), <1>1, <1>2, <1>3, <1>6, <2>4, <2>10, DropD
  <1>7. CASE r.res # "ok" /\ DoThreads([rest EXCEPT ![t] = Throw(Stk(t), r.res)])
    <2> DEFINE e == Throw(Stk(t), r.res)
    <2>1. ThreadD(t, e) /\ e.stk = <<>> /\ e.res = r.res
      BY <1>1, <1>3, ThrowD
    <2> HIDE DEF e
    <2>2. Broken(e)
      BY Zenon, <1>7, <2>1 DEF Broken
    <2>3. Kept(p, t, e)
      BY Zenon, <1>4, <2>2 DEF Kept
    <2>4. DoThreads([rest EXCEPT ![t] = e])
      BY Zenon, <1>7 DEF e
    <2>5. QED
      BY ZenonT(30), <1>1, <1>2, <1>3, <2>1, <2>3, <2>4, DropD
  <1>8. QED
    BY ZenonT(30), <1>5, <1>6, <1>7

(* With its JoinSet empty a thread has none below it. *)
LEMMA JoinedLeaf ==
  ASSUME DInv, NEW t \in DOMAIN th, ~Broken(th[t]), JoinSet(t) = {}
  PROVE Leaf(t)
  <1>1. SUFFICES ASSUME NEW q \in DOMAIN th, NEW k \in 0..(Len(q) - 1), SubSeq(q, 1, k) = t
                 PROVE FALSE
    BY Zenon DEF Leaf
  <1>2. IsSeq(q) /\ Len(q) \in Nat
    BY Zenon DEF DInv, IsSeq
  <1> DEFINE j == k + 1
             x == SubSeq(q, 1, j)
  <1>3. j \in 0..Len(q) /\ j > 0 /\ j - 1 = k /\ k \in 0..j /\ (j # Len(q) => j \in 0..(Len(q) - 1))
    BY <1>2
  <1> HIDE DEF j
  <1>4. IsSeq(x) /\ Len(x) = j
    BY Zenon, <1>2, <1>3, PrefixSeq
  <1>5. SubSeq(x, 1, k) = t
    BY ZenonT(30), <1>1, <1>2, <1>3, Prefixes
  <1> HIDE DEF x
  <1>6. Below(x) = t
    BY ZenonT(30), <1>3, <1>4, <1>5, WholePrefix
  <1>7. x # Main
    BY <1>3, <1>4, EmptySeq DEF Main
  <1>8. x \notin DOMAIN th
    BY Zenon, <1>6, <1>7 DEF JoinSet
  <1>9. j # Len(q)
    BY ZenonT(30), <1>2, <1>8, WholePrefix DEF x
  <1>10. Broken(th[t])
    <2>1. j \in 0..(Len(q) - 1) /\ SubSeq(q, 1, j - 1) = t
      BY Zenon, <1>1, <1>3, <1>9
    <2>2. QED
      BY ZenonT(30), <1>3, <1>8, <2>1 DEF DInv, Family, x
  <1>11. QED
    BY Zenon, <1>10

(* All branches are joined, and the thread goes on. *)
LEMMA AllJoinedD ==
  ASSUME DInv, DelaysOnSpine, NEW t, NEW mode, Here(t, mode, "Fork", "join"), JoinSet(t) = {},
         NEW r, ThreadD(t, r), DoThreads([th EXCEPT ![t] = r])
  PROVE DInv'
  <1> DEFINE all == [th EXCEPT ![t] = r]
  <1>1. t \in DOMAIN th /\ Stk(t) # <<>> /\ delays = {} /\ ~Broken(th[t])
    BY Zenon, JoinHereD
  <1>2. th' = all
    BY Zenon DEF DoThreads
  <1>3. Family'
    BY ZenonT(30), <1>1, <1>2, JoinedLeaf, FamilyMoves
  <1>4. DOMAIN all = DOMAIN th /\ all[t] = r /\ \A q \in DOMAIN th : q # t => all[q] = th[q]
    BY <1>1
  <1> HIDE DEF all
  <1>5. \A q \in DOMAIN all : IsSeq(q) /\ ThreadD(q, all[q]) /\ (impl # "runner" => q = Main)
    BY Zenon, <1>4 DEF DInv
  <1>6. Main \in DOMAIN all /\ all[Main].stk # <<>> => mem.st = "InProgress"
    BY ZenonT(30), <1>1, <1>4 DEF DInv, Stk
  <1>7. DoThreads(all)
    BY Zenon DEF all
  <1>8. QED
    BY ZenonT(30), <1>1, <1>3, <1>5, <1>6, <1>7, ThreadsD

(* execute_fork_branches_parallel. *)
LEMMA ParallelD ==
  ASSUME DInv, DelaysOnSpine, NEW t, execute_fork_branches_parallel(t)
  PROVE DInv'
  <1>1. Here(t, "main", "Fork", "join")
    BY Zenon DEF execute_fork_branches_parallel
  <1>2. CASE \E p \in Joinable(t) : Collect(t, p, TRUE)
    BY Zenon, <1>1, <1>2, CollectD
  <1>3. CASE /\ JoinSet(t) = {}
             /\ DoThreads([th EXCEPT ![t] = SetTop(t, [Top(t) EXCEPT !.pc = "settle"])])
    <2>1. Stk(t) # <<>> /\ StackD(t, Stk(t)) /\ FrameD(t, Top(t))
      BY Zenon, <1>1, JoinHereD
    <2>2. "settle" # "fork"
      OBVIOUS
    <2>3. LikeD(Top(t), [Top(t) EXCEPT !.pc = "settle"])
      BY Zenon, <2>1, <2>2, FormsD
    <2>4. ThreadD(t, SetTop(t, [Top(t) EXCEPT !.pc = "settle"]))
      BY Zenon, <2>1, <2>3, SetTopD
    <2>5. QED
      BY ZenonT(30), <1>1, <1>3, <2>4, AllJoinedD
  <1>4. QED
    BY Zenon, <1>2, <1>3 DEF execute_fork_branches_parallel

(* execute_nested_fork_branches. *)
LEMMA NestedForkD ==
  ASSUME DInv, DelaysOnSpine, NEW t, execute_nested_fork_branches(t)
  PROVE DInv'
  <1> DEFINE f == Top(t)
             g == [f EXCEPT !.pc = "join"]
  <1>1. CASE /\ impl = "runner" /\ Here(t, "branch", "Fork", "enter")
             /\ DoThreads(With([th EXCEPT ![t] = SetTop(t, g)], Spawned(t, DOMAIN f.at.subs)))
    <2>1. "enter" # "join" /\ "join" # "fork"
      OBVIOUS
    <2>2. /\ Stands(t) /\ StackD(t, Stk(t)) /\ FrameD(t, f) /\ IsFrame(f) /\ f.at.kind = "Fork"
      BY Zenon, <1>1, <2>1, BranchHereD
    <2>3. LikeD(f, g)
      BY Zenon, <2>1, <2>2, FormsD
    <2>4. g.pc = "join" /\ DOMAIN f.at.subs \subseteq DOMAIN f.at.subs
      BY <2>2 DEF IsFrame
    <2> HIDE DEF g
    <2>5. QED
      BY ZenonT(30), <1>1, <2>2, <2>3, <2>4, SpawnD
  <1>2. CASE Here(t, "branch", "Fork", "join") /\ \E p \in Joinable(t) : Collect(t, p, FALSE)
    BY Zenon, <1>2, CollectD
  <1>3. CASE /\ Here(t, "branch", "Fork", "join") /\ JoinSet(t) = {}
             /\ DoThreads([th EXCEPT ![t] = Joined(Stk(t), f.acc)])
    <2>1. Stk(t) # <<>> /\ StackD(t, Stk(t))
      BY Zenon, <1>3, JoinHereD
    <2>2. ThreadD(t, Joined(Stk(t), f.acc))
      BY Zenon, <2>1, JoinedD
    <2>3. QED
      BY ZenonT(30), <1>3, <2>2, AllJoinedD
  <1>4. QED
    BY ZenonT(30), <1>1, <1>2, <1>3 DEF execute_nested_fork_branches

(* A task whose JoinSet is gone. *)
LEMMA AbortedD ==
  ASSUME DInv, DelaysOnSpine, NEW t, Aborted(t)
  PROVE DInv'
  <1> DEFINE all == Drop(th, {t})
             up == Below(t)
  <1>1. /\ t \in DOMAIN th /\ t # Main /\ DoThreads(all)
        /\ ~(up \in DOMAIN th /\ th[up].stk # <<>> /\ TopOf(th[up].stk).pc = "join")
    BY Zenon DEF Aborted, Stk, Top
  <1>2. delays = {}
    BY Zenon, <1>1 DEF DInv, AtRest
  <1>3. /\ IsSeq(t) /\ t # <<>> /\ Len(t) \in Nat \ {0} /\ up = SubSeq(t, 1, Len(t) - 1)
    BY ZenonT(30), <1>1, BelowSeq, WholePrefix DEF DInv, Main
  <1>4. up \in DOMAIN th => Broken(th[up])
    <2>1. Len(t) - 1 \in 0..(Len(t) - 1)
      BY <1>3
    <2>2. QED
      BY ZenonT(30), <1>1, <1>3, <2>1 DEF DInv, Family, Joins
  <1>5. ASSUME NEW q \in DOMAIN th, NEW k \in 0..(Len(q) - 1), SubSeq(q, 1, k) = t
        PROVE SubSeq(q, 1, k - 1) = up
    <2>1. IsSeq(q) /\ Len(q) \in Nat /\ k \in 0..Len(q)
      BY DEF DInv, IsSeq
    <2>2. Len(t) = k
      BY Zenon, <1>5, <2>1, PrefixSeq
    <2>3. k - 1 \in 0..k
      BY <1>3, <2>2
    <2>4. SubSeq(t, 1, k - 1) = SubSeq(q, 1, k - 1)
      BY ZenonT(30), <1>5, <2>1, <2>3, Prefixes
    <2>5. QED
      BY ZenonT(30), <1>3, <2>2, <2>4
  <1>6. DOMAIN all = DOMAIN th \ {t} /\ \A q \in DOMAIN all : all[q] = th[q]
    BY DEF Drop
  <1>7. th' = all
    BY Zenon, <1>1 DEF DoThreads
  <1> HIDE DEF all, up
  <1>8. ASSUME NEW q \in DOMAIN all, NEW k \in 0..(Len(q) - 1)
        PROVE /\ SubSeq(q, 1, k) \in DOMAIN all =>
                   Joins(all[SubSeq(q, 1, k)]) \/ Broken(all[SubSeq(q, 1, k)])
              /\ k > 0 /\ SubSeq(q, 1, k) \notin DOMAIN all /\ SubSeq(q, 1, k - 1) \in DOMAIN all =>
                   Broken(all[SubSeq(q, 1, k - 1)])
    <2>1. q \in DOMAIN th
      BY Zenon, <1>6
    <2>2. SubSeq(q, 1, k) \in DOMAIN all =>
            Joins(all[SubSeq(q, 1, k)]) \/ Broken(all[SubSeq(q, 1, k)])
      BY ZenonT(30), <1>6, <2>1 DEF DInv, Family
    <2>3. ASSUME k > 0, SubSeq(q, 1, k) \notin DOMAIN all, SubSeq(q, 1, k - 1) \in DOMAIN all
          PROVE Broken(all[SubSeq(q, 1, k - 1)])
      <3>1. CASE SubSeq(q, 1, k) = t
        BY ZenonT(30), <1>4, <1>5, <1>6, <2>1, <2>3, <3>1
      <3>2. CASE SubSeq(q, 1, k) # t
        BY ZenonT(30), <1>6, <2>1, <2>3, <3>2 DEF DInv, Family
      <3>3. QED
        BY Zenon, <3>1, <3>2
    <2>4. QED
      BY Zenon, <2>2, <2>3
  <1>9. Family'
    BY Zenon, <1>7, <1>8 DEF Family
  <1>10. \A q \in DOMAIN all : IsSeq(q) /\ ThreadD(q, all[q]) /\ (impl # "runner" => q = Main)
    BY Zenon, <1>6 DEF DInv
  <1>11. Main \in DOMAIN all /\ all[Main].stk # <<>> => mem.st = "InProgress"
    BY Zenon, <1>6 DEF DInv
  <1>12. QED
    BY ZenonT(30), <1>1, <1>2, <1>9, <1>10, <1>11, ThreadsD

(* ---- every step of a thread ------------------------------------------- *)

(* Every step of every executor. *)
LEMMA StepD ==
  ASSUME DInv, DelaysOnSpine, Step
  PROVE DInv'
  <1>0. "runner" # "cf" /\ "callback" # "cf"
    OBVIOUS
  <1>1. PICK t \in DOMAIN th : RunnerStep(t) \/ CallbackStep(t) \/ CfStep(t)
    BY Zenon DEF Step
  <1>2. CASE RunnerStep(t)
    <2>1. CASE r_task(t) \/ r_delay(t) \/ r_signal(t) \/ r_loop(t) \/ r_child(t)
      BY ZenonT(30), <2>1, TaskD, DelayD, SignalD, LoopD, ChildD
         DEF r_task, r_delay, r_signal, r_loop, r_child
    <2>2. CASE r_branch(t)
      BY ZenonT(30), <1>0, <2>2, BranchD DEF r_branch
    <2>3. CASE \/ r_fork(t) \/ execute_fork_branches_parallel(t) \/ settle_fork_outcome(t)
               \/ load_snapshot(t) \/ Aborted(t)
      BY ZenonT(30), <2>3, RunnerForkD, ParallelD, SettleD, LoadD, AbortedD
    <2>4. CASE \/ r_branch_task(t) \/ r_branch_delay(t) \/ r_branch_signal(t) \/ r_branch_loop(t)
               \/ r_branch_child(t) \/ r_branch_branch(t) \/ execute_nested_fork_branches(t)
      BY ZenonT(30), <2>4, BranchTaskD, BranchWaitsD, BranchLoopD, BranchChildD, RunnerRouteD, NestedForkD
         DEF r_branch_task, r_branch_delay, r_branch_signal, r_branch_loop, r_branch_child
    <2>5. QED
      BY ZenonT(30), <1>2, <2>1, <2>2, <2>3, <2>4 DEF RunnerStep
  <1>3. CASE CallbackStep(t)
    <2>1. CASE c_task(t) \/ c_delay(t) \/ c_signal(t) \/ c_loop(t) \/ c_child(t)
      BY ZenonT(30), <2>1, TaskD, DelayD, SignalD, LoopD, ChildD
         DEF c_task, c_delay, c_signal, c_loop, c_child
    <2>2. CASE c_branch(t)
      BY ZenonT(30), <1>0, <2>2, BranchD DEF c_branch
    <2>3. CASE \/ c_fork(t) \/ execute_fork_branches_sequential(t) \/ settle_fork_outcome(t)
               \/ load_snapshot(t)
      BY ZenonT(30), <2>3, CallbackForkD, SequentialD, SettleD, LoadD
    <2>4. CASE \/ c_branch_task(t) \/ c_branch_delay(t) \/ c_branch_signal(t) \/ c_branch_loop(t)
               \/ c_branch_child(t) \/ c_branch_branch(t) \/ execute_nested_branches(t)
      BY ZenonT(30), <2>4, BranchTaskD, BranchWaitsD, BranchLoopD, BranchChildD, CallbackRouteD, NestedD
         DEF c_branch_task, c_branch_delay, c_branch_signal, c_branch_loop, c_branch_child
    <2>5. QED
      BY ZenonT(30), <1>3, <2>1, <2>2, <2>3, <2>4 DEF CallbackStep
  <1>4. CASE CfStep(t)
    <2>1. CASE handle_branch(t)
      <3>1. "main" # "branch"
        OBVIOUS
      <3>2. QED
        BY Zenon, <2>1, <3>1, BranchD DEF handle_branch
    <2>2. CASE ~handle_branch(t)
      BY ZenonT(30), <1>4, <2>2, CfTaskD, DelayD, SignalD, CfForkD, CfLoopD, ChildD
         DEF CfStep, handle_delay, handle_await_signal, handle_child_workflow
    <2>3. QED
      BY Zenon, <2>1, <2>2
  <1>5. QED
    BY ZenonT(30), <1>1, <1>2, <1>3, <1>4

(* ---- the life of the instance ----------------------------------------- *)

(* No thread but the main one. *)
LEMMA AloneD ==
  ASSUME DInv, \A t \in DOMAIN th' : t = Main /\ ThreadD(t, th'[t]),
         impl' = impl, tree' = tree, ran' = ran, IsSnap(store'), IsSnap(mem'), AtRest',
         Main \in DOMAIN th' /\ th'[Main].stk # <<>> => mem'.st = "InProgress"
  PROVE DInv'
  <1>1. IsSeq(Main) /\ 0..(Len(Main) - 1) = {}
    BY EmptySeq DEF Main
  <1>2. Family'
    BY Zenon, <1>1 DEF Family
  <1>3. \A t \in DOMAIN th' : IsSeq(t) /\ ThreadD(t, th'[t]) /\ (impl' # "runner" => t = Main)
    BY Zenon, <1>1
  <1>4. tree' \in Spine /\ (impl' # "cf" => Arms = Quiet) /\ NotEarly'
    BY Zenon DEF DInv, NotEarly
  <1>5. QED
    BY ZenonT(30), <1>2, <1>3, <1>4 DEF DInv

(* No thread at all. *)
LEMMA NoneD ==
  ASSUME DInv, DOMAIN th' = {}, impl' = impl, tree' = tree, ran' = ran,
         IsSnap(store'), IsSnap(mem'), AtRest'
  PROVE DInv'
  <1>1. Main \notin DOMAIN th' /\ \A t \in DOMAIN th' : t = Main /\ ThreadD(t, th'[t])
    OBVIOUS
  <1>2. QED
    BY Zenon, <1>1, AloneD

(* A process starts on an open row when no delay is on. *)
LEMMA StartD ==
  ASSUME DInv, NEW v, th' = Start(v), impl' = impl, tree' = tree, ran' = ran, delays' = {},
         IsSnap(store'), Open(mem')
  PROVE DInv'
  <1> DEFINE f == Frame(tree, v, "main")
  <1>1. FrameD(Main, f)
    <2>1. "main" # "branch" /\ "main" \in {"main", "branch"} /\ tree \in Quiet \cup Spine
      BY DEF DInv
    <2>2. QED
      BY ZenonT(30), <2>1, NewD
  <1>2. DOMAIN th' = {Main} /\ th'[Main] = Running(<<f>>)
    BY DEF Start
  <1> HIDE DEF f
  <1>3. \A t \in DOMAIN th' : t = Main /\ ThreadD(t, th'[t])
    <2>1. ThreadD(Main, Running(<<f>>))
      BY Zenon, <1>1, OneD
    <2>2. QED
      BY <1>2, <2>1
  <1>4. AtRest'
    BY Zenon DEF AtRest
  <1>5. QED
    BY ZenonT(30), <1>3, <1>4, AloneD DEF Open

(* The same for a resume, which starts no thread when the input is missing. *)
LEMMA InputD ==
  ASSUME DInv, NEW s, th' = get_resume_input(s), impl' = impl, tree' = tree, ran' = ran,
         delays' = {}, IsSnap(store'), Open(mem')
  PROVE DInv'
  <1>1. CASE \E v : th' = Start(v)
    BY Zenon, <1>1, StartD
  <1>2. CASE th' = <<>>
    <2>1. DOMAIN th' = {}
      BY <1>2
    <2>2. AtRest'
      BY Zenon DEF AtRest
    <2>3. QED
      BY ZenonT(30), <2>1, <2>2, NoneD DEF Open
  <1>3. QED
    BY Zenon, <1>1, <1>2 DEF get_resume_input

(* The first run: no delay can be on yet. *)
LEMMA PrepareD ==
  ASSUME DInv, prepare_run
  PROVE DInv'
  <1> DEFINE s == update_position(with_initial_input, At("AtTask", FirstTask(tree), ""))
  <1>1. /\ store.st = "none" /\ store' = s /\ mem' = s /\ th' = Start(Input)
        /\ impl' = impl /\ tree' = tree /\ ran' = ran /\ delays' = delays
    BY Zenon DEF prepare_run, env
  <1>2. Open(with_initial_input)
    BY DEF with_initial_input, NoSnapshot, Open, IsSnap
  <1>3. Open(s)
    BY ZenonT(30), <1>2, MarksAreOpen
  <1>4. delays = {}
    BY ZenonT(30), <1>1 DEF DInv, AtRest
  <1> HIDE DEF s
  <1>5. IsSnap(store') /\ Open(mem') /\ delays' = {}
    BY ZenonT(30), <1>1, <1>3, <1>4 DEF Open
  <1>6. QED
    BY ZenonT(30), <1>1, <1>5, StartD

(* A resume of a row that is not parked: as its position is no delay, none   *)
(* is on.                                                                    *)
LEMMA ResumeD ==
  ASSUME DInv, resume_unparked
  PROVE DInv'
  <1>1. /\ store.st = "InProgress" /\ ~Parked(store) /\ store' = store /\ mem' = store
        /\ th' = get_resume_input(store) /\ impl' = impl /\ tree' = tree
        /\ ran' = ran /\ delays' = delays
    BY DEF resume_unparked, env
  <1>2. delays = {}
    BY ZenonT(30), <1>1 DEF DInv, AtRest, Parked
  <1>3. IsSnap(store') /\ Open(mem') /\ delays' = {}
    BY ZenonT(30), <1>1, <1>2 DEF DInv, Open
  <1>4. QED
    BY ZenonT(30), <1>1, <1>3, InputD

(* A resume that finds a cancel or a pause leaves the position. *)
LEMMA CheckD ==
  ASSUME DInv, check_parked_position
  PROVE DInv'
  <1> DEFINE g == check_guards(store, sigs)
  <1>1. /\ DOMAIN th' = {} /\ store.st = "InProgress" /\ g.e # "" /\ store' = g.store /\ mem' = mem
        /\ impl' = impl /\ tree' = tree /\ ran' = ran /\ delays' = delays
    BY Zenon DEF check_parked_position, env, Idle
  <1>2. IsSnap(store) /\ IsSnap(mem) /\ IsSnap(g.store)
    BY ZenonT(30), GuardsD DEF DInv
  <1>3. g.store.st = "Cancelled" \/ (g.store.st = "Paused" /\ g.store.pos = store.pos)
    <2>1. g.store = mark_cancelled(store) \/ g.store = mark_paused(store)
      BY Zenon, <1>1 DEF check_guards
    <2>2. mark_cancelled(store).st = "Cancelled"
      BY <1>2 DEF IsSnap, mark_cancelled
    <2>3. mark_paused(store).st = "Paused" /\ mark_paused(store).pos = store.pos
      BY <1>2 DEF IsSnap, mark_paused
    <2> HIDE DEF g
    <2>4. QED
      BY <2>1, <2>2, <2>3
  <1> HIDE DEF g
  <1>4. AtRest'
    BY ZenonT(30), <1>1, <1>3 DEF DInv, AtRest
  <1>5. QED
    BY ZenonT(30), <1>1, <1>2, <1>4, NoneD

(* A resume whose park is over: the delay of the position has elapsed, or    *)
(* the position is no delay; either way none is on.                          *)
LEMMA ResolveD ==
  ASSUME DInv, resolve
  PROVE DInv'
  <1>1. /\ store.st = "InProgress" /\ store' = store /\ impl' = impl /\ tree' = tree
        /\ ran' = ran /\ delays' = delays
        /\ AtSignalNode(store) \/ Expired(store)
        /\ \E s, v : /\ mem' = Unparked(s, v) /\ th' = Resolving(v)
                     /\ s = store \/ \E w : s = mark_task_completed(store, store.pos.id, w)
    BY Zenon DEF resolve, env
  <1>2. PICK s, v : /\ mem' = Unparked(s, v) /\ th' = Resolving(v)
                    /\ s = store \/ \E w : s = mark_task_completed(store, store.pos.id, w)
    BY Zenon, <1>1
  <1>3. IsSnap(mem')
    <2>1. \A w : IsSnap(mark_task_completed(store, store.pos.id, w))
      BY ZenonT(30), MarkIsSnap DEF DInv
    <2>2. IsSnap(s)
      BY ZenonT(30), <1>2, <2>1 DEF DInv
    <2>3. QED
      BY ZenonT(30), <1>2, <2>2, UnparkedIsSnap
  <1>4. delays = {}
    <2>1. SUFFICES ASSUME delays # {} PROVE FALSE
      OBVIOUS
    <2>2. store.pos.kind = "AtDelay" /\ delays \subseteq {store.pos.id}
      BY ZenonT(30), <1>1, <2>1 DEF DInv, AtRest
    <2>3. store.pos.id \notin delays
      BY <1>1, <2>2 DEF AtSignalNode, Expired
    <2>4. QED
      BY <2>1, <2>2, <2>3
  <1>5. AtRest'
    BY ZenonT(30), <1>1, <1>4 DEF AtRest
  <1>6. DOMAIN th' = {Main} /\ th'[Main] = [stk |-> <<>>, res |-> "resolve", val |-> v]
    BY <1>2 DEF Resolving
  <1>7. ThreadD(Main, th'[Main]) /\ th'[Main].stk = <<>>
    BY <1>6, EndedD
  <1>8. (\A t \in DOMAIN th' : t = Main /\ ThreadD(t, th'[t])) /\ IsSnap(store')
    BY ZenonT(30), <1>1, <1>6, <1>7 DEF DInv
  <1>9. QED
    BY ZenonT(30), <1>1, <1>3, <1>5, <1>7, <1>8, AloneD

(* The row moves past the park, or ends with it. *)
LEMMA SaveResolvedD ==
  ASSUME DInv, save_resolved
  PROVE DInv'
  <1>1. /\ Main \in DOMAIN th /\ th[Main].res = "resolve" /\ store' = mem /\ mem' = mem
        /\ th' = IF mem.st = "InProgress" THEN get_resume_input(mem) ELSE <<>>
        /\ impl' = impl /\ tree' = tree /\ ran' = ran /\ delays' = delays
    BY DEF save_resolved, env
  <1>2. delays' = {} /\ IsSnap(store') /\ IsSnap(mem')
    BY ZenonT(30), <1>1 DEF DInv, AtRest
  <1>3. CASE mem.st = "InProgress"
    <2>1. Open(mem') /\ th' = get_resume_input(mem)
      BY <1>1, <1>2, <1>3 DEF Open
    <2>2. QED
      BY ZenonT(30), <1>1, <1>2, <2>1, InputD
  <1>4. CASE mem.st # "InProgress"
    <2>1. DOMAIN th' = {}
      BY <1>1, <1>4
    <2>2. AtRest'
      BY Zenon, <1>2 DEF AtRest
    <2>3. QED
      BY ZenonT(30), <1>1, <1>2, <2>1, <2>2, NoneD
  <1>5. QED
    BY <1>3, <1>4

(* The main thread is gone; those of an aborted fork may be left. *)
LEMMA FamilyLeft ==
  ASSUME DInv, th' = Drop(th, {Main})
  PROVE Family'
  <1>1. /\ DOMAIN th' \subseteq DOMAIN th /\ Main \notin DOMAIN th'
        /\ \A q \in DOMAIN th' : th'[q] = th[q]
        /\ \A q \in DOMAIN th : q # Main => q \in DOMAIN th'
    BY DEF Drop
  <1>2. ASSUME NEW q \in DOMAIN th', NEW k \in 0..(Len(q) - 1)
        PROVE /\ SubSeq(q, 1, k) \in DOMAIN th' =>
                   Joins(th'[SubSeq(q, 1, k)]) \/ Broken(th'[SubSeq(q, 1, k)])
              /\ k > 0 /\ SubSeq(q, 1, k) \notin DOMAIN th' /\ SubSeq(q, 1, k - 1) \in DOMAIN th' =>
                   Broken(th'[SubSeq(q, 1, k - 1)])
    <2>1. q \in DOMAIN th /\ IsSeq(q)
      BY Zenon, <1>1 DEF DInv
    <2>2. k > 0 => SubSeq(q, 1, k) # Main
      <3>1. Len(q) \in Nat /\ k \in 0..Len(q)
        BY <2>1 DEF IsSeq
      <3>2. Len(SubSeq(q, 1, k)) = k
        BY ZenonT(30), <2>1, <3>1, PrefixSeq
      <3>3. QED
        BY <3>2 DEF Main
    <2>3. QED
      BY ZenonT(30), <1>1, <2>1, <2>2 DEF DInv, Family
  <1>3. QED
    BY Zenon, <1>2 DEF Family

(* The end of the main thread.  If a delay is on it ended Waiting, and the   *)
(* row stays.                                                                *)
LEMMA FinalizeD ==
  ASSUME DInv, finalize_execution
  PROVE DInv'
  <1> DEFINE r == th[Main]
             m == CASE r.res = "ok" -> mark_completed(mem, r.val)
                    [] r.res = "Error" -> mark_failed(mem)
                    [] OTHER -> mem
  <1>1. /\ Main \in DOMAIN th /\ mem' = m /\ th' = Drop(th, {Main})
        /\ store' = IF r.res \in {"ok", "Error"} THEN m ELSE store
        /\ impl' = impl /\ tree' = tree /\ ran' = ran /\ delays' = delays
    BY DEF finalize_execution, env
  <1>2. IsSnap(mem) /\ IsSnap(store)
    BY Zenon DEF DInv
  <1>3. IsSnap(m)
    <2>1. IsSnap(mark_completed(mem, r.val)) /\ IsSnap(mark_failed(mem))
      BY ZenonT(30), <1>2, EndsAreSnap
    <2>2. QED
      BY <1>2, <2>1
  <1> HIDE DEF m
  <1>4. IsSnap(store') /\ IsSnap(mem')
    BY <1>1, <1>2, <1>3
  <1>5. /\ Main \notin DOMAIN th' /\ DOMAIN th' \subseteq DOMAIN th
        /\ \A p \in DOMAIN th' : th'[p] = th[p]
    BY <1>1 DEF Drop
  <1>6. \A t \in DOMAIN th' : IsSeq(t) /\ ThreadD(t, th'[t]) /\ (impl' # "runner" => t = Main)
    BY ZenonT(30), <1>1, <1>5 DEF DInv
  <1>7. Family'
    BY Zenon, <1>1, FamilyLeft
  <1>8. AtRest'
    <2>1. CASE delays = {}
      BY ZenonT(30), <1>1, <2>1 DEF AtRest
    <2>2. CASE delays # {}
      <3>1. r.res = "Waiting" /\ \A t \in DOMAIN th : t = Main
        BY ZenonT(30), <1>1, <2>2 DEF DInv, AtRest
      <3>2. store' = store /\ DOMAIN th' = {}
        BY ZenonT(30), <1>1, <1>5, <3>1
      <3>3. QED
        BY ZenonT(30), <1>1, <2>2, <3>2 DEF DInv, AtRest
    <2>3. QED
      BY Zenon, <2>1, <2>2
  <1>9. tree' \in Spine /\ (impl' # "cf" => Arms = Quiet) /\ NotEarly'
    BY Zenon, <1>1 DEF DInv, NotEarly
  <1>10. QED
    BY ZenonT(30), <1>4, <1>5, <1>6, <1>7, <1>8, <1>9 DEF DInv

(* What the world does. *)
LEMMA WorldD ==
  ASSUME DInv, Client \/ Crash \/ Clock \/ UNCHANGED vars
  PROVE DInv'
  <1>1. ASSUME store' = store, mem' = mem, th' = th, impl' = impl, tree' = tree, ran' = ran,
               delays' \subseteq delays
        PROVE DInv'
    <2>1. AtRest'
      BY ZenonT(30), <1>1 DEF DInv, AtRest
    <2>2. Family' /\ NotEarly'
      BY ZenonT(30), <1>1 DEF DInv, Family, NotEarly
    <2>3. QED
      BY ZenonT(30), <1>1, <2>1, <2>2 DEF DInv
  <1>2. CASE unpause
    <2>1. /\ store.st = "Paused" /\ store' = mark_unpaused(store) /\ delays' = delays
          /\ mem' = mem /\ th' = th /\ impl' = impl /\ tree' = tree /\ ran' = ran
      BY <1>2 DEF unpause, env
    <2>2. IsSnap(store') /\ store'.st = "InProgress" /\ store'.pos = store.pos
      BY ZenonT(30), <2>1 DEF DInv, IsSnap, mark_unpaused
    <2>3. AtRest'
      BY ZenonT(30), <2>1, <2>2 DEF DInv, AtRest
    <2>4. Family' /\ NotEarly'
      BY ZenonT(30), <2>1 DEF DInv, Family, NotEarly
    <2>5. QED
      BY ZenonT(30), <2>1, <2>2, <2>3, <2>4 DEF DInv
  <1>3. CASE Crash
    <2>1. /\ DOMAIN th' = {} /\ store' = store /\ mem' = NoSnapshot /\ impl' = impl /\ tree' = tree
          /\ ran' = ran /\ delays' = delays
      BY <1>3 DEF Crash, env
    <2>2. IsSnap(store') /\ IsSnap(mem')
      BY ZenonT(30), <2>1 DEF DInv, IsSnap, NoSnapshot
    <2>3. AtRest'
      BY ZenonT(30), <2>1 DEF DInv, AtRest
    <2>4. QED
      BY ZenonT(30), <2>1, <2>2, <2>3, NoneD
  <1>4. CASE \E k \in {"Cancel", "Pause"} : store_signal(k)
    BY Zenon, <1>1, <1>4 DEF store_signal, env
  <1>5. CASE send_event
    BY Zenon, <1>1, <1>5 DEF send_event, env
  <1>6. CASE Clock
    BY Zenon, <1>1, <1>6 DEF Clock, Elapse, env
  <1>7. CASE UNCHANGED vars
    BY ZenonT(30), <1>1, <1>7 DEF vars
  <1>8. QED
    BY ZenonT(30), <1>2, <1>3, <1>4, <1>5, <1>6, <1>7 DEF Client

(* ---- the theorem ------------------------------------------------------ *)

(* The invariant holds before the workflow is submitted. *)
LEMMA InitD ==
  ASSUME DelaysOnSpine, Init
  PROVE DInv
  <1>1. store = NoSnapshot /\ mem = NoSnapshot /\ th = <<>> /\ delays = {} /\ ran = {}
    BY DEF Init
  <1>2. IsSnap(store) /\ IsSnap(mem)
    BY Zenon, <1>1 DEF IsSnap, NoSnapshot
  <1>3. tree \in Spine /\ (impl # "cf" => Arms = Quiet)
    BY Zenon DEF Init, DelaysOnSpine, Arms
  <1>4. DOMAIN th = {}
    BY <1>1
  <1>5. Family /\ AtRest /\ NotEarly
    BY Zenon, <1>1, <1>4 DEF Family, AtRest, NotEarly
  <1>6. QED
    BY ZenonT(30), <1>2, <1>3, <1>4, <1>5 DEF DInv

(* Every step keeps the invariant. *)
LEMMA NextD ==
  ASSUME DInv, DelaysOnSpine, [Next]_vars
  PROVE DInv'
  <1>1. CASE Step
    BY Zenon, <1>1, StepD
  <1>2. CASE Lifecycle
    BY ZenonT(30), <1>2, PrepareD, ResumeD, CheckD, ResolveD, SaveResolvedD, FinalizeD DEF Lifecycle
  <1>3. CASE Client \/ Crash \/ Clock \/ UNCHANGED vars
    BY Zenon, <1>3, WorldD
  <1>4. QED
    BY ZenonT(30), <1>1, <1>2, <1>3 DEF Next

(* No task that comes after a delay runs before the delay has elapsed, for   *)
(* every definition whose delays stand on the spine (DelaysOnSpine): neither *)
(* a crash between park and finalize, nor a pause, cancel, event or early    *)
(* resume (prepare_resume, ResumeParkedPosition::resolve) gets an engine     *)
(* past a delay that is on (delay_step).                                     *)
THEOREM DelaysWaited ==
  ASSUME DelaysOnSpine
  PROVE Spec => []NotEarly
  <1>1. Init => DInv
    BY InitD
  <1>2. DInv /\ [Next]_vars => DInv'
    BY NextD
  <1>3. DInv => NotEarly
    BY Zenon DEF DInv
  <1>4. QED
    BY <1>1, <1>2, <1>3, PTL DEF Spec

=============================================================================
