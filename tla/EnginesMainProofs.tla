-------------------------- MODULE EnginesMainProofs --------------------------
(***************************************************************************)
(* The first half of the proof that a finished workflow stays as it is:    *)
(* the inductive invariant, and that every step of the main thread of the  *)
(* three engines of module Engines keeps it.  The threads of fork branches *)
(* and the theorem are in EnginesProofs.                                   *)
(*                                                                         *)
(* The store is overwritten with a snapshot that a process holds in        *)
(* memory, at a dozen places and without a look at the stored row.  What   *)
(* makes that right is an agreement between the process and the row:       *)
(* while the main thread may still save, the row is InProgress, and so is  *)
(* every snapshot the thread may save (LiveInv, StackOK).  A thread of a   *)
(* fork branch outlives the main one, so it must not hold a snapshot at    *)
(* all: PlainBranches asks that of the definition.                         *)
(***************************************************************************)
EXTENDS EnginesBaseProofs

CONSTANTS
    Inside,  \* nodes that may stand in the branch of a fork
    Outside  \* nodes that may stand elsewhere

(* The runner's definitions have tasks, delays, signals and forks in the    *)
(* branches of a fork, and no loop, child workflow or routed arm.  (The     *)
(* two sets are closed: what follows a node, or hangs below it, is in one.) *)
PlainBranches ==
  /\ \A n \in Inside :
       /\ n.kind \in {"Task", "Delay", "AwaitSignal", "Fork"}
       /\ n.next # <<>> => n.next[1] \in Inside
       /\ \A i \in DOMAIN n.subs : n.subs[i] \in Inside
  /\ \A n \in Outside :
       /\ n.next # <<>> => n.next[1] \in Outside
       /\ n.kind = "Fork" => \A i \in DOMAIN n.subs : n.subs[i] \in Inside
       /\ n.kind = "Branch" /\ resolve_branch(n) # <<>> => resolve_branch(n)[1] \in Outside
       /\ n.kind \in {"Loop", "ChildWorkflow"} => n.subs[1] \in Outside
  /\ \A c \in Cases : c.impl = "runner" => c.tree \in Outside

(* ---- the inductive invariant ------------------------------------------ *)

(* Under engine e, node n may be run by thread t. *)
NodeOK(e, t, n) == e = "runner" => n \in IF t = Main THEN Outside ELSE Inside

(* A frame of thread t; a branch frame of the main thread has an open       *)
(* snapshot once it is loaded.                                              *)
Fresh(e, t, f) ==
  /\ IsFrame(f) /\ NodeOK(e, t, f.at)
  /\ f.mode \in {"main", "branch"}
  /\ t # Main => f.mode = "branch"
  /\ t = Main /\ f.mode = "branch" /\ f.pc # "load" => Open(f.snap)
Settled(e, t, f) == Fresh(e, t, f) /\ (t = Main /\ f.mode = "branch" => Open(f.snap))

(* Only the frame on top may still have to load its snapshot. *)
StackOK(e, t, s) ==
  /\ IsSeq(s)
  /\ \A k \in 1..Len(s) : Fresh(e, t, s[k]) /\ (k < Len(s) => Settled(e, t, s[k]))

ThreadsOK ==
  \A t \in DOMAIN th :
    /\ IsSeq(t) /\ StackOK(impl, t, th[t].stk)
    /\ impl # "runner" => t = Main

(* A thread that may still save a snapshot: it runs, or its result is yet    *)
(* to be finalized.                                                          *)
Busy(r) == r.stk # <<>> \/ r.res \in {"run", "ok", "Error"}
LiveInv ==
  Main \in DOMAIN th =>
    /\ Busy(th[Main]) => store.st = "InProgress" /\ mem.st = "InProgress"
    /\ th[Main].res = "resolve" => store.st = "InProgress"

Inv == IsSnap(store) /\ IsSnap(mem) /\ NodeOK(impl, Main, tree) /\ ThreadsOK /\ LiveInv

(* ---- stacks ----------------------------------------------------------- *)

(* The frame on top. *)
LEMMA StackTop ==
  ASSUME NEW e, NEW t, NEW s, StackOK(e, t, s), s # <<>>
  PROVE Fresh(e, t, TopOf(s))
  <1>1. IsSeq(s) /\ Len(s) \in Nat /\ Len(s) > 0
    BY OtherSeq DEF StackOK, IsSeq
  <1>2. Len(s) \in 1..Len(s)
    BY <1>1
  <1>3. QED
    BY <1>2 DEF StackOK, TopOf

(* A frame past its load has its snapshot. *)
LEMMA LoadedIsSettled ==
  ASSUME NEW e, NEW t, NEW f, Fresh(e, t, f), f.pc # "load"
  PROVE Settled(e, t, f)
  BY DEF Fresh, Settled

(* The stack below the top: every frame has its snapshot. *)
LEMMA StackBelow ==
  ASSUME NEW e, NEW t, NEW s, StackOK(e, t, s), s # <<>>
  PROVE /\ StackOK(e, t, Below(s))
        /\ \A k \in 1..Len(Below(s)) : Settled(e, t, Below(s)[k])
  <1>1. /\ IsSeq(Below(s)) /\ Len(Below(s)) = Len(s) - 1 /\ Len(s) \in Nat \ {0}
        /\ \A k \in 1..(Len(s) - 1) : Below(s)[k] = s[k]
    BY BelowSeq DEF StackOK
  <1>2. ASSUME NEW k \in 1..Len(Below(s))
        PROVE Settled(e, t, Below(s)[k])
    <2>1. k \in 1..Len(s) /\ k < Len(s) /\ Below(s)[k] = s[k]
      BY <1>1
    <2>2. QED
      BY <2>1 DEF StackOK
  <1>3. \A k \in 1..Len(Below(s)) : Fresh(e, t, Below(s)[k])
    BY <1>2 DEF Settled
  <1>4. QED
    BY Zenon, <1>1, <1>2, <1>3 DEF StackOK

(* A frame on top of settled ones. *)
LEMMA StackPush ==
  ASSUME NEW e, NEW t, NEW s, IsSeq(s), \A k \in 1..Len(s) : Settled(e, t, s[k]),
         NEW f, Fresh(e, t, f)
  PROVE /\ StackOK(e, t, Append(s, f)) /\ Append(s, f) # <<>>
        /\ TopOf(Append(s, f)) = f
  <1> DEFINE r == Append(s, f)
  <1>1. /\ IsSeq(r) /\ r # <<>> /\ Len(r) = Len(s) + 1 /\ r[Len(s) + 1] = f
        /\ \A k \in 1..Len(s) : r[k] = s[k]
        /\ TopOf(r) = f
    BY AppendSeq
  <1>2. Len(s) \in Nat
    BY DEF IsSeq
  <1> HIDE DEF r
  <1>3. ASSUME NEW k \in 1..Len(r)
        PROVE Fresh(e, t, r[k]) /\ (k < Len(r) => Settled(e, t, r[k]))
    <2>1. CASE k = Len(s) + 1
      BY <2>1, <1>1, <1>2
    <2>2. CASE k # Len(s) + 1
      <3>1. k \in 1..Len(s)
        BY <2>2, <1>1, <1>2
      <3>2. QED
        BY Zenon, <3>1, <1>1 DEF Settled
    <2>3. QED
      BY <2>1, <2>2
  <1>4. StackOK(e, t, r)
    BY <1>1, <1>3 DEF StackOK
  <1>5. QED
    BY <1>1, <1>4 DEF r

(* ReplaceTop changes the frame on top alone. *)
LEMMA StackReplace ==
  ASSUME NEW e, NEW t, NEW s, StackOK(e, t, s), s # <<>>, NEW f, Fresh(e, t, f)
  PROVE /\ StackOK(e, t, ReplaceTop(s, f)) /\ ReplaceTop(s, f) # <<>>
        /\ TopOf(ReplaceTop(s, f)) = f
        /\ Settled(e, t, f) => \A k \in 1..Len(ReplaceTop(s, f)) : Settled(e, t, ReplaceTop(s, f)[k])
  <1>1. IsSeq(Below(s)) /\ \A k \in 1..Len(Below(s)) : Settled(e, t, Below(s)[k])
    BY Zenon, StackBelow DEF StackOK
  <1>2. /\ StackOK(e, t, Append(Below(s), f)) /\ Append(Below(s), f) # <<>>
        /\ TopOf(Append(Below(s), f)) = f
    BY <1>1, StackPush
  <1>3. ASSUME Settled(e, t, f), NEW k \in 1..Len(Append(Below(s), f))
        PROVE Settled(e, t, Append(Below(s), f)[k])
    <2>1. /\ Len(Append(Below(s), f)) = Len(Below(s)) + 1
          /\ Append(Below(s), f)[Len(Below(s)) + 1] = f
          /\ \A j \in 1..Len(Below(s)) : Append(Below(s), f)[j] = Below(s)[j]
      BY <1>1, AppendSeq
    <2>2. Len(Below(s)) \in Nat
      BY <1>1 DEF IsSeq
    <2>3. CASE k = Len(Below(s)) + 1
      BY <2>3, <2>1, <1>3
    <2>4. CASE k # Len(Below(s)) + 1
      <3>1. k \in 1..Len(Below(s))
        BY <2>4, <2>1, <2>2
      <3>2. QED
        BY <3>1, <2>1, <1>1
    <2>5. QED
      BY <2>3, <2>4
  <1>4. QED
    BY Zenon, <1>2, <1>3 DEF ReplaceTop

(* The empty stack. *)
LEMMA StackEmpty ==
  ASSUME NEW e, NEW t
  PROVE StackOK(e, t, <<>>)
  <1>1. \A k \in 1..Len(<<>>) : FALSE
    OBVIOUS
  <1>2. QED
    BY <1>1, EmptySeq DEF StackOK

(* Running, Return, Advance, Throw and Call keep the stack in order. *)
LEMMA ReturnOK ==
  ASSUME NEW e, NEW t, NEW s, StackOK(e, t, s),
         \A k \in 1..Len(s) : Settled(e, t, s[k]), NEW v
  PROVE StackOK(e, t, Return(s, v).stk)
  <1>1. CASE s = <<>>
    BY <1>1, StackEmpty DEF Return
  <1>2. CASE s # <<>>
    <2> DEFINE g == [TopOf(s) EXCEPT !.pc = "back", !.ret = v]
    <2>1. Len(s) \in 1..Len(s)
      BY <1>2, OtherSeq DEF StackOK, IsSeq
    <2>2. Settled(e, t, TopOf(s))
      BY <2>1 DEF TopOf
    <2>3. IsFrame(g) /\ g.at = TopOf(s).at /\ g.mode = TopOf(s).mode /\ g.snap = TopOf(s).snap
      BY <2>2 DEF Settled, Fresh, IsFrame
    <2> HIDE DEF g
    <2>4. Fresh(e, t, g)
      BY Zenon, <2>2, <2>3 DEF Settled, Fresh
    <2>5. StackOK(e, t, ReplaceTop(s, g))
      BY <1>2, <2>4, StackReplace
    <2>6. QED
      BY <1>2, <2>5 DEF Return, Running, g
  <1>3. QED
    BY <1>1, <1>2

(* Running is a thread on the given stack. *)
LEMMA RunningStack == \A s : Running(s).stk = s
  BY DEF Running

(* Past a node: its successor is pushed, or the value is returned. *)
LEMMA AdvanceOK ==
  ASSUME PlainBranches, NEW e, NEW t, NEW s, StackOK(e, t, s), s # <<>>,
         TopOf(s).pc # "load", NEW v
  PROVE StackOK(e, t, Advance(s, v).stk)
  <1> DEFINE f == TopOf(s)
             g == [f EXCEPT !.at = f.at.next[1], !.val = v, !.pc = "enter",
                            !.i = 0, !.acc = <<>>, !.wait = FALSE]
  <1>1. Fresh(e, t, f)
    BY StackTop
  <1>2. Settled(e, t, f)
    BY Zenon, <1>1, LoadedIsSettled
  <1>3. CASE f.at.next = <<>>
    <2>1. StackOK(e, t, Return(Below(s), v).stk)
      BY Zenon, StackBelow, ReturnOK
    <2>2. QED
      BY <1>3, <2>1 DEF Advance
  <1>4. CASE f.at.next # <<>>
    <2>1. IsFrame(g) /\ g.at = f.at.next[1] /\ g.mode = f.mode /\ g.snap = f.snap
      BY <1>1 DEF Fresh, IsFrame
    <2>2. NodeOK(e, t, f.at.next[1])
      BY Zenon, <1>1, <1>4 DEF Fresh, NodeOK, PlainBranches
    <2> HIDE DEF g
    <2>3. Fresh(e, t, g)
      BY Zenon, <1>2, <2>1, <2>2 DEF Settled, Fresh
    <2>4. StackOK(e, t, ReplaceTop(s, g))
      BY <2>3, StackReplace
    <2>5. QED
      BY <1>4, <2>4 DEF Advance, Running, g
  <1>5. QED
    BY <1>3, <1>4

(* An error unwinds the stack to the fork that catches it, if any. *)
LEMMA ThrowOK ==
  ASSUME NEW e, NEW t, NEW s, StackOK(e, t, s), NEW err
  PROVE StackOK(e, t, Throw(s, err).stk)
  <1> DEFINE catch == Catchers(s)
  <1>1. CASE err = "Waiting" /\ catch # {}
    <2> DEFINE c == CHOOSE x \in catch : TRUE
               g == [s[c] EXCEPT !.pc = "fork", !.wait = TRUE, !.i = @ + 1]
    <2>1. Len(s) \in Nat /\ DOMAIN s = 1..Len(s)
      BY DEF StackOK, IsSeq
    <2>2. c \in catch
      BY Zenon, <1>1
    <2> HIDE DEF c
    <2>3. c \in 1..Len(s) /\ s[c].pc = "seq"
      BY <2>1, <2>2 DEF Catchers
    <2>4. Settled(e, t, s[c]) /\ Fresh(e, t, s[c])
      BY Zenon, <2>3, LoadedIsSettled DEF StackOK
    <2>5. IsFrame(g) /\ g.at = s[c].at /\ g.mode = s[c].mode /\ g.snap = s[c].snap
      BY <2>4 DEF Fresh, IsFrame
    <2> HIDE DEF g
    <2>6. Fresh(e, t, g)
      BY Zenon, <2>4, <2>5 DEF Settled, Fresh
    <2> DEFINE b == SubSeq(s, 1, c - 1)
    <2>7. /\ IsSeq(b) /\ Len(b) = c - 1
          /\ \A k \in 1..(c - 1) : b[k] = s[k]
      <3> DEFINE n == c - 1
      <3>1. n \in 0..Len(s)
        BY <2>1, <2>3
      <3> HIDE DEF n
      <3>2. /\ IsSeq(SubSeq(s, 1, n)) /\ Len(SubSeq(s, 1, n)) = n
            /\ \A k \in 1..n : SubSeq(s, 1, n)[k] = s[k]
        BY <3>1, PrefixSeq DEF StackOK
      <3>3. QED
        BY Zenon, <3>2 DEF n
    <2> HIDE DEF b
    <2>8. ASSUME NEW k \in 1..Len(b)
          PROVE Settled(e, t, b[k])
      <3>1. k \in 1..Len(s) /\ k < Len(s) /\ b[k] = s[k]
        BY <2>1, <2>3, <2>7
      <3>2. QED
        BY <3>1 DEF StackOK
    <2>9. StackOK(e, t, Append(b, g))
      BY Zenon, <2>6, <2>7, <2>8, StackPush
    <2>10. Throw(s, err).stk = Append(b, g)
      BY Zenon, <1>1 DEF Throw, Running, b, g, c
    <2>11. QED
      BY Zenon, <1>1, <2>9, <2>10
  <1>2. CASE ~(err = "Waiting" /\ catch # {})
    <2>1. Throw(s, err) = [stk |-> <<>>, res |-> err, val |-> Empty]
      BY <1>2 DEF Throw
    <2>2. QED
      BY <2>1, StackEmpty
  <1>3. QED
    BY <1>1, <1>2

(* A frame for a node below, on top of the frame that waits for it. *)
LEMMA CallOK ==
  ASSUME NEW e, NEW t, NEW s, StackOK(e, t, s), s # <<>>, NEW f, Settled(e, t, f),
         NEW n, NodeOK(e, t, n), NEW v, NEW mode \in {"main", "branch"},
         t # Main => mode = "branch"
  PROVE StackOK(e, t, Append(ReplaceTop(s, f), Frame(n, v, mode)))
  <1> DEFINE g == Frame(n, v, mode)
  <1>1. Fresh(e, t, f)
    BY DEF Settled
  <1>2. IsSeq(ReplaceTop(s, f)) /\ \A k \in 1..Len(ReplaceTop(s, f)) : Settled(e, t, ReplaceTop(s, f)[k])
    BY Zenon, <1>1, StackReplace DEF StackOK
  <1>3. /\ IsFrame(g) /\ g.at = n /\ g.mode = mode
        /\ mode = "branch" => g.pc = "load"
    BY Zenon DEF Frame, IsFrame
  <1> HIDE DEF g
  <1>4. Fresh(e, t, g)
    BY <1>3 DEF Fresh
  <1>5. QED
    BY Zenon, <1>2, <1>4, StackPush DEF g

(* The guards leave an open row as it is, or end the run with its stop. *)
LEMMA GuardsStop ==
  ASSUME NEW s, Open(s), NEW sg
  PROVE /\ check_guards(s, sg).e = "" => check_guards(s, sg).store = s
        /\ check_guards(s, sg).e # "" => check_guards(s, sg).e \in {"Cancelled", "Paused"}
        /\ IsSnap(check_guards(s, sg).store)
  <1>1. IsSnap(mark_paused(s)) /\ IsSnap(mark_cancelled(s)) /\ IsSnap(s)
    BY EndsAreSnap DEF Open
  <1>2. QED
    BY Zenon, <1>1 DEF check_guards

(* ---- moves of a thread ------------------------------------------------ *)

(* The thread has been stopped: it saves nothing more. *)
Stopped(r) == r.stk = <<>> /\ r.res \in {"Cancelled", "Paused"}

(* No fork catches a cancel or a pause. *)
LEMMA ThrowStops ==
  ASSUME NEW s, NEW err \in {"Cancelled", "Paused"}
  PROVE Stopped(Throw(s, err))
  <1>1. Throw(s, err) = [stk |-> <<>>, res |-> err, val |-> Empty]
    BY Zenon DEF Throw
  <1>2. QED
    BY <1>1 DEF Stopped

(* A running main thread: the row and the process's snapshot are open. *)
LEMMA MainIsOpen ==
  ASSUME Inv, Main \in DOMAIN th, th[Main].stk # <<>>
  PROVE Open(store) /\ Open(mem)
  BY DEF Inv, LiveInv, Busy, Open

(* A thread that moves to a good stack leaves all threads in order. *)
LEMMA ThreadMoves ==
  ASSUME Inv, NEW t \in DOMAIN th, NEW r, Moves(t, r), StackOK(impl, t, r.stk)
  PROVE ThreadsOK' /\ NodeOK(impl, Main, tree)' /\ DOMAIN th' = DOMAIN th
  <1>1. DOMAIN th' = DOMAIN th
    BY DEF Moves
  <1>2. ASSUME NEW u \in DOMAIN th
        PROVE /\ IsSeq(u) /\ StackOK(impl, u, th'[u].stk)
              /\ impl # "runner" => u = Main
    <2>1. CASE u = t
      BY Zenon, <2>1 DEF Moves, Inv, ThreadsOK
    <2>2. CASE u # t
      BY Zenon, <2>2 DEF Moves, Inv, ThreadsOK
    <2>3. QED
      BY Zenon, <2>1, <2>2
  <1>3. ThreadsOK'
    BY Zenon, <1>1, <1>2 DEF ThreadsOK, Moves
  <1>4. QED
    BY <1>1, <1>3 DEF Moves, Inv, NodeOK

(* What every step has to do: keep the invariant, and a finished row. *)
Steady == Inv' /\ (Finished => store' = store)

(* The main thread saves an open snapshot. *)
LEMMA OpenMove ==
  ASSUME Inv, Main \in DOMAIN th, NEW r, Moves(Main, r), StackOK(impl, Main, r.stk),
         Open(store), Open(store'), Open(mem')
  PROVE Steady
  <1>1. ThreadsOK' /\ NodeOK(impl, Main, tree)' /\ DOMAIN th' = DOMAIN th
    BY Zenon, ThreadMoves
  <1>2. QED
    BY Zenon, <1>1 DEF Inv, LiveInv, Open, Steady, Finished

(* The main thread is stopped. *)
LEMMA StopMove ==
  ASSUME Inv, Main \in DOMAIN th, NEW r, Moves(Main, r), Stopped(r),
         Open(store), IsSnap(store'), IsSnap(mem')
  PROVE Steady
  <1>1. StackOK(impl, Main, r.stk)
    BY Zenon, StackEmpty DEF Stopped
  <1>2. ThreadsOK' /\ NodeOK(impl, Main, tree)' /\ DOMAIN th' = DOMAIN th
    BY Zenon, <1>1, ThreadMoves
  <1>3. th'[Main] = r
    BY Zenon DEF Moves
  <1>4. LiveInv'
    BY <1>3 DEF LiveInv, Stopped, Busy
  <1>5. QED
    BY Zenon, <1>2, <1>4 DEF Inv, Open, Steady, Finished

(* Any thread adds a result to the row, or nothing. *)
LEMMA PlainMove ==
  ASSUME Inv, NEW t \in DOMAIN th, th[t].stk # <<>>, NEW r, Moves(t, r),
         StackOK(impl, t, r.stk), IsSnap(store'), store'.st = store.st, mem' = mem,
         store.st # "InProgress" => store' = store
  PROVE Steady
  <1>1. ThreadsOK' /\ NodeOK(impl, Main, tree)' /\ DOMAIN th' = DOMAIN th
    BY Zenon, ThreadMoves
  <1>2. CASE t = Main
    <2>1. Open(store) /\ Open(mem)
      BY Zenon, <1>2, MainIsOpen
    <2>2. QED
      BY Zenon, <1>2, <2>1, OpenMove DEF Open
  <1>3. CASE t # Main
    <2>1. Main \in DOMAIN th => th'[Main] = th[Main]
      BY <1>3 DEF Moves
    <2>2. LiveInv'
      BY Zenon, <1>1, <2>1 DEF Inv, LiveInv, Busy
    <2>3. QED
      BY Zenon, <1>1, <2>2 DEF Inv, Steady, Finished
  <1>4. QED
    BY <1>2, <1>3

(* ---- the main executors ----------------------------------------------- *)

(* A guarded step passes, or the guard stops the thread. *)
LEMMA GuardedKeeps ==
  ASSUME Inv, Main \in DOMAIN th, Stk(Main) # <<>>,
         NEW r, StackOK(impl, Main, r.stk), NEW m, Open(m), NEW s, Open(s),
         Guarded(Main, r, m, s)
  PROVE Steady
  <1> DEFINE g == check_guards(store, sigs)
  <1>1. Open(store) /\ Open(mem)
    BY MainIsOpen DEF Stk
  <1>2. /\ g.e # "" => g.e \in {"Cancelled", "Paused"}
        /\ IsSnap(g.store)
    BY Zenon, <1>1, GuardsStop
  <1>3. IF g.e = "" THEN Do(Main, r, m, s, sigs)
        ELSE Do(Main, Throw(Stk(Main), g.e), mem, g.store, g.sigs)
    BY Zenon DEF Guarded
  <1> HIDE DEF g
  <1>4. CASE g.e = ""
    <2>1. Moves(Main, r) /\ mem' = m /\ store' = s
      BY Zenon, <1>3, <1>4, DoIs
    <2>2. QED
      BY <1>1, <2>1, OpenMove
  <1>5. CASE g.e # ""
    <2>1. Moves(Main, Throw(Stk(Main), g.e)) /\ mem' = mem /\ store' = g.store
      BY Zenon, <1>3, <1>5, DoIs
    <2>2. Stopped(Throw(Stk(Main), g.e))
      BY Zenon, <1>2, <1>5, ThrowStops
    <2>3. QED
      BY Zenon, <1>1, <1>2, <2>1, <2>2, StopMove DEF Open
  <1>6. QED
    BY Zenon, <1>4, <1>5

(* The same when the snapshot is saved before the guards are read. *)
LEMMA SavedGuardedKeeps ==
  ASSUME Inv, Main \in DOMAIN th, Stk(Main) # <<>>,
         NEW r, StackOK(impl, Main, r.stk), NEW m, Open(m),
         SavedGuarded(Main, r, m)
  PROVE Steady
  <1> DEFINE g == check_guards(m, sigs)
  <1>0. Open(store)
    BY MainIsOpen DEF Stk
  <1>1. /\ g.e = "" => g.store = m
        /\ g.e # "" => g.e \in {"Cancelled", "Paused"}
        /\ IsSnap(g.store)
    BY Zenon, GuardsStop
  <1>2. Do(Main, IF g.e = "" THEN r ELSE Throw(Stk(Main), g.e), m, g.store, g.sigs)
    BY Zenon DEF SavedGuarded
  <1> HIDE DEF g
  <1>3. CASE g.e = ""
    <2>1. Do(Main, r, m, m, g.sigs)
      BY Zenon, <1>1, <1>2, <1>3
    <2>2. Moves(Main, r) /\ mem' = m /\ store' = m
      BY <2>1, DoIs
    <2>3. QED
      BY <1>0, <2>2, OpenMove
  <1>4. CASE g.e # ""
    <2>1. Do(Main, Throw(Stk(Main), g.e), m, g.store, g.sigs)
      BY Zenon, <1>2, <1>4
    <2>2. Moves(Main, Throw(Stk(Main), g.e)) /\ mem' = m /\ store' = g.store
      BY Zenon, <2>1, DoIs
    <2>3. Stopped(Throw(Stk(Main), g.e))
      BY Zenon, <1>1, <1>4, ThrowStops
    <2>4. QED
      BY Zenon, <1>0, <1>1, <2>2, <2>3, StopMove DEF Open
  <1>5. QED
    BY Zenon, <1>3, <1>4

(* A frame that has moved on within its node. *)
Like(f, g) == IsFrame(g) /\ g.at = f.at /\ g.mode = f.mode /\ g.snap = f.snap

(* A frame that is like a good one is good. *)
LEMMA LikeSettled ==
  ASSUME NEW e, NEW t, NEW f, Settled(e, t, f), NEW g, Like(f, g)
  PROVE Settled(e, t, g) /\ Fresh(e, t, g)
  BY Zenon DEF Settled, Fresh, Like

(* The changes the executors make to a frame. *)
LEMMA LikeForms ==
  ASSUME NEW f, IsFrame(f), NEW pc, NEW v, NEW i, NEW acc
  PROVE /\ Like(f, [f EXCEPT !.pc = pc])
        /\ Like(f, [f EXCEPT !.pc = pc, !.val = v])
        /\ Like(f, [f EXCEPT !.pc = pc, !.i = i])
        /\ Like(f, [f EXCEPT !.pc = pc, !.acc = acc])
        /\ Like(f, [f EXCEPT !.pc = pc, !.i = i, !.acc = acc])
        /\ Like(f, [f EXCEPT !.i = i])
        /\ Like(f, [f EXCEPT !.acc = acc])
        /\ Like(f, [f EXCEPT !.wait = TRUE])
        /\ Like(f, [[f EXCEPT !.pc = pc] EXCEPT !.i = i])
  BY DEF Like, IsFrame

(* A thread at a node, past its load. *)
Standing(t) ==
  /\ t \in DOMAIN th /\ Stk(t) # <<>>
  /\ StackOK(impl, t, Stk(t)) /\ Settled(impl, t, Top(t)) /\ IsFrame(Top(t))

(* A thread at a node stands there with a good stack. *)
LEMMA HereStands ==
  ASSUME Inv, NEW t, NEW mode, NEW kind, NEW pc, pc # "load", Here(t, mode, kind, pc)
  PROVE /\ Standing(t) /\ Top(t).mode = mode /\ Top(t).at.kind = kind /\ Top(t).pc = pc
        /\ mode = "main" => t = Main
        /\ NodeOK(impl, t, Top(t).at)
  <1>1. /\ t \in DOMAIN th /\ Stk(t) # <<>> /\ Top(t).mode = mode
        /\ Top(t).at.kind = kind /\ Top(t).pc = pc
    BY DEF Here
  <1>2. StackOK(impl, t, Stk(t))
    BY Zenon, <1>1 DEF Inv, ThreadsOK, Stk
  <1>3. Fresh(impl, t, Top(t))
    BY Zenon, <1>1, <1>2, StackTop DEF Top, Stk
  <1>4. Settled(impl, t, Top(t))
    BY Zenon, <1>1, <1>3, LoadedIsSettled
  <1>5. QED
    BY Zenon, <1>1, <1>2, <1>3, <1>4 DEF Standing, Fresh

(* The next states of a standing thread. *)
LEMMA SetTopStack ==
  ASSUME NEW t, Standing(t), NEW g, Like(Top(t), g)
  PROVE StackOK(impl, t, SetTop(t, g).stk)
  <1>1. Fresh(impl, t, g)
    BY LikeSettled DEF Standing
  <1>2. StackOK(impl, t, ReplaceTop(Stk(t), g))
    BY Zenon, <1>1, StackReplace DEF Standing
  <1>3. QED
    BY <1>2 DEF SetTop, Running

(* It calls the executor of a node below. *)
LEMMA CallStack ==
  ASSUME NEW t, Standing(t), NEW g, Like(Top(t), g), NEW n, NodeOK(impl, t, n), NEW v,
         NEW mode \in {"main", "branch"}, t # Main => mode = "branch"
  PROVE StackOK(impl, t, Call(t, g, n, v, mode).stk)
  <1>1. Settled(impl, t, g)
    BY Zenon, LikeSettled DEF Standing
  <1>2. StackOK(impl, t, Append(ReplaceTop(Stk(t), g), Frame(n, v, mode)))
    BY Zenon, <1>1, CallOK DEF Standing
  <1>3. QED
    BY Zenon, <1>2 DEF Call, Running

(* It goes on to the next node. *)
LEMMA AdvanceStack ==
  ASSUME PlainBranches, NEW t, Standing(t), Top(t).pc # "load", NEW v
  PROVE StackOK(impl, t, Advance(Stk(t), v).stk)
  BY Zenon, AdvanceOK DEF Standing, Top, Stk

(* It gives up with an error. *)
LEMMA ThrowStack ==
  ASSUME NEW t, Standing(t), NEW err
  PROVE StackOK(impl, t, Throw(Stk(t), err).stk)
  BY Zenon, ThrowOK DEF Standing

(* Each of the main executors' steps keeps the invariant. *)
LEMMA TaskKeeps ==
  ASSUME Inv, PlainBranches, NEW t, execute_task_step(t)
  PROVE Steady
  <1> DEFINE f == Top(t)
  <1>1. CASE Here(t, "main", "Task", "enter") /\ execute_or_skip_task(t)
    <2>1. Standing(t) /\ t = Main
      BY Zenon, <1>1, HereStands
    <2>2. Main \in DOMAIN th /\ Stk(Main) # <<>> /\ Open(store) /\ Open(mem)
      BY Zenon, <2>1, MainIsOpen DEF Standing, Stk
    <2>3. Open(set_deadline_if_needed(f.at)) /\ Open(clear_retry_state(mem, f.at.id))
      BY Zenon, <2>2, CountersAreSnap DEF set_deadline_if_needed, Open
    <2>4. \A v : StackOK(impl, t, SetTop(t, [f EXCEPT !.pc = "save", !.val = v]).stk)
      BY Zenon, <2>1, LikeForms, SetTopStack DEF Standing
    <2>5. StackOK(impl, t, SetTop(t, [f EXCEPT !.pc = "exec"]).stk)
      BY Zenon, <2>1, LikeForms, SetTopStack DEF Standing
    <2>6. CASE Cached(mem, f.at.id)
      <3>1. Guarded(t, SetTop(t, [f EXCEPT !.pc = "save", !.val = mem.done[f.at.id]]),
                    clear_retry_state(mem, f.at.id), store)
        BY <1>1, <2>6 DEF execute_or_skip_task
      <3>2. QED
        BY Zenon, <2>1, <2>2, <2>3, <2>4, <3>1, GuardedKeeps
    <2>7. CASE ~Cached(mem, f.at.id)
      <3>1. Guarded(t, SetTop(t, [f EXCEPT !.pc = "exec"]), mem, set_deadline_if_needed(f.at))
        BY <1>1, <2>7 DEF execute_or_skip_task
      <3>2. QED
        BY <2>1, <2>2, <2>3, <2>5, <3>1, GuardedKeeps
    <2>8. QED
      BY <2>6, <2>7
  <1>2. CASE Here(t, "main", "Task", "exec") /\ retry_with_checkpoint(t)
    <2> DEFINE n == f.at
               v == Apply(n.id, f.val)
               m == record_retry(mem, n.id)
               done == mark_task_completed(clear_retry_state(mem, n.id), n.id, v)
    <2>1. Standing(t) /\ t = Main
      BY Zenon, <1>2, HereStands
    <2>2. Main \in DOMAIN th /\ Stk(Main) # <<>> /\ Open(store) /\ Open(mem)
      BY <2>1, MainIsOpen DEF Standing, Stk
    <2>3. Open(m) /\ Open(done)
      BY <2>2, CountersAreSnap, MarkIsSnap DEF Open
    <2>4. StackOK(impl, t, SetTop(t, [f EXCEPT !.pc = "save", !.val = v]).stk)
      BY Zenon, <2>1, LikeForms, SetTopStack DEF Standing
    <2>5. StackOK(impl, t, th[t].stk) /\ StackOK(impl, t, Throw(Stk(t), "Error").stk)
      BY Zenon, <2>1, ThrowStack DEF Standing, Stk
    <2>6. \/ DoRun(t, SetTop(t, [f EXCEPT !.pc = "save", !.val = v]), done, n, v)
          \/ DoFail(t, th[t], m, m)
          \/ DoFail(t, Throw(Stk(t), "Error"), mem, store)
      BY Zenon, <1>2 DEF retry_with_checkpoint
    <2> HIDE DEF m, done, v, n
    <2>7. CASE DoRun(t, SetTop(t, [f EXCEPT !.pc = "save", !.val = v]), done, n, v)
      <3>1. /\ Moves(t, SetTop(t, [f EXCEPT !.pc = "save", !.val = v]))
            /\ mem' = done /\ store' = store
        BY <2>7, DoRunIs
      <3>2. QED
        BY <2>1, <2>2, <2>3, <2>4, <3>1, OpenMove
    <2>8. CASE DoFail(t, th[t], m, m)
      <3>1. Moves(t, th[t]) /\ mem' = m /\ store' = m
        BY Zenon, <2>8, DoFailIs
      <3>2. QED
        BY Zenon, <2>1, <2>2, <2>3, <2>5, <3>1, OpenMove
    <2>9. CASE DoFail(t, Throw(Stk(t), "Error"), mem, store)
      <3>1. Moves(t, Throw(Stk(t), "Error")) /\ mem' = mem /\ store' = store
        BY <2>9, DoFailIs
      <3>2. QED
        BY Zenon, <2>1, <2>2, <2>5, <3>1, OpenMove
    <2>10. QED
      BY <2>6, <2>7, <2>8, <2>9
  <1>3. CASE /\ Here(t, "main", "Task", "save")
             /\ SavedGuarded(t, Advance(Stk(t), Top(t).val), AtNext(mem, Top(t).at))
    <2>1. Standing(t) /\ t = Main /\ Top(t).pc = "save"
      BY Zenon, <1>3, HereStands
    <2>2. Main \in DOMAIN th /\ Stk(Main) # <<>> /\ Open(mem)
      BY Zenon, <2>1, MainIsOpen DEF Standing, Stk
    <2>3. Open(AtNext(mem, Top(t).at))
      BY Zenon, <2>2, ComposedAreOpen
    <2>4. StackOK(impl, t, Advance(Stk(t), Top(t).val).stk)
      BY <2>1, AdvanceStack
    <2>5. QED
      BY ZenonT(30), <1>3, <2>1, <2>2, <2>3, <2>4, SavedGuardedKeeps
  <1>4. QED
    BY Zenon, <1>1, <1>2, <1>3 DEF execute_task_step

(* A delay: passed when cached, parked on otherwise. *)
LEMMA DelayKeeps ==
  ASSUME Inv, PlainBranches, NEW t, delay_step(t)
  PROVE Steady
  <1> DEFINE f == Top(t)
             m == ParkedAtDelay(mem, f.at, f.val)
  <1>1. Here(t, "main", "Delay", "enter")
    BY Zenon DEF delay_step
  <1>2. Standing(t) /\ t = Main /\ Top(t).pc = "enter"
    BY Zenon, <1>1, HereStands
  <1>3. Main \in DOMAIN th /\ Stk(Main) # <<>> /\ Open(store) /\ Open(mem)
    BY Zenon, <1>2, MainIsOpen DEF Standing, Stk
  <1>4. /\ StackOK(impl, t, Advance(Stk(t), f.val).stk)
        /\ StackOK(impl, t, Throw(Stk(t), "Waiting").stk)
    BY Zenon, <1>2, AdvanceStack, ThrowStack
  <1>5. Open(m)
    BY Zenon, <1>3, ComposedAreOpen
  <1>6. \/ Guarded(t, Advance(Stk(t), f.val), mem, store)
        \/ DoDelay(t, Throw(Stk(t), "Waiting"), m, m, f.at.id)
    BY Zenon DEF delay_step
  <1> HIDE DEF m, f
  <1>7. CASE Guarded(t, Advance(Stk(t), f.val), mem, store)
    BY Zenon, <1>2, <1>3, <1>4, <1>7, GuardedKeeps
  <1>8. CASE DoDelay(t, Throw(Stk(t), "Waiting"), m, m, f.at.id)
    <2>1. Moves(t, Throw(Stk(t), "Waiting")) /\ mem' = m /\ store' = m
      BY <1>8, DoDelayIs
    <2>2. QED
      BY ZenonT(30), <1>2, <1>3, <1>4, <1>5, <2>1, OpenMove
  <1>9. QED
    BY Zenon, <1>6, <1>7, <1>8

(* A signal: an event is consumed, or the workflow parks. *)
LEMMA SignalKeeps ==
  ASSUME Inv, PlainBranches, NEW t, signal_step(t)
  PROVE Steady
  <1> DEFINE f == Top(t)
             n == f.at
             parked == ParkedAtSignal(mem, n)
             m == AtNext(mark_task_completed(mem, n.id, f.val), n)
             g == [f EXCEPT !.pc = "save", !.val = Head(events)]
  <1>1. Here(t, "main", "AwaitSignal", "enter") \/ Here(t, "main", "AwaitSignal", "save")
    BY Zenon DEF signal_step
  <1>2. Standing(t) /\ t = Main /\ Top(t).pc # "load"
    BY <1>1, HereStands
  <1>3. Main \in DOMAIN th /\ Stk(Main) # <<>> /\ Open(store) /\ Open(mem)
    BY Zenon, <1>2, MainIsOpen DEF Standing, Stk
  <1>4. /\ \A v : StackOK(impl, t, Advance(Stk(t), v).stk)
        /\ StackOK(impl, t, Throw(Stk(t), "AwaitingSignal").stk)
        /\ StackOK(impl, t, th[t].stk)
    BY Zenon, <1>2, AdvanceStack, ThrowStack DEF Standing, Stk
  <1>5. StackOK(impl, t, SetTop(t, g).stk)
    BY Zenon, <1>2, LikeForms, SetTopStack DEF Standing
  <1>6. Open(parked) /\ Open(m)
    BY <1>3, ComposedAreOpen, MarkIsSnap DEF Open
  <1>7. \/ \E v : Guarded(t, Advance(Stk(t), v), mem, store)
        \/ Guarded(t, Throw(Stk(t), "AwaitingSignal"), parked, parked)
        \/ Guarded(t, th[t], mem, store)
        \/ Moves(t, SetTop(t, g)) /\ store' = store /\ mem' = mem
        \/ Moves(t, Advance(Stk(t), f.val)) /\ store' = m /\ mem' = m
    BY Zenon DEF signal_step, Moves, env
  <1> HIDE DEF f, n, parked, m, g
  <1>8. CASE \E v : Guarded(t, Advance(Stk(t), v), mem, store)
    BY Zenon, <1>2, <1>3, <1>4, <1>8, GuardedKeeps
  <1>9. CASE Guarded(t, Throw(Stk(t), "AwaitingSignal"), parked, parked)
    BY Zenon, <1>2, <1>3, <1>4, <1>6, <1>9, GuardedKeeps
  <1>10. CASE Guarded(t, th[t], mem, store)
    BY Zenon, <1>2, <1>3, <1>4, <1>10, GuardedKeeps
  <1>11. CASE Moves(t, SetTop(t, g)) /\ store' = store /\ mem' = mem
    BY Zenon, <1>2, <1>3, <1>5, <1>11, OpenMove
  <1>12. CASE Moves(t, Advance(Stk(t), f.val)) /\ store' = m /\ mem' = m
    BY Zenon, <1>2, <1>3, <1>4, <1>6, <1>12, OpenMove
  <1>13. QED
    BY Zenon, <1>7, <1>8, <1>9, <1>10, <1>11, <1>12

(* A composite node is entered, or skipped with its cached result. *)
LEMMA EnterKeeps ==
  ASSUME Inv, PlainBranches, NEW t, NEW kind, NEW f, NEW sub, NEW v,
         NEW mode \in {"main", "branch"}, EnterOrSkip(t, kind, f, sub, v, mode),
         Like(Top(t), f), sub # <<>> => NodeOK(impl, Main, sub[1])
  PROVE Steady
  <1>1. Here(t, "main", kind, "enter")
    BY Zenon DEF EnterOrSkip
  <1>2. Standing(t) /\ t = Main /\ Top(t).pc # "load"
    BY <1>1, HereStands
  <1>3. Main \in DOMAIN th /\ Stk(Main) # <<>> /\ Open(store) /\ Open(mem)
    BY Zenon, <1>2, MainIsOpen DEF Standing, Stk
  <1>4. /\ \A w : StackOK(impl, t, Advance(Stk(t), w).stk)
        /\ StackOK(impl, t, Throw(Stk(t), "Error").stk)
        /\ sub # <<>> => StackOK(impl, t, Call(t, f, sub[1], v, mode).stk)
    BY Zenon, <1>2, AdvanceStack, ThrowStack, CallStack
  <1>5. \/ \E w : Guarded(t, Advance(Stk(t), w), mem, store)
        \/ Guarded(t, Throw(Stk(t), "Error"), mem, store)
        \/ sub # <<>> /\ Guarded(t, Call(t, f, sub[1], v, mode), mem, store)
    BY Zenon DEF EnterOrSkip
  <1>6. QED
    BY Zenon, <1>2, <1>3, <1>4, <1>5, GuardedKeeps

(* The result of a composite node is saved. *)
LEMMA SaveResultKeeps ==
  ASSUME Inv, PlainBranches, NEW t, NEW kind, NEW v, SaveResult(t, kind, v)
  PROVE Steady
  <1> DEFINE m == mark_task_completed(mem, Top(t).at.id, v)
  <1>1. Here(t, "main", kind, "back") /\ Do(t, Advance(Stk(t), v), m, m, sigs)
    BY Zenon DEF SaveResult
  <1>2. Standing(t) /\ t = Main /\ Top(t).pc # "load"
    BY <1>1, HereStands
  <1>3. Main \in DOMAIN th /\ Open(mem) /\ Open(store)
    BY Zenon, <1>2, MainIsOpen DEF Standing, Stk
  <1>4. StackOK(impl, t, Advance(Stk(t), v).stk) /\ Open(m)
    BY <1>2, <1>3, AdvanceStack, MarkIsSnap DEF Open
  <1> HIDE DEF m
  <1>5. Moves(t, Advance(Stk(t), v)) /\ mem' = m /\ store' = m
    BY Zenon, <1>1, DoIs
  <1>6. QED
    BY Zenon, <1>2, <1>3, <1>4, <1>5, OpenMove

(* The main thread at a node: what may be saved, and where it may go. *)
LEMMA MainStands ==
  ASSUME Inv, PlainBranches, NEW t, NEW kind, NEW pc, pc # "load", Here(t, "main", kind, pc)
  PROVE /\ t = Main /\ Standing(Main) /\ Main \in DOMAIN th /\ Stk(Main) # <<>>
        /\ Open(store) /\ Open(mem) /\ IsFrame(Top(Main)) /\ Top(Main).pc # "load"
        /\ NodeOK(impl, Main, Top(Main).at) /\ Top(Main).at.kind = kind
        /\ \A v : StackOK(impl, Main, Advance(Stk(Main), v).stk)
        /\ \A err : StackOK(impl, Main, Throw(Stk(Main), err).stk)
  <1>1. /\ t = Main /\ Standing(Main) /\ Top(Main).pc # "load"
        /\ NodeOK(impl, Main, Top(Main).at) /\ Top(Main).at.kind = kind
    BY HereStands
  <1>2. Main \in DOMAIN th /\ Stk(Main) # <<>> /\ IsFrame(Top(Main))
    BY <1>1 DEF Standing
  <1>3. Open(store) /\ Open(mem)
    BY <1>2, MainIsOpen DEF Stk
  <1>4. \A v : StackOK(impl, Main, Advance(Stk(Main), v).stk)
    BY Zenon, <1>1, AdvanceStack
  <1>5. \A err : StackOK(impl, Main, Throw(Stk(Main), err).stk)
    BY Zenon, <1>1, ThrowStack
  <1>6. QED
    BY Zenon, <1>1, <1>2, <1>3, <1>4, <1>5

(* It saves an open snapshot, or only moves. *)
LEMMA DoKeeps ==
  ASSUME Inv, Main \in DOMAIN th, Open(store), NEW r, StackOK(impl, Main, r.stk),
         NEW m, Open(m), NEW s, Open(s), NEW sg, Do(Main, r, m, s, sg)
  PROVE Steady
  <1>1. Moves(Main, r) /\ mem' = m /\ store' = s
    BY Zenon, DoIs
  <1>2. QED
    BY <1>1, OpenMove

(* The nodes that hang below a node of the main thread. *)
LEMMA NodesBelow ==
  ASSUME PlainBranches, NEW e, NEW n, NodeOK(e, Main, n)
  PROVE /\ n.kind = "Branch" /\ resolve_branch(n) # <<>> => NodeOK(e, Main, resolve_branch(n)[1])
        /\ n.kind \in {"Loop", "ChildWorkflow"} => NodeOK(e, Main, n.subs[1])
  BY Zenon DEF PlainBranches, NodeOK

(* A route. *)
LEMMA BranchKeeps ==
  ASSUME Inv, PlainBranches, NEW t, NEW mode \in {"main", "branch"}, branch_step(t, mode)
  PROVE Steady
  <1>1. CASE EnterOrSkip(t, "Branch", Waits(t), resolve_branch(Top(t).at), Top(t).val, mode)
    <2>1. Here(t, "main", "Branch", "enter")
      BY Zenon, <1>1 DEF EnterOrSkip
    <2>2. /\ t = Main /\ IsFrame(Top(t)) /\ NodeOK(impl, Main, Top(t).at)
          /\ Top(t).at.kind = "Branch"
      BY <2>1, MainStands
    <2>3. Like(Top(t), Waits(t))
      BY Zenon, <2>2, LikeForms DEF Waits
    <2>4. resolve_branch(Top(t).at) # <<>> => NodeOK(impl, Main, resolve_branch(Top(t).at)[1])
      BY Zenon, <2>2, NodesBelow
    <2>5. QED
      BY Zenon, <1>1, <2>3, <2>4, EnterKeeps
  <1>2. CASE SaveResult(t, "Branch", Envelope(Top(t).at, Top(t).ret))
    BY <1>2, SaveResultKeeps
  <1>3. QED
    BY Zenon, <1>1, <1>2 DEF branch_step

(* A child workflow. *)
LEMMA ChildKeeps ==
  ASSUME Inv, PlainBranches, NEW t, child_step(t)
  PROVE Steady
  <1>1. CASE EnterOrSkip(t, "ChildWorkflow", Waits(t), Top(t).at.subs, Top(t).val, "main")
    <2>1. Here(t, "main", "ChildWorkflow", "enter")
      BY Zenon, <1>1 DEF EnterOrSkip
    <2>2. /\ t = Main /\ IsFrame(Top(t)) /\ NodeOK(impl, Main, Top(t).at)
          /\ Top(t).at.kind = "ChildWorkflow"
      BY <2>1, MainStands
    <2>3. Like(Top(t), Waits(t))
      BY Zenon, <2>2, LikeForms DEF Waits
    <2>4. NodeOK(impl, Main, Top(t).at.subs[1])
      BY Zenon, <2>2, NodesBelow
    <2>5. QED
      BY Zenon, <1>1, <2>3, <2>4, EnterKeeps
  <1>2. CASE SaveResult(t, "ChildWorkflow", Top(t).ret)
    BY <1>2, SaveResultKeeps
  <1>3. QED
    BY <1>1, <1>2 DEF child_step

(* The entry of a loop at iteration i. *)
LEMMA LoopEnters ==
  ASSUME Inv, PlainBranches, NEW t, NEW i, NEW sub, sub # <<>> => sub = Top(t).at.subs, NEW v,
         EnterOrSkip(t, "Loop", [Waits(t) EXCEPT !.i = i], sub, v, "main")
  PROVE Steady
  <1>1. Here(t, "main", "Loop", "enter")
    BY Zenon DEF EnterOrSkip
  <1>2. /\ t = Main /\ IsFrame(Top(t)) /\ NodeOK(impl, Main, Top(t).at)
        /\ Top(t).at.kind = "Loop"
    BY Zenon, <1>1, MainStands
  <1>3. Like(Top(t), [Waits(t) EXCEPT !.i = i])
    BY Zenon, <1>2, LikeForms DEF Waits
  <1>4. sub # <<>> => NodeOK(impl, Main, sub[1])
    BY <1>2, NodesBelow
  <1>5. QED
    BY Zenon, <1>3, <1>4, EnterKeeps

(* After an iteration: exit, the next one, or the error. *)
LEMMA LoopKeeps ==
  ASSUME Inv, PlainBranches, NEW t, loop_step(t)
  PROVE Steady
  <1> DEFINE f == Top(t)
             n == f.at
             m == remove_task_results(mem, AllIds(n.subs[1]))
             exit == LoopExit(m, n, f.ret)
             next == InLoop(m, n, f.i + 1)
             g == [Waits(t) EXCEPT !.i = f.i + 1]
  <1>1. CASE LoopEntry(t)
    <2> DEFINE i == loop_iteration(mem, n.id)
               sub == IF i < n.n THEN n.subs ELSE <<>>
    <2>1. EnterOrSkip(t, "Loop", [Waits(t) EXCEPT !.i = i], sub, Top(t).val, "main")
      BY Zenon, <1>1 DEF LoopEntry
    <2>2. sub # <<>> => sub = Top(t).at.subs
      BY Zenon
    <2> HIDE DEF i, sub
    <2>3. QED
      BY Zenon, <2>1, <2>2, LoopEnters
  <1>2. CASE ~LoopEntry(t)
    <2>1. /\ Here(t, "main", "Loop", "back")
          /\ \/ Do(t, Advance(Stk(t), f.ret), exit, exit, sigs)
             \/ Do(t, Call(t, g, n.subs[1], f.ret, "main"), next, next, sigs)
             \/ Do(t, Throw(Stk(t), "Error"), m, store, sigs)
      BY Zenon, <1>2 DEF loop_step
    <2>2. /\ t = Main /\ Standing(Main) /\ Main \in DOMAIN th /\ Open(store) /\ Open(mem)
          /\ IsFrame(f) /\ NodeOK(impl, Main, n) /\ n.kind = "Loop"
          /\ StackOK(impl, Main, Advance(Stk(Main), f.ret).stk)
          /\ StackOK(impl, Main, Throw(Stk(Main), "Error").stk)
      BY Zenon, <2>1, MainStands
    <2>3. Open(m)
      BY Zenon, <2>2, RemoveIsSnap DEF Open
    <2>4. Open(exit) /\ Open(next)
      <3> HIDE DEF m
      <3>1. QED
        BY Zenon, <2>3, ComposedAreOpen
    <2>5. Like(f, g)
      BY Zenon, <2>2, LikeForms DEF Waits
    <2>6. NodeOK(impl, Main, n.subs[1])
      BY Zenon, <2>2, NodesBelow
    <2> HIDE DEF g, m, exit, next
    <2>7. StackOK(impl, Main, Call(Main, g, n.subs[1], f.ret, "main").stk)
      BY Zenon, <2>2, <2>5, <2>6, CallStack
    <2>8. QED
      BY ZenonT(30), <2>1, <2>2, <2>3, <2>4, <2>7, DoKeeps
  <1>3. QED
    BY Zenon, <1>1, <1>2

(* Past a fork. *)
LEMMA JoinedStack ==
  ASSUME PlainBranches, NEW t, Standing(t), Top(t).pc # "load", NEW results
  PROVE StackOK(impl, t, Joined(Stk(t), results).stk)
  <1>1. \A v : StackOK(impl, t, Advance(Stk(t), v).stk)
    BY Zenon, AdvanceStack
  <1>2. StackOK(impl, t, Throw(Stk(t), "Error").stk)
    BY Zenon, ThrowStack
  <1>3. QED
    BY Zenon, <1>1, <1>2 DEF Joined

(* The end of a fork of the runner and of the callback engine. *)
LEMMA SettleKeeps ==
  ASSUME Inv, PlainBranches, NEW t, settle_fork_outcome(t)
  PROVE Steady
  <1> DEFINE f == Top(t)
             s == update_position(mem, At("AtFork", f.at.id, ""))
             g == [f EXCEPT !.i = f.i + 1]
             r == save_task_result(store, f.acc[f.i + 1].id, f.acc[f.i + 1].v)
             m == save_join_position(t)
  <1>1. Here(t, "main", "Fork", "settle")
    BY DEF settle_fork_outcome
  <1>2. /\ t = Main /\ Standing(Main) /\ Main \in DOMAIN th /\ Stk(Main) # <<>>
        /\ Open(store) /\ Open(mem) /\ IsFrame(f) /\ Top(Main).pc # "load"
        /\ StackOK(impl, Main, Throw(Stk(Main), "Waiting").stk)
    BY Zenon, <1>1, MainStands
  <1>3. StackOK(impl, Main, SetTop(Main, g).stk)
    <2>1. Like(f, g)
      BY Zenon, <1>2, LikeForms
    <2> HIDE DEF g
    <2>2. QED
      BY Zenon, <1>2, <2>1, SetTopStack
  <1>4. StackOK(impl, Main, Joined(Stk(Main), f.acc).stk)
    BY Zenon, <1>2, JoinedStack
  <1>5. Open(s) /\ Open(r)
    BY Zenon, <1>2, MarksAreOpen
  <1>6. Open(m)
    <2>1. Open(MarkAll(mem, f.acc))
      BY Zenon, <1>2, MarkAllIsSnap DEF Open
    <2>2. QED
      BY Zenon, <2>1, PositionIsSnap DEF Open, save_join_position
  <1>7. \/ Do(t, SetTop(t, g), mem, r, sigs)
        \/ Do(t, SetTop(t, g), store, store, sigs)
        \/ Do(t, Throw(Stk(t), "Waiting"), s, s, sigs)
        \/ Guarded(t, Joined(Stk(t), f.acc), m, m)
    BY Zenon DEF settle_fork_outcome, park_at_fork, DoBranch
  <1> HIDE DEF g, s, r, m
  <1>8. CASE Guarded(t, Joined(Stk(t), f.acc), m, m)
    BY ZenonT(30), <1>2, <1>4, <1>6, <1>8, GuardedKeeps
  <1>9. QED
    BY ZenonT(30), <1>2, <1>3, <1>5, <1>7, <1>8, DoKeeps

(* The callback engine's fork. *)
LEMMA CallbackForkKeeps ==
  ASSUME Inv, PlainBranches, NEW t, c_fork(t)
  PROVE Steady
  <1> DEFINE f == Top(t)
             g == [f EXCEPT !.pc = "fork", !.i = 1]
             cached == collect_cached_branches(mem, f.at)
  <1>1. /\ Here(t, "main", "Fork", "enter")
        /\ \/ Guarded(t, Joined(Stk(t), cached), mem, store)
           \/ Guarded(t, SetTop(t, g), mem, store)
    BY Zenon DEF c_fork
  <1>2. /\ t = Main /\ Standing(Main) /\ Main \in DOMAIN th /\ Stk(Main) # <<>>
        /\ Open(store) /\ Open(mem) /\ IsFrame(f) /\ Top(Main).pc # "load"
    BY Zenon, <1>1, MainStands
  <1>3. Like(f, g)
    BY Zenon, <1>2, LikeForms
  <1> HIDE DEF g, cached
  <1>4. StackOK(impl, Main, SetTop(Main, g).stk) /\ StackOK(impl, Main, Joined(Stk(Main), cached).stk)
    BY Zenon, <1>2, <1>3, SetTopStack, JoinedStack
  <1>5. QED
    BY Zenon, <1>1, <1>2, <1>4, GuardedKeeps

(* A fork that runs its branches one by one: the frames of the fork. *)
LEMMA SequentialFrames ==
  ASSUME NEW f, IsFrame(f), NEW x, NEW i
  PROVE /\ Like(f, [f EXCEPT !.pc = "fork", !.i = @ + 1, !.acc = Append(@, x)])
        /\ Like(f, [f EXCEPT !.pc = "settle", !.i = 0])
        /\ Like(f, [f EXCEPT !.pc = "seq"])
        /\ Like(f, [f EXCEPT !.pc = "fork", !.i = i])
  BY DEF Like, IsFrame

(* The callback engine's branches, one after the other. *)
LEMMA SequentialKeeps ==
  ASSUME Inv, PlainBranches, NEW t, execute_fork_branches_sequential(t)
  PROVE Steady
  <1> DEFINE f == Top(t)
             b == f.at.subs[f.i]
             m == mark_task_completed(mem, b.id, f.ret)
             r == save_task_result(store, b.id, f.ret)
             took(v) == [f EXCEPT !.pc = "fork", !.i = @ + 1, !.acc = Append(@, Result(b.id, v))]
             settle == [f EXCEPT !.pc = "settle", !.i = 0]
             seq == [f EXCEPT !.pc = "seq"]
  <1>1. /\ impl = "callback"
        /\ Here(t, "main", "Fork", "fork") \/ Here(t, "main", "Fork", "back")
        /\ \/ Do(t, SetTop(t, settle), mem, store, sigs)
           \/ Do(t, SetTop(t, took(mem.done[b.id])), mem, store, sigs)
           \/ Do(t, Call(t, seq, b, f.val, "branch"), mem, store, sigs)
           \/ Do(t, SetTop(t, took(f.ret)), m, r, sigs)
    BY Zenon DEF execute_fork_branches_sequential
  <1>2. /\ t = Main /\ Standing(Main) /\ Main \in DOMAIN th
        /\ Open(store) /\ Open(mem) /\ IsFrame(f)
    BY Zenon, <1>1, MainStands
  <1>3. Open(m) /\ Open(r)
    BY Zenon, <1>2, MarksAreOpen
  <1>4. Like(f, settle) /\ Like(f, seq) /\ (\A v : Like(f, took(v)))
    BY Zenon, <1>2, SequentialFrames
  <1>5. NodeOK(impl, Main, b)
    BY Zenon, <1>1 DEF NodeOK
  <1> HIDE DEF m, r, took, settle, seq, b
  <1>6. /\ StackOK(impl, Main, SetTop(Main, settle).stk)
        /\ \A v : StackOK(impl, Main, SetTop(Main, took(v)).stk)
        /\ StackOK(impl, Main, Call(Main, seq, b, f.val, "branch").stk)
    BY Zenon, <1>2, <1>4, <1>5, SetTopStack, CallStack
  <1>7. QED
    BY ZenonT(30), <1>1, <1>2, <1>3, <1>6, DoKeeps

(* ---- the Cloudflare engine -------------------------------------------- *)

(* A task under the Cloudflare engine. *)
LEMMA CfTaskKeeps ==
  ASSUME Inv, PlainBranches, NEW t, handle_task(t)
  PROVE Steady
  <1> DEFINE f == Top(t)
             n == f.at
             v == Apply(n.id, f.val)
             exec == [f EXCEPT !.pc = "exec"]
             save == [f EXCEPT !.pc = "save", !.val = v]
             m == AtNext(mark_task_completed(mem, n.id, f.val), n)
  <1>1. /\ \E pc \in {"enter", "exec", "save"} : Here(t, "main", "Task", pc)
        /\ \/ \E w : Guarded(t, Advance(Stk(t), w), mem, store)
           \/ Guarded(t, SetTop(t, exec), mem, store)
           \/ DoRun(t, SetTop(t, save), mem, n, v)
           \/ DoFail(t, Throw(Stk(t), "Error"), mem, store)
           \/ SavedGuarded(t, Advance(Stk(t), f.val), m)
    BY Zenon DEF handle_task
  <1>2. /\ t = Main /\ Standing(Main) /\ Main \in DOMAIN th /\ Stk(Main) # <<>>
        /\ Open(store) /\ Open(mem) /\ IsFrame(f)
        /\ \A w : StackOK(impl, Main, Advance(Stk(Main), w).stk)
        /\ StackOK(impl, Main, Throw(Stk(Main), "Error").stk)
    BY Zenon, <1>1, MainStands
  <1>3. Open(m)
    BY Zenon, <1>2, ComposedAreOpen, MarksAreOpen
  <1>4. Like(f, exec) /\ Like(f, save)
    BY Zenon, <1>2, LikeForms
  <1> HIDE DEF exec, save, m, v
  <1>5. StackOK(impl, Main, SetTop(Main, exec).stk) /\ StackOK(impl, Main, SetTop(Main, save).stk)
    BY Zenon, <1>2, <1>4, SetTopStack
  <1>6. CASE \/ \E w : Guarded(t, Advance(Stk(t), w), mem, store)
             \/ Guarded(t, SetTop(t, exec), mem, store)
    BY Zenon, <1>2, <1>5, <1>6, GuardedKeeps
  <1>7. CASE DoRun(t, SetTop(t, save), mem, n, v)
    <2>1. Moves(t, SetTop(t, save)) /\ mem' = mem /\ store' = store
      BY <1>7, DoRunIs
    <2>2. QED
      BY ZenonT(30), <1>2, <1>5, <2>1, OpenMove
  <1>8. CASE DoFail(t, Throw(Stk(t), "Error"), mem, store)
    <2>1. Moves(t, Throw(Stk(t), "Error")) /\ mem' = mem /\ store' = store
      BY <1>8, DoFailIs
    <2>2. QED
      BY ZenonT(30), <1>2, <2>1, OpenMove
  <1>9. CASE SavedGuarded(t, Advance(Stk(t), f.val), m)
    BY Zenon, <1>2, <1>3, <1>9, SavedGuardedKeeps
  <1>10. QED
    BY Zenon, <1>1, <1>6, <1>7, <1>8, <1>9

(* A fork under the Cloudflare engine. *)
LEMMA CfForkKeeps ==
  ASSUME Inv, PlainBranches, NEW t, handle_fork(t)
  PROVE Steady
  <1> DEFINE f == Top(t)
             n == f.at
             b == n.subs[f.i]
             m == mark_task_completed(mem, b.id, f.ret)
             parked == update_position(mem, At("AtFork", n.id, ""))
             took(v) == [f EXCEPT !.pc = "fork", !.i = @ + 1, !.acc = Append(@, [id |-> b.id, v |-> v])]
             first == [f EXCEPT !.pc = "fork", !.i = 1]
             seq == [f EXCEPT !.pc = "seq"]
  <1>1. /\ impl = "cf"
        /\ \E pc \in {"enter", "fork", "back"} : Here(t, "main", "Fork", pc)
        /\ \/ Guarded(t, SetTop(t, first), mem, store)
           \/ Do(t, Throw(Stk(t), "Waiting"), parked, parked, sigs)
           \/ \E w : Do(t, Advance(Stk(t), w), mem, store, sigs)
           \/ \E w : Do(t, SetTop(t, took(w)), mem, store, sigs)
           \/ Do(t, Call(t, seq, b, f.val, "main"), mem, store, sigs)
           \/ Do(t, SetTop(t, took(f.ret)), m, m, sigs)
    BY Zenon DEF handle_fork
  <1>2. /\ t = Main /\ Standing(Main) /\ Main \in DOMAIN th /\ Stk(Main) # <<>>
        /\ Open(store) /\ Open(mem) /\ IsFrame(f)
        /\ \A w : StackOK(impl, Main, Advance(Stk(Main), w).stk)
        /\ StackOK(impl, Main, Throw(Stk(Main), "Waiting").stk)
    BY Zenon, <1>1, MainStands
  <1>3. Open(m) /\ Open(parked)
    BY Zenon, <1>2, MarksAreOpen
  <1>4. Like(f, first) /\ Like(f, seq) /\ (\A v : Like(f, took(v)))
    BY Zenon, <1>2, SequentialFrames
  <1>5. NodeOK(impl, Main, b)
    BY Zenon, <1>1 DEF NodeOK
  <1> HIDE DEF m, parked, took, first, seq, b
  <1>6. /\ StackOK(impl, Main, SetTop(Main, first).stk)
        /\ \A v : StackOK(impl, Main, SetTop(Main, took(v)).stk)
        /\ StackOK(impl, Main, Call(Main, seq, b, f.val, "main").stk)
    BY ZenonT(30), <1>2, <1>4, <1>5, SetTopStack, CallStack
  <1>7. CASE Guarded(t, SetTop(t, first), mem, store)
    BY Zenon, <1>2, <1>6, <1>7, GuardedKeeps
  <1>8. QED
    BY ZenonT(30), <1>1, <1>2, <1>3, <1>6, <1>7, DoKeeps

(* A loop under the Cloudflare engine. *)
LEMMA CfLoopKeeps ==
  ASSUME Inv, PlainBranches, NEW t, handle_loop(t)
  PROVE Steady
  <1> DEFINE f == Top(t)
             n == f.at
             m == remove_task_results(mem, AllIds(n.subs[1]))
             exit == LoopExit(m, n, f.ret)
             next == InLoop(m, n, f.i + 1)
             last == LoopExit(mem, n, f.val)
             i == loop_iteration(mem, n.id)
             top == [f EXCEPT !.pc = "max"]
             max == [f EXCEPT !.pc = "max", !.val = f.ret]
             g == [Waits(t) EXCEPT !.i = f.i + 1]
  <1>1. /\ impl = "cf"
        /\ \E pc \in {"enter", "back", "max"} : Here(t, "main", "Loop", pc)
        /\ \/ EnterOrSkip(t, "Loop", [Waits(t) EXCEPT !.i = i], n.subs, f.val, "main")
           \/ Guarded(t, SetTop(t, top), mem, store)
           \/ Do(t, Advance(Stk(t), f.ret), exit, exit, sigs)
           \/ Do(t, Call(t, g, n.subs[1], f.ret, "main"), next, next, sigs)
           \/ Do(t, SetTop(t, max), next, next, sigs)
           \/ Do(t, Advance(Stk(t), f.val), last, last, sigs)
           \/ Do(t, Throw(Stk(t), "Error"), mem, store, sigs)
    BY Zenon DEF handle_loop
  <1>2. /\ t = Main /\ Standing(Main) /\ Main \in DOMAIN th /\ Stk(Main) # <<>>
        /\ Open(store) /\ Open(mem) /\ IsFrame(f)
        /\ \A w : StackOK(impl, Main, Advance(Stk(Main), w).stk)
        /\ StackOK(impl, Main, Throw(Stk(Main), "Error").stk)
    BY Zenon, <1>1, MainStands
  <1>3. Open(m)
    BY Zenon, <1>2, RemoveIsSnap DEF Open
  <1>4. Open(exit) /\ Open(next) /\ Open(last)
    <2> HIDE DEF m
    <2>1. QED
      BY Zenon, <1>2, <1>3, ComposedAreOpen
  <1>5. Like(f, top) /\ Like(f, max) /\ Like(f, g)
    BY Zenon, <1>2, LikeForms DEF Waits
  <1>6. NodeOK(impl, Main, n.subs[1])
    BY Zenon, <1>1 DEF NodeOK
  <1> HIDE DEF m, exit, next, last, top, max, g, i
  <1>7. /\ StackOK(impl, Main, SetTop(Main, top).stk) /\ StackOK(impl, Main, SetTop(Main, max).stk)
        /\ StackOK(impl, Main, Call(Main, g, n.subs[1], f.ret, "main").stk)
    BY Zenon, <1>2, <1>5, <1>6, SetTopStack, CallStack
  <1>8. CASE EnterOrSkip(t, "Loop", [Waits(t) EXCEPT !.i = i], n.subs, f.val, "main")
    BY Zenon, <1>8, LoopEnters
  <1>9. CASE Guarded(t, SetTop(t, top), mem, store)
    BY Zenon, <1>2, <1>7, <1>9, GuardedKeeps
  <1>10. QED
    BY ZenonT(30), <1>1, <1>2, <1>4, <1>7, <1>8, <1>9, DoKeeps

=============================================================================
