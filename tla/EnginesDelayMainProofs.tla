----------------------- MODULE EnginesDelayMainProofs -----------------------
(***************************************************************************)
(* Delays are waited for (NotEarly): the inductive invariant, what it says *)
(* of stacks and threads, and the steps of the main executors.             *)
(*                                                                         *)
(* Nothing keeps a list of the delays that are on: a delay is held up by   *)
(* the position of the row alone, which the next resume reads              *)
(* (prepare_resume). So the invariant has to show that while a delay is on *)
(* nobody can move the row or run a task: no branch of a fork is left      *)
(* over, and no fork catches the wait of a delay below it.                 *)
(***************************************************************************)
EXTENDS EnginesBaseProofs

CONSTANTS
    Quiet,   \* nodes with no delay in or after them
    Spine    \* nodes that may have one

(* Where the arms of a route may be: anywhere on the spine if only the      *)
(* Cloudflare engine runs, which has no branch executor; the others run an  *)
(* arm in one, where a delay is not waited for (VioArmDelay).               *)
Arms == IF \A c \in Cases : c.impl = "cf" THEN Spine ELSE Quiet

(* A delay may stand anywhere but in the branch of a fork and, unless only  *)
(* the Cloudflare engine runs, in the arm of a route: each definition is on *)
(* the spine, and what a fork spawns is quiet.                              *)
DelaysOnSpine ==
  /\ \A n \in Quiet :
       /\ n.kind # "Delay"
       /\ n.next # <<>> => n.next[1] \in Quiet
       /\ n.kind = "Fork" => n.subs \in Seq(Quiet)
       /\ n.kind = "Branch" /\ resolve_branch(n) # <<>> => resolve_branch(n)[1] \in Quiet
       /\ n.kind \in {"Loop", "ChildWorkflow"} => n.subs[1] \in Quiet
  /\ \A n \in Spine :
       /\ n.next # <<>> => n.next[1] \in Spine
       /\ n.kind = "Fork" => n.subs \in Seq(Quiet)
       /\ n.kind = "Branch" /\ resolve_branch(n) # <<>> => resolve_branch(n)[1] \in Arms
       /\ n.kind \in {"Loop", "ChildWorkflow"} => n.subs[1] \in Spine
  /\ \A c \in Cases : c.tree \in Spine

(* ---- the inductive invariant ------------------------------------------ *)

(* A frame f of thread t: only the main thread runs the main executors, and *)
(* a branch executor has no delay before it.                                *)
FrameD(t, f) ==
  /\ IsFrame(f) /\ IsSnap(f.snap)
  /\ f.at \in Quiet \cup Spine /\ f.wait = FALSE
  /\ f.mode \in {"main", "branch"}
  /\ t # Main => f.mode = "branch"
  /\ f.mode = "branch" => f.at \in Quiet
  /\ f.at.kind = "Fork" => f.i \in Nat /\ (f.pc = "fork" => f.i > 0)

(* No delay can be in what f calls: f is at a quiet node, or at a fork that *)
(* runs its branches one by one.                                            *)
Apart(f) == f.at \in Quiet \/ f.pc = "seq"

(* The stack s of thread t: above a frame that is apart there are quiet     *)
(* nodes alone, so no delay is thrown into a fork that would catch it.      *)
StackD(t, s) ==
  /\ IsSeq(s)
  /\ \A k \in 1..Len(s) :
       /\ FrameD(t, s[k])
       /\ \A j \in 1..Len(s) : j < k /\ Apart(s[j]) => s[k].at \in Quiet

(* A thread: one that has ended has no frames, and only the main one waits. *)
ThreadD(t, r) ==
  /\ StackD(t, r.stk)
  /\ r.res # "run" => r.stk = <<>>
  /\ t # Main => r.res # "Waiting"

(* A thread at the join_next of its JoinSet; one that ended without a       *)
(* result.                                                                  *)
Joins(r) == r.stk # <<>> /\ TopOf(r.stk).pc = "join"
Broken(r) == r.stk = <<>> /\ r.res # "ok"

(* A path names a thread below those its prefixes name. As long as a thread *)
(* has others below it, it joins them or has failed; if one of them is gone *)
(* while its own are left, the thread above it has failed.                  *)
Family ==
  \A q \in DOMAIN th : \A k \in 0..(Len(q) - 1) :
    /\ SubSeq(q, 1, k) \in DOMAIN th =>
         Joins(th[SubSeq(q, 1, k)]) \/ Broken(th[SubSeq(q, 1, k)])
    /\ k > 0 /\ SubSeq(q, 1, k) \notin DOMAIN th /\ SubSeq(q, 1, k - 1) \in DOMAIN th =>
         Broken(th[SubSeq(q, 1, k - 1)])

(* While a delay is on, nothing runs: the main thread has parked or is      *)
(* gone, no branch is left over, and an open row is parked at that delay.   *)
AtRest ==
  delays # {} =>
    /\ \A t \in DOMAIN th : t = Main /\ th[t].stk = <<>> /\ th[t].res = "Waiting"
    /\ store.st # "none"
    /\ store.st \in {"InProgress", "Paused"} =>
         store.pos.kind = "AtDelay" /\ delays \subseteq {store.pos.id}

(* The inductive invariant. *)
DInv ==
  /\ IsSnap(store) /\ IsSnap(mem)
  /\ tree \in Spine /\ (impl # "cf" => Arms = Quiet)
  /\ \A t \in DOMAIN th : /\ IsSeq(t) /\ ThreadD(t, th[t])
                          /\ impl # "runner" => t = Main
  /\ Main \in DOMAIN th /\ th[Main].stk # <<>> => mem.st = "InProgress"
  /\ Family /\ AtRest
  /\ NotEarly

(* ---- stacks ----------------------------------------------------------- *)

(* The frame on top, and the stack below it. *)
LEMMA BelowD ==
  ASSUME NEW t, NEW s, StackD(t, s), s # <<>>
  PROVE /\ StackD(t, Below(s)) /\ FrameD(t, TopOf(s))
        /\ \A j \in 1..Len(Below(s)) : Apart(Below(s)[j]) => TopOf(s).at \in Quiet
  <1>1. /\ IsSeq(Below(s)) /\ Len(Below(s)) = Len(s) - 1 /\ Len(s) \in Nat \ {0}
        /\ \A k \in 1..(Len(s) - 1) : Below(s)[k] = s[k]
    BY BelowSeq DEF StackD
  <1>2. Len(s) \in 1..Len(s)
    BY <1>1
  <1>3. FrameD(t, TopOf(s))
    BY <1>2 DEF StackD, TopOf
  <1>4. ASSUME NEW j \in 1..Len(Below(s)), Apart(Below(s)[j])
        PROVE TopOf(s).at \in Quiet
    <2>1. j \in 1..Len(s) /\ j < Len(s) /\ Apart(s[j])
      BY <1>1, <1>4
    <2>2. QED
      BY <1>2, <2>1 DEF StackD, TopOf
  <1>5. ASSUME NEW k \in 1..Len(Below(s))
        PROVE /\ FrameD(t, Below(s)[k])
              /\ \A j \in 1..Len(Below(s)) : j < k /\ Apart(Below(s)[j]) => Below(s)[k].at \in Quiet
    <2>1. k \in 1..Len(s) /\ \A j \in 1..Len(Below(s)) : j \in 1..Len(s) /\ Below(s)[j] = s[j]
      BY <1>1
    <2>2. Below(s)[k] = s[k]
      BY <1>1
    <2>3. QED
      BY Zenon, <2>1, <2>2 DEF StackD
  <1>6. QED
    BY ZenonT(30), <1>1, <1>3, <1>4, <1>5 DEF StackD

(* A frame on top of others. *)
LEMMA PushD ==
  ASSUME NEW t, NEW s, StackD(t, s), NEW f, FrameD(t, f),
         \A j \in 1..Len(s) : Apart(s[j]) => f.at \in Quiet
  PROVE /\ StackD(t, Append(s, f)) /\ Append(s, f) # <<>>
        /\ TopOf(Append(s, f)) = f
  <1> DEFINE r == Append(s, f)
  <1>1. /\ IsSeq(r) /\ r # <<>> /\ Len(r) = Len(s) + 1 /\ r[Len(s) + 1] = f
        /\ \A k \in 1..Len(s) : r[k] = s[k]
        /\ TopOf(r) = f
    BY AppendSeq DEF StackD
  <1>2. Len(s) \in Nat
    BY DEF StackD, IsSeq
  <1> HIDE DEF r
  <1>3. ASSUME NEW k \in 1..Len(r)
        PROVE /\ FrameD(t, r[k])
              /\ \A j \in 1..Len(r) : j < k /\ Apart(r[j]) => r[k].at \in Quiet
    <2>0. \A j \in 1..Len(r) : j < k => j \in 1..Len(s) /\ r[j] = s[j]
      BY <1>1, <1>2
    <2>1. CASE k = Len(s) + 1
      BY Zenon, <2>0, <2>1, <1>1
    <2>2. CASE k # Len(s) + 1
      <3>1. k \in 1..Len(s) /\ r[k] = s[k]
        BY <2>2, <1>1, <1>2
      <3>2. QED
        BY Zenon, <2>0, <3>1 DEF StackD
    <2>3. QED
      BY Zenon, <2>1, <2>2
  <1>4. StackD(t, r)
    BY Zenon, <1>1, <1>3 DEF StackD
  <1>5. QED
    BY Zenon, <1>1, <1>4 DEF r

(* ReplaceTop changes the frame on top alone. *)
LEMMA ReplaceD ==
  ASSUME NEW t, NEW s, StackD(t, s), s # <<>>, NEW f, FrameD(t, f),
         TopOf(s).at \in Quiet => f.at \in Quiet
  PROVE /\ StackD(t, ReplaceTop(s, f)) /\ ReplaceTop(s, f) # <<>>
        /\ TopOf(ReplaceTop(s, f)) = f
  <1>1. /\ StackD(t, Below(s))
        /\ \A j \in 1..Len(Below(s)) : Apart(Below(s)[j]) => f.at \in Quiet
    BY Zenon, BelowD
  <1>2. QED
    BY ZenonT(30), <1>1, PushD DEF ReplaceTop

(* The empty stack. *)
LEMMA EmptyD ==
  ASSUME NEW t
  PROVE StackD(t, <<>>)
  <1>1. \A k \in 1..Len(<<>>) : FALSE
    OBVIOUS
  <1>2. QED
    BY Zenon, <1>1, EmptySeq DEF StackD

(* A thread that runs on a good stack. *)
LEMMA RunningD ==
  ASSUME NEW t, NEW s, StackD(t, s)
  PROVE ThreadD(t, Running(s))
  BY DEF ThreadD, Running
(* A thread that has ended. *)
LEMMA EndedD ==
  ASSUME NEW t, NEW e, NEW v, t # Main => e # "Waiting"
  PROVE ThreadD(t, [stk |-> <<>>, res |-> e, val |-> v])
  BY EmptyD DEF ThreadD

(* A new frame. *)
LEMMA NewD ==
  ASSUME NEW t, NEW n \in Quiet \cup Spine, NEW v, NEW mode \in {"main", "branch"},
         t # Main => mode = "branch", mode = "branch" => n \in Quiet
  PROVE FrameD(t, Frame(n, v, mode)) /\ Frame(n, v, mode).at = n
  <1> DEFINE g == Frame(n, v, mode)
  <1>1. /\ IsFrame(g) /\ g.at = n /\ g.mode = mode /\ g.snap = NoSnapshot /\ g.i = 0
        /\ g.pc # "fork" /\ g.wait = FALSE
    BY DEF Frame, IsFrame
  <1>2. IsSnap(NoSnapshot)
    BY DEF IsSnap, NoSnapshot
  <1> HIDE DEF g
  <1>3. FrameD(t, g)
    BY <1>1, <1>2 DEF FrameD
  <1>4. QED
    BY <1>1, <1>3 DEF g

(* A call: the caller's frame waits below the new one. *)
LEMMA CallD ==
  ASSUME NEW t, NEW s, StackD(t, s), s # <<>>, NEW f, FrameD(t, f),
         TopOf(s).at \in Quiet => f.at \in Quiet,
         NEW n \in Quiet \cup Spine, Apart(f) => n \in Quiet,
         NEW v, NEW mode \in {"main", "branch"},
         t # Main => mode = "branch", mode = "branch" => n \in Quiet
  PROVE ThreadD(t, Running(Append(ReplaceTop(s, f), Frame(n, v, mode))))
  <1> DEFINE r == ReplaceTop(s, f)
  <1>1. StackD(t, r) /\ r # <<>> /\ TopOf(r) = f
    BY Zenon, ReplaceD
  <1>2. FrameD(t, Frame(n, v, mode)) /\ Frame(n, v, mode).at = n
    BY ZenonT(30), NewD
  <1> HIDE DEF r
  <1>3. ASSUME NEW j \in 1..Len(r), Apart(r[j])
        PROVE n \in Quiet
    <2>1. Len(r) \in Nat /\ Len(r) > 0
      BY <1>1, OtherSeq DEF StackD, IsSeq
    <2>2. CASE j = Len(r)
      BY Zenon, <1>1, <1>3, <2>2 DEF TopOf
    <2>3. CASE j # Len(r)
      <3>1. j < Len(r) /\ Len(r) \in 1..Len(r)
        BY <2>1, <2>3
      <3>2. f.at \in Quiet
        BY Zenon, <1>1, <1>3, <3>1 DEF StackD, TopOf
      <3>3. QED
        BY Zenon, <3>2 DEF Apart
    <2>4. QED
      BY <2>2, <2>3
  <1>4. StackD(t, Append(r, Frame(n, v, mode)))
    BY Zenon, <1>1, <1>2, <1>3, PushD
  <1>5. QED
    BY Zenon, <1>4, RunningD DEF r

(* The value goes back to the caller, or is that of the thread. *)
LEMMA ReturnD ==
  ASSUME NEW t, NEW s, StackD(t, s), NEW v
  PROVE ThreadD(t, Return(s, v))
  <1>1. CASE s = <<>>
    <2>1. Return(s, v) = [stk |-> <<>>, res |-> "ok", val |-> v]
      BY <1>1 DEF Return
    <2>2. QED
      BY <2>1, EndedD
  <1>2. CASE s # <<>>
    <2> DEFINE f == TopOf(s)
               g == [f EXCEPT !.pc = "back", !.ret = v]
    <2>1. FrameD(t, f)
      BY <1>2, BelowD
    <2>2. /\ IsFrame(g) /\ g.at = f.at /\ g.mode = f.mode /\ g.snap = f.snap /\ g.i = f.i
          /\ g.pc = "back" /\ g.wait = FALSE
      BY <2>1 DEF FrameD, IsFrame
    <2>3. Return(s, v) = Running(ReplaceTop(s, g))
      BY Zenon, <1>2 DEF Return
    <2> HIDE DEF g, f
    <2>4. FrameD(t, g)
      BY <2>1, <2>2 DEF FrameD
    <2>5. StackD(t, ReplaceTop(s, g))
      BY Zenon, <1>2, <2>2, <2>4, ReplaceD DEF f
    <2>6. QED
      BY Zenon, <2>3, <2>5, RunningD
  <1>3. QED
    BY <1>1, <1>2

(* Past a node. *)
LEMMA AdvanceD ==
  ASSUME DelaysOnSpine, NEW t, NEW s, StackD(t, s), s # <<>>, NEW v
  PROVE ThreadD(t, Advance(s, v))
  <1> DEFINE f == TopOf(s)
             g == [f EXCEPT !.at = f.at.next[1], !.val = v, !.pc = "enter",
                            !.i = 0, !.acc = <<>>, !.wait = FALSE]
  <1>1. FrameD(t, f) /\ StackD(t, Below(s))
    BY BelowD
  <1>2. CASE f.at.next = <<>>
    <2>1. Advance(s, v) = Return(Below(s), v)
      BY Zenon, <1>2 DEF Advance
    <2>2. QED
      BY Zenon, <1>1, <2>1, ReturnD
  <1>3. CASE f.at.next # <<>>
    <2>1. /\ IsFrame(g) /\ g.at = f.at.next[1] /\ g.mode = f.mode /\ g.snap = f.snap
          /\ g.i = 0 /\ g.pc = "enter" /\ g.wait = FALSE
      BY <1>1 DEF FrameD, IsFrame
    <2>2. /\ f.at.next[1] \in Quiet \cup Spine
          /\ f.at \in Quiet => f.at.next[1] \in Quiet
      BY Zenon, <1>1, <1>3 DEF FrameD, DelaysOnSpine
    <2>3. Advance(s, v) = Running(ReplaceTop(s, g))
      BY Zenon, <1>3 DEF Advance
    <2> HIDE DEF g, f
    <2>4. FrameD(t, g)
      BY <1>1, <2>1, <2>2 DEF FrameD
    <2>5. StackD(t, ReplaceTop(s, g))
      BY Zenon, <2>1, <2>2, <2>4, ReplaceD DEF f
    <2>6. QED
      BY Zenon, <2>3, <2>5, RunningD
  <1>4. QED
    BY <1>2, <1>3

(* An error: to the fork that catches it, or out of the thread.  A delay     *)
(* that stands outside of every fork is caught by none.                      *)
LEMMA ThrowD ==
  ASSUME NEW t, NEW s, StackD(t, s), NEW err,
         \/ err # "Waiting"
         \/ t = Main /\ s # <<>> /\ TopOf(s).at \notin Quiet /\ TopOf(s).pc # "seq"
  PROVE /\ ThreadD(t, Throw(s, err))
        /\ Throw(s, err).stk = <<>> /\ Throw(s, err).res = err
  <1>1. err = "Waiting" => Catchers(s) = {}
    <2>1. SUFFICES ASSUME t = Main, s # <<>>, TopOf(s).at \notin Quiet, TopOf(s).pc # "seq",
                          NEW c \in Catchers(s)
                   PROVE FALSE
      OBVIOUS
    <2>2. Len(s) \in Nat /\ DOMAIN s = 1..Len(s)
      BY DEF StackD, IsSeq
    <2>3. c \in 1..Len(s) /\ s[c].pc = "seq"
      BY <2>1, <2>2 DEF Catchers
    <2>4. Len(s) \in 1..Len(s) /\ c < Len(s)
      BY <2>1, <2>2, <2>3 DEF TopOf
    <2>5. QED
      BY Zenon, <2>1, <2>3, <2>4 DEF StackD, Apart, TopOf
  <1>2. Throw(s, err) = [stk |-> <<>>, res |-> err, val |-> Empty]
    BY Zenon, <1>1 DEF Throw
  <1>3. t # Main => err # "Waiting"
    OBVIOUS
  <1>4. ThreadD(t, Throw(s, err))
    BY Zenon, <1>2, <1>3, EndedD
  <1>5. QED
    BY <1>2, <1>4

(* ---- moves of a thread ------------------------------------------------ *)

(* A thread that is running, and joins no branches. *)
Stands(t) == t \in DOMAIN th /\ Stk(t) # <<>> /\ Top(t).pc # "join"

(* No thread is below t. *)
Leaf(t) == \A q \in DOMAIN th : \A k \in 0..(Len(q) - 1) : SubSeq(q, 1, k) # t

(* A thread that stands, or has returned, has none below it. *)
LEMMA Childless ==
  ASSUME DInv, NEW t, Stands(t) \/ (t \in DOMAIN th /\ th[t].res = "ok")
  PROVE Leaf(t)
  <1>1. t \in DOMAIN th /\ ~Joins(th[t]) /\ ~Broken(th[t])
    BY DEF Stands, DInv, ThreadD, Joins, Broken, Top, Stk
  <1>2. QED
    BY Zenon, <1>1 DEF DInv, Family, Leaf

(* Whatever becomes of such a thread, the family is in order. *)
LEMMA FamilyMoves ==
  ASSUME DInv, NEW t, Leaf(t), NEW r, th' = [th EXCEPT ![t] = r]
  PROVE Family'
  <1>1. DOMAIN th' = DOMAIN th
    OBVIOUS
  <1>2. ASSUME NEW q \in DOMAIN th, NEW k \in 0..(Len(q) - 1)
        PROVE /\ SubSeq(q, 1, k) \in DOMAIN th =>
                   Joins(th'[SubSeq(q, 1, k)]) \/ Broken(th'[SubSeq(q, 1, k)])
              /\ k > 0 /\ SubSeq(q, 1, k) \notin DOMAIN th /\ SubSeq(q, 1, k - 1) \in DOMAIN th =>
                   Broken(th'[SubSeq(q, 1, k - 1)])
    <2>1. SubSeq(q, 1, k) # t
      BY Zenon DEF Leaf
    <2>2. SubSeq(q, 1, k) \in DOMAIN th => th'[SubSeq(q, 1, k)] = th[SubSeq(q, 1, k)]
      BY <2>1
    <2>3. k > 0 => k - 1 \in 0..(Len(q) - 1)
      <3>1. Len(q) \in Nat
        BY DEF DInv, IsSeq
      <3>2. QED
        BY <3>1
    <2>4. k > 0 => SubSeq(q, 1, k - 1) # t
      BY Zenon, <2>3 DEF Leaf
    <2>5. k > 0 /\ SubSeq(q, 1, k - 1) \in DOMAIN th =>
            th'[SubSeq(q, 1, k - 1)] = th[SubSeq(q, 1, k - 1)]
      BY <2>4
    <2>6. QED
      BY Zenon, <2>2, <2>5 DEF DInv, Family
  <1>3. QED
    BY Zenon, <1>1, <1>2 DEF Family

(* No delay is pending while a thread runs. *)
LEMMA NoneElapsing ==
  ASSUME DInv, NEW t \in DOMAIN th, th[t].stk # <<>>
  PROVE delays = {}
  BY DEF DInv, AtRest

(* What a thread may leave as the snapshot of the process. *)
Fits(t, r, m) ==
  IsSnap(m) /\ IF t = Main THEN r.stk # <<>> => m.st = "InProgress" ELSE m = mem

(* The threads, and the snapshot, after a move. *)
LEMMA ThreadsMove ==
  ASSUME DInv, NEW t, Stands(t), NEW r, Moves(t, r), ThreadD(t, r), Fits(t, r, mem')
  PROVE /\ \A u \in DOMAIN th' : IsSeq(u) /\ ThreadD(u, th'[u]) /\ (impl' # "runner" => u = Main)
        /\ Main \in DOMAIN th' /\ th'[Main].stk # <<>> => mem'.st = "InProgress"
        /\ tree' \in Spine /\ (impl' # "cf" => Arms = Quiet)
        /\ Family'
  <1>1. /\ th' = [th EXCEPT ![t] = r] /\ DOMAIN th' = DOMAIN th /\ impl' = impl /\ tree' = tree
        /\ t \in DOMAIN th
    BY DEF Moves, Stands
  <1>2. th'[t] = r /\ \A u \in DOMAIN th : u # t => th'[u] = th[u]
    BY <1>1
  <1>3. \A u \in DOMAIN th : IsSeq(u) /\ ThreadD(u, th'[u]) /\ (impl' # "runner" => u = Main)
    BY Zenon, <1>1, <1>2 DEF DInv
  <1>4. Main \in DOMAIN th /\ th'[Main].stk # <<>> => mem'.st = "InProgress"
    BY Zenon, <1>2 DEF DInv, Fits
  <1>5. Family'
    BY Zenon, <1>1, Childless, FamilyMoves
  <1>6. QED
    BY Zenon, <1>1, <1>3, <1>4, <1>5 DEF DInv

(* A move of a thread that starts no delay. *)
LEMMA MoveD ==
  ASSUME DInv, NEW t, Stands(t), NEW r, Moves(t, r), ThreadD(t, r), Fits(t, r, mem'),
         IsSnap(store'), delays' = delays, NotEarly'
  PROVE DInv'
  <1>1. delays' = {}
    BY NoneElapsing DEF Stands, Stk
  <1>2. AtRest'
    BY <1>1 DEF AtRest
  <1>3. IsSnap(mem')
    BY DEF Fits
  <1>4. QED
    BY Zenon, <1>2, <1>3, ThreadsMove DEF DInv

(* The forms of such a move. *)
LEMMA DoD ==
  ASSUME DInv, NEW t, Stands(t), NEW r, ThreadD(t, r), NEW m, Fits(t, r, m),
         NEW s, IsSnap(s), NEW sg, Do(t, r, m, s, sg)
  PROVE DInv'
  <1>1. Moves(t, r) /\ mem' = m /\ store' = s
    BY Zenon, DoIs
  <1>2. delays' = delays /\ ran' = ran
    BY Zenon DEF Do
  <1>3. NotEarly'
    BY Zenon, <1>2 DEF NotEarly, DInv
  <1>4. QED
    BY Zenon, <1>1, <1>2, <1>3, MoveD

(* A call of user code that fails. *)
LEMMA DoFailD ==
  ASSUME DInv, NEW t, Stands(t), NEW r, ThreadD(t, r), NEW m, Fits(t, r, m),
         NEW s, IsSnap(s), DoFail(t, r, m, s)
  PROVE DInv'
  <1>1. Moves(t, r) /\ mem' = m /\ store' = s
    BY Zenon, DoFailIs
  <1>2. delays' = delays /\ ran' = ran
    BY Zenon DEF DoFail
  <1>3. NotEarly'
    BY Zenon, <1>2 DEF NotEarly, DInv
  <1>4. QED
    BY Zenon, <1>1, <1>2, <1>3, MoveD

(* A run comes early when a delay is pending, and none is. *)
LEMMA DoRunD ==
  ASSUME DInv, NEW t, Stands(t), NEW r, ThreadD(t, r), NEW m, Fits(t, r, m),
         NEW n, NEW v, DoRun(t, r, m, n, v)
  PROVE DInv'
  <1>1. Moves(t, r) /\ mem' = m /\ store' = store
    BY Zenon, DoRunIs
  <1> DEFINE x == [id |-> n.id, v |-> v,
                   again |-> [id |-> n.id, v |-> v] \in kept,
                   early |-> \E d \in delays : n.id \in TasksAfter(tree, d)]
  <1>2. delays' = delays /\ ran' = ran \cup {x}
    BY Zenon DEF DoRun
  <1>3. delays = {}
    BY NoneElapsing DEF Stands, Stk
  <1>4. ~x.early
    BY <1>3
  <1> HIDE DEF x
  <1>5. NotEarly'
    BY Zenon, <1>2, <1>4 DEF NotEarly, DInv
  <1>6. IsSnap(store')
    BY Zenon, <1>1 DEF DInv
  <1>7. QED
    BY Zenon, <1>1, <1>2, <1>5, <1>6, MoveD

(* The guards. *)
LEMMA GuardsD ==
  ASSUME NEW s, IsSnap(s), NEW sg
  PROVE /\ check_guards(s, sg).e \in {"", "Cancelled", "Paused"}
        /\ IsSnap(check_guards(s, sg).store)
  <1>1. IsSnap(mark_paused(s)) /\ IsSnap(mark_cancelled(s))
    BY Zenon, EndsAreSnap
  <1>2. QED
    BY <1>1 DEF check_guards

(* A step of the main thread that the guards may stop. *)
LEMMA GuardedD ==
  ASSUME DInv, Stands(Main), NEW r, ThreadD(Main, r), NEW m, Open(m), NEW s, IsSnap(s),
         Guarded(Main, r, m, s)
  PROVE DInv'
  <1> DEFINE g == check_guards(store, sigs)
  <1>1. g.e \in {"", "Cancelled", "Paused"} /\ IsSnap(g.store)
    BY Zenon, GuardsD DEF DInv
  <1>2. IF g.e = "" THEN Do(Main, r, m, s, sigs)
        ELSE Do(Main, Throw(Stk(Main), g.e), mem, g.store, g.sigs)
    BY Zenon DEF Guarded
  <1> HIDE DEF g
  <1>3. CASE g.e = ""
    <2>1. Fits(Main, r, m)
      BY Zenon DEF Fits, Open
    <2>2. QED
      BY Zenon, <1>2, <1>3, <2>1, DoD
  <1>4. CASE g.e # ""
    <2>1. g.e # "Waiting"
      BY Zenon, <1>1
    <2>2. StackD(Main, Stk(Main))
      BY Zenon DEF DInv, Stands, ThreadD, Stk
    <2>3. /\ ThreadD(Main, Throw(Stk(Main), g.e))
          /\ Throw(Stk(Main), g.e).stk = <<>>
      BY <2>1, <2>2, ThrowD
    <2>4. Fits(Main, Throw(Stk(Main), g.e), mem)
      BY Zenon, <2>3 DEF Fits, DInv
    <2>5. QED
      BY ZenonT(30), <1>1, <1>2, <1>4, <2>3, <2>4, DoD
  <1>5. QED
    BY Zenon, <1>3, <1>4

(* The same when the snapshot is saved before the guards are read. *)
LEMMA SavedGuardedD ==
  ASSUME DInv, Stands(Main), NEW r, ThreadD(Main, r), NEW m, Open(m),
         SavedGuarded(Main, r, m)
  PROVE DInv'
  <1> DEFINE g == check_guards(m, sigs)
  <1>1. g.e \in {"", "Cancelled", "Paused"} /\ IsSnap(g.store)
    BY Zenon, GuardsD DEF Open
  <1>2. Do(Main, IF g.e = "" THEN r ELSE Throw(Stk(Main), g.e), m, g.store, g.sigs)
    BY Zenon DEF SavedGuarded
  <1> HIDE DEF g
  <1>3. g.e # "" => ThreadD(Main, Throw(Stk(Main), g.e))
    <2>1. StackD(Main, Stk(Main))
      BY Zenon DEF DInv, Stands, ThreadD, Stk
    <2>2. g.e # "Waiting"
      BY Zenon, <1>1
    <2>3. QED
      BY Zenon, <2>1, <2>2, ThrowD
  <1>4. \A x : Fits(Main, x, m)
    BY Zenon DEF Fits, Open
  <1>5. CASE g.e = ""
    <2>1. Do(Main, r, m, g.store, g.sigs)
      BY Zenon, <1>2, <1>5
    <2>2. QED
      BY Zenon, <1>1, <1>4, <2>1, DoD
  <1>6. CASE g.e # ""
    <2>1. Do(Main, Throw(Stk(Main), g.e), m, g.store, g.sigs)
      BY Zenon, <1>2, <1>6
    <2>2. QED
      BY Zenon, <1>1, <1>3, <1>4, <1>6, <2>1, DoD
  <1>7. QED
    BY Zenon, <1>5, <1>6

(* A thread at a node, and where it may go from there. *)
LEMMA HereD ==
  ASSUME DInv, DelaysOnSpine, NEW t, NEW mode, NEW kind, NEW pc, pc # "join",
         Here(t, mode, kind, pc)
  PROVE /\ Stands(t) /\ StackD(t, Stk(t)) /\ FrameD(t, Top(t)) /\ IsFrame(Top(t))
        /\ Top(t).mode = mode /\ Top(t).at.kind = kind /\ Top(t).pc = pc
        /\ mode = "main" => t = Main
        /\ mode = "branch" => Top(t).at \in Quiet
        /\ ThreadD(t, th[t])
        /\ \A v : ThreadD(t, Advance(Stk(t), v))
        /\ \A err : err # "Waiting" => ThreadD(t, Throw(Stk(t), err))
  <1>1. /\ t \in DOMAIN th /\ Stk(t) # <<>> /\ Top(t).mode = mode
        /\ Top(t).at.kind = kind /\ Top(t).pc = pc
    BY Zenon DEF Here
  <1>2. Stands(t)
    BY Zenon, <1>1 DEF Stands
  <1>3. StackD(t, Stk(t)) /\ ThreadD(t, th[t])
    BY Zenon, <1>1 DEF DInv, ThreadD, Stk
  <1>4. FrameD(t, Top(t))
    BY Zenon, <1>1, <1>3, BelowD DEF Top, Stk
  <1>5. \A v : ThreadD(t, Advance(Stk(t), v))
    BY Zenon, <1>1, <1>3, AdvanceD
  <1>6. \A err : err # "Waiting" => ThreadD(t, Throw(Stk(t), err))
    BY Zenon, <1>3, ThrowD
  <1>7. QED
    BY Zenon, <1>1, <1>2, <1>3, <1>4, <1>5, <1>6 DEF FrameD

(* The main thread at a node: its snapshot is open. *)
LEMMA MainD ==
  ASSUME DInv, DelaysOnSpine, NEW t, NEW kind, NEW pc, pc # "join", Here(t, "main", kind, pc)
  PROVE /\ t = Main /\ Stands(Main) /\ StackD(Main, Stk(Main)) /\ FrameD(Main, Top(Main))
        /\ IsFrame(Top(Main)) /\ Top(Main).at.kind = kind /\ Top(Main).pc = pc
        /\ ThreadD(Main, th[Main]) /\ Open(mem) /\ IsSnap(store)
        /\ \A v : ThreadD(Main, Advance(Stk(Main), v))
        /\ \A err : err # "Waiting" => ThreadD(Main, Throw(Stk(Main), err))
  <1>1. t = Main
    BY Zenon, HereD
  <1>2. Stands(Main)
    BY Zenon, <1>1, HereD
  <1>3. Open(mem) /\ IsSnap(store)
    BY Zenon, <1>2 DEF DInv, Open, Stands, Stk
  <1>4. QED
    BY Zenon, <1>1, <1>2, <1>3, HereD

(* A frame that has moved on within its node. *)
LikeD(f, g) ==
  /\ IsFrame(g) /\ IsSnap(g.snap) /\ g.at = f.at /\ g.mode = f.mode /\ g.wait = FALSE
  /\ g.at.kind = "Fork" => g.i \in Nat /\ (g.pc = "fork" => g.i > 0)

(* The changes the executors make to a frame. *)
LEMMA FormsD ==
  ASSUME NEW t, NEW f, FrameD(t, f), NEW pc, pc # "fork", NEW v, NEW i, NEW acc, NEW s
  PROVE /\ LikeD(f, [f EXCEPT !.pc = pc])
        /\ LikeD(f, [f EXCEPT !.pc = pc, !.val = v])
        /\ LikeD(f, [f EXCEPT !.pc = pc, !.acc = acc])
        /\ LikeD(f, [f EXCEPT !.acc = acc])
        /\ f.at.kind # "Fork" => LikeD(f, [[f EXCEPT !.pc = pc] EXCEPT !.i = i])
        /\ IsSnap(s) => /\ LikeD(f, [f EXCEPT !.snap = s])
                        /\ LikeD(f, [[f EXCEPT !.snap = s] EXCEPT !.pc = pc])
                        /\ LikeD(f, [f EXCEPT !.pc = pc, !.val = v, !.snap = s])
                        /\ f.at.kind # "Fork" =>
                             LikeD(f, [[f EXCEPT !.pc = pc] EXCEPT !.i = i, !.snap = s])
  <1>1. /\ IsFrame(f) /\ IsSnap(f.snap) /\ f.wait = FALSE
        /\ f.at.kind = "Fork" => f.i \in Nat /\ (f.pc = "fork" => f.i > 0)
    BY DEF FrameD
  <1>2. QED
    BY Zenon, <1>1 DEF LikeD, IsFrame

(* The frame of a fork that goes through its branches. *)
LEMMA ForkFormsD ==
  ASSUME NEW t, NEW f, FrameD(t, f), f.at.kind = "Fork", NEW x, NEW acc
  PROVE /\ LikeD(f, [f EXCEPT !.pc = "fork", !.i = @ + 1, !.acc = Append(@, x)])
        /\ LikeD(f, [f EXCEPT !.pc = "fork", !.i = 1])
        /\ LikeD(f, [f EXCEPT !.pc = "settle", !.i = 0])
        /\ f.pc # "fork" => LikeD(f, [f EXCEPT !.i = @ + 1])
        /\ LikeD(f, [f EXCEPT !.pc = "wait", !.i = 1, !.acc = acc])
        /\ LikeD(f, [f EXCEPT !.pc = "wait", !.i = f.i + 1, !.acc = acc])
  <1>1. IsFrame(f) /\ IsSnap(f.snap) /\ f.i \in Nat /\ f.wait = FALSE
    BY DEF FrameD
  <1>2. QED
    BY <1>1 DEF LikeD, IsFrame

(* It stays at its node. *)
LEMMA SetTopD ==
  ASSUME NEW t, StackD(t, Stk(t)), Stk(t) # <<>>, FrameD(t, Top(t)), NEW g, LikeD(Top(t), g)
  PROVE FrameD(t, g) /\ ThreadD(t, SetTop(t, g))
  <1>1. FrameD(t, g)
    BY Zenon DEF FrameD, LikeD
  <1>2. g.at = TopOf(Stk(t)).at
    BY Zenon DEF LikeD, Top, Stk
  <1>3. StackD(t, ReplaceTop(Stk(t), g))
    BY Zenon, <1>1, <1>2, ReplaceD
  <1>4. QED
    BY Zenon, <1>1, <1>3, RunningD DEF SetTop
(* It calls the executor of a node below. *)
LEMMA CallsD ==
  ASSUME NEW t, StackD(t, Stk(t)), Stk(t) # <<>>, FrameD(t, Top(t)), NEW g, LikeD(Top(t), g),
         NEW n \in Quiet \cup Spine, Top(t).at \in Quiet \/ g.pc = "seq" => n \in Quiet,
         NEW v, NEW mode \in {"main", "branch"},
         t # Main => mode = "branch", mode = "branch" => n \in Quiet
  PROVE ThreadD(t, Call(t, g, n, v, mode))
  <1>1. FrameD(t, g) /\ g.at = Top(t).at
    BY Zenon, SetTopD DEF LikeD
  <1>2. g.at = TopOf(Stk(t)).at /\ (Apart(g) => n \in Quiet)
    BY Zenon, <1>1 DEF Top, Stk, Apart
  <1>3. QED
    BY Zenon, <1>1, <1>2, CallD DEF Call

(* ---- the main executors ----------------------------------------------- *)

(* The nodes below a node. *)
LEMMA NodesD ==
  ASSUME DInv, DelaysOnSpine, NEW n \in Quiet \cup Spine
  PROVE /\ n.kind \in {"Loop", "ChildWorkflow"} =>
             n.subs[1] \in Quiet \cup Spine /\ (n \in Quiet => n.subs[1] \in Quiet)
        /\ n.kind = "Fork" => n.subs \in Seq(Quiet)
        /\ n.kind = "Branch" /\ resolve_branch(n) # <<>> =>
             /\ resolve_branch(n)[1] \in Quiet \cup Spine
             /\ n \in Quiet \/ impl # "cf" => resolve_branch(n)[1] \in Quiet
  <1>1. Arms \in {Quiet, Spine} /\ (impl # "cf" => Arms = Quiet)
    BY Zenon DEF Arms, DInv
  <1>2. QED
    BY <1>1 DEF DelaysOnSpine

(* execute_task_step. *)
LEMMA TaskD ==
  ASSUME DInv, DelaysOnSpine, NEW t, execute_task_step(t)
  PROVE DInv'
  <1> DEFINE f == Top(t)
             n == f.at
             v == Apply(n.id, f.val)
             m == record_retry(mem, n.id)
             done == mark_task_completed(clear_retry_state(mem, n.id), n.id, v)
             save(w) == [f EXCEPT !.pc = "save", !.val = w]
             exec == [f EXCEPT !.pc = "exec"]
             clear == clear_retry_state(mem, n.id)
             due == set_deadline_if_needed(n)
  <1>1. /\ \E pc \in {"enter", "exec", "save"} : Here(t, "main", "Task", pc)
        /\ \/ \E w : Guarded(t, SetTop(t, save(w)), clear, store)
           \/ Guarded(t, SetTop(t, exec), mem, due)
           \/ DoRun(t, SetTop(t, save(v)), done, n, v)
           \/ DoFail(t, th[t], m, m)
           \/ DoFail(t, Throw(Stk(t), "Error"), mem, store)
           \/ SavedGuarded(t, Advance(Stk(t), f.val), AtNext(mem, n))
    BY Zenon DEF execute_task_step, execute_or_skip_task, retry_with_checkpoint
  <1>2. /\ t = Main /\ Stands(Main) /\ StackD(Main, Stk(Main)) /\ FrameD(Main, f)
        /\ Stk(Main) # <<>> /\ ThreadD(Main, th[Main]) /\ Open(mem) /\ IsSnap(store)
        /\ ThreadD(Main, Advance(Stk(Main), f.val))
        /\ ThreadD(Main, Throw(Stk(Main), "Error"))
    <2>1. PICK pc \in {"enter", "exec", "save"} : Here(t, "main", "Task", pc)
      BY Zenon, <1>1
    <2>2. pc # "join"
      OBVIOUS
    <2>3. QED
      BY Zenon, <2>1, <2>2, MainD DEF Stands
  <1>3. Open(clear) /\ Open(m) /\ Open(done) /\ Open(AtNext(mem, n)) /\ IsSnap(due)
    <2>1. Open(clear) /\ Open(m)
      BY Zenon, <1>2, CountersAreSnap DEF Open
    <2>2. Open(done)
      BY Zenon, <2>1, MarksAreOpen
    <2>3. QED
      BY Zenon, <1>2, <2>1, <2>2, ComposedAreOpen DEF set_deadline_if_needed, Open
  <1>4. (\A w : LikeD(f, save(w))) /\ LikeD(f, exec)
    BY Zenon, <1>2, FormsD
  <1> HIDE DEF f, save, exec, clear, due, m, done, v
  <1>5. (\A w : ThreadD(Main, SetTop(Main, save(w)))) /\ ThreadD(Main, SetTop(Main, exec))
    BY Zenon, <1>2, <1>4, SetTopD DEF f
  <1>6. CASE \E w : Guarded(t, SetTop(t, save(w)), clear, store)
    BY Zenon, <1>2, <1>3, <1>5, <1>6, GuardedD
  <1>7. CASE Guarded(t, SetTop(t, exec), mem, due)
    BY Zenon, <1>2, <1>3, <1>5, <1>7, GuardedD
  <1>8. \A r, x : Open(x) => Fits(Main, r, x)
    BY Zenon DEF Fits, Open
  <1>9. CASE DoRun(t, SetTop(t, save(v)), done, n, v)
    BY ZenonT(30), <1>2, <1>3, <1>5, <1>8, <1>9, DoRunD
  <1>10. CASE DoFail(t, th[t], m, m)
    <2>1. IsSnap(m)
      BY Zenon, <1>3 DEF Open
    <2>2. QED
      BY ZenonT(30), <1>2, <1>3, <1>8, <1>10, <2>1, DoFailD
  <1>11. CASE DoFail(t, Throw(Stk(t), "Error"), mem, store)
    BY Zenon, <1>2, <1>8, <1>11, DoFailD
  <1>12. CASE SavedGuarded(t, Advance(Stk(t), f.val), AtNext(mem, n))
    BY Zenon, <1>2, <1>3, <1>12, SavedGuardedD
  <1>13. QED
    BY ZenonT(30), <1>1, <1>6, <1>7, <1>9, <1>10, <1>11, <1>12

(* A delay on the spine: the thread ends and the row is parked at it; it is   *)
(* the only delay there is, and no other thread is left.                      *)
LEMMA ParkD ==
  ASSUME DInv, DelaysOnSpine, Here(Main, "main", "Delay", "enter"), NEW d,
         d = Top(Main).at.id, NEW m, m = ParkedAtDelay(mem, Top(Main).at, Top(Main).val),
         DoDelay(Main, Throw(Stk(Main), "Waiting"), m, m, d)
  PROVE DInv'
  <1> DEFINE r == Throw(Stk(Main), "Waiting")
  <1>1. /\ Stands(Main) /\ StackD(Main, Stk(Main)) /\ FrameD(Main, Top(Main)) /\ Open(mem)
        /\ Top(Main).at.kind = "Delay" /\ Top(Main).pc = "enter" /\ Stk(Main) # <<>>
    <2>1. "enter" # "join"
      BY Zenon
    <2>2. QED
      BY Zenon, <2>1, MainD DEF Stands
  <1>2. Top(Main).at \notin Quiet
    BY Zenon, <1>1 DEF DelaysOnSpine
  <1>3. ThreadD(Main, r) /\ r.stk = <<>> /\ r.res = "Waiting"
    <2>1. TopOf(Stk(Main)).at \notin Quiet /\ TopOf(Stk(Main)).pc # "seq"
      BY Zenon, <1>1, <1>2 DEF Top, Stk
    <2>2. QED
      BY <1>1, <2>1, ThrowD
  <1>4. Open(m) /\ m.pos.kind = "AtDelay" /\ m.pos.id = d
    <2> DEFINE p == update_position(mem, At("AtDelay", d, FirstOrNone(Top(Main).at.next)))
    <2>1. Open(p) /\ p.pos.kind = "AtDelay" /\ p.pos.id = d
      BY <1>1 DEF Open, IsSnap, update_position, At
    <2> HIDE DEF p
    <2>2. \A x, w : mark_task_completed(p, x, w).pos = p.pos
      BY <2>1 DEF Open, IsSnap, mark_task_completed
    <2>3. m = mark_task_completed(p, d, Top(Main).val)
      BY Zenon DEF ParkedAtDelay, p
    <2>4. QED
      BY Zenon, <2>1, <2>2, <2>3, MarksAreOpen
  <1>5. Moves(Main, r) /\ mem' = m /\ store' = m
    BY Zenon, DoDelayIs
  <1>6. delays = {} /\ delays' = {d} /\ ran' = ran
    <2>1. delays = {}
      BY Zenon, <1>1, NoneElapsing DEF Stands, Stk
    <2>2. delays' = delays \cup {d} /\ ran' = ran
      BY Zenon DEF DoDelay
    <2>3. QED
      BY <2>1, <2>2
  <1> HIDE DEF r
  <1>7. \A q \in DOMAIN th : q = Main
    <2>1. SUFFICES ASSUME NEW q \in DOMAIN th, q # Main PROVE FALSE
      OBVIOUS
    <2>2. IsSeq(q) /\ Len(q) \in Nat /\ Len(q) > 0
      BY <2>1, OtherSeq DEF DInv, Main, IsSeq
    <2>3. 0 \in 0..(Len(q) - 1) /\ 0 \in 0..Len(q)
      BY <2>2
    <2>4. SubSeq(q, 1, 0) = Main
      <3>1. IsSeq(SubSeq(q, 1, 0)) /\ Len(SubSeq(q, 1, 0)) = 0
        BY <2>2, <2>3, PrefixSeq
      <3>2. QED
        BY <3>1, OtherSeq DEF Main
    <2>5. Leaf(Main)
      BY Zenon, <1>1, Childless
    <2>6. QED
      BY Zenon, <2>1, <2>3, <2>4, <2>5 DEF Leaf
  <1>8. th' = [th EXCEPT ![Main] = r]
    BY Zenon, <1>5 DEF Moves
  <1>9. AtRest'
    <2>1. \A t \in DOMAIN th' : t = Main /\ th'[t].stk = <<>> /\ th'[t].res = "Waiting"
      BY <1>3, <1>7, <1>8
    <2>2. QED
      BY Zenon, <1>4, <1>5, <1>6, <2>1 DEF AtRest, Open
  <1>10. Fits(Main, r, mem') /\ IsSnap(store') /\ IsSnap(mem')
    BY Zenon, <1>4, <1>5 DEF Fits, Open
  <1>11. NotEarly'
    BY Zenon, <1>6 DEF NotEarly, DInv
  <1>12. QED
    BY ZenonT(30), <1>1, <1>3, <1>5, <1>9, <1>10, <1>11, ThreadsMove DEF DInv

(* delay_step. *)
LEMMA DelayD ==
  ASSUME DInv, DelaysOnSpine, NEW t, delay_step(t)
  PROVE DInv'
  <1> DEFINE f == Top(t)
             m == ParkedAtDelay(mem, f.at, f.val)
  <1>1. /\ Here(t, "main", "Delay", "enter")
        /\ \/ Guarded(t, Advance(Stk(t), f.val), mem, store)
           \/ DoDelay(t, Throw(Stk(t), "Waiting"), m, m, f.at.id)
    BY Zenon DEF delay_step
  <1>2. /\ t = Main /\ Stands(Main) /\ Open(mem) /\ IsSnap(store)
        /\ ThreadD(Main, Advance(Stk(Main), f.val))
    <2>1. "enter" # "join"
      OBVIOUS
    <2>2. QED
      BY Zenon, <1>1, <2>1, MainD
  <1>3. CASE Guarded(t, Advance(Stk(t), f.val), mem, store)
    BY Zenon, <1>2, <1>3, GuardedD
  <1>4. CASE DoDelay(t, Throw(Stk(t), "Waiting"), m, m, f.at.id)
    BY Zenon, <1>1, <1>2, <1>4, ParkD
  <1>5. QED
    BY Zenon, <1>1, <1>3, <1>4

(* signal_step. *)
LEMMA SignalD ==
  ASSUME DInv, DelaysOnSpine, NEW t, signal_step(t)
  PROVE DInv'
  <1> DEFINE f == Top(t)
             n == f.at
             parked == ParkedAtSignal(mem, n)
             m == AtNext(mark_task_completed(mem, n.id, f.val), n)
             g == [f EXCEPT !.pc = "save", !.val = Head(events)]
  <1>1. /\ \E pc \in {"enter", "save"} : Here(t, "main", "AwaitSignal", pc)
        /\ \/ \E v : Guarded(t, Advance(Stk(t), v), mem, store)
           \/ Guarded(t, Throw(Stk(t), "AwaitingSignal"), parked, parked)
           \/ Guarded(t, th[t], mem, store)
           \/ /\ Moves(t, SetTop(t, g)) /\ store' = store /\ mem' = mem
              /\ delays' = delays /\ ran' = ran
           \/ /\ Moves(t, Advance(Stk(t), f.val)) /\ store' = m /\ mem' = m
              /\ delays' = delays /\ ran' = ran
    BY Zenon DEF signal_step, Moves, env
  <1>2. /\ t = Main /\ Stands(Main) /\ StackD(Main, Stk(Main)) /\ FrameD(Main, f)
        /\ Stk(Main) # <<>> /\ ThreadD(Main, th[Main]) /\ Open(mem) /\ IsSnap(store)
        /\ \A v : ThreadD(Main, Advance(Stk(Main), v))
        /\ ThreadD(Main, Throw(Stk(Main), "AwaitingSignal"))
    <2>1. PICK pc \in {"enter", "save"} : Here(t, "main", "AwaitSignal", pc)
      BY Zenon, <1>1
    <2>2. pc # "join"
      OBVIOUS
    <2>3. QED
      BY Zenon, <2>1, <2>2, MainD DEF Stands
  <1>3. Open(parked) /\ Open(m)
    BY Zenon, <1>2, ComposedAreOpen, MarksAreOpen
  <1>4. LikeD(f, g)
    BY Zenon, <1>2, FormsD
  <1> HIDE DEF f, parked, m, g
  <1>5. ThreadD(Main, SetTop(Main, g))
    BY Zenon, <1>2, <1>4, SetTopD DEF f
  <1>6. CASE \E v : Guarded(t, Advance(Stk(t), v), mem, store)
    BY Zenon, <1>2, <1>6, GuardedD
  <1>7. CASE Guarded(t, Throw(Stk(t), "AwaitingSignal"), parked, parked)
    <2>1. IsSnap(parked)
      BY Zenon, <1>3 DEF Open
    <2>2. QED
      BY Zenon, <1>2, <1>3, <1>7, <2>1, GuardedD
  <1>8. CASE Guarded(t, th[t], mem, store)
    BY Zenon, <1>2, <1>8, GuardedD
  <1>9. CASE ran' = ran /\ delays' = delays
    <2>1. NotEarly'
      BY Zenon, <1>9 DEF NotEarly, DInv
    <2>2. IsSnap(m) /\ \A r, x : Open(x) => Fits(Main, r, x)
      BY Zenon, <1>3 DEF Fits, Open
    <2>3. CASE Moves(t, SetTop(t, g)) /\ store' = store /\ mem' = mem
      BY ZenonT(30), <1>2, <1>5, <1>9, <2>1, <2>2, <2>3, MoveD
    <2>4. CASE Moves(t, Advance(Stk(t), f.val)) /\ store' = m /\ mem' = m
      BY ZenonT(30), <1>2, <1>3, <1>9, <2>1, <2>2, <2>4, MoveD
    <2>5. QED
      BY ZenonT(30), <1>1, <1>6, <1>7, <1>8, <2>3, <2>4
  <1>10. QED
    BY Zenon, <1>1, <1>6, <1>7, <1>8, <1>9

(* A node with a subtree is entered, or skipped. *)
LEMMA EnterD ==
  ASSUME DInv, DelaysOnSpine, NEW t, NEW kind, NEW f, NEW sub, NEW v,
         NEW mode \in {"main", "branch"}, EnterOrSkip(t, kind, f, sub, v, mode),
         LikeD(Top(t), f), f.pc # "seq",
         sub # <<>> => /\ sub[1] \in Quiet \cup Spine
                       /\ Top(t).at \in Quiet \/ mode = "branch" => sub[1] \in Quiet
  PROVE DInv'
  <1>1. /\ Here(t, "main", kind, "enter")
        /\ \/ \E w : Guarded(t, Advance(Stk(t), w), mem, store)
           \/ Guarded(t, Throw(Stk(t), "Error"), mem, store)
           \/ sub # <<>> /\ Guarded(t, Call(t, f, sub[1], v, mode), mem, store)
    BY Zenon DEF EnterOrSkip
  <1>2. /\ t = Main /\ Stands(Main) /\ StackD(Main, Stk(Main)) /\ FrameD(Main, Top(Main))
        /\ Stk(Main) # <<>> /\ Open(mem) /\ IsSnap(store)
        /\ \A w : ThreadD(Main, Advance(Stk(Main), w))
        /\ ThreadD(Main, Throw(Stk(Main), "Error"))
    <2>1. "enter" # "join"
      OBVIOUS
    <2>2. QED
      BY Zenon, <1>1, <2>1, MainD DEF Stands
  <1>3. sub # <<>> => ThreadD(Main, Call(Main, f, sub[1], v, mode))
    BY Zenon, <1>2, CallsD
  <1>4. QED
    BY ZenonT(30), <1>1, <1>2, <1>3, GuardedD

(* Its result is saved. *)
LEMMA SaveResultD ==
  ASSUME DInv, DelaysOnSpine, NEW t, NEW kind, NEW v, SaveResult(t, kind, v)
  PROVE DInv'
  <1> DEFINE m == mark_task_completed(mem, Top(t).at.id, v)
  <1>1. Here(t, "main", kind, "back") /\ Do(t, Advance(Stk(t), v), m, m, sigs)
    BY Zenon DEF SaveResult
  <1>2. /\ t = Main /\ Stands(Main) /\ Open(mem) /\ ThreadD(Main, Advance(Stk(Main), v))
    <2>1. "back" # "join"
      OBVIOUS
    <2>2. QED
      BY Zenon, <1>1, <2>1, MainD
  <1>3. Open(m)
    BY Zenon, <1>2, MarksAreOpen
  <1> HIDE DEF m
  <1>4. IsSnap(m) /\ Fits(Main, Advance(Stk(Main), v), m)
    BY Zenon, <1>3 DEF Fits, Open
  <1>5. QED
    BY Zenon, <1>1, <1>2, <1>4, DoD

(* branch_step, of the engines that run an arm in a branch executor, and of   *)
(* the one that does not.                                                     *)
LEMMA BranchD ==
  ASSUME DInv, DelaysOnSpine, NEW t, NEW mode \in {"main", "branch"}, branch_step(t, mode),
         mode = "branch" => impl # "cf"
  PROVE DInv'
  <1>1. CASE EnterOrSkip(t, "Branch", Waits(t), resolve_branch(Top(t).at), Top(t).val, mode)
    <2>1. Here(t, "main", "Branch", "enter") /\ "enter" # "join" /\ "wait" # "fork" /\ "wait" # "seq"
      BY Zenon, <1>1 DEF EnterOrSkip
    <2>2. t = Main /\ FrameD(Main, Top(Main)) /\ IsFrame(Top(Main)) /\ Top(Main).at.kind = "Branch"
      BY Zenon, <2>1, MainD
    <2>3. LikeD(Top(t), Waits(t)) /\ Waits(t).pc # "seq"
      <3>1. LikeD(Top(t), Waits(t))
        BY Zenon, <2>1, <2>2, FormsD DEF Waits
      <3>2. Waits(t).pc = "wait"
        BY <2>2 DEF Waits, IsFrame
      <3>3. QED
        BY <3>1, <3>2
    <2>4. Top(t).at \in Quiet \cup Spine
      BY Zenon, <2>2 DEF FrameD
    <2>5. resolve_branch(Top(t).at) # <<>> =>
             /\ resolve_branch(Top(t).at)[1] \in Quiet \cup Spine
             /\ Top(t).at \in Quiet \/ mode = "branch" => resolve_branch(Top(t).at)[1] \in Quiet
      BY Zenon, <2>2, <2>4, NodesD
    <2>6. QED
      BY Zenon, <1>1, <2>3, <2>5, EnterD
  <1>2. CASE SaveResult(t, "Branch", Envelope(Top(t).at, Top(t).ret))
    BY Zenon, <1>2, SaveResultD
  <1>3. QED
    BY Zenon, <1>1, <1>2 DEF branch_step

(* child_step. *)
LEMMA ChildD ==
  ASSUME DInv, DelaysOnSpine, NEW t, child_step(t)
  PROVE DInv'
  <1>1. CASE EnterOrSkip(t, "ChildWorkflow", Waits(t), Top(t).at.subs, Top(t).val, "main")
    <2>1. /\ Here(t, "main", "ChildWorkflow", "enter")
          /\ "enter" # "join" /\ "wait" # "fork" /\ "main" # "branch"
      BY <1>1 DEF EnterOrSkip
    <2>2. /\ t = Main /\ FrameD(Main, Top(Main)) /\ IsFrame(Top(Main))
          /\ Top(Main).at.kind = "ChildWorkflow"
      BY Zenon, <2>1, MainD
    <2>3. LikeD(Top(t), Waits(t)) /\ Waits(t).pc # "seq"
      <3>1. LikeD(Top(t), Waits(t))
        BY Zenon, <2>1, <2>2, FormsD DEF Waits
      <3>2. Waits(t).pc = "wait"
        BY <2>2 DEF Waits, IsFrame
      <3>3. QED
        BY <3>1, <3>2
    <2>4. Top(t).at \in Quiet \cup Spine
      BY Zenon, <2>2 DEF FrameD
    <2>5. /\ Top(t).at.subs[1] \in Quiet \cup Spine
          /\ Top(t).at \in Quiet => Top(t).at.subs[1] \in Quiet
      BY Zenon, <2>2, <2>4, NodesD
    <2>6. QED
      BY ZenonT(30), <1>1, <2>1, <2>3, <2>5, EnterD
  <1>2. CASE SaveResult(t, "ChildWorkflow", Top(t).ret)
    BY Zenon, <1>2, SaveResultD
  <1>3. QED
    BY Zenon, <1>1, <1>2 DEF child_step

(* The main thread leaves an open snapshot behind. *)
LEMMA MainDoD ==
  ASSUME DInv, Stands(Main), NEW r, ThreadD(Main, r), NEW m, Open(m), NEW s, IsSnap(s),
         NEW sg, Do(Main, r, m, s, sg)
  PROVE DInv'
  <1>1. Fits(Main, r, m)
    BY Zenon DEF Fits, Open
  <1>2. QED
    BY Zenon, <1>1, DoD

(* The frame of a loop with its iteration. *)
LEMMA LoopFrameD ==
  ASSUME NEW t, FrameD(t, Top(t)), Top(t).at.kind = "Loop", NEW i
  PROVE /\ LikeD(Top(t), [Waits(t) EXCEPT !.i = i]) /\ [Waits(t) EXCEPT !.i = i].pc # "seq"
  <1>1. "wait" # "fork" /\ "Loop" # "Fork"
    OBVIOUS
  <1>2. LikeD(Top(t), [Waits(t) EXCEPT !.i = i])
    BY Zenon, <1>1, FormsD DEF Waits
  <1>3. [Waits(t) EXCEPT !.i = i].pc = "wait"
    BY DEF Waits, FrameD, IsFrame
  <1>4. QED
    BY <1>2, <1>3

(* A loop calls its body. *)
LEMMA LoopCallD ==
  ASSUME DInv, DelaysOnSpine, NEW pc, pc # "join", Here(Main, "main", "Loop", pc), NEW i, NEW v
  PROVE ThreadD(Main, Call(Main, [Waits(Main) EXCEPT !.i = i], Top(Main).at.subs[1], v, "main"))
  <1>1. /\ Stands(Main) /\ StackD(Main, Stk(Main)) /\ FrameD(Main, Top(Main))
        /\ Top(Main).at.kind = "Loop" /\ Stk(Main) # <<>>
    BY Zenon, MainD DEF Stands
  <1>2. /\ LikeD(Top(Main), [Waits(Main) EXCEPT !.i = i])
        /\ [Waits(Main) EXCEPT !.i = i].pc # "seq"
    BY Zenon, <1>1, LoopFrameD
  <1>3. Top(Main).at \in Quiet \cup Spine
    BY Zenon, <1>1 DEF FrameD
  <1>4. /\ Top(Main).at.subs[1] \in Quiet \cup Spine
        /\ Top(Main).at \in Quiet => Top(Main).at.subs[1] \in Quiet
    BY Zenon, <1>1, <1>3, NodesD
  <1>5. "main" # "branch" /\ "main" \in {"main", "branch"}
    OBVIOUS
  <1>6. QED
    BY ZenonT(30), <1>1, <1>2, <1>4, <1>5, CallsD

(* A loop is entered; subs are those of the node, or none. *)
LEMMA LoopEntersD ==
  ASSUME DInv, DelaysOnSpine, NEW t, NEW i, NEW sub \in {Top(t).at.subs, <<>>}, NEW v,
         EnterOrSkip(t, "Loop", [Waits(t) EXCEPT !.i = i], sub, v, "main")
  PROVE DInv'
  <1>1. Here(t, "main", "Loop", "enter") /\ "enter" # "join" /\ "main" \in {"main", "branch"}
        /\ "main" # "branch"
    BY DEF EnterOrSkip
  <1>2. t = Main /\ FrameD(Main, Top(Main)) /\ Top(Main).at.kind = "Loop"
    BY Zenon, <1>1, MainD
  <1>3. /\ LikeD(Top(t), [Waits(t) EXCEPT !.i = i]) /\ [Waits(t) EXCEPT !.i = i].pc # "seq"
    BY Zenon, <1>2, LoopFrameD
  <1>4. Top(t).at \in Quiet \cup Spine
    BY Zenon, <1>2 DEF FrameD
  <1>5. /\ Top(t).at.subs[1] \in Quiet \cup Spine
        /\ Top(t).at \in Quiet => Top(t).at.subs[1] \in Quiet
    BY Zenon, <1>2, <1>4, NodesD
  <1>6. sub # <<>> => /\ sub[1] \in Quiet \cup Spine
                      /\ Top(t).at \in Quiet \/ "main" = "branch" => sub[1] \in Quiet
    BY Zenon, <1>1, <1>5
  <1>7. QED
    BY ZenonT(30), <1>1, <1>3, <1>6, EnterD

(* loop_step. *)
LEMMA LoopD ==
  ASSUME DInv, DelaysOnSpine, NEW t, loop_step(t)
  PROVE DInv'
  <1> DEFINE f == Top(t)
             n == f.at
             m == remove_task_results(mem, AllIds(n.subs[1]))
             exit == LoopExit(m, n, f.ret)
             next == InLoop(m, n, f.i + 1)
             call == Call(t, [Waits(t) EXCEPT !.i = f.i + 1], n.subs[1], f.ret, "main")
  <1>1. CASE LoopEntry(t)
    <2> DEFINE i == loop_iteration(mem, n.id)
               sub == IF i < n.n THEN n.subs ELSE <<>>
    <2>1. EnterOrSkip(t, "Loop", [Waits(t) EXCEPT !.i = i], sub, f.val, "main")
      BY Zenon, <1>1 DEF LoopEntry
    <2>2. sub \in {Top(t).at.subs, <<>>}
      OBVIOUS
    <2> HIDE DEF sub, i
    <2>3. QED
      BY ZenonT(30), <2>1, <2>2, LoopEntersD
  <1>2. CASE /\ Here(t, "main", "Loop", "back")
             /\ \/ Do(t, Advance(Stk(t), f.ret), exit, exit, sigs)
                \/ Do(t, call, next, next, sigs)
                \/ Do(t, Throw(Stk(t), "Error"), m, store, sigs)
    <2>1. "back" # "join"
      OBVIOUS
    <2>2. /\ t = Main /\ Stands(Main) /\ Open(mem) /\ IsSnap(store)
          /\ ThreadD(Main, Advance(Stk(Main), f.ret))
          /\ ThreadD(Main, Throw(Stk(Main), "Error"))
      BY Zenon, <1>2, <2>1, MainD
    <2>3. ThreadD(Main, call)
      BY Zenon, <1>2, <2>1, <2>2, LoopCallD
    <2>4. Open(m)
      BY Zenon, <2>2, RemoveIsSnap DEF Open
    <2>5. Open(exit) /\ Open(next) /\ IsSnap(exit) /\ IsSnap(next)
      BY ZenonT(30), <2>4, ComposedAreOpen DEF Open
    <2> HIDE DEF m, exit, next, call
    <2>6. QED
      BY ZenonT(30), <1>2, <2>2, <2>3, <2>4, <2>5, MainDoD
  <1>3. QED
    BY Zenon, <1>1, <1>2 DEF loop_step

(* On from a fork, to its join. *)
LEMMA JoinedD ==
  ASSUME DelaysOnSpine, NEW t, NEW s, StackD(t, s), s # <<>>, NEW results
  PROVE ThreadD(t, Joined(s, results))
  <1> DEFINE j == resolve_join(TopOf(s).at, results)
  <1>1. "Error" # "Waiting"
    OBVIOUS
  <1>2. ThreadD(t, Advance(s, j.v)) /\ ThreadD(t, Throw(s, "Error"))
    BY Zenon, <1>1, AdvanceD, ThrowD
  <1>3. Joined(s, results) = IF j.ok THEN Advance(s, j.v) ELSE Throw(s, "Error")
    BY Zenon DEF Joined
  <1> HIDE DEF j
  <1>4. QED
    BY Zenon, <1>2, <1>3

(* settle_fork_outcome: with no delay in its branches a fork does not wait. *)
LEMMA SettleD ==
  ASSUME DInv, DelaysOnSpine, NEW t, settle_fork_outcome(t)
  PROVE DInv'
  <1> DEFINE f == Top(t)
             m == save_join_position(t)
  <1>1. Here(t, "main", "Fork", "settle") /\ "settle" # "join"
    BY DEF settle_fork_outcome
  <1>2. /\ t = Main /\ Stands(Main) /\ StackD(Main, Stk(Main)) /\ FrameD(Main, f)
        /\ Stk(Main) # <<>> /\ Open(mem) /\ IsSnap(store)
    BY Zenon, <1>1, MainD DEF Stands
  <1>3. Top(t).wait = FALSE
    BY Zenon, <1>2 DEF FrameD
  <1>4. Guarded(t, Joined(Stk(t), f.acc), m, m)
    BY Zenon, <1>3 DEF settle_fork_outcome
  <1>5. ThreadD(Main, Joined(Stk(Main), f.acc))
    BY Zenon, <1>2, JoinedD
  <1>6. Open(m)
    <2>1. Open(MarkAll(mem, f.acc))
      BY Zenon, <1>2, MarkAllIsSnap DEF Open
    <2>2. QED
      BY Zenon, <2>1, MarksAreOpen DEF save_join_position
  <1>7. IsSnap(m)
    BY Zenon, <1>6 DEF Open
  <1> HIDE DEF m
  <1>8. QED
    BY Zenon, <1>2, <1>4, <1>5, <1>6, <1>7, GuardedD

(* c_fork. *)
LEMMA CallbackForkD ==
  ASSUME DInv, DelaysOnSpine, NEW t, c_fork(t)
  PROVE DInv'
  <1> DEFINE f == Top(t)
             g == [f EXCEPT !.pc = "fork", !.i = 1]
  <1>1. /\ Here(t, "main", "Fork", "enter")
        /\ \/ \E rs : Guarded(t, Joined(Stk(t), rs), mem, store)
           \/ Guarded(t, SetTop(t, g), mem, store)
    BY Zenon DEF c_fork
  <1>2. "enter" # "join"
    OBVIOUS
  <1>3. /\ t = Main /\ Stands(Main) /\ StackD(Main, Stk(Main)) /\ FrameD(Main, f)
        /\ f.at.kind = "Fork" /\ Stk(Main) # <<>> /\ Open(mem) /\ IsSnap(store)
    BY Zenon, <1>1, <1>2, MainD DEF Stands
  <1>4. LikeD(f, g)
    BY Zenon, <1>3, ForkFormsD
  <1> HIDE DEF g
  <1>5. ThreadD(Main, SetTop(Main, g))
    BY Zenon, <1>3, <1>4, SetTopD
  <1>6. \A rs : ThreadD(Main, Joined(Stk(Main), rs))
    BY Zenon, <1>3, JoinedD
  <1>7. QED
    BY Zenon, <1>1, <1>3, <1>5, <1>6, GuardedD

(* The branch that a fork is at. *)
LEMMA BranchNodeD ==
  ASSUME DInv, DelaysOnSpine, NEW n \in Quiet \cup Spine, n.kind = "Fork",
         NEW i \in Nat, i > 0, ~(i > Len(n.subs))
  PROVE n.subs[i] \in Quiet
  <1>1. n.subs \in Seq(Quiet)
    BY Zenon, NodesD
  <1>2. Len(n.subs) \in Nat
    BY <1>1
  <1>3. i \in 1..Len(n.subs)
    BY <1>2
  <1>4. QED
    BY <1>1, <1>3

(* What a fork that goes from branch to branch may do next. *)
LEMMA ForkMovesD ==
  ASSUME DInv, DelaysOnSpine, NEW pc \in {"enter", "fork", "back"},
         Here(Main, "main", "Fork", pc), NEW x, NEW mode \in {"main", "branch"}
  PROVE /\ ThreadD(Main, SetTop(Main, [Top(Main) EXCEPT !.pc = "fork", !.i = 1]))
        /\ ThreadD(Main, SetTop(Main, [Top(Main) EXCEPT !.pc = "settle", !.i = 0]))
        /\ ThreadD(Main, SetTop(Main, [Top(Main) EXCEPT !.pc = "fork", !.i = @ + 1,
                                                        !.acc = Append(@, x)]))
        /\ pc = "fork" /\ ~(Top(Main).i > Len(Top(Main).at.subs)) =>
             ThreadD(Main, Call(Main, [Top(Main) EXCEPT !.pc = "seq"],
                                Top(Main).at.subs[Top(Main).i], Top(Main).val, mode))
  <1> DEFINE f == Top(Main)
             g == [f EXCEPT !.pc = "seq"]
             n == f.at.subs[f.i]
  <1>1. pc # "join"
    OBVIOUS
  <1>2. /\ StackD(Main, Stk(Main)) /\ FrameD(Main, f) /\ f.at.kind = "Fork" /\ f.pc = pc
        /\ Stk(Main) # <<>>
    BY Zenon, <1>1, MainD DEF Stands
  <1>3. /\ LikeD(f, [f EXCEPT !.pc = "fork", !.i = @ + 1, !.acc = Append(@, x)])
        /\ LikeD(f, [f EXCEPT !.pc = "fork", !.i = 1])
        /\ LikeD(f, [f EXCEPT !.pc = "settle", !.i = 0])
    BY Zenon, <1>2, ForkFormsD
  <1>4. LikeD(f, g)
    <2>1. "seq" # "fork"
      OBVIOUS
    <2>2. QED
      BY Zenon, <1>2, <2>1, FormsD
  <1>5. ASSUME pc = "fork", ~(f.i > Len(f.at.subs)) PROVE n \in Quiet
    <2>1. f.at \in Quiet \cup Spine /\ f.i \in Nat /\ f.i > 0
      BY <1>2, <1>5 DEF FrameD
    <2>2. QED
      BY ZenonT(30), <1>2, <1>5, <2>1, BranchNodeD
  <1> HIDE DEF n, g
  <1>6. ASSUME pc = "fork", ~(f.i > Len(f.at.subs)) PROVE ThreadD(Main, Call(Main, g, n, f.val, mode))
    <2>1. n \in Quiet /\ n \in Quiet \cup Spine
      BY <1>5, <1>6
    <2>2. QED
      BY ZenonT(30), <1>2, <1>4, <2>1, CallsD
  <1>7. QED
    BY Zenon, <1>2, <1>3, <1>6, SetTopD DEF n, g

(* execute_fork_branches_sequential. *)
LEMMA SequentialD ==
  ASSUME DInv, DelaysOnSpine, NEW t, execute_fork_branches_sequential(t)
  PROVE DInv'
  <1> DEFINE f == Top(t)
             b == f.at.subs[f.i]
             m == mark_task_completed(mem, b.id, f.ret)
             s == save_task_result(store, b.id, f.ret)
             took(x) == SetTop(t, [f EXCEPT !.pc = "fork", !.i = @ + 1, !.acc = Append(@, x)])
  <1>1. \E pc \in {"fork", "back"} :
          /\ Here(t, "main", "Fork", pc)
          /\ \/ Do(t, SetTop(t, [f EXCEPT !.pc = "settle", !.i = 0]), mem, store, sigs)
             \/ \E x : Do(t, took(x), mem, store, sigs)
             \/ /\ pc = "fork" /\ ~(f.i > Len(f.at.subs))
                /\ Do(t, Call(t, [f EXCEPT !.pc = "seq"], b, f.val, "branch"), mem, store, sigs)
             \/ \E x : Do(t, took(x), m, s, sigs)
    BY Zenon DEF execute_fork_branches_sequential
  <1>2. PICK pc \in {"fork", "back"} :
          /\ Here(t, "main", "Fork", pc)
          /\ \/ Do(t, SetTop(t, [f EXCEPT !.pc = "settle", !.i = 0]), mem, store, sigs)
             \/ \E x : Do(t, took(x), mem, store, sigs)
             \/ /\ pc = "fork" /\ ~(f.i > Len(f.at.subs))
                /\ Do(t, Call(t, [f EXCEPT !.pc = "seq"], b, f.val, "branch"), mem, store, sigs)
             \/ \E x : Do(t, took(x), m, s, sigs)
    BY Zenon, <1>1
  <1>3. pc # "join" /\ pc \in {"enter", "fork", "back"} /\ "branch" \in {"main", "branch"}
    OBVIOUS
  <1>4. t = Main /\ Stands(Main) /\ Open(mem) /\ IsSnap(store)
    BY Zenon, <1>2, <1>3, MainD
  <1>5. /\ \A x : ThreadD(Main, took(x))
        /\ ThreadD(Main, SetTop(t, [f EXCEPT !.pc = "settle", !.i = 0]))
        /\ pc = "fork" /\ ~(f.i > Len(f.at.subs)) =>
             ThreadD(Main, Call(t, [f EXCEPT !.pc = "seq"], b, f.val, "branch"))
    BY Zenon, <1>2, <1>3, <1>4, ForkMovesD
  <1>6. Open(m) /\ IsSnap(s)
    BY Zenon, <1>4, MarksAreOpen, MarkIsSnap DEF save_task_result
  <1> HIDE DEF m, s, took, b
  <1>7. QED
    BY ZenonT(30), <1>2, <1>4, <1>5, <1>6, MainDoD

(* handle_task. *)
LEMMA CfTaskD ==
  ASSUME DInv, DelaysOnSpine, NEW t, handle_task(t)
  PROVE DInv'
  <1> DEFINE f == Top(t)
             n == f.at
             v == Apply(n.id, f.val)
             save == [f EXCEPT !.pc = "save", !.val = v]
             exec == [f EXCEPT !.pc = "exec"]
             m == AtNext(mark_task_completed(mem, n.id, f.val), n)
  <1>1. \E pc \in {"enter", "exec", "save"} :
          /\ Here(t, "main", "Task", pc)
          /\ \/ \E w : Guarded(t, Advance(Stk(t), w), mem, store)
             \/ Guarded(t, SetTop(t, exec), mem, store)
             \/ DoRun(t, SetTop(t, save), mem, n, v)
             \/ DoFail(t, Throw(Stk(t), "Error"), mem, store)
             \/ SavedGuarded(t, Advance(Stk(t), f.val), m)
    BY Zenon DEF handle_task
  <1>2. PICK pc \in {"enter", "exec", "save"} : Here(t, "main", "Task", pc)
    BY Zenon, <1>1
  <1>3. pc # "join" /\ "Error" # "Waiting" /\ "save" # "fork" /\ "exec" # "fork"
    OBVIOUS
  <1>4. /\ t = Main /\ Stands(Main) /\ StackD(Main, Stk(Main)) /\ FrameD(Main, f)
        /\ Stk(Main) # <<>> /\ Open(mem) /\ IsSnap(store)
        /\ \A w : ThreadD(Main, Advance(Stk(Main), w))
        /\ ThreadD(Main, Throw(Stk(Main), "Error"))
    BY Zenon, <1>2, <1>3, MainD DEF Stands
  <1>5. LikeD(f, save) /\ LikeD(f, exec)
    BY ZenonT(30), <1>3, <1>4, FormsD
  <1>6. Open(m)
    BY Zenon, <1>4, MarksAreOpen, ComposedAreOpen
  <1> HIDE DEF m, save, exec, v
  <1>7. ThreadD(Main, SetTop(Main, save)) /\ ThreadD(Main, SetTop(Main, exec))
    BY Zenon, <1>4, <1>5, SetTopD
  <1>8. \A r : Fits(Main, r, mem)
    BY Zenon, <1>4 DEF Fits, Open
  <1>9. CASE \/ \E w : Guarded(t, Advance(Stk(t), w), mem, store)
             \/ Guarded(t, SetTop(t, exec), mem, store)
    BY Zenon, <1>4, <1>7, <1>9, GuardedD
  <1>10. CASE DoRun(t, SetTop(t, save), mem, n, v)
    BY ZenonT(30), <1>4, <1>7, <1>8, <1>10, DoRunD
  <1>11. CASE DoFail(t, Throw(Stk(t), "Error"), mem, store)
    BY Zenon, <1>4, <1>8, <1>11, DoFailD
  <1>12. CASE SavedGuarded(t, Advance(Stk(t), f.val), m)
    BY Zenon, <1>4, <1>6, <1>12, SavedGuardedD
  <1>13. QED
    BY ZenonT(30), <1>1, <1>9, <1>10, <1>11, <1>12

(* handle_fork. *)
LEMMA CfForkD ==
  ASSUME DInv, DelaysOnSpine, NEW t, handle_fork(t)
  PROVE DInv'
  <1> DEFINE f == Top(t)
             b == f.at.subs[f.i]
             m == mark_task_completed(mem, b.id, f.ret)
             took(x) == SetTop(t, [f EXCEPT !.pc = "fork", !.i = @ + 1, !.acc = Append(@, x)])
  <1>1. \E pc \in {"enter", "fork", "back"} :
          /\ Here(t, "main", "Fork", pc)
          /\ \/ Guarded(t, SetTop(t, [f EXCEPT !.pc = "fork", !.i = 1]), mem, store)
             \/ f.wait
             \/ \E w : Do(t, Advance(Stk(t), w), mem, store, sigs)
             \/ \E x : Do(t, took(x), mem, store, sigs)
             \/ /\ pc = "fork" /\ ~(f.i > Len(f.at.subs))
                /\ Do(t, Call(t, [f EXCEPT !.pc = "seq"], b, f.val, "main"), mem, store, sigs)
             \/ \E x : Do(t, took(x), m, m, sigs)
    BY Zenon DEF handle_fork
  <1>2. PICK pc \in {"enter", "fork", "back"} :
          /\ Here(t, "main", "Fork", pc)
          /\ \/ Guarded(t, SetTop(t, [f EXCEPT !.pc = "fork", !.i = 1]), mem, store)
             \/ f.wait
             \/ \E w : Do(t, Advance(Stk(t), w), mem, store, sigs)
             \/ \E x : Do(t, took(x), mem, store, sigs)
             \/ /\ pc = "fork" /\ ~(f.i > Len(f.at.subs))
                /\ Do(t, Call(t, [f EXCEPT !.pc = "seq"], b, f.val, "main"), mem, store, sigs)
             \/ \E x : Do(t, took(x), m, m, sigs)
    BY Zenon, <1>1
  <1>3. pc # "join" /\ "main" \in {"main", "branch"}
    OBVIOUS
  <1>4. /\ t = Main /\ Stands(Main) /\ Open(mem) /\ IsSnap(store) /\ FrameD(Main, f)
        /\ \A w : ThreadD(Main, Advance(Stk(Main), w))
    BY Zenon, <1>2, <1>3, MainD
  <1>5. /\ \A x : ThreadD(Main, took(x))
        /\ ThreadD(Main, SetTop(t, [f EXCEPT !.pc = "fork", !.i = 1]))
        /\ pc = "fork" /\ ~(f.i > Len(f.at.subs)) =>
             ThreadD(Main, Call(t, [f EXCEPT !.pc = "seq"], b, f.val, "main"))
    BY ZenonT(30), <1>2, <1>3, <1>4, ForkMovesD
  <1>6. Open(m) /\ f.wait = FALSE
    BY Zenon, <1>4, MarksAreOpen DEF FrameD
  <1>11. IsSnap(m)
    BY Zenon, <1>6 DEF Open
  <1> HIDE DEF m, took, b
  <1>7. CASE Guarded(t, SetTop(t, [f EXCEPT !.pc = "fork", !.i = 1]), mem, store)
    BY ZenonT(30), <1>4, <1>5, <1>7, GuardedD
  <1>8. CASE \/ \E w : Do(t, Advance(Stk(t), w), mem, store, sigs)
             \/ \E x : Do(t, took(x), mem, store, sigs)
             \/ \E x : Do(t, took(x), m, m, sigs)
    BY ZenonT(30), <1>4, <1>5, <1>6, <1>8, <1>11, MainDoD
  <1>9. CASE /\ pc = "fork" /\ ~(f.i > Len(f.at.subs))
             /\ Do(t, Call(t, [f EXCEPT !.pc = "seq"], b, f.val, "main"), mem, store, sigs)
    BY ZenonT(30), <1>4, <1>5, <1>9, MainDoD
  <1>10. QED
    BY ZenonT(30), <1>2, <1>6, <1>7, <1>8, <1>9

(* handle_loop. *)
LEMMA CfLoopD ==
  ASSUME DInv, DelaysOnSpine, NEW t, handle_loop(t)
  PROVE DInv'
  <1> DEFINE f == Top(t)
             n == f.at
             i == loop_iteration(mem, n.id)
             m == remove_task_results(mem, AllIds(n.subs[1]))
             exit == LoopExit(m, n, f.ret)
             next == InLoop(m, n, f.i + 1)
             last == LoopExit(mem, n, f.val)
             max == [f EXCEPT !.pc = "max"]
             maxv == [f EXCEPT !.pc = "max", !.val = f.ret]
             call == Call(t, [Waits(t) EXCEPT !.i = f.i + 1], n.subs[1], f.ret, "main")
  <1>1. CASE EnterOrSkip(t, "Loop", [Waits(t) EXCEPT !.i = i], n.subs, f.val, "main")
    <2>1. n.subs \in {Top(t).at.subs, <<>>}
      OBVIOUS
    <2> HIDE DEF i
    <2>2. QED
      BY Zenon, <1>1, <2>1, LoopEntersD
  <1>2. CASE \E pc \in {"enter", "back", "max"} :
               /\ Here(t, "main", "Loop", pc)
               /\ \/ Guarded(t, SetTop(t, max), mem, store)
                  \/ Do(t, Advance(Stk(t), f.ret), exit, exit, sigs)
                  \/ Do(t, call, next, next, sigs)
                  \/ Do(t, SetTop(t, maxv), next, next, sigs)
                  \/ Do(t, Advance(Stk(t), f.val), last, last, sigs)
                  \/ Do(t, Throw(Stk(t), "Error"), mem, store, sigs)
    <2>1. PICK pc \in {"enter", "back", "max"} : Here(t, "main", "Loop", pc)
      BY Zenon, <1>2
    <2>2. pc # "join" /\ "Error" # "Waiting" /\ "max" # "fork"
      OBVIOUS
    <2>3. /\ t = Main /\ Stands(Main) /\ StackD(Main, Stk(Main)) /\ FrameD(Main, f)
          /\ Stk(Main) # <<>> /\ Open(mem) /\ IsSnap(store)
          /\ \A w : ThreadD(Main, Advance(Stk(Main), w))
          /\ ThreadD(Main, Throw(Stk(Main), "Error"))
      BY Zenon, <2>1, <2>2, MainD DEF Stands
    <2>4. ThreadD(Main, call)
      BY ZenonT(30), <2>1, <2>2, <2>3, LoopCallD
    <2>5. LikeD(f, max) /\ LikeD(f, maxv)
      BY Zenon, <2>2, <2>3, FormsD
    <2>6. Open(m)
      BY Zenon, <2>3, RemoveIsSnap DEF Open
    <2>7. Open(exit) /\ Open(next) /\ Open(last)
      BY Zenon, <2>3, <2>6, ComposedAreOpen
    <2> HIDE DEF m, exit, next, last, call, max, maxv
    <2>11. IsSnap(exit) /\ IsSnap(next) /\ IsSnap(last)
      BY Zenon, <2>7 DEF Open
    <2>8. ThreadD(Main, SetTop(Main, max)) /\ ThreadD(Main, SetTop(Main, maxv))
      BY Zenon, <2>3, <2>5, SetTopD
    <2>9. CASE Guarded(t, SetTop(t, max), mem, store)
      BY ZenonT(30), <2>3, <2>8, <2>9, GuardedD
    <2>10. QED
      BY ZenonT(30), <1>2, <2>3, <2>4, <2>7, <2>8, <2>9, <2>11, MainDoD
  <1> DEFINE moves == \/ Guarded(t, SetTop(t, max), mem, store)
                       \/ Do(t, Advance(Stk(t), f.ret), exit, exit, sigs)
                       \/ Do(t, call, next, next, sigs)
                       \/ Do(t, SetTop(t, maxv), next, next, sigs)
                       \/ Do(t, Advance(Stk(t), f.val), last, last, sigs)
                       \/ Do(t, Throw(Stk(t), "Error"), mem, store, sigs)
  <1>3. CASE Here(t, "main", "Loop", "enter") /\ moves
    BY Zenon, <1>2, <1>3
  <1>4. CASE Here(t, "main", "Loop", "back") /\ moves
    BY Zenon, <1>2, <1>4
  <1>5. CASE Here(t, "main", "Loop", "max") /\ moves
    BY Zenon, <1>2, <1>5
  <1>6. QED
    BY ZenonT(30), <1>1, <1>3, <1>4, <1>5 DEF handle_loop

=============================================================================
