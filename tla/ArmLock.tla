------------------------------- MODULE ArmLock -------------------------------
(***************************************************************************)
(* The execution lock of src/src/arm.c: recursive, fair, handed straight   *)
(* from the releasing thread to the first waiter.  Host threads run the    *)
(* lock's code step by step; a step ends where another thread can see or   *)
(* change what the next one uses, so the critical sections of g_m are      *)
(* single steps except where a spinning waiter, which reads its go flag    *)
(* without g_m, can run in the middle of one (the hand-over in             *)
(* arm_lock_release).                                                      *)
(*                                                                         *)
(* The callers are modelled by what src/src/arm.h lets them do: scoped     *)
(* ArmLockGuards, and unlock_all/relock pairs (gaps) inside which further  *)
(* guards and gaps may nest (sched64_run_thread runs whole slices there).  *)
(***************************************************************************)
EXTENDS Naturals, Sequences, FiniteSets

CONSTANTS Threads, NoThread,
          Labels,     \* hold labels a caller may set; 0 is "unlabelled"
          MaxGuards,  \* bound: guards a thread opens at one nesting level
          MaxGaps     \* bound: unlock_all/relock pairs a thread nests

ASSUME ThreadsAssumption == NoThread \notin Threads /\ IsFiniteSet(Threads)
ASSUME BoundsAssumption == MaxGuards \in Nat /\ MaxGaps \in Nat /\ 0 \in Labels

VARIABLES gm,            \* the thread inside a g_m section, or NoThread
          g_locked,
          queue,         \* g_head ... g_tail
          g_waiters,
          go, sleeping,  \* the fields of each thread's waiter node
          t_depth, t_tag, t_tag_saved,
          pc,
          target, asleep,  \* locals w and asleep of arm_lock_release
          cont,          \* the call the lock code returns into
          guards,        \* caller: open guards per level, innermost first
          dropped        \* caller: what each open unlock_all returned, with
                         \* the label then in force

shared == <<gm, g_locked, queue, g_waiters, go, sleeping>>
locals == <<t_depth, t_tag, t_tag_saved, pc, target, asleep, cont>>
caller == <<guards, dropped>>
vars == <<shared, locals, caller>>

\* run: outside the lock's code; acq, park, rel: about to lock g_m;
\* wait: in pthread_cond_wait; spin, leave: queued, without g_m;
\* handoff, signal: inside arm_lock_release's section of g_m.
PC == {"run", "acq", "spin", "park", "wait", "leave", "rel", "handoff", "signal"}
Cont == {"none", "acquire", "release", "yield", "relock"}
Queued == {"spin", "park", "wait"}
Gap == [depth : Nat, label : Labels]

TypeOK == /\ gm \in Threads \cup {NoThread}
          /\ g_locked \in BOOLEAN
          /\ queue \in Seq(Threads)
          /\ g_waiters \in Nat
          /\ go \in [Threads -> BOOLEAN] /\ sleeping \in [Threads -> BOOLEAN]
          /\ t_depth \in [Threads -> Nat]
          /\ t_tag \in [Threads -> Labels] /\ t_tag_saved \in [Threads -> Labels]
          /\ pc \in [Threads -> PC]
          /\ target \in [Threads -> Threads \cup {NoThread}]
          /\ asleep \in [Threads -> BOOLEAN]
          /\ cont \in [Threads -> Cont]
          /\ guards \in [Threads -> Seq(Nat)]
          /\ dropped \in [Threads -> Seq(Gap)]

Init == /\ gm = NoThread /\ g_locked = FALSE /\ queue = <<>> /\ g_waiters = 0
        /\ go = [t \in Threads |-> FALSE] /\ sleeping = [t \in Threads |-> FALSE]
        /\ t_depth = [t \in Threads |-> 0]
        /\ t_tag = [t \in Threads |-> 0] /\ t_tag_saved = [t \in Threads |-> 0]
        /\ pc = [t \in Threads |-> "run"]
        /\ target = [t \in Threads |-> NoThread]
        /\ asleep = [t \in Threads |-> FALSE]
        /\ cont = [t \in Threads |-> "none"]
        /\ guards = [t \in Threads |-> <<0>>]
        /\ dropped = [t \in Threads |-> <<>>]

Goto(t, l) == pc' = [pc EXCEPT ![t] = l]
SetGuards(t, n) == guards' = [guards EXCEPT ![t] = <<n>> \o Tail(guards[t])]

-----------------------------------------------------------------------------
(* Calls made by a thread that is outside the lock's code.                  *)

ArmLockAcquire(t) ==
  /\ pc[t] = "run" /\ Head(guards[t]) < MaxGuards
  /\ SetGuards(t, Head(guards[t]) + 1)
  /\ IF t_depth[t] > 0
     THEN /\ t_depth' = [t_depth EXCEPT ![t] = @ + 1]
          /\ UNCHANGED <<pc, cont>>
     ELSE /\ Goto(t, "acq")
          /\ cont' = [cont EXCEPT ![t] = "acquire"]
          /\ UNCHANGED t_depth
  /\ UNCHANGED <<shared, t_tag, t_tag_saved, target, asleep, dropped>>

\* The outermost release goes on to lock g_m; an inner one only counts down.
ArmLockRelease(t) ==
  /\ pc[t] = "run" /\ Head(guards[t]) > 0
  /\ SetGuards(t, Head(guards[t]) - 1)
  /\ t_depth' = [t_depth EXCEPT ![t] = IF @ = 0 THEN 0 ELSE @ - 1]
  /\ IF t_depth[t] = 1
     THEN Goto(t, "rel") /\ cont' = [cont EXCEPT ![t] = "release"]
     ELSE UNCHANGED <<pc, cont>>
  /\ UNCHANGED <<shared, t_tag, t_tag_saved, target, asleep, dropped>>

\* Mutant of DropAll: the count is read after it was set to 1.
DropAllReturnsOne(t, c) ==
  /\ guards' = [guards EXCEPT ![t] = <<0>> \o @]
  /\ dropped' = [dropped EXCEPT ![t] =
        <<[depth |-> IF t_depth[t] > 0 THEN 1 ELSE 0, label |-> t_tag[t]]>> \o @]
  /\ IF t_depth[t] > 0
     THEN /\ t_tag_saved' = [t_tag_saved EXCEPT ![t] = t_tag[t]]
          /\ t_depth' = [t_depth EXCEPT ![t] = 0]
          /\ Goto(t, "rel")
          /\ cont' = [cont EXCEPT ![t] = c]
     ELSE UNCHANGED <<t_tag_saved, t_depth, pc, cont>>
  /\ UNCHANGED <<shared, t_tag, target, asleep>>

\* arm_lock_unlock_all, called with the continuation c.
DropAll(t, c) ==
  /\ guards' = [guards EXCEPT ![t] = <<0>> \o @]
  /\ dropped' = [dropped EXCEPT ![t] =
                   <<[depth |-> t_depth[t], label |-> t_tag[t]]>> \o @]
  /\ IF t_depth[t] > 0
     THEN /\ t_tag_saved' = [t_tag_saved EXCEPT ![t] = t_tag[t]]
          /\ t_depth' = [t_depth EXCEPT ![t] = 0]
          /\ Goto(t, "rel")
          /\ cont' = [cont EXCEPT ![t] = c]
     ELSE UNCHANGED <<t_tag_saved, t_depth, pc, cont>>
  /\ UNCHANGED <<shared, t_tag, target, asleep>>

ArmLockUnlockAll(t) ==
  /\ pc[t] = "run" /\ Len(dropped[t]) < MaxGaps
  /\ DropAll(t, "release")

\* Without a waiter, or without the lock, arm_lock_yield changes nothing.
ArmLockYield(t) ==
  /\ pc[t] = "run" /\ g_waiters # 0 /\ t_depth[t] > 0
  /\ DropAll(t, "yield")

CloseGap(t) == /\ guards' = [guards EXCEPT ![t] = Tail(@)]
               /\ dropped' = [dropped EXCEPT ![t] = Tail(@)]

ArmLockRelock(t) ==
  /\ pc[t] = "run" /\ dropped[t] # <<>> /\ Head(guards[t]) = 0
  /\ IF Head(dropped[t]).depth = 0
     THEN CloseGap(t) /\ UNCHANGED <<pc, cont>>
     ELSE /\ Goto(t, "acq")
          /\ cont' = [cont EXCEPT ![t] = "relock"]
          /\ UNCHANGED caller
  /\ UNCHANGED <<shared, t_depth, t_tag, t_tag_saved, target, asleep>>

ArmLockTag(t) ==
  /\ pc[t] = "run" /\ t_depth[t] > 0
  /\ \E l \in Labels : t_tag' = [t_tag EXCEPT ![t] = l]
  /\ UNCHANGED <<shared, t_depth, t_tag_saved, pc, target, asleep, cont, caller>>

-----------------------------------------------------------------------------
(* Inside arm_lock_acquire.                                                 *)

\* The tail of arm_lock_acquire, and of arm_lock_relock when that called it.
Acquired(t) ==
  /\ Goto(t, "run")
  /\ IF cont[t] = "relock"
     THEN /\ t_tag' = [t_tag EXCEPT ![t] = t_tag_saved[t]]
          /\ t_depth' = [t_depth EXCEPT ![t] = Head(dropped[t]).depth]
          /\ CloseGap(t)
     ELSE /\ t_tag' = [t_tag EXCEPT ![t] = 0]
          /\ t_depth' = [t_depth EXCEPT ![t] = 1]
          /\ UNCHANGED caller
  /\ cont' = [cont EXCEPT ![t] = "none"]
  /\ UNCHANGED <<t_tag_saved, target, asleep>>

TakeFree(t) ==
  /\ pc[t] = "acq" /\ gm = NoThread /\ ~g_locked /\ queue = <<>>
  /\ g_locked' = TRUE
  /\ Acquired(t)
  /\ UNCHANGED <<gm, queue, g_waiters, go, sleeping>>

\* Mutant of Enqueue: a waiter joins at the head.
EnqueueAtHead(t) ==
  /\ pc[t] = "acq" /\ gm = NoThread /\ (g_locked \/ queue # <<>>)
  /\ queue' = <<t>> \o queue
  /\ go' = [go EXCEPT ![t] = FALSE]
  /\ sleeping' = [sleeping EXCEPT ![t] = FALSE]
  /\ g_waiters' = g_waiters + 1
  /\ Goto(t, "spin")
  /\ UNCHANGED <<gm, g_locked, t_depth, t_tag, t_tag_saved, target, asleep,
                 cont, caller>>

Enqueue(t) ==
  /\ pc[t] = "acq" /\ gm = NoThread /\ (g_locked \/ queue # <<>>)
  /\ queue' = Append(queue, t)
  /\ go' = [go EXCEPT ![t] = FALSE]
  /\ sleeping' = [sleeping EXCEPT ![t] = FALSE]
  /\ g_waiters' = g_waiters + 1
  /\ Goto(t, "spin")
  /\ UNCHANGED <<gm, g_locked, t_depth, t_tag, t_tag_saved, target, asleep,
                 cont, caller>>

\* The spin is bounded by time (and empty on a small host), so the re-test
\* after it may see either value of go.
Spin(t) ==
  /\ pc[t] = "spin"
  /\ Goto(t, IF go[t] THEN "leave" ELSE "park")
  /\ UNCHANGED <<shared, t_depth, t_tag, t_tag_saved, target, asleep, cont, caller>>

\* Mutant of Park: go is not tested again under g_m before the first wait.
ParkWithoutRetest(t) ==
  /\ pc[t] = "park" /\ gm = NoThread
  /\ LET wake == go[t] /\ sleeping[t]
     IN /\ sleeping' = [sleeping EXCEPT ![t] = ~wake]
        /\ Goto(t, IF wake THEN "leave" ELSE "wait")
  /\ UNCHANGED <<gm, g_locked, queue, g_waiters, go, t_depth, t_tag, t_tag_saved,
                 target, asleep, cont, caller>>

\* Entered from the spin and on every return of pthread_cond_wait.
Park(t) ==
  /\ pc[t] = "park" /\ gm = NoThread
  /\ sleeping' = [sleeping EXCEPT ![t] = ~go[t]]
  /\ Goto(t, IF go[t] THEN "leave" ELSE "wait")
  /\ UNCHANGED <<gm, g_locked, queue, g_waiters, go, t_depth, t_tag, t_tag_saved,
                 target, asleep, cont, caller>>

\* pthread_cond_wait may return although nobody signalled.
SpuriousWakeup(t) ==
  /\ pc[t] = "wait"
  /\ Goto(t, "park")
  /\ UNCHANGED <<shared, t_depth, t_tag, t_tag_saved, target, asleep, cont, caller>>

\* Mutant of Leave: a relock forgets to count itself out of g_waiters.
LeaveCounted(t) ==
  /\ pc[t] = "leave"
  /\ g_waiters' = IF cont[t] = "relock" THEN g_waiters ELSE g_waiters - 1
  /\ Acquired(t)
  /\ UNCHANGED <<gm, g_locked, queue, go, sleeping>>

\* Mutant of Leave: the count is taken down twice, once by relock itself.
LeaveTwice(t) ==
  /\ pc[t] = "leave"
  /\ g_waiters' = IF cont[t] = "relock" THEN g_waiters - 2 ELSE g_waiters - 1
  /\ Acquired(t)
  /\ UNCHANGED <<gm, g_locked, queue, go, sleeping>>

Leave(t) ==
  /\ pc[t] = "leave"
  /\ g_waiters' = g_waiters - 1
  /\ Acquired(t)
  /\ UNCHANGED <<gm, g_locked, queue, go, sleeping>>

-----------------------------------------------------------------------------
(* Inside arm_lock_release.  Charging the hold to its label is left out.    *)

Released(t, p) ==
  /\ pc' = [p EXCEPT ![t] = IF cont[t] = "yield" THEN "acq" ELSE "run"]
  /\ cont' = [cont EXCEPT ![t] = IF @ = "yield" THEN "relock" ELSE "none"]

ReleaseFree(t) ==
  /\ pc[t] = "rel" /\ gm = NoThread /\ queue = <<>>
  /\ g_locked' = FALSE
  /\ Released(t, pc)
  /\ UNCHANGED <<gm, queue, g_waiters, go, sleeping, t_depth, t_tag, t_tag_saved,
                 target, asleep, caller>>

\* Mutant of ReleaseDequeue: the lock is marked free although it is handed over.
ReleaseDequeueUnlocked(t) ==
  /\ pc[t] = "rel" /\ gm = NoThread /\ queue # <<>>
  /\ gm' = t
  /\ g_locked' = FALSE
  /\ queue' = Tail(queue)
  /\ target' = [target EXCEPT ![t] = Head(queue)]
  /\ asleep' = [asleep EXCEPT ![t] = sleeping[Head(queue)]]
  /\ Goto(t, "handoff")
  /\ UNCHANGED <<g_waiters, go, sleeping, t_depth, t_tag, t_tag_saved, cont, caller>>

\* Mutant of ReleaseDequeue: every waiter is taken to be asleep.
ReleaseDequeueSignalsAll(t) ==
  /\ pc[t] = "rel" /\ gm = NoThread /\ queue # <<>>
  /\ gm' = t
  /\ queue' = Tail(queue)
  /\ target' = [target EXCEPT ![t] = Head(queue)]
  /\ asleep' = [asleep EXCEPT ![t] = TRUE]
  /\ Goto(t, "handoff")
  /\ UNCHANGED <<g_locked, g_waiters, go, sleeping, t_depth, t_tag, t_tag_saved,
                 cont, caller>>

ReleaseDequeue(t) ==
  /\ pc[t] = "rel" /\ gm = NoThread /\ queue # <<>>
  /\ gm' = t
  /\ queue' = Tail(queue)
  /\ target' = [target EXCEPT ![t] = Head(queue)]
  /\ asleep' = [asleep EXCEPT ![t] = sleeping[Head(queue)]]
  /\ Goto(t, "handoff")
  /\ UNCHANGED <<g_locked, g_waiters, go, sleeping, t_depth, t_tag, t_tag_saved,
                 cont, caller>>

ReleaseStoreGo(t) ==
  /\ pc[t] = "handoff"
  /\ go' = [go EXCEPT ![target[t]] = TRUE]
  /\ Goto(t, "signal")
  /\ UNCHANGED <<gm, g_locked, queue, g_waiters, sleeping, t_depth, t_tag,
                 t_tag_saved, target, asleep, cont, caller>>

\* Mutant of ReleaseSignal: the hand-over never enters the kernel.
ReleaseSignalNobody(t) ==
  /\ pc[t] = "signal"
  /\ Released(t, pc)
  /\ gm' = NoThread
  /\ target' = [target EXCEPT ![t] = NoThread]
  /\ asleep' = [asleep EXCEPT ![t] = FALSE]
  /\ UNCHANGED <<g_locked, queue, g_waiters, go, sleeping, t_depth, t_tag,
                 t_tag_saved, caller>>

ReleaseSignal(t) ==
  /\ pc[t] = "signal"
  /\ Released(t, IF asleep[t] /\ pc[target[t]] = "wait"
                 THEN [pc EXCEPT ![target[t]] = "park"] ELSE pc)
  /\ gm' = NoThread
  /\ target' = [target EXCEPT ![t] = NoThread]
  /\ asleep' = [asleep EXCEPT ![t] = FALSE]
  /\ UNCHANGED <<g_locked, queue, g_waiters, go, sleeping, t_depth, t_tag,
                 t_tag_saved, caller>>

-----------------------------------------------------------------------------
Next == \E t \in Threads :
           \/ ArmLockAcquire(t) \/ ArmLockRelease(t) \/ ArmLockUnlockAll(t)
           \/ ArmLockYield(t) \/ ArmLockRelock(t) \/ ArmLockTag(t)
           \/ TakeFree(t) \/ Enqueue(t) \/ Spin(t) \/ Park(t)
           \/ SpuriousWakeup(t) \/ Leave(t)
           \/ ReleaseFree(t) \/ ReleaseDequeue(t) \/ ReleaseStoreGo(t)
           \/ ReleaseSignal(t)

Spec == Init /\ [][Next]_vars

(***************************************************************************)
(* Fairness.  A host thread inside the lock's code is scheduled, and       *)
(* pthread_mutex_lock(g_m) does not fail for ever while g_m is free again  *)
(* and again.  An owner gives the lock up sooner or later: handlers drop   *)
(* it before they block, and long ones call arm_lock_yield (src/src/arm.h  *)
(* lines 73-95).  Nothing is assumed of a thread outside the lock's code.  *)
(***************************************************************************)
LockCode(t) == \/ TakeFree(t) \/ Enqueue(t) \/ Spin(t) \/ Park(t) \/ Leave(t)
               \/ ReleaseFree(t) \/ ReleaseDequeue(t) \/ ReleaseStoreGo(t)
               \/ ReleaseSignal(t)

GiveUp(t) == /\ ArmLockRelease(t) \/ ArmLockUnlockAll(t) \/ ArmLockYield(t)
             /\ t_depth[t] > 0 /\ t_depth'[t] = 0

FairSpec == Spec /\ \A t \in Threads : SF_vars(LockCode(t)) /\ SF_vars(GiveUp(t))

-----------------------------------------------------------------------------
\* A thread owns the lock from the moment it is handed over (its go flag is
\* set while it is still queued) to the moment it hands it on.
Owns(t) == \/ t_depth[t] > 0
           \/ pc[t] \in {"rel", "handoff"}
           \/ pc[t] \in Queued \cup {"leave"} /\ go[t]

\* No two host threads are ever between arm_lock_acquire and the matching
\* arm_lock_release, counting the one the lock is being handed to.
MutualExclusion == \A s, t \in Threads : Owns(s) /\ Owns(t) => s = t

\* A thread that is back in its own code holds the lock exactly as deep as
\* the guards it has open there, through any nesting of guards, gaps and
\* yields: the count unlock_all returned is the one its relock restores.
DepthMatchesGuards ==
  \A t \in Threads : pc[t] = "run" => t_depth[t] = Head(guards[t])

\* A thread asleep on its condition variable whose turn has come is about to
\* be signalled: the releaser that set its go flag has not left g_m yet.
NoLostWakeup ==
  \A t \in Threads : pc[t] = "wait" /\ go[t] =>
     \E r \in Threads : pc[r] = "signal" /\ target[r] = t /\ asleep[r]

\* When the releaser touches the waiter's node (reads sleeping, stores go,
\* signals its condition variable) the waiter is still inside the acquire
\* that queued it, so the thread-local node exists and is not in reuse.
NodeInUse ==
  \A r \in Threads :
     /\ pc[r] = "handoff" => pc[target[r]] \in Queued /\ ~go[target[r]]
     /\ pc[r] = "signal" /\ asleep[r] => pc[target[r]] \in {"park", "wait"}

\* g_waiters, read without g_m by arm_lock_yield, counts the threads inside a
\* contended acquire; it never wraps below zero and is zero when none is.
WaitersCounted ==
  g_waiters = Cardinality({t \in Threads : pc[t] \in Queued \cup {"leave"}})

\* A relock resumes the acquisition its unlock_all suspended: "the same
\* acquisition resumes in relock()" (src/src/arm.c, line 277), so the hold it
\* starts is charged to the label that acquisition had.
LabelResumes ==
  [][\A t \in Threads : cont[t] = "relock" /\ cont'[t] = "none"
        => t_tag'[t] = Head(dropped[t]).label]_vars

\* Whoever asks for the lock gets it: no schedule of the other threads, and
\* no yielding owner, keeps a thread inside arm_lock_acquire for ever.
AcquireReturns == \A t \in Threads : pc[t] = "acq" ~> t_depth[t] > 0

-----------------------------------------------------------------------------
(* The lock implements FifoLock: a waiter joins the line when it is queued  *)
(* under g_m and becomes the owner when its go flag is stored.              *)
Owner == IF \E t \in Threads : Owns(t) THEN CHOOSE t \in Threads : Owns(t)
                                       ELSE NoThread
Line == IF \E r \in Threads : pc[r] = "handoff"
        THEN <<target[CHOOSE r \in Threads : pc[r] = "handoff"]>> \o queue
        ELSE queue

Fifo == INSTANCE FifoLock WITH owner <- Owner, line <- Line

\* The order of the hand-overs is the order in which threads queued, and the
\* lock never passes a queued thread by: arm.c's lock is a FifoLock.
FifoOrder == Fifo!Spec
=============================================================================
