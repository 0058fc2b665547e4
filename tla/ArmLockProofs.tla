---------------------------- MODULE ArmLockProofs ----------------------------
(***************************************************************************)
(* Proofs about ArmLock, for any finite set of threads, any labels and any *)
(* nesting of guards and gaps.                                             *)
(***************************************************************************)
EXTENDS ArmLock, FiniteSetTheorems, TLAPS

-----------------------------------------------------------------------------
(* Sequences.                                                               *)

\* What Head and Tail return on a non-empty sequence.
LEMMA HeadTailFacts ==
  ASSUME NEW S, NEW s \in Seq(S), s # <<>>
  PROVE  /\ Len(s) \in Nat /\ Len(s) > 0
         /\ Head(s) = s[1] /\ Head(s) \in S
         /\ Tail(s) \in Seq(S) /\ Len(Tail(s)) = Len(s) - 1
         /\ \A i \in 1..(Len(s) - 1) : Tail(s)[i] = s[i + 1]
  OBVIOUS

\* What pushing an element on the front of a sequence returns.
LEMMA PushFacts ==
  ASSUME NEW S, NEW s \in Seq(S), NEW e \in S
  PROVE  /\ <<e>> \o s \in Seq(S) /\ Len(<<e>> \o s) = Len(s) + 1
         /\ <<e>> \o s # <<>>
         /\ Head(<<e>> \o s) = e /\ Tail(<<e>> \o s) = s
         /\ (<<e>> \o s)[1] = e
         /\ \A i \in 1..Len(s) : (<<e>> \o s)[i + 1] = s[i]
<1>1. <<e>> \in Seq(S) /\ Len(<<e>>) = 1 /\ <<e>>[1] = e
  OBVIOUS
<1>2. /\ <<e>> \o s \in Seq(S) /\ Len(<<e>> \o s) = Len(s) + 1
      /\ \A i \in 1..Len(s) : (<<e>> \o s)[i + 1] = s[i]
      /\ (<<e>> \o s)[1] = e
  BY <1>1
<1>3. <<e>> \o s # <<>> /\ Head(<<e>> \o s) = e
  BY <1>2
<1>4. Tail(<<e>> \o s) = s
  <2>1. Tail(<<e>> \o s) \in Seq(S) /\ Len(Tail(<<e>> \o s)) = Len(s)
    BY <1>2, <1>3, HeadTailFacts
  <2>2. \A i \in 1..Len(s) : Tail(<<e>> \o s)[i] = s[i]
    BY <1>2, <1>3, HeadTailFacts
  <2> QED  BY <2>1, <2>2
<1> QED  BY <1>2, <1>3, <1>4

-----------------------------------------------------------------------------
(* The inductive invariant.                                                 *)

Asking == {"acq", "spin", "park", "wait", "leave"}
Releasing == {"rel", "handoff", "signal"}
Waiting == {t \in Threads : pc[t] \in Queued \cup {"leave"}}

\* The caller's bookkeeping: one guard count per open gap and one for now; a
\* gap recorded the count of the level it left; where the thread is inside
\* the lock's code decides what is left to do for the innermost level.
CallerInvOf(t) ==
  /\ Len(guards[t]) = Len(dropped[t]) + 1
  /\ \A i \in 1..Len(dropped[t]) : dropped[t][i].depth = guards[t][i + 1]
  /\ pc[t] = "run" => t_depth[t] = guards[t][1]
  /\ pc[t] # "run" => t_depth[t] = 0
  /\ pc[t] \in Asking =>
       \/ cont[t] = "acquire" /\ guards[t][1] = 1
       \/ /\ cont[t] = "relock" /\ guards[t][1] = 0
          /\ Len(dropped[t]) > 0 /\ dropped[t][1].depth > 0
  /\ pc[t] \in Releasing =>
       /\ guards[t][1] = 0
       /\ \/ cont[t] = "release"
          \/ cont[t] = "yield" /\ Len(dropped[t]) > 0 /\ dropped[t][1].depth > 0
CallerInv == \A t \in Threads : CallerInvOf(t)

\* The hand-over protocol: who is inside g_m, who owns the lock, and what the
\* queue, the go and sleeping flags and a releaser's locals say of a waiter.
GmInv == \A t \in Threads : gm = t <=> pc[t] \in {"handoff", "signal"}

OwnerInv == /\ g_locked <=> \E t \in Threads : Owns(t)
            /\ ~g_locked => queue = <<>>

QueueInv == /\ \A i \in 1..Len(queue) : pc[queue[i]] \in Queued /\ ~go[queue[i]]
            /\ \A i, j \in 1..Len(queue) : queue[i] = queue[j] => i = j

WaiterInv == \A t \in Threads : /\ pc[t] = "leave" => go[t]
                                /\ pc[t] = "spin" => ~sleeping[t]
                                /\ pc[t] = "wait" => sleeping[t]

HandoffInv ==
  \A t \in Threads :
    /\ pc[t] \in {"handoff", "signal"} => target[t] \in Threads
    /\ pc[t] = "handoff" =>
         /\ pc[target[t]] \in Queued /\ ~go[target[t]]
         /\ \A i \in 1..Len(queue) : queue[i] # target[t]
         /\ asleep[t] => pc[target[t]] \in {"park", "wait"}
         /\ pc[target[t]] = "wait" => asleep[t]
    /\ pc[t] = "signal" /\ asleep[t] =>
         pc[target[t]] \in {"park", "wait"} /\ go[target[t]]

LockInv == /\ GmInv /\ MutualExclusion /\ OwnerInv /\ QueueInv
           /\ WaiterInv /\ HandoffInv /\ NoLostWakeup

IInv == TypeOK /\ CallerInv /\ LockInv /\ WaitersCounted

-----------------------------------------------------------------------------
(* What the caller's updates do to its two stacks.                          *)

\* The two stacks of a thread, as TypeOK and CallerInv describe them.
LEMMA CallerFacts ==
  ASSUME TypeOK, CallerInv, NEW t \in Threads
  PROVE  /\ guards[t] \in Seq(Nat) /\ dropped[t] \in Seq(Gap)
         /\ guards[t] # <<>> /\ Head(guards[t]) = guards[t][1] /\ guards[t][1] \in Nat
         /\ Tail(guards[t]) \in Seq(Nat) /\ Len(Tail(guards[t])) = Len(dropped[t])
         /\ \A i \in 1..Len(dropped[t]) : Tail(guards[t])[i] = guards[t][i + 1]
         /\ Len(dropped[t]) \in Nat /\ t_depth[t] \in Nat /\ t_tag[t] \in Labels
<1>1. guards[t] \in Seq(Nat) /\ dropped[t] \in Seq(Gap)
  BY DEF TypeOK
<1>2. Len(dropped[t]) \in Nat /\ Len(guards[t]) = Len(dropped[t]) + 1
  BY <1>1 DEF CallerInv, CallerInvOf
<1>3. guards[t] # <<>>
  BY <1>1, <1>2
<1>4. t_depth[t] \in Nat /\ t_tag[t] \in Labels
  BY DEF TypeOK
<1> QED  BY <1>1, <1>2, <1>3, <1>4, HeadTailFacts

\* Changing the innermost guard count leaves the others and the gaps alone.
LEMMA SetGuardsFacts ==
  ASSUME TypeOK, CallerInv, NEW t \in Threads, NEW n \in Nat, SetGuards(t, n)
  PROVE  /\ guards' \in [Threads -> Seq(Nat)]
         /\ \A u \in Threads \ {t} : guards'[u] = guards[u]
         /\ Len(guards'[t]) = Len(dropped[t]) + 1 /\ guards'[t][1] = n
         /\ \A i \in 1..Len(dropped[t]) : guards'[t][i + 1] = guards[t][i + 1]
<1> DEFINE g == <<n>> \o Tail(guards[t])
<1>1. /\ g \in Seq(Nat) /\ Len(g) = Len(dropped[t]) + 1 /\ g[1] = n
      /\ \A i \in 1..Len(dropped[t]) : g[i + 1] = guards[t][i + 1]
  BY CallerFacts, PushFacts
<1>2. guards' = [guards EXCEPT ![t] = g] /\ guards \in [Threads -> Seq(Nat)]
  BY DEF SetGuards, TypeOK
<1> QED  BY <1>1, <1>2

\* Opening a gap pushes a level without guards and records the one it left.
LEMMA OpenGapFacts ==
  ASSUME TypeOK, CallerInv, NEW t \in Threads, NEW c, DropAll(t, c), pc[t] = "run"
  PROVE  /\ guards' \in [Threads -> Seq(Nat)] /\ dropped' \in [Threads -> Seq(Gap)]
         /\ \A u \in Threads \ {t} : guards'[u] = guards[u] /\ dropped'[u] = dropped[u]
         /\ Len(dropped'[t]) = Len(dropped[t]) + 1
         /\ Len(guards'[t]) = Len(dropped'[t]) + 1 /\ guards'[t][1] = 0
         /\ dropped'[t][1].depth = t_depth[t]
         /\ \A i \in 1..Len(dropped'[t]) : dropped'[t][i].depth = guards'[t][i + 1]
<1> DEFINE e == [depth |-> t_depth[t], label |-> t_tag[t]]
           g == <<0>> \o guards[t]
           d == <<e>> \o dropped[t]
<1>1. e \in Gap /\ e.depth = t_depth[t]
  BY CallerFacts DEF Gap
<1>2. /\ d \in Seq(Gap) /\ Len(d) = Len(dropped[t]) + 1 /\ d[1] = e
      /\ \A i \in 1..Len(dropped[t]) : d[i + 1] = dropped[t][i]
  <2> HIDE DEF e
  <2> QED  BY <1>1, CallerFacts, PushFacts
<1>3. /\ g \in Seq(Nat) /\ Len(g) = Len(guards[t]) + 1 /\ g[1] = 0
      /\ \A i \in 1..Len(guards[t]) : g[i + 1] = guards[t][i]
  BY CallerFacts, PushFacts
<1>4. /\ guards' = [guards EXCEPT ![t] = g] /\ dropped' = [dropped EXCEPT ![t] = d]
      /\ guards \in [Threads -> Seq(Nat)] /\ dropped \in [Threads -> Seq(Gap)]
  BY DEF DropAll, TypeOK
<1> HIDE DEF e, g, d
<1>5. /\ guards'[t] = g /\ dropped'[t] = d
      /\ guards' \in [Threads -> Seq(Nat)] /\ dropped' \in [Threads -> Seq(Gap)]
      /\ \A u \in Threads \ {t} : guards'[u] = guards[u] /\ dropped'[u] = dropped[u]
  BY <1>2, <1>3, <1>4
<1>6. /\ Len(guards[t]) = Len(dropped[t]) + 1 /\ Len(dropped[t]) \in Nat
      /\ t_depth[t] = guards[t][1]
      /\ \A i \in 1..Len(dropped[t]) : dropped[t][i].depth = guards[t][i + 1]
  BY CallerFacts DEF CallerInv, CallerInvOf
<1>7. ASSUME NEW i \in 1..Len(d) PROVE d[i].depth = g[i + 1]
  <2>1. CASE i = 1
    <3>1. 1 \in 1..Len(guards[t]) /\ g[1 + 1] = guards[t][1]
      BY <1>3, <1>6
    <3> QED  BY <2>1, <3>1, <1>1, <1>2, <1>6
  <2>2. CASE i # 1
    <3>1. i - 1 \in 1..Len(dropped[t]) /\ i \in 1..Len(guards[t])
      BY <2>2, <1>2, <1>6
    <3>2. d[(i - 1) + 1] = dropped[t][i - 1] /\ g[i + 1] = guards[t][i]
      BY <3>1, <1>2, <1>3
    <3>3. dropped[t][i - 1].depth = guards[t][(i - 1) + 1]
      BY <3>1, <1>6
    <3> QED  BY <3>1, <3>2, <3>3
  <2> QED  BY <2>1, <2>2
<1> QED  BY <1>1, <1>2, <1>3, <1>5, <1>6, <1>7

\* Closing a gap returns to the level it left.
LEMMA CloseGapFacts ==
  ASSUME TypeOK, CallerInv, NEW t \in Threads, CloseGap(t), Len(dropped[t]) > 0
  PROVE  /\ guards' \in [Threads -> Seq(Nat)] /\ dropped' \in [Threads -> Seq(Gap)]
         /\ \A u \in Threads \ {t} : guards'[u] = guards[u] /\ dropped'[u] = dropped[u]
         /\ Len(guards'[t]) = Len(dropped'[t]) + 1
         /\ Head(dropped[t]) = dropped[t][1] /\ dropped[t][1].depth \in Nat
         /\ guards'[t][1] = dropped[t][1].depth
         /\ \A i \in 1..Len(dropped'[t]) : dropped'[t][i].depth = guards'[t][i + 1]
<1> DEFINE g == Tail(guards[t])
           d == Tail(dropped[t])
<1>1. /\ guards[t] \in Seq(Nat) /\ dropped[t] \in Seq(Gap)
      /\ Len(guards[t]) = Len(dropped[t]) + 1 /\ Len(dropped[t]) \in Nat
      /\ \A i \in 1..Len(dropped[t]) : dropped[t][i].depth = guards[t][i + 1]
  BY CallerFacts DEF CallerInv, CallerInvOf
<1>2. guards[t] # <<>> /\ dropped[t] # <<>>
  BY <1>1
<1>3. /\ g \in Seq(Nat) /\ Len(g) = Len(guards[t]) - 1
      /\ \A i \in 1..(Len(guards[t]) - 1) : g[i] = guards[t][i + 1]
  BY <1>1, <1>2, HeadTailFacts
<1>4. /\ d \in Seq(Gap) /\ Len(d) = Len(dropped[t]) - 1
      /\ \A i \in 1..(Len(dropped[t]) - 1) : d[i] = dropped[t][i + 1]
      /\ Head(dropped[t]) = dropped[t][1] /\ Head(dropped[t]) \in Gap
  BY <1>1, <1>2, HeadTailFacts
<1>5. /\ guards' = [guards EXCEPT ![t] = g] /\ dropped' = [dropped EXCEPT ![t] = d]
      /\ guards \in [Threads -> Seq(Nat)] /\ dropped \in [Threads -> Seq(Gap)]
  BY DEF CloseGap, TypeOK
<1>6. dropped[t][1].depth \in Nat
  BY <1>4 DEF Gap
<1> HIDE DEF g, d
<1>7. /\ guards'[t] = g /\ dropped'[t] = d
      /\ guards' \in [Threads -> Seq(Nat)] /\ dropped' \in [Threads -> Seq(Gap)]
      /\ \A u \in Threads \ {t} : guards'[u] = guards[u] /\ dropped'[u] = dropped[u]
  BY <1>3, <1>4, <1>5
<1>8. g[1] = dropped[t][1].depth
  BY <1>1, <1>3
<1>9. ASSUME NEW i \in 1..Len(d) PROVE d[i].depth = g[i + 1]
  <2>1. i \in 1..(Len(dropped[t]) - 1) /\ i + 1 \in 1..(Len(guards[t]) - 1)
        /\ i + 1 \in 1..Len(dropped[t])
    BY <1>1, <1>4
  <2>2. d[i] = dropped[t][i + 1] /\ g[i + 1] = guards[t][(i + 1) + 1]
    BY <2>1, <1>3, <1>4
  <2>3. dropped[t][i + 1].depth = guards[t][(i + 1) + 1]
    BY <2>1, <1>1
  <2> QED  BY <2>2, <2>3
<1> QED  BY <1>1, <1>3, <1>4, <1>6, <1>7, <1>8, <1>9

-----------------------------------------------------------------------------
(* Every step keeps the types and the caller's bookkeeping.                 *)

\* The bookkeeping of a thread reads only that thread's own variables.
LEMMA CallerFrame ==
  ASSUME CallerInv, NEW u \in Threads,
         guards'[u] = guards[u], dropped'[u] = dropped[u], pc'[u] = pc[u],
         t_depth'[u] = t_depth[u], cont'[u] = cont[u]
  PROVE  CallerInvOf(u)'
  BY DEF CallerInv, CallerInvOf
\* arm_lock_unlock_all, alone or inside arm_lock_yield.
LEMMA DropAllStep ==
  ASSUME IInv, NEW t \in Threads, NEW c \in {"release", "yield"}, DropAll(t, c),
         pc[t] = "run", c = "yield" => t_depth[t] > 0
  PROVE  TypeOK' /\ CallerInv'
<1> USE DEF IInv
<1>1. /\ guards' \in [Threads -> Seq(Nat)] /\ dropped' \in [Threads -> Seq(Gap)]
      /\ \A u \in Threads \ {t} : guards'[u] = guards[u] /\ dropped'[u] = dropped[u]
      /\ Len(dropped'[t]) = Len(dropped[t]) + 1
      /\ Len(guards'[t]) = Len(dropped'[t]) + 1 /\ guards'[t][1] = 0
      /\ dropped'[t][1].depth = t_depth[t]
      /\ \A i \in 1..Len(dropped'[t]) : dropped'[t][i].depth = guards'[t][i + 1]
  BY OpenGapFacts
<1>2. t_depth[t] \in Nat /\ t_tag[t] \in Labels /\ Len(dropped[t]) \in Nat
  BY CallerFacts
<1>3. /\ \/ /\ t_depth[t] > 0
            /\ t_tag_saved' = [t_tag_saved EXCEPT ![t] = t_tag[t]]
            /\ t_depth' = [t_depth EXCEPT ![t] = 0]
            /\ pc' = [pc EXCEPT ![t] = "rel"] /\ cont' = [cont EXCEPT ![t] = c]
         \/ /\ t_depth[t] = 0 /\ t_tag_saved' = t_tag_saved
            /\ t_depth' = t_depth /\ pc' = pc /\ cont' = cont
      /\ UNCHANGED <<gm, g_locked, queue, g_waiters, go, sleeping, t_tag, target, asleep>>
  BY <1>2 DEF DropAll, Goto, shared
<1>4. TypeOK'
  <2>1. /\ t_tag_saved' \in [Threads -> Labels] /\ t_depth' \in [Threads -> Nat]
        /\ pc' \in [Threads -> PC]
        /\ cont' \in [Threads -> Cont]
    <3>1. "rel" \in PC /\ c \in Cont
      BY DEF PC, Cont
    <3>2. /\ t_tag_saved \in [Threads -> Labels] /\ t_depth \in [Threads -> Nat]
          /\ pc \in [Threads -> PC] /\ cont \in [Threads -> Cont]
      BY DEF TypeOK
    <3>3. CASE t_depth[t] > 0
      <4>1. /\ t_tag_saved' = [t_tag_saved EXCEPT ![t] = t_tag[t]]
            /\ t_depth' = [t_depth EXCEPT ![t] = 0]
            /\ pc' = [pc EXCEPT ![t] = "rel"] /\ cont' = [cont EXCEPT ![t] = c]
        BY <3>3, <1>3
      <4> QED  BY <4>1, <3>1, <3>2, <1>2
    <3>4. CASE t_depth[t] = 0
      BY <3>2, <3>4, <1>3
    <3> QED  BY <3>3, <3>4, <1>2
  <2> QED  BY <1>1, <1>3, <2>1 DEF TypeOK
<1>5. ASSUME NEW u \in Threads \ {t} PROVE CallerInvOf(u)'
  BY <1>1, <1>3, CallerFrame DEF TypeOK
<1>6. CallerInvOf(t)'
  <2>1. /\ t_depth \in [Threads -> Nat] /\ pc \in [Threads -> PC]
        /\ cont \in [Threads -> Cont]
    BY DEF TypeOK
  <2>2. \/ t_depth[t] > 0 /\ t_depth'[t] = 0 /\ pc'[t] = "rel" /\ cont'[t] = c
        \/ t_depth[t] = 0 /\ t_depth'[t] = 0 /\ pc'[t] = "run"
    BY <2>1, <1>3
  <2>3. Len(dropped'[t]) > 0
    BY <1>1, <1>2
  <2>4. CASE t_depth[t] > 0
    BY <2>2, <2>3, <2>4, <1>1, <1>2 DEF CallerInvOf, Asking, Releasing
  <2>5. CASE t_depth[t] = 0
    BY <2>2, <2>5, <1>1, <1>2 DEF CallerInvOf, Asking, Releasing
  <2> QED  BY <2>4, <2>5, <1>2
<1> QED  BY <1>4, <1>5, <1>6 DEF CallerInv

\* The end of arm_lock_acquire, uncontended or after a wait.
LEMMA AcquiredStep ==
  ASSUME IInv, NEW t \in Threads, Acquired(t), pc[t] \in Asking,
         g_locked' \in BOOLEAN, g_waiters' \in Nat,
         UNCHANGED <<gm, queue, go, sleeping>>
  PROVE  TypeOK' /\ CallerInv'
<1> USE DEF IInv
<1>1. CallerInvOf(t)
  BY DEF CallerInv
<1>2. CASE cont[t] = "relock"
  <2>1. CloseGap(t) /\ Len(dropped[t]) > 0
    BY <1>1, <1>2 DEF Acquired, CallerInvOf
  <2>2. /\ guards' \in [Threads -> Seq(Nat)] /\ dropped' \in [Threads -> Seq(Gap)]
        /\ \A u \in Threads \ {t} : guards'[u] = guards[u] /\ dropped'[u] = dropped[u]
        /\ Len(guards'[t]) = Len(dropped'[t]) + 1
        /\ Head(dropped[t]) = dropped[t][1] /\ dropped[t][1].depth \in Nat
        /\ guards'[t][1] = dropped[t][1].depth
        /\ \A i \in 1..Len(dropped'[t]) : dropped'[t][i].depth = guards'[t][i + 1]
    BY <2>1, CloseGapFacts
  <2>3. /\ t_depth' = [t_depth EXCEPT ![t] = dropped[t][1].depth]
        /\ t_tag' = [t_tag EXCEPT ![t] = t_tag_saved[t]]
        /\ cont' = [cont EXCEPT ![t] = "none"] /\ pc' = [pc EXCEPT ![t] = "run"]
        /\ UNCHANGED <<t_tag_saved, target, asleep>>
    BY <1>2, <2>2 DEF Acquired, Goto
  <2>4. TypeOK'
    BY <2>2, <2>3 DEF TypeOK, PC, Cont
  <2>5. ASSUME NEW u \in Threads \ {t} PROVE CallerInvOf(u)'
    BY <2>2, <2>3, CallerFrame DEF TypeOK
  <2>6. CallerInvOf(t)'
    BY <2>2, <2>3 DEF TypeOK, CallerInvOf, Asking, Releasing
  <2> QED  BY <2>4, <2>5, <2>6 DEF CallerInv
<1>3. CASE cont[t] # "relock"
  <2>1. /\ t_depth' = [t_depth EXCEPT ![t] = 1]
        /\ t_tag' = [t_tag EXCEPT ![t] = 0]
        /\ cont' = [cont EXCEPT ![t] = "none"] /\ pc' = [pc EXCEPT ![t] = "run"]
        /\ UNCHANGED <<t_tag_saved, target, asleep, guards, dropped>>
    BY <1>3 DEF Acquired, Goto, caller
  <2>2. TypeOK'
    BY <2>1, BoundsAssumption DEF TypeOK, PC, Cont
  <2>3. ASSUME NEW u \in Threads PROVE CallerInvOf(u)'
    BY <1>1, <1>3, <2>1 DEF TypeOK, CallerInv, CallerInvOf, Asking, Releasing
  <2> QED  BY <2>2, <2>3 DEF CallerInv
<1> QED  BY <1>2, <1>3

\* The types and the caller's bookkeeping are kept by every step.
LEMMA CallerStep ==
  ASSUME IInv, [Next]_vars PROVE TypeOK' /\ CallerInv'
<1> USE DEF IInv
<1>0. CASE UNCHANGED vars
  BY <1>0 DEF vars, shared, locals, caller, TypeOK, CallerInv, CallerInvOf
<1>1. ASSUME NEW t \in Threads, ArmLockAcquire(t) PROVE TypeOK' /\ CallerInv'
  <2>1. Head(guards[t]) = guards[t][1] /\ guards[t][1] \in Nat /\ t_depth[t] \in Nat
    BY CallerFacts
  <2>2. SetGuards(t, guards[t][1] + 1) /\ pc[t] = "run" /\ t_depth[t] = guards[t][1]
    BY <1>1, <2>1 DEF ArmLockAcquire, CallerInv, CallerInvOf
  <2> DEFINE n == guards[t][1] + 1
  <2>3. /\ guards' \in [Threads -> Seq(Nat)]
        /\ \A u \in Threads \ {t} : guards'[u] = guards[u]
        /\ Len(guards'[t]) = Len(dropped[t]) + 1 /\ guards'[t][1] = n
        /\ \A i \in 1..Len(dropped[t]) : guards'[t][i + 1] = guards[t][i + 1]
    <3>1. n \in Nat /\ SetGuards(t, n)
      BY <2>1, <2>2
    <3> HIDE DEF n
    <3> QED  BY <3>1, SetGuardsFacts
  <2>4. /\ \/ /\ t_depth[t] > 0 /\ pc' = pc /\ cont' = cont
              /\ t_depth' = [t_depth EXCEPT ![t] = t_depth[t] + 1]
           \/ /\ t_depth[t] = 0 /\ t_depth' = t_depth
              /\ pc' = [pc EXCEPT ![t] = "acq"] /\ cont' = [cont EXCEPT ![t] = "acquire"]
        /\ UNCHANGED <<gm, g_locked, queue, g_waiters, go, sleeping, t_tag, t_tag_saved,
                       target, asleep, dropped>>
    BY <1>1, <2>1, <2>2 DEF ArmLockAcquire, Goto, shared
  <2>5. TypeOK'
    <3>1. /\ t_depth' \in [Threads -> Nat] /\ pc' \in [Threads -> PC]
          /\ cont' \in [Threads -> Cont]
      <4>1. {"acq", "rel"} \subseteq PC /\ {"acquire", "release"} \subseteq Cont
        BY DEF PC, Cont
      <4>2. /\ t_depth \in [Threads -> Nat] /\ pc \in [Threads -> PC]
            /\ cont \in [Threads -> Cont]
        BY DEF TypeOK
      <4> QED  BY <4>1, <4>2, <2>1, <2>2, <2>4
    <3> QED  BY <2>3, <2>4, <3>1 DEF TypeOK
  <2>6. ASSUME NEW u \in Threads \ {t} PROVE CallerInvOf(u)'
    BY <2>3, <2>4, CallerFrame DEF TypeOK
  <2>7. CallerInvOf(t)'
    <3>1. \/ /\ t_depth[t] > 0 /\ t_depth'[t] = t_depth[t] + 1 /\ pc'[t] = "run"
          \/ /\ t_depth[t] = 0 /\ t_depth'[t] = 0
             /\ pc'[t] = "acq" /\ cont'[t] = "acquire"
      BY <2>2, <2>4 DEF TypeOK
    <3>2. /\ Len(guards'[t]) = Len(dropped'[t]) + 1 /\ guards'[t][1] = n
          /\ \A i \in 1..Len(dropped'[t]) : dropped'[t][i].depth = guards'[t][i + 1]
      BY <2>3, <2>4 DEF CallerInv, CallerInvOf
    <3> QED  BY <3>1, <3>2, <2>1, <2>2 DEF CallerInvOf, Asking, Releasing
  <2> QED  BY <2>5, <2>6, <2>7 DEF CallerInv
<1>2. ASSUME NEW t \in Threads, ArmLockRelease(t) PROVE TypeOK' /\ CallerInv'
  <2>1. Head(guards[t]) = guards[t][1] /\ guards[t][1] \in Nat /\ t_depth[t] \in Nat
    BY CallerFacts
  <2>2. /\ SetGuards(t, guards[t][1] - 1) /\ guards[t][1] > 0
        /\ pc[t] = "run" /\ t_depth[t] = guards[t][1]
    BY <1>2, <2>1 DEF ArmLockRelease, CallerInv, CallerInvOf
  <2> DEFINE n == guards[t][1] - 1
  <2>3. /\ guards' \in [Threads -> Seq(Nat)]
        /\ \A u \in Threads \ {t} : guards'[u] = guards[u]
        /\ Len(guards'[t]) = Len(dropped[t]) + 1 /\ guards'[t][1] = n
        /\ \A i \in 1..Len(dropped[t]) : guards'[t][i + 1] = guards[t][i + 1]
    <3>1. n \in Nat /\ SetGuards(t, n)
      BY <2>1, <2>2
    <3> HIDE DEF n
    <3> QED  BY <3>1, SetGuardsFacts
  <2>4. /\ t_depth' = [t_depth EXCEPT ![t] = t_depth[t] - 1]
        /\ \/ t_depth[t] > 1 /\ pc' = pc /\ cont' = cont
           \/ /\ t_depth[t] = 1
              /\ pc' = [pc EXCEPT ![t] = "rel"] /\ cont' = [cont EXCEPT ![t] = "release"]
        /\ UNCHANGED <<gm, g_locked, queue, g_waiters, go, sleeping, t_tag, t_tag_saved,
                       target, asleep, dropped>>
    <3>1. t_depth[t] # 0 /\ (t_depth[t] = 1 \/ t_depth[t] > 1)
      BY <2>1, <2>2
    <3> QED  BY <1>2, <3>1 DEF ArmLockRelease, Goto, shared
  <2>5. TypeOK'
    <3>1. /\ t_depth' \in [Threads -> Nat] /\ pc' \in [Threads -> PC]
          /\ cont' \in [Threads -> Cont]
      <4>1. {"acq", "rel"} \subseteq PC /\ {"acquire", "release"} \subseteq Cont
        BY DEF PC, Cont
      <4>2. /\ t_depth \in [Threads -> Nat] /\ pc \in [Threads -> PC]
            /\ cont \in [Threads -> Cont]
        BY DEF TypeOK
      <4> QED  BY <4>1, <4>2, <2>1, <2>2, <2>4
    <3> QED  BY <2>3, <2>4, <3>1 DEF TypeOK
  <2>6. ASSUME NEW u \in Threads \ {t} PROVE CallerInvOf(u)'
    BY <2>3, <2>4, CallerFrame DEF TypeOK
  <2>7. CallerInvOf(t)'
    <3>1. /\ t_depth'[t] = t_depth[t] - 1
          /\ \/ t_depth[t] > 1 /\ pc'[t] = "run"
             \/ t_depth[t] = 1 /\ pc'[t] = "rel" /\ cont'[t] = "release"
      BY <2>2, <2>4 DEF TypeOK
    <3>2. /\ Len(guards'[t]) = Len(dropped'[t]) + 1 /\ guards'[t][1] = n
          /\ \A i \in 1..Len(dropped'[t]) : dropped'[t][i].depth = guards'[t][i + 1]
      BY <2>3, <2>4 DEF CallerInv, CallerInvOf
    <3> QED  BY <3>1, <3>2, <2>1, <2>2 DEF CallerInvOf, Asking, Releasing
  <2> QED  BY <2>5, <2>6, <2>7 DEF CallerInv
<1>3. ASSUME NEW t \in Threads, ArmLockUnlockAll(t) PROVE TypeOK' /\ CallerInv'
  <2> DEFINE c == "release"
  <2>1. DropAll(t, c) /\ pc[t] = "run"
    BY <1>3 DEF ArmLockUnlockAll
  <2> QED  BY <2>1, DropAllStep
<1>4. ASSUME NEW t \in Threads, ArmLockYield(t) PROVE TypeOK' /\ CallerInv'
  <2>1. DropAll(t, "yield") /\ pc[t] = "run" /\ t_depth[t] > 0
    BY <1>4 DEF ArmLockYield
  <2> QED  BY <2>1, DropAllStep
<1>5. ASSUME NEW t \in Threads, ArmLockRelock(t) PROVE TypeOK' /\ CallerInv'
  <2>1. /\ Head(guards[t]) = guards[t][1] /\ guards[t][1] \in Nat /\ t_depth[t] \in Nat
        /\ dropped[t] \in Seq(Gap)
    BY CallerFacts
  <2>2. /\ pc[t] = "run" /\ dropped[t] # <<>> /\ guards[t][1] = 0 /\ t_depth[t] = 0
    BY <1>5, <2>1 DEF ArmLockRelock, CallerInv, CallerInvOf
  <2>3. /\ Len(dropped[t]) > 0 /\ Head(dropped[t]) = dropped[t][1]
        /\ dropped[t][1] \in Gap
    BY <2>1, <2>2, HeadTailFacts
  <2>4. CASE dropped[t][1].depth = 0
    <3>1. CloseGap(t) /\ UNCHANGED <<pc, cont>>
      BY <1>5, <2>3, <2>4 DEF ArmLockRelock
    <3>2. /\ guards' \in [Threads -> Seq(Nat)] /\ dropped' \in [Threads -> Seq(Gap)]
          /\ \A u \in Threads \ {t} : guards'[u] = guards[u] /\ dropped'[u] = dropped[u]
          /\ Len(guards'[t]) = Len(dropped'[t]) + 1
          /\ guards'[t][1] = dropped[t][1].depth
          /\ \A i \in 1..Len(dropped'[t]) : dropped'[t][i].depth = guards'[t][i + 1]
      BY <3>1, <2>3, CloseGapFacts
    <3>3. TypeOK'
      BY <1>5, <3>1, <3>2 DEF ArmLockRelock, TypeOK, shared
    <3>4. UNCHANGED <<pc, cont, t_depth>>
      BY <1>5, <3>1 DEF ArmLockRelock
    <3>5. ASSUME NEW u \in Threads \ {t} PROVE CallerInvOf(u)'
      BY <3>2, <3>4, CallerFrame
    <3>6. CallerInvOf(t)'
      BY <2>2, <2>4, <3>2, <3>4 DEF CallerInvOf, Asking, Releasing
    <3> QED  BY <3>3, <3>5, <3>6 DEF CallerInv
  <2>5. CASE dropped[t][1].depth # 0
    <3>1. dropped[t][1].depth > 0
      BY <2>3, <2>5 DEF Gap
    <3>2. Goto(t, "acq") /\ cont' = [cont EXCEPT ![t] = "relock"] /\ UNCHANGED caller
      BY <1>5, <2>3, <2>5 DEF ArmLockRelock
    <3>3. TypeOK'
      BY <1>5, <3>2 DEF ArmLockRelock, Goto, TypeOK, shared, caller, PC, Cont
    <3>4. ASSUME NEW u \in Threads PROVE CallerInvOf(u)'
      BY <1>5, <2>2, <2>3, <3>1, <3>2 DEF ArmLockRelock, Goto, TypeOK, caller, CallerInv, CallerInvOf, Asking, Releasing
    <3> QED  BY <3>3, <3>4 DEF CallerInv
  <2> QED  BY <2>4, <2>5
<1>6. ASSUME NEW t \in Threads, ArmLockTag(t) PROVE TypeOK' /\ CallerInv'
  <2>1. PICK l \in Labels : t_tag' = [t_tag EXCEPT ![t] = l]
    BY <1>6 DEF ArmLockTag
  <2> QED  BY <1>6, <2>1 DEF ArmLockTag, TypeOK, CallerInv, CallerInvOf, shared, caller
<1>7. ASSUME NEW t \in Threads, TakeFree(t) PROVE TypeOK' /\ CallerInv'
  <2>1. /\ Acquired(t) /\ pc[t] = "acq" /\ g_locked' \in BOOLEAN
        /\ UNCHANGED <<gm, queue, g_waiters, go, sleeping>>
    BY <1>7 DEF TakeFree
  <2>2. g_waiters' \in Nat
    BY <2>1 DEF TypeOK
  <2> QED  BY <2>1, <2>2, AcquiredStep DEF TypeOK, Asking
<1>8. ASSUME NEW t \in Threads, Enqueue(t) PROVE TypeOK' /\ CallerInv'
  <2>1. queue' \in Seq(Threads) /\ g_waiters' \in Nat
    BY <1>8 DEF TypeOK, Enqueue
  <2>2. /\ go' = [go EXCEPT ![t] = FALSE] /\ sleeping' = [sleeping EXCEPT ![t] = FALSE]
        /\ pc[t] = "acq" /\ pc' = [pc EXCEPT ![t] = "spin"]
        /\ UNCHANGED <<gm, g_locked, t_depth, t_tag, t_tag_saved, target, asleep, cont,
                       guards, dropped>>
    BY <1>8 DEF Enqueue, Goto, caller
  <2>3. TypeOK'
    BY <2>1, <2>2 DEF TypeOK, PC, Cont
  <2>4. CallerInv'
    BY <2>2 DEF TypeOK, CallerInv, CallerInvOf, Asking, Releasing
  <2> QED  BY <2>3, <2>4
<1>9. ASSUME NEW t \in Threads, Spin(t) PROVE TypeOK' /\ CallerInv'
  BY <1>9 DEF Spin, Goto, TypeOK, CallerInv, CallerInvOf, Asking, Releasing, Queued, PC, Cont, shared, locals, caller
<1>10. ASSUME NEW t \in Threads, Park(t) PROVE TypeOK' /\ CallerInv'
  BY <1>10 DEF Park, Goto, TypeOK, CallerInv, CallerInvOf, Asking, Releasing, Queued, PC, Cont, shared, locals, caller
<1>11. ASSUME NEW t \in Threads, SpuriousWakeup(t) PROVE TypeOK' /\ CallerInv'
  BY <1>11 DEF SpuriousWakeup, Goto, TypeOK, CallerInv, CallerInvOf, Asking, Releasing, Queued, PC, Cont, shared, locals, caller
<1>12. ASSUME NEW t \in Threads, Leave(t) PROVE TypeOK' /\ CallerInv'
  <2>1. /\ Acquired(t) /\ pc[t] = "leave" /\ g_waiters' = g_waiters - 1
        /\ UNCHANGED <<gm, g_locked, queue, go, sleeping>>
    BY <1>12 DEF Leave
  <2>2. g_waiters' \in Nat
    <3>1. IsFiniteSet(Waiting) /\ t \in Waiting
      BY <2>1, ThreadsAssumption, FS_Subset DEF Waiting
    <3>2. Cardinality(Waiting) \in Nat /\ Cardinality(Waiting) # 0
      BY <3>1, FS_CardinalityType, FS_EmptySet
    <3>3. g_waiters = Cardinality(Waiting)
      BY DEF WaitersCounted, Waiting
    <3> QED  BY <2>1, <3>2, <3>3
  <2> QED  BY <2>1, <2>2, AcquiredStep DEF TypeOK, Asking
<1>13. ASSUME NEW t \in Threads, ReleaseFree(t) PROVE TypeOK' /\ CallerInv'
  BY <1>13 DEF ReleaseFree, Released, TypeOK, CallerInv, CallerInvOf, Asking, Releasing, Queued, PC, Cont, shared, locals, caller
<1>14. ASSUME NEW t \in Threads, ReleaseDequeue(t) PROVE TypeOK' /\ CallerInv'
  <2>1. queue' \in Seq(Threads) /\ Head(queue) \in Threads
    BY <1>14, HeadTailFacts DEF TypeOK, ReleaseDequeue
  <2> QED  BY <1>14, <2>1 DEF ReleaseDequeue, Goto, TypeOK, CallerInv, CallerInvOf, Asking, Releasing, Queued, PC, Cont, shared, locals, caller
<1>15. ASSUME NEW t \in Threads, ReleaseStoreGo(t) PROVE TypeOK' /\ CallerInv'
  BY <1>15 DEF ReleaseStoreGo, Goto, TypeOK, CallerInv, CallerInvOf, Asking, Releasing, Queued, PC, Cont, shared, locals, caller
<1>16. ASSUME NEW t \in Threads, ReleaseSignal(t) PROVE TypeOK' /\ CallerInv'
  <2> DEFINE p == IF asleep[t] /\ pc[target[t]] = "wait"
                  THEN [pc EXCEPT ![target[t]] = "park"] ELSE pc
  <2>1. /\ p \in [Threads -> PC]
        /\ \A u \in Threads : p[u] = pc[u] \/ (pc[u] = "wait" /\ p[u] = "park")
    <3>1. target[t] \in Threads
      BY <1>16 DEF LockInv, HandoffInv, ReleaseSignal
    <3>2. "park" \in PC /\ pc \in [Threads -> PC]
      BY DEF TypeOK, PC
    <3>3. CASE asleep[t] /\ pc[target[t]] = "wait"
      <4>1. p = [pc EXCEPT ![target[t]] = "park"]
        BY <3>3, Zenon
      <4> HIDE DEF p
      <4> QED  BY <3>1, <3>2, <3>3, <4>1
    <3>4. CASE ~(asleep[t] /\ pc[target[t]] = "wait")
      <4>1. p = pc
        BY <3>4, Zenon
      <4> HIDE DEF p
      <4> QED  BY <3>2, <4>1
    <3> QED  BY <3>3, <3>4
  <2>2. /\ pc' = [p EXCEPT ![t] = IF cont[t] = "yield" THEN "acq" ELSE "run"]
        /\ cont' = [cont EXCEPT ![t] = IF cont[t] = "yield" THEN "relock" ELSE "none"]
        /\ pc[t] = "signal" /\ gm' = NoThread
        /\ target' = [target EXCEPT ![t] = NoThread]
        /\ asleep' = [asleep EXCEPT ![t] = FALSE]
        /\ UNCHANGED <<g_locked, queue, g_waiters, go, sleeping, t_depth, t_tag,
                       t_tag_saved, guards, dropped>>
    BY <1>16 DEF ReleaseSignal, Released, caller
  <2> HIDE DEF p
  <2>3. TypeOK'
    BY <2>1, <2>2 DEF TypeOK, PC, Cont
  <2>4. ASSUME NEW u \in Threads \ {t} PROVE CallerInvOf(u)'
    BY <2>1, <2>2 DEF TypeOK, CallerInv, CallerInvOf, Asking, Releasing
  <2>5. CallerInvOf(t)'
    BY <2>1, <2>2 DEF TypeOK, CallerInv, CallerInvOf, Asking, Releasing
  <2> QED  BY <2>3, <2>4, <2>5 DEF CallerInv
<1> QED
  BY <1>0, <1>1, <1>2, <1>3, <1>4, <1>5, <1>6, <1>7, <1>8, <1>9, <1>10, <1>11, <1>12, <1>13, <1>14, <1>15, <1>16 DEF Next, vars

-----------------------------------------------------------------------------
(* Every step keeps the hand-over protocol.                                 *)

\* A call, made outside the lock's code, that neither gains nor loses the
\* lock changes nothing the protocol speaks of.
LEMMA CallKeepsLockInv ==
  ASSUME IInv, NEW t \in Threads, pc[t] = "run", pc'[t] \in {"run", "acq", "rel"},
         \A u \in Threads \ {t} : pc'[u] = pc[u] /\ t_depth'[u] = t_depth[u],
         Owns(t)' <=> Owns(t),
         UNCHANGED <<gm, g_locked, queue, go, sleeping, target, asleep>>
  PROVE  LockInv'
<1> USE DEF IInv, LockInv
<1>1. \A u \in Threads : Owns(u)' <=> Owns(u)
  BY DEF Owns
<1>2. \A u \in Threads : pc'[u] = pc[u] \/ (pc[u] = "run" /\ pc'[u] \in {"run", "acq", "rel"})
  OBVIOUS
<1>3. GmInv'
  BY <1>2 DEF GmInv
<1>4. MutualExclusion' /\ OwnerInv'
  BY <1>1 DEF MutualExclusion, OwnerInv
<1>5. \A i \in 1..Len(queue) : queue[i] \in Threads
  BY DEF TypeOK
<1>6. QueueInv'
  BY <1>2, <1>5 DEF QueueInv, Queued
<1>7. WaiterInv'
  BY <1>2 DEF WaiterInv
<1>8. HandoffInv'
  BY <1>2 DEF HandoffInv, Queued
<1>9. NoLostWakeup'
  BY <1>2 DEF NoLostWakeup
<1> QED  BY <1>3, <1>4, <1>6, <1>7, <1>8, <1>9

\* The hand-over protocol is kept by every step.
LEMMA LockStep ==
  ASSUME IInv, [Next]_vars PROVE LockInv'
<1> USE DEF IInv, LockInv
<1>a. \A u \in Threads : pc[u] # "run" => t_depth[u] = 0
  BY DEF CallerInv, CallerInvOf
<1>b. /\ pc \in [Threads -> PC] /\ go \in [Threads -> BOOLEAN] /\ t_depth \in [Threads -> Nat]
      /\ sleeping \in [Threads -> BOOLEAN] /\ asleep \in [Threads -> BOOLEAN]
      /\ queue \in Seq(Threads) /\ gm \in Threads \cup {NoThread}
      /\ target \in [Threads -> Threads \cup {NoThread}]
  BY DEF TypeOK
<1>c. \A i \in 1..Len(queue) : queue[i] \in Threads
  BY <1>b
<1>0. CASE UNCHANGED vars
  BY <1>0 DEF vars, shared, locals, caller, GmInv, MutualExclusion, OwnerInv,
     QueueInv, WaiterInv, HandoffInv, NoLostWakeup, Owns
<1>1. ASSUME NEW t \in Threads, ArmLockAcquire(t) PROVE LockInv'
  <2>1. /\ pc[t] = "run" /\ pc'[t] \in {"run", "acq", "rel"}
        /\ \A u \in Threads \ {t} : pc'[u] = pc[u] /\ t_depth'[u] = t_depth[u]
        /\ UNCHANGED <<gm, g_locked, queue, go, sleeping, target, asleep>>
    BY <1>1, <1>b DEF ArmLockAcquire, Goto, shared
  <2>2. Owns(t)' <=> Owns(t)
    BY <1>1, <1>b, <2>1 DEF ArmLockAcquire, Goto, shared, Owns, Queued
  <2> QED  BY <2>1, <2>2, CallKeepsLockInv
<1>2. ASSUME NEW t \in Threads, ArmLockRelease(t) PROVE LockInv'
  <2>1. /\ pc[t] = "run" /\ pc'[t] \in {"run", "acq", "rel"}
        /\ \A u \in Threads \ {t} : pc'[u] = pc[u] /\ t_depth'[u] = t_depth[u]
        /\ UNCHANGED <<gm, g_locked, queue, go, sleeping, target, asleep>>
    BY <1>2, <1>b DEF ArmLockRelease, Goto, shared
  <2>2. Owns(t)' <=> Owns(t)
    BY <1>2, <1>b, <2>1 DEF ArmLockRelease, Goto, shared, Owns, Queued
  <2> QED  BY <2>1, <2>2, CallKeepsLockInv
<1>3. ASSUME NEW t \in Threads, ArmLockUnlockAll(t) PROVE LockInv'
  <2>1. /\ pc[t] = "run" /\ pc'[t] \in {"run", "acq", "rel"}
        /\ \A u \in Threads \ {t} : pc'[u] = pc[u] /\ t_depth'[u] = t_depth[u]
        /\ UNCHANGED <<gm, g_locked, queue, go, sleeping, target, asleep>>
    BY <1>3, <1>b DEF ArmLockUnlockAll, DropAll, Goto, shared
  <2>2. Owns(t)' <=> Owns(t)
    BY <1>3, <1>b, <2>1 DEF ArmLockUnlockAll, DropAll, Goto, shared, Owns, Queued
  <2> QED  BY <2>1, <2>2, CallKeepsLockInv
<1>4. ASSUME NEW t \in Threads, ArmLockYield(t) PROVE LockInv'
  <2>1. /\ pc[t] = "run" /\ pc'[t] \in {"run", "acq", "rel"}
        /\ \A u \in Threads \ {t} : pc'[u] = pc[u] /\ t_depth'[u] = t_depth[u]
        /\ UNCHANGED <<gm, g_locked, queue, go, sleeping, target, asleep>>
    BY <1>4, <1>b DEF ArmLockYield, DropAll, Goto, shared
  <2>2. Owns(t)' <=> Owns(t)
    BY <1>4, <1>b, <2>1 DEF ArmLockYield, DropAll, Goto, shared, Owns, Queued
  <2> QED  BY <2>1, <2>2, CallKeepsLockInv
<1>5. ASSUME NEW t \in Threads, ArmLockRelock(t) PROVE LockInv'
  <2>1. /\ pc[t] = "run" /\ pc'[t] \in {"run", "acq", "rel"}
        /\ \A u \in Threads \ {t} : pc'[u] = pc[u] /\ t_depth'[u] = t_depth[u]
        /\ UNCHANGED <<gm, g_locked, queue, go, sleeping, target, asleep>>
    BY <1>5, <1>b DEF ArmLockRelock, Goto, shared
  <2>2. Owns(t)' <=> Owns(t)
    BY <1>5, <1>b, <2>1 DEF ArmLockRelock, Goto, shared, Owns, Queued
  <2> QED  BY <2>1, <2>2, CallKeepsLockInv
<1>6. ASSUME NEW t \in Threads, ArmLockTag(t) PROVE LockInv'
  <2>1. /\ pc[t] = "run" /\ pc'[t] \in {"run", "acq", "rel"}
        /\ \A u \in Threads \ {t} : pc'[u] = pc[u] /\ t_depth'[u] = t_depth[u]
        /\ UNCHANGED <<gm, g_locked, queue, go, sleeping, target, asleep>>
    BY <1>6, <1>b DEF ArmLockTag, shared
  <2>2. Owns(t)' <=> Owns(t)
    BY <1>6, <1>b, <2>1 DEF ArmLockTag, shared, Owns, Queued
  <2> QED  BY <2>1, <2>2, CallKeepsLockInv
<1>7. ASSUME NEW t \in Threads, TakeFree(t) PROVE LockInv'
  <2>1. /\ pc[t] = "acq" /\ pc' = [pc EXCEPT ![t] = "run"]
        /\ ~g_locked /\ g_locked' = TRUE
        /\ t_depth'[t] > 0 /\ \A u \in Threads \ {t} : t_depth'[u] = t_depth[u]
        /\ UNCHANGED <<gm, queue, go, sleeping, target, asleep>>
    <3>1. /\ Acquired(t) /\ CallerInvOf(t) /\ dropped[t] \in Seq(Gap)
          /\ t_depth \in [Threads -> Nat]
      BY <1>7 DEF Leave, TakeFree, CallerInv, TypeOK
    <3>2. Len(dropped[t]) > 0 => Head(dropped[t]) = dropped[t][1]
      BY <3>1
    <3>3. t_depth'[t] > 0 /\ \A u \in Threads \ {t} : t_depth'[u] = t_depth[u]
      BY <1>7, <3>1, <3>2 DEF Acquired, CallerInvOf, Asking, Leave, TakeFree
    <3> QED  BY <1>7, <3>1, <3>3 DEF TakeFree, Acquired, Goto
  <2>2. \A u \in Threads : Owns(u)' <=> u = t
    BY <2>1, <1>a, <1>b DEF Owns, Queued, MutualExclusion, OwnerInv, WaiterInv, HandoffInv
  <2>3. GmInv'
    BY <2>1, <1>b, ThreadsAssumption DEF GmInv
  <2>4. MutualExclusion' /\ OwnerInv'
    BY <2>1, <2>2 DEF MutualExclusion, OwnerInv
  <2>5. QueueInv'
    BY <2>1, <1>b, <1>c DEF QueueInv, Queued
  <2>6. WaiterInv'
    BY <2>1, <1>b DEF WaiterInv
  <2>7. HandoffInv'
    BY <2>1, <1>b, <1>c DEF HandoffInv, GmInv, QueueInv, Queued
  <2>8. NoLostWakeup'
    BY <2>1, <1>b DEF NoLostWakeup, GmInv
  <2> QED  BY <2>3, <2>4, <2>5, <2>6, <2>7, <2>8
<1>8. ASSUME NEW t \in Threads, Enqueue(t) PROVE LockInv'
  <2>1. /\ pc[t] = "acq" /\ pc' = [pc EXCEPT ![t] = "spin"] /\ gm = NoThread
        /\ g_locked \/ queue # <<>>
        /\ queue' = Append(queue, t)
        /\ go' = [go EXCEPT ![t] = FALSE] /\ sleeping' = [sleeping EXCEPT ![t] = FALSE]
        /\ UNCHANGED <<gm, g_locked, t_depth, target, asleep>>
    BY <1>8 DEF Enqueue, Goto
  <2>2. \A u \in Threads : Owns(u)' <=> Owns(u)
    BY <2>1, <1>a, <1>b DEF Owns, Queued, MutualExclusion, OwnerInv, WaiterInv, HandoffInv
  <2>3. GmInv'
    BY <2>1, <1>b, ThreadsAssumption DEF GmInv
  <2>4. MutualExclusion' /\ OwnerInv'
    BY <2>1, <2>2 DEF MutualExclusion, OwnerInv
  <2>5. QueueInv'
    <3>1. /\ Len(queue) \in Nat /\ Len(queue') = Len(queue) + 1
          /\ queue'[Len(queue) + 1] = t
          /\ \A i \in 1..Len(queue) : queue'[i] = queue[i]
      BY <2>1, <1>b
    <3>2. \A i \in 1..Len(queue) : queue[i] # t
      BY <2>1, <1>c DEF QueueInv, Queued
    <3>3. \A i \in 1..Len(queue') : i \in 1..Len(queue) \/ i = Len(queue) + 1
      BY <3>1
    <3>4. \A i \in 1..Len(queue') : pc'[queue'[i]] \in Queued /\ ~go'[queue'[i]]
      <4>1. \A i \in 1..Len(queue) : pc'[queue[i]] = pc[queue[i]] /\ go'[queue[i]] = go[queue[i]]
        BY <2>1, <3>2, <1>b, <1>c
      <4>2. pc'[t] = "spin" /\ ~go'[t]
        BY <2>1, <1>b
      <4> QED  BY <4>1, <4>2, <3>1, <3>3 DEF QueueInv, Queued
    <3>5. \A i, j \in 1..Len(queue') : queue'[i] = queue'[j] => i = j
      BY <3>1, <3>2, <3>3 DEF QueueInv
    <3> QED  BY <3>4, <3>5 DEF QueueInv
  <2>6. WaiterInv'
    BY <2>1, <1>b DEF WaiterInv
  <2>7. HandoffInv'
    BY <2>1, <1>b, <1>c DEF HandoffInv, GmInv, QueueInv, Queued
  <2>8. NoLostWakeup'
    BY <2>1, <1>b DEF NoLostWakeup, GmInv
  <2> QED  BY <2>3, <2>4, <2>5, <2>6, <2>7, <2>8
<1>9. ASSUME NEW t \in Threads, Spin(t) PROVE LockInv'
  <2>1. /\ pc[t] = "spin" /\ pc' = [pc EXCEPT ![t] = IF go[t] THEN "leave" ELSE "park"]
        /\ UNCHANGED <<gm, g_locked, queue, go, sleeping, t_depth, target, asleep>>
    BY <1>9 DEF Spin, Goto, shared
  <2>2. \A u \in Threads : Owns(u)' <=> Owns(u)
    BY <2>1, <1>a, <1>b DEF Owns, Queued, MutualExclusion, OwnerInv, WaiterInv, HandoffInv
  <2>3. GmInv'
    BY <2>1, <1>b, ThreadsAssumption DEF GmInv
  <2>4. MutualExclusion' /\ OwnerInv'
    BY <2>1, <2>2 DEF MutualExclusion, OwnerInv
  <2>5. QueueInv'
    BY <2>1, <1>b, <1>c DEF QueueInv, Queued
  <2>6. WaiterInv'
    BY <2>1, <1>b DEF WaiterInv
  <2>7. HandoffInv'
    BY <2>1, <1>b, <1>c DEF HandoffInv, GmInv, QueueInv, Queued
  <2>8. NoLostWakeup'
    BY <2>1, <1>b DEF NoLostWakeup, GmInv
  <2> QED  BY <2>3, <2>4, <2>5, <2>6, <2>7, <2>8
<1>10. ASSUME NEW t \in Threads, Park(t) PROVE LockInv'
  <2>1. /\ pc[t] = "park" /\ gm = NoThread
        /\ sleeping' = [sleeping EXCEPT ![t] = ~go[t]]
        /\ pc' = [pc EXCEPT ![t] = IF go[t] THEN "leave" ELSE "wait"]
        /\ UNCHANGED <<gm, g_locked, queue, go, t_depth, target, asleep>>
    BY <1>10 DEF Park, Goto
  <2>2. \A u \in Threads : Owns(u)' <=> Owns(u)
    BY <2>1, <1>a, <1>b DEF Owns, Queued, MutualExclusion, OwnerInv, WaiterInv, HandoffInv
  <2>3. GmInv'
    BY <2>1, <1>b, ThreadsAssumption DEF GmInv
  <2>4. MutualExclusion' /\ OwnerInv'
    BY <2>1, <2>2 DEF MutualExclusion, OwnerInv
  <2>5. QueueInv'
    BY <2>1, <1>b, <1>c DEF QueueInv, Queued
  <2>6. WaiterInv'
    BY <2>1, <1>b DEF WaiterInv
  <2>7. HandoffInv'
    <3>1. \A u \in Threads : pc[u] \notin {"handoff", "signal"}
      BY <2>1, ThreadsAssumption DEF GmInv
    <3>2. \A u \in Threads : pc'[u] \notin {"handoff", "signal"}
      BY <2>1, <3>1, <1>b
    <3> QED  BY <3>2 DEF HandoffInv
  <2>8. NoLostWakeup'
    BY <2>1, <1>b DEF NoLostWakeup, GmInv
  <2> QED  BY <2>3, <2>4, <2>5, <2>6, <2>7, <2>8
<1>11. ASSUME NEW t \in Threads, SpuriousWakeup(t) PROVE LockInv'
  <2>1. /\ pc[t] = "wait" /\ pc' = [pc EXCEPT ![t] = "park"]
        /\ UNCHANGED <<gm, g_locked, queue, go, sleeping, t_depth, target, asleep>>
    BY <1>11 DEF SpuriousWakeup, Goto, shared
  <2>2. \A u \in Threads : Owns(u)' <=> Owns(u)
    BY <2>1, <1>a, <1>b DEF Owns, Queued, MutualExclusion, OwnerInv, WaiterInv, HandoffInv
  <2>3. GmInv'
    BY <2>1, <1>b, ThreadsAssumption DEF GmInv
  <2>4. MutualExclusion' /\ OwnerInv'
    BY <2>1, <2>2 DEF MutualExclusion, OwnerInv
  <2>5. QueueInv'
    BY <2>1, <1>b, <1>c DEF QueueInv, Queued
  <2>6. WaiterInv'
    BY <2>1, <1>b DEF WaiterInv
  <2>7. HandoffInv'
    BY <2>1, <1>b, <1>c DEF HandoffInv, GmInv, QueueInv, Queued
  <2>8. NoLostWakeup'
    BY <2>1, <1>b DEF NoLostWakeup, GmInv
  <2> QED  BY <2>3, <2>4, <2>5, <2>6, <2>7, <2>8
<1>12. ASSUME NEW t \in Threads, Leave(t) PROVE LockInv'
  <2>1. /\ pc[t] = "leave" /\ pc' = [pc EXCEPT ![t] = "run"]
        /\ t_depth'[t] > 0 /\ \A u \in Threads \ {t} : t_depth'[u] = t_depth[u]
        /\ UNCHANGED <<gm, g_locked, queue, go, sleeping, target, asleep>>
    <3>1. /\ Acquired(t) /\ CallerInvOf(t) /\ dropped[t] \in Seq(Gap)
          /\ t_depth \in [Threads -> Nat]
      BY <1>12 DEF Leave, TakeFree, CallerInv, TypeOK
    <3>2. Len(dropped[t]) > 0 => Head(dropped[t]) = dropped[t][1]
      BY <3>1
    <3>3. t_depth'[t] > 0 /\ \A u \in Threads \ {t} : t_depth'[u] = t_depth[u]
      BY <1>12, <3>1, <3>2 DEF Acquired, CallerInvOf, Asking, Leave, TakeFree
    <3> QED  BY <1>12, <3>1, <3>3 DEF Leave, Acquired, Goto
  <2>2. \A u \in Threads : Owns(u)' <=> Owns(u)
    BY <2>1, <1>a, <1>b DEF Owns, Queued, MutualExclusion, OwnerInv, WaiterInv, HandoffInv
  <2>3. GmInv'
    BY <2>1, <1>b, ThreadsAssumption DEF GmInv
  <2>4. MutualExclusion' /\ OwnerInv'
    BY <2>1, <2>2 DEF MutualExclusion, OwnerInv
  <2>5. QueueInv'
    BY <2>1, <1>b, <1>c DEF QueueInv, Queued
  <2>6. WaiterInv'
    BY <2>1, <1>b DEF WaiterInv
  <2>7. HandoffInv'
    BY <2>1, <1>b, <1>c DEF HandoffInv, GmInv, QueueInv, Queued
  <2>8. NoLostWakeup'
    BY <2>1, <1>b DEF NoLostWakeup, GmInv
  <2> QED  BY <2>3, <2>4, <2>5, <2>6, <2>7, <2>8
<1>13. ASSUME NEW t \in Threads, ReleaseFree(t) PROVE LockInv'
  <2>1. /\ pc[t] = "rel" /\ gm = NoThread /\ queue = <<>> /\ g_locked' = FALSE
        /\ pc' = [pc EXCEPT ![t] = IF cont[t] = "yield" THEN "acq" ELSE "run"]
        /\ UNCHANGED <<gm, queue, go, sleeping, t_depth, target, asleep>>
    BY <1>13 DEF ReleaseFree, Released
  <2>2. \A u \in Threads : ~Owns(u)'
    BY <2>1, <1>a, <1>b DEF Owns, Queued, MutualExclusion, OwnerInv, WaiterInv, HandoffInv
  <2>3. GmInv'
    BY <2>1, <1>b, ThreadsAssumption DEF GmInv
  <2>4. MutualExclusion' /\ OwnerInv'
    BY <2>1, <2>2 DEF MutualExclusion, OwnerInv
  <2>5. QueueInv'
    BY <2>1, <1>b, <1>c DEF QueueInv, Queued
  <2>6. WaiterInv'
    BY <2>1, <1>b DEF WaiterInv
  <2>7. HandoffInv'
    BY <2>1, <1>b, <1>c DEF HandoffInv, GmInv, QueueInv, Queued
  <2>8. NoLostWakeup'
    BY <2>1, <1>b DEF NoLostWakeup, GmInv
  <2> QED  BY <2>3, <2>4, <2>5, <2>6, <2>7, <2>8
<1>14. ASSUME NEW t \in Threads, ReleaseDequeue(t) PROVE LockInv'
  <2>1. /\ pc[t] = "rel" /\ gm = NoThread /\ gm' = t
        /\ pc' = [pc EXCEPT ![t] = "handoff"]
        /\ queue # <<>> /\ queue' = Tail(queue)
        /\ target' = [target EXCEPT ![t] = Head(queue)]
        /\ asleep' = [asleep EXCEPT ![t] = sleeping[Head(queue)]]
        /\ UNCHANGED <<g_locked, go, sleeping, t_depth>>
    BY <1>14 DEF ReleaseDequeue, Goto
  <2>2. \A u \in Threads : Owns(u)' <=> Owns(u)
    BY <2>1, <1>a, <1>b DEF Owns, Queued, MutualExclusion, OwnerInv, WaiterInv, HandoffInv
  <2>3. GmInv'
    BY <2>1, <1>b, ThreadsAssumption DEF GmInv
  <2>4. MutualExclusion' /\ OwnerInv'
    BY <2>1, <2>2 DEF MutualExclusion, OwnerInv
  <2>5. QueueInv'
    BY <2>1, <1>b, <1>c DEF QueueInv, Queued
  <2>6. WaiterInv'
    BY <2>1, <1>b DEF WaiterInv
  <2>7. HandoffInv'
    <3>1. \A u \in Threads : pc[u] \notin {"handoff", "signal"}
      BY <2>1, ThreadsAssumption DEF GmInv
    <3>2. \A u \in Threads \ {t} : pc'[u] \notin {"handoff", "signal"}
      BY <2>1, <3>1, <1>b
    <3> DEFINE w == Head(queue)
    <3>3. /\ w = queue[1] /\ w \in Threads /\ 1 \in 1..Len(queue)
          /\ Len(queue') = Len(queue) - 1
          /\ \A i \in 1..(Len(queue) - 1) : queue'[i] = queue[i + 1]
      BY <2>1, <1>b, HeadTailFacts
    <3>4. pc[w] \in Queued /\ ~go[w] /\ w # t
      BY <2>1, <3>3 DEF QueueInv, Queued
    <3>5. \A i \in 1..Len(queue') : queue'[i] # w
      <4>1. ASSUME NEW i \in 1..Len(queue') PROVE queue'[i] = queue[i + 1] /\ i + 1 \in 1..Len(queue) /\ i + 1 # 1
        BY <3>3, <1>b
      <4> QED  BY <4>1, <3>3 DEF QueueInv
    <3> HIDE DEF w
    <3>6. /\ target'[t] = w /\ pc'[t] = "handoff" /\ pc'[w] = pc[w] /\ go'[w] = go[w]
          /\ asleep'[t] = sleeping[w]
      BY <2>1, <3>3, <3>4, <1>b DEF w
    <3>7. /\ asleep'[t] => pc[w] \in {"park", "wait"}
          /\ pc[w] = "wait" => asleep'[t]
      BY <3>3, <3>4, <3>6 DEF WaiterInv, Queued
    <3> QED  BY <3>2, <3>3, <3>4, <3>5, <3>6, <3>7 DEF HandoffInv
  <2>8. NoLostWakeup'
    BY <2>1, <1>b DEF NoLostWakeup, GmInv
  <2> QED  BY <2>3, <2>4, <2>5, <2>6, <2>7, <2>8
<1>15. ASSUME NEW t \in Threads, ReleaseStoreGo(t) PROVE LockInv'
  <2>1. /\ pc[t] = "handoff" /\ pc' = [pc EXCEPT ![t] = "signal"]
        /\ go' = [go EXCEPT ![target[t]] = TRUE]
        /\ UNCHANGED <<gm, g_locked, queue, sleeping, t_depth, target, asleep>>
    BY <1>15 DEF ReleaseStoreGo, Goto
  <2>2. \A u \in Threads : Owns(u)' <=> u = target[t]
    BY <2>1, <1>a, <1>b DEF Owns, Queued, MutualExclusion, OwnerInv, WaiterInv, HandoffInv
  <2>3. GmInv'
    BY <2>1, <1>b, ThreadsAssumption DEF GmInv
  <2>4. MutualExclusion' /\ OwnerInv'
    <3>1. target[t] \in Threads /\ Owns(t)
      BY <2>1 DEF HandoffInv, Owns
    <3> QED  BY <2>1, <2>2, <3>1 DEF MutualExclusion, OwnerInv
  <2>5. QueueInv'
    <3>1. \A i \in 1..Len(queue) : queue[i] # target[t] /\ queue[i] # t
      BY <2>1 DEF HandoffInv, QueueInv, Queued
    <3>2. \A i \in 1..Len(queue) : pc'[queue[i]] = pc[queue[i]] /\ go'[queue[i]] = go[queue[i]]
      BY <2>1, <3>1, <1>b, <1>c
    <3> QED  BY <2>1, <3>2 DEF QueueInv
  <2>6. WaiterInv'
    BY <2>1, <1>b DEF WaiterInv
  <2>7. HandoffInv'
    BY <2>1, <1>b, <1>c DEF HandoffInv, GmInv, QueueInv, Queued
  <2>8. NoLostWakeup'
    <3>1. ASSUME NEW u \in Threads, pc'[u] = "wait", go'[u]
          PROVE  \E r \in Threads : pc'[r] = "signal" /\ target'[r] = u /\ asleep'[r]
      <4>1. pc[u] = "wait" /\ u # t
        BY <3>1, <2>1, <1>b
      <4>2. CASE u = target[t]
        BY <4>1, <4>2, <2>1, <1>b DEF HandoffInv
      <4>3. CASE u # target[t]
        <5>1. go[u]
          BY <3>1, <4>3, <2>1, <1>b
        <5>2. PICK r \in Threads : pc[r] = "signal" /\ target[r] = u /\ asleep[r]
          BY <4>1, <5>1 DEF NoLostWakeup
        <5> QED  BY <5>2, <2>1, <1>b
      <4> QED  BY <4>2, <4>3
    <3> QED  BY <3>1 DEF NoLostWakeup
  <2> QED  BY <2>3, <2>4, <2>5, <2>6, <2>7, <2>8
<1>16. ASSUME NEW t \in Threads, ReleaseSignal(t) PROVE LockInv'
  <2> DEFINE w == target[t]
             back == IF cont[t] = "yield" THEN "acq" ELSE "run"
             p == IF asleep[t] /\ pc[w] = "wait" THEN [pc EXCEPT ![w] = "park"] ELSE pc
  <2>1. /\ pc[t] = "signal" /\ pc' = [p EXCEPT ![t] = back]
        /\ gm' = NoThread
        /\ target' = [target EXCEPT ![t] = NoThread]
        /\ asleep' = [asleep EXCEPT ![t] = FALSE]
        /\ UNCHANGED <<g_locked, queue, go, sleeping, t_depth>>
    BY <1>16 DEF ReleaseSignal, Released
  <2>2. w \in Threads /\ gm = t /\ back \in {"acq", "run"}
    BY <2>1 DEF HandoffInv, GmInv
  <2>3. \A u \in Threads \ {t} : pc[u] \notin {"handoff", "signal"}
    BY <2>2 DEF GmInv
  <2>4. /\ pc'[t] = back
        /\ \A u \in Threads \ {t} : \/ pc'[u] = pc[u] /\ (u = w /\ asleep[t] => pc[u] # "wait")
                                    \/ /\ u = w /\ asleep[t]
                                       /\ pc[u] = "wait" /\ pc'[u] = "park"
    <3>1. CASE asleep[t] /\ pc[w] = "wait"
      <4>1. p = [pc EXCEPT ![w] = "park"]
        BY <3>1, Zenon
      <4> HIDE DEF p, w, back
      <4> QED  BY <4>1, <3>1, <2>1, <2>2, <1>b
    <3>2. CASE ~(asleep[t] /\ pc[w] = "wait")
      <4>1. p = pc
        BY <3>2, Zenon
      <4> HIDE DEF p, w, back
      <4> QED  BY <4>1, <3>2, <2>1, <2>2, <1>b
    <3> QED  BY <3>1, <3>2
  <2> HIDE DEF p, back
  <2>5. \A u \in Threads : Owns(u)' <=> Owns(u)
    BY <2>1, <2>2, <2>4, <1>a DEF Owns, Queued
  <2>6. GmInv'
    BY <2>1, <2>2, <2>3, <2>4, ThreadsAssumption DEF GmInv
  <2>7. MutualExclusion' /\ OwnerInv'
    BY <2>1, <2>5 DEF MutualExclusion, OwnerInv
  <2>8. QueueInv'
    BY <2>1, <2>2, <2>4, <1>c DEF QueueInv, Queued
  <2>9. WaiterInv'
    BY <2>1, <2>2, <2>4 DEF WaiterInv
  <2>10. HandoffInv'
    BY <2>2, <2>3, <2>4 DEF HandoffInv
  <2>11. NoLostWakeup'
    <3>1. ASSUME NEW u \in Threads, pc'[u] = "wait", go'[u] PROVE FALSE
      <4>1. u # t /\ pc[u] = "wait" /\ go[u] /\ (u = w => ~asleep[t])
        BY <3>1, <2>1, <2>2, <2>4
      <4>2. PICK r \in Threads : pc[r] = "signal" /\ target[r] = u /\ asleep[r]
        BY <4>1 DEF NoLostWakeup
      <4> QED  BY <4>1, <4>2, <2>3
    <3> QED  BY <3>1 DEF NoLostWakeup
  <2> QED  BY <2>6, <2>7, <2>8, <2>9, <2>10, <2>11
<1> QED
  BY <1>0, <1>1, <1>2, <1>3, <1>4, <1>5, <1>6, <1>7, <1>8, <1>9, <1>10, <1>11, <1>12, <1>13, <1>14, <1>15, <1>16 DEF Next, vars

-----------------------------------------------------------------------------
(* g_waiters.                                                               *)

\* A step under which no thread enters or leaves the contended part of an
\* acquire keeps the count.
LEMMA SameWaiters ==
  ASSUME WaitersCounted, g_waiters' = g_waiters,
         \A u \in Threads : pc'[u] \in Queued \cup {"leave"} <=> pc[u] \in Queued \cup {"leave"}
  PROVE  WaitersCounted'
<1>1. Waiting' = Waiting
  BY DEF Waiting, Queued
<1> QED  BY <1>1 DEF WaitersCounted, Waiting

\* The count of the waiters is kept by every step.
LEMMA WaitersStep ==
  ASSUME IInv, [Next]_vars PROVE WaitersCounted'
<1> USE DEF IInv
<1>b. pc \in [Threads -> PC] /\ g_waiters = Cardinality(Waiting)
  BY DEF TypeOK, WaitersCounted, Waiting
<1>c. IsFiniteSet(Waiting)
  BY ThreadsAssumption, FS_Subset DEF Waiting
<1>0. CASE UNCHANGED vars
  BY <1>0, SameWaiters DEF vars, shared, locals
<1>1. ASSUME NEW t \in Threads, ArmLockAcquire(t) PROVE WaitersCounted'
  BY <1>1, <1>b, SameWaiters DEF ArmLockAcquire, Goto, shared, Queued
<1>2. ASSUME NEW t \in Threads, ArmLockRelease(t) PROVE WaitersCounted'
  BY <1>2, <1>b, SameWaiters DEF ArmLockRelease, Goto, shared, Queued
<1>3. ASSUME NEW t \in Threads, ArmLockUnlockAll(t) PROVE WaitersCounted'
  BY <1>3, <1>b, SameWaiters DEF ArmLockUnlockAll, DropAll, Goto, shared, Queued
<1>4. ASSUME NEW t \in Threads, ArmLockYield(t) PROVE WaitersCounted'
  BY <1>4, <1>b, SameWaiters DEF ArmLockYield, DropAll, Goto, shared, Queued
<1>5. ASSUME NEW t \in Threads, ArmLockRelock(t) PROVE WaitersCounted'
  BY <1>5, <1>b, SameWaiters DEF ArmLockRelock, Goto, shared, Queued
<1>6. ASSUME NEW t \in Threads, ArmLockTag(t) PROVE WaitersCounted'
  BY <1>6, <1>b, SameWaiters DEF ArmLockTag, Goto, shared, Queued
<1>7. ASSUME NEW t \in Threads, TakeFree(t) PROVE WaitersCounted'
  BY <1>7, <1>b, SameWaiters DEF TakeFree, Acquired, Goto, Queued
<1>8. ASSUME NEW t \in Threads, Enqueue(t) PROVE WaitersCounted'
  <2>1. pc[t] = "acq" /\ pc' = [pc EXCEPT ![t] = "spin"] /\ g_waiters' = g_waiters + 1
    BY <1>8 DEF Enqueue, Goto
  <2>2. Waiting' = Waiting \cup {t} /\ t \notin Waiting
    BY <2>1, <1>b DEF Waiting, Queued
  <2>3. Cardinality(Waiting') = Cardinality(Waiting) + 1
    BY <2>2, <1>c, FS_AddElement
  <2> QED  BY <2>1, <2>3, <1>b DEF WaitersCounted, Waiting
<1>9. ASSUME NEW t \in Threads, Spin(t) PROVE WaitersCounted'
  BY <1>9, <1>b, SameWaiters DEF Spin, Goto, shared, Queued
<1>10. ASSUME NEW t \in Threads, Park(t) PROVE WaitersCounted'
  BY <1>10, <1>b, SameWaiters DEF Park, Goto, shared, Queued
<1>11. ASSUME NEW t \in Threads, SpuriousWakeup(t) PROVE WaitersCounted'
  BY <1>11, <1>b, SameWaiters DEF SpuriousWakeup, Goto, shared, Queued
<1>12. ASSUME NEW t \in Threads, Leave(t) PROVE WaitersCounted'
  <2>1. pc[t] = "leave" /\ pc' = [pc EXCEPT ![t] = "run"] /\ g_waiters' = g_waiters - 1
    BY <1>12 DEF Leave, Acquired, Goto
  <2>2. Waiting' = Waiting \ {t} /\ t \in Waiting
    BY <2>1, <1>b DEF Waiting, Queued
  <2>3. Cardinality(Waiting') = Cardinality(Waiting) - 1
    BY <2>2, <1>c, FS_RemoveElement
  <2> QED  BY <2>1, <2>3, <1>b DEF WaitersCounted, Waiting
<1>13. ASSUME NEW t \in Threads, ReleaseFree(t) PROVE WaitersCounted'
  BY <1>13, <1>b, SameWaiters DEF ReleaseFree, Released, Queued
<1>14. ASSUME NEW t \in Threads, ReleaseDequeue(t) PROVE WaitersCounted'
  BY <1>14, <1>b, SameWaiters DEF ReleaseDequeue, Goto, shared, Queued
<1>15. ASSUME NEW t \in Threads, ReleaseStoreGo(t) PROVE WaitersCounted'
  BY <1>15, <1>b, SameWaiters DEF ReleaseStoreGo, Goto, shared, Queued
<1>16. ASSUME NEW t \in Threads, ReleaseSignal(t) PROVE WaitersCounted'
  <2> DEFINE w == target[t]
             back == IF cont[t] = "yield" THEN "acq" ELSE "run"
             p == IF asleep[t] /\ pc[w] = "wait" THEN [pc EXCEPT ![w] = "park"] ELSE pc
  <2>1. /\ pc[t] = "signal" /\ pc' = [p EXCEPT ![t] = back] /\ g_waiters' = g_waiters
        /\ back \in {"acq", "run"}
    BY <1>16 DEF ReleaseSignal, Released
  <2>2. /\ p \in [Threads -> PC]
        /\ \A u \in Threads : p[u] = pc[u] \/ (pc[u] = "wait" /\ p[u] = "park")
    <3>1. CASE asleep[t] /\ pc[w] = "wait"
      <4>1. p = [pc EXCEPT ![w] = "park"] /\ "park" \in PC
        BY <3>1, Zenon DEF PC
      <4> HIDE DEF p, w
      <4> QED  BY <4>1, <3>1, <1>b
    <3>2. CASE ~(asleep[t] /\ pc[w] = "wait")
      <4>1. p = pc
        BY <3>2, Zenon
      <4> HIDE DEF p, w
      <4> QED  BY <4>1, <1>b
    <3> QED  BY <3>1, <3>2
  <2> HIDE DEF p, back
  <2> QED  BY <2>1, <2>2, SameWaiters DEF Queued
<1> QED
  BY <1>0, <1>1, <1>2, <1>3, <1>4, <1>5, <1>6, <1>7, <1>8, <1>9, <1>10, <1>11, <1>12, <1>13, <1>14, <1>15, <1>16 DEF Next, vars

-----------------------------------------------------------------------------
(* The theorems.                                                            *)

\* The invariant holds of the initial state, every step keeps it.
THEOREM LockInvariant == Spec => []IInv
<1>1. Init => IInv
  <2> SUFFICES ASSUME Init PROVE IInv
    OBVIOUS
  <2>1. TypeOK
    <3>1. <<0>> \in Seq(Nat) /\ <<>> \in Seq(Gap) /\ <<>> \in Seq(Threads)
      OBVIOUS
    <3>2. "run" \in PC /\ "none" \in Cont
      BY DEF PC, Cont
    <3> QED  BY <3>1, <3>2, BoundsAssumption DEF Init, TypeOK
  <2>2. CallerInv
    BY DEF Init, CallerInv, CallerInvOf, Asking, Releasing
  <2>3. LockInv
    BY ThreadsAssumption DEF Init, LockInv, GmInv, MutualExclusion, OwnerInv, QueueInv,
       WaiterInv, HandoffInv, NoLostWakeup, Owns, Queued
  <2>4. WaitersCounted
    <3>1. Waiting = {}
      BY DEF Init, Waiting, Queued
    <3> QED  BY <3>1, FS_EmptySet DEF Init, WaitersCounted, Waiting
  <2> QED  BY <2>1, <2>2, <2>3, <2>4 DEF IInv
<1>2. IInv /\ [Next]_vars => IInv'
  <2>1. ASSUME IInv, [Next]_vars PROVE TypeOK' /\ CallerInv' /\ LockInv' /\ WaitersCounted'
    BY <2>1, CallerStep, LockStep, WaitersStep
  <2> QED  BY <2>1 DEF IInv
<1> QED  BY <1>1, <1>2, PTL DEF Spec

\* Every variable of the lock keeps its type; in particular g_waiters never
\* wraps and no thread closes a gap it did not open.
THEOREM TypeCorrect == Spec => []TypeOK
<1>1. IInv => TypeOK
  BY DEF IInv
<1> QED  BY <1>1, LockInvariant, PTL

\* The execution lock has at most one owner, whatever the number of threads.
THEOREM Exclusion == Spec => []MutualExclusion
<1>1. IInv => MutualExclusion
  BY DEF IInv, LockInv
<1> QED  BY <1>1, LockInvariant, PTL

\* No thread sleeps on after its turn has come.
THEOREM WakeupsArrive == Spec => []NoLostWakeup
<1>1. IInv => NoLostWakeup
  BY DEF IInv, LockInv
<1> QED  BY <1>1, LockInvariant, PTL

\* A releaser never touches the node of a thread that has left its acquire.
THEOREM NodesInUse == Spec => []NodeInUse
<1>1. IInv => NodeInUse
  BY DEF IInv, LockInv, HandoffInv, NodeInUse
<1> QED  BY <1>1, LockInvariant, PTL

\* Recursion counts match the open guards through every nesting.
THEOREM DepthsRestored == Spec => []DepthMatchesGuards
<1>1. IInv => DepthMatchesGuards
  <2> SUFFICES ASSUME IInv, NEW t \in Threads, pc[t] = "run"
               PROVE  t_depth[t] = Head(guards[t])
    BY DEF DepthMatchesGuards
  <2>1. Head(guards[t]) = guards[t][1]
    BY CallerFacts DEF IInv
  <2> QED  BY <2>1 DEF IInv, CallerInv, CallerInvOf
<1> QED  BY <1>1, LockInvariant, PTL

\* g_waiters is the number of threads in a contended acquire.
THEOREM WaitersRight == Spec => []WaitersCounted
<1>1. IInv => WaitersCounted
  BY DEF IInv
<1> QED  BY <1>1, LockInvariant, PTL

-----------------------------------------------------------------------------
(* The lock implements FifoLock.                                            *)

\* The refinement mapping: Owner is the thread that owns the lock, Line the
\* queue preceded by the waiter that was dequeued but has no go flag yet.
LEMMA MappingFacts ==
  ASSUME IInv
  PROVE  /\ \A t \in Threads : Owns(t) => Owner = t
         /\ (\A t \in Threads : ~Owns(t)) => Owner = NoThread
         /\ \A r \in Threads : pc[r] = "handoff" => Line = <<target[r]>> \o queue
         /\ (\A r \in Threads : pc[r] # "handoff") => Line = queue
<1> USE DEF IInv, LockInv
<1>1. ASSUME NEW t \in Threads, Owns(t) PROVE Owner = t
  <2>1. \A u \in Threads : Owns(u) <=> u = t
    BY <1>1 DEF MutualExclusion
  <2> QED  BY <2>1 DEF Owner
<1>2. ASSUME \A t \in Threads : ~Owns(t) PROVE Owner = NoThread
  BY <1>2 DEF Owner
<1>3. ASSUME NEW r \in Threads, pc[r] = "handoff" PROVE Line = <<target[r]>> \o queue
  <2>1. \A u \in Threads : pc[u] = "handoff" <=> u = r
    BY <1>3 DEF GmInv
  <2>2. r = CHOOSE u \in Threads : pc[u] = "handoff"
    BY <2>1
  <2> QED  BY <2>1, <2>2 DEF Line
<1>4. ASSUME \A r \in Threads : pc[r] # "handoff" PROVE Line = queue
  BY <1>4 DEF Line
<1> QED  BY <1>1, <1>2, <1>3, <1>4

\* A step that changes neither the owners nor the queue nor a hand-over in
\* progress is a stuttering step of FifoLock.
LEMMA MappingStutters ==
  ASSUME queue' = queue, target' = target,
         \A u \in Threads : Owns(u)' <=> Owns(u),
         \A u \in Threads : pc'[u] = "handoff" <=> pc[u] = "handoff"
  PROVE  Owner' = Owner /\ Line' = Line
<1>1. Owner' = Owner
  BY DEF Owner
<1>2. Line' = Line
  BY DEF Line
<1> QED  BY <1>1, <1>2

\* Every step of the lock is a step of FifoLock or leaves its state alone.
LEMMA FifoStep ==
  ASSUME IInv, [Next]_vars PROVE [Fifo!Next]_(Fifo!fifoVars)
<1> USE DEF IInv, LockInv
<1>a. \A u \in Threads : pc[u] # "run" => t_depth[u] = 0
  BY DEF CallerInv, CallerInvOf
<1>b. /\ pc \in [Threads -> PC] /\ go \in [Threads -> BOOLEAN] /\ t_depth \in [Threads -> Nat]
      /\ sleeping \in [Threads -> BOOLEAN] /\ asleep \in [Threads -> BOOLEAN]
      /\ queue \in Seq(Threads) /\ gm \in Threads \cup {NoThread}
      /\ target \in [Threads -> Threads \cup {NoThread}]
  BY DEF TypeOK
<1>c. \A i \in 1..Len(queue) : queue[i] \in Threads
  BY <1>b
<1>s. ASSUME Owner' = Owner, Line' = Line PROVE [Fifo!Next]_(Fifo!fifoVars)
  BY <1>s DEF Fifo!fifoVars
<1>0. CASE UNCHANGED vars
  <2>1. Owner' = Owner /\ Line' = Line
    BY <1>0 DEF vars, shared, locals, Owner, Line, Owns
  <2> QED  BY <2>1, <1>s
<1>1. ASSUME NEW t \in Threads, ArmLockAcquire(t) PROVE [Fifo!Next]_(Fifo!fifoVars)
  <2>1. /\ pc[t] = "run" /\ pc'[t] # "handoff"
        /\ \A u \in Threads \ {t} : pc'[u] = pc[u] /\ t_depth'[u] = t_depth[u]
        /\ UNCHANGED <<queue, go, target>>
    BY <1>1, <1>b DEF ArmLockAcquire, Goto, shared
  <2>2. \A u \in Threads : Owns(u)' <=> Owns(u)
    <3>1. Owns(t)' <=> Owns(t)
      BY <1>1, <1>b, <2>1 DEF ArmLockAcquire, Goto, shared, Owns, Queued
    <3> QED  BY <3>1, <2>1 DEF Owns
  <2>3. \A u \in Threads : pc'[u] = "handoff" <=> pc[u] = "handoff"
    BY <2>1, <1>b
  <2> QED  BY <2>1, <2>2, <2>3, <1>s, MappingStutters
<1>2. ASSUME NEW t \in Threads, ArmLockRelease(t) PROVE [Fifo!Next]_(Fifo!fifoVars)
  <2>1. /\ pc[t] = "run" /\ pc'[t] # "handoff"
        /\ \A u \in Threads \ {t} : pc'[u] = pc[u] /\ t_depth'[u] = t_depth[u]
        /\ UNCHANGED <<queue, go, target>>
    BY <1>2, <1>b DEF ArmLockRelease, Goto, shared
  <2>2. \A u \in Threads : Owns(u)' <=> Owns(u)
    <3>1. Owns(t)' <=> Owns(t)
      BY <1>2, <1>b, <2>1 DEF ArmLockRelease, Goto, shared, Owns, Queued
    <3> QED  BY <3>1, <2>1 DEF Owns
  <2>3. \A u \in Threads : pc'[u] = "handoff" <=> pc[u] = "handoff"
    BY <2>1, <1>b
  <2> QED  BY <2>1, <2>2, <2>3, <1>s, MappingStutters
<1>3. ASSUME NEW t \in Threads, ArmLockUnlockAll(t) PROVE [Fifo!Next]_(Fifo!fifoVars)
  <2>1. /\ pc[t] = "run" /\ pc'[t] # "handoff"
        /\ \A u \in Threads \ {t} : pc'[u] = pc[u] /\ t_depth'[u] = t_depth[u]
        /\ UNCHANGED <<queue, go, target>>
    BY <1>3, <1>b DEF ArmLockUnlockAll, DropAll, Goto, shared
  <2>2. \A u \in Threads : Owns(u)' <=> Owns(u)
    <3>1. Owns(t)' <=> Owns(t)
      BY <1>3, <1>b, <2>1 DEF ArmLockUnlockAll, DropAll, Goto, shared, Owns, Queued
    <3> QED  BY <3>1, <2>1 DEF Owns
  <2>3. \A u \in Threads : pc'[u] = "handoff" <=> pc[u] = "handoff"
    BY <2>1, <1>b
  <2> QED  BY <2>1, <2>2, <2>3, <1>s, MappingStutters
<1>4. ASSUME NEW t \in Threads, ArmLockYield(t) PROVE [Fifo!Next]_(Fifo!fifoVars)
  <2>1. /\ pc[t] = "run" /\ pc'[t] # "handoff"
        /\ \A u \in Threads \ {t} : pc'[u] = pc[u] /\ t_depth'[u] = t_depth[u]
        /\ UNCHANGED <<queue, go, target>>
    BY <1>4, <1>b DEF ArmLockYield, DropAll, Goto, shared
  <2>2. \A u \in Threads : Owns(u)' <=> Owns(u)
    <3>1. Owns(t)' <=> Owns(t)
      BY <1>4, <1>b, <2>1 DEF ArmLockYield, DropAll, Goto, shared, Owns, Queued
    <3> QED  BY <3>1, <2>1 DEF Owns
  <2>3. \A u \in Threads : pc'[u] = "handoff" <=> pc[u] = "handoff"
    BY <2>1, <1>b
  <2> QED  BY <2>1, <2>2, <2>3, <1>s, MappingStutters
<1>5. ASSUME NEW t \in Threads, ArmLockRelock(t) PROVE [Fifo!Next]_(Fifo!fifoVars)
  <2>1. /\ pc[t] = "run" /\ pc'[t] # "handoff"
        /\ \A u \in Threads \ {t} : pc'[u] = pc[u] /\ t_depth'[u] = t_depth[u]
        /\ UNCHANGED <<queue, go, target>>
    BY <1>5, <1>b DEF ArmLockRelock, Goto, shared
  <2>2. \A u \in Threads : Owns(u)' <=> Owns(u)
    <3>1. Owns(t)' <=> Owns(t)
      BY <1>5, <1>b, <2>1 DEF ArmLockRelock, Goto, shared, Owns, Queued
    <3> QED  BY <3>1, <2>1 DEF Owns
  <2>3. \A u \in Threads : pc'[u] = "handoff" <=> pc[u] = "handoff"
    BY <2>1, <1>b
  <2> QED  BY <2>1, <2>2, <2>3, <1>s, MappingStutters
<1>6. ASSUME NEW t \in Threads, ArmLockTag(t) PROVE [Fifo!Next]_(Fifo!fifoVars)
  <2>1. /\ pc[t] = "run" /\ pc'[t] # "handoff"
        /\ \A u \in Threads \ {t} : pc'[u] = pc[u] /\ t_depth'[u] = t_depth[u]
        /\ UNCHANGED <<queue, go, target>>
    BY <1>6, <1>b DEF ArmLockTag, shared
  <2>2. \A u \in Threads : Owns(u)' <=> Owns(u)
    <3>1. Owns(t)' <=> Owns(t)
      BY <1>6, <1>b, <2>1 DEF ArmLockTag, shared, Owns, Queued
    <3> QED  BY <3>1, <2>1 DEF Owns
  <2>3. \A u \in Threads : pc'[u] = "handoff" <=> pc[u] = "handoff"
    BY <2>1, <1>b
  <2> QED  BY <2>1, <2>2, <2>3, <1>s, MappingStutters
<1>7. ASSUME NEW t \in Threads, TakeFree(t) PROVE [Fifo!Next]_(Fifo!fifoVars)
  <2>1. /\ pc[t] = "acq" /\ pc' = [pc EXCEPT ![t] = "run"]
        /\ ~g_locked /\ g_locked' = TRUE
        /\ t_depth'[t] > 0 /\ \A u \in Threads \ {t} : t_depth'[u] = t_depth[u]
        /\ UNCHANGED <<gm, queue, go, sleeping, target, asleep>>
    <3>1. /\ Acquired(t) /\ CallerInvOf(t) /\ dropped[t] \in Seq(Gap)
          /\ t_depth \in [Threads -> Nat]
      BY <1>7 DEF Leave, TakeFree, CallerInv, TypeOK
    <3>2. Len(dropped[t]) > 0 => Head(dropped[t]) = dropped[t][1]
      BY <3>1
    <3>3. t_depth'[t] > 0 /\ \A u \in Threads \ {t} : t_depth'[u] = t_depth[u]
      BY <1>7, <3>1, <3>2 DEF Acquired, CallerInvOf, Asking, Leave, TakeFree
    <3> QED  BY <1>7, <3>1, <3>3 DEF TakeFree, Acquired, Goto
  <2>2. \A u \in Threads : Owns(u)' <=> u = t
    BY <2>1, <1>a, <1>b DEF Owns, Queued, MutualExclusion, OwnerInv, WaiterInv, HandoffInv
  <2>3. \A u \in Threads : ~Owns(u) /\ pc[u] # "handoff" /\ pc'[u] # "handoff"
    <3>1. \A u \in Threads : ~Owns(u)
      BY <2>1 DEF OwnerInv
    <3>2. \A u \in Threads : pc[u] # "handoff"
      BY <3>1 DEF Owns
    <3> QED  BY <3>1, <3>2, <2>1, <1>b
  <2>4. Owner = NoThread /\ Line = <<>>
    BY <2>1, <2>3, MappingFacts DEF OwnerInv
  <2>5. Owner' = t /\ Line' = <<>>
    <3>1. Owner' = t
      BY <2>2 DEF Owner
    <3>2. Line' = queue'
      BY <2>3 DEF Line
    <3> QED  BY <3>1, <3>2, <2>1 DEF OwnerInv
  <2>6. Fifo!Take(t)
    BY <2>4, <2>5 DEF Fifo!Take
  <2> QED  BY <2>6 DEF Fifo!Next
<1>8. ASSUME NEW t \in Threads, Enqueue(t) PROVE [Fifo!Next]_(Fifo!fifoVars)
  <2>1. /\ pc[t] = "acq" /\ pc' = [pc EXCEPT ![t] = "spin"] /\ gm = NoThread
        /\ g_locked \/ queue # <<>>
        /\ queue' = Append(queue, t)
        /\ go' = [go EXCEPT ![t] = FALSE] /\ sleeping' = [sleeping EXCEPT ![t] = FALSE]
        /\ UNCHANGED <<gm, g_locked, t_depth, target, asleep>>
    BY <1>8 DEF Enqueue, Goto
  <2>2. \A u \in Threads : Owns(u)' <=> Owns(u)
    BY <2>1, <1>a, <1>b DEF Owns, Queued, MutualExclusion, OwnerInv, WaiterInv, HandoffInv
  <2>3. \A u \in Threads : pc[u] # "handoff" /\ pc'[u] # "handoff"
    <3>1. \A u \in Threads : pc[u] # "handoff"
      BY <2>1, ThreadsAssumption DEF GmInv
    <3> QED  BY <3>1, <2>1, <1>b
  <2>4. PICK o \in Threads : Owns(o)
    BY <2>1 DEF OwnerInv
  <2>5. o # t
    <3>1. t_depth[t] = 0
      BY <2>1, <1>a
    <3> QED  BY <2>1, <2>4, <3>1 DEF Owns, Queued
  <2>6. Owner = o /\ Owner' = o /\ o # NoThread
    <3>1. Owner = o
      BY <2>4, MappingFacts
    <3>2. \A u \in Threads : Owns(u)' <=> u = o
      BY <2>2, <2>4 DEF MutualExclusion
    <3>3. Owner' = o
      BY <3>2 DEF Owner
    <3> QED  BY <3>1, <3>3, ThreadsAssumption
  <2>7. Line = queue /\ Line' = Append(queue, t)
    <3>1. Line = queue
      BY <2>3, MappingFacts
    <3>2. Line' = queue'
      BY <2>3 DEF Line
    <3> QED  BY <3>1, <3>2, <2>1
  <2>8. ~Fifo!InLine(t)
    <3>1. \A i \in 1..Len(queue) : queue[i] # t
      BY <2>1 DEF QueueInv, Queued
    <3> QED  BY <2>7, <3>1 DEF Fifo!InLine
  <2>9. Fifo!Join(t)
    BY <2>5, <2>6, <2>7, <2>8 DEF Fifo!Join
  <2> QED  BY <2>9 DEF Fifo!Next
<1>9. ASSUME NEW t \in Threads, Spin(t) PROVE [Fifo!Next]_(Fifo!fifoVars)
  <2>1. /\ pc[t] = "spin" /\ pc' = [pc EXCEPT ![t] = IF go[t] THEN "leave" ELSE "park"]
        /\ UNCHANGED <<gm, g_locked, queue, go, sleeping, t_depth, target, asleep>>
    BY <1>9 DEF Spin, Goto, shared
  <2>2. \A u \in Threads : Owns(u)' <=> Owns(u)
    BY <2>1, <1>a, <1>b DEF Owns, Queued, MutualExclusion, OwnerInv, WaiterInv, HandoffInv
  <2>3. \A u \in Threads : pc'[u] = "handoff" <=> pc[u] = "handoff"
    BY <2>1, <1>b
  <2> QED  BY <2>1, <2>2, <2>3, <1>s, MappingStutters
<1>10. ASSUME NEW t \in Threads, Park(t) PROVE [Fifo!Next]_(Fifo!fifoVars)
  <2>1. /\ pc[t] = "park" /\ gm = NoThread
        /\ sleeping' = [sleeping EXCEPT ![t] = ~go[t]]
        /\ pc' = [pc EXCEPT ![t] = IF go[t] THEN "leave" ELSE "wait"]
        /\ UNCHANGED <<gm, g_locked, queue, go, t_depth, target, asleep>>
    BY <1>10 DEF Park, Goto
  <2>2. \A u \in Threads : Owns(u)' <=> Owns(u)
    BY <2>1, <1>a, <1>b DEF Owns, Queued, MutualExclusion, OwnerInv, WaiterInv, HandoffInv
  <2>3. \A u \in Threads : pc'[u] = "handoff" <=> pc[u] = "handoff"
    BY <2>1, <1>b
  <2> QED  BY <2>1, <2>2, <2>3, <1>s, MappingStutters
<1>11. ASSUME NEW t \in Threads, SpuriousWakeup(t) PROVE [Fifo!Next]_(Fifo!fifoVars)
  <2>1. /\ pc[t] = "wait" /\ pc' = [pc EXCEPT ![t] = "park"]
        /\ UNCHANGED <<gm, g_locked, queue, go, sleeping, t_depth, target, asleep>>
    BY <1>11 DEF SpuriousWakeup, Goto, shared
  <2>2. \A u \in Threads : Owns(u)' <=> Owns(u)
    BY <2>1, <1>a, <1>b DEF Owns, Queued, MutualExclusion, OwnerInv, WaiterInv, HandoffInv
  <2>3. \A u \in Threads : pc'[u] = "handoff" <=> pc[u] = "handoff"
    BY <2>1, <1>b
  <2> QED  BY <2>1, <2>2, <2>3, <1>s, MappingStutters
<1>12. ASSUME NEW t \in Threads, Leave(t) PROVE [Fifo!Next]_(Fifo!fifoVars)
  <2>1. /\ pc[t] = "leave" /\ pc' = [pc EXCEPT ![t] = "run"]
        /\ t_depth'[t] > 0 /\ \A u \in Threads \ {t} : t_depth'[u] = t_depth[u]
        /\ UNCHANGED <<gm, g_locked, queue, go, sleeping, target, asleep>>
    <3>1. /\ Acquired(t) /\ CallerInvOf(t) /\ dropped[t] \in Seq(Gap)
          /\ t_depth \in [Threads -> Nat]
      BY <1>12 DEF Leave, TakeFree, CallerInv, TypeOK
    <3>2. Len(dropped[t]) > 0 => Head(dropped[t]) = dropped[t][1]
      BY <3>1
    <3>3. t_depth'[t] > 0 /\ \A u \in Threads \ {t} : t_depth'[u] = t_depth[u]
      BY <1>12, <3>1, <3>2 DEF Acquired, CallerInvOf, Asking, Leave, TakeFree
    <3> QED  BY <1>12, <3>1, <3>3 DEF Leave, Acquired, Goto
  <2>2. \A u \in Threads : Owns(u)' <=> Owns(u)
    BY <2>1, <1>a, <1>b DEF Owns, Queued, MutualExclusion, OwnerInv, WaiterInv, HandoffInv
  <2>3. \A u \in Threads : pc'[u] = "handoff" <=> pc[u] = "handoff"
    BY <2>1, <1>b
  <2> QED  BY <2>1, <2>2, <2>3, <1>s, MappingStutters
<1>13. ASSUME NEW t \in Threads, ReleaseFree(t) PROVE [Fifo!Next]_(Fifo!fifoVars)
  <2>1. /\ pc[t] = "rel" /\ gm = NoThread /\ queue = <<>> /\ g_locked' = FALSE
        /\ pc' = [pc EXCEPT ![t] = IF cont[t] = "yield" THEN "acq" ELSE "run"]
        /\ UNCHANGED <<gm, queue, go, sleeping, t_depth, target, asleep>>
    BY <1>13 DEF ReleaseFree, Released
  <2>2. \A u \in Threads : ~Owns(u)'
    BY <2>1, <1>a, <1>b DEF Owns, Queued, MutualExclusion, OwnerInv, WaiterInv, HandoffInv
  <2>3. \A u \in Threads : pc[u] # "handoff" /\ pc'[u] # "handoff"
    <3>1. \A u \in Threads : pc[u] # "handoff"
      BY <2>1, ThreadsAssumption DEF GmInv
    <3> QED  BY <3>1, <2>1, <1>b
  <2>4. Owner = t /\ Line = <<>>
    <3>1. Owns(t)
      BY <2>1 DEF Owns
    <3> QED  BY <3>1, <2>1, <2>3, MappingFacts
  <2>5. Owner' = NoThread /\ Line' = <<>>
    <3>1. Owner' = NoThread
      BY <2>2 DEF Owner
    <3>2. Line' = queue'
      BY <2>3 DEF Line
    <3> QED  BY <3>1, <3>2, <2>1
  <2>6. Fifo!Release(t)
    BY <2>4, <2>5 DEF Fifo!Release
  <2> QED  BY <2>6 DEF Fifo!Next
<1>14. ASSUME NEW t \in Threads, ReleaseDequeue(t) PROVE [Fifo!Next]_(Fifo!fifoVars)
  <2>1. /\ pc[t] = "rel" /\ gm = NoThread /\ gm' = t
        /\ pc' = [pc EXCEPT ![t] = "handoff"]
        /\ queue # <<>> /\ queue' = Tail(queue)
        /\ target' = [target EXCEPT ![t] = Head(queue)]
        /\ asleep' = [asleep EXCEPT ![t] = sleeping[Head(queue)]]
        /\ UNCHANGED <<g_locked, go, sleeping, t_depth>>
    BY <1>14 DEF ReleaseDequeue, Goto
  <2>2. \A u \in Threads : Owns(u)' <=> Owns(u)
    BY <2>1, <1>a, <1>b DEF Owns, Queued, MutualExclusion, OwnerInv, WaiterInv, HandoffInv
  <2>3. \A u \in Threads : pc[u] # "handoff" /\ (pc'[u] = "handoff" <=> u = t)
    <3>1. \A u \in Threads : pc[u] # "handoff"
      BY <2>1, ThreadsAssumption DEF GmInv
    <3> QED  BY <3>1, <2>1, <1>b
  <2>4. Line = queue
    BY <2>3, MappingFacts
  <2>5. Line' = <<target'[t]>> \o queue' /\ target'[t] = Head(queue)
    <3>1. t = CHOOSE u \in Threads : pc'[u] = "handoff"
      BY <2>3
    <3>2. Line' = <<target'[t]>> \o queue'
      BY <2>3, <3>1 DEF Line
    <3>3. target'[t] = Head(queue)
      BY <2>1 DEF TypeOK
    <3> QED  BY <3>2, <3>3
  <2>6. <<Head(queue)>> \o Tail(queue) = queue
    <3> DEFINE q == <<Head(queue)>> \o Tail(queue)
    <3>1. /\ Head(queue) = queue[1] /\ Head(queue) \in Threads /\ Tail(queue) \in Seq(Threads)
          /\ Len(Tail(queue)) = Len(queue) - 1 /\ Len(queue) \in Nat
          /\ \A i \in 1..(Len(queue) - 1) : Tail(queue)[i] = queue[i + 1]
      BY <2>1, <1>b, HeadTailFacts
    <3>2. /\ q \in Seq(Threads) /\ Len(q) = Len(queue) /\ q[1] = queue[1]
          /\ \A i \in 1..(Len(queue) - 1) : q[i + 1] = queue[i + 1]
      BY <3>1, PushFacts
    <3>3. ASSUME NEW i \in 1..Len(queue) PROVE q[i] = queue[i]
      <4>1. CASE i = 1
        BY <4>1, <3>2
      <4>2. CASE i # 1
        <5>1. i - 1 \in 1..(Len(queue) - 1) /\ (i - 1) + 1 = i
          BY <4>2, <3>1
        <5> QED  BY <5>1, <3>2
      <4> QED  BY <4>1, <4>2
    <3> HIDE DEF q
    <3>4. /\ q = [i \in 1..Len(q) |-> q[i]]
          /\ queue = [i \in 1..Len(queue) |-> queue[i]]
      BY <3>2, <1>b
    <3>5. q = queue
      BY <3>2, <3>3, <3>4
    <3> QED  BY <3>5 DEF q
  <2>7. Line' = Line
    BY <2>1, <2>4, <2>5, <2>6
  <2>8. Owner' = Owner
    BY <2>2 DEF Owner
  <2> QED  BY <2>7, <2>8, <1>s
<1>15. ASSUME NEW t \in Threads, ReleaseStoreGo(t) PROVE [Fifo!Next]_(Fifo!fifoVars)
  <2>1. /\ pc[t] = "handoff" /\ pc' = [pc EXCEPT ![t] = "signal"]
        /\ go' = [go EXCEPT ![target[t]] = TRUE]
        /\ UNCHANGED <<gm, g_locked, queue, sleeping, t_depth, target, asleep>>
    BY <1>15 DEF ReleaseStoreGo, Goto
  <2>2. \A u \in Threads : Owns(u)' <=> u = target[t]
    BY <2>1, <1>a, <1>b DEF Owns, Queued, MutualExclusion, OwnerInv, WaiterInv, HandoffInv
  <2> DEFINE w == target[t]
  <2>3. /\ w \in Threads /\ gm = t
        /\ \A u \in Threads : pc'[u] # "handoff"
    <3>1. w \in Threads /\ gm = t
      BY <2>1 DEF HandoffInv, GmInv
    <3>2. \A u \in Threads \ {t} : pc[u] # "handoff"
      BY <3>1 DEF GmInv
    <3> QED  BY <3>1, <3>2, <2>1, <1>b
  <2>4. Owner = t /\ Line = <<w>> \o queue
    <3>1. Owns(t)
      BY <2>1 DEF Owns
    <3> QED  BY <3>1, <2>1, MappingFacts
  <2>5. Owner' = w /\ Line' = queue
    <3>1. Owner' = w
      BY <2>2, <2>3 DEF Owner
    <3>2. Line' = queue'
      BY <2>3 DEF Line
    <3> QED  BY <3>1, <3>2, <2>1
  <2> HIDE DEF w
  <2>6. Line # <<>> /\ Head(Line) = w /\ Tail(Line) = queue
    BY <2>3, <2>4, <1>b, PushFacts
  <2>7. Fifo!Release(t)
    BY <2>4, <2>5, <2>6 DEF Fifo!Release
  <2> QED  BY <2>7 DEF Fifo!Next
<1>16. ASSUME NEW t \in Threads, ReleaseSignal(t) PROVE [Fifo!Next]_(Fifo!fifoVars)
  <2> DEFINE w == target[t]
             back == IF cont[t] = "yield" THEN "acq" ELSE "run"
             p == IF asleep[t] /\ pc[w] = "wait" THEN [pc EXCEPT ![w] = "park"] ELSE pc
  <2>1. /\ pc[t] = "signal" /\ pc' = [p EXCEPT ![t] = back]
        /\ gm' = NoThread
        /\ target' = [target EXCEPT ![t] = NoThread]
        /\ asleep' = [asleep EXCEPT ![t] = FALSE]
        /\ UNCHANGED <<g_locked, queue, go, sleeping, t_depth>>
    BY <1>16 DEF ReleaseSignal, Released
  <2>2. w \in Threads /\ gm = t /\ back \in {"acq", "run"}
    BY <2>1 DEF HandoffInv, GmInv
  <2>3. \A u \in Threads \ {t} : pc[u] \notin {"handoff", "signal"}
    BY <2>2 DEF GmInv
  <2>4. /\ pc'[t] = back
        /\ \A u \in Threads \ {t} : \/ pc'[u] = pc[u] /\ (u = w /\ asleep[t] => pc[u] # "wait")
                                    \/ /\ u = w /\ asleep[t]
                                       /\ pc[u] = "wait" /\ pc'[u] = "park"
    <3>1. CASE asleep[t] /\ pc[w] = "wait"
      <4>1. p = [pc EXCEPT ![w] = "park"]
        BY <3>1, Zenon
      <4> HIDE DEF p, w, back
      <4> QED  BY <4>1, <3>1, <2>1, <2>2, <1>b
    <3>2. CASE ~(asleep[t] /\ pc[w] = "wait")
      <4>1. p = pc
        BY <3>2, Zenon
      <4> HIDE DEF p, w, back
      <4> QED  BY <4>1, <3>2, <2>1, <2>2, <1>b
    <3> QED  BY <3>1, <3>2
  <2> HIDE DEF p, back
  <2>5. \A u \in Threads : Owns(u)' <=> Owns(u)
    BY <2>1, <2>2, <2>4, <1>a DEF Owns, Queued
  <2>6. \A u \in Threads : pc'[u] # "handoff" /\ pc[u] # "handoff"
    BY <2>1, <2>2, <2>3, <2>4
  <2>7. Line' = queue' /\ Line = queue
    BY <2>6, MappingFacts DEF Line
  <2>8. Owner' = Owner
    BY <2>5 DEF Owner
  <2> QED  BY <2>1, <2>7, <2>8, <1>s
<1> QED
  BY <1>0, <1>1, <1>2, <1>3, <1>4, <1>5, <1>6, <1>7, <1>8, <1>9, <1>10, <1>11, <1>12, <1>13, <1>14, <1>15, <1>16 DEF Next, vars

\* The hand-over lock is a FIFO lock: it implements FifoLock under the
\* mapping Owner, Line, for any number of threads.
THEOREM HandoverIsFifo == Spec => FifoOrder
<1>1. Init => Fifo!Init
  <2> SUFFICES ASSUME Init PROVE Fifo!Init
    OBVIOUS
  <2>1. \A t \in Threads : ~Owns(t) /\ pc[t] # "handoff"
    BY DEF Init, Owns, Queued
  <2>2. Owner = NoThread /\ Line = <<>>
    BY <2>1 DEF Owner, Line, Init
  <2> QED  BY <2>2 DEF Fifo!Init
<1>2. IInv /\ [Next]_vars => [Fifo!Next]_(Fifo!fifoVars)
  BY FifoStep
<1> QED  BY <1>1, <1>2, LockInvariant, PTL DEF Spec, FifoOrder, Fifo!Spec
=============================================================================
