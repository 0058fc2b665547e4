----------------------------- MODULE GuestFutex -----------------------------
(***************************************************************************)
(* The futex emulation of src/src/arm_exec.cpp.  Guest code waits on a     *)
(* word in one of three ways:                                              *)
(*   - a worker, a thread with a slot in the thread table, is parked: it   *)
(*     is put on the list g_futex_waiters of the word and a WAKE makes it  *)
(*     ready;                                                              *)
(*   - a callback runs on a host thread of its own and has no slot; it is  *)
(*     only counted in g_futex_wait_addrs and polls g_futex_wake_tokens;   *)
(*   - the pump, which runs the scheduler, is counted too and waits by     *)
(*     driving everything else, looking at the word and at the tokens.     *)
(* Every system call and every poll runs under the execution lock (module  *)
(* ArmLock) and is one step.  The pump's loop gives the lock up while it   *)
(* schedules and while it idles, so it is cut there.                       *)
(*                                                                         *)
(* Left out: calls that return at once and change nothing (EAGAIN, EINVAL, *)
(* EFAULT, ENOSYS), what a call writes into the caller's registers, and    *)
(* signals that arrive inside a handler.                                   *)
(***************************************************************************)
EXTENDS Integers, SequencesExt, FiniteSetsExt

CONSTANTS Workers, Callbacks, Pumps,
          Addrs,      \* futex words
          Values,     \* what they hold
          Timed,      \* those who pass a timeout
          Signalled,  \* those who are sent signals
          Pollers,    \* workers that have a stale entry in g_wait_poll now and then
          MaxHandlers, \* bound: signal handlers that run at a time
          Many,       \* a count as large as any number of waiters
          None

Actors == Workers \cup Callbacks \cup Pumps

ASSUME ActorsAssumption == /\ Cardinality(Pumps) <= 1
                           /\ Workers \cap Callbacks = {} /\ Pumps \cap (Workers \cup Callbacks) = {}
                           /\ Timed \cup Signalled \subseteq Actors /\ Pollers \subseteq Workers
ASSUME CountAssumption == MaxHandlers \in Nat /\ Many \in Nat /\ Many >= Cardinality(Actors) /\ Many <= 65536
ASSUME NoneAssumption == None \notin Addrs

VARIABLES word,    \* guest memory
          tables,  \* active: g_futex_wait_addrs, parked: g_futex_waiters,
                   \* tokens: g_futex_wake_tokens
          wait,    \* waiting_futex, futex_val and futex_timed of a wait in progress
          at,      \* where each is: in guest code, waiting, or (the pump) scheduling
          frame,   \* the wait a signal handler has interrupted, and SA_RESTART
          late,    \* whose deadline has passed
          listed   \* workers with an entry in g_wait_poll

vars == <<word, tables, wait, at, frame, late, listed>>

NoWait == [addr |-> None, val |-> CHOOSE v \in Values : TRUE, timed |-> FALSE]
Waits == [addr : Addrs, val : Values, timed : BOOLEAN] \cup {NoWait}
NoFrame == [wait |-> NoWait, restart |-> FALSE]
Counts == [Addrs -> 0..Cardinality(Actors)]

TypeOK == /\ word \in [Addrs -> Values]
          /\ tables.active \in Counts /\ tables.tokens \in Counts
          /\ \A a \in Addrs : ToSet(tables.parked[a]) \subseteq Workers
          /\ wait \in [Actors -> Waits]
          /\ at \in [Actors -> {"guest", "wait", "sched"}]
          /\ frame \in [Actors -> [wait : Waits, restart : BOOLEAN]]
          /\ late \subseteq Actors /\ listed \subseteq Workers

Init == /\ word \in [Addrs -> {NoWait.val}]
        /\ tables = [active |-> [a \in Addrs |-> 0], parked |-> [a \in Addrs |-> <<>>],
                     tokens |-> [a \in Addrs |-> 0]]
        /\ wait = [t \in Actors |-> NoWait] /\ at = [t \in Actors |-> "guest"]
        /\ frame = [t \in Actors |-> NoFrame]
        /\ late = {} /\ listed = {}

Least(a, b) == IF a < b THEN a ELSE b
Most(a, b) == IF a > b THEN a ELSE b

-----------------------------------------------------------------------------
\* futex_wait_addr_remove.
Deregister(f, a, n) == [f EXCEPT !.active[a] = Most(@ - n, 0)]

\* One more waiter: counted, and on the list if it is a worker (futex_waiter_add).
Register(f, t, a) ==
    [f EXCEPT !.active[a] = @ + 1,
              !.parked[a] = IF t \in Workers /\ t \notin ToSet(@) THEN Append(@, t) ELSE @]

\* futex_waiter_remove, and off the count.
Unregister(f, t, a) == [Deregister(f, a, 1) EXCEPT !.parked[a] = Remove(@, t)]

\* futex_token_consume, whether or not there is one.
Consume(f, a) == [f EXCEPT !.tokens[a] = Most(@ - 1, 0)]

\* futex_wake_parked: ready the first n workers of the list, which take their
\* tokens with them.
WakeParked(f, a, n) ==
    LET woke == Least(n, Len(f.parked[a]))
    IN [Deregister(f, a, woke) EXCEPT !.parked[a] = SubSeq(@, woke + 1, Len(@)),
                                      !.tokens[a] = Most(@ - woke, 0)]

\* Mutant: a waiter that has a token counts again.
PublishWakeAgain(f, a, n) ==
    LET k == Least(n, f.active[a])
    IN WakeParked([f EXCEPT !.tokens[a] = @ + k], a, k)

\* Mutant: a word with a token has been woken already.
PublishWakePending(f, a, n) ==
    LET k == IF f.tokens[a] > 0 THEN 0 ELSE Least(n, f.active[a])
    IN WakeParked([f EXCEPT !.tokens[a] = @ + k], a, k)

\* futex_publish_wake: waiters that already have a token do not count again.
PublishWake(f, a, n) ==
    LET k == Least(n, Most(f.active[a] - f.tokens[a], 0))
    IN WakeParked([f EXCEPT !.tokens[a] = @ + k], a, k)

\* futex_requeue_parked, up to n workers from the list of a to that of b.
RequeueParked(f, a, b, n) ==
    LET m == IF a = b THEN 0 ELSE Least(n, Len(f.parked[a]))
    IN [f EXCEPT !.parked = [@ EXCEPT ![a] = SubSeq(@, m + 1, Len(@)),
                                      ![b] = @ \o SubSeq(f.parked[a], 1, m)],
                 !.active = [@ EXCEPT ![a] = Most(@ - m, 0), ![b] = @ + m]]

\* The workers on some list of f.
OnList(f) == UNION {ToSet(f.parked[a]) : a \in Addrs}

Registered(a) == {t \in Actors : wait[t].addr = a}

\* The waits of the actors in S are over.
Return(S) == /\ wait' = [t \in Actors |-> IF t \in S THEN NoWait ELSE wait[t]]
             /\ at' = [t \in Actors |-> IF t \in S THEN "guest" ELSE at[t]]
             /\ late' = late \ S

-----------------------------------------------------------------------------
InGuest(t) == at[t] = "guest"

\* Guest code stores to a word.
Store(a, v) == /\ \E t \in Actors : InGuest(t)
               /\ word[a] # v
               /\ word' = [word EXCEPT ![a] = v]
               /\ UNCHANGED <<tables, wait, at, frame, late, listed>>

\* FUTEX_WAIT, FUTEX_WAIT_BITSET, with the value the word has now.
Wait(t, a, timed) ==
    /\ InGuest(t)
    /\ timed => t \in Timed
    /\ tables' = Register(tables, t, a)
    /\ wait' = [wait EXCEPT ![t] = [addr |-> a, val |-> word[a], timed |-> timed]]
    /\ at' = [at EXCEPT ![t] = "wait"]
    /\ UNCHANGED <<word, frame, late, listed>>

\* FUTEX_WAKE of up to n waiters.
Wake(a, n) ==
    LET f == PublishWake(tables, a, n)
    IN /\ \E t \in Actors : InGuest(t)
       /\ tables' = f
       /\ wait' = [t \in Actors |-> IF t \in OnList(tables) \ OnList(f) THEN NoWait ELSE wait[t]]
       /\ at' = [t \in Actors |-> IF t \in OnList(tables) \ OnList(f) THEN "guest" ELSE at[t]]
       /\ late' = late \ (OnList(tables) \ OnList(f))
       /\ UNCHANGED <<word, frame, listed>>

\* FUTEX_REQUEUE, FUTEX_CMP_REQUEUE: wake up to n, then move up to m.
Requeue(a, b, n, m) ==
    LET f == PublishWake(tables, a, n)
        woken == OnList(tables) \ OnList(f)
        g == RequeueParked(f, a, b, m)
    IN /\ \E t \in Actors : InGuest(t)
       /\ tables' = g
       /\ wait' = [t \in Actors |-> CASE t \in woken -> NoWait
                                      [] t \in ToSet(g.parked[b]) -> [wait[t] EXCEPT !.addr = b]
                                      [] OTHER -> wait[t]]
       /\ at' = [t \in Actors |-> IF t \in woken THEN "guest" ELSE at[t]]
       /\ late' = late \ woken
       /\ UNCHANGED <<word, frame, listed>>

-----------------------------------------------------------------------------
\* The deadline of a timed wait passes.
Expire(t) == /\ wait[t].timed /\ t \notin late
             /\ late' = late \cup {t}
             /\ UNCHANGED <<word, tables, wait, at, frame, listed>>

\* Mutant: a waiter that timed out stays on the count.
WakeDueCounted(t) == /\ t \in Workers \cap late
              /\ tables' = [tables EXCEPT !.parked[wait[t].addr] = Remove(@, t)]
              /\ Return({t})
              /\ UNCHANGED <<word, frame, listed>>

\* Mutant: a deadline is seen only when something else re-examines the thread.
WakeDueByPoll(t) == /\ t \in Workers \cap late \cap listed
              /\ tables' = Unregister(tables, t, wait[t].addr)
              /\ Return({t})
              /\ UNCHANGED <<word, frame, listed>>

\* sleep_heap_wake_due: a worker's deadline.
WakeDue(t) == /\ t \in Workers \cap late
              /\ tables' = Unregister(tables, t, wait[t].addr)
              /\ Return({t})
              /\ UNCHANGED <<word, frame, listed>>

\* Mutant: a changed word ends the wait before the token is looked at.
TryGrantWordFirst(t) ==
    LET a == wait[t].addr
    IN /\ t \in Callbacks /\ at[t] = "wait"
       /\ tables.tokens[a] > 0 \/ t \in late \/ word[a] # wait[t].val
       /\ tables' = Deregister(IF word[a] # wait[t].val THEN tables ELSE Consume(tables, a), a, 1)
       /\ Return({t})
       /\ UNCHANGED <<word, frame, listed>>

\* cb_lock_wait_try_grant of a callback.
TryGrant(t) ==
    LET a == wait[t].addr
    IN /\ t \in Callbacks /\ at[t] = "wait"
       /\ tables.tokens[a] > 0 \/ t \in late
       /\ tables' = Deregister(Consume(tables, a), a, 1)
       /\ Return({t})
       /\ UNCHANGED <<word, frame, listed>>

\* The pump at the top of its loop: the deadline ends the wait, ...
PumpDeadline(t) == /\ t \in Pumps \cap late /\ at[t] = "wait"
                   /\ tables' = Deregister(tables, wait[t].addr, 1)
                   /\ Return({t})
                   /\ UNCHANGED <<word, frame, listed>>

\* ... else it runs the scheduler.
PumpSchedule(t) == /\ t \in Pumps \ late /\ at[t] = "wait"
                   /\ at' = [at EXCEPT ![t] = "sched"]
                   /\ UNCHANGED <<word, tables, wait, frame, late, listed>>

\* Mutant: the pump looks at the word only.
PumpCheckWord(t) ==
    LET a == wait[t].addr
        changed == word[a] # wait[t].val
        f == IF changed THEN tables ELSE Consume(tables, a)
    IN /\ t \in Pumps /\ at[t] = "sched"
       /\ IF changed
          THEN /\ tables' = Deregister(Consume(f, a), a, 1)
               /\ Return({t})
          ELSE /\ at' = [at EXCEPT ![t] = "wait"]
               /\ UNCHANGED <<tables, wait, late>>
       /\ UNCHANGED <<word, frame, listed>>

\* Back from schedule_threads: the word has changed, or a token is taken; and
\* then a token is taken again, on the way out.  Otherwise sched_idle_wait.
PumpCheck(t) ==
    LET a == wait[t].addr
        changed == word[a] # wait[t].val
        f == IF changed THEN tables ELSE Consume(tables, a)
    IN /\ t \in Pumps /\ at[t] = "sched"
       /\ IF changed \/ tables.tokens[a] > 0
          THEN /\ tables' = Deregister(Consume(f, a), a, 1)
               /\ Return({t})
          ELSE /\ at' = [at EXCEPT ![t] = "wait"]
               /\ UNCHANGED <<tables, wait, late>>
       /\ UNCHANGED <<word, frame, listed>>

\* A worker waits for a mutex and is readied directly by the unlock: its entry
\* in g_wait_poll stays behind.
MutexWait(t) == /\ t \in Pollers /\ InGuest(t)
                /\ listed' = listed \cup {t}
                /\ UNCHANGED <<word, tables, wait, at, frame, late>>

\* The pass meets the entry: dropped if the worker is not blocked now, else
\* sched_try_unblock, which takes a token, a changed word or the deadline.
TryUnblock(t) ==
    LET a == wait[t].addr
        woken == tables.tokens[a] > 0
    IN /\ t \in listed
       /\ IF at[t] = "guest"
          THEN listed' = listed \ {t} /\ UNCHANGED <<tables, wait, at, late>>
          ELSE /\ woken \/ word[a] # wait[t].val \/ t \in late
               /\ tables' = Unregister(IF woken THEN Consume(tables, a) ELSE tables, t, a)
               /\ listed' = listed \ {t}
               /\ Return({t})
       /\ UNCHANGED <<word, frame>>

-----------------------------------------------------------------------------
\* A signal interrupts a wait: arm_signal_suspend_futex for a worker,
\* cb_signal_suspend_wait for a callback, main_wait_signal at the top of the
\* pump's loop.
Suspend(t, restart) ==
    /\ t \in Signalled /\ at[t] = "wait" /\ frame[t] = NoFrame
    /\ Cardinality({u \in Actors : frame[u] # NoFrame}) < MaxHandlers
    /\ t \in Pumps => t \notin late
    /\ frame' = [frame EXCEPT ![t] = [wait |-> wait[t], restart |-> restart]]
    /\ tables' = Unregister(tables, t, wait[t].addr)
    /\ Return({t})
    /\ UNCHANGED <<word, listed>>

\* Mutant: the restarted wait is counted but not put on the list.
SigReturnOffList(t) ==
    LET w == frame[t].wait
    IN /\ InGuest(t) /\ frame[t] # NoFrame
       /\ frame' = [frame EXCEPT ![t] = NoFrame]
       /\ IF frame[t].restart /\ ~w.timed /\ word[w.addr] = w.val
          THEN /\ tables' = [tables EXCEPT !.active[w.addr] = @ + 1]
               /\ wait' = [wait EXCEPT ![t] = w]
               /\ at' = [at EXCEPT ![t] = "wait"]
          ELSE UNCHANGED <<tables, wait, at>>
       /\ UNCHANGED <<word, late, listed>>

\* The handler returns: arm_signal_resume_futex, cb_signal_resume_wait, or the
\* pump's call is issued again.  A timed wait ends with EINTR, as does one
\* without SA_RESTART; a changed word ends it with EAGAIN.
SigReturn(t) ==
    LET w == frame[t].wait
    IN /\ InGuest(t) /\ frame[t] # NoFrame
       /\ frame' = [frame EXCEPT ![t] = NoFrame]
       /\ IF frame[t].restart /\ ~w.timed /\ word[w.addr] = w.val
          THEN /\ tables' = Register(tables, t, w.addr)
               /\ wait' = [wait EXCEPT ![t] = w]
               /\ at' = [at EXCEPT ![t] = "wait"]
          ELSE UNCHANGED <<tables, wait, at>>
       /\ UNCHANGED <<word, late, listed>>

\* thread_retire of a worker that has ended, in guest code or in a handler: its slot
\* and its id are free for the next thread.  The entry in g_wait_poll stays.
Retire(t) ==
    /\ t \in Workers /\ InGuest(t)
    /\ tables' = [tables EXCEPT !.parked = [a \in Addrs |-> Remove(@[a], t)]]
    /\ frame' = [frame EXCEPT ![t] = NoFrame]
    /\ UNCHANGED <<word, wait, at, late, listed>>

-----------------------------------------------------------------------------
GuestStep == \/ \E a \in Addrs, v \in Values : Store(a, v)
             \/ \E t \in Actors, a \in Addrs, timed \in BOOLEAN : Wait(t, a, timed)
             \/ \E a \in Addrs, n \in {1, Many} : Wake(a, n)
             \/ \E a, b \in Addrs, n \in {0, 1} : a # b /\ Requeue(a, b, n, Many)
             \/ \E t \in Actors : MutexWait(t) \/ Retire(t)
SignalStep == \E t \in Actors : SigReturn(t) \/ \E restart \in BOOLEAN : Suspend(t, restart)
PumpStep(t) == PumpDeadline(t) \/ PumpSchedule(t) \/ PumpCheck(t)
HostStep(t) == Expire(t) \/ WakeDue(t) \/ TryGrant(t) \/ PumpStep(t) \/ TryUnblock(t)

Next == GuestStep \/ SignalStep \/ \E t \in Actors : HostStep(t)
Spec == Init /\ [][Next]_vars
\* Time passes, the timer fires, callbacks poll and the pump goes round its loop.
\* Guest code need do nothing.
FairSpec == /\ Spec
            /\ \A t \in Actors : /\ WF_vars(Expire(t)) /\ WF_vars(WakeDue(t))
                                 /\ WF_vars(TryGrant(t)) /\ WF_vars(PumpStep(t))

-----------------------------------------------------------------------------
\* g_futex_wait_addrs counts the waiters of every word, whatever ended the
\* earlier waits and although a thread that ends is only taken off the lists:
\* WAKE computes from it how many it may wake.
Counted == \A a \in Addrs : tables.active[a] = Cardinality(Registered(a))

\* A worker that waits is on the list of its word, once, and on no other; a worker
\* that does not is on none.  A worker on no list sleeps until its deadline.
Listed == /\ \A a \in Addrs : /\ ToSet(tables.parked[a]) = Registered(a) \cap Workers
                              /\ IsInjective(tables.parked[a])
          /\ \A t \in Actors : at[t] = "guest" <=> wait[t] = NoWait

\* A token stands for a callback or a pump that is registered on its word and has
\* not seen the WAKE yet.
TokensBacked == \A a \in Addrs : tables.tokens[a] <= Cardinality(Registered(a) \ Workers)

\* In every state, a WAKE of a word with a parked worker would wake one.  "Making the
\* next WAKE on this address regard a new waiter as already notified and leave it
\* parked forever" is what cb_lock_wait_try_grant is careful not to do.
WakeReaches ==
    \A a \in Addrs : tables.parked[a] # <<>>
                      => PublishWake(tables, a, 1).parked[a] # tables.parked[a]

\* A callback or pump that starts to wait finds no token: one that lies there was
\* counted for an earlier waiter, which goes without if the new one takes it.
TokenNotOlder ==
    [][\A t \in Callbacks \cup Pumps :
         InGuest(t) /\ wait'[t] # NoWait => tables.tokens[wait'[t].addr] = 0]_vars

\* In every state, a FUTEX_REQUEUE of everybody would leave on the old word only
\* waiters that have a token: it strands nobody there.
RequeueMovesAll ==
    \A a, b \in Addrs :
      a # b => LET g == RequeueParked(tables, a, b, Many) IN g.active[a] <= g.tokens[a]

\* "SA_RESTART queues a fresh wait after sigreturn, timed or not, including the
\* value check."
RestartsTimed ==
    [][\A t \in Actors : /\ SigReturn(t) /\ frame[t].restart
                         /\ word[frame[t].wait.addr] = frame[t].wait.val
                         => wait'[t] = frame[t].wait]_vars

\* A token ends a wait: while the same callbacks and pump wait on a word, a token
\* does not lie there for ever.  Whose wait it ends is open, because a token names
\* nobody, the pump takes two when there are two, and a deadline may come first.
TokenCollected ==
    \A a \in Addrs : \A S \in (SUBSET (Callbacks \cup Pumps)) \ {{}} :
      LET pending == tables.tokens[a] > 0 /\ Registered(a) \ Workers = S
      IN pending ~> ~pending

\* A timed wait ends by itself, after requeues and lost wake-ups too.
TimedWaitEnds == \A t \in Actors : wait[t].timed ~> ~wait[t].timed
=============================================================================
