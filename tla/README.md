# Verification of Lunaria

Lunaria runs Android packages on a desktop host. Guest ARM code runs under
dynarmic, Java bytecode under a built-in Dalvik interpreter, and Android's
services (threads, futexes, audio, input, windows, WebView, other processes)
are bridged to the host. This directory holds TLA+ models of the parts whose
correctness depends on the order in which host threads, guest threads,
callbacks, child processes and devices act. TLC checks them on small
instances; TLAPS proves what matters most for every instance.

Paths below are relative to the repository's `src/` directory unless they begin
with `src/`.

## The system and its parts

| part | code | models |
|---|---|---|
| execution lock: one recursive, fair lock that serialises guest execution and the emulator's tables | `arm.c`, `arm.h` | `FifoLock`, `ArmLock`, `ArmLockProofs` |
| guest futexes: parked workers, polling callbacks and the pump share a word | `arm_exec.cpp` | `GuestFutex` |
| process channel: framed messages over a stream socket pair | `luna_process_ipc.c` (first half) | `ProcessChannel` |
| component process pool: one child VM per Android process name, replies, death notices | `luna_process_ipc.c` (second half), `loader.c` (child loop) | `ProcessPool` |
| compositor: the window's thread, three frame slots, fences, pixel frames | `luna_compositor.c`, `.h` | `Compositor` |
| guest scheduler, mutexes, condition variables, semaphores, signals, joins, fd waits | `arm_exec.cpp`, `lib/guest.c`, `lib/pthread.c` | planned |
| interpreter lock and its event waiters, Java monitors and threads | `dvm/dvm.c`, `dvm/dvm_runtime.c`, `jvm/jvm.c` | planned |
| preferences writer | `dvm/dvm_runtime.c` | planned |
| input, key maps, replay; input method | `luna_input.c`, `luna_ime.c` | planned |
| AAudio streams and media codecs | `aaudio_stream.h`, `dvm/dvm_media.c` | planned |
| interpreter, class libraries, linkers, package reading, regex, calendar, charsets, crypto, SQLite and socket bridges, Vulkan bridge, WebView, platform layers, dynarmic | see `PROJECT.json` | not modelled |

How they interact. Host threads that run guest code or touch the emulator's
tables hold the execution lock; so every futex call of `GuestFutex` is one step
under the lock of `ArmLock`, and the pump's loop is cut exactly where it gives
that lock up. Presenting threads give it up before they enter `Compositor`.
`ProcessPool` uses one `ProcessChannel` per child and represents it by whole
messages, with the bounded queue, the bounded socket and the sticky error the
channel model has.

`PROJECT.json` lists every part with its status, the source lines of each
definition, and the hazards: what can go wrong at which line, and which
property would notice.

## Modules

### Execution lock

`arm.c` keeps an internal mutex `g_m`, a queue of waiter nodes, and per thread a
recursion depth and a hold label. `ArmLock` has one action per section between
two points where another thread can interfere: `TakeFree` and `Enqueue` are the
two outcomes of the first section of `arm_lock_acquire`; `Spin`, `Park`, `Leave` the
wait; `ReleaseFree`, `ReleaseDequeue`, `ReleaseStoreGo`, `ReleaseSignal` the release.
The hand-over is split because a spinning waiter reads its `go` flag without
`g_m`. Condition variables wake spuriously (`SpuriousWakeup`). Callers open nested
guards and nest `unlock_all`/`relock` gaps.

`FifoLock` is the promise: an owner and a line, with `Take`, `Join` and `Release`.
`ArmLock` implements it with `owner <- Owner` (the holder, or the waiter whose `go`
flag is set) and `line <- Line` (the queue, with the waiter just taken off it
while its flag is still to be stored).

### Guest futexes

`GuestFutex` follows the three tables of `arm_exec.cpp`: `g_futex_wait_addrs` (how
many wait on a word), `g_futex_waiters` (parked workers) and
`g_futex_wake_tokens` (wakes for those who poll). Actions: `Store` (the guest
writes the word), `Wait`, `Wake`, `Requeue` (the system call), `Expire` and `WakeDue`
(deadlines), `TryGrant` (a callback polls), `PumpDeadline`, `PumpSchedule`,
`PumpCheck` (the pump's loop, cut where it drops the lock), `MutexWait` and
`TryUnblock` (a stale poll entry), `Suspend` and `SigReturn` (a signal handler
interrupts a wait), `Retire` (a thread ends; it does so in guest code or in a
handler, never while it is registered). Calls that return at once and change
nothing are left out, and so are signals inside a handler and the waits of
condition variables and semaphores that share the deadline and signal code.

### Process channel and pool

`ProcessChannel` sends units instead of bytes: packet `n` is `HeaderSize` header
units and its payload units, and each `send()` and `recv()` moves any number that
fits, the whole rest or less. `Send`, `FlushSome`, `FlushReturns`, `FlushFails`, `Tick`,
`StartPacket`, `FinishPacket`, `Recv`, `RecvReturns`, `RecvEnd`, `Deliver` and `Close` are the
code's steps; the socket is external: it delivers what was written before it
reports the end. The histories `passed` (packets that went whole into the socket)
and `epipe` (a send found the peer gone) are for `LastPacketsArrive`.

`ProcessPool` has `PoolSendExisting`, `PoolSendSpawns`, `PoolSendFails`,
`PoolSendOpenFails` (submit; in the last the new process is killed because its
channel cannot be opened), `PoolTick` to `NextExit` (the tick: flush, receive, reap,
callbacks, notices), `PoolClose` to `CloseEnd` (shutdown: reap, SIGTERM, reap, then
kill and collect one child after the other), and the child: `ChildTick`,
`ChildCommand`, `ChildReturns`, `ChildExits` (a crash, at any moment), `ChildZombie`. A
child whose parent has hung up still reads the commands left in its socket.
`OtherReaper` is a `waitpid` elsewhere in the program that collects the child first.
`luna_process_pool_next_exit` keeps a notice whose name does not fit the caller's
buffer (ENOSPC); its one caller passes 512 bytes for names of at most 511, so
`NextExit` has no such case.

### Compositor

A section under `g_mu` is one action: `SubmitBegin` to `SubmitPublish` for a GL frame,
`PixelsBegin`, `PixelsFill` and `PixelsNoMemory` for a pixel frame, and `CompSleep`,
`CompTake`, `CompBind`, `CompDraw` for the window's thread. `SubmitBegin` and
`PixelsBegin` end before the lock is taken; `WaitForFrame` is the wait inside the
section, which ends it for the time being. `source_for`, which runs without `g_mu`,
is cut into its scan, eviction, claim, resize and creation; `SourceCreate` makes the
images of all slots in one step, or those before the one that fails. The GPU is
the set of commands not yet ordered: `writing` holds the images with a copy that
no fence wait of the compositor covers, `reading` those with a draw that no fence
wait of their own context covers, because `eglWaitSync` orders only what the
waiting context does next.

## Runs

| run | shows | instance |
|---|---|---|
| `armlock_safety` | `MutualExclusion`, `NoLostWakeup`, `NodeInUse`, `DepthMatchesGuards`, `WaitersCounted`, `TypeOK`, and `FifoOrder`: the lock implements `FifoLock` | 3 threads, 2 guards a level, 1 gap, symmetric threads |
| `armlock_live` | `AcquireReturns` | 3 threads, no gaps |
| `channel` | packets arrive whole, once and in order (`InOrder`, `FramingHolds`); the byte account (`QueueAccounted`); a peer's last packets arrive although it hangs up (`LastPacketsArrive`); what was sent arrives (`Arrives`) | 3 packets one way and 1 the other, 2 packets a tick, socket smaller than a packet |
| `pool_safety` | `OneProcessPerName`, `NoticeMeansGone`, `RepliesLostOnlyOnSendError`, `CloseCollectsAll`, `TypeOK` | 2 names, 4 commands, one-message sockets |
| `pool_live` | `CommandResolved`, `DeathReported` | 2 names, 2 commands |
| `futex_safety` | `Counted`, `Listed`, `TokensBacked`, `WakeReaches` | worker, callback and pump (no timeout, no signals for the pump), 2 words |
| `futex_live` | `TokenCollected`, `TimedWaitEnds`, `TypeOK` | worker, callback and pump, all with timeouts, no signals, 2 words |
| `comp_safety` | `NoTear`, `DrawsShownFrame`, `LiveImages`, `SyncsLinear`, `TypeOK` | GL producer with 2 contexts for 1 source entry and 2 sizes, two pixel submitters, 3 frames |
| `comp_live` | no signal is lost or misdirected (`CompAwake`, `WaitsOnlyWhileQueued`); `SubmitReturns` with a compositor that may stop; `FrameReachesScreen` with one that runs | GL producer and pixel submitter that ask to wait for the frame before, 4 frames |

Three more runs end in a counterexample, each to a sentence of the repository's
own documentation; they are listed under *Disagreements*.

**Bounds.** Three threads are the fewest with an owner, a first waiter and one
behind it. A socket that holds less than one packet forces every packet through
a partial send and a partial receive, and the third packet is the one the limit
of a tick leaves for the next; the ends run the same code, so only one of them
sends three. One-message queues make the pool's full
queue and its error paths ordinary events; two or three guest pids make a name
be used again by a second process and the pids run out. A worker, a callback and
the pump are one waiter of each kind, and two words let a requeue move one.
The compositor keeps the code's three slots; the third frame is the first that
can go into a slot which has been shown, and the fourth the first with which both
kinds of submitter wait at once; one source entry for two contexts makes eviction an ordinary event
(the code has more entries, the eviction rule is the same). `MaxGuards`, `MaxGaps`,
`MaxSends`, `MaxCommands`, `MaxHandlers`, `MaxFrames` bound how often callers act and
nothing else.

**Deadlock** is checked for the lock. The other instances stop when their bound
on sends, commands or frames is used up or an endpoint, the pool or the
compositor has closed, so it is not checked there; their liveness runs say
what must still happen.

**Fairness.** *ArmLock*: a thread inside the lock's code is scheduled and gets
`g_m` if it is free again and again, and an owner gives the lock up sooner or
later (handlers drop it before they block, long ones yield, `arm.h` 73-95).
*ProcessChannel*: both processes run and tick. *ProcessPool*: the main loop ticks,
a close goes on, the child's loop runs; a child's exit is never forced.
*GuestFutex*: deadlines pass, the scheduler visits due threads, callbacks poll and
the pump's loop goes on; no guest is obliged to WAKE. *Compositor*: a presenting
thread inside a submit is scheduled (its wait has a 100 ms deadline). The
compositor itself is given none, since it may stand still in `eglSwapBuffers`;
`FrameReachesScreen` has its premise (`FairComp`): it runs and, of infinitely many
attempts to draw, one finds the window visible and the overlay free.

## Proofs

`ArmLockProofs` proves, for every finite set of threads, every set of labels and
all bounds (`ThreadsAssumption`, `BoundsAssumption`):

| theorem | statement |
|---|---|
| `LockInvariant` | `Spec => []IInv` |
| `TypeCorrect`, `Exclusion`, `WakeupsArrive`, `NodesInUse`, `DepthsRestored`, `WaitersRight` | its six invariants in `armlock_safety` |
| `HandoverIsFifo` | `Spec => FifoOrder`, the refinement |

None of the invariants is inductive alone. Exclusion needs to know that the
`locked` flag is set exactly while somebody owns the lock and that the queue is
empty when it is not (`OwnerInv`), that queued threads are still waiting and
have not been given the lock (`QueueInv`), and that the thread a releaser has taken
off the queue is waiting, off the queue, and recorded as asleep whenever it is
(`HandoffInv`). The releaser's section of `g_m` excludes a second hand-over (`GmInv`). The
recursion count needs the caller's side (`CallerInv`): each open gap recorded the
count of the level it left. `IInv` joins these. The proof treats the callers'
bookkeeping (`CallerStep`), the lock's protocol (`LockStep`) and the count of waiters
(`WaitersStep`, which rests on cardinalities of finite sets) separately, one case
per action. The refinement takes `IInv` before and after a step and shows that
each action is a `Take`, `Join`, `Release` or leaves `Owner` and `Line` alone
(`FifoStep`).

Only model-checked: everything about the other four components, and all
liveness, which the prover does not handle (nor `ENABLED`). Facts about what
recursive definitions compute on all inputs need an induction over data that is
out of its reach too.

## Disagreements between code and documentation

| run | what TLC shows | where |
|---|---|---|
| `pool_reply` | a command still queued for a child that has exited makes the tick fail before it reads the child's last replies; the death notice comes without them | `luna_process_ipc.c:108` |
| `futex_stale` | the pump's deadline leaves a token behind, and the next WAKE leaves a parked worker asleep | `arm_exec.cpp:31147` |
| `comp_sync` | a replaced frame's ready fence is overwritten and never destroyed | `luna_compositor.c:175` |

The `findings` of `PROJECT.json` quote the sentence each of them contradicts. In
`comp_sync` the code that destroys a replaced frame's fence (178-186) exists but is
never reached with three slots.

Eight further configurations are kept for smaller questions. Each checks one
property and ends in a counterexample too:

| configuration | property | what TLC shows | where |
|---|---|---|---|
| `MCArmLock_label` | `LabelResumes` | a gap inside a gap overwrites the one saved label, so the outer relock resumes under the wrong one; only hold statistics depend on it | `arm.c:288` |
| `MCGuestFutex_stolen` | `TokenNotOlder` | a callback or pump that starts to wait finds the token an earlier waiter was counted for, and may take it | `arm_exec.cpp:64285` |
| `MCGuestFutex_requeue` | `RequeueMovesAll` | REQUEUE moves parked workers only | `arm_exec.cpp:9957` |
| `MCGuestFutex_restart` | `RestartsTimed` | a timed wait ends with EINTR although the handler has SA_RESTART | `arm_exec.cpp:9898` |
| `MCCompositor_latest` | `LatestShown` | a GL frame newer than a pixel frame taken in the same turn is not shown | `luna_compositor.c:536` |
| `MCCompositor_create` | `LiveImages` | after an image cannot be created, a frame is published without a live image | `luna_compositor.c:145` |
| `MCCompositor_contexts` | `NoTear` | one thread presents with two contexts that both keep their images: the second waits for and destroys a slot's release fence, and the first then copies into its image of that slot without a wait | `luna_compositor.c:187` |
| `MCCompositor_two` | `NoTear` | two presenting threads share an entry and a slot; the picture tears | `luna_compositor.c:99` |

## Not modelled

The interpreter's instructions, class libraries, parsers, linkers, codecs,
crypto and text tables are sequential and large; the tests under `test/` exercise
them by example. The Vulkan, SQLite and socket bridges forward calls. dynarmic is
third-party code, and guest programs appear in every model as arbitrary callers.
Memory exhaustion is modelled in the pixel path and for a new process's channel. In the compositor,
destruction of a context while its images are shown is not modelled.

## Plan

1. `DvmGil`: the interpreter lock of `dvm/dvm.c` (4296-4880), its event waiters and
   `notify_one`, composed with the execution lock; no thread waits for one lock while
   it holds the other (deadlock freedom of the pair), no lost notification.
   `FifoLock` again as the abstract specification. Instance: 3 threads, 2 channels.
2. `GuestSync`: guest mutexes, condition variables and semaphores with callbacks
   and workers (`arm_exec.cpp` 6724-9001, 9746-9884, 48370-48500, 64238-64383).
3. `GuestScheduler`: ready and poll queues, claims by workers, sleep heap, retirement
   (`arm_exec.cpp` 8710-8880, 25690-26100, 62919-63927); every ready thread runs.
4. `PrefsWriter`: coalescing queue, generations and a crash at every step
   (`dvm/dvm_runtime.c` 28881-28991, 29690-29718).
5. `ImeQueue`, `InputReplay`, `AAudioStream`: the panel's three threads; contacts that go
   down come up once; the ring at its wrap.
6. Proofs: the futex tables (`Counted`, `Listed`), the pool's `OneProcessPerName` and
   `NoticeMeansGone`, and the compositor's `SyncsLinear`, each with its inductive
   strengthening checked by TLC first.
