----------------------------- MODULE ProcessPool -----------------------------
(***************************************************************************)
(* The pool of component processes of src/src/luna_process_ipc.c: one      *)
(* child VM for each Android process name, commands to it, its replies and *)
(* its death notice; and the main loop of the child, run_service_process   *)
(* of src/src/loader.c.                                                    *)
(*                                                                         *)
(* A child is named by its guest pid.  Its channel is the one of module    *)
(* ProcessChannel at the grain of whole messages: a queue on either side,  *)
(* a bounded socket in either direction, and the sticky error of the       *)
(* parent's end.  A process that ends closes its socket some time before   *)
(* waitpid() reports it.  The pool lock is held through each operation, so *)
(* only the child processes and the callbacks of a tick interleave with    *)
(* it; a tick is cut where a child can act between two of its calls.       *)
(* Running out of host memory is modelled where it fails after a process   *)
(* has been started, and left out elsewhere.                               *)
(***************************************************************************)
EXTENDS Integers, SequencesExt, FiniteSetsExt

CONSTANTS Names,        \* Android process names
          FirstPid,     \* the pool's first guest pid
          PidStride,    \* PID_STRIDE
          PidLimit,     \* PID_LIMIT
          SocketSize,   \* messages the kernel buffers in one direction
          QueueMax,     \* messages a channel queues
          TickMax,      \* messages one tick of a channel takes, 32
          MaxCommands   \* bound: commands submitted

ASSUME PidAssumption == /\ {FirstPid, PidStride, PidLimit} \subseteq Nat \ {0}
                        /\ FirstPid + PidStride <= PidLimit
ASSUME SizeAssumption == {SocketSize, QueueMax, TickMax, MaxCommands} \subseteq Nat \ {0}

VARIABLES children,  \* pool->children, the guest pids in list order
          name,      \* child->name, for every pid ever used
          dead,      \* child->dead
          drained,   \* child->drained
          error,     \* child->channel->error is set
          out,       \* child->channel->head .., commands not yet in the socket
          next_pid,  \* pool->next_pid
          exits,     \* pool->exits .. exits_tail
          toChild,   \* commands in the socket of a child
          toParent,  \* replies in the socket of a child
          proc,      \* "run", then "closed", then "zombie", then "reaped"
          inbox,     \* the batch of commands the child's tick has taken
          backlog,   \* replies the child's channel has queued
          fatal,     \* process.fatal of the child
          pc, todo,  \* the operation of the pool and the children it has still to visit
          replies,   \* the replies the tick has collected
          answered,  \* history: replies passed to component_reply, by pid
          written,   \* history: replies each child got into its socket
          noticed,   \* history: pids whose death notice was taken
          given,     \* history: commands accepted for each pid
          epipe,     \* history: a send to the child failed
          commands   \* commands submitted so far

pool == <<children, name, dead, drained, error, out, next_pid, exits>>
child == <<toChild, toParent, proc, inbox, backlog, fatal>>
history == <<answered, written, noticed, given, epipe, commands>>
vars == <<pool, child, pc, todo, replies, history>>

Pids == {p \in FirstPid..PidLimit : p % PidStride = FirstPid % PidStride}
Procs == {"unused", "run", "closed", "zombie", "reaped"}

Closing == {"close", "term", "kill", "gone"}
PC == {"idle", "flush", "recv", "reap", "callbacks", "notices"} \cup Closing

TypeOK == /\ \A q \in {children, exits, todo} : ToSet(q) \subseteq Pids /\ IsInjective(q)
          /\ name \in [Pids -> Names]
          /\ \A f \in {dead, drained, error, fatal, epipe} : f \in [Pids -> BOOLEAN]
          /\ proc \in [Pids -> Procs]
          /\ \A p \in Pids : /\ out[p] \in 0..QueueMax /\ backlog[p] \in 0..QueueMax
                             /\ toChild[p] \in 0..SocketSize /\ toParent[p] \in 0..SocketSize
                             /\ inbox[p] \in 0..TickMax
                             /\ replies[p] \in 0..TickMax
                             /\ proc[p] # "unused" => p + PidStride <= PidLimit
          /\ pc \in PC

Init == /\ children = <<>> /\ exits = <<>> /\ todo = <<>>
        /\ name \in [Pids -> {CHOOSE n \in Names : TRUE}]
        /\ dead = [p \in Pids |-> FALSE] /\ drained = dead
        /\ error = dead /\ fatal = dead /\ epipe = dead
        /\ out = [p \in Pids |-> 0] /\ backlog = out /\ toChild = out /\ toParent = out
        /\ inbox = out /\ replies = out /\ answered = out /\ written = out /\ given = out
        /\ next_pid = FirstPid /\ noticed = {} /\ commands = 0
        /\ proc = [p \in Pids |-> "unused"]
        /\ pc = "idle"

Least(a, b) == IF a < b THEN a ELSE b
SetTrue(f, S) == [p \in Pids |-> p \in S \/ f[p]]
Ended == {"zombie", "reaped"}

-----------------------------------------------------------------------------
\* Mutant: a child somebody else collected is taken for running.
ChildPollOwn(S) == LET over == {p \in S : ~dead[p] /\ proc[p] = "zombie"}
                IN /\ dead' = SetTrue(dead, over)
                   /\ proc' = [p \in Pids |-> IF p \in over THEN "reaped" ELSE proc[p]]

\* child_poll of every member of S: waitpid reports a child that has ended, or
\* that another reaper has collected (ECHILD).
ChildPoll(S) == LET over == {p \in S : ~dead[p] /\ proc[p] \in Ended}
                IN /\ dead' = SetTrue(dead, over)
                   /\ proc' = [p \in Pids |-> IF p \in over THEN "reaped" ELSE proc[p]]

\* luna_process_channel_send to p, then flush; queued commands go first.
ChannelSend(p, running) ==
    IF error[p] \/ out[p] = QueueMax
    THEN UNCHANGED <<error, out, toChild, given, epipe>>
    ELSE LET n == Least(out[p] + 1, SocketSize - toChild[p])
         IN IF running
            THEN /\ out' = [out EXCEPT ![p] = @ + 1 - n]
                 /\ toChild' = [toChild EXCEPT ![p] = @ + n]
                 /\ given' = [given EXCEPT ![p] = @ + 1]
                 /\ UNCHANGED <<error, epipe>>
            ELSE /\ out' = [out EXCEPT ![p] = @ + 1]
                 /\ error' = [error EXCEPT ![p] = TRUE]
                 /\ epipe' = [epipe EXCEPT ![p] = TRUE]
                 /\ UNCHANGED <<toChild, given>>

\* Mutant: a child whose stream is over counts as gone.
FoundUndrained(n) == LET S == {i \in 1..Len(children) : /\ name[children[i]] = n
                                               /\ ~dead[children[i]] /\ ~drained[children[i]]
                                               /\ proc[children[i]] \notin Ended}
            IN Min(S \cup {Len(children) + 1})

\* The first child of that name that has not ended, by its place in the list;
\* one past the end if there is none.
Found(n) == LET S == {i \in 1..Len(children) : /\ name[children[i]] = n
                                               /\ ~dead[children[i]]
                                               /\ proc[children[i]] \notin Ended}
            IN Min(S \cup {Len(children) + 1})

\* luna_process_pool_send, called by component_submit: use the child of that
\* name if one runs.
PoolSendExisting(n) ==
    LET i == Found(n)
    IN /\ pc \in {"idle", "callbacks", "notices"} /\ commands < MaxCommands
       /\ i <= Len(children)
       /\ ChildPoll({children[j] : j \in 1..i})
       /\ ChannelSend(children[i], proc[children[i]] = "run")
       /\ commands' = commands + 1
       /\ UNCHANGED <<children, name, drained, next_pid, exits, toParent, inbox, backlog,
                      fatal, pc, todo, replies, answered, written, noticed>>

\* Mutant: the last guest pid is used although its range is not whole.
PoolSendSpawnsLast(n) ==
    /\ pc \in {"idle", "callbacks", "notices"} /\ commands < MaxCommands
    /\ Found(n) > Len(children)
    /\ next_pid <= PidLimit
    /\ LET over == {p \in ToSet(children) : ~dead[p] /\ proc[p] \in Ended}
       IN /\ dead' = SetTrue(dead, over)
          /\ proc' = [p \in Pids |-> CASE p = next_pid -> "run"
                                       [] p \in over -> "reaped"
                                       [] OTHER -> proc[p]]
    /\ children' = <<next_pid>> \o children
    /\ name' = [name EXCEPT ![next_pid] = n]
    /\ next_pid' = next_pid + PidStride
    /\ ChannelSend(next_pid, TRUE)
    /\ commands' = commands + 1
    /\ UNCHANGED <<drained, exits, toParent, inbox, backlog, fatal, pc, todo, replies,
                   answered, written, noticed>>

\* No such child: spawn_child, then the command.
PoolSendSpawns(n) ==
    /\ pc \in {"idle", "callbacks", "notices"} /\ commands < MaxCommands
    /\ Found(n) > Len(children)
    /\ next_pid <= PidLimit - PidStride
    /\ LET over == {p \in ToSet(children) : ~dead[p] /\ proc[p] \in Ended}
       IN /\ dead' = SetTrue(dead, over)
          /\ proc' = [p \in Pids |-> CASE p = next_pid -> "run"
                                       [] p \in over -> "reaped"
                                       [] OTHER -> proc[p]]
    /\ children' = <<next_pid>> \o children
    /\ name' = [name EXCEPT ![next_pid] = n]
    /\ next_pid' = next_pid + PidStride
    /\ ChannelSend(next_pid, TRUE)
    /\ commands' = commands + 1
    /\ UNCHANGED <<drained, exits, toParent, inbox, backlog, fatal, pc, todo, replies,
                   answered, written, noticed>>

\* No such child, and posix_spawn fails or no guest pid is left (EAGAIN).
PoolSendFails(n) ==
    /\ pc \in {"idle", "callbacks", "notices"} /\ commands < MaxCommands
    /\ Found(n) > Len(children)
    /\ ChildPoll(ToSet(children))
    /\ commands' = commands + 1
    /\ UNCHANGED <<children, name, drained, error, out, next_pid, exits, toChild, toParent,
                   inbox, backlog, fatal, pc, todo, replies, answered, written, noticed,
                   given, epipe>>

\* No such child, and the channel of the new process cannot be opened: it is killed
\* and collected at once, and its guest pids are used up.
PoolSendOpenFails(n) ==
    /\ pc \in {"idle", "callbacks", "notices"} /\ commands < MaxCommands
    /\ Found(n) > Len(children)
    /\ next_pid <= PidLimit - PidStride
    /\ LET over == {p \in ToSet(children) : ~dead[p] /\ proc[p] \in Ended}
       IN /\ dead' = SetTrue(dead, over)
          /\ proc' = [p \in Pids |-> IF p \in over \cup {next_pid} THEN "reaped" ELSE proc[p]]
    /\ next_pid' = next_pid + PidStride
    /\ commands' = commands + 1
    /\ UNCHANGED <<children, name, drained, error, out, exits, toChild, toParent, inbox,
                   backlog, fatal, pc, todo, replies, answered, written, noticed, given, epipe>>

-----------------------------------------------------------------------------
\* luna_process_pool_tick visits every child, then reaps, then calls back.
PoolTick == /\ pc = "idle"
            /\ pc' = "flush" /\ todo' = children
            /\ UNCHANGED <<pool, child, replies, history>>

\* The tick of a child's channel ends with an error: its stream is over.
Drained(p) == /\ drained' = [drained EXCEPT ![p] = TRUE]
              /\ todo' = Tail(todo) /\ pc' = "flush"

\* Mutant: commands that did not fit the socket wait for the next send.
TickFlushLate ==
    LET p == Head(todo)
        n == Least(out[p], SocketSize - toChild[p])
    IN /\ pc = "flush" /\ todo # <<>>
       /\ IF error[p] \/ (out[p] > 0 /\ proc[p] # "run")
          THEN /\ error' = [error EXCEPT ![p] = TRUE]
               /\ epipe' = [epipe EXCEPT ![p] = @ \/ ~error[p]]
               /\ Drained(p)
               /\ UNCHANGED <<out, toChild>>
          ELSE /\ UNCHANGED <<out, toChild>>
               /\ pc' = "recv"
               /\ UNCHANGED <<error, epipe, drained, todo>>
       /\ UNCHANGED <<children, name, dead, next_pid, exits, toParent, proc, inbox, backlog,
                      fatal, replies, answered, written, noticed, given, commands>>

\* luna_process_channel_tick, first half: an old error, or flush.
TickFlush ==
    LET p == Head(todo)
        n == Least(out[p], SocketSize - toChild[p])
    IN /\ pc = "flush" /\ todo # <<>>
       /\ IF error[p] \/ (out[p] > 0 /\ proc[p] # "run")
          THEN /\ error' = [error EXCEPT ![p] = TRUE]
               /\ epipe' = [epipe EXCEPT ![p] = @ \/ ~error[p]]
               /\ Drained(p)
               /\ UNCHANGED <<out, toChild>>
          ELSE /\ out' = [out EXCEPT ![p] = @ - n]
               /\ toChild' = [toChild EXCEPT ![p] = @ + n]
               /\ pc' = "recv"
               /\ UNCHANGED <<error, epipe, drained, todo>>
       /\ UNCHANGED <<children, name, dead, next_pid, exits, toParent, proc, inbox, backlog,
                      fatal, replies, answered, written, noticed, given, commands>>

\* Second half: take up to TickMax replies; end of file after the last one.
TickRecv ==
    LET p == Head(todo)
        n == Least(toParent[p], TickMax)
    IN /\ pc = "recv"
       /\ toParent' = [toParent EXCEPT ![p] = @ - n]
       /\ replies' = [replies EXCEPT ![p] = n]
       /\ IF n < TickMax /\ proc[p] # "run"
          THEN Drained(p) /\ error' = [error EXCEPT ![p] = TRUE]
          ELSE todo' = Tail(todo) /\ pc' = "flush" /\ UNCHANGED <<drained, error>>
       /\ UNCHANGED <<children, name, dead, out, next_pid, exits, toChild, proc, inbox,
                      backlog, fatal, history>>

TickReap == /\ pc = "flush" /\ todo = <<>>
            /\ pc' = "reap" /\ todo' = children
            /\ UNCHANGED <<pool, child, replies, history>>

\* Mutant: a child is dropped as soon as it has ended.
ReapDead ==
    LET p == Head(todo)
    IN /\ pc = "reap" /\ todo # <<>>
       /\ ChildPoll({p})
       /\ todo' = Tail(todo)
       /\ IF dead'[p]
          THEN /\ children' = Remove(children, p)
               /\ exits' = Append(exits, p)
               /\ toParent' = [toParent EXCEPT ![p] = 0]
               /\ out' = [out EXCEPT ![p] = 0]
          ELSE UNCHANGED <<children, exits, toParent, out>>
       /\ UNCHANGED <<name, drained, error, next_pid, toChild, inbox, backlog, fatal,
                      pc, replies, history>>

\* Mutant: a child is dropped as soon as its stream is over.
ReapDrained ==
    LET p == Head(todo)
    IN /\ pc = "reap" /\ todo # <<>>
       /\ ChildPoll({p})
       /\ todo' = Tail(todo)
       /\ IF drained[p]
          THEN /\ children' = Remove(children, p)
               /\ exits' = Append(exits, p)
               /\ toParent' = [toParent EXCEPT ![p] = 0]
               /\ out' = [out EXCEPT ![p] = 0]
          ELSE UNCHANGED <<children, exits, toParent, out>>
       /\ UNCHANGED <<name, drained, error, next_pid, toChild, inbox, backlog, fatal,
                      pc, replies, history>>

\* One turn of reap: a child that has ended and whose stream is over leaves the
\* list, its channel is closed and its death notice queued.
Reap ==
    LET p == Head(todo)
    IN /\ pc = "reap" /\ todo # <<>>
       /\ ChildPoll({p})
       /\ todo' = Tail(todo)
       /\ IF dead'[p] /\ drained[p]
          THEN /\ children' = Remove(children, p)
               /\ exits' = Append(exits, p)
               /\ toParent' = [toParent EXCEPT ![p] = 0]
               /\ out' = [out EXCEPT ![p] = 0]
          ELSE UNCHANGED <<children, exits, toParent, out>>
       /\ UNCHANGED <<name, drained, error, next_pid, toChild, inbox, backlog, fatal,
                      pc, replies, history>>

\* The lock is dropped and the replies go to component_reply.
TickCallback ==
    /\ \/ pc = "reap" /\ todo = <<>>
       \/ pc = "callbacks"
    /\ \/ \E p \in Pids : /\ replies[p] > 0
                          /\ replies' = [replies EXCEPT ![p] = @ - 1]
                          /\ answered' = [answered EXCEPT ![p] = @ + 1]
                          /\ pc' = "callbacks"
       \/ (\A p \in Pids : replies[p] = 0) /\ pc' = "notices" /\ UNCHANGED <<replies, answered>>
    /\ UNCHANGED <<pool, child, todo, written, noticed, given, epipe, commands>>

\* component_pool_tick takes the notices, one luna_process_pool_next_exit each.  Its
\* buffer holds the longest name luna_process_pool_send accepts, so no name is too
\* long for it (ENOSPC).
NextExit ==
    /\ pc = "notices"
    /\ IF exits = <<>>
       THEN pc' = "idle" /\ UNCHANGED <<exits, noticed>>
       ELSE /\ exits' = Tail(exits) /\ noticed' = noticed \cup {Head(exits)}
            /\ UNCHANGED pc
    /\ UNCHANGED <<children, name, dead, drained, error, out, next_pid, child, todo, replies,
                   answered, written, given, epipe, commands>>

-----------------------------------------------------------------------------
\* luna_process_pool_close: close every channel and wait a while, ...
PoolClose ==
    /\ pc = "idle"
    /\ pc' = "close"
    /\ drained' = SetTrue(drained, ToSet(children))
    /\ toParent' = [p \in Pids |-> 0] /\ out' = [p \in Pids |-> 0]
    /\ UNCHANGED <<children, name, dead, error, next_pid, exits, toChild, proc, inbox,
                   backlog, fatal, todo, replies, history>>

\* ... reaping what ends by itself, at most twenty times before SIGTERM and
\* twenty after, ...
CloseReap ==
    LET S == ToSet(children)
        over == {p \in S : dead[p] \/ proc[p] \in Ended}
    IN /\ pc \in {"close", "term"} /\ over # {}
       /\ ChildPoll(S)
       /\ children' = SelectSeq(children, LAMBDA p : p \notin over)
       /\ exits' = exits \o SelectSeq(children, LAMBDA p : p \in over)
       /\ UNCHANGED <<name, drained, error, out, next_pid, toChild, toParent, inbox, backlog,
                      fatal, pc, todo, replies, history>>

\* ... send SIGTERM, which a child may die of (ChildExits) or outlive, ...
CloseTerm ==
    /\ pc = "close"
    /\ pc' = "term"
    /\ UNCHANGED <<pool, child, todo, replies, history>>

\* Mutant: the killed child is not collected.
CloseKillNoWait ==
    /\ pc \in {"term", "kill"} /\ children # <<>>
    /\ pc' = "kill"
    /\ proc' = [proc EXCEPT ![Head(children)] = "zombie"]
    /\ children' = Tail(children)
    /\ UNCHANGED <<name, dead, drained, error, out, next_pid, exits, toChild, toParent, inbox,
                   backlog, fatal, todo, replies, history>>

\* ... and kill and collect the rest, one after the other.
CloseKill ==
    /\ pc \in {"term", "kill"} /\ children # <<>>
    /\ pc' = "kill"
    /\ proc' = [proc EXCEPT ![Head(children)] = "reaped"]
    /\ children' = Tail(children)
    /\ UNCHANGED <<name, dead, drained, error, out, next_pid, exits, toChild, toParent, inbox,
                   backlog, fatal, todo, replies, history>>

\* Notices nobody took are dropped.
CloseEnd ==
    /\ pc \in {"term", "kill"} /\ children = <<>>
    /\ pc' = "gone" /\ exits' = <<>>
    /\ UNCHANGED <<children, name, dead, drained, error, out, next_pid, child, todo, replies,
                   history>>

-----------------------------------------------------------------------------
\* The parent has closed its end of the channel of every child.
HungUp == pc \in Closing

\* Replies the socket takes from the child's queue.
ChildFlush(p, queued) ==
    LET n == Least(queued, SocketSize - toParent[p])
    IN /\ backlog' = [backlog EXCEPT ![p] = queued - n]
       /\ toParent' = [toParent EXCEPT ![p] = @ + n]
       /\ written' = [written EXCEPT ![p] = @ + n]

\* The parent has hung up and the child's tick finds out: it has replies to flush,
\* or it has read the last command.
SeesEnd(p) == HungUp /\ (backlog[p] > 0 \/ toChild[p] = 0)

\* The tick of run_service_process: flush, then take a batch of commands.
ChildTick(p) ==
    LET n == Least(toChild[p], TickMax)
    IN /\ proc[p] = "run" /\ ~fatal[p] /\ inbox[p] = 0 /\ ~SeesEnd(p)
       /\ n > 0 \/ backlog[p] > 0
       /\ ChildFlush(p, backlog[p])
       /\ toChild' = [toChild EXCEPT ![p] = @ - n]
       /\ inbox' = [inbox EXCEPT ![p] = n]
       /\ UNCHANGED <<pool, proc, fatal, pc, todo, replies, answered, noticed, given, epipe,
                      commands>>

\* service_process_command: dispatch, then queue the reply and flush.  After a
\* failed dispatch (-EIO), a full queue or a closed channel the process is fatal
\* and the rest of the batch is dropped.
ChildCommand(p) ==
    /\ proc[p] = "run" /\ inbox[p] > 0
    /\ inbox' = [inbox EXCEPT ![p] = @ - 1]
    /\ IF fatal[p] \/ backlog[p] = QueueMax \/ HungUp
       THEN fatal' = [fatal EXCEPT ![p] = TRUE] /\ UNCHANGED <<backlog, toParent, written>>
       ELSE ChildFlush(p, backlog[p] + 1) /\ \E eio \in BOOLEAN : fatal' = [fatal EXCEPT ![p] = eio]
    /\ UNCHANGED <<pool, toChild, proc, pc, todo, replies, answered, noticed, given, epipe,
                   commands>>

\* The socket of an ended process closes, with what it has not read or sent.
Closes(p) ==
    /\ proc' = [proc EXCEPT ![p] = "closed"]
    /\ toChild' = [toChild EXCEPT ![p] = 0]
    /\ inbox' = [inbox EXCEPT ![p] = 0] /\ backlog' = [backlog EXCEPT ![p] = 0]
    /\ UNCHANGED <<pool, toParent, fatal, pc, todo, replies, history>>

\* run_service_process returns: fatal, or end of file from the parent.
ChildReturns(p) == proc[p] = "run" /\ inbox[p] = 0 /\ (fatal[p] \/ SeesEnd(p)) /\ Closes(p)

\* The guest calls exit, or the process dies.
ChildExits(p) == proc[p] = "run" /\ Closes(p)

ChildZombie(p) == /\ proc[p] = "closed"
                  /\ proc' = [proc EXCEPT ![p] = "zombie"]
                  /\ UNCHANGED <<pool, toChild, toParent, inbox, backlog, fatal, pc, todo,
                                 replies, history>>

\* Another reaper of the process collects the child.
OtherReaper(p) == /\ proc[p] = "zombie"
                  /\ proc' = [proc EXCEPT ![p] = "reaped"]
                  /\ UNCHANGED <<pool, toChild, toParent, inbox, backlog, fatal, pc, todo,
                                 replies, history>>

Submit == \E n \in Names : \/ PoolSendExisting(n) \/ PoolSendSpawns(n)
                           \/ PoolSendFails(n) \/ PoolSendOpenFails(n)
Ticking == PoolTick \/ TickFlush \/ TickRecv \/ TickReap \/ Reap \/ TickCallback \/ NextExit
CloseStep == CloseReap \/ CloseTerm \/ CloseKill \/ CloseEnd
ChildStep(p) == ChildTick(p) \/ ChildCommand(p) \/ ChildReturns(p) \/ ChildZombie(p)

Next == \/ Submit \/ Ticking \/ PoolClose \/ CloseStep
        \/ \E p \in Pids : ChildStep(p) \/ ChildExits(p) \/ OtherReaper(p)
Spec == Init /\ [][Next]_vars
\* The main loop ticks the pool every frame; a child's main loop runs; a process
\* that has ended becomes waitable.  Nobody need submit, exit or close.
FairSpec == Spec /\ WF_vars(Ticking) /\ WF_vars(CloseStep) /\ \A p \in Pids : WF_vars(ChildStep(p))

-----------------------------------------------------------------------------
\* One VM is reused per Android process name: a second process of a name is
\* started only once the first has ended.
OneProcessPerName ==
    \A p, q \in Pids : /\ p # q /\ name[p] = name[q]
                       /\ proc[p] \in {"run", "closed"} /\ proc[q] \in {"run", "closed"}
                       => FALSE

\* A death notice is given once, for a process that has ended and been collected,
\* and the pool then holds nothing of it.
NoticeMeansGone ==
    \A p \in noticed \cup ToSet(exits) :
      /\ proc[p] = "reaped" /\ p \notin ToSet(children)
      /\ ~(p \in noticed /\ p \in ToSet(exits))

\* "Death notices follow any final replies already written by that VM."
NoticeAfterReplies == \A p \in noticed : answered[p] = written[p]

\* Replies are lost to a death notice only if a command to that process failed
\* with EPIPE first.
RepliesLostOnlyOnSendError ==
    \A p \in noticed : answered[p] # written[p] => epipe[p]

\* luna_process_pool_close leaves no child process of the pool behind, running
\* or waiting to be collected.
CloseCollectsAll == pc = "gone" => \A p \in Pids : proc[p] \in {"unused", "reaped"}

\* An accepted command is answered, or the death of the process it went to is
\* reported, unless the pool is closed.
CommandResolved ==
    \A p \in Pids, k \in 1..MaxCommands :
      given[p] >= k ~> answered[p] >= k \/ p \in noticed \/ HungUp

\* Every process that ends is collected and reported, unless the pool is closed.
DeathReported == \A p \in Pids : proc[p] = "closed" ~> p \in noticed \/ HungUp
=============================================================================
