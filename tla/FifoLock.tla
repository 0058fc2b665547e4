------------------------------ MODULE FifoLock ------------------------------
(***************************************************************************)
(* What the execution lock of src/src/arm.c promises: one owner, and the   *)
(* lock "handed out in the order it was asked for".  A thread that finds   *)
(* the lock free and nobody in line owns it at once; otherwise it joins    *)
(* the end of the line.  A release makes the first of the line the owner.  *)
(***************************************************************************)
EXTENDS Sequences, Naturals

CONSTANTS Threads, NoThread

VARIABLES owner, line

fifoVars == <<owner, line>>

InLine(t) == \E i \in 1..Len(line) : line[i] = t

Init == owner = NoThread /\ line = <<>>

Take(t) == owner = NoThread /\ line = <<>> /\ owner' = t /\ line' = line

Join(t) == /\ owner # NoThread /\ owner # t /\ ~InLine(t)
           /\ line' = Append(line, t) /\ owner' = owner

Release(t) == /\ owner = t
              /\ IF line = <<>> THEN owner' = NoThread /\ line' = line
                                ELSE owner' = Head(line) /\ line' = Tail(line)

Next == \E t \in Threads : Take(t) \/ Join(t) \/ Release(t)

Spec == Init /\ [][Next]_fifoVars
=============================================================================
