------------------------------ MODULE TaskFifo ------------------------------
(***************************************************************************)
(* What SimpleBufferCache needs of an I/O thread: tasks run one at a time, *)
(* in the order they were pushed, each after the events it waits for, and  *)
(* join returns when every task pushed before it has run.                  *)
(***************************************************************************)
EXTENDS Sequences, FiniteSets

CONSTANTS
  Tasks,     \* the tasks that are ever pushed
  Events,    \* device events
  Waits      \* the events each task waits for

VARIABLES
  pending,   \* tasks pushed, not run yet, oldest first
  finished,  \* tasks that have run
  complete,  \* device events that are complete
  joined     \* join has returned

fifoVars == <<pending, finished, complete, joined>>

FifoInit == pending = <<>> /\ finished = {} /\ complete = {} /\ ~joined

Push(t) ==
  /\ ~joined
  /\ pending' = Append(pending, t)
  /\ UNCHANGED <<finished, complete, joined>>

Run ==
  /\ pending # <<>>
  /\ Waits[Head(pending)] \subseteq complete
  /\ finished' = finished \cup {Head(pending)}
  /\ pending' = Tail(pending)
  /\ UNCHANGED <<complete, joined>>

Complete(e) ==
  /\ complete' = complete \cup {e}
  /\ UNCHANGED <<pending, finished, joined>>

Join ==
  /\ pending = <<>>
  /\ joined' = TRUE
  /\ UNCHANGED <<pending, finished, complete>>

FifoNext ==
  \/ \E t \in Tasks : Push(t)
  \/ Run
  \/ \E e \in Events : Complete(e)
  \/ Join

FifoSpec == FifoInit /\ [][FifoNext]_fifoVars
=============================================================================
