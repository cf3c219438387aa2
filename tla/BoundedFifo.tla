---------------------------- MODULE BoundedFifo ----------------------------
(***************************************************************************)
(* What a MessageQueue (csf_assign05/message_queue.h) promises its users:  *)
(* a first-in first-out queue of at most Capacity messages, shared by any  *)
(* number of threads.  A call takes effect in one atomic step between its  *)
(* invocation and its return.  An enqueue waits for room.  A dequeue may   *)
(* come back empty-handed, but only if at some moment of the call every    *)
(* queued message was spoken for: it belonged to an enqueue that had not   *)
(* returned yet or to another dequeue that was under way.                  *)
(***************************************************************************)
EXTENDS Integers, Sequences, FiniteSets

CONSTANTS
  Threads,    \* the threads that call the queue
  Messages,   \* the messages
  Capacity,   \* how many messages the queue holds at most
  NoMessage   \* the null pointer

VARIABLES
  fifo,       \* the queued messages, oldest first
  phase,      \* where each thread is in its call
  hand        \* the message a thread is handing in or was handed

fifoVars == <<fifo, phase, hand>>

Phases == {"idle", "enqueueing", "enqueued", "dequeueing", "waiting", "dequeued"}

InPhase(p) == {t \in Threads : phase[t] = p}

Init ==
  /\ fifo  = <<>>
  /\ phase = [t \in Threads |-> "idle"]
  /\ hand  = [t \in Threads |-> NoMessage]

-----------------------------------------------------------------------------

BeginEnqueue(t, m) ==
  /\ phase[t] = "idle"
  /\ phase' = [phase EXCEPT ![t] = "enqueueing"]
  /\ hand'  = [hand EXCEPT ![t] = m]
  /\ UNCHANGED fifo

Put(t) ==
  /\ phase[t] = "enqueueing"
  /\ Len(fifo) < Capacity
  /\ fifo'  = Append(fifo, hand[t])
  /\ phase' = [phase EXCEPT ![t] = "enqueued"]
  /\ UNCHANGED hand

BeginDequeue(t) ==
  /\ phase[t] = "idle"
  /\ phase' = [phase EXCEPT ![t] = "dequeueing"]
  /\ UNCHANGED <<fifo, hand>>

Take(t) ==
  /\ phase[t] = "dequeueing"
  /\ fifo # <<>>
  /\ hand'  = [hand EXCEPT ![t] = Head(fifo)]
  /\ fifo'  = Tail(fifo)
  /\ phase' = [phase EXCEPT ![t] = "dequeued"]

\* Nothing is there that is not spoken for.
FindNothing(t) ==
  /\ phase[t] = "dequeueing"
  /\ Len(fifo) <= Cardinality(InPhase("enqueued"))
                    + Cardinality(InPhase("dequeueing") \ {t})
  /\ phase' = [phase EXCEPT ![t] = "waiting"]
  /\ UNCHANGED <<fifo, hand>>

Resume(t) ==
  /\ phase[t] = "waiting"
  /\ phase' = [phase EXCEPT ![t] = "dequeueing"]
  /\ UNCHANGED <<fifo, hand>>

GiveUp(t) ==
  /\ phase[t] = "waiting"
  /\ phase' = [phase EXCEPT ![t] = "idle"]
  /\ UNCHANGED <<fifo, hand>>

Return(t) ==
  /\ phase[t] \in {"enqueued", "dequeued"}
  /\ phase' = [phase EXCEPT ![t] = "idle"]
  /\ hand'  = [hand EXCEPT ![t] = NoMessage]
  /\ UNCHANGED fifo

Next ==
  \E t \in Threads :
    \/ \E m \in Messages : BeginEnqueue(t, m)
    \/ Put(t)
    \/ BeginDequeue(t)
    \/ Take(t)
    \/ FindNothing(t)
    \/ Resume(t)
    \/ GiveUp(t)
    \/ Return(t)

Spec == Init /\ [][Next]_fifoVars
=============================================================================
