---------------------------- MODULE MessageQueue ----------------------------
(***************************************************************************)
(* csf_assign05/message_queue.cpp: the queue of messages that waits for a  *)
(* receiver.  Every thread runs enqueue or dequeue one machine step at a   *)
(* time; a step is one call on a semaphore or on the mutex, or the access  *)
(* to the deque that the mutex guards.                                     *)
(*                                                                         *)
(* sem_wait and sem_post are atomic.  The one second after which           *)
(* sem_timedwait gives up is abstracted: a thread that has blocked may     *)
(* give up at any moment.  A thread that finds the semaphore positive when *)
(* it calls never gives up, as POSIX requires.                             *)
(*                                                                         *)
(* A definition whose comment starts with MUTANT is a broken form of the   *)
(* one that follows it; no specification uses it.  It stands for the bug   *)
(* that a property below is there to rule out.                             *)
(***************************************************************************)
EXTENDS Integers, Sequences, FiniteSets

CONSTANTS
  Producers,  \* threads that call enqueue: the workers that serve senders
  Consumers,  \* threads that call dequeue: the worker that serves the receiver
  Messages,   \* what a Message* may point to
  QUEUE_MAX,  \* the capacity of the queue
  NoMessage,  \* nullptr
  NoThread    \* the mutex is free

Threads == Producers \cup Consumers

ASSUME QueueAssumption ==
  /\ QUEUE_MAX \in Nat \ {0}
  /\ IsFiniteSet(Producers)
  /\ IsFiniteSet(Consumers)
  /\ Producers \cap Consumers = {}
  /\ NoThread \notin Threads
  /\ NoMessage \notin Messages

VARIABLES
  m_lock,     \* the thread that holds the mutex, or NoThread
  m_avail,    \* semaphore: free slots
  m_items,    \* semaphore: messages ready to be taken
  m_messages, \* the deque
  pc,         \* the next step of each thread
  msg         \* the argument of enqueue, or the local of dequeue

vars == <<m_lock, m_avail, m_items, m_messages, pc, msg>>

EnqueueSteps == {"wait_avail", "lock_push", "push", "post_items"}
DequeueSteps == {"wait_items", "blocked", "lock_pop", "pop", "post_avail"}
Steps        == {"idle"} \cup EnqueueSteps \cup DequeueSteps

\* The threads whose next step is s.
At(s) == {t \in Threads : pc[t] = s}

TypeOK ==
  /\ m_lock \in Threads \cup {NoThread}
  /\ m_avail \in Nat
  /\ m_items \in Nat
  /\ m_messages \in Seq(Messages)
  /\ pc \in [Threads -> Steps]
  /\ \A p \in Producers : pc[p] \in {"idle"} \cup EnqueueSteps
  /\ \A c \in Consumers : pc[c] \in {"idle"} \cup DequeueSteps
  /\ msg \in [Threads -> Messages \cup {NoMessage}]
  /\ \A p \in Producers : pc[p] \in EnqueueSteps => msg[p] \in Messages

Init ==
  /\ m_lock     = NoThread
  /\ m_avail    = QUEUE_MAX
  /\ m_items    = 0
  /\ m_messages = <<>>
  /\ pc         = [t \in Threads |-> "idle"]
  /\ msg        = [t \in Threads |-> NoMessage]

Goto(t, s) == pc' = [pc EXCEPT ![t] = s]

-----------------------------------------------------------------------------
(* MessageQueue::enqueue *)

Enqueue(p, m) ==
  /\ pc[p] = "idle"
  /\ Goto(p, "wait_avail")
  /\ msg' = [msg EXCEPT ![p] = m]
  /\ UNCHANGED <<m_lock, m_avail, m_items, m_messages>>

\* MUTANT: a slot is taken without waiting for one.
WaitAvailUnchecked(p) ==
  /\ pc[p] = "wait_avail"
  /\ m_avail' = m_avail - 1
  /\ Goto(p, "lock_push")
  /\ UNCHANGED <<m_lock, m_items, m_messages, msg>>

\* sem_wait(&m_avail)
WaitAvail(p) ==
  /\ pc[p] = "wait_avail"
  /\ m_avail > 0
  /\ m_avail' = m_avail - 1
  /\ Goto(p, "lock_push")
  /\ UNCHANGED <<m_lock, m_items, m_messages, msg>>

\* MUTANT: no Guard around the push.
LockPushUnguarded(p) ==
  /\ pc[p] = "lock_push"
  /\ Goto(p, "push")
  /\ UNCHANGED <<m_lock, m_avail, m_items, m_messages, msg>>

\* Guard g(m_lock)
LockPush(p) ==
  /\ pc[p] = "lock_push"
  /\ m_lock = NoThread
  /\ m_lock' = p
  /\ Goto(p, "push")
  /\ UNCHANGED <<m_avail, m_items, m_messages, msg>>

\* MUTANT: push_front.
PushFront(p) ==
  /\ pc[p] = "push"
  /\ m_messages' = <<msg[p]>> \o m_messages
  /\ m_lock' = NoThread
  /\ Goto(p, "post_items")
  /\ UNCHANGED <<m_avail, m_items, msg>>

\* push_back, and the end of the scope of the guard
Push(p) ==
  /\ pc[p] = "push"
  /\ m_messages' = Append(m_messages, msg[p])
  /\ m_lock' = NoThread
  /\ Goto(p, "post_items")
  /\ UNCHANGED <<m_avail, m_items, msg>>

\* MUTANT: the sem_post after the push is missing.
PostItemsForgotten(p) ==
  /\ pc[p] = "post_items"
  /\ Goto(p, "idle")
  /\ msg' = [msg EXCEPT ![p] = NoMessage]
  /\ UNCHANGED <<m_lock, m_avail, m_items, m_messages>>

\* sem_post(&m_items), and return
PostItems(p) ==
  /\ pc[p] = "post_items"
  /\ m_items' = m_items + 1
  /\ Goto(p, "idle")
  /\ msg' = [msg EXCEPT ![p] = NoMessage]
  /\ UNCHANGED <<m_lock, m_avail, m_messages>>

-----------------------------------------------------------------------------
(* MessageQueue::dequeue *)

Dequeue(c) ==
  /\ pc[c] = "idle"
  /\ Goto(c, "wait_items")
  /\ UNCHANGED <<m_lock, m_avail, m_items, m_messages, msg>>

\* sem_timedwait(&m_items, &ts) takes an item, at once or after blocking ...
WaitItems(c) ==
  /\ pc[c] \in {"wait_items", "blocked"}
  /\ m_items > 0
  /\ m_items' = m_items - 1
  /\ Goto(c, "lock_pop")
  /\ UNCHANGED <<m_lock, m_avail, m_messages, msg>>

\* ... or finds none and blocks ...
Block(c) ==
  /\ pc[c] = "wait_items"
  /\ m_items = 0
  /\ Goto(c, "blocked")
  /\ UNCHANGED <<m_lock, m_avail, m_items, m_messages, msg>>

\* MUTANT: the result of sem_timedwait is not looked at.
ExpireUnchecked(c) ==
  /\ pc[c] = "blocked"
  /\ Goto(c, "lock_pop")
  /\ UNCHANGED <<m_lock, m_avail, m_items, m_messages, msg>>

\* ... until the wait expires: return nullptr.
Expire(c) ==
  /\ pc[c] = "blocked"
  /\ Goto(c, "idle")
  /\ UNCHANGED <<m_lock, m_avail, m_items, m_messages, msg>>

LockPop(c) ==
  /\ pc[c] = "lock_pop"
  /\ m_lock = NoThread
  /\ m_lock' = c
  /\ Goto(c, "pop")
  /\ UNCHANGED <<m_avail, m_items, m_messages, msg>>

\* front, pop_front, and the end of the scope of the guard
Pop(c) ==
  /\ pc[c] = "pop"
  /\ msg' = [msg EXCEPT ![c] = Head(m_messages)]
  /\ m_messages' = Tail(m_messages)
  /\ m_lock' = NoThread
  /\ Goto(c, "post_avail")
  /\ UNCHANGED <<m_avail, m_items>>

\* MUTANT: the slot is not given back.
PostAvailForgotten(c) ==
  /\ pc[c] = "post_avail"
  /\ Goto(c, "idle")
  /\ msg' = [msg EXCEPT ![c] = NoMessage]
  /\ UNCHANGED <<m_lock, m_avail, m_items, m_messages>>

\* sem_post(&m_avail), and return msg
PostAvail(c) ==
  /\ pc[c] = "post_avail"
  /\ m_avail' = m_avail + 1
  /\ Goto(c, "idle")
  /\ msg' = [msg EXCEPT ![c] = NoMessage]
  /\ UNCHANGED <<m_lock, m_items, m_messages>>

-----------------------------------------------------------------------------

EnqueueStep(p) == WaitAvail(p) \/ LockPush(p) \/ Push(p) \/ PostItems(p)

DequeueStep(c) ==
  \/ WaitItems(c) \/ Block(c) \/ Expire(c) \/ LockPop(c) \/ Pop(c) \/ PostAvail(c)

Next ==
  \/ \E p \in Producers : (\E m \in Messages : Enqueue(p, m)) \/ EnqueueStep(p)
  \/ \E c \in Consumers : Dequeue(c) \/ DequeueStep(c)

Spec == Init /\ [][Next]_vars

\* A thread that is inside a call keeps running, and the worker of a receiver
\* calls dequeue again and again (the loop of chat_with_receiver never ends).
\* Nothing makes a sender enqueue.
FairSpec ==
  /\ Spec
  /\ \A p \in Producers : WF_vars(EnqueueStep(p))
  /\ \A c \in Consumers : WF_vars(Dequeue(c)) /\ WF_vars(DequeueStep(c))

-----------------------------------------------------------------------------
(* Properties *)

\* The deque is only touched by one thread at a time, and that thread holds
\* the mutex (the comment on m_lock, message_queue.h:30).
OneThreadInDeque ==
  \A t \in At("push") \cup At("pop") : m_lock = t

\* front() and pop_front() are never applied to an empty deque, which would be
\* undefined behaviour: an item counted by m_items and taken by a dequeue is
\* still there when that dequeue reaches the deque, whoever ran in between.
NeverPopsEmpty == At("pop") # {} => m_messages # <<>>

\* The deque never holds more than QUEUE_MAX messages, although the slot is
\* taken before the push and given back after the pop, outside the mutex.
CapacityRespected == Len(m_messages) <= QUEUE_MAX

\* Threads that hold a slot which the deque does not use: taken for a message
\* not pushed yet, or of a message popped already.
SlotHolders == {t \in Threads : pc[t] \in {"lock_push", "push", "post_avail"}}

\* Threads that account for a message of the deque which m_items does not
\* count: it was just pushed, or is about to be popped.
ItemHolders == {t \in Threads : pc[t] \in {"post_items", "lock_pop", "pop"}}

\* No slot and no item is ever lost or made up: the two semaphores, the deque
\* and the threads between a semaphore and the deque always balance.
Balanced ==
  /\ m_avail + Len(m_messages) + Cardinality(SlotHolders) = QUEUE_MAX
  /\ m_items + Cardinality(ItemHolders) = Len(m_messages)

\* Seen through its calls the queue is a bounded FIFO.
PhaseOf == [s \in Steps |->
  CASE s = "idle"                                -> "idle"
    [] s \in {"wait_avail", "lock_push", "push"} -> "enqueueing"
    [] s = "post_items"                          -> "enqueued"
    [] s \in {"wait_items", "lock_pop", "pop"}   -> "dequeueing"
    [] s = "blocked"                             -> "waiting"
    [] s = "post_avail"                          -> "dequeued"]

AbstractPhase == [t \in Threads |-> PhaseOf[pc[t]]]

Fifo == INSTANCE BoundedFifo WITH
  Capacity <- QUEUE_MAX, fifo <- m_messages, phase <- AbstractPhase, hand <- msg

\* MessageQueue implements BoundedFifo: messages come out in the order they
\* went in, none is lost or duplicated, the capacity holds, and a dequeue
\* returns nullptr only if it found nothing that was not spoken for.
ImplementsFifo == Fifo!Spec

\* A message that was pushed is eventually handed to a thread that dequeues,
\* however long the queue in front of it.
EveryMessageTaken ==
  \A m \in Messages :
    (\E i \in DOMAIN m_messages : m_messages[i] = m)
      ~> (\E c \in Consumers : pc[c] = "post_avail" /\ msg[c] = m)

\* A full queue does not stay full: an enqueue that waits for a slot always
\* gets to see one.
FullQueueDrains == (m_avail = 0) ~> (m_avail > 0)
=============================================================================
