------------------------- MODULE MessageQueueProofs -------------------------
(***************************************************************************)
(* The safety of the message queue for every number of threads, every set  *)
(* of messages and every capacity.  The inductive invariant is             *)
(*                                                                         *)
(*   IInv == TypeOK /\ LockHeld /\ Balanced                                *)
(*                                                                         *)
(* LockHeld ties the mutex to the program counters; Balanced counts slots  *)
(* and items.  What a reader cares about follows from the two: only one    *)
(* thread is in the deque, the deque is never popped when empty and never  *)
(* overfull, and the queue implements BoundedFifo.                         *)
(***************************************************************************)
EXTENDS MessageQueue, FiniteSetTheorems, TLAPS

\* The mutex is held by exactly the thread that is between lock and unlock.
LockHeld == \A t \in Threads : pc[t] \in {"push", "pop"} <=> m_lock = t

IInv == TypeOK /\ LockHeld /\ Balanced

-----------------------------------------------------------------------------
(* Counting the holders of slots and items *)

\* There are finitely many threads, so finitely many holders.
LEMMA HoldersFinite ==
  /\ IsFiniteSet(Threads)
  /\ IsFiniteSet(SlotHolders) /\ Cardinality(SlotHolders) \in Nat
  /\ IsFiniteSet(ItemHolders) /\ Cardinality(ItemHolders) \in Nat
<1>1. IsFiniteSet(Threads)
  BY QueueAssumption, FS_Union DEF Threads
<1>2. SlotHolders \in SUBSET Threads /\ ItemHolders \in SUBSET Threads
  BY DEF SlotHolders, ItemHolders
<1>3. IsFiniteSet(SlotHolders) /\ IsFiniteSet(ItemHolders)
  BY <1>1, <1>2, FS_Subset
<1> QED
  BY <1>1, <1>3, FS_CardinalityType

\* The slot that an enqueue has taken is free when it gets to the deque.
LEMMA PushFindsRoom ==
  ASSUME TypeOK, Balanced, NEW t \in Threads, pc[t] = "push"
  PROVE  Len(m_messages) < QUEUE_MAX
<1>1. SlotHolders # {}
  BY DEF SlotHolders
<1>2. Cardinality(SlotHolders) \in Nat \ {0}
  BY <1>1, HoldersFinite, FS_EmptySet
<1>3. m_avail \in Nat /\ Len(m_messages) \in Nat
  BY DEF TypeOK
<1> QED
  BY <1>2, <1>3 DEF Balanced

\* An item that a dequeue has taken is in the deque when it gets there.
LEMMA PopFindsMessage ==
  ASSUME TypeOK, Balanced, NEW t \in Threads, pc[t] = "pop"
  PROVE  m_messages # <<>>
<1>1. ItemHolders # {}
  BY DEF ItemHolders
<1>2. Cardinality(ItemHolders) \in Nat \ {0}
  BY <1>1, HoldersFinite, FS_EmptySet
<1>3. m_items \in Nat
  BY DEF TypeOK
<1>4. Len(m_messages) # 0
  BY <1>2, <1>3 DEF Balanced
<1> QED
  BY <1>4

-----------------------------------------------------------------------------
(* Type correctness *)

\* Every step keeps the types; the decrements of the semaphores keep them
\* natural numbers because of their guards, and the pop finds an element
\* because of Balanced.
LEMMA TypeStep == IInv /\ [Next]_vars => TypeOK'
<1> SUFFICES ASSUME IInv, [Next]_vars PROVE TypeOK'
  OBVIOUS
<1> USE DEF IInv, TypeOK, Goto, Steps, EnqueueSteps, DequeueSteps, Threads
<1>1. ASSUME NEW p \in Producers, NEW m \in Messages, Enqueue(p, m)
      PROVE  TypeOK'
  BY <1>1, QueueAssumption DEF Enqueue
<1>2. ASSUME NEW p \in Producers, WaitAvail(p) PROVE TypeOK'
  BY <1>2, QueueAssumption DEF WaitAvail
<1>3. ASSUME NEW p \in Producers, LockPush(p) PROVE TypeOK'
  BY <1>3, QueueAssumption DEF LockPush
<1>4. ASSUME NEW p \in Producers, Push(p) PROVE TypeOK'
  BY <1>4, QueueAssumption DEF Push
<1>5. ASSUME NEW p \in Producers, PostItems(p) PROVE TypeOK'
  BY <1>5, QueueAssumption DEF PostItems
<1>6. ASSUME NEW c \in Consumers, Dequeue(c) PROVE TypeOK'
  BY <1>6, QueueAssumption DEF Dequeue
<1>7. ASSUME NEW c \in Consumers, WaitItems(c) PROVE TypeOK'
  BY <1>7, QueueAssumption DEF WaitItems
<1>8. ASSUME NEW c \in Consumers, Block(c) PROVE TypeOK'
  BY <1>8, QueueAssumption DEF Block
<1>9. ASSUME NEW c \in Consumers, Expire(c) PROVE TypeOK'
  BY <1>9, QueueAssumption DEF Expire
<1>10. ASSUME NEW c \in Consumers, LockPop(c) PROVE TypeOK'
  BY <1>10, QueueAssumption DEF LockPop
<1>11. ASSUME NEW c \in Consumers, Pop(c) PROVE TypeOK'
  <2>1. m_messages # <<>>
    BY <1>11, PopFindsMessage DEF Pop, At
  <2>2. Head(m_messages) \in Messages /\ Tail(m_messages) \in Seq(Messages)
    BY <2>1
  <2> QED
    BY <1>11, <2>2, QueueAssumption DEF Pop
<1>12. ASSUME NEW c \in Consumers, PostAvail(c) PROVE TypeOK'
  BY <1>12, QueueAssumption DEF PostAvail
<1>13. CASE UNCHANGED vars
  BY <1>13 DEF vars
<1> QED
  BY <1>1, <1>2, <1>3, <1>4, <1>5, <1>6, <1>7, <1>8, <1>9, <1>10, <1>11, <1>12, <1>13
     DEF Next, EnqueueStep, DequeueStep

-----------------------------------------------------------------------------
(* The mutex *)

\* A thread enters the deque by taking the free mutex, and frees the mutex
\* when it leaves; nobody else's step touches the mutex.
LEMMA LockStep == IInv /\ [Next]_vars => LockHeld'
<1> SUFFICES ASSUME IInv, [Next]_vars PROVE LockHeld'
  OBVIOUS
<1> USE DEF IInv, LockHeld, TypeOK, Goto, Threads
<1>1. ASSUME NEW p \in Producers, NEW m \in Messages, Enqueue(p, m)
      PROVE  LockHeld'
  BY <1>1 DEF Enqueue
<1>2. ASSUME NEW p \in Producers, WaitAvail(p) PROVE LockHeld'
  BY <1>2 DEF WaitAvail
<1>3. ASSUME NEW p \in Producers, LockPush(p) PROVE LockHeld'
  BY <1>3, QueueAssumption DEF LockPush
<1>4. ASSUME NEW p \in Producers, Push(p) PROVE LockHeld'
  BY <1>4, QueueAssumption DEF Push
<1>5. ASSUME NEW p \in Producers, PostItems(p) PROVE LockHeld'
  BY <1>5 DEF PostItems
<1>6. ASSUME NEW c \in Consumers, Dequeue(c) PROVE LockHeld'
  BY <1>6 DEF Dequeue
<1>7. ASSUME NEW c \in Consumers, WaitItems(c) PROVE LockHeld'
  BY <1>7 DEF WaitItems
<1>8. ASSUME NEW c \in Consumers, Block(c) PROVE LockHeld'
  BY <1>8 DEF Block
<1>9. ASSUME NEW c \in Consumers, Expire(c) PROVE LockHeld'
  BY <1>9 DEF Expire
<1>10. ASSUME NEW c \in Consumers, LockPop(c) PROVE LockHeld'
  BY <1>10, QueueAssumption DEF LockPop
<1>11. ASSUME NEW c \in Consumers, Pop(c) PROVE LockHeld'
  BY <1>11, QueueAssumption DEF Pop
<1>12. ASSUME NEW c \in Consumers, PostAvail(c) PROVE LockHeld'
  BY <1>12 DEF PostAvail
<1>13. CASE UNCHANGED vars
  BY <1>13 DEF vars
<1> QED
  BY <1>1, <1>2, <1>3, <1>4, <1>5, <1>6, <1>7, <1>8, <1>9, <1>10, <1>11, <1>12, <1>13
     DEF Next, EnqueueStep, DequeueStep

-----------------------------------------------------------------------------
(* The balance of slots and items *)

\* A step that moves one thread from a to b changes the balance by what it
\* does to the semaphores and the deque, and nothing else.
LEMMA BalanceStep == IInv /\ [Next]_vars => Balanced'
<1> SUFFICES ASSUME IInv, [Next]_vars PROVE Balanced'
  OBVIOUS
<1> USE DEF Goto
<1>t. /\ pc \in [Threads -> Steps] /\ m_messages \in Seq(Messages)
      /\ \A p \in Producers : pc[p] \in EnqueueSteps => msg[p] \in Messages
  BY DEF IInv, TypeOK
<1>n. /\ m_avail \in Nat /\ m_items \in Nat /\ QUEUE_MAX \in Nat
      /\ Len(m_messages) \in Nat
      /\ Cardinality(SlotHolders) \in Nat /\ Cardinality(ItemHolders) \in Nat
  BY <1>t, QueueAssumption, HoldersFinite DEF IInv, TypeOK
<1>b. /\ m_avail + Len(m_messages) + Cardinality(SlotHolders) = QUEUE_MAX
      /\ m_items + Cardinality(ItemHolders) = Len(m_messages)
  BY DEF IInv, Balanced
<1>1. ASSUME NEW p \in Producers, NEW m \in Messages, Enqueue(p, m)
      PROVE  Balanced'
  <2>1. SlotHolders' = SlotHolders
    BY <1>1, <1>t DEF Enqueue, SlotHolders, Threads
  <2>2. ItemHolders' = ItemHolders
    BY <1>1, <1>t DEF Enqueue, ItemHolders, Threads
  <2> QED
    BY <1>1, <1>n, <1>b, <2>1, <2>2 DEF Enqueue, Balanced
<1>2. ASSUME NEW p \in Producers, WaitAvail(p) PROVE Balanced'
  <2>1. p \notin SlotHolders /\ SlotHolders' = SlotHolders \cup {p}
    BY <1>2, <1>t DEF WaitAvail, SlotHolders, Threads
  <2>2. ItemHolders' = ItemHolders
    BY <1>2, <1>t DEF WaitAvail, ItemHolders, Threads
  <2>3. Cardinality(SlotHolders') = Cardinality(SlotHolders) + 1
    BY <2>1, HoldersFinite, FS_AddElement
  <2> QED
    BY <1>2, <1>n, <1>b, <2>2, <2>3 DEF WaitAvail, Balanced
<1>3. ASSUME NEW p \in Producers, LockPush(p) PROVE Balanced'
  <2>1. SlotHolders' = SlotHolders
    BY <1>3, <1>t DEF LockPush, SlotHolders, Threads
  <2>2. ItemHolders' = ItemHolders
    BY <1>3, <1>t DEF LockPush, ItemHolders, Threads
  <2> QED
    BY <1>3, <1>n, <1>b, <2>1, <2>2 DEF LockPush, Balanced
<1>4. ASSUME NEW p \in Producers, Push(p) PROVE Balanced'
  <2>1. p \in SlotHolders /\ SlotHolders' = SlotHolders \ {p}
    BY <1>4, <1>t DEF Push, SlotHolders, Threads
  <2>2. p \notin ItemHolders /\ ItemHolders' = ItemHolders \cup {p}
    BY <1>4, <1>t DEF Push, ItemHolders, Threads
  <2>3. Cardinality(SlotHolders') = Cardinality(SlotHolders) - 1
    BY <2>1, HoldersFinite, FS_RemoveElement
  <2>4. Cardinality(ItemHolders') = Cardinality(ItemHolders) + 1
    BY <2>2, HoldersFinite, FS_AddElement
  <2>5. Len(m_messages') = Len(m_messages) + 1
    BY <1>4, <1>t DEF Push, EnqueueSteps
  <2>6. m_avail' = m_avail /\ m_items' = m_items
    BY <1>4 DEF Push
  <2> QED
    BY <1>n, <1>b, <2>3, <2>4, <2>5, <2>6 DEF Balanced
<1>5. ASSUME NEW p \in Producers, PostItems(p) PROVE Balanced'
  <2>1. SlotHolders' = SlotHolders
    BY <1>5, <1>t DEF PostItems, SlotHolders, Threads
  <2>2. p \in ItemHolders /\ ItemHolders' = ItemHolders \ {p}
    BY <1>5, <1>t DEF PostItems, ItemHolders, Threads
  <2>3. Cardinality(ItemHolders') = Cardinality(ItemHolders) - 1
    BY <2>2, HoldersFinite, FS_RemoveElement
  <2> QED
    BY <1>5, <1>n, <1>b, <2>1, <2>3 DEF PostItems, Balanced
<1>6. ASSUME NEW c \in Consumers, Dequeue(c) PROVE Balanced'
  <2>1. SlotHolders' = SlotHolders
    BY <1>6, <1>t DEF Dequeue, SlotHolders, Threads
  <2>2. ItemHolders' = ItemHolders
    BY <1>6, <1>t DEF Dequeue, ItemHolders, Threads
  <2> QED
    BY <1>6, <1>n, <1>b, <2>1, <2>2 DEF Dequeue, Balanced
<1>7. ASSUME NEW c \in Consumers, WaitItems(c) PROVE Balanced'
  <2>1. SlotHolders' = SlotHolders
    BY <1>7, <1>t DEF WaitItems, SlotHolders, Threads
  <2>2. c \notin ItemHolders /\ ItemHolders' = ItemHolders \cup {c}
    BY <1>7, <1>t DEF WaitItems, ItemHolders, Threads
  <2>3. Cardinality(ItemHolders') = Cardinality(ItemHolders) + 1
    BY <2>2, HoldersFinite, FS_AddElement
  <2> QED
    BY <1>7, <1>n, <1>b, <2>1, <2>3 DEF WaitItems, Balanced
<1>8. ASSUME NEW c \in Consumers, Block(c) PROVE Balanced'
  <2>1. SlotHolders' = SlotHolders
    BY <1>8, <1>t DEF Block, SlotHolders, Threads
  <2>2. ItemHolders' = ItemHolders
    BY <1>8, <1>t DEF Block, ItemHolders, Threads
  <2> QED
    BY <1>8, <1>n, <1>b, <2>1, <2>2 DEF Block, Balanced
<1>9. ASSUME NEW c \in Consumers, Expire(c) PROVE Balanced'
  <2>1. SlotHolders' = SlotHolders
    BY <1>9, <1>t DEF Expire, SlotHolders, Threads
  <2>2. ItemHolders' = ItemHolders
    BY <1>9, <1>t DEF Expire, ItemHolders, Threads
  <2> QED
    BY <1>9, <1>n, <1>b, <2>1, <2>2 DEF Expire, Balanced
<1>10. ASSUME NEW c \in Consumers, LockPop(c) PROVE Balanced'
  <2>1. SlotHolders' = SlotHolders
    BY <1>10, <1>t DEF LockPop, SlotHolders, Threads
  <2>2. ItemHolders' = ItemHolders
    BY <1>10, <1>t DEF LockPop, ItemHolders, Threads
  <2> QED
    BY <1>10, <1>n, <1>b, <2>1, <2>2 DEF LockPop, Balanced
<1>11. ASSUME NEW c \in Consumers, Pop(c) PROVE Balanced'
  <2>1. c \notin SlotHolders /\ SlotHolders' = SlotHolders \cup {c}
    BY <1>11, <1>t DEF Pop, SlotHolders, Threads
  <2>2. c \in ItemHolders /\ ItemHolders' = ItemHolders \ {c}
    BY <1>11, <1>t DEF Pop, ItemHolders, Threads
  <2>3. Cardinality(SlotHolders') = Cardinality(SlotHolders) + 1
    BY <2>1, HoldersFinite, FS_AddElement
  <2>4. Cardinality(ItemHolders') = Cardinality(ItemHolders) - 1
    BY <2>2, HoldersFinite, FS_RemoveElement
  <2>5. m_messages # <<>>
    BY <1>11, PopFindsMessage DEF Pop, Threads, IInv
  <2>6. Len(m_messages') = Len(m_messages) - 1
    BY <1>11, <1>t, <2>5 DEF Pop
  <2>7. m_avail' = m_avail /\ m_items' = m_items
    BY <1>11 DEF Pop
  <2> QED
    BY <1>n, <1>b, <2>3, <2>4, <2>6, <2>7 DEF Balanced
<1>12. ASSUME NEW c \in Consumers, PostAvail(c) PROVE Balanced'
  <2>1. c \in SlotHolders /\ SlotHolders' = SlotHolders \ {c}
    BY <1>12, <1>t DEF PostAvail, SlotHolders, Threads
  <2>2. ItemHolders' = ItemHolders
    BY <1>12, <1>t DEF PostAvail, ItemHolders, Threads
  <2>3. Cardinality(SlotHolders') = Cardinality(SlotHolders) - 1
    BY <2>1, HoldersFinite, FS_RemoveElement
  <2> QED
    BY <1>12, <1>n, <1>b, <2>2, <2>3 DEF PostAvail, Balanced
<1>13. CASE UNCHANGED vars
  BY <1>13, <1>b DEF vars, Balanced, SlotHolders, ItemHolders
<1> QED
  BY <1>1, <1>2, <1>3, <1>4, <1>5, <1>6, <1>7, <1>8, <1>9, <1>10, <1>11, <1>12, <1>13
     DEF Next, EnqueueStep, DequeueStep

-----------------------------------------------------------------------------
(* The theorems *)

\* Init satisfies the inductive invariant.
LEMMA InitIInv == Init => IInv
<1> SUFFICES ASSUME Init PROVE IInv
  OBVIOUS
<1>1. TypeOK
  BY QueueAssumption DEF Init, TypeOK, Threads, Steps, EnqueueSteps, DequeueSteps
<1>2. LockHeld
  BY QueueAssumption DEF Init, LockHeld
<1>3. Balanced
  <2>1. SlotHolders = {} /\ ItemHolders = {}
    BY DEF Init, SlotHolders, ItemHolders
  <2>2. Cardinality(SlotHolders) = 0 /\ Cardinality(ItemHolders) = 0
    BY <2>1, FS_EmptySet
  <2> QED
    BY <2>2, QueueAssumption DEF Init, Balanced
<1> QED
  BY <1>1, <1>2, <1>3 DEF IInv

\* The inductive invariant holds in every reachable state.
THEOREM Invariance == Spec => []IInv
<1>1. IInv /\ [Next]_vars => IInv'
  BY TypeStep, LockStep, BalanceStep DEF IInv
<1> QED
  BY InitIInv, <1>1, PTL DEF Spec

\* Every variable of the queue keeps its type.
THEOREM TypeCorrect == Spec => []TypeOK
<1>1. IInv => TypeOK
  BY DEF IInv
<1> QED
  BY Invariance, <1>1, PTL

\* Slots and items always balance: none is lost or made up, whatever the
\* threads do between the semaphores and the deque.
THEOREM AlwaysBalanced == Spec => []Balanced
<1>1. IInv => Balanced
  BY DEF IInv
<1> QED
  BY Invariance, <1>1, PTL

\* Two threads are never in the deque at the same time.
THEOREM MutualExclusion == Spec => []OneThreadInDeque
<1>1. IInv => OneThreadInDeque
  BY DEF IInv, LockHeld, OneThreadInDeque, At
<1> QED
  BY Invariance, <1>1, PTL

\* dequeue never applies front and pop_front to an empty deque.
THEOREM NoPopOfEmpty == Spec => []NeverPopsEmpty
<1>1. IInv => NeverPopsEmpty
  BY PopFindsMessage DEF IInv, NeverPopsEmpty, At
<1> QED
  BY Invariance, <1>1, PTL

\* The deque never holds more than QUEUE_MAX messages.
THEOREM CapacityIsRespected == Spec => []CapacityRespected
<1>1. IInv => CapacityRespected
  <2> SUFFICES ASSUME IInv PROVE Len(m_messages) <= QUEUE_MAX
    BY DEF CapacityRespected
  <2>1. /\ m_avail \in Nat /\ Len(m_messages) \in Nat /\ QUEUE_MAX \in Nat
        /\ Cardinality(SlotHolders) \in Nat
    BY QueueAssumption, HoldersFinite DEF IInv, TypeOK
  <2> QED
    BY <2>1 DEF IInv, Balanced
<1> QED
  BY Invariance, <1>1, PTL

-----------------------------------------------------------------------------
(* Refinement: the queue implements BoundedFifo *)

\* The abstract phase of each step.
LEMMA PhaseValues ==
  /\ PhaseOf["idle"] = "idle"
  /\ PhaseOf["wait_avail"] = "enqueueing"
  /\ PhaseOf["lock_push"] = "enqueueing"
  /\ PhaseOf["push"] = "enqueueing"
  /\ PhaseOf["post_items"] = "enqueued"
  /\ PhaseOf["wait_items"] = "dequeueing"
  /\ PhaseOf["blocked"] = "waiting"
  /\ PhaseOf["lock_pop"] = "dequeueing"
  /\ PhaseOf["pop"] = "dequeueing"
  /\ PhaseOf["post_avail"] = "dequeued"
BY DEF PhaseOf, Steps, EnqueueSteps, DequeueSteps

\* A step of one thread changes the abstract phase of that thread alone.
LEMMA PhaseMove ==
  ASSUME TypeOK, NEW t \in Threads, NEW s \in Steps, Goto(t, s)
  PROVE  /\ AbstractPhase[t] = PhaseOf[pc[t]]
         /\ AbstractPhase' = [AbstractPhase EXCEPT ![t] = PhaseOf[s]]
BY DEF TypeOK, Goto, AbstractPhase

\* A step within one abstract phase does not change the abstract phases.
LEMMA PhaseStays ==
  ASSUME TypeOK, NEW t \in Threads, NEW s \in Steps, Goto(t, s),
         PhaseOf[s] = PhaseOf[pc[t]]
  PROVE  AbstractPhase' = AbstractPhase
<1>1. AbstractPhase' = [AbstractPhase EXCEPT ![t] = AbstractPhase[t]]
  BY PhaseMove
<1> QED
  BY <1>1 DEF AbstractPhase

\* When a dequeue finds m_items at zero, every message of the deque is spoken
\* for: it was pushed by an enqueue that has not returned yet, or another
\* dequeue has taken the item.
LEMMA NothingUnspoken ==
  ASSUME TypeOK, Balanced, NEW c \in Threads, pc[c] = "wait_items", m_items = 0
  PROVE  Len(m_messages) <= Cardinality(Fifo!InPhase("enqueued"))
                             + Cardinality(Fifo!InPhase("dequeueing") \ {c})
<1> DEFINE E == Fifo!InPhase("enqueued")
           D == Fifo!InPhase("dequeueing") \ {c}
<1>1. \A t \in Threads : pc[t] \in Steps /\ AbstractPhase[t] = PhaseOf[pc[t]]
  BY DEF TypeOK, AbstractPhase
<1>2. ItemHolders \subseteq E \cup D
  <2> SUFFICES ASSUME NEW t \in ItemHolders PROVE t \in E \cup D
    OBVIOUS
  <2>1. t \in Threads /\ t # c
    BY DEF ItemHolders
  <2>2. pc[t] \in {"post_items", "lock_pop", "pop"}
    BY DEF ItemHolders
  <2>3. AbstractPhase[t] \in {"enqueued", "dequeueing"}
    BY <1>1, <2>1, <2>2, PhaseValues
  <2> QED
    BY <2>1, <2>3 DEF Fifo!InPhase
<1>3. IsFiniteSet(E) /\ IsFiniteSet(D)
  <2>1. E \in SUBSET Threads /\ D \in SUBSET Threads
    BY DEF Fifo!InPhase
  <2> QED
    BY <2>1, HoldersFinite, FS_Subset
<1>4. E \cap D = {}
  BY DEF Fifo!InPhase
<1> HIDE DEF E, D
<1>5. /\ IsFiniteSet(E \cup D)
      /\ Cardinality(E \cup D) = Cardinality(E) + Cardinality(D)
  <2>1. /\ IsFiniteSet(E \cup D)
        /\ Cardinality(E \cup D) =
             Cardinality(E) + Cardinality(D) - Cardinality(E \cap D)
    BY <1>3, FS_Union
  <2>2. Cardinality(E \cap D) = 0
    BY <1>4, FS_EmptySet
  <2>3. Cardinality(E) \in Nat /\ Cardinality(D) \in Nat
    BY <1>3, FS_CardinalityType
  <2> QED
    BY <2>1, <2>2, <2>3
<1>6. Cardinality(ItemHolders) <= Cardinality(E \cup D)
  BY <1>2, <1>5, FS_Subset
<1>7. Len(m_messages) = Cardinality(ItemHolders)
  BY HoldersFinite DEF Balanced
<1> QED
  BY <1>5, <1>6, <1>7 DEF E, D

\* A step of an enqueue or dequeue is one of BoundedFifo, or leaves the
\* abstract state alone.
LEMMA FifoStep == IInv /\ [Next]_vars => [Fifo!Next]_(Fifo!fifoVars)
<1> SUFFICES ASSUME IInv, [Next]_vars
             PROVE  Fifo!Next \/ UNCHANGED Fifo!fifoVars
  OBVIOUS
<1>t. TypeOK /\ Balanced
  BY DEF IInv
<1>s. /\ Producers \subseteq Threads /\ Consumers \subseteq Threads
      /\ \A s \in {"idle", "wait_avail", "lock_push", "push", "post_items",
                   "wait_items", "blocked", "lock_pop", "pop", "post_avail"} :
           s \in Steps
  BY DEF Threads, Steps, EnqueueSteps, DequeueSteps
<1>1. ASSUME NEW p \in Producers, NEW m \in Messages, Enqueue(p, m)
      PROVE  Fifo!BeginEnqueue(p, m)
  BY <1>1, <1>t, <1>s, PhaseMove, PhaseValues DEF Enqueue, Fifo!BeginEnqueue
<1>2. ASSUME NEW p \in Producers, WaitAvail(p) PROVE UNCHANGED Fifo!fifoVars
  BY <1>2, <1>t, <1>s, PhaseStays, PhaseValues DEF WaitAvail, Fifo!fifoVars
<1>3. ASSUME NEW p \in Producers, LockPush(p) PROVE UNCHANGED Fifo!fifoVars
  BY <1>3, <1>t, <1>s, PhaseStays, PhaseValues DEF LockPush, Fifo!fifoVars
<1>4. ASSUME NEW p \in Producers, Push(p) PROVE Fifo!Put(p)
  <2>1. Len(m_messages) < QUEUE_MAX
    BY <1>4, <1>t, <1>s, PushFindsRoom DEF Push
  <2> QED
    BY <1>4, <2>1, <1>t, <1>s, PhaseMove, PhaseValues DEF Push, Fifo!Put
<1>5. ASSUME NEW p \in Producers, PostItems(p) PROVE Fifo!Return(p)
  BY <1>5, <1>t, <1>s, PhaseMove, PhaseValues DEF PostItems, Fifo!Return
<1>6. ASSUME NEW c \in Consumers, Dequeue(c) PROVE Fifo!BeginDequeue(c)
  BY <1>6, <1>t, <1>s, PhaseMove, PhaseValues DEF Dequeue, Fifo!BeginDequeue
<1>7. ASSUME NEW c \in Consumers, WaitItems(c)
      PROVE  Fifo!Resume(c) \/ UNCHANGED Fifo!fifoVars
  <2>1. CASE pc[c] = "wait_items"
    BY <1>7, <2>1, <1>t, <1>s, PhaseStays, PhaseValues DEF WaitItems, Fifo!fifoVars
  <2>2. CASE pc[c] = "blocked"
    BY <1>7, <2>2, <1>t, <1>s, PhaseMove, PhaseValues DEF WaitItems, Fifo!Resume
  <2> QED
    BY <1>7, <2>1, <2>2 DEF WaitItems
<1>8. ASSUME NEW c \in Consumers, Block(c) PROVE Fifo!FindNothing(c)
  <2>1. Len(m_messages) <= Cardinality(Fifo!InPhase("enqueued"))
                            + Cardinality(Fifo!InPhase("dequeueing") \ {c})
    BY <1>8, <1>t, <1>s, NothingUnspoken DEF Block
  <2>2. /\ AbstractPhase[c] = "dequeueing"
        /\ AbstractPhase' = [AbstractPhase EXCEPT ![c] = "waiting"]
    BY <1>8, <1>t, <1>s, PhaseMove, PhaseValues DEF Block
  <2>3. UNCHANGED <<m_messages, msg>>
    BY <1>8 DEF Block
  <2> QED
    BY <2>1, <2>2, <2>3, Zenon DEF Fifo!FindNothing, Fifo!Cardinality, Cardinality
<1>9. ASSUME NEW c \in Consumers, Expire(c) PROVE Fifo!GiveUp(c)
  BY <1>9, <1>t, <1>s, PhaseMove, PhaseValues DEF Expire, Fifo!GiveUp
<1>10. ASSUME NEW c \in Consumers, LockPop(c) PROVE UNCHANGED Fifo!fifoVars
  BY <1>10, <1>t, <1>s, PhaseStays, PhaseValues DEF LockPop, Fifo!fifoVars
<1>11. ASSUME NEW c \in Consumers, Pop(c) PROVE Fifo!Take(c)
  <2>1. m_messages # <<>>
    BY <1>11, <1>t, <1>s, PopFindsMessage DEF Pop
  <2>2. /\ AbstractPhase[c] = "dequeueing"
        /\ AbstractPhase' = [AbstractPhase EXCEPT ![c] = "dequeued"]
    BY <1>11, <1>t, <1>s, PhaseMove, PhaseValues DEF Pop
  <2> QED
    BY <1>11, <2>1, <2>2 DEF Pop, Fifo!Take
<1>12. ASSUME NEW c \in Consumers, PostAvail(c) PROVE Fifo!Return(c)
  BY <1>12, <1>t, <1>s, PhaseMove, PhaseValues DEF PostAvail, Fifo!Return
<1>13. CASE UNCHANGED vars
  BY <1>13 DEF vars, Fifo!fifoVars, AbstractPhase
<1> QED
  BY <1>1, <1>2, <1>3, <1>4, <1>5, <1>6, <1>7, <1>8, <1>9, <1>10, <1>11, <1>12,
     <1>13, <1>s
     DEF Next, EnqueueStep, DequeueStep, Fifo!Next

\* Seen through its calls the queue is a bounded FIFO: messages come out once
\* and in the order they went in, and a dequeue returns nullptr only if it
\* found nothing that was not spoken for.
THEOREM QueueRefinesFifo == Spec => ImplementsFifo
<1>1. Init => Fifo!Init
  BY PhaseValues DEF Init, Fifo!Init, AbstractPhase
<1> QED
  BY <1>1, FifoStep, Invariance, PTL DEF Spec, ImplementsFifo, Fifo!Spec
=============================================================================
