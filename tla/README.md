# TLA+ models of csf-partner

This directory holds TLA+ specifications of the programs of this repository,
TLC configurations that check them on small instances, and TLAPS proofs of what
matters most for every instance. Every definition is translated from the code;
`PROJECT.json` maps each one to its lines.

The repository has five independent programs. The chat server
(`csf_assign05`) is the one with threads, shared state and clients that come
and go, and is modelled first and in most depth. The parallel merge sort
(`csf_assign04`) has processes, shared memory and failures. The cache simulator
(`csf_assign03`) and the word count (`csf_assign02`) are sequential, but a long
input may reach states no test does. The 256-bit integers (`csf_assign01`) are
pure functions.

## Inventory

| Part | State | Operations | What is hard |
|---|---|---|---|
| Message queue (`message_queue.cpp`, `guard.h`) | mutex, two semaphores, deque | `enqueue`, `dequeue` | slots and items counted outside the mutex; waits that time out while a message arrives; blocking when full |
| Server (`server.cpp`) | map of rooms (no lock taken), one thread per client | login, `find_or_create_room`, the loops of `chat_with_sender` and `chat_with_receiver` | inserts that race; a receiver that is gone but stays a member; fatal errors of one client that end the whole process |
| Room (`room.cpp`) | set of `User*`, mutex | `add_member` (locked), `broadcast_message` (not locked), `remove_member` (never reached) | a walk over the set that races with an insert; blocking in the middle of a walk |
| Connection, message, clients (`connection.cpp`, `message.h`, `sender.cpp`, `receiver.cpp`, `client_util.cpp`) | socket with a read buffer, `in_room` of the sender | `send`, `server_send`, `receive`, commands | lines longer than the limit, -1 in a `size_t`, agreement of client and server |
| Robust I/O (`csapp.c`) | read buffer | `rio_writen`, `rio_read`, `rio_readnb`, `rio_readlineb` | short reads and writes, interrupted calls, one buffer for two functions |
| Merge sort (`parsort.c`) | shared array, tree of processes, temporary arrays | fork, sort, wait, merge, copy back | ranges of different processes; children that fail; orphans |
| Cache simulator (`cache_funcs.cpp`, `main.cpp`) | slots with two timestamps, clock, counters | load, store | two policies from timestamps; a loop that stops at the first invalid slot; dirty bits and what they cost |
| 256-bit integers (`uint256.c`) | none | add, sub, negate, rotate, hex | carries between words, shifts by 0 and 32, strings of full length |
| Word count (`c_wcfuncs.c`, `c_wcmain.c`; the same in assembly) | chains of a hash table; in assembly the registers and the stack | read, lower, trim, find or insert, best word, free | end of input, words of full length; in assembly what belongs to the caller |

How they interact: a worker thread of the server serves one client through a
`Connection`, which sends and receives lines by way of the Robust I/O package.
The worker of a sender finds the `Room` in the map of the server
and, for a broadcast, walks over the set of `User*` of the room and enqueues
one `Message*` in the queue of each. The worker of a receiver puts its `User`
(on its own stack) into the set, and then dequeues and writes to its socket for
ever. The other programs do not interact with each other.

## Modules

| Module | Models | Checked by |
|---|---|---|
| `BoundedFifo` | what the queue promises: an atomic bounded FIFO | refined by `MessageQueue` |
| `MessageQueue` | `message_queue.cpp`, one step per semaphore or mutex call | run `queue`; proofs in `MessageQueueProofs` |
| `ChatServer` | `server.cpp` and `room.cpp`, with the queues of `BoundedFifo` | runs `chat_rooms`, `chat_walk`, `chat_live`; proofs in `ChatServerProofs` |
| `LineStream` | what Robust I/O promises: a stream of bytes cut into lines | refined by `RioStream` |
| `RioStream` | `rio_writen`, `rio_read`, `rio_readnb`, `rio_readlineb` of `csapp.c`, one step per system call | run `rio`; proofs in `RioStreamProofs` |
| `ChatSession` | the two clients, `connection.cpp` and the workers, line by line | runs `session`, `session_framing`; proofs in `ChatSessionProofs` |
| `ParSort` | `parsort.c` | runs `parsort`, `parsort_child`; proofs in `ParSortProofs` |
| `ReplacementOrder` | what LRU and FIFO promise, without timestamps | refined by `CacheSim` |
| `CacheSim` | `cache_funcs.cpp` and the loop of `main.cpp` | run `cache`; proofs in `SequentialProofs` |
| `UInt256` | `uint256.c`, with words of any width | run `uint256`; proofs in `SequentialProofs` |
| `WordCount` | `c_wcfuncs.c` and the loops of `c_wcmain.c` | refined by `AsmWordCount`; proofs in `WordCountProofs` |
| `AsmWordCount` | `asm_wcfuncs.S` under `c_wcmain.c`, with registers and stack | run `asm_words`; proofs in `AsmWordCountProofs` |
| `MC...` | instances for TLC | |

Definitions with a comment that starts with `MUTANT` are broken forms of the
definition after them. No specification uses them: each stands for a bug that
one of the properties is there to find, and TLC finds it.

### MessageQueue

`pc[t]` is where thread t is in its call. `enqueue` is
`Enqueue; WaitAvail; LockPush; Push; PostItems`, one action for each line that
other threads can see; `dequeue` is `Dequeue; WaitItems; LockPop; Pop;
PostAvail`, or `Block; Expire` when `sem_timedwait` gives up. The guard's
destructor is part of `Push` and `Pop`. Time is abstracted: a thread that has
blocked may give up at any moment, and one that finds the semaphore positive
when it calls never does. `msg` is the argument or the local variable.

The abstract queue `BoundedFifo` makes each call one atomic step. Its dequeue
may come back with nothing only if every queued message was spoken for at some
moment of the call: by an enqueue that had not returned or by another dequeue.
`ImplementsFifo` says that `MessageQueue` implements it, with
`fifo <- m_messages` and the phases of the calls computed from `pc`.

Fairness: a thread inside a call keeps running, and a dequeuing thread calls
again and again (`while (connection->is_open())`, which never becomes false).
Nothing makes anybody enqueue. Weak fairness of each thread is enough for
`EveryMessageTaken` and `FullQueueDrains`; that a particular sender is not
overtaken for ever at a semaphore would need a promise about the order in which
`sem_wait` wakes threads, and is not claimed.

### ChatServer

One worker per client; `pc[w]` follows `worker`, `chat_with_sender` or
`chat_with_receiver`. `m_rooms` is the map (0 for no entry), `rooms` the `Room`
objects in the order of creation, `cur_room` the local of each worker.

* *The map of rooms.* `m_rooms.insert` runs without a lock. `Join` is the
  arrival of the request, and `FindRoom` or `CreateRoom` the moment the insert
  takes effect. Workers between the two when another one links a new entry are
  `raced`: their insert may miss an entry that is there, unlink others, or
  crash the process. That is wider than what a red-black tree does in any one
  build, and `RoomIsUnique`, `AnsweredIsMember` are stated for runs without a
  race (`mapRaced`), `OnlyOwnRoom` and `AnsweredFirst` for all.
* *The walk.* `Advance` is `begin()` or `++`, `Enqueue` the call on the queue
  (which waits while it is full), `Finish` the end. An increment that overlaps
  an insert into a set of two members or more may land on any member or at the
  end; each walk has at most one such increment.
* *The receiver.* `LockRoom`, `AddMember`, `Confirm`, then `Dequeue` and
  `Deliver` for ever. A dequeue that returns nothing changes nothing. `Write`
  blocks while `SockMax` messages are unread and succeeds without effect when
  the client is gone.
* *The clients* log in, join, send, leave, quit, hang up, and read. What
  senders are answered is not recorded. Refused requests change nothing.

The queues are those of `BoundedFifo` with atomic operations, which the
refinement of `MessageQueue` justifies.

Fairness: workers keep running and a client that is there keeps reading (the
loop of `receiver.cpp`); nobody has to send a request. `WF` is enough because
the number of broadcasts is bounded: in the code a sender might in theory wait
for ever at a full queue while others get their turn.

### RioStream

One direction of a connection: a writer in `rio_writen`, the kernel's `pipe`,
and a reader with its `rio_t`, whose fields keep their names (`rio_bufptr` is an
index). `WriteSome` and `Refill` are one `write` or `read` that moves as many
bytes as it likes, `LineStep` and `BytesStep` one call of `rio_read` that finds
bytes in the buffer. A signal leaves `rio_cnt` at -1 (`Interrupted`); a `write`
that is interrupted changes nothing and has no step. The writer may close its
end between two messages, or be gone in the middle of one; then the reader
gets what has arrived and after that an error, once, and end-of-file. A reader
that hung up makes the next `write` fail.

The abstract `LineStream` has no buffers: what was written and not yet taken is
one sequence, and a call for a line takes its first line in one step.
`ImplementsStream` says that the package implements it, with that sequence read
off the caller's buffer, the unread part of `rio_buf`, and the pipe.

Fairness: a reader inside a call keeps running. Nobody has to write.

### ChatSession

One sender and one receiver, each with its connection and its worker. `pc` is
where a client is, `wpc` where its worker is; `req` and `ans` are the lines
under way in the two directions. Every send of a client is a write (`Send`) and
one receive (`Confirm`). A round of a worker is two steps: it receives a request
and carries it out or refuses it (`WorkerLogin`, the `Chat` actions,
`WorkerJoin`), and then it answers (`Reply`); between the two it is at
`"answer"`, with `reply` as what it will write and where it goes then. The two
are apart because the process may end there: `fatal` in the worker of another
client (`server.cpp:48`) may come between `server.cpp:131` and `:133`, or
`:120` and `:123`, or `:184` and `:188`. To receive and to act are one step: a
server that ends between those has not carried anything out, and its client
finds the end of the file, as after a write to a server that has already ended. What
workers do to each other is otherwise the subject of `ChatServer`, so a
broadcast is one step here, and rooms have no races.

A line has a tag, data, and a length, because of the limits: `send` refuses what
is longer than `MAX_LEN`, `server_send` nothing, and `receive` takes at most
`MAX_LEN - 1` characters and leaves the others as the next line (`Remainder`).
Of a line of `MAX_LEN` the newline is left, which is no valid message; of a
longer one a part of its text, which may look like a message (`rest`).
`Received` has the three ways in which `receive` comes back, and a fourth: after
an error, -1 has become a large `size_t`, and a buffer that nothing was read
into is taken for a message. It may hold what an earlier call left on the stack
(`buf`) or anything that is no message.

`cut` and `garbled` are history: a line was too long for `receive`, or an error
was taken for a message. From then on requests and answers may be out of step
(that is what the finding shows), and `InStep`, `RoomsAgree`, `ResultIsTrue`,
`ListensOn` and `SendReturns` are stated for sessions in which neither has
happened (`Sound`). `WorkerEnds` has no such exception. `ResultIsTrue` has
another one, which the code needs: where the server ends at `Reply`
(`Interrupted`), the request was carried out and `send` returns false. The run
reaches such states, with logins, joins and texts, and without the exception
`ResultIsTrue` is violated. `connection.h:40-43` ("indicate whether the most
recent send or receive was successful") does not say which of the two it means
by successful, so this is no disagreement, but a caller should know that false
may stand for a text that the receivers have got. What `ResultIsTrue` says is
that nothing else is untrue: true always means carried out, and false not
carried out for as long as the server runs, for whatever reason `send` fails.

The clients send what the programs send: a receiver has no requests after its
join. A sender may also stop at an empty line (`EmptyLine`), and the clients in
`Unruly` may be killed at any time. `Fatal` is the end of the whole server that
a client causes by leaving before its login, which a sender with an overlong
name does; `OtherFatal` is the same, caused by a client that is not one of the
two, so that the server may end between any two steps.

Fairness: workers keep running and a client that waits in `receive` takes what
comes; nobody has to type anything.

### ParSort

A process is named by the range of the call it was forked for, and `stack` holds
the calls it is in. `CallSmall; Sort` is the sequential case, `Fork`, `Wait`,
`Merge`, `Take` and `Copy` the parallel one. `Merge` is the `malloc` and
the call, `Take` one round of the loop of `merge`, which moves one element to the
temporary array (`idx` is its pointer on the left, `RightIdx` follows from it), and
`Copy` one round of the loop that copies back, so that other processes run, or
are killed, between any two of them. `qsort` is a single step, by its contract:
some sorted sequence of the same elements (`SeqSorted`); that is sound as long as
nobody else is busy in the range (`RangesDisjoint`). `ForkFails` and
`MallocFails` are the `exit(1)` paths, and `Killed` may hit any process at any
time, also in the middle of a `qsort` (`Torn`). `Wait` ignores the status of the
child, as the code does. Deadlock is checked: the program ends by `AllEnded`.

Fairness: some process runs as long as one can. That is enough, because every
step brings the program nearer to its end.

### CacheSim

`Hit`, `Fill` and `Bypass` are the outcomes of `handle_address`: each is the
whole call, with the counters of `main`. `FirstStop` is where the loop returns,
`EvictionSlot` what `choose_eviction` leaves. `options` is chosen in `Init`
among the six combinations that `main` accepts. Masks and shifts are divisions,
since the sizes are powers of two.

The dirty bit is the code's own. `slot_in` clears it also when the access that
missed is a store (`cache_funcs.cpp:129`, called at `:226` and `:240`), so with
write-back the block that a store has brought in is clean until a store hits it,
and if it is evicted before that, nothing is charged for writing it back. The
model does the same, `dirtied` counts store hits only, and `CyclesAccounted`
compares the cycles with the write-backs that this bit asks for: it does not see
the one that is missing. Nothing in the code or its documents contradicts it.

`ReplacementOrder` keeps the blocks of a set in the order in which they will
go. `OrderOf` reads that order off the timestamps (`ByAge`: the r-th slot is the
one with r stamps up to its own), and `ImplementsPolicy` says
that every step of the code is one of the policy, with the same outcome
(`last`).

### UInt256

Each function of `uint256.c` is an operator on functions from the indices of
words to words; `DIGITS` and `HEXBITS` give the width of a word (8 and 4 in the
code, so 32 bits) and `N` their number. `Power` is what a shift multiplies with or
divides by. Loops are closed forms, but for the
carry of `add`, which is found word by word as the code finds it. A caller has a value,
calls a function (`call` records its arguments and result) and goes on with
what it got (`CallerSpec`, so named that one module can hold proofs about it and
about `CacheSim`). The properties compare with arithmetic on the number that a value
stands for (`Num`).

`create_from_hex` is a set of results: a string whose digits fill a whole
number of words, but not all of them, leaves the next word uninitialized
(`Unset`), and that word may hold anything. No string
of the tests has such a length. The write to
`data[8]` for every string of less than 64 digits is left out.

### WordCount

A step is one word read (`Skip`, `CountWord`) or one entry of the search
(`Search`). The loops over characters are closed forms: `Start` is where
`wc_readnext` finds its first byte, `Stored` how many it keeps, `After` where it
stops reading, which is behind the byte that ended the word. A byte 255 is end
of file to it, since `fgetc` is stored in a `char` (signed, as on the machines
this was written for), and a byte 0 ends the string for those who look at it
later. The chains are sequences with their head first. `words` is history.
`HASHCODES` is the number of hash codes: 2^32 in the code, 65536 in the run, as
TLC's integers are too short for the products. `WordsAreRuns` does not follow
`wc_readnext`: it says where runs begin and end in the input (`RunStarts`,
`RunEnd`), and that the word at the place of a run among them (`Rank`) is that
run, lowered and trimmed. The module has no run of its own: for each stream it has a single behaviour, and the
run of `AsmWordCount` goes through every one of them.

### AsmWordCount

`casm_wordcount` of the `Makefile`: `main` in C with the functions in assembly.
`pc` is in `main` or in the loop of a function, and a step is one round of that
loop; `Call...` has the call of a function and its pushes, `Return` the pops and
the `ret`, which goes where the slot on top says, or nowhere if that is no return
address. Registers keep their names. The stack holds the two slots that `main`
has on top (`Frame`; what a compiler puts there is not known), return addresses,
saved registers, and padding. Functions that push nothing are operators, since
they leave the stack as it was. What main does between two calls is one step, and
what the C compiler makes of it is not modelled.

`ImplementsWordCount` says that all of this is `WordCount`, whose closed forms
stand for the loops: the stream is where it was when main asked for the word at
hand (`from`), an entry that has not been counted, which is at the head of its
chain, is not there yet (`Counted`), and the total leaves out a word under way. So `Census`, `WordsAreRuns` and
`BestIsFirstOfMostFrequent`, which `WordCount` states, are checked here through
that mapping, and its operators are checked against loops.

`CallingConvention` has two exceptions, which are slips of the code: `r13`, and
the second slot of the frame of `main` (see below). The program is sequential
and needs no fairness: deadlock is checked, so that it stops at `exit` only.

## Runs

| Run | Instance | What it shows |
|---|---|---|
| `queue` | two enqueuing and two dequeuing threads, two messages, two slots | `NeverPopsEmpty`, `Balanced`, refinement of `BoundedFifo`, `EveryMessageTaken`, `FullQueueDrains`; deadlock checked |
| `chat_rooms` | two senders, one receiver, two rooms, from nothing | `RoomIsUnique`, `AnsweredIsMember`, `OnlyOwnRoom`, `AnsweredFirst` under all interleavings of logins, joins and sends |
| `chat_walk` | one sender, three receivers that join while broadcasts run | `BroadcastReachesAll`: exactly one copy, if no rotating insert overlapped |
| `chat_live` | two senders, one receiver that may hang up, four broadcasts | `SenderOrderKept`, `MembersStay`, `SendallAnswered`, `QueuedIsRead` |
| `rio` | three messages of one to four bytes through a pipe of three bytes and a buffer of two, for lines of at most three | types, refinement of `LineStream`, `LineIsEnough` |
| `session` | a login and up to three requests of a sender, a receiver; names, rooms and texts on both sides of the limits; both clients may be killed, and the server may end, at any time | `InStep`, `RoomsAgree`, `ResultIsTrue`, `ListensOn`, `SendReturns`, `WorkerEnds` |
| `session_framing` | the same with short names, and texts that fit into a message | *violated*: `message.h:31` says that a message may have `MAX_LEN` characters |
| `parsort` | every array of five elements of two values, threshold 1, up to two failures | `RangesDisjoint`, `ExitsSorted`, `NoneLeft`, `EveryProcessEnds` |
| `parsort_child` | three elements, one failure | *violated*: `parsort.c:122` says that the children "completed successfully" |
| `uint256` | four words of two bits: every pair of operands, every rotation, every string of up to nine digits | `SumExact`: sums and differences are exact unless, and only unless, a carry comes into two words of ones that are not the top ones; `NegationExact`, `RotationsExact`, `HexExact` |
| `asm_words` | every stream of up to four bytes of eight kinds, and every one of eight blanks, a's and b's; words of at most two bytes, two chains | refinement of `WordCount`, `Census`, `WordsAreRuns`, `BestIsFirstOfMostFrequent`, `CallingConvention`, `MemoryKept`; deadlock checked |
| `cache` | two sets of two slots, four blocks, every trace of six accesses | `OneCopy`, `CyclesAccounted`, `ImplementsPolicy` |

Why the bounds are enough. *Queue:* two threads of each kind meet at each
semaphore and at the mutex, and two slots tell a full queue from an empty one;
the proofs cover every other size. *Chat:* three receivers are the fewest for
which an insert rotates the tree; two rooms and two senders the fewest for
which a race can mix up rooms; four broadcasts overfill a queue of two plus the
one in hand plus the socket. `Unruly` names the clients that may misbehave, so
that one run shows it and others stay small. The runs about broadcasts start
with the senders in the room (`SendersInRoom`), a state that the first run
reaches. *Streams:* the pipe and the buffer are both shorter than the longest
message, and different; there is a line that fits exactly and one that does
not. *Sessions:* `MCChatSession` has a text that just fits into a message, one that is
longer by one, a text and a room name whose delivery or answer is too long, and
a name that does not fit into a login; a join, a text and a leave need three requests,
and a fourth (the quit) is always possible. *Words:* with two bytes to a word, four
bytes of every kind that the code tells apart have words of every length up to
and above the limit, at the start and at the end; eight bytes of three kinds
have up to four words, of which some may be equal, in either chain. *Sort:*
five elements with threshold 1 give a process with a stack of three calls, a child that forks itself, and ranges of one, two, three and five;
an orphan needs one failure. *Cache:* three blocks compete for two slots; a
dirty block is evicted after four accesses. *256-bit integers:* four words have
a bottom, a top and two between them, so that one lost carry can meet another;
two bits are the fewest for which a word of ones differs from a word of value
one; nine digits are one more than fit. `CHECK_DEADLOCK FALSE` stands in
the runs of the chat server and the sessions (a crash or `fatal` ends it, or
nobody sends any more), of the stream (both ends are done) and of the cache
(the trace is over).

## Disagreements between code and documentation

Each of the first two is a run whose property is violated.

1. A failed child is merged (`parsort.c:100` against `parsort.c:122`, run
   `parsort_child`).
2. A message of exactly `MAX_LEN` characters is cut by `receive`
   (`connection.cpp:145` against `message.h:31`, run `session_framing`).
3. `wc_trim_non_alpha` uses `r13` without saving it (`asm_wcfuncs.S:466` against
   `asm_wcfuncs.S:455` and `289`): an exception of `CallingConvention`.
4. The local variable of `wc_dict_find_or_insert` lies in the frame of its caller
   (`asm_wcfuncs.S:664` against `asm_wcfuncs.S:663`): the other exception.
5. Two rooms of one name, when two first joins race in the map
   (`server.cpp:281` against `server.cpp:276`): the exception `mapRaced` of
   `RoomIsUnique`.
6. A broadcast that skips a member, when its iterator steps during an insert
   (`room.cpp:42` against `room.cpp:38`): the exception `torn` of
   `BroadcastReachesAll`.
7. A lost carry (`uint256.c:198` against `uint256.h:48`): `SumExact` says that
   sums are wrong in exactly these cases.
8. `enqueue` blocks on a full queue (`message_queue.cpp:26` against
   `message_queue.h:18`, "will not block"): the steps `WaitAvail` of
   `MessageQueue` and `BeginEnqueue` of `BoundedFifo`.

## Proofs

`MessageQueueProofs` proves, for any finite sets of threads and any capacity of
at least one (`QueueAssumption`):

* `TypeCorrect`, `AlwaysBalanced`, `MutualExclusion`, `NoPopOfEmpty`,
  `CapacityIsRespected`: each as `Spec => []...`;
* `QueueRefinesFifo`: `Spec => ImplementsFifo`.

The argument. The invariant is `IInv == TypeOK /\ LockHeld /\ Balanced`.
`NeverPopsEmpty` is not inductive by itself: that a pop finds a message follows
from counting. `Balanced` says that the free slots, the queued messages and the
threads that hold a slot the deque does not use add up to `QUEUE_MAX`, and that
`m_items` and the threads that account for a message not counted add up to the
length of the deque. Each step moves one unit from one term to another. A
thread at `pop` is one of those counted, so the deque is not empty; a thread at
`push` holds a slot, so it is not full. `LockHeld` ties the mutex to the
program counters, and gives mutual exclusion. The refinement maps each step to
a step of `BoundedFifo` or to a stutter, using the invariant for `Put` (room),
`Take` (a message is there) and `FindNothing` (with `m_items = 0` every message
is spoken for).

`SequentialProofs` proves about `CacheSim`, for every number of sets and slots, every slot size,
every set of addresses and every length of the trace (`CacheAssumption`):

* `TypeCorrect`: `Spec => []TypeOK`;
* `NeverTwice`: `Spec => []OneCopy`;
* `EvictionIsOldest`: `Spec => EvictsOldest`: a block leaves only a full set,
  and its stamp is strictly less than every other stamp of the set;
* `CyclesAreThoseOfTheCounts`: `Spec => []CyclesAccounted`.

The argument. `OneCopy` is not inductive: a store of a block to the first
invalid slot is safe only if no slot behind it holds the block. `IInv` adds
`Prefix`, which says that the valid slots of a set are its first ones, so that
the loop has seen every block when it stops. `EvictionIsOldest` needs `Stamps`
besides: the stamps of the blocks of a set lie before `TIME` and differ from
each other. That `choose_eviction` and the loop find a slot at all rests on the
least element of a nonempty set of numbers (`FirstOfSlots`, `EvictionSlotIs`).
For the cycles, `Clean` says that only a valid slot is dirty, and none with
write-through: then a fill pays for a write-back exactly when it takes one block
out of the dirty ones (`DirtyIs` counts them), and the two sides of
`CyclesAccounted` grow alike in each of the six combinations of options.

It proves also that the timestamps implement the policies:

* `TimestampsImplementPolicy`: `Spec => ImplementsPolicy`.

The argument. `ByAge` counts stamps, which is hard to follow through a step. So
`AllListed` says that for each set there is a sequence of its valid slots with
ascending stamps, and `ByAgeIs` that such a sequence is what `ByAge` computes,
since the slots up to its r-th place are the ones with a stamp up to the r-th.
A step makes the next sequence from the last one: a slot that is hit under LRU
leaves its place and comes to the end, as `TIME` is later than every stamp of the
set (`Stamps`); under FIFO nothing moves; a block goes behind the others, and
when the set is full, `choose_eviction` has found the slot at the first place.
`GoesLast` and `AlongAppend` say that the tags of the slots move in the same way,
and that is what `ReplacementOrder` does to its order.

Its second half is about `UInt256`, for every number of words, of digits in a word
and of bits in a digit (`WidthAssumption`), which includes the 8, 8 and 4 of the
code:

* `SumsAreExact`: `CallerSpec => []SumExact`;
* `NegationsAreExact`: `CallerSpec => []NegationExact`;
* `RotationsAreExact`: `CallerSpec => []RotationsExact`;
* `HexIsExact`: `CallerSpec => []HexExact`.

The argument. The invariant `CallerInv` says that the caller has a value, and that
the call it made, if any, has the result the function gives (`Made`). The rest is
about the functions. Their loops are functions of the words or digits seen so
far. What such a function computes is proved by `Climb`: a set of numbers that holds
0 and, with each number, the next one holds them all, as the least number outside it
(`LeastIs`) would have a predecessor inside. This is how induction over words and
digits is done without the library's induction theorems.

* *Sums.* In one word the flag is the carry, unless a carry comes into two words of
  ones, where it is 0 (`WordSum`). `Lack` is what the words below k of the sum lack
  of the sum of the operands; a word adds to it exactly if it loses a carry
  (`LackStep`). The total is less than twice the weight of word k (`LackBound`), so
  what is lost below the top word is less than the number of values, and the sum is
  exact modulo that number if and only if it is nothing (`AddExact`); what is lost in
  the top word falls out anyway. That a carry comes into word i is the same as the low words
  adding up to too much, which is how `LostCarry` says it.
* *Negation.* The operands of its sum are 1 and the inverted bits, and 1 has no word of
  ones above the lowest, so no carry is lost (`NegateExact`). A word of one bit is no
  exception: the lowest word has no carry coming in.
* *Rotations.* `Turn` cuts a number in two parts and exchanges them. Moving by one word
  is a turn (`ShiftOneTurns`), turns compose (`TurnTwice`), and so moving by whole
  words (`ShiftTurns`) and then by bits (`SlideTurns`) is the turn that
  `RotationsExact` asks for. `rotate_left` takes back what `rotate_right` did
  (`RotateRightExact`).
* *Hex digits.* To put two strings of digits together is to multiply the number of
  the first and to add the second's (`NumeralConcat`). The digits of a word are
  remainders of quotients (`PaddedValue`), the leading ones that `%x` leaves out are
  zeros (`UnpaddedValue`), and the text is the words from the first that is not
  zero (`FormatExact`). Reading cuts the string into words from its right end and a
  rest (`LowestIs`, `FromHexExact`).

`RioStreamProofs` proves, for every size of the buffer, of the pipe and of a
line, every set of messages and every number of them (`RioAssumption`: messages
are not empty, a line has room for a character besides the newline, buffers
hold at least one byte):

* `TypeCorrect`: `Spec => []TypeOK`, which has the places of the unread bytes in
  `rio_buf` and how far a call may get before it returns;
* `RioRefinesStream`: `Spec => ImplementsStream`.

The argument. The invariant is `IInv == TypeOK /\ Handed`: outside of a call the
caller's buffer holds nothing, and inside a call for a line no newline. The
bytes not yet taken are the caller's buffer, the unread part of `rio_buf` and
the pipe, one behind the other; a refill or a copy moves a byte from the front
of one part to the end of the part before it, so that the whole stays the same,
and only a write or the return of a call changes it. That the line which returns
is the one `LineStream` takes needs `Handed`: its first newline is the byte that
came last.

`ChatServerProofs` proves, for any number of clients, rooms, messages and joins,
any capacity of the queues and the sockets, and any clients that misbehave
(`ServerAssumption`), as `Spec => []...` with races on the map, torn walks,
crashes and clients that hang up in the behaviours:

* `TypeCorrect`, `MembersAreThere` (`MembersStay`), `AnswersComeFirst`
  (`AnsweredFirst`), `OneRoomForAName` (`RoomIsUnique`), `AnsweredAreMembers`
  (`AnsweredIsMember`), `RoomsAreSeparate` (`OnlyOwnRoom`) and `OrderIsKept`
  (`SenderOrderKept`);
* `EveryoneIsReached`: `Spec => BroadcastReachesAll`, an action property.

The argument. None of these is inductive. `IInv` ties every place where a room,
a member or a message is known to the others: `Placed`, a worker's program
counter to its room, to the lock and to the members; `Named` and `Unique`, the
map to the rooms; `Posted`, a broadcast to the room of its sender and its
iterator to a receiver inside that room; `InHand` and `Carried`, what is queued,
in hand or sent to the room the receiver asked for, and its number to the
last broadcast of its sender; `InOrder`, the three stations of a message to each
other; `Greeted`, the answers to the program counter. A message is written after
the member's iterator was taken, so `OnlyOwnRoom` holds because a receiver never
changes its room; a new message has a number above all that `Carried` allows of
its sender before, so `InOrder` survives every enqueue. `RoomIsUnique` and
`AnsweredIsMember` have their exception, `mapRaced`, in `Unique`: unless inserts
have raced, none is about to. For `BroadcastReachesAll`, `Reached` adds to this
invariant that a walk which is not torn has left one copy of its message, in the
queue, in hand or in the socket, for each of its audience that it has passed, and
none for those to come. A new message has no copy because `Carried` does not allow
its number yet; a step to the next member passes by nobody of the audience,
because members stay and `NextMember` is the least one after the iterator
(`NextMemberLeast`); members that join behind the iterator are not of the
audience. Between the stations a message is neither lost nor copied
(`CountKept`), and what another sender enqueues has another name in it.

`ParSortProofs` proves, for an array of any length of any integers, any threshold
and any number of failures (`SortAssumption`):

* `TreeCorrect` and `TypeCorrect`: the tree of processes, and the types;
* `NeverBothBusy` (`RangesDisjoint`), `AllWaitedFor` (`NoneLeft`) and
  `SortsItsRange` (`Spec => ExitsSorted`).

The argument. Which ranges are at work follows from the stacks: `Shape` says that
a stack goes from the range of its process to the right, half by half; `Nested`
that two processes have ranges that are disjoint or nested; `Placed` that a
process inside the range of another one is inside a half that the other one has
forked; `Under` that it still runs only while it is waited for, or if somebody
above it has failed (`Orphan`). So a process that has waited has its range for
itself, which is `RangesDisjoint`, and with `Awaited` and `Counted`, `NoneLeft`.
For the sorting, `Data` says for each call in which nothing has failed what its
range and the temporary array hold: at `merge` two sorted halves; at `take` a
sorted prefix of the result, not above what is left of the two halves, and for
each value as often as the input had it, less what is left; at `copy` the result
so far. A step of another process leaves that range alone (noninterference, from
the tree), and `Exited` keeps what a child has left until its parent goes on.
Multiset equality is counting (`Count`), one element at a time, so no induction
over the array is needed. A round of a loop at a time is what makes this
provable: the model has the loops of `merge`, and not a closed form for them.

`ChatSessionProofs` proves, for any sets of names, rooms and texts of any lengths,
any number of requests, any of the clients killed and the server ended at any time
(`SessionAssumption`: lengths are numbers, and `NoRoom` is no room):

* `TypeCorrect`: the types, for all sessions;
* `RequestsInStep` (`InStep`), `RoomsInStep` (`RoomsAgree`), `SendTellsTheTruth`
  (`ResultIsTrue`) and `ReceiverListensOn` (`Spec => ListensOn`), which are about
  sound sessions, like the properties.

The argument. `Sound` can only become false, so a sound step begins in a sound
state, where `receive` takes whole lines or finds the end of the file
(`ReceivedSound`). A client that waits is in one of four situations (`Wire`): its
request is on its way (`Asked`), or was received and is to be answered
(`Acting`), or was answered, with only deliveries behind the answer
(`Answered`), or was lost with the server (`Unheard`). Only a client that is in
`Acting` when the server ends is told false of what was carried out, which is
what `Counts` says with `Interrupted`. `Pending` keeps the
number of a request that nobody has taken apart from all that were carried out,
which `ResultIsTrue` needs also of a client that was killed; `Stage` ties the
worker to its client, so that no request meets a worker that does not expect it;
`Rooms` says of `in_room` that it is right, or will be after the answer that is
under way or to come. A step of one client or of its worker leaves the other pair alone
(`Elsewhere`), but for a broadcast, which adds a delivery, and the end of the
server.

`AsmWordCountProofs` proves, for any streams of bytes, any length of words, any
number of chains and of hash codes (`WordAssumption`):

* `ConventionIsKept`: `Spec => []CallingConvention`;
* `MemoryIsKept`: `Spec => []MemoryKept`;
* `WordCountIsImplemented`: `Spec => ImplementsWordCount`;
* `TableIsCensus`, `BestIsReported` and `RunsAreCounted`: `Census`,
  `BestIsFirstOfMostFrequent` and `WordsAreRuns`, through the refinement.

The argument for the first two. `CallingConvention` looks only at the places in `main` and at the
calls of the library, so it says nothing of what a return is about to find.
`Calls` has, for every `pc`, the height of the stack, the return address and the
pushed registers at their places (`CallOf`), and that what was not pushed still
is in its register (`OneCall`). A call establishes this (`CalledIs`,
`CallStep`), a step inside a function keeps it because it changes pushed registers
only (`InsideStep`), and a return finds what was pushed in the order of its pops
(`Reversed`), so that it goes to its caller, and to no other since return addresses
differ (`ReturnIs`, `ReturnStep`). The one write to the stack in between
(`Compare`, `Prepend`) goes to the slot that `r14` points at, which is the slot
of `main` of the second slip, not one of a return address. `MemoryKept` needs two
parts more. `Buffered` has where `r12`, `r13` and `r14` are in the buffer, and a
terminator at `r12` or behind it wherever a loop runs to one (`Terminated`); it
needs `Calls`, because only the `rax` of `wc_readnext` tells `main` that there is
a word. `Chained` has which entries are freed: all of the chains before the one at
hand, and of that one those in front of `r13`.

The argument for the refinement. `WordCount` says in one step what takes
hundreds of rounds of loops here, so the invariant says what each round has done
of it. `Fetching`: the blanks between `from` and `pos`; then the first `r13` bytes
of the word, which are in the buffer; then, with its terminator, the word
(`Holds`). `Spelling`: how far the word is lowered, and which bytes behind `r12`
are no letters; so the string in the buffer is the lowered word, and in the end
the counted one (`CountedWord`). `Entering`: that `r12`, or the slot where it was
pushed, is the number of the chain; that no entry in front of the pointer has
the word; that what is returned is the entry of the word or a new one, whose
count is 0; and that every other entry has been counted. `AllClean` has no
terminator in any word, so that `wc_str_compare`, which goes from byte to byte,
is 0 for equal words only, and its sign is the order of `WordCount`
(`CompareIs`). `mull` and `addl` compute the hash code of the functions in C,
since a remainder may be taken early (`ModTwice`, `HashSame`). With this, all
rounds but four kinds change nothing that `WordCount` sees: `main` skips a word
without letters or finds the end of the input (`GotWord`), counts a word
(`Entered`), meets an entry in its search (`Search`), or ends it (`Report`). These
are `Skip`, `EndOfInput`, `CountWord`, `Search` and `Finish` of `WordCount`
(`StepRefines`). That the mapped table satisfies the
invariant of `WordCountProofs` is needed along the way, and follows step by step
from the lemmas proved there: they are used through `P`, an instance of
`WordCountProofs` under the same mapping as `C`. The definitions of the two
instances are equal (`SameStep`, `SameCensus`, `SameBest`, `SameRuns`), so what is
proved about `WordCount` holds of the functions in assembly.

`WordCountProofs` proves, from the same assumption, about `WordCount`:

* `CensusIsKept`: `Spec => []Census`;
* `BestIsReported`: `Spec => []BestIsFirstOfMostFrequent`;
* `RunsAreCounted`: `Spec => []WordsAreRuns`.

Here `WordAssumption` is a hypothesis of each theorem; for `AsmWordCount` it
follows from the assumption on its constants (`Assumed`).

The argument. `Census` is not inductive: counting a word once more is right only
if the first entry found with that word is the only one. `Table` says that
an entry is in the chain of its hash code and has its word for itself, besides its
count (`Filed`, `Exact`, `Complete`, `Totals`); counting a word adds one to the
count of one entry, or puts an entry of count 1 in front of a chain that had none
(`CountAgain`, `CountFirst`, `CountKeeps`). `Searching` and `BestSoFar` say that none
of the entries met so far is better than the best, which is one of them; that
the report is right needs that `Less` orders the words (`LessIsOrder`) and that at
the end the search has met every entry. For the runs, `RunsRead` says that the
stream is not inside a run, and that `words` are the runs that begin before its
place; a word read from there begins with the next run (`NextRunIs`), is all of it
(`RunIsStored`, `WordIsRun`), and leaves the stream behind it with no other run in
between (`OneMoreRun`). The closed forms of `WordCount` choose a least or a greatest
place, which exists because the input is finite (`StartIs`, `StoredIs`,
`TerminatedIs`, `TrimIs`); the recursive function `wc_hash` is total because
its values up to any place exist (`CodesExist`, by `Climb`, which finds the least place
where a property fails).

The types of the queue and the cache, and that one thread at a time is in the
deque (`MutualExclusion`), are proved, so the runs do not repeat them.

Only model-checked:

* everything under fairness, which TLAPS does not reach here:
  `EveryMessageTaken`, `FullQueueDrains`, `SendallAnswered`, `QueuedIsRead`,
  `EveryProcessEnds`, `LineIsEnough`, `SendReturns`, `WorkerEnds`.

## What is not modelled

* `remove_member` and the end of `chat_with_receiver`: the loop before them
  never ends, as `m_fd` is never reset.
* The memory of messages, rooms and users. A `Message` is never freed.
* `accept` and `pthread_create` failing: both end the process.
* In `ChatServer`, requests that are answered with `err` without changing the
  server; `ChatSession` has them.
* In `ChatSession`, clients other than those of the repository, and what is
  printed (`handle_delivery`).
* Descriptors: nobody closes the `Connection` of a worker that returned.
* `rio_readn`, the set-up of sockets and the unused wrappers of `csapp.c`;
  `server_connect`.
* What a corrupted tree or an overlapped iterator does beyond the outcomes
  above, such as never ending.
* Argument parsing, printing, the generators and the test framework.
* `asm_wcmain.S`, which is unfinished: with no argument or one it reads nothing and
  falls into the error message. In `asm_wcfuncs.S`, the branches for null
  pointers, which no caller passes; `malloc` failing.

## Plan

Done: `BoundedFifo`, `MessageQueue`, `ChatServer`, `LineStream`, `RioStream`,
`ChatSession`, `ParSort`, `ReplacementOrder`, `CacheSim`, `UInt256`, `WordCount`,
`AsmWordCount`, and proofs about all of them: every safety property that a passing run
checks is a theorem, and so is each refinement.

What is left is what the provers do not reach: liveness under fairness, which stays
with TLC.
