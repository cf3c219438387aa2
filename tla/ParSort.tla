------------------------------ MODULE ParSort ------------------------------
(***************************************************************************)
(* csf_assign04/parsort.c: merge sort by a tree of processes over an array *)
(* that they share (mmap with MAP_SHARED).                                 *)
(*                                                                         *)
(* merge_sort(begin, end) forks a child for the left half, sorts the right *)
(* half itself, waits for the child, and merges.  A process is named by    *)
(* the range <<begin, end>> of the call it was forked for; the range of a  *)
(* call occurs once in the tree of calls.  Its stack holds the calls that  *)
(* it is in, the innermost first.  A child inherits the frames of its      *)
(* parent too, but exits before it returns to them.                        *)
(*                                                                         *)
(* fork and malloc may fail, and any process may be killed.  What the code *)
(* does about that is part of the model: the status of a child is only     *)
(* looked at when waitpid itself fails, which it does not do for a child   *)
(* that is there.                                                          *)
(*                                                                         *)
(* The merge and the copy back are one step per element.  qsort is one     *)
(* step, which touches a range that no other process is busy in            *)
(* (RangesDisjoint) unless something has failed.                           *)
(*                                                                         *)
(* A definition whose comment starts with MUTANT is a broken form of one   *)
(* that follows it; no specification uses it.                              *)
(***************************************************************************)
EXTENDS Integers, Sequences, FiniteSets

CONSTANTS
  N,           \* the number of elements of the file
  Values,      \* the elements
  Threshold,   \* up to this size a range is sorted sequentially
  MaxFailures  \* bound: how many failures there are

ASSUME SortAssumption ==
  /\ N \in Nat \ {0}   \* mmap refuses an empty file
  /\ Values \subseteq Int
  /\ Threshold \in Nat
  /\ MaxFailures \in Nat

Indices == 0 .. N - 1
Root    == <<0, N>>
Ranges  == {r \in (0..N) \X (0..N) : r[1] < r[2]}

VARIABLES
  arr,     \* the shared array
  stack,   \* the ranges of the calls each process is in
  pc,      \* the next step of each process
  temp,    \* temp_arr
  idx,     \* where its loop is in the array: left of merge, then begin + i
  status,  \* how each process has ended, or that it has not
  reaped,  \* the processes that were waited for
  nfail,   \* how many failures there were
  input    \* history: what was in the file

vars == <<arr, stack, pc, temp, idx, status, reaped, nfail, input>>

Steps    == {"none", "call", "sort", "wait", "merge", "take", "copy"}
Statuses == {"unborn", "running", "ok", "failed", "killed"}

TypeOK ==
  /\ arr \in [Indices -> Values] /\ input \in [Indices -> Values]
  /\ stack \in [Ranges -> Seq(Ranges)]
  /\ pc \in [Ranges -> Steps]
  /\ temp \in [Ranges -> Seq(Values)]
  /\ idx \in [Ranges -> 0..N]
  /\ status \in [Ranges -> Statuses]
  /\ reaped \subseteq Ranges
  /\ nfail \in 0..MaxFailures
  /\ \A p \in Ranges : status[p] = "running" => stack[p] # <<>> /\ pc[p] # "none"

Init ==
  /\ input \in [Indices -> Values]
  /\ arr = input
  /\ stack  = [p \in Ranges |-> IF p = Root THEN <<Root>> ELSE <<>>]
  /\ pc     = [p \in Ranges |-> IF p = Root THEN "call" ELSE "none"]
  /\ temp   = [p \in Ranges |-> <<>>]
  /\ idx    = [p \in Ranges |-> 0]
  /\ status = [p \in Ranges |-> IF p = Root THEN "running" ELSE "unborn"]
  /\ reaped = {}
  /\ nfail  = 0

-----------------------------------------------------------------------------
(* Ranges *)

Size(r)     == r[2] - r[1]
Mid(r)      == r[1] + Size(r) \div 2
LeftOf(r)   == <<r[1], Mid(r)>>
RightOf(r)  == <<Mid(r), r[2]>>
Cells(r)    == r[1] .. r[2] - 1
Within(q, r) == r[1] <= q[1] /\ q[2] <= r[2]

\* Array a is sorted in range r.
IsSorted(a, r) == \A i, j \in Cells(r) : i <= j => a[i] <= a[j]

\* How often a has v in range r.
Count(a, r, v) == Cardinality({i \in Cells(r) : a[i] = v})

\* Range r of array b has the elements that it has in array a.
SameElements(a, b, r) == \A v \in Values : Count(a, r, v) = Count(b, r, v)

\* seq_sort: what qsort may leave, which is all that its contract says.
SeqSorted(a, r) ==
  {b \in [Indices -> Values] :
     /\ \A i \in Indices \ Cells(r) : b[i] = a[i]
     /\ IsSorted(b, r) /\ SameElements(a, b, r)}

-----------------------------------------------------------------------------
(* merge_sort *)

Top(p)   == Head(stack[p])
Small(r) == Size(r) <= Threshold \/ Size(r) <= 1

\* Process p runs, and is at step s.
At(p, s) == status[p] = "running" /\ pc[p] = s

\* exit, or a signal: the process ends with status s.
End(p, s) ==
  /\ status' = [status EXCEPT ![p] = s]
  /\ stack' = [stack EXCEPT ![p] = <<>>]
  /\ pc' = [pc EXCEPT ![p] = "none"]
  /\ temp' = [temp EXCEPT ![p] = <<>>]
  /\ idx' = [idx EXCEPT ![p] = 0]

\* The innermost call returns: to the call that waits for its left half, or
\* from the outermost one to exit(0) in a child and the end of main in Root.
Return(p) ==
  IF Len(stack[p]) = 1
  THEN End(p, "ok")
  ELSE /\ stack' = [stack EXCEPT ![p] = Tail(@)]
       /\ pc' = [pc EXCEPT ![p] = "wait"]
       /\ temp' = [temp EXCEPT ![p] = <<>>]
       /\ idx' = [idx EXCEPT ![p] = 0]
       /\ UNCHANGED status

\* An error path: exit(1).
Fail(p) ==
  /\ nfail < MaxFailures
  /\ nfail' = nfail + 1
  /\ End(p, "failed")
  /\ UNCHANGED <<arr, reaped, input>>

CallSmall(p) ==
  /\ At(p, "call")
  /\ Small(Top(p))
  /\ pc' = [pc EXCEPT ![p] = "sort"]
  /\ UNCHANGED <<arr, stack, temp, idx, status, reaped, nfail, input>>

\* fork: the child goes on with the left half, the parent with the right.
Fork(p) ==
  LET r == Top(p)
      c == LeftOf(r)
  IN /\ At(p, "call")
     /\ ~Small(r)
     /\ status' = [status EXCEPT ![c] = "running"]
     /\ stack' = [stack EXCEPT ![c] = <<c>>, ![p] = <<RightOf(r)>> \o @]
     /\ pc' = [pc EXCEPT ![c] = "call"]
     /\ UNCHANGED <<arr, temp, idx, reaped, nfail, input>>

ForkFails(p) ==
  /\ At(p, "call")
  /\ ~Small(Top(p))
  /\ Fail(p)

Sort(p) ==
  /\ At(p, "sort")
  /\ arr' \in SeqSorted(arr, Top(p))
  /\ Return(p)
  /\ UNCHANGED <<reaped, nfail, input>>

\* MUTANT: waitpid with WNOHANG.
WaitNoHang(p) ==
  LET c == LeftOf(Top(p))
  IN /\ At(p, "wait")
     /\ reaped' = IF status[c] = "running" THEN reaped ELSE reaped \cup {c}
     /\ pc' = [pc EXCEPT ![p] = "merge"]
     /\ UNCHANGED <<arr, stack, temp, idx, status, nfail, input>>

\* MUTANT: only a child that has exited normally is waited for.
WaitForExit(p) ==
  LET c == LeftOf(Top(p))
  IN /\ At(p, "wait")
     /\ status[c] = "ok"
     /\ reaped' = reaped \cup {c}
     /\ pc' = [pc EXCEPT ![p] = "merge"]
     /\ UNCHANGED <<arr, stack, temp, idx, status, nfail, input>>

\* waitpid returns when the child has ended, however it has ended.
Wait(p) ==
  LET c == LeftOf(Top(p))
  IN /\ At(p, "wait")
     /\ status[c] # "running"
     /\ reaped' = reaped \cup {c}
     /\ pc' = [pc EXCEPT ![p] = "merge"]
     /\ UNCHANGED <<arr, stack, temp, idx, status, nfail, input>>

MallocFails(p) ==
  /\ At(p, "merge")
  /\ Fail(p)

\* malloc, and the call of merge.
Merge(p) ==
  /\ At(p, "merge")
  /\ pc' = [pc EXCEPT ![p] = "take"]
  /\ idx' = [idx EXCEPT ![p] = Top(p)[1]]
  /\ UNCHANGED <<arr, stack, temp, status, reaped, nfail, input>>

\* The right pointer of merge: what was taken came from the left or the right.
RightIdx(p) == Mid(Top(p)) + (Len(temp[p]) - (idx[p] - Top(p)[1]))

\* The next element comes from the left half.
TakesLeft(p) ==
  /\ idx[p] < Mid(Top(p))
  /\ RightIdx(p) = Top(p)[2] \/ arr[idx[p]] <= arr[RightIdx(p)]

\* One round of the loop of merge; the copy back begins after the last.
Take(p) ==
  /\ At(p, "take")
  /\ temp' = [temp EXCEPT ![p] =
                Append(@, arr[IF TakesLeft(p) THEN idx[p] ELSE RightIdx(p)])]
  /\ IF Len(temp[p]) + 1 = Size(Top(p))
     THEN /\ pc' = [pc EXCEPT ![p] = "copy"]
          /\ idx' = [idx EXCEPT ![p] = Top(p)[1]]
     ELSE /\ idx' = [idx EXCEPT ![p] = IF TakesLeft(p) THEN @ + 1 ELSE @]
          /\ UNCHANGED pc
  /\ UNCHANGED <<arr, stack, status, reaped, nfail, input>>

\* MUTANT: the loop leaves one element out.
CopyShort(p) ==
  LET i == idx[p]
  IN /\ At(p, "copy")
     /\ arr' = [arr EXCEPT ![i] = temp[p][i - Top(p)[1] + 1]]
     /\ IF i + 2 >= Top(p)[2]
        THEN Return(p)
        ELSE idx' = [idx EXCEPT ![p] = i + 1] /\ UNCHANGED <<stack, pc, temp, status>>
     /\ UNCHANGED <<reaped, nfail, input>>

\* One round of the loop that copies back; the call returns after the last.
Copy(p) ==
  LET i == idx[p]
  IN /\ At(p, "copy")
     /\ arr' = [arr EXCEPT ![i] = temp[p][i - Top(p)[1] + 1]]
     /\ IF i + 1 = Top(p)[2]
        THEN Return(p)
        ELSE idx' = [idx EXCEPT ![p] = i + 1] /\ UNCHANGED <<stack, pc, temp, status>>
     /\ UNCHANGED <<reaped, nfail, input>>

\* What a range may hold when qsort is killed while it is at work.
Torn(r) == {a \in [Indices -> Values] :
              \A i \in Indices : IF i \in Cells(r)
                                 THEN \E j \in Cells(r) : a[i] = arr[j]
                                 ELSE a[i] = arr[i]}

Killed(p) ==
  /\ status[p] = "running"
  /\ nfail < MaxFailures
  /\ nfail' = nfail + 1
  /\ End(p, "killed")
  /\ arr' \in IF pc[p] = "sort" THEN Torn(Top(p)) ELSE {arr}
  /\ UNCHANGED <<reaped, input>>

Step(p) ==
  \/ CallSmall(p) \/ Fork(p) \/ Sort(p) \/ Wait(p) \/ Merge(p) \/ Take(p) \/ Copy(p)

Failure(p) == ForkFails(p) \/ MallocFails(p) \/ Killed(p)

\* The program is over.
AllEnded == (\A p \in Ranges : status[p] # "running") /\ UNCHANGED vars

Next == (\E p \in Ranges : Step(p) \/ Failure(p)) \/ AllEnded

Spec == Init /\ [][Next]_vars

\* The scheduler lets some process run as long as one can; nothing has to fail.
FairSpec == Spec /\ WF_vars(\E p \in Ranges : Step(p))

-----------------------------------------------------------------------------
(* Properties *)

Failed(p) == status[p] \in {"failed", "killed"}

\* No process below p, and none that p descends from, has failed.
Sound(p) == \A q \in Ranges : (Within(q, p) \/ Within(p, q)) => ~Failed(q)

\* The cells that a process sorts or merges.
Busy(p) == IF pc[p] \in {"sort", "merge", "take", "copy"} THEN Cells(Top(p)) ELSE {}

\* Two processes are never busy with the same cell, unless one of them is an
\* orphan: a process between the two in the tree has failed, and its parent
\* goes on although the children of that process are still at work.
RangesDisjoint ==
  \A p, q \in Ranges :
    (p # q /\ Busy(p) \cap Busy(q) # {}) =>
      \E r \in Ranges : Failed(r) /\ (Within(p, r) \/ Within(q, r))

\* A process that exits with 0, with no failure below or above it in the tree,
\* leaves its range sorted, with the elements that were there in the file;
\* whatever fails elsewhere in the tree.
ExitsSorted ==
  [][\A p \in Ranges :
       (status[p] = "running" /\ status'[p] = "ok" /\ Sound(p)) =>
         IsSorted(arr', p) /\ SameElements(input, arr', p)]_vars

\* When the program reports success and nothing has failed, no process of it
\* is left: every child was waited for.
NoneLeft ==
  (status[Root] = "ok" /\ nfail = 0) =>
    \A p \in Ranges \ {Root} : status[p] # "unborn" => status[p] = "ok" /\ p \in reaped

\* Every process ends, also when others fail: no parent waits for ever.
EveryProcessEnds == <>(\A p \in Ranges : status[p] # "running")

\* parsort.c:122-123, where the merge begins: "child processes completed
\* successfully, so in theory we should be able to merge their results".
ChildCompleted ==
  \A p \in Ranges : At(p, "merge") => status[LeftOf(Top(p))] = "ok"
=============================================================================
