--------------------------- MODULE ParSortProofs ---------------------------
(***************************************************************************)
(* The tree of processes of ParSort: for every length of the array, every  *)
(* threshold and every number of failures, processes sort and merge        *)
(* disjoint ranges, nobody is left behind, and what exits with 0 has       *)
(* sorted its range, whatever fails elsewhere.                             *)
(*                                                                         *)
(* The inductive invariant IInv is the conjunction of the types and of     *)
(*                                                                         *)
(*   Shape    a stack has one call for each step to the right below the    *)
(*            range of its process;                                        *)
(*   Nested   the ranges of two processes are disjoint or nested;          *)
(*   Placed   a process inside the range of another one is inside a half   *)
(*            that the other one has forked, or has already finished;      *)
(*   Under    it runs only while it is waited for, or is an orphan;        *)
(*   Awaited  a process was waited for, or will be, or is an orphan;       *)
(*   Counted  failures are counted;                                        *)
(*   Loops    the pointers of the loops of merge and of the copy back;     *)
(*   Data     what the array and the temporary array hold where nothing    *)
(*            has failed;                                                  *)
(*   Exited   a child that has ended well leaves its range sorted until    *)
(*            its parent goes on.                                          *)
(***************************************************************************)
EXTENDS ParSort, FiniteSetTheorems, SequenceTheorems, TLAPS

Born       == {p \in Ranges : status[p] # "unborn"}
Running(p) == status[p] = "running"

Disjoint(q, r) == q[2] <= r[1] \/ r[2] <= q[1]

\* The calls of process p whose left half was forked, and those among them that
\* wait for it, or will wait when the calls below them have returned.
Merging   == {"wait", "merge", "take", "copy"}
Forked(p) == {i \in DOMAIN stack[p] : i > 1 \/ pc[p] \in Merging}
Waits(p)  == {i \in DOMAIN stack[p] : i > 1 \/ pc[p] = "wait"}

\* A process at or above q in the tree has failed.
Orphan(q) == \E r \in Ranges : Failed(r) /\ Within(q, r)

Shape == \A p \in Ranges :
  /\ ~Running(p) => stack[p] = <<>> /\ pc[p] = "none"
  /\ Running(p) => stack[p][Len(stack[p])] = p
  /\ \A i \in Forked(p) : Size(stack[p][i]) >= 2 /\ LeftOf(stack[p][i]) \in Born
  /\ \A i, j \in DOMAIN stack[p] :
       i < j => Within(stack[p][i], RightOf(stack[p][j]))
  /\ \A i, j \in DOMAIN stack[p] : j = i + 1 => stack[p][i] = RightOf(stack[p][j])

Nested == \A p, q \in Born : Disjoint(p, q) \/ Within(p, q) \/ Within(q, p)

Placed == \A p, q \in Born :
  (Running(p) /\ q # p /\ Within(q, p)) =>
    \E i \in Forked(p) : \/ Within(q, LeftOf(stack[p][i]))
                         \/ i = 1 /\ Within(q, RightOf(stack[p][i]))

Under == \A p, q \in Ranges :
  (status[p] \in {"running", "ok"} /\ Running(q) /\ q # p /\ Within(q, p)) =>
    Orphan(q) \/ \E i \in Waits(p) : Within(q, LeftOf(stack[p][i]))

Awaited == \A q \in Born \ {Root} :
  \/ q \in reaped \/ Orphan(q)
  \/ \E p \in Ranges : \E i \in Waits(p) : q = LeftOf(stack[p][i])

Counted == nfail = 0 => \A p \in Ranges : ~Failed(p)

\* The elements left to take, in both halves.
Remaining(p) == idx[p] .. Mid(Top(p)) - 1 \cup RightIdx(p) .. Top(p)[2] - 1

Loops == \A p \in Ranges :
  /\ pc[p] \notin {"take", "copy"} => temp[p] = <<>>
  /\ pc[p] = "take" => /\ idx[p] \in Top(p)[1] .. Mid(Top(p))
                       /\ RightIdx(p) \in Mid(Top(p)) .. Top(p)[2]
                       /\ Len(temp[p]) < Size(Top(p))
  /\ pc[p] = "copy" => /\ idx[p] \in Cells(Top(p))
                       /\ Len(temp[p]) = Size(Top(p))

\* Range r holds what it held in the file; it holds it sorted.
Untouched(r) == \A i \in Cells(r) : arr[i] = input[i]
Ready(r)     == IsSorted(arr, r) /\ SameElements(input, arr, r)

\* All of the temporary array.
Whole(s) == <<1, Len(s) + 1>>

\* The loop of merge: what was taken is sorted, not greater than what remains,
\* and together they are what the range held.
Taking(p) ==
  LET r == Top(p)
  IN /\ IsSorted(temp[p], Whole(temp[p]))
     /\ \A i \in DOMAIN temp[p], j \in Remaining(p) : temp[p][i] <= arr[j]
     /\ \A v \in Values :
          Count(temp[p], Whole(temp[p]), v) + Count(arr, <<idx[p], Mid(r)>>, v)
            + Count(arr, <<RightIdx(p), r[2]>>, v) = Count(input, r, v)

\* From l up to h array a has what s has from k on.
Copied(a, l, h, s, k) == \A i \in l .. h - 1 : a[i] = s[i - l + k]

\* The copy back: the temporary array has all, and the array what was copied.
Copying(p) ==
  LET r == Top(p)
  IN /\ IsSorted(temp[p], Whole(temp[p]))
     /\ \A v \in Values : Count(temp[p], Whole(temp[p]), v) = Count(input, r, v)
     /\ Copied(arr, r[1], idx[p], temp[p], 1)

\* The range that a process has to itself: a call that waits has done its right half.
Region(p) == IF pc[p] = "wait" THEN RightOf(Top(p)) ELSE Top(p)

Holds(p) ==
  LET r == Top(p)
  IN /\ pc[p] \in {"call", "sort"} => Untouched(r)
     /\ pc[p] \in {"wait", "merge", "take"} => Ready(RightOf(r))
     /\ pc[p] \in {"merge", "take"} => Ready(LeftOf(r))
     /\ pc[p] = "take" => Taking(p)
     /\ pc[p] = "copy" => Copying(p)

Data == \A p \in Ranges : Running(p) /\ Sound(Region(p)) => Holds(p)

Exited == \A p \in Ranges : \A i \in Waits(p) :
  LET c == LeftOf(stack[p][i])
  IN status[c] = "ok" /\ Sound(c) => Ready(c)

\* The tree of processes, and with it what is in the arrays.
Tree == TypeOK /\ Shape /\ Nested /\ Placed /\ Under /\ Awaited /\ Counted
IInv == Tree /\ Loops /\ Data /\ Exited

-----------------------------------------------------------------------------
(* Ranges *)

LEMMA RangeIs ==
  ASSUME NEW r \in Ranges
  PROVE  /\ r = <<r[1], r[2]>> /\ r[1] \in 0 .. N /\ r[2] \in 0 .. N
         /\ r[1] < r[2] /\ Size(r) \in Nat \ {0}
BY SortAssumption DEF Ranges, Size

\* The two halves of a range that is cut are ranges.
LEMMA HalvesAre ==
  ASSUME NEW r \in Ranges, Size(r) >= 2
  PROVE  /\ LeftOf(r) \in Ranges /\ RightOf(r) \in Ranges
         /\ LeftOf(r)[1] = r[1] /\ LeftOf(r)[2] = Mid(r)
         /\ RightOf(r)[1] = Mid(r) /\ RightOf(r)[2] = r[2]
         /\ Mid(r) \in 0 .. N /\ r[1] < Mid(r) /\ Mid(r) < r[2]
<1>1. /\ Mid(r) \in Int /\ r[1] < Mid(r) /\ Mid(r) < r[2]
  BY RangeIs DEF Size, Mid
<1> QED
  BY <1>1, RangeIs, SortAssumption DEF LeftOf, RightOf, Ranges

\* Ranges with the same ends are the same.
LEMMA SameEnds ==
  ASSUME NEW q \in Ranges, NEW r \in Ranges, Within(q, r), Within(r, q)
  PROVE  q = r
BY RangeIs DEF Within

LEMMA RootIs == Root \in Ranges /\ \A r \in Ranges : Within(r, Root)
BY SortAssumption DEF Root, Ranges, Within

LEMMA NotSmall ==
  ASSUME NEW r \in Ranges, ~Small(r)
  PROVE  Size(r) >= 2
BY RangeIs DEF Small

-----------------------------------------------------------------------------
(* The tree of processes *)

\* Without its head a sequence has its other elements.
LEMMA TailIs ==
  ASSUME NEW S, NEW s \in Seq(S), Len(s) \in Nat \ {0}, Len(s) # 1
  PROVE  /\ Len(s) \in Nat /\ Len(s) > 1
         /\ Tail(s) \in Seq(S) /\ Tail(s) # <<>>
         /\ Len(Tail(s)) = Len(s) - 1 /\ DOMAIN Tail(s) = 1 .. Len(s) - 1
         /\ \A i \in 1 .. Len(s) - 1 : Tail(s)[i] = s[i + 1] /\ i + 1 \in 1 .. Len(s)
<1>1. Len(s) > 1 /\ Len(s) \in Nat
  <2>1. \A n \in Nat \ {0} : n # 1 => n > 1 /\ n \in Nat
    OBVIOUS
  <2> QED
    BY <2>1, Zenon
<1>2. s # <<>>
  BY <1>1, EmptySeq
<1>3. Tail(s) \in Seq(S) /\ Len(Tail(s)) = Len(s) - 1
  BY <1>2, HeadTailProperties
<1>4. \A i \in 1 .. Len(s) - 1 : Tail(s)[i] = s[i + 1] /\ i + 1 \in 1 .. Len(s)
  BY <1>1, <1>2, <1>3, HeadTailProperties
<1>5. DOMAIN Tail(s) = 1 .. Len(s) - 1
  BY <1>3, LenProperties
<1>6. Tail(s) # <<>>
  <2>1. Len(Tail(s)) # 0
    BY <1>1, <1>3
  <2> QED
    BY <2>1, EmptySeq
<1> QED
  BY <1>1, <1>3, <1>4, <1>5, <1>6

LEMMA StackIs ==
  ASSUME TypeOK, Shape, NEW p \in Ranges, Running(p)
  PROVE  /\ stack[p] \in Seq(Ranges) /\ Len(stack[p]) \in Nat \ {0}
         /\ DOMAIN stack[p] = 1 .. Len(stack[p])
         /\ Top(p) = stack[p][1] /\ Top(p) \in Ranges /\ Within(Top(p), p)
         /\ \A i \in DOMAIN stack[p] : stack[p][i] \in Ranges /\ Within(stack[p][i], p)
<1>1. stack[p] \in Seq(Ranges) /\ stack[p] # <<>>
  BY DEF TypeOK, Running
<1>2. /\ Len(stack[p]) \in Nat \ {0} /\ DOMAIN stack[p] = 1 .. Len(stack[p])
      /\ \A i \in 1 .. Len(stack[p]) : stack[p][i] \in Ranges
  BY <1>1
<1>3. Top(p) = stack[p][1]
  BY <1>1 DEF Top
<1>4. ASSUME NEW i \in 1 .. Len(stack[p]) PROVE Within(stack[p][i], p)
  <2> DEFINE n == Len(stack[p])
  <2>1. stack[p][n] = p
    BY DEF Shape
  <2>2. CASE i = n
    BY <2>1, <2>2, RangeIs DEF Within
  <2>3. CASE i < n
    <3>1. n \in Forked(p) /\ Within(stack[p][i], RightOf(stack[p][n]))
      BY <1>2, <2>3 DEF Shape, Forked
    <3>2. RightOf(p)[2] = p[2] /\ p[1] < RightOf(p)[1]
      BY <2>1, <3>1, HalvesAre DEF Shape
    <3> HIDE DEF n
    <3> QED
      BY <1>2, <2>1, <3>1, <3>2, HalvesAre, RangeIs, SMTT(30) DEF Within, Shape
  <2> QED
    BY <1>2, <2>2, <2>3
<1> QED
  BY <1>1, <1>2, <1>3, <1>4

\* A call in the stack is cut, its left half is somebody's range, and what lies
\* above it in the stack is inside of its right half.
LEMMA CallIs ==
  ASSUME TypeOK, Shape, NEW p \in Ranges, Running(p), NEW i \in Forked(p)
  PROVE  /\ i \in DOMAIN stack[p] /\ i \in Nat \ {0} /\ stack[p][i] \in Ranges
         /\ Size(stack[p][i]) >= 2
         /\ LeftOf(stack[p][i]) \in Born
         /\ Within(LeftOf(stack[p][i]), stack[p][i])
         /\ Within(RightOf(stack[p][i]), stack[p][i])
         /\ Within(LeftOf(stack[p][i]), p) /\ LeftOf(stack[p][i]) # p
         /\ \A j \in DOMAIN stack[p] : j < i =>
              /\ Within(stack[p][j], RightOf(stack[p][i]))
              /\ Disjoint(stack[p][j], LeftOf(stack[p][i]))
<1>1. i \in DOMAIN stack[p] /\ i \in Nat \ {0} /\ stack[p][i] \in Ranges
  BY StackIs DEF Forked
<1>2. Size(stack[p][i]) >= 2 /\ LeftOf(stack[p][i]) \in Born
  BY DEF Shape
<1>3. Within(stack[p][i], p)
  BY <1>1, StackIs
<1>4. /\ Within(LeftOf(stack[p][i]), stack[p][i]) /\ Within(RightOf(stack[p][i]), stack[p][i])
      /\ Within(LeftOf(stack[p][i]), p) /\ LeftOf(stack[p][i]) # p
  BY <1>1, <1>2, <1>3, HalvesAre, RangeIs DEF Within
<1>5. ASSUME NEW j \in DOMAIN stack[p], j < i
      PROVE  /\ Within(stack[p][j], RightOf(stack[p][i]))
             /\ Disjoint(stack[p][j], LeftOf(stack[p][i]))
  <2>1. Within(stack[p][j], RightOf(stack[p][i])) /\ stack[p][j] \in Ranges
    BY <1>1, <1>5, StackIs DEF Shape
  <2> QED
    BY <1>1, <1>2, <2>1, HalvesAre, RangeIs DEF Within, Disjoint
<1> QED
  BY <1>1, <1>2, <1>4, <1>5

\* Ranges that share a cell are not disjoint, and what is inside of disjoint
\* ranges is disjoint.
LEMMA WithinMeets ==
  ASSUME NEW q \in Ranges, NEW r \in Ranges, Within(q, r)
  PROVE  ~Disjoint(q, r)
BY RangeIs DEF Within, Disjoint

LEMMA InsideDisjoint ==
  ASSUME NEW q \in Ranges, NEW r \in Ranges, NEW s \in Ranges, Within(q, r), Disjoint(r, s)
  PROVE  Disjoint(q, s) /\ Disjoint(s, q)
BY RangeIs DEF Within, Disjoint

LEMMA WithinBoth ==
  ASSUME NEW q \in Ranges, NEW r \in Ranges, NEW s \in Ranges, Within(q, r), Within(r, s)
  PROVE  Within(q, s)
BY RangeIs DEF Within

\* Before its fork a process has nobody in the range of its call.
LEMMA NobodyInside ==
  ASSUME Tree, NEW p \in Ranges, Running(p), pc[p] \in {"call", "sort"},
         NEW q \in Born, q # p, Within(q, p)
  PROVE  Disjoint(q, Top(p))
<1>1. p \in Born
  BY DEF Born, Running
<1>2. PICK i \in Forked(p) :
        \/ Within(q, LeftOf(stack[p][i]))
        \/ i = 1 /\ Within(q, RightOf(stack[p][i]))
  BY <1>1 DEF Tree, Placed
<1>3. i > 1 /\ i \in DOMAIN stack[p]
  BY DEF Forked, Merging
<1>4. Within(q, LeftOf(stack[p][i]))
  BY <1>2, <1>3
<1>5. /\ 1 \in DOMAIN stack[p] /\ 1 < i /\ Top(p) = stack[p][1] /\ Top(p) \in Ranges
  BY <1>3, StackIs DEF Tree
<1>6. Disjoint(Top(p), LeftOf(stack[p][i])) /\ LeftOf(stack[p][i]) \in Born
  BY <1>5, CallIs DEF Tree
<1> QED
  BY <1>4, <1>5, <1>6, RangeIs DEF Born, Disjoint, Within

\* What a fork does: a new process at its first call, and a new call of the old.
LEMMA ForkIs ==
  ASSUME Tree, NEW p \in Ranges, Fork(p)
  PROVE  LET r == Top(p)
             c == LeftOf(r)
         IN /\ p \in Born /\ Running(p) /\ pc[p] = "call"
            /\ r \in Ranges /\ Size(r) >= 2 /\ ~Small(r)
            /\ c \in Ranges \ Born /\ RightOf(r) \in Ranges
            /\ Within(c, r) /\ Within(RightOf(r), r) /\ Within(c, p) /\ Within(RightOf(r), p)
            /\ c # p /\ c # Root
            /\ Born' = Born \cup {c}
            /\ \A q \in Ranges : Failed(q)' <=> Failed(q)
            /\ \A q \in Ranges \ {p, c} :
                 /\ stack'[q] = stack[q] /\ pc'[q] = pc[q] /\ status'[q] = status[q]
            /\ status'[p] = "running" /\ status'[c] = "running"
            /\ pc'[p] = "call" /\ pc'[c] = "call"
            /\ stack'[c] = <<c>> /\ stack'[p] = <<RightOf(r)>> \o stack[p]
            /\ reaped' = reaped /\ nfail' = nfail
<1> DEFINE r == Top(p)
           c == LeftOf(r)
<1>1. p \in Born /\ Running(p) /\ pc[p] = "call"
  BY DEF Fork, At, Born, Running
<1>2. r \in Ranges /\ Within(r, p)
  BY <1>1, StackIs DEF Tree
<1>3. ~Small(r) /\ Size(r) >= 2
  BY <1>2, NotSmall DEF Fork
<1>4. /\ c \in Ranges /\ RightOf(r) \in Ranges
      /\ Within(c, r) /\ Within(RightOf(r), r) /\ Within(c, p) /\ Within(RightOf(r), p)
      /\ c # p /\ c # Root
  BY <1>2, <1>3, HalvesAre, RangeIs DEF Within, Root
<1>5. c \notin Born
  <2> SUFFICES ASSUME c \in Born
               PROVE  FALSE
    OBVIOUS
  <2>1. Disjoint(c, r)
    BY <1>1, <1>4, NobodyInside
  <2> QED
    BY <1>2, <1>4, <2>1, WithinMeets
<1>6. /\ status' = [status EXCEPT ![c] = "running"]
      /\ stack' = [stack EXCEPT ![c] = <<c>>, ![p] = <<RightOf(r)>> \o @]
      /\ pc' = [pc EXCEPT ![c] = "call"]
      /\ reaped' = reaped /\ nfail' = nfail
  BY DEF Fork
<1> HIDE DEF r, c
<1>7. /\ status \in [Ranges -> Statuses] /\ stack \in [Ranges -> Seq(Ranges)]
      /\ pc \in [Ranges -> Steps]
  BY DEF Tree, TypeOK
<1>8. /\ \A q \in Ranges \ {p, c} :
                 /\ stack'[q] = stack[q] /\ pc'[q] = pc[q] /\ status'[q] = status[q]
      /\ status'[p] = "running" /\ status'[c] = "running"
      /\ pc'[p] = "call" /\ pc'[c] = "call"
      /\ stack'[c] = <<c>> /\ stack'[p] = <<RightOf(r)>> \o stack[p]
  BY <1>1, <1>4, <1>6, <1>7 DEF Running
<1>9. Born' = Born \cup {c}
  BY <1>1, <1>4, <1>8 DEF Born
<1>10. \A q \in Ranges : Failed(q)' <=> Failed(q)
  BY <1>1, <1>4, <1>5, <1>8 DEF Failed, Born, Running
<1> QED
  BY <1>1, <1>2, <1>3, <1>4, <1>5, <1>6, <1>8, <1>9, <1>10 DEF r, c

LEMMA ForkTree ==
  ASSUME Tree, NEW p \in Ranges, Fork(p), TypeOK'
  PROVE  Tree'
<1>0. PICK r \in Ranges, c \in Ranges, new \in Ranges :
        r = Top(p) /\ c = LeftOf(r) /\ new = RightOf(r)
  BY ForkIs
<1>1. /\ p \in Born /\ Running(p) /\ pc[p] = "call"
      /\ r \in Ranges /\ Size(r) >= 2 /\ ~Small(r)
      /\ c \in Ranges \ Born /\ new \in Ranges
      /\ Within(c, r) /\ Within(new, r) /\ Within(c, p) /\ Within(new, p)
      /\ c # p /\ c # Root
  BY <1>0, ForkIs
<1>2. /\ Born' = Born \cup {c}
      /\ \A q \in Ranges : Failed(q)' <=> Failed(q)
      /\ \A q \in Ranges \ {p, c} :
           /\ stack'[q] = stack[q] /\ pc'[q] = pc[q] /\ status'[q] = status[q]
      /\ status'[p] = "running" /\ status'[c] = "running"
      /\ pc'[p] = "call" /\ pc'[c] = "call"
      /\ stack'[c] = <<c>> /\ stack'[p] = <<new>> \o stack[p]
      /\ reaped' = reaped /\ nfail' = nfail
  BY <1>0, ForkIs
<1>3. /\ stack[p] \in Seq(Ranges) /\ Len(stack[p]) \in Nat \ {0} /\ stack[p][1] = r
      /\ DOMAIN stack[p] = 1 .. Len(stack[p])
      /\ \A i \in DOMAIN stack[p] : stack[p][i] \in Ranges
  BY <1>0, <1>1, StackIs DEF Tree
<1>4. c = LeftOf(r) /\ new = RightOf(r) /\ r = Top(p)
  BY <1>0
<1>5. /\ Len(stack'[p]) = Len(stack[p]) + 1 /\ DOMAIN stack'[p] = 1 .. Len(stack[p]) + 1
      /\ stack'[p][1] = new /\ \A i \in DOMAIN stack[p] : stack'[p][i + 1] = stack[p][i]
      /\ Len(stack'[c]) = 1 /\ DOMAIN stack'[c] = {1} /\ stack'[c][1] = c
      /\ stack'[p][2] = r
  BY <1>1, <1>2, <1>3
<1>6. \A q \in Ranges \ {p, c} : Forked(q)' = Forked(q) /\ Waits(q)' = Waits(q)
  BY <1>2 DEF Forked, Waits
<1>7. /\ Forked(p)' = 2 .. Len(stack[p]) + 1 /\ Waits(p)' = 2 .. Len(stack[p]) + 1
      /\ \A i \in DOMAIN stack[p] : i + 1 \in Forked(p)' /\ i + 1 \in Waits(p)'
      /\ 2 \in Forked(p)' /\ 2 \in Waits(p)'
      /\ Forked(c)' = {} /\ Waits(c)' = {}
  <2>1. pc'[p] = "call" /\ pc'[c] = "call" /\ DOMAIN stack'[c] = {1}
    BY <1>2, <1>5
  <2>2. /\ Forked(p)' = {i \in DOMAIN stack'[p] : i > 1}
        /\ Waits(p)' = {i \in DOMAIN stack'[p] : i > 1}
        /\ Forked(c)' = {i \in DOMAIN stack'[c] : i > 1}
        /\ Waits(c)' = {i \in DOMAIN stack'[c] : i > 1}
    BY <2>1 DEF Forked, Waits, Merging
  <2>3. \A n \in Nat : {i \in 1 .. n + 1 : i > 1} = 2 .. n + 1
    OBVIOUS
  <2>4. {i \in {1} : i > 1} = {}
    OBVIOUS
  <2>5. /\ Forked(p)' = 2 .. Len(stack[p]) + 1 /\ Waits(p)' = 2 .. Len(stack[p]) + 1
        /\ Forked(c)' = {} /\ Waits(c)' = {}
    BY <1>3, <1>5, <2>1, <2>2, <2>3, <2>4
  <2>6. \A i \in 1 .. Len(stack[p]) : i + 1 \in 2 .. Len(stack[p]) + 1
    BY <1>3
  <2>7. 2 \in 2 .. Len(stack[p]) + 1
    BY <1>3
  <2> QED
    BY <1>3, <2>5, <2>6, <2>7
<1>8. \A q \in Ranges : Orphan(q)' <=> Orphan(q)
  BY <1>2 DEF Orphan
<1>9. \A q \in Born : Running(q)' <=> Running(q)
  BY <1>1, <1>2 DEF Running, Born
<1>10. Shape'
  <2> SUFFICES ASSUME NEW q \in Ranges
               PROVE  /\ ~Running(q)' => stack'[q] = <<>> /\ pc'[q] = "none"
                      /\ Running(q)' => stack'[q][Len(stack'[q])] = q
                      /\ \A i \in Forked(q)' : Size(stack'[q][i]) >= 2 /\ LeftOf(stack'[q][i]) \in Born'
                      /\ \A i, j \in DOMAIN stack'[q] :
                           i < j => Within(stack'[q][i], RightOf(stack'[q][j]))
                      /\ \A i, j \in DOMAIN stack'[q] :
                           j = i + 1 => stack'[q][i] = RightOf(stack'[q][j])
    BY DEF Shape
  <2>1. CASE q \notin {p, c}
    BY <1>2, <1>6, <2>1 DEF Tree, Shape, Running, Top
  <2>2. CASE q = c
    <3>1. Running(c)' /\ stack'[c][Len(stack'[c])] = c /\ pc'[c] \notin Merging
      <4>1. status'[c] = "running" /\ pc'[c] = "call" /\ Len(stack'[c]) = 1 /\ stack'[c][1] = c
        BY <1>2, <1>5
      <4> QED
        BY <4>1, Zenon DEF Running, Merging
    <3>2. \A i, j \in DOMAIN stack'[c] : ~(i < j) /\ j # i + 1
      <4>1. DOMAIN stack'[c] = {1}
        BY <1>5
      <4> QED
        BY <4>1
    <3> QED
      BY <1>7, <2>2, <3>1, <3>2, Zenon
  <2>3. CASE q = p
    <3>1. Running(p)' /\ stack'[p][Len(stack'[p])] = p
      <4>1. stack[p][Len(stack[p])] = p
        BY <1>1 DEF Tree, Shape
      <4> QED
        BY <1>2, <1>3, <1>5, <4>1 DEF Running, Merging
    <3>2. ASSUME NEW i \in DOMAIN stack[p]
          PROVE  Size(stack[p][i]) >= 2 /\ LeftOf(stack[p][i]) \in Born'
      <4>1. CASE i = 1
        BY <1>1, <1>2, <1>3, <1>4, <4>1
      <4>2. CASE i > 1
        BY <1>2, <4>2 DEF Forked, Tree, Shape
      <4> QED
        BY <1>3, <4>1, <4>2
    <3>3. \A i \in Forked(p)' : Size(stack'[p][i]) >= 2 /\ LeftOf(stack'[p][i]) \in Born'
      <4>1. \A i \in Forked(p)' : i - 1 \in DOMAIN stack[p] /\ i = (i - 1) + 1
        BY <1>3, <1>7
      <4> QED
        BY <1>5, <3>2, <4>1
    <3>4. \A i \in DOMAIN stack[p] : Within(new, RightOf(stack[p][i]))
      <4> SUFFICES ASSUME NEW i \in DOMAIN stack[p]
                   PROVE  Within(new, RightOf(stack[p][i]))
        OBVIOUS
      <4>1. CASE i = 1
        <5>1. Within(new, new)
          BY <1>1, RangeIs DEF Within
        <5> QED
          BY <1>3, <1>4, <4>1, <5>1
      <4>2. CASE i > 1
        <5>1. i \in Forked(p) /\ 1 \in DOMAIN stack[p]
          BY <1>3, <4>2 DEF Forked
        <5>2. Within(r, RightOf(stack[p][i])) /\ RightOf(stack[p][i]) \in Ranges
          BY <1>1, <1>3, <4>2, <5>1, CallIs, HalvesAre DEF Tree
        <5> QED
          BY <1>1, <5>2, WithinBoth
      <4> QED
        BY <1>3, <4>1, <4>2
    <3>5. ASSUME NEW i \in DOMAIN stack'[p], NEW j \in DOMAIN stack'[p], i < j
          PROVE  Within(stack'[p][i], RightOf(stack'[p][j]))
      <4>1. j - 1 \in DOMAIN stack[p] /\ stack'[p][j] = stack[p][j - 1]
        BY <1>3, <1>5, <3>5, SMTT(30)
      <4>2. CASE i = 1
        BY <1>5, <3>4, <4>1, <4>2
      <4>3. CASE i > 1
        <5>1. i - 1 \in DOMAIN stack[p] /\ stack'[p][i] = stack[p][i - 1] /\ i - 1 < j - 1
          BY <1>3, <1>5, <3>5, <4>3, SMTT(30)
        <5> QED
          BY <4>1, <5>1 DEF Tree, Shape
      <4> QED
        BY <1>3, <1>5, <4>2, <4>3
    <3>6. ASSUME NEW i \in DOMAIN stack'[p], NEW j \in DOMAIN stack'[p], j = i + 1
          PROVE  stack'[p][i] = RightOf(stack'[p][j])
      <4>1. CASE i = 1
        BY <1>4, <1>5, <3>6, <4>1
      <4>2. CASE i > 1
        <5>1. i - 1 \in DOMAIN stack[p] /\ i \in DOMAIN stack[p] /\ i = (i - 1) + 1
          BY <1>3, <1>5, <3>6, <4>2
        <5>2. stack'[p][i] = stack[p][i - 1] /\ stack'[p][j] = stack[p][i]
          BY <1>5, <3>6, <5>1
        <5> QED
          BY <5>1, <5>2 DEF Tree, Shape
      <4> QED
        BY <1>3, <1>5, <4>1, <4>2
    <3> QED
      BY <2>3, <3>1, <3>3, <3>5, <3>6
  <2> QED
    BY <2>1, <2>2, <2>3
<1>11. Nested'
  <2>1. ASSUME NEW q \in Born
        PROVE  Disjoint(c, q) \/ Within(c, q) \/ Within(q, c)
    <3>1. q \in Ranges
      BY DEF Born
    <3>2. Disjoint(p, q) \/ Within(p, q) \/ Within(q, p)
      BY <1>1 DEF Tree, Nested
    <3>3. CASE Disjoint(p, q)
      BY <1>1, <3>1, <3>3, InsideDisjoint
    <3>4. CASE Within(p, q)
      BY <1>1, <3>1, <3>4, WithinBoth
    <3>5. CASE Within(q, p) /\ q # p
      <4>1. Disjoint(q, r)
        BY <1>1, <1>4, <3>5, NobodyInside
      <4> QED
        BY <1>1, <3>1, <4>1, RangeIs DEF Disjoint, Within
    <3>6. CASE q = p
      BY <1>1, <3>6
    <3> QED
      BY <3>2, <3>3, <3>4, <3>5, <3>6
  <2>2. Within(c, c)
    BY <1>1, RangeIs DEF Within
  <2> QED
    BY <1>2, <2>1, <2>2 DEF Tree, Nested, Disjoint
<1>12. ASSUME NEW q \in Born, Running(q), q # p, Within(c, q)
       PROVE  Within(p, q)
  <2>1. q \in Ranges
    BY DEF Born
  <2>2. Disjoint(p, q) \/ Within(p, q) \/ Within(q, p)
    BY <1>1 DEF Tree, Nested
  <2>3. CASE Disjoint(p, q)
    BY <1>1, <1>12, <2>1, <2>3, RangeIs DEF Disjoint, Within
  <2>4. CASE Within(q, p)
    <3>1. Disjoint(q, r)
      BY <1>1, <1>4, <1>12, <2>4, NobodyInside
    <3> QED
      BY <1>1, <1>12, <2>1, <3>1, RangeIs DEF Disjoint, Within
  <2> QED
    BY <2>2, <2>3, <2>4
<1>13. Placed'
  <2> SUFFICES ASSUME NEW u \in Born', NEW q \in Born', Running(u)', q # u, Within(q, u)
               PROVE  \E i \in Forked(u)' :
                         \/ Within(q, LeftOf(stack'[u][i]))
                         \/ i = 1 /\ Within(q, RightOf(stack'[u][i]))
    BY DEF Placed
  <2>1. CASE u = c
    <3>1. q \in Born
      BY <1>2, <2>1
    <3>2. q \in Ranges /\ q # p
      BY <1>1, <2>1, <3>1, SameEnds DEF Born
    <3>3. Within(q, p)
      BY <1>1, <2>1, <3>2, WithinBoth
    <3>4. Disjoint(q, r)
      BY <1>1, <1>4, <3>1, <3>2, <3>3, NobodyInside
    <3> QED
      BY <1>1, <2>1, <3>2, <3>4, RangeIs DEF Disjoint, Within
  <2>2. CASE u = p /\ q = c
    <3>1. Within(c, c) /\ 2 \in Forked(p)'
      BY <1>1, <1>7, RangeIs DEF Within
    <3> QED
      BY <1>4, <1>5, <2>2, <3>1
  <2>3. CASE u = p /\ q # c
    <3>1. q \in Born
      BY <1>2, <2>3
    <3>2. PICK i \in Forked(p) : \/ Within(q, LeftOf(stack[p][i]))
                                 \/ i = 1 /\ Within(q, RightOf(stack[p][i]))
      BY <1>1, <2>3, <3>1 DEF Tree, Placed
    <3>3. i # 1 /\ i \in DOMAIN stack[p]
      BY <1>1 DEF Forked, Merging
    <3>4. i + 1 \in Forked(p)' /\ stack'[p][i + 1] = stack[p][i]
      BY <1>5, <1>7, <3>3
    <3> QED
      BY <2>3, <3>2, <3>3, <3>4
  <2>4. CASE u \notin {p, c} /\ q # c
    <3>1. u \in Born /\ u \in Ranges \ {p, c} /\ q \in Born /\ Running(u)
      BY <1>2, <1>9, <2>4 DEF Born
    <3>2. \E i \in Forked(u) : \/ Within(q, LeftOf(stack[u][i]))
                               \/ i = 1 /\ Within(q, RightOf(stack[u][i]))
      BY <3>1 DEF Tree, Placed
    <3>3. Forked(u)' = Forked(u) /\ stack'[u] = stack[u]
      BY <1>2, <1>6, <3>1
    <3> QED
      BY <3>2, <3>3
  <2>5. CASE u \notin {p, c} /\ q = c
    <3>1. u \in Born /\ Running(u) /\ u \in Ranges
      BY <1>2, <1>9, <2>5 DEF Born
    <3>2. Within(p, u)
      BY <1>12, <2>5, <3>1
    <3>3. PICK i \in Forked(u) : \/ Within(p, LeftOf(stack[u][i]))
                                 \/ i = 1 /\ Within(p, RightOf(stack[u][i]))
      BY <1>1, <2>5, <3>1, <3>2 DEF Tree, Placed
    <3>4. \/ Within(c, LeftOf(stack[u][i]))
          \/ i = 1 /\ Within(c, RightOf(stack[u][i]))
      <4>1. Size(stack[u][i]) >= 2 /\ stack[u][i] \in Ranges
        BY <3>1, CallIs DEF Tree
      <4>2. LeftOf(stack[u][i]) \in Ranges /\ RightOf(stack[u][i]) \in Ranges
        BY <4>1, HalvesAre
      <4> QED
        BY <1>1, <3>3, <4>2, WithinBoth
    <3> QED
      BY <1>2, <1>6, <2>5, <3>1, <3>4
  <2> QED
    BY <1>2, <2>1, <2>2, <2>3, <2>4, <2>5
<1>14. Under'
  <2> SUFFICES ASSUME NEW u \in Ranges, NEW q \in Ranges, status'[u] \in {"running", "ok"},
                      Running(q)', q # u, Within(q, u)
               PROVE  \/ Orphan(q)'
                      \/ \E i \in Waits(u)' : Within(q, LeftOf(stack'[u][i]))
    BY DEF Under
  <2>1. u \in Born' /\ q \in Born'
    BY DEF Born, Running
  <2>2. CASE u = c
    <3>1. q \in Born /\ Running(q)
      BY <1>2, <1>9, <2>1, <2>2
    <3>2. q # p
      BY <1>1, <2>2, SameEnds
    <3>3. Within(q, p)
      BY <1>1, <2>2, WithinBoth
    <3>4. Disjoint(q, r)
      BY <1>1, <1>4, <3>1, <3>2, <3>3, NobodyInside
    <3> QED
      BY <1>1, <2>2, <3>4, RangeIs DEF Disjoint, Within
  <2>3. CASE u = p /\ q = c
    <3>1. Within(c, c) /\ 2 \in Waits(p)'
      BY <1>1, <1>7, RangeIs, SMTT(30) DEF Within
    <3> QED
      BY <1>4, <1>5, <2>3, <3>1
  <2>4. CASE u = p /\ q # c
    <3>1. q \in Born /\ Running(q)
      BY <1>2, <1>9, <2>1, <2>4
    <3>2. CASE Orphan(q)
      BY <1>8, <3>2
    <3>3. CASE \E i \in Waits(p) : Within(q, LeftOf(stack[p][i]))
      <4>1. PICK i \in Waits(p) : Within(q, LeftOf(stack[p][i]))
        BY <3>3
      <4>2. i \in DOMAIN stack[p]
        BY DEF Waits
      <4>3. i + 1 \in Waits(p)' /\ stack'[p][i + 1] = stack[p][i]
        BY <1>5, <1>7, <4>2
      <4> QED
        BY <2>4, <4>1, <4>3
    <3> QED
      BY <1>1, <2>4, <3>1, <3>2, <3>3 DEF Tree, Under, Running
  <2>5. CASE u \notin {p, c} /\ q # c
    <3>1. Running(q)
      BY <1>2, <1>9, <2>1, <2>5
    <3> QED
      BY <1>2, <1>6, <1>8, <2>5, <3>1 DEF Tree, Under
  <2>6. CASE u \notin {p, c} /\ q = c
    <3>1. status[u] \in {"running", "ok"} /\ u \in Born
      BY <1>2, <2>6 DEF Born
    <3>2. Within(p, u) \/ status[u] = "ok"
      BY <1>12, <2>6, <3>1 DEF Running
    <3>3. Within(p, u)
      <4>1. Disjoint(p, u) \/ Within(p, u) \/ Within(u, p)
        BY <1>1, <3>1 DEF Tree, Nested
      <4>2. ~Disjoint(p, u)
        BY <1>1, <2>6, RangeIs DEF Disjoint, Within
      <4>3. CASE Within(u, p)
        <5>1. Disjoint(u, r)
          BY <1>1, <1>4, <2>6, <3>1, <4>3, NobodyInside
        <5> QED
          BY <1>1, <2>6, <5>1, RangeIs DEF Disjoint, Within
      <4> QED
        BY <4>1, <4>2, <4>3
    <3>4. CASE Orphan(p)
      BY <1>1, <1>8, <2>6, <3>4, WithinBoth DEF Orphan
    <3>5. CASE \E i \in Waits(u) : Within(p, LeftOf(stack[u][i]))
      <4>1. PICK i \in Waits(u) : Within(p, LeftOf(stack[u][i]))
        BY <3>5
      <4>2. Running(u) /\ i \in Forked(u)
        BY DEF Waits, Forked, Merging, Tree, Shape
      <4>3. LeftOf(stack[u][i]) \in Ranges
        BY <4>2, CallIs DEF Tree, Born
      <4>4. Within(c, LeftOf(stack[u][i]))
        BY <1>1, <4>1, <4>3, WithinBoth
      <4> QED
        BY <1>2, <1>6, <2>6, <4>4
    <3> QED
      BY <1>1, <2>6, <3>1, <3>3, <3>4, <3>5 DEF Tree, Under
  <2> QED
    BY <2>2, <2>3, <2>4, <2>5, <2>6
<1>15. Awaited'
  <2> SUFFICES ASSUME NEW q \in Born' \ {Root}
               PROVE  \/ q \in reaped' \/ Orphan(q)'
                      \/ \E u \in Ranges : \E i \in Waits(u)' : q = LeftOf(stack'[u][i])
    BY DEF Awaited
  <2>1. CASE q = c
    <3>1. 2 \in Waits(p)'
      BY <1>7
    <3> QED
      BY <1>4, <1>5, <2>1, <3>1
  <2>2. CASE q # c
    <3>1. q \in Born /\ q \in Ranges
      BY <1>2, <2>2 DEF Born
    <3>2. CASE q \in reaped \/ Orphan(q)
      BY <1>2, <1>8, <3>1, <3>2
    <3>3. CASE \E u \in Ranges : \E i \in Waits(u) : q = LeftOf(stack[u][i])
      <4>1. PICK u \in Ranges : \E i \in Waits(u) : q = LeftOf(stack[u][i])
        BY <3>3
      <4>2. PICK i \in Waits(u) : q = LeftOf(stack[u][i])
        BY <4>1
      <4>3. Running(u) /\ i \in DOMAIN stack[u]
        BY DEF Waits, Tree, Shape
      <4>4. u # c
        BY <1>1, <4>3 DEF Born, Running
      <4>5. CASE u = p
        <5>1. i + 1 \in Waits(p)' /\ stack'[p][i + 1] = stack[p][i]
          BY <1>5, <1>7, <4>3, <4>5
        <5> QED
          BY <4>2, <4>5, <5>1
      <4>6. CASE u # p
        BY <1>2, <1>6, <4>2, <4>4, <4>6
      <4> QED
        BY <4>5, <4>6
    <3> QED
      BY <3>1, <3>2, <3>3 DEF Tree, Awaited
  <2> QED
    BY <2>1, <2>2
<1>16. Counted'
  BY <1>2 DEF Tree, Counted
<1> QED
  BY <1>10, <1>11, <1>13, <1>14, <1>15, <1>16 DEF Tree

\* A step inside a call leaves the tree as it was.
LEMMA StayTree ==
  ASSUME Tree, TypeOK', NEW p \in Ranges, NEW s \in Steps, Running(p),
         pc' = [pc EXCEPT ![p] = s],
         \/ pc[p] = "call" /\ s = "sort"
         \/ pc[p] \in {"merge", "take", "copy"} /\ s \in {"merge", "take", "copy"},
         UNCHANGED <<stack, status, reaped, nfail>>
  PROVE  /\ Tree'
         /\ \A q \in Ranges : (Sound(q)' <=> Sound(q)) /\ (q # p => pc'[q] = pc[q])
<1>1. \A q \in Ranges : pc'[q] = IF q = p THEN s ELSE pc[q]
  BY DEF Tree, TypeOK
<1>2. /\ Born' = Born
      /\ \A q \in Ranges : (Running(q)' <=> Running(q)) /\ (Failed(q)' <=> Failed(q))
  BY DEF Born, Running, Failed
<1>3. \A q \in Ranges : (Orphan(q)' <=> Orphan(q)) /\ (Sound(q)' <=> Sound(q))
  BY <1>2 DEF Orphan, Sound
<1>4. \A q \in Ranges : Forked(q)' = Forked(q) /\ Waits(q)' = Waits(q)
  BY <1>1 DEF Forked, Waits, Merging
<1>5. Shape'
  BY <1>1, <1>2, <1>4 DEF Tree, Shape, Running
<1>6. Nested'
  BY <1>2 DEF Tree, Nested
<1>7. Placed'
  <2> SUFFICES ASSUME NEW u \in Born, NEW q \in Born, Running(u), q # u, Within(q, u)
               PROVE  \E i \in Forked(u)' :
                         \/ Within(q, LeftOf(stack'[u][i]))
                         \/ i = 1 /\ Within(q, RightOf(stack'[u][i]))
    BY <1>2 DEF Placed, Born
  <2>1. u \in Ranges
    BY DEF Born
  <2> QED
    BY <1>4, <2>1 DEF Tree, Placed
<1>8. Under'
  BY <1>2, <1>3, <1>4 DEF Tree, Under
<1>9. Awaited'
  <2> SUFFICES ASSUME NEW q \in Born \ {Root}
               PROVE  \/ q \in reaped' \/ Orphan(q)'
                      \/ \E u \in Ranges : \E i \in Waits(u)' : q = LeftOf(stack'[u][i])
    BY <1>2 DEF Awaited
  <2>1. q \in Ranges
    BY DEF Born
  <2> QED
    BY <1>3, <1>4, <2>1 DEF Tree, Awaited
<1>10. Counted'
  BY <1>2 DEF Tree, Counted
<1> QED
  BY <1>1, <1>3, <1>5, <1>6, <1>7, <1>8, <1>9, <1>10 DEF Tree

\* So does the return of a call to the one that waits for its left half.
LEMMA ReturnTree ==
  ASSUME Tree, TypeOK', NEW p \in Ranges, Running(p), pc[p] \in {"sort", "copy"},
         Len(stack[p]) # 1,
         stack' = [stack EXCEPT ![p] = Tail(@)], pc' = [pc EXCEPT ![p] = "wait"],
         UNCHANGED <<status, reaped, nfail>>
  PROVE  /\ Tree'
         /\ \A q \in Ranges : Sound(q)' <=> Sound(q)
         /\ \A q \in Ranges \ {p} : pc'[q] = pc[q] /\ stack'[q] = stack[q]
         /\ pc'[p] = "wait" /\ Top(p)' \in Ranges /\ Top(p) = RightOf(Top(p)')
<1>1. /\ \A q \in Ranges \ {p} : pc'[q] = pc[q] /\ stack'[q] = stack[q]
      /\ pc'[p] = "wait" /\ stack'[p] = Tail(stack[p])
  BY DEF Tree, TypeOK
<1>2. /\ Born' = Born
      /\ \A q \in Ranges : (Running(q)' <=> Running(q)) /\ (Failed(q)' <=> Failed(q))
  BY DEF Born, Running, Failed
<1>3. \A q \in Ranges : (Orphan(q)' <=> Orphan(q)) /\ (Sound(q)' <=> Sound(q))
  BY <1>2 DEF Orphan, Sound
<1>4. /\ stack[p] \in Seq(Ranges) /\ Len(stack[p]) \in Nat /\ Len(stack[p]) > 1
      /\ DOMAIN stack[p] = 1 .. Len(stack[p]) /\ Top(p) = stack[p][1] /\ Top(p) \in Ranges
      /\ \A i \in DOMAIN stack[p] : stack[p][i] \in Ranges
  BY StackIs, TailIs DEF Tree
<1>5. /\ Len(stack'[p]) = Len(stack[p]) - 1 /\ DOMAIN stack'[p] = 1 .. Len(stack[p]) - 1
      /\ \A i \in DOMAIN stack'[p] : stack'[p][i] = stack[p][i + 1] /\ i + 1 \in DOMAIN stack[p]
      /\ stack'[p] # <<>>
  <2>1. /\ Len(Tail(stack[p])) = Len(stack[p]) - 1
        /\ DOMAIN Tail(stack[p]) = 1 .. Len(stack[p]) - 1 /\ Tail(stack[p]) # <<>>
        /\ \A i \in 1 .. Len(stack[p]) - 1 :
             Tail(stack[p])[i] = stack[p][i + 1] /\ i + 1 \in 1 .. Len(stack[p])
    BY StackIs, TailIs DEF Tree
  <2> QED
    BY <1>1, <1>4, <2>1
<1>6. \A q \in Ranges \ {p} : Forked(q)' = Forked(q) /\ Waits(q)' = Waits(q)
  BY <1>1 DEF Forked, Waits
<1>7. /\ Forked(p)' = DOMAIN stack'[p] /\ Waits(p)' = DOMAIN stack'[p]
      /\ \A i \in Waits(p) : i - 1 \in Waits(p)' /\ stack'[p][i - 1] = stack[p][i]
      /\ \A i \in Forked(p) : i # 1 => i - 1 \in Forked(p)' /\ stack'[p][i - 1] = stack[p][i]
      /\ 1 \in Forked(p)' /\ stack'[p][1] = stack[p][2] /\ Top(p)' = stack[p][2]
  <2>1. Forked(p)' = DOMAIN stack'[p] /\ Waits(p)' = DOMAIN stack'[p]
    BY <1>1 DEF Forked, Waits, Merging
  <2>2. \A i \in DOMAIN stack[p] : i # 1 =>
          i - 1 \in DOMAIN stack'[p] /\ stack'[p][i - 1] = stack[p][i]
    BY <1>4, <1>5
  <2>3. 1 \in DOMAIN stack'[p] /\ stack'[p][1] = stack[p][2]
    BY <1>4, <1>5
  <2>4. Top(p)' = stack'[p][1]
    BY <1>4, <1>5, <1>1 DEF Top
  <2> QED
    BY <2>1, <2>2, <2>3, <2>4 DEF Forked, Waits
<1>8. Top(p) = RightOf(Top(p)') /\ Top(p)' \in Ranges
  <2>1. 1 \in DOMAIN stack[p] /\ 2 \in DOMAIN stack[p] /\ 2 = 1 + 1
    BY <1>4
  <2> QED
    <3>1. stack[p][1] = RightOf(stack[p][2]) /\ stack[p][2] \in Ranges
      BY <1>4, <2>1 DEF Tree, Shape
    <3> QED
      BY <1>4, <1>7, <3>1, Zenon
<1>9. Shape'
  <2> SUFFICES ASSUME NEW q \in Ranges
               PROVE  /\ ~Running(q)' => stack'[q] = <<>> /\ pc'[q] = "none"
                      /\ Running(q)' => stack'[q][Len(stack'[q])] = q
                      /\ \A i \in Forked(q)' : Size(stack'[q][i]) >= 2 /\ LeftOf(stack'[q][i]) \in Born'
                      /\ \A i, j \in DOMAIN stack'[q] :
                           i < j => Within(stack'[q][i], RightOf(stack'[q][j]))
                      /\ \A i, j \in DOMAIN stack'[q] :
                           j = i + 1 => stack'[q][i] = RightOf(stack'[q][j])
    BY DEF Shape
  <2>1. CASE q # p
    BY <1>1, <1>2, <1>6, <2>1 DEF Tree, Shape
  <2>2. CASE q = p
    <3>1. Running(p)' /\ stack'[p][Len(stack'[p])] = p
      <4>1. stack[p][Len(stack[p])] = p
        BY DEF Tree, Shape
      <4> QED
        BY <1>2, <1>4, <1>5, <4>1
    <3>2. \A i \in Forked(p)' : Size(stack'[p][i]) >= 2 /\ LeftOf(stack'[p][i]) \in Born'
      <4> SUFFICES ASSUME NEW i \in Forked(p)'
                   PROVE  Size(stack'[p][i]) >= 2 /\ LeftOf(stack'[p][i]) \in Born'
        OBVIOUS
      <4>1. stack'[p][i] = stack[p][i + 1] /\ i + 1 \in DOMAIN stack[p] /\ i + 1 > 1
        BY <1>4, <1>5, <1>7
      <4> QED
        BY <1>2, <4>1 DEF Tree, Shape, Forked
    <3>3. ASSUME NEW i \in DOMAIN stack'[p], NEW j \in DOMAIN stack'[p], i < j
          PROVE  Within(stack'[p][i], RightOf(stack'[p][j]))
      <4>1. i + 1 \in DOMAIN stack[p] /\ j + 1 \in DOMAIN stack[p] /\ i + 1 < j + 1
        BY <1>4, <1>5, <3>3
      <4> QED
        BY <1>5, <4>1 DEF Tree, Shape
    <3>4. ASSUME NEW i \in DOMAIN stack'[p], NEW j \in DOMAIN stack'[p], j = i + 1
          PROVE  stack'[p][i] = RightOf(stack'[p][j])
      <4>1. i + 1 \in DOMAIN stack[p] /\ j + 1 \in DOMAIN stack[p] /\ j + 1 = (i + 1) + 1
        BY <1>4, <1>5, <3>4
      <4> QED
        BY <1>5, <4>1 DEF Tree, Shape
    <3>5. \A i, j \in DOMAIN stack'[p] :
            /\ i < j => Within(stack'[p][i], RightOf(stack'[p][j]))
            /\ j = i + 1 => stack'[p][i] = RightOf(stack'[p][j])
      BY <3>3, <3>4
    <3>6. ~Running(q)' => stack'[q] = <<>> /\ pc'[q] = "none"
      BY <2>2, <3>1
    <3>7. Running(q)' => stack'[q][Len(stack'[q])] = q
      BY <2>2, <3>1
    <3>8. \A i \in Forked(q)' : Size(stack'[q][i]) >= 2 /\ LeftOf(stack'[q][i]) \in Born'
      BY <2>2, <3>2
    <3>9. \A i, j \in DOMAIN stack'[q] :
            /\ i < j => Within(stack'[q][i], RightOf(stack'[q][j]))
            /\ j = i + 1 => stack'[q][i] = RightOf(stack'[q][j])
      BY <2>2, <3>5
    <3> QED
      BY <3>6, <3>7, <3>8, <3>9
  <2> QED
    BY <2>1, <2>2
<1>10. Nested'
  BY <1>2 DEF Tree, Nested
<1>11. Placed'
  <2> SUFFICES ASSUME NEW u \in Born, NEW q \in Born, Running(u), q # u, Within(q, u)
               PROVE  \E i \in Forked(u)' :
                         \/ Within(q, LeftOf(stack'[u][i]))
                         \/ i = 1 /\ Within(q, RightOf(stack'[u][i]))
    BY <1>2 DEF Placed, Born
  <2>1. u \in Ranges /\ q \in Ranges
    BY DEF Born
  <2>2. PICK i \in Forked(u) :
          \/ Within(q, LeftOf(stack[u][i]))
          \/ i = 1 /\ Within(q, RightOf(stack[u][i]))
    BY DEF Tree, Placed
  <2>3. CASE u # p
    BY <1>1, <1>6, <2>1, <2>2, <2>3
  <2>4. CASE u = p /\ i # 1
    BY <1>7, <2>2, <2>4
  <2>5. CASE u = p /\ i = 1
    <3>1. Within(q, Top(p))
      <4>1. /\ Top(p) = stack[p][1] /\ Size(Top(p)) >= 2
            /\ Within(LeftOf(Top(p)), Top(p)) /\ Within(RightOf(Top(p)), Top(p))
        BY <1>4, <2>5, CallIs DEF Tree
      <4>2. LeftOf(Top(p)) \in Ranges /\ RightOf(Top(p)) \in Ranges
        BY <1>4, <4>1, HalvesAre
      <4> QED
        BY <1>4, <2>1, <2>2, <2>5, <4>1, <4>2, WithinBoth
    <3>2. Within(q, RightOf(stack'[p][1])) /\ 1 \in Forked(p)'
      BY <1>7, <1>8, <3>1, Zenon
    <3> QED
      BY <2>5, <3>2
  <2> QED
    BY <2>3, <2>4, <2>5
<1>12. Under'
  <2> SUFFICES ASSUME NEW u \in Ranges, NEW q \in Ranges, status[u] \in {"running", "ok"},
                      Running(q), q # u, Within(q, u)
               PROVE  \/ Orphan(q)
                      \/ \E i \in Waits(u)' : Within(q, LeftOf(stack'[u][i]))
    BY <1>2, <1>3 DEF Under
  <2>1. Orphan(q) \/ \E i \in Waits(u) : Within(q, LeftOf(stack[u][i]))
    BY DEF Tree, Under
  <2>2. CASE u # p
    BY <1>1, <1>6, <2>1, <2>2
  <2>3. CASE u = p
    BY <1>7, <2>1, <2>3
  <2> QED
    BY <2>2, <2>3
<1>13. Awaited'
  <2> SUFFICES ASSUME NEW q \in Born \ {Root}
               PROVE  \/ q \in reaped \/ Orphan(q)
                      \/ \E u \in Ranges : \E i \in Waits(u)' : q = LeftOf(stack'[u][i])
    BY <1>2, <1>3 DEF Awaited, Born
  <2>1. CASE q \in reaped \/ Orphan(q)
    BY <2>1
  <2>2. CASE \E u \in Ranges : \E i \in Waits(u) : q = LeftOf(stack[u][i])
    <3>1. PICK u \in Ranges : \E i \in Waits(u) : q = LeftOf(stack[u][i])
      BY <2>2
    <3>2. PICK i \in Waits(u) : q = LeftOf(stack[u][i])
      BY <3>1
    <3>3. CASE u # p
      BY <1>1, <1>6, <3>2, <3>3
    <3>4. CASE u = p
      BY <1>7, <3>2, <3>4
    <3> QED
      BY <3>3, <3>4
  <2> QED
    BY <2>1, <2>2 DEF Tree, Awaited
<1>14. Counted'
  BY <1>2 DEF Tree, Counted
<1> QED
  BY <1>1, <1>3, <1>8, <1>9, <1>10, <1>11, <1>12, <1>13, <1>14 DEF Tree

\* waitpid takes its child out of those that run or are awaited.
LEMMA WaitTree ==
  ASSUME Tree, TypeOK', NEW p \in Ranges, Wait(p)
  PROVE  /\ Tree'
         /\ \A q \in Ranges : Sound(q)' <=> Sound(q)
         /\ \A q \in Ranges \ {p} : pc'[q] = pc[q]
<1>0. PICK c \in Ranges : c = LeftOf(Top(p)) /\ c \in Born /\ c # p /\ Within(c, p)
  <2>1. Running(p) /\ 1 \in Forked(p) /\ Top(p) = stack[p][1]
    BY StackIs DEF Tree, Wait, At, Running, Forked, Merging
  <2> QED
    BY <2>1, CallIs DEF Tree, Born
<1>1. /\ Running(p) /\ pc[p] = "wait" /\ ~Running(c)
      /\ pc' = [pc EXCEPT ![p] = "merge"] /\ reaped' = reaped \cup {c}
      /\ UNCHANGED <<stack, status, nfail>>
  BY <1>0 DEF Wait, At, Running
<1>2. \A q \in Ranges : pc'[q] = IF q = p THEN "merge" ELSE pc[q]
  BY <1>1 DEF Tree, TypeOK
<1>3. /\ Born' = Born
      /\ \A q \in Ranges : (Running(q)' <=> Running(q)) /\ (Failed(q)' <=> Failed(q))
  BY <1>1 DEF Born, Running, Failed
<1>4. \A q \in Ranges : (Orphan(q)' <=> Orphan(q)) /\ (Sound(q)' <=> Sound(q))
  BY <1>3 DEF Orphan, Sound
<1>5. \A q \in Ranges : Forked(q)' = Forked(q) /\ (q # p => Waits(q)' = Waits(q))
  BY <1>1, <1>2 DEF Forked, Waits, Merging
<1>6. \A i \in Waits(p) : i # 1 => i \in Waits(p)'
  BY <1>1, StackIs DEF Waits, Tree
<1>7. Top(p) = stack[p][1]
  BY <1>1, StackIs DEF Tree
<1>8. Shape'
  BY <1>1, <1>2, <1>3, <1>5 DEF Tree, Shape, Running
<1>9. Nested'
  BY <1>3 DEF Tree, Nested
<1>10. Placed'
  <2> SUFFICES ASSUME NEW u \in Born, NEW q \in Born, Running(u), q # u, Within(q, u)
               PROVE  \E i \in Forked(u)' :
                         \/ Within(q, LeftOf(stack'[u][i]))
                         \/ i = 1 /\ Within(q, RightOf(stack'[u][i]))
    BY <1>3 DEF Placed, Born
  <2>1. u \in Ranges
    BY DEF Born
  <2> QED
    BY <1>1, <1>5, <2>1 DEF Tree, Placed
<1>11. Under'
  <2> SUFFICES ASSUME NEW u \in Ranges, NEW q \in Ranges, status[u] \in {"running", "ok"},
                      Running(q), q # u, Within(q, u)
               PROVE  Orphan(q) \/ \E i \in Waits(u)' : Within(q, LeftOf(stack'[u][i]))
    BY <1>1, <1>3, <1>4 DEF Under
  <2>1. CASE Orphan(q)
    BY <2>1
  <2>2. CASE \E i \in Waits(u) : Within(q, LeftOf(stack[u][i]))
    <3>1. PICK i \in Waits(u) : Within(q, LeftOf(stack[u][i]))
      BY <2>2
    <3>2. CASE u # p
      BY <1>1, <1>5, <3>1, <3>2
    <3>3. CASE u = p /\ i # 1
      BY <1>1, <1>6, <3>1, <3>3
    <3>4. CASE u = p /\ i = 1
      <4>1. Within(q, c) /\ q # c
        BY <1>0, <1>1, <1>7, <3>1, <3>4
      <4>2. CASE Failed(c)
        BY <4>1, <4>2 DEF Orphan
      <4>3. CASE status[c] = "ok"
        <5>1. Waits(c) = {}
          BY <1>1 DEF Waits, Tree, Shape
        <5> QED
          BY <4>1, <4>3, <5>1 DEF Tree, Under
      <4>4. status[c] \in {"ok", "failed", "killed"}
        BY <1>0, <1>1 DEF Born, Running, Tree, TypeOK, Statuses
      <4> QED
        BY <4>2, <4>3, <4>4 DEF Failed
    <3> QED
      BY <3>2, <3>3, <3>4
  <2> QED
    BY <2>1, <2>2 DEF Tree, Under
<1>12. Awaited'
  <2> SUFFICES ASSUME NEW q \in Born \ {Root}, q # c
               PROVE  \/ q \in reaped \/ Orphan(q)
                      \/ \E u \in Ranges : \E i \in Waits(u)' : q = LeftOf(stack'[u][i])
    BY <1>1, <1>3, <1>4 DEF Awaited, Born
  <2>1. CASE q \in reaped \/ Orphan(q)
    BY <2>1
  <2>2. CASE \E u \in Ranges : \E i \in Waits(u) : q = LeftOf(stack[u][i])
    <3>1. PICK u \in Ranges : \E i \in Waits(u) : q = LeftOf(stack[u][i])
      BY <2>2
    <3>2. PICK i \in Waits(u) : q = LeftOf(stack[u][i])
      BY <3>1
    <3>3. CASE u # p
      BY <1>1, <1>5, <3>2, <3>3
    <3>4. CASE u = p
      <4>1. i # 1
        BY <1>0, <1>7, <3>2, <3>4
      <4> QED
        BY <1>1, <1>6, <3>2, <3>4, <4>1
    <3> QED
      BY <3>3, <3>4
  <2> QED
    BY <2>1, <2>2 DEF Tree, Awaited
<1>13. Counted'
  BY <1>1, <1>3 DEF Tree, Counted
<1> QED
  BY <1>2, <1>4, <1>8, <1>9, <1>10, <1>11, <1>12, <1>13 DEF Tree

\* A process ends: it exits at the end of its first call, or fails anywhere.
LEMMA EndTree ==
  ASSUME Tree, TypeOK', NEW p \in Ranges, NEW s \in {"ok", "failed", "killed"},
         Running(p), End(p, s), reaped' = reaped,
         IF s = "ok"
         THEN Len(stack[p]) = 1 /\ pc[p] \in {"sort", "copy"} /\ nfail' = nfail
         ELSE nfail' = nfail + 1
  PROVE  /\ Tree'
         /\ \A q \in Ranges : /\ Sound(q)' => Sound(q)
                              /\ s # "ok" /\ Within(q, p) => ~Sound(q)'
         /\ \A q \in Ranges \ {p} : /\ pc'[q] = pc[q] /\ stack'[q] = stack[q]
                                    /\ status'[q] = status[q]
         /\ status'[p] = s /\ pc'[p] = "none"
<1>1. /\ \A q \in Ranges \ {p} :
           pc'[q] = pc[q] /\ stack'[q] = stack[q] /\ status'[q] = status[q]
      /\ status'[p] = s /\ pc'[p] = "none" /\ stack'[p] = <<>>
  BY DEF End, Tree, TypeOK
<1>2. /\ Born' = Born /\ ~Running(p)'
      /\ \A q \in Ranges \ {p} : Running(q)' <=> Running(q)
      /\ \A q \in Ranges : Failed(q)' <=> Failed(q) \/ (q = p /\ s # "ok")
  BY <1>1 DEF Born, Running, Failed
<1>3. \A q \in Ranges : Orphan(q)' <=> Orphan(q) \/ (Within(q, p) /\ s # "ok")
  BY <1>2 DEF Orphan
<1>4. \A q \in Ranges : /\ Sound(q)' => Sound(q)
                        /\ s # "ok" /\ Within(q, p) => ~Sound(q)'
  BY <1>2 DEF Sound
<1>5. /\ \A q \in Ranges \ {p} : Forked(q)' = Forked(q) /\ Waits(q)' = Waits(q)
      /\ Forked(p)' = {} /\ Waits(p)' = {}
  BY <1>1 DEF Forked, Waits
<1>6. \A i \in Waits(p) : Within(LeftOf(stack[p][i]), p) /\ i \in DOMAIN stack[p]
  <2>1. Waits(p) \subseteq Forked(p)
    BY DEF Waits, Forked, Merging
  <2> QED
    BY <2>1, CallIs DEF Tree, Waits
<1>7. s = "ok" => Waits(p) = {}
  <2> SUFFICES ASSUME s = "ok", NEW i \in Waits(p)
               PROVE  FALSE
    OBVIOUS
  <2>1. pc[p] # "wait" /\ Len(stack[p]) = 1
    OBVIOUS
  <2>2. i \in 1 .. Len(stack[p]) /\ i > 1
    BY <2>1, StackIs DEF Waits, Tree
  <2> QED
    BY <2>1, <2>2
<1>8. Shape'
  <2> SUFFICES ASSUME NEW q \in Ranges
               PROVE  /\ ~Running(q)' => stack'[q] = <<>> /\ pc'[q] = "none"
                      /\ Running(q)' => stack'[q][Len(stack'[q])] = q
                      /\ \A i \in Forked(q)' : Size(stack'[q][i]) >= 2 /\ LeftOf(stack'[q][i]) \in Born'
                      /\ \A i, j \in DOMAIN stack'[q] :
                           i < j => Within(stack'[q][i], RightOf(stack'[q][j]))
                      /\ \A i, j \in DOMAIN stack'[q] :
                           j = i + 1 => stack'[q][i] = RightOf(stack'[q][j])
    BY DEF Shape
  <2>1. CASE q # p
    BY <1>1, <1>2, <1>5, <2>1 DEF Tree, Shape
  <2>2. CASE q = p
    <3>1. DOMAIN stack'[p] = {}
      BY <1>1
    <3> QED
      BY <1>1, <1>2, <1>5, <2>2, <3>1
  <2> QED
    BY <2>1, <2>2
<1>9. Nested'
  BY <1>2 DEF Tree, Nested
<1>10. Placed'
  <2> SUFFICES ASSUME NEW u \in Born, NEW q \in Born, u # p, Running(u), q # u, Within(q, u)
               PROVE  \E i \in Forked(u)' :
                         \/ Within(q, LeftOf(stack'[u][i]))
                         \/ i = 1 /\ Within(q, RightOf(stack'[u][i]))
    BY <1>2 DEF Placed, Born
  <2>1. u \in Ranges \ {p}
    BY DEF Born
  <2> QED
    BY <1>1, <1>5, <2>1 DEF Tree, Placed
<1>11. Under'
  <2> SUFFICES ASSUME NEW u \in Ranges, NEW q \in Ranges \ {p}, status'[u] \in {"running", "ok"},
                      Running(q), q # u, Within(q, u)
               PROVE  Orphan(q)' \/ \E i \in Waits(u)' : Within(q, LeftOf(stack'[u][i]))
    BY <1>2 DEF Under
  <2>1. status[u] \in {"running", "ok"} /\ (u = p => s = "ok")
    BY <1>1 DEF Running
  <2>2. Orphan(q) \/ \E i \in Waits(u) : Within(q, LeftOf(stack[u][i]))
    BY <2>1 DEF Tree, Under
  <2>3. CASE u # p
    BY <1>1, <1>3, <1>5, <2>2, <2>3
  <2>4. CASE u = p
    BY <1>3, <1>7, <2>1, <2>2, <2>4
  <2> QED
    BY <2>3, <2>4
<1>12. Awaited'
  <2> SUFFICES ASSUME NEW q \in Born \ {Root}
               PROVE  \/ q \in reaped \/ Orphan(q)'
                      \/ \E u \in Ranges : \E i \in Waits(u)' : q = LeftOf(stack'[u][i])
    BY <1>2 DEF Awaited, Born
  <2>1. q \in Ranges
    BY DEF Born
  <2>2. CASE q \in reaped \/ Orphan(q)
    BY <1>3, <2>1, <2>2
  <2>3. CASE \E u \in Ranges : \E i \in Waits(u) : q = LeftOf(stack[u][i])
    <3>1. PICK u \in Ranges : \E i \in Waits(u) : q = LeftOf(stack[u][i])
      BY <2>3
    <3>2. PICK i \in Waits(u) : q = LeftOf(stack[u][i])
      BY <3>1
    <3>3. CASE u # p
      BY <1>1, <1>5, <3>2, <3>3
    <3>4. CASE u = p
      BY <1>3, <1>6, <1>7, <2>1, <3>2, <3>4
    <3> QED
      BY <3>3, <3>4
  <2> QED
    BY <2>2, <2>3 DEF Tree, Awaited
<1>13. Counted'
  <2>1. CASE s = "ok"
    BY <1>2, <2>1 DEF Tree, Counted
  <2>2. CASE s # "ok"
    BY <2>2 DEF Tree, TypeOK, Counted
  <2> QED
    BY <2>1, <2>2
<1> QED
  BY <1>1, <1>4, <1>8, <1>9, <1>10, <1>11, <1>12, <1>13 DEF Tree

-----------------------------------------------------------------------------
(* The types, and the loops of merge and of the copy back *)

\* A process that merges is in a call that is cut.
LEMMA MergingIs ==
  ASSUME TypeOK, Shape, NEW p \in Ranges, Running(p), pc[p] \in Merging
  PROVE  /\ Top(p) \in Ranges /\ Size(Top(p)) >= 2
         /\ LeftOf(Top(p)) \in Ranges /\ RightOf(Top(p)) \in Ranges
         /\ Top(p)[1] \in 0 .. N /\ Mid(Top(p)) \in 0 .. N /\ Top(p)[2] \in 0 .. N
         /\ Top(p)[1] < Mid(Top(p)) /\ Mid(Top(p)) < Top(p)[2]
<1>1. 1 \in Forked(p) /\ Top(p) = stack[p][1] /\ Top(p) \in Ranges
  BY StackIs DEF Forked
<1>2. Size(Top(p)) >= 2
  BY <1>1 DEF Shape
<1> QED
  BY <1>1, <1>2, HalvesAre, RangeIs

\* What merge takes next is an element of its range that was not taken.
LEMMA TakeIs ==
  ASSUME TypeOK, Shape, Loops, NEW p \in Ranges, At(p, "take")
  PROVE  /\ idx[p] \in Top(p)[1] .. Mid(Top(p)) /\ RightIdx(p) \in Mid(Top(p)) .. Top(p)[2]
         /\ Len(temp[p]) \in Nat /\ Len(temp[p]) < Size(Top(p))
         /\ RightIdx(p) = Mid(Top(p)) + (Len(temp[p]) - (idx[p] - Top(p)[1]))
         /\ TakesLeft(p) => idx[p] < Mid(Top(p)) /\ idx[p] \in Indices
         /\ ~TakesLeft(p) => RightIdx(p) < Top(p)[2] /\ RightIdx(p) \in Indices
<1>1. /\ Top(p)[1] \in 0 .. N /\ Mid(Top(p)) \in 0 .. N /\ Top(p)[2] \in 0 .. N
      /\ Top(p)[1] < Mid(Top(p)) /\ Mid(Top(p)) < Top(p)[2]
  BY MergingIs DEF At, Running, Merging
<1>2. /\ idx[p] \in Top(p)[1] .. Mid(Top(p)) /\ RightIdx(p) \in Mid(Top(p)) .. Top(p)[2]
      /\ Len(temp[p]) < Size(Top(p))
  BY DEF Loops, At
<1>3. Len(temp[p]) \in Nat /\ temp[p] \in Seq(Values)
  BY DEF TypeOK
<1>4. RightIdx(p) = Mid(Top(p)) + (Len(temp[p]) - (idx[p] - Top(p)[1]))
  BY DEF RightIdx
<1>5. TakesLeft(p) => idx[p] < Mid(Top(p)) /\ idx[p] \in Indices
  BY <1>1, <1>2, SortAssumption DEF TakesLeft, Indices
<1>6. ~TakesLeft(p) => RightIdx(p) < Top(p)[2] /\ RightIdx(p) \in Indices
  <2> SUFFICES ASSUME ~TakesLeft(p)
               PROVE  RightIdx(p) < Top(p)[2] /\ RightIdx(p) \in Indices
    OBVIOUS
  <2>1. RightIdx(p) # Top(p)[2]
    <3>1. CASE idx[p] < Mid(Top(p))
      BY <3>1 DEF TakesLeft
    <3>2. CASE idx[p] = Mid(Top(p))
      BY <1>1, <1>2, <1>3, <1>4, <3>2 DEF Size
    <3> QED
      BY <1>1, <1>2, <3>1, <3>2
  <2> QED
    BY <1>1, <1>2, <2>1, SortAssumption DEF Indices
<1> QED
  BY <1>2, <1>3, <1>4, <1>5, <1>6

\* The element that the copy back writes.
LEMMA CopyIs ==
  ASSUME TypeOK, Shape, Loops, NEW p \in Ranges, At(p, "copy")
  PROVE  /\ Top(p)[1] \in 0 .. N /\ Top(p)[2] \in 0 .. N
         /\ idx[p] \in Top(p)[1] .. Top(p)[2] - 1 /\ idx[p] \in Indices
         /\ temp[p] \in Seq(Values) /\ Len(temp[p]) = Top(p)[2] - Top(p)[1]
         /\ DOMAIN temp[p] = 1 .. Top(p)[2] - Top(p)[1]
         /\ idx[p] - Top(p)[1] + 1 \in DOMAIN temp[p]
         /\ temp[p][idx[p] - Top(p)[1] + 1] \in Values
<1>1. Top(p)[1] \in 0 .. N /\ Top(p)[2] \in 0 .. N
  BY MergingIs DEF At, Running, Merging
<1>2. idx[p] \in Top(p)[1] .. Top(p)[2] - 1 /\ Len(temp[p]) = Top(p)[2] - Top(p)[1]
  BY DEF Loops, At, Cells, Size
<1>3. temp[p] \in Seq(Values)
  BY DEF TypeOK
<1>4. DOMAIN temp[p] = 1 .. Top(p)[2] - Top(p)[1]
  BY <1>2, <1>3
<1>5. idx[p] \in Indices /\ idx[p] - Top(p)[1] + 1 \in DOMAIN temp[p]
  BY <1>1, <1>2, <1>4, SortAssumption, SMTT(30) DEF Indices
<1> QED
  BY <1>1, <1>2, <1>3, <1>4, <1>5

\* The types of what ends or returns.
LEMMA EndTypes ==
  ASSUME TypeOK, NEW p \in Ranges, NEW s \in {"ok", "failed", "killed"}, End(p, s),
         arr' \in [Indices -> Values], nfail' \in 0 .. MaxFailures,
         UNCHANGED <<reaped, input>>
  PROVE  TypeOK'
BY SortAssumption DEF End, TypeOK, Steps, Statuses

LEMMA ReturnTypes ==
  ASSUME TypeOK, Shape, NEW p \in Ranges, Running(p), Return(p),
         arr' \in [Indices -> Values], UNCHANGED <<reaped, nfail, input>>
  PROVE  TypeOK'
<1>1. CASE Len(stack[p]) = 1
  BY <1>1, EndTypes DEF Return, TypeOK
<1>2. CASE Len(stack[p]) # 1
  <2>1. Tail(stack[p]) \in Seq(Ranges) /\ Tail(stack[p]) # <<>>
    BY <1>2, StackIs, TailIs
  <2>2. PICK t : t = Tail(stack[p])
    OBVIOUS
  <2>3. /\ stack' = [stack EXCEPT ![p] = t] /\ pc' = [pc EXCEPT ![p] = "wait"]
        /\ temp' = [temp EXCEPT ![p] = <<>>] /\ idx' = [idx EXCEPT ![p] = 0]
        /\ UNCHANGED status
    BY <1>2, <2>2 DEF Return
  <2>4. t \in Seq(Ranges) /\ t # <<>>
    BY <2>1, <2>2
  <2> QED
    BY <2>3, <2>4, SortAssumption DEF TypeOK, Steps
<1> QED
  BY <1>1, <1>2

\* Every step keeps the types.
LEMMA StepTypes ==
  ASSUME TypeOK, Shape, Loops, [Next]_vars
  PROVE  TypeOK'
<1> SUFFICES ASSUME NEW p \in Ranges, Step(p) \/ Failure(p)
             PROVE  TypeOK'
  <2>1. CASE UNCHANGED vars
    BY <2>1 DEF vars, TypeOK
  <2> QED
    BY <2>1 DEF Next, AllEnded
<1>1. Running(p)
  BY DEF Step, Failure, CallSmall, Fork, ForkFails, Sort, Wait, MallocFails, Merge, Take, Copy,
         Killed, At, Running
<1>2. CASE CallSmall(p)
  BY <1>2 DEF CallSmall, TypeOK, Steps
<1>3. CASE Fork(p)
  <2>1. PICK c \in Ranges, t \in Ranges : c = LeftOf(Top(p)) /\ t = RightOf(Top(p))
    <3>1. Top(p) \in Ranges /\ Size(Top(p)) >= 2
      BY <1>1, <1>3, StackIs, NotSmall DEF Fork
    <3> QED
      BY <3>1, HalvesAre
  <2>2. /\ status' = [status EXCEPT ![c] = "running"]
        /\ stack' = [stack EXCEPT ![c] = <<c>>, ![p] = <<t>> \o @]
        /\ pc' = [pc EXCEPT ![c] = "call"] /\ pc[p] = "call"
        /\ UNCHANGED <<arr, temp, idx, reaped, nfail, input>>
    BY <1>3, <2>1 DEF Fork, At
  <2>3. \A s \in Seq(Ranges) : <<t>> \o s \in Seq(Ranges) /\ <<t>> \o s # <<>>
    OBVIOUS
  <2>4. <<c>> \in Seq(Ranges) /\ <<c>> # <<>>
    OBVIOUS
  <2> QED
    BY <2>2, <2>3, <2>4 DEF TypeOK, Steps, Statuses
<1>4. CASE Sort(p)
  BY <1>1, <1>4, ReturnTypes DEF Sort, SeqSorted
<1>5. CASE Wait(p)
  <2>1. LeftOf(Top(p)) \in Ranges
    BY <1>1, <1>5, MergingIs DEF Wait, At, Merging
  <2> QED
    BY <1>5, <2>1 DEF Wait, TypeOK, Steps
<1>6. CASE Merge(p)
  <2>1. Top(p)[1] \in 0 .. N
    BY <1>1, <1>6, MergingIs DEF Merge, At, Merging
  <2> QED
    BY <1>6, <2>1 DEF Merge, TypeOK, Steps
<1>7. CASE Take(p)
  <2>1. /\ Top(p)[1] \in 0 .. N /\ Mid(Top(p)) \in 0 .. N /\ idx[p] \in 0 .. N
        /\ TakesLeft(p) => idx[p] + 1 \in 0 .. N
    <3>1. /\ Top(p)[1] \in 0 .. N /\ Mid(Top(p)) \in 0 .. N
          /\ idx[p] \in Top(p)[1] .. Mid(Top(p)) /\ (TakesLeft(p) => idx[p] < Mid(Top(p)))
      BY <1>1, <1>7, MergingIs, TakeIs DEF Take, At, Merging
    <3> QED
      BY <3>1, SortAssumption
  <2>2. PICK i \in Indices : i = IF TakesLeft(p) THEN idx[p] ELSE RightIdx(p)
    BY <1>7, TakeIs DEF Take
  <2>3. /\ temp' = [temp EXCEPT ![p] = Append(temp[p], arr[i])]
        /\ Append(temp[p], arr[i]) \in Seq(Values)
    BY <1>7, <2>2 DEF Take, TypeOK
  <2>4. idx' \in [Ranges -> 0 .. N] /\ pc' \in [Ranges -> Steps] /\ \A q \in Ranges : pc[q] # "none" => pc'[q] # "none"
    BY <1>7, <2>1 DEF Take, TypeOK, Steps
  <2>5. UNCHANGED <<arr, stack, status, reaped, nfail, input>>
    BY <1>7 DEF Take
  <2>6. temp' \in [Ranges -> Seq(Values)]
    BY <2>3 DEF TypeOK
  <2> QED
    BY <2>4, <2>5, <2>6 DEF TypeOK
<1>8. CASE Copy(p)
  <2>1. /\ temp[p][idx[p] - Top(p)[1] + 1] \in Values /\ idx[p] \in Indices
        /\ idx[p] + 1 \in 0 .. N
    <3>1. /\ Top(p)[1] \in 0 .. N /\ Top(p)[2] \in 0 .. N
          /\ idx[p] \in Top(p)[1] .. Top(p)[2] - 1 /\ idx[p] \in Indices
          /\ temp[p][idx[p] - Top(p)[1] + 1] \in Values
      BY <1>8, CopyIs DEF Copy
    <3> QED
      BY <3>1, SortAssumption
  <2>2. arr' \in [Indices -> Values]
    BY <1>8, <2>1 DEF Copy, TypeOK
  <2>3. CASE Return(p)
    BY <1>1, <1>8, <2>2, <2>3, ReturnTypes DEF Copy
  <2>4. CASE idx' = [idx EXCEPT ![p] = idx[p] + 1] /\ UNCHANGED <<stack, pc, temp, status>>
    BY <1>8, <2>1, <2>2, <2>4 DEF Copy, TypeOK
  <2> QED
    BY <1>8, <2>3, <2>4 DEF Copy
<1>9. CASE ForkFails(p) \/ MallocFails(p)
  <2>1. nfail < MaxFailures /\ nfail' = nfail + 1 /\ End(p, "failed") /\ UNCHANGED <<arr, reaped, input>>
    BY <1>9 DEF ForkFails, MallocFails, Fail
  <2>2. nfail' \in 0 .. MaxFailures
    BY <2>1, SortAssumption DEF TypeOK
  <2> QED
    BY <2>1, <2>2, EndTypes DEF TypeOK
<1>10. CASE Killed(p)
  <2>1. nfail < MaxFailures /\ nfail' = nfail + 1 /\ End(p, "killed") /\ UNCHANGED <<reaped, input>>
    BY <1>10 DEF Killed
  <2>2. nfail' \in 0 .. MaxFailures
    BY <2>1, SortAssumption DEF TypeOK
  <2>3. arr' \in [Indices -> Values]
    BY <1>10 DEF Killed, Torn, TypeOK
  <2> QED
    BY <2>1, <2>2, <2>3, EndTypes
<1> QED
  BY <1>2, <1>3, <1>4, <1>5, <1>6, <1>7, <1>8, <1>9, <1>10 DEF Step, Failure

\* The guards of the steps.
LEMMA Runs ==
  ASSUME NEW p \in Ranges, Step(p) \/ Failure(p)
  PROVE  Running(p)
BY DEF Step, Failure, CallSmall, Fork, ForkFails, Sort, Wait, MallocFails, Merge, Take, Copy,
       Killed, At, Running

\* Every step keeps the tree.
LEMMA StepTree ==
  ASSUME Tree, Loops, NEW p \in Ranges, Step(p) \/ Failure(p)
  PROVE  Tree'
<1>1. TypeOK' /\ Running(p)
  BY StepTypes, Runs DEF Tree, Next
<1>2. CASE CallSmall(p)
  BY <1>1, <1>2, StayTree DEF CallSmall, At, Steps
<1>3. CASE Merge(p)
  BY <1>1, <1>3, StayTree DEF Merge, At, Steps
<1>4. CASE Take(p)
  <2>1. PICK s \in {"take", "copy"} : pc' = [pc EXCEPT ![p] = s]
    BY <1>4 DEF Take, At, Tree, TypeOK
  <2> QED
    BY <1>1, <1>4, <2>1, StayTree DEF Take, At, Steps
<1>5. CASE Fork(p)
  BY <1>1, <1>5, ForkTree
<1>6. CASE Wait(p)
  BY <1>1, <1>6, WaitTree
<1>7. CASE Return(p) /\ pc[p] \in {"sort", "copy"} /\ UNCHANGED <<reaped, nfail>>
  <2>1. CASE Len(stack[p]) = 1
    BY <1>1, <1>7, <2>1, EndTree DEF Return
  <2>2. CASE Len(stack[p]) # 1
    BY <1>1, <1>7, <2>2, ReturnTree DEF Return
  <2> QED
    BY <2>1, <2>2
<1>8. CASE Sort(p)
  BY <1>7, <1>8 DEF Sort, At
<1>9. CASE Copy(p)
  <2>1. CASE Return(p)
    BY <1>7, <1>9, <2>1 DEF Copy, At
  <2>2. CASE UNCHANGED <<stack, pc, temp, status>>
    <3>1. pc' = [pc EXCEPT ![p] = "copy"]
      BY <1>9, <2>2 DEF Copy, At, Tree, TypeOK
    <3> QED
      BY <1>1, <1>9, <2>2, <3>1, StayTree DEF Copy, At, Steps
  <2> QED
    BY <1>9, <2>1, <2>2 DEF Copy
<1>10. CASE Failure(p)
  <2>1. PICK s \in {"failed", "killed"} : End(p, s) /\ nfail' = nfail + 1 /\ reaped' = reaped
    BY <1>10 DEF Failure, ForkFails, MallocFails, Fail, Killed
  <2> QED
    BY <1>1, <2>1, EndTree
<1> QED
  BY <1>2, <1>3, <1>4, <1>5, <1>6, <1>8, <1>9, <1>10 DEF Step

\* Every step keeps the pointers of the loops in their ranges.
LEMMA StepLoops ==
  ASSUME Tree, Loops, NEW p \in Ranges, Step(p) \/ Failure(p)
  PROVE  Loops'
<1> DEFINE Fits(q) ==
      /\ pc[q] \notin {"take", "copy"} => temp[q] = <<>>
      /\ pc[q] = "take" => /\ idx[q] \in Top(q)[1] .. Mid(Top(q))
                           /\ RightIdx(q) \in Mid(Top(q)) .. Top(q)[2]
                           /\ Len(temp[q]) < Size(Top(q))
      /\ pc[q] = "copy" => /\ idx[q] \in Cells(Top(q))
                           /\ Len(temp[q]) = Size(Top(q))
<1>0. TypeOK /\ Shape
  BY DEF Tree
<1>1. Running(p)
  BY Runs
<1>2. ASSUME NEW q \in Ranges,
             \/ temp'[q] = <<>> /\ pc'[q] \notin {"take", "copy"}
             \/ pc'[q] = pc[q] /\ temp'[q] = temp[q] /\ idx'[q] = idx[q] /\ stack'[q] = stack[q]
      PROVE  Fits(q)'
  <2>1. CASE temp'[q] = <<>> /\ pc'[q] \notin {"take", "copy"}
    BY <2>1
  <2>2. CASE pc'[q] = pc[q] /\ temp'[q] = temp[q] /\ idx'[q] = idx[q] /\ stack'[q] = stack[q]
    BY <2>2 DEF Loops, Top, RightIdx
  <2> QED
    BY <1>2, <2>1, <2>2
<1>3. (\A q \in Ranges : Fits(q)') => Loops'
  BY DEF Loops
<1>4. \A q \in Ranges : pc[q] \notin {"take", "copy"} => temp[q] = <<>>
  BY DEF Loops
<1>5. ASSUME NEW q \in Ranges, q = p, Fits(p)' PROVE Fits(q)'
  BY <1>5
<1> HIDE DEF Fits
<1>6. CASE CallSmall(p) \/ Wait(p)
  BY <1>0, <1>2, <1>3, <1>4, <1>6 DEF CallSmall, Wait, At, TypeOK
<1>7. CASE Fork(p)
  <2>1. PICK c \in Ranges : c = LeftOf(Top(p)) /\ c \notin Born
    BY <1>7, ForkIs
  <2>2. /\ \A q \in Ranges \ {p, c} :
             pc'[q] = pc[q] /\ temp'[q] = temp[q] /\ idx'[q] = idx[q] /\ stack'[q] = stack[q]
        /\ pc'[p] = "call" /\ pc'[c] = "call" /\ temp' = temp
    <3>1. /\ \A q \in Ranges \ {p, c} : stack'[q] = stack[q] /\ pc'[q] = pc[q]
          /\ pc'[p] = "call" /\ pc'[c] = "call"
      BY <1>7, <2>1, ForkIs
    <3>2. temp' = temp /\ idx' = idx
      BY <1>7 DEF Fork
    <3> QED
      BY <3>1, <3>2
  <2>3. pc[p] = "call" /\ pc[c] = "none"
    BY <1>7, <2>1 DEF Fork, At, Tree, Shape, Running, Born
  <2> QED
    BY <1>2, <1>3, <1>4, <2>2, <2>3
<1>8. CASE Merge(p)
  <2>1. \A q \in Ranges \ {p} : pc'[q] = pc[q] /\ temp'[q] = temp[q] /\ idx'[q] = idx[q] /\ stack'[q] = stack[q]
    BY <1>0, <1>8 DEF Merge, TypeOK
  <2>2. pc'[p] = "take" /\ temp'[p] = <<>> /\ Top(p)' = Top(p) /\ idx'[p] = Top(p)[1]
    BY <1>0, <1>4, <1>8 DEF Merge, At, TypeOK, Top
  <2>3. Fits(p)'
    <3>1. /\ Top(p)[1] \in 0 .. N /\ Mid(Top(p)) \in 0 .. N /\ Top(p)[2] \in 0 .. N
          /\ Top(p)[1] < Mid(Top(p)) /\ Mid(Top(p)) < Top(p)[2]
      BY <1>0, <1>1, <1>8, MergingIs DEF Merge, At, Merging
    <3>2. RightIdx(p)' = Mid(Top(p)) + (0 - (Top(p)[1] - Top(p)[1]))
      BY <2>2 DEF RightIdx
    <3>3. RightIdx(p)' = Mid(Top(p))
      BY <3>1, <3>2
    <3>4. Len(temp'[p]) = 0
      BY <2>2
    <3>5. Len(temp'[p]) < Size(Top(p))
      BY <3>1, <3>4, SortAssumption DEF Size
    <3> QED
      BY <2>2, <3>1, <3>3, <3>5 DEF Fits
  <2> QED
    BY <1>2, <1>3, <1>5, <2>1, <2>3
<1>9. CASE Take(p)
  <2>1. \A q \in Ranges \ {p} : pc'[q] = pc[q] /\ temp'[q] = temp[q] /\ idx'[q] = idx[q] /\ stack'[q] = stack[q]
    BY <1>0, <1>9 DEF Take, TypeOK
  <2>2. Fits(p)'
    <3>1. /\ Top(p)[1] \in 0 .. N /\ Mid(Top(p)) \in 0 .. N /\ Top(p)[2] \in 0 .. N
          /\ Top(p)[1] < Mid(Top(p)) /\ Mid(Top(p)) < Top(p)[2]
      BY <1>0, <1>1, <1>9, MergingIs DEF Take, At, Merging
    <3>2. /\ idx[p] \in Top(p)[1] .. Mid(Top(p)) /\ RightIdx(p) \in Mid(Top(p)) .. Top(p)[2]
          /\ Len(temp[p]) \in Nat /\ Len(temp[p]) < Size(Top(p))
          /\ RightIdx(p) = Mid(Top(p)) + (Len(temp[p]) - (idx[p] - Top(p)[1]))
          /\ TakesLeft(p) => idx[p] < Mid(Top(p))
          /\ ~TakesLeft(p) => RightIdx(p) < Top(p)[2]
      BY <1>0, <1>9, TakeIs DEF Take
    <3>3. Top(p)' = Top(p) /\ Len(temp'[p]) = Len(temp[p]) + 1
      BY <1>0, <1>9 DEF Take, TypeOK, Top
    <3>4. CASE Len(temp[p]) + 1 = Size(Top(p))
      <4>1. pc'[p] = "copy" /\ idx'[p] = Top(p)[1]
        BY <1>0, <1>9, <3>4 DEF Take, TypeOK
      <4>2. idx'[p] \in Cells(Top(p))
        BY <3>1, <4>1, SortAssumption DEF Cells
      <4> QED
        BY <3>3, <3>4, <4>1, <4>2 DEF Fits
    <3>5. CASE Len(temp[p]) + 1 # Size(Top(p))
      <4>1. /\ pc'[p] = "take"
            /\ TakesLeft(p) => idx'[p] = idx[p] + 1
            /\ ~TakesLeft(p) => idx'[p] = idx[p]
        BY <1>0, <1>9, <3>5 DEF Take, TypeOK, At
      <4>2. RightIdx(p)' = Mid(Top(p)) + ((Len(temp[p]) + 1) - (idx'[p] - Top(p)[1]))
        BY <3>3 DEF RightIdx
      <4>3. PICK lo \in Int, m \in Int, i \in Int, j \in Int, n \in Int :
              /\ lo = Top(p)[1] /\ m = Mid(Top(p)) /\ i = idx[p] /\ j = RightIdx(p) /\ n = Len(temp[p])
              /\ j = m + (n - (i - lo))
        BY <3>1, <3>2, SMTT(30)
      <4>4. /\ (n + 1) - ((i + 1) - lo) = n - (i - lo)
            /\ m + ((n + 1) - (i - lo)) = (m + (n - (i - lo))) + 1
        OBVIOUS
      <4>5. /\ TakesLeft(p) => RightIdx(p)' = RightIdx(p)
            /\ ~TakesLeft(p) => RightIdx(p)' = RightIdx(p) + 1
        <5>1. CASE TakesLeft(p)
          <6>1. RightIdx(p)' = m + ((n + 1) - ((i + 1) - lo))
            BY <4>1, <4>2, <4>3, <5>1
          <6>2. RightIdx(p)' = j
            BY <4>3, <4>4, <6>1
          <6> QED
            BY <4>3, <5>1, <6>2
        <5>2. CASE ~TakesLeft(p)
          <6>1. RightIdx(p)' = m + ((n + 1) - (i - lo))
            BY <4>1, <4>2, <4>3, <5>2
          <6>2. RightIdx(p)' = j + 1
            BY <4>3, <4>4, <6>1
          <6> QED
            BY <4>3, <5>2, <6>2
        <5> QED
          BY <5>1, <5>2
      <4>6. idx'[p] \in Top(p)[1] .. Mid(Top(p)) /\ RightIdx(p)' \in Mid(Top(p)) .. Top(p)[2]
        BY <3>1, <3>2, <4>1, <4>5
      <4>7. Len(temp[p]) + 1 < Size(Top(p))
        BY <3>1, <3>2, <3>5, SMTT(30) DEF Size
      <4> QED
        BY <3>3, <4>1, <4>6, <4>7 DEF Fits
    <3> QED
      BY <3>4, <3>5
  <2> QED
    BY <1>2, <1>3, <1>5, <2>1, <2>2
<1>10. CASE Return(p)
  <2>1. \A q \in Ranges \ {p} : pc'[q] = pc[q] /\ temp'[q] = temp[q] /\ idx'[q] = idx[q] /\ stack'[q] = stack[q]
    BY <1>0, <1>10 DEF Return, End, TypeOK
  <2>2. temp'[p] = <<>> /\ pc'[p] \in {"wait", "none"}
    BY <1>0, <1>10 DEF Return, End, TypeOK
  <2> QED
    BY <1>2, <1>3, <2>1, <2>2
<1>11. CASE Copy(p) /\ UNCHANGED <<stack, pc, temp, status>> /\ idx' = [idx EXCEPT ![p] = idx[p] + 1]
            /\ idx[p] + 1 # Top(p)[2]
  <2>1. \A q \in Ranges \ {p} : pc'[q] = pc[q] /\ temp'[q] = temp[q] /\ idx'[q] = idx[q] /\ stack'[q] = stack[q]
    BY <1>0, <1>11 DEF TypeOK
  <2>2. /\ pc'[p] = "copy" /\ idx'[p] = idx[p] + 1 /\ Top(p)' = Top(p) /\ Len(temp'[p]) = Size(Top(p))
    BY <1>0, <1>11 DEF Copy, At, TypeOK, Top, Loops
  <2>3. idx'[p] \in Cells(Top(p))
    <3>1. /\ Top(p)[1] \in 0 .. N /\ Top(p)[2] \in 0 .. N
          /\ idx[p] \in Top(p)[1] .. Top(p)[2] - 1
      BY <1>0, <1>11, CopyIs DEF Copy
    <3> QED
      BY <1>11, <2>2, <3>1 DEF Cells
  <2> QED
    BY <1>2, <1>3, <1>5, <2>1, <2>2, <2>3 DEF Fits
<1>12. CASE Failure(p)
  <2>1. PICK s \in {"failed", "killed"} : End(p, s)
    BY <1>12 DEF Failure, ForkFails, MallocFails, Fail, Killed
  <2>2. \A q \in Ranges \ {p} : pc'[q] = pc[q] /\ temp'[q] = temp[q] /\ idx'[q] = idx[q] /\ stack'[q] = stack[q]
    BY <1>0, <2>1 DEF End, TypeOK
  <2>3. temp'[p] = <<>> /\ pc'[p] = "none"
    BY <1>0, <2>1 DEF End, TypeOK
  <2> QED
    BY <1>2, <1>3, <2>2, <2>3
<1> QED
  BY <1>6, <1>7, <1>8, <1>9, <1>10, <1>11, <1>12 DEF Step, Sort, Copy

\* At the start there is one process.
LEMMA InitTree ==
  ASSUME Init
  PROVE  Tree /\ Loops
<1>1. Root \in Ranges /\ \A p \in Ranges : Running(p) <=> p = Root
  BY RootIs DEF Init, Running
<1>2. /\ stack[Root] = <<Root>> /\ pc[Root] = "call" /\ status[Root] = "running"
      /\ \A p \in Ranges \ {Root} :
           stack[p] = <<>> /\ pc[p] = "none" /\ status[p] = "unborn"
      /\ \A p \in Ranges : temp[p] = <<>>
      /\ nfail = 0 /\ reaped = {}
  BY <1>1 DEF Init
<1>3. TypeOK
  <2>1. input \in [Indices -> Values] /\ arr = input
    BY DEF Init
  <2>2. stack \in [Ranges -> Seq(Ranges)] /\ temp \in [Ranges -> Seq(Values)]
    <3>1. <<Root>> \in Seq(Ranges) /\ <<>> \in Seq(Ranges) /\ <<>> \in Seq(Values)
      BY <1>1
    <3> QED
      BY <3>1 DEF Init
  <2>3. /\ pc \in [Ranges -> Steps] /\ idx \in [Ranges -> 0 .. N]
        /\ status \in [Ranges -> Statuses] /\ reaped \subseteq Ranges /\ nfail \in 0 .. MaxFailures
    BY SortAssumption DEF Init, Steps, Statuses
  <2>4. \A p \in Ranges : status[p] = "running" => stack[p] # <<>> /\ pc[p] # "none"
    BY <1>1, <1>2
  <2> QED
    BY <2>1, <2>2, <2>3, <2>4 DEF TypeOK
<1>4. Born = {Root}
  BY <1>1, <1>2 DEF Born
<1>5. /\ DOMAIN stack[Root] = {1} /\ \A p \in Ranges \ {Root} : DOMAIN stack[p] = {}
      /\ Len(stack[Root]) = 1 /\ stack[Root][1] = Root
  BY <1>2
<1>6. \A p \in Ranges : Forked(p) = {}
  BY <1>2, <1>5 DEF Forked, Merging
<1>7. Shape
  <2> SUFFICES ASSUME NEW p \in Ranges
               PROVE  /\ ~Running(p) => stack[p] = <<>> /\ pc[p] = "none"
                      /\ Running(p) => stack[p][Len(stack[p])] = p
                      /\ \A i \in Forked(p) : Size(stack[p][i]) >= 2 /\ LeftOf(stack[p][i]) \in Born
                      /\ \A i, j \in DOMAIN stack[p] :
                           i < j => Within(stack[p][i], RightOf(stack[p][j]))
                      /\ \A i, j \in DOMAIN stack[p] : j = i + 1 => stack[p][i] = RightOf(stack[p][j])
    BY DEF Shape
  <2>1. \A i, j \in DOMAIN stack[p] : ~(i < j) /\ j # i + 1
    BY <1>5
  <2> QED
    BY <1>1, <1>2, <1>5, <1>6, <2>1
<1>8. Nested
  BY <1>4, RootIs DEF Nested
<1>9. Placed
  BY <1>4 DEF Placed
<1>10. Under
  BY <1>1, <1>2 DEF Under
<1>11. Awaited
  BY <1>4 DEF Awaited
<1>12. Counted
  BY <1>1, <1>2 DEF Counted, Failed
<1>13. Loops
  BY <1>1, <1>2 DEF Loops
<1> QED
  BY <1>3, <1>7, <1>8, <1>9, <1>10, <1>11, <1>12, <1>13 DEF Tree

\* The tree and the pointers hold in every state.
THEOREM TreeCorrect == Spec => [](Tree /\ Loops)
<1>1. Init => Tree /\ Loops
  BY InitTree
<1>2. (Tree /\ Loops) /\ [Next]_vars => (Tree /\ Loops)'
  <2> SUFFICES ASSUME Tree, Loops, [Next]_vars
               PROVE  (Tree /\ Loops)'
    OBVIOUS
  <2>1. CASE UNCHANGED vars
    BY <2>1 DEF vars, Tree, TypeOK, Shape, Nested, Placed, Under, Awaited, Counted, Loops,
                Born, Running, Forked, Waits, Orphan, Failed, Top, RightIdx
  <2>2. CASE \E p \in Ranges : Step(p) \/ Failure(p)
    BY <2>2, StepTree, StepLoops
  <2> QED
    BY <2>1, <2>2 DEF Next, AllEnded
<1> QED
  BY <1>1, <1>2, PTL DEF Spec

\* TypeOK: every variable keeps its type, and a process that runs is in a call.
THEOREM TypeCorrect == Spec => []TypeOK
<1>1. Tree /\ Loops => TypeOK
  BY DEF Tree
<1> QED
  BY <1>1, TreeCorrect, PTL

-----------------------------------------------------------------------------
(* Processes that are disjoint, and what remains at the end *)

\* Inside a process that is at work or waits, what runs and is no orphan is in a
\* part of the array that the process leaves alone.
LEMMA Apart ==
  ASSUME Tree, NEW p \in Ranges, NEW q \in Ranges, Running(p), Running(q), q # p, Within(q, p),
         ~Orphan(q)
  PROVE  Disjoint(q, Region(p)) /\ Region(p) \in Ranges /\ Within(Region(p), p)
<1>1. PICK i \in Waits(p) : Within(q, LeftOf(stack[p][i]))
  BY DEF Tree, Under, Running
<1>2. i \in Forked(p) /\ i \in DOMAIN stack[p] /\ (i > 1 \/ pc[p] = "wait")
  BY DEF Waits, Forked, Merging
<1>3. /\ Top(p) \in Ranges /\ Within(Top(p), p) /\ Top(p) = stack[p][1] /\ 1 \in DOMAIN stack[p]
      /\ i \in Nat \ {0}
  BY <1>2, StackIs DEF Tree
<1>4. /\ LeftOf(stack[p][i]) \in Ranges
      /\ i > 1 => Disjoint(Top(p), LeftOf(stack[p][i]))
  BY <1>2, <1>3, CallIs DEF Tree, Born
<1>5. CASE pc[p] # "wait"
  BY <1>1, <1>2, <1>3, <1>4, <1>5, InsideDisjoint DEF Region, Disjoint
<1>6. CASE pc[p] = "wait"
  <2>1. /\ Size(Top(p)) >= 2 /\ LeftOf(Top(p)) \in Ranges /\ RightOf(Top(p)) \in Ranges
    BY <1>6, MergingIs DEF Tree, Merging
  <2>2. /\ Within(RightOf(Top(p)), Top(p)) /\ Disjoint(LeftOf(Top(p)), RightOf(Top(p)))
    BY <1>3, <2>1, HalvesAre, RangeIs DEF Within, Disjoint
  <2>3. Within(RightOf(Top(p)), p)
    BY <1>3, <2>1, <2>2, WithinBoth
  <2>4. CASE i > 1
    <3>1. Disjoint(RightOf(Top(p)), LeftOf(stack[p][i]))
      BY <1>3, <1>4, <2>1, <2>2, <2>4, InsideDisjoint
    <3> QED
      BY <1>1, <1>4, <1>6, <2>1, <2>3, <3>1, InsideDisjoint DEF Region, Disjoint
  <2>5. CASE i = 1
    BY <1>1, <1>3, <1>6, <2>1, <2>2, <2>3, <2>5, InsideDisjoint DEF Region
  <2> QED
    BY <1>3, <2>4, <2>5
<1> QED
  BY <1>5, <1>6

\* RangesDisjoint: two processes are never busy with the same cell, unless one
\* of them is an orphan.
THEOREM NeverBothBusy == Spec => []RangesDisjoint
<1>1. ASSUME Tree, NEW p \in Ranges, NEW q \in Ranges, p # q, Busy(p) \cap Busy(q) # {}, Within(q, p)
      PROVE  Orphan(q)
  <2> SUFFICES ASSUME ~Orphan(q)
               PROVE  FALSE
    OBVIOUS
  <2>1. /\ pc[p] \in {"sort", "merge", "take", "copy"} /\ pc[q] \in {"sort", "merge", "take", "copy"}
        /\ Cells(Top(p)) \cap Cells(Top(q)) # {}
    BY <1>1 DEF Busy
  <2>2. Running(p) /\ Running(q)
    BY <1>1, <2>1 DEF Tree, Shape
  <2>3. Disjoint(q, Top(p)) /\ Top(p) \in Ranges /\ Top(q) \in Ranges /\ Within(Top(q), q)
    BY <1>1, <2>1, <2>2, Apart, StackIs DEF Region, Tree
  <2> QED
    BY <2>1, <2>3, RangeIs, SortAssumption DEF Disjoint, Within, Cells
<1>2. ASSUME Tree, NEW p \in Ranges, NEW q \in Ranges, p # q, Busy(p) \cap Busy(q) # {}
      PROVE  Orphan(p) \/ Orphan(q)
  <2>1. /\ pc[p] \in {"sort", "merge", "take", "copy"} /\ pc[q] \in {"sort", "merge", "take", "copy"}
        /\ Cells(Top(p)) \cap Cells(Top(q)) # {}
    BY <1>2 DEF Busy
  <2>2. Running(p) /\ Running(q) /\ p \in Born /\ q \in Born
    BY <1>2, <2>1 DEF Tree, Shape, Running, Born
  <2>3. /\ Top(p) \in Ranges /\ Top(q) \in Ranges /\ Within(Top(p), p) /\ Within(Top(q), q)
    BY <1>2, <2>2, StackIs DEF Tree
  <2>4. ~Disjoint(p, q)
    BY <2>1, <2>3, RangeIs, SortAssumption DEF Disjoint, Within, Cells
  <2> QED
    BY <1>1, <1>2, <2>2, <2>4 DEF Tree, Nested
<1>3. Tree => RangesDisjoint
  BY <1>2 DEF RangesDisjoint, Orphan
<1> QED
  BY <1>3, TreeCorrect, PTL

\* NoneLeft: when Root has exited with 0 and nothing has failed, every process
\* that was forked has exited with 0 and was waited for.
THEOREM AllWaitedFor == Spec => []NoneLeft
<1>1. ASSUME Tree, status[Root] = "ok", nfail = 0, NEW p \in Ranges \ {Root}, status[p] # "unborn"
      PROVE  status[p] = "ok" /\ p \in reaped
  <2>1. \A q \in Ranges : ~Failed(q) /\ ~Orphan(q)
    BY <1>1 DEF Tree, Counted, Orphan
  <2>2. \A q \in Ranges : ~Running(q)
    <3> SUFFICES ASSUME NEW q \in Ranges, Running(q)
                 PROVE  FALSE
      OBVIOUS
    <3>1. q # Root /\ Within(q, Root) /\ Root \in Ranges
      BY <1>1, RootIs DEF Running
    <3>2. stack[Root] = <<>> /\ pc[Root] = "none"
      BY <1>1, <3>1 DEF Tree, Shape, Running
    <3>3. Waits(Root) = {}
      BY <3>2 DEF Waits
    <3> QED
      BY <1>1, <2>1, <3>1, <3>3 DEF Tree, Under
  <2>3. status[p] = "ok"
    BY <1>1, <2>1, <2>2 DEF Tree, TypeOK, Statuses, Failed, Running
  <2>4. \A q \in Ranges : Waits(q) = {}
    BY <1>1, <2>2 DEF Waits, Tree, Shape
  <2> QED
    BY <1>1, <2>1, <2>3, <2>4 DEF Tree, Awaited, Born
<1>2. Tree => NoneLeft
  BY <1>1 DEF NoneLeft
<1> QED
  BY <1>2, TreeCorrect, PTL

-----------------------------------------------------------------------------
(* Who may write where *)

\* The region of a process is a part of its range.
LEMMA RegionIs ==
  ASSUME Tree, NEW p \in Ranges, Running(p)
  PROVE  /\ Region(p) \in Ranges /\ Within(Region(p), p)
         /\ Top(p) \in Ranges /\ Within(Top(p), p) /\ Within(Region(p), Top(p))
         /\ pc[p] \in Merging => Size(Top(p)) >= 2
<1>1. Top(p) \in Ranges /\ Within(Top(p), p) /\ Within(Top(p), Top(p))
  BY StackIs, RangeIs DEF Tree, Within
<1>2. CASE pc[p] # "wait"
  <2>1. pc[p] \in Merging => Size(Top(p)) >= 2
    BY MergingIs DEF Tree
  <2> QED
    BY <1>1, <1>2, <2>1 DEF Region
<1>3. CASE pc[p] = "wait"
  <2>1. Size(Top(p)) >= 2 /\ RightOf(Top(p)) \in Ranges
    BY <1>3, MergingIs DEF Tree, Merging
  <2>2. Within(RightOf(Top(p)), Top(p))
    BY <1>1, <2>1, HalvesAre, RangeIs DEF Within
  <2>3. Within(RightOf(Top(p)), p)
    BY <1>1, <2>1, <2>2, WithinBoth
  <2> QED
    BY <1>1, <1>3, <2>1, <2>2, <2>3 DEF Region
<1> QED
  BY <1>2, <1>3

\* What has failed inside of the range of a process has failed inside of its
\* call, or in what the call leaves alone.
LEMMA FailedBelow ==
  ASSUME Tree, NEW p \in Ranges, Running(p), NEW f \in Ranges, Failed(f), Within(f, p)
  PROVE  /\ Disjoint(f, Top(p)) \/ (pc[p] \in Merging /\ Within(f, Top(p)))
         /\ Disjoint(f, Region(p)) \/ Within(f, Region(p))
<1>1. f \in Born /\ p \in Born /\ f # p
  BY DEF Failed, Born, Running
<1>2. PICK i \in Forked(p) : \/ Within(f, LeftOf(stack[p][i]))
                             \/ i = 1 /\ Within(f, RightOf(stack[p][i]))
  BY <1>1 DEF Tree, Placed
<1>3. /\ Top(p) = stack[p][1] /\ 1 \in DOMAIN stack[p] /\ i \in DOMAIN stack[p] /\ i \in Nat \ {0}
      /\ Top(p) \in Ranges /\ Region(p) \in Ranges /\ Within(Region(p), Top(p))
      /\ LeftOf(stack[p][i]) \in Ranges
  BY RegionIs, StackIs, CallIs DEF Tree, Born
<1>4. CASE i > 1
  <2>1. Disjoint(Top(p), LeftOf(stack[p][i])) /\ Within(f, LeftOf(stack[p][i]))
    BY <1>2, <1>3, <1>4, CallIs DEF Tree
  <2>2. Disjoint(f, Top(p))
    BY <1>3, <2>1, InsideDisjoint DEF Disjoint
  <2> QED
    BY <1>3, <2>2, InsideDisjoint DEF Disjoint
<1>5. CASE i = 1
  <2>1. pc[p] \in Merging
    BY <1>5 DEF Forked
  <2>2. Size(Top(p)) >= 2 /\ LeftOf(Top(p)) \in Ranges /\ RightOf(Top(p)) \in Ranges
    BY <2>1, MergingIs DEF Tree
  <2>3. /\ Within(LeftOf(Top(p)), Top(p)) /\ Within(RightOf(Top(p)), Top(p))
        /\ Disjoint(LeftOf(Top(p)), RightOf(Top(p)))
    BY <1>3, <2>2, HalvesAre, RangeIs DEF Within, Disjoint
  <2>4. Within(f, LeftOf(Top(p))) \/ Within(f, RightOf(Top(p)))
    BY <1>2, <1>3, <1>5
  <2>5. Within(f, Top(p))
    BY <1>3, <2>2, <2>3, <2>4, WithinBoth
  <2>6. CASE pc[p] # "wait"
    BY <2>1, <2>5, <2>6 DEF Region
  <2>7. CASE pc[p] = "wait" /\ Within(f, RightOf(Top(p)))
    BY <2>1, <2>5, <2>7 DEF Region
  <2>8. CASE pc[p] = "wait" /\ Within(f, LeftOf(Top(p)))
    <3>1. Disjoint(f, RightOf(Top(p)))
      BY <2>2, <2>3, <2>8, InsideDisjoint
    <3> QED
      BY <2>1, <2>5, <2>8, <3>1 DEF Region
  <2> QED
    BY <2>4, <2>6, <2>7, <2>8
<1> QED
  BY <1>3, <1>4, <1>5

\* A process that works in the array leaves alone the region of every process
\* that no failure is above or below of.
LEMMA Alone ==
  ASSUME Tree, NEW p \in Ranges, NEW q \in Ranges, p # q, Running(p), Running(q),
         pc[q] # "wait", Sound(Region(p))
  PROVE  Disjoint(Top(q), Region(p))
<1>1. /\ Region(p) \in Ranges /\ Within(Region(p), p) /\ p \in Born /\ q \in Born
      /\ Top(q) \in Ranges /\ Within(Top(q), q) /\ Region(q) = Top(q)
  BY RegionIs DEF Born, Running, Region
<1>2. CASE Disjoint(p, q)
  BY <1>1, <1>2, RangeIs DEF Disjoint, Within
<1>3. CASE Within(q, p)
  <2>1. CASE ~Orphan(q)
    BY <1>1, <1>3, <2>1, Apart, InsideDisjoint
  <2>2. CASE Orphan(q)
    <3>1. PICK f \in Ranges : Failed(f) /\ Within(q, f)
      BY <2>2 DEF Orphan
    <3>2. f \in Born
      BY <3>1 DEF Failed, Born
    <3>3. ~Disjoint(f, p)
      BY <1>3, <3>1, RangeIs DEF Disjoint, Within
    <3>4. CASE Within(p, f)
      <4>1. Within(Region(p), f)
        BY <1>1, <3>4, WithinBoth
      <4> QED
        BY <3>1, <4>1 DEF Sound
    <3>5. CASE Within(f, p)
      <4>1. ~Within(f, Region(p))
        BY <3>1 DEF Sound
      <4>2. Disjoint(f, Region(p))
        BY <3>1, <3>5, <4>1, FailedBelow
      <4>3. Disjoint(q, Region(p))
        BY <1>1, <3>1, <4>2, InsideDisjoint
      <4> QED
        BY <1>1, <4>3, InsideDisjoint
    <3> QED
      BY <1>1, <3>2, <3>3, <3>4, <3>5 DEF Tree, Nested
  <2> QED
    BY <2>1, <2>2
<1>4. CASE Within(p, q)
  <2>1. ~Orphan(p)
    <3> SUFFICES ASSUME NEW f \in Ranges, Failed(f), Within(p, f)
                 PROVE  FALSE
      BY DEF Orphan
    <3>1. Within(Region(p), f)
      BY <1>1, WithinBoth
    <3> QED
      BY <3>1 DEF Sound
  <2>2. Disjoint(p, Top(q))
    BY <1>1, <1>4, <2>1, Apart
  <2> QED
    BY <1>1, <2>2, InsideDisjoint
<1> QED
  BY <1>1, <1>2, <1>3, <1>4 DEF Tree, Nested

\* So it does with the range of a child that has ended well and is waited for.
LEMMA AloneEnded ==
  ASSUME Tree, NEW u \in Ranges, NEW i \in Waits(u), NEW q \in Ranges, Running(q), pc[q] # "wait",
         status[LeftOf(stack[u][i])] = "ok", Sound(LeftOf(stack[u][i]))
  PROVE  Disjoint(Top(q), LeftOf(stack[u][i]))
<1>1. PICK c \in Born : c = LeftOf(stack[u][i]) /\ c # u /\ Within(c, u)
  <2>1. Running(u) /\ i \in Forked(u)
    BY DEF Waits, Forked, Merging, Tree, Shape
  <2> QED
    BY <2>1, CallIs DEF Tree
<1>2. /\ status[c] = "ok" /\ Sound(c) /\ c \in Ranges /\ ~Running(c) /\ c # q
      /\ q \in Born /\ Running(u) /\ u \in Born
  <2>1. Running(u)
    BY DEF Waits, Tree, Shape
  <2> QED
    BY <1>1, <2>1 DEF Born, Running
<1>3. Top(q) \in Ranges /\ Within(Top(q), q)
  BY StackIs DEF Tree
<1>4. CASE Disjoint(q, c)
  BY <1>1, <1>2, <1>3, <1>4, InsideDisjoint
<1>5. CASE Within(q, c)
  <2>1. Waits(c) = {}
    BY <1>2 DEF Waits, Tree, Shape
  <2>2. Orphan(q)
    BY <1>2, <1>5, <2>1 DEF Tree, Under
  <2>3. PICK f \in Ranges : Failed(f) /\ Within(q, f)
    BY <2>2 DEF Orphan
  <2>4. f \in Born /\ ~Disjoint(f, c)
    BY <1>2, <1>5, <2>3, RangeIs DEF Failed, Born, Disjoint, Within
  <2>5. Within(f, c) \/ Within(c, f)
    BY <1>1, <2>4 DEF Tree, Nested
  <2> QED
    BY <1>2, <2>3, <2>5 DEF Sound
<1>6. CASE Within(c, q)
  <2>1. \A f \in Ranges : Failed(f) => ~Within(c, f)
    BY <1>2 DEF Sound
  <2>2. \A j \in Waits(q) : Within(c, LeftOf(stack[q][j])) => Disjoint(Top(q), c)
    <3> SUFFICES ASSUME NEW j \in Waits(q), Within(c, LeftOf(stack[q][j]))
                 PROVE  Disjoint(Top(q), c)
      OBVIOUS
    <3>1. j > 1 /\ j \in Forked(q)
      BY DEF Waits, Forked
    <3>2. 1 \in DOMAIN stack[q] /\ Top(q) = stack[q][1]
      BY StackIs DEF Tree
    <3>3. Disjoint(Top(q), LeftOf(stack[q][j])) /\ LeftOf(stack[q][j]) \in Ranges
      BY <3>1, <3>2, CallIs DEF Tree, Born
    <3> QED
      BY <1>2, <1>3, <3>3, InsideDisjoint DEF Disjoint
  <2>3. CASE u = q
    <3>1. Within(c, LeftOf(stack[q][i]))
      BY <1>1, <1>2, <2>3, RangeIs DEF Within
    <3> QED
      BY <1>1, <2>2, <2>3, <3>1
  <2>4. CASE u # q /\ Within(u, q)
    <3>1. ~Orphan(u)
      BY <1>1, <1>2, <2>1, WithinBoth DEF Orphan
    <3>2. PICK j \in Waits(q) : Within(u, LeftOf(stack[q][j]))
      BY <1>2, <2>4, <3>1 DEF Tree, Under, Running
    <3>3. LeftOf(stack[q][j]) \in Ranges
      BY CallIs DEF Tree, Waits, Forked, Merging, Born
    <3>4. Within(c, LeftOf(stack[q][j]))
      BY <1>1, <1>2, <3>2, <3>3, WithinBoth
    <3> QED
      BY <1>1, <2>2, <3>4
  <2>5. CASE u # q /\ Within(q, u)
    <3>1. ~Orphan(q)
      BY <1>2, <1>6, <2>1, WithinBoth DEF Orphan
    <3>2. PICK j \in Waits(u) : Within(q, LeftOf(stack[u][j]))
      BY <1>2, <2>5, <3>1 DEF Tree, Under, Running
    <3>3. i \in Forked(u) /\ j \in Forked(u)
      BY DEF Waits, Forked, Merging
    <3>4. /\ i \in DOMAIN stack[u] /\ j \in DOMAIN stack[u]
          /\ i \in Nat \ {0} /\ j \in Nat \ {0}
          /\ LeftOf(stack[u][j]) \in Ranges /\ stack[u][i] \in Ranges /\ stack[u][j] \in Ranges
          /\ Within(c, stack[u][i]) /\ Within(LeftOf(stack[u][j]), stack[u][j])
      BY <1>1, <1>2, <3>3, CallIs DEF Tree, Born
    <3>5. CASE i = j
      <4>1. Within(q, c)
        BY <1>1, <3>2, <3>5
      <4> QED
        BY <1>2, <1>6, <4>1, SameEnds
    <3>6. CASE i < j
      <4>1. Disjoint(stack[u][i], LeftOf(stack[u][j]))
        BY <1>2, <3>3, <3>4, <3>6, CallIs DEF Tree
      <4>2. Disjoint(c, LeftOf(stack[u][j]))
        BY <1>2, <3>4, <4>1, InsideDisjoint
      <4> QED
        BY <1>2, <1>6, <3>2, <3>4, <4>2, RangeIs DEF Within, Disjoint
    <3>7. CASE j < i
      <4>1. Disjoint(stack[u][j], c)
        BY <1>1, <1>2, <3>3, <3>4, <3>7, CallIs DEF Tree
      <4>2. Disjoint(LeftOf(stack[u][j]), c)
        BY <1>2, <3>4, <4>1, InsideDisjoint
      <4> QED
        BY <1>2, <1>6, <3>2, <3>4, <4>2, RangeIs DEF Within, Disjoint
    <3> QED
      BY <3>4, <3>5, <3>6, <3>7
  <2>6. ~Disjoint(u, q)
    BY <1>1, <1>2, <1>6, RangeIs DEF Within, Disjoint
  <2> QED
    BY <1>2, <2>3, <2>4, <2>5, <2>6 DEF Tree, Nested
<1> QED
  BY <1>1, <1>2, <1>4, <1>5, <1>6 DEF Tree, Nested

-----------------------------------------------------------------------------
(* Failures, and the parts of a range *)

\* What no failure is above or below of, has sound halves.
LEMMA SoundHalves ==
  ASSUME Tree, NEW p \in Ranges, Running(p), pc[p] \in Merging, Sound(Top(p)),
         NEW h \in {LeftOf(Top(p)), RightOf(Top(p))}
  PROVE  Sound(h)
<1> SUFFICES ASSUME NEW f \in Ranges, Failed(f), Within(f, h) \/ Within(h, f)
             PROVE  FALSE
  BY DEF Sound
<1>1. /\ Top(p) \in Ranges /\ Size(Top(p)) >= 2 /\ h \in Ranges
      /\ p \in Born /\ f \in Born /\ Within(Top(p), p)
  BY MergingIs, StackIs DEF Tree, Born, Running, Failed
<1>2. Within(h, Top(p))
  BY <1>1, HalvesAre, RangeIs DEF Within
<1>3. ~Within(f, Top(p)) /\ ~Within(Top(p), f)
  BY DEF Sound
<1>4. Within(h, f) /\ Within(h, p)
  BY <1>1, <1>2, <1>3, WithinBoth
<1>5. ~Disjoint(f, p) /\ ~Disjoint(f, Top(p))
  BY <1>1, <1>2, <1>4, RangeIs DEF Within, Disjoint
<1>6. ~Within(p, f)
  BY <1>1, <1>3, WithinBoth
<1>7. Within(f, p)
  BY <1>1, <1>5, <1>6 DEF Tree, Nested
<1> QED
  BY <1>3, <1>5, <1>7, FailedBelow

\* Before the fork, what a call is about to give away is as sound as the call.
LEMMA SoundCall ==
  ASSUME Tree, NEW p \in Ranges, Running(p), pc[p] = "call",
         NEW h \in Ranges, Within(h, Top(p)), Sound(h)
  PROVE  Sound(Top(p))
<1> SUFFICES ASSUME NEW f \in Ranges, Failed(f), Within(f, Top(p)) \/ Within(Top(p), f)
             PROVE  FALSE
  BY DEF Sound
<1>1. Top(p) \in Ranges /\ Within(Top(p), p)
  BY StackIs DEF Tree
<1>2. CASE Within(Top(p), f)
  <2>1. Within(h, f)
    BY <1>1, <1>2, WithinBoth
  <2> QED
    BY <2>1 DEF Sound
<1>3. CASE Within(f, Top(p))
  <2>1. Within(f, p) /\ ~Disjoint(f, Top(p))
    BY <1>1, <1>3, WithinBoth, WithinMeets
  <2> QED
    BY <2>1, FailedBelow DEF Merging
<1> QED
  BY <1>2, <1>3

-----------------------------------------------------------------------------
(* Counting the elements of a range *)

Hits(a, l, h, v) == {i \in l .. h - 1 : a[i] = v}

LEMMA CountIs ==
  ASSUME NEW a, NEW l \in Int, NEW h \in Int, NEW v
  PROVE  /\ IsFiniteSet(Hits(a, l, h, v))
         /\ Count(a, <<l, h>>, v) \in Nat
         /\ Count(a, <<l, h>>, v) = Cardinality(Hits(a, l, h, v))
<1>1. Cells(<<l, h>>) = l .. h - 1
  BY DEF Cells
<1>2. IsFiniteSet(l .. h - 1)
  BY FS_Interval
<1>3. Hits(a, l, h, v) \subseteq l .. h - 1
  BY DEF Hits
<1>4. IsFiniteSet(Hits(a, l, h, v))
  BY <1>2, <1>3, FS_Subset
<1>5. Cardinality(Hits(a, l, h, v)) \in Nat
  BY <1>4, FS_CardinalityType
<1> QED
  BY <1>1, <1>4, <1>5 DEF Count, Hits

\* What is copied counts the same where it is copied to.
LEMMA CountCopied ==
  ASSUME NEW a, NEW s, NEW l \in Int, NEW h \in Int, NEW k \in Int,
         NEW n \in Int, n = k + (h - l), Copied(a, l, h, s, k), NEW v
  PROVE  Count(a, <<l, h>>, v) = Count(s, <<k, n>>, v)
<1> DEFINE S == Hits(a, l, h, v)
           T == Hits(s, k, n, v)
           f == [i \in S |-> i - l + k]
<1>1. /\ Count(a, <<l, h>>, v) = Cardinality(S) /\ IsFiniteSet(S)
      /\ Count(s, <<k, n>>, v) = Cardinality(T)
  BY CountIs
<1>2. f \in [S -> T]
  BY DEF Hits, Copied
<1>3. \A i, j \in S : f[i] = f[j] => i = j
  BY DEF Hits
<1>4. \A j \in T : \E i \in S : f[i] = j
  <2> SUFFICES ASSUME NEW j \in T
               PROVE  \E i \in S : f[i] = j
    OBVIOUS
  <2>1. j \in Int /\ j + l - k \in l .. h - 1 /\ (j + l - k) - l + k = j /\ s[j] = v
    BY DEF Hits
  <2>2. j + l - k \in S
    BY <2>1 DEF Hits, Copied
  <2> QED
    BY <2>1, <2>2
<1> HIDE DEF S, T, f
<1>5. f \in Bijection(S, T)
  BY <1>2, <1>3, <1>4 DEF Bijection, Injection, Surjection, IsInjective
<1>6. ExistsBijection(S, T)
  BY <1>5 DEF ExistsBijection
<1> QED
  BY <1>1, <1>6, FS_Bijection

\* Two arrays that agree on a range have the same elements there.
LEMMA CountAgree ==
  ASSUME NEW a, NEW b, NEW l \in Int, NEW h \in Int, \A i \in l .. h - 1 : a[i] = b[i], NEW v
  PROVE  Count(a, <<l, h>>, v) = Count(b, <<l, h>>, v)
<1>1. Hits(a, l, h, v) = Hits(b, l, h, v)
  BY DEF Hits
<1> QED
  BY <1>1, CountIs

LEMMA CountSplit ==
  ASSUME NEW a, NEW l \in Int, NEW m \in Int, NEW h \in Int, l <= m, m <= h, NEW v
  PROVE  Count(a, <<l, h>>, v) = Count(a, <<l, m>>, v) + Count(a, <<m, h>>, v)
<1> DEFINE S == Hits(a, l, m, v)
           T == Hits(a, m, h, v)
<1>1. Hits(a, l, h, v) = S \cup T /\ S \cap T = {}
  BY DEF Hits
<1>2. /\ Count(a, <<l, h>>, v) = Cardinality(Hits(a, l, h, v))
      /\ Count(a, <<l, m>>, v) = Cardinality(S) /\ Count(a, <<m, h>>, v) = Cardinality(T)
      /\ IsFiniteSet(S) /\ IsFiniteSet(T)
  BY CountIs
<1> HIDE DEF S, T
<1>3. Cardinality(S \cup T) = Cardinality(S) + Cardinality(T) - Cardinality(S \cap T)
  BY <1>2, FS_Union
<1>4. Cardinality(S \cap T) = 0
  BY <1>1, FS_EmptySet
<1>5. Cardinality(S) \in Nat /\ Cardinality(T) \in Nat
  BY <1>2, FS_CardinalityType
<1> QED
  BY <1>1, <1>2, <1>3, <1>4, <1>5

LEMMA CountEmpty ==
  ASSUME NEW a, NEW l \in Int, NEW v
  PROVE  Count(a, <<l, l>>, v) = 0
<1>1. Hits(a, l, l, v) = {}
  BY DEF Hits
<1> QED
  BY <1>1, CountIs, FS_EmptySet

\* What is ready stays ready while nobody writes to it.
LEMMA ReadyStays ==
  ASSUME NEW r \in Ranges, input' = input, \A i \in Cells(r) : arr'[i] = arr[i], Ready(r)
  PROVE  Ready(r)'
<1>1. r = <<r[1], r[2]>> /\ r[1] \in Int /\ r[2] \in Int
  BY RangeIs
<1>2. \A i \in r[1] .. r[2] - 1 : arr'[i] = arr[i]
  BY DEF Cells
<1>3. \A v : Count(arr', <<r[1], r[2]>>, v) = Count(arr, <<r[1], r[2]>>, v)
  BY <1>1, <1>2, CountAgree
<1>4. SameElements(input, arr', r)
  BY <1>1, <1>3 DEF Ready, SameElements
<1>5. IsSorted(arr', r)
  BY DEF Ready, IsSorted
<1> QED
  BY <1>4, <1>5 DEF Ready

-----------------------------------------------------------------------------
(* What every step does *)

\* What has failed stays failed, and only the process that steps, and the child
\* that it forks, change.
LEMMA StepIs ==
  ASSUME Tree, Loops, NEW p \in Ranges, Step(p) \/ Failure(p)
  PROVE  /\ Running(p) /\ input' = input
         /\ \A q \in Ranges : Failed(q) => Failed(q)'
         /\ \A q \in Ranges : Sound(q)' => Sound(q)
         /\ \A q \in Ranges \ {p} : ~(Fork(p) /\ q = LeftOf(Top(p))) =>
              /\ stack'[q] = stack[q] /\ pc'[q] = pc[q] /\ temp'[q] = temp[q]
              /\ idx'[q] = idx[q] /\ status'[q] = status[q]
<1>1. Running(p) /\ TypeOK
  BY Runs DEF Tree
<1>2. \A q \in Ranges \ {p} : ~(Fork(p) /\ q = LeftOf(Top(p))) =>
        /\ stack'[q] = stack[q] /\ pc'[q] = pc[q] /\ temp'[q] = temp[q]
        /\ idx'[q] = idx[q] /\ status'[q] = status[q]
  <2>1. CASE Fork(p)
    <3>1. \A q \in Ranges \ {p, LeftOf(Top(p))} :
             stack'[q] = stack[q] /\ pc'[q] = pc[q] /\ status'[q] = status[q]
      BY <2>1, ForkIs
    <3>2. temp' = temp /\ idx' = idx
      BY <2>1 DEF Fork
    <3> QED
      BY <3>1, <3>2, <2>1
  <2>2. CASE \E s \in {"ok", "failed", "killed"} : End(p, s)
    BY <1>1, <2>2 DEF End, TypeOK
  <2>3. CASE Return(p)
    BY <1>1, <2>3 DEF Return, End, TypeOK
  <2>4. CASE CallSmall(p) \/ Wait(p) \/ Merge(p)
    BY <1>1, <2>4 DEF CallSmall, Wait, Merge, TypeOK
  <2>5. CASE Take(p)
    BY <1>1, <2>5 DEF Take, TypeOK
  <2>6. CASE Copy(p)
    BY <1>1, <2>3, <2>6 DEF Copy, TypeOK
  <2>7. CASE Failure(p)
    BY <2>2, <2>7 DEF Failure, ForkFails, MallocFails, Fail, Killed
  <2>8. CASE Sort(p)
    BY <2>3, <2>8 DEF Sort
  <2> QED
    BY <2>1, <2>4, <2>5, <2>6, <2>7, <2>8 DEF Step
<1>3. \A q \in Ranges : Failed(q) => Failed(q)'
  <2> SUFFICES ASSUME NEW q \in Ranges, Failed(q)
               PROVE  status'[q] = status[q]
    BY DEF Failed
  <2>1. q # p /\ q \in Born
    BY <1>1 DEF Failed, Running, Born
  <2>2. ~(Fork(p) /\ q = LeftOf(Top(p)))
    BY <2>1, ForkIs
  <2> QED
    BY <1>2, <2>1, <2>2
<1>4. \A q \in Ranges : Sound(q)' => Sound(q)
  BY <1>3 DEF Sound
<1>5. input' = input
  BY DEF Step, Failure, CallSmall, Fork, ForkFails, Sort, Wait, MallocFails, Merge, Take, Copy,
         Killed, Fail
<1> QED
  BY <1>1, <1>2, <1>3, <1>4, <1>5

\* A process writes in its call, when it sorts or copies back.
LEMMA WritesAtTop ==
  ASSUME Tree, Loops, NEW p \in Ranges, Step(p) \/ Failure(p)
  PROVE  \/ arr' = arr
         \/ /\ pc[p] # "wait" /\ ~Fork(p)
            /\ \A i \in Indices \ Cells(Top(p)) : arr'[i] = arr[i]
<1>1. CASE Sort(p)
  <2>1. arr' \in SeqSorted(arr, Top(p)) /\ pc[p] = "sort" /\ ~Fork(p)
    BY <1>1 DEF Sort, At, Fork
  <2> QED
    BY <2>1 DEF SeqSorted
<1>2. CASE Copy(p)
  <2>1. /\ arr' = [arr EXCEPT ![idx[p]] = temp[p][idx[p] - Top(p)[1] + 1]]
        /\ pc[p] = "copy" /\ ~Fork(p)
    BY <1>2 DEF Copy, At, Fork
  <2>2. idx[p] \in Cells(Top(p))
    BY <1>2, CopyIs DEF Copy, Cells, Tree
  <2>3. \A i \in Indices \ Cells(Top(p)) : arr'[i] = arr[i]
    BY <2>1, <2>2 DEF Tree, TypeOK
  <2> QED
    BY <2>1, <2>3
<1>3. CASE Killed(p)
  <2>1. CASE pc[p] = "sort"
    <3>1. arr' \in Torn(Top(p)) /\ ~Fork(p)
      BY <1>3, <2>1 DEF Killed, Fork, At
    <3> QED
      BY <2>1, <3>1 DEF Torn
  <2>2. CASE pc[p] # "sort"
    BY <1>3, <2>2 DEF Killed
  <2> QED
    BY <2>1, <2>2
<1>4. CASE ~Sort(p) /\ ~Copy(p) /\ ~Killed(p)
  BY <1>4 DEF Step, Failure, CallSmall, Fork, ForkFails, Wait, MallocFails, Merge, Take, Fail
<1> QED
  BY <1>1, <1>2, <1>3, <1>4

\* What another process relies on in its region is untouched by the step.
LEMMA HoldsElsewhere ==
  ASSUME Tree, Loops, Data, NEW p \in Ranges, Step(p) \/ Failure(p),
         NEW q \in Ranges \ {p}, ~(Fork(p) /\ q = LeftOf(Top(p))),
         Running(q)', Sound(Region(q))'
  PROVE  Holds(q)'
<1>1. /\ stack'[q] = stack[q] /\ pc'[q] = pc[q] /\ temp'[q] = temp[q]
      /\ idx'[q] = idx[q] /\ status'[q] = status[q] /\ input' = input /\ Running(p)
      /\ \A r \in Ranges : Sound(r)' => Sound(r)
  BY StepIs
<1>2. Running(q) /\ Top(q)' = Top(q) /\ Region(q)' = Region(q)
  BY <1>1 DEF Running, Top, Region
<1>3. Region(q) \in Ranges /\ Top(q) \in Ranges /\ (pc[q] \in Merging => Size(Top(q)) >= 2)
  BY <1>2, RegionIs
<1>4. Sound(Region(q)) /\ Holds(q)
  <2>1. PICK r \in Ranges : r = Region(q)
    BY <1>3
  <2>2. Sound(r)'
    BY <1>2, <2>1
  <2> QED
    BY <1>1, <1>2, <2>1, <2>2 DEF Data
<1>5. \A i \in Cells(Region(q)) : arr'[i] = arr[i]
  <2>1. CASE arr' = arr
    BY <2>1
  <2>2. CASE pc[p] # "wait" /\ \A i \in Indices \ Cells(Top(p)) : arr'[i] = arr[i]
    <3>1. Disjoint(Top(p), Region(q)) /\ Top(p) \in Ranges
      BY <1>1, <1>2, <1>4, <2>2, Alone, StackIs DEF Tree
    <3>2. \A i \in Cells(Region(q)) : i \in Indices \ Cells(Top(p))
      BY <1>3, <3>1, RangeIs, SortAssumption DEF Disjoint, Cells, Indices
    <3> QED
      BY <2>2, <3>2
  <2> QED
    BY <2>1, <2>2, WritesAtTop
<1>6. CASE pc[q] \in {"call", "sort"}
  <2>1. Untouched(Top(q))
    BY <1>4, <1>6 DEF Holds
  <2>2. \A i \in Cells(Top(q)) : arr'[i] = arr[i]
    BY <1>5, <1>6 DEF Region
  <2>3. Untouched(Top(q))'
    BY <1>1, <1>2, <2>1, <2>2 DEF Untouched
  <2> QED
    BY <1>1, <1>2, <1>6, <2>3 DEF Holds
<1>7. CASE pc[q] = "wait"
  <2>1. PICK r \in Ranges : r = RightOf(Top(q)) /\ r = Region(q)
    BY <1>3, <1>7 DEF Region
  <2>2. Ready(r)
    BY <1>4, <1>7, <2>1 DEF Holds
  <2>3. Ready(r)'
    BY <1>1, <1>5, <2>1, <2>2, ReadyStays
  <2>4. Ready(RightOf(Top(q)))'
    BY <1>2, <2>1, <2>3
  <2> QED
    BY <1>1, <1>7, <2>4 DEF Holds
<1>8. ASSUME pc[q] \in {"merge", "take", "copy"}
      PROVE  /\ \A i \in Top(q)[1] .. Top(q)[2] - 1 : arr'[i] = arr[i]
             /\ Top(q)[1] \in Int /\ Mid(Top(q)) \in Int /\ Top(q)[2] \in Int
             /\ Top(q)[1] < Mid(Top(q)) /\ Mid(Top(q)) < Top(q)[2]
             /\ LeftOf(Top(q)) \in Ranges /\ RightOf(Top(q)) \in Ranges
  <2>1. Region(q) = Top(q)
    BY <1>8 DEF Region
  <2> QED
    BY <1>2, <1>5, <1>8, <2>1, MergingIs DEF Cells, Tree, Merging
<1>9. ASSUME pc[q] \in {"merge", "take"}
      PROVE  Ready(LeftOf(Top(q)))' /\ Ready(RightOf(Top(q)))'
  <2>1. PICK l \in Ranges, r \in Ranges : l = LeftOf(Top(q)) /\ r = RightOf(Top(q))
    BY <1>8, <1>9
  <2>2. /\ \A i \in Cells(l) : arr'[i] = arr[i]
        /\ \A i \in Cells(r) : arr'[i] = arr[i]
    BY <1>8, <1>9, <2>1 DEF LeftOf, RightOf, Cells
  <2>3. Ready(l)' /\ Ready(r)'
    BY <1>1, <1>4, <1>9, <2>1, <2>2, ReadyStays DEF Holds
  <2> QED
    BY <1>2, <2>1, <2>3
<1>10. CASE pc[q] = "merge"
  BY <1>1, <1>9, <1>10 DEF Holds
<1>11. CASE pc[q] = "take"
  <2>1. /\ idx[q] \in Top(q)[1] .. Mid(Top(q)) /\ RightIdx(q) \in Mid(Top(q)) .. Top(q)[2]
        /\ RightIdx(q)' = RightIdx(q)
    BY <1>1, <1>2, <1>11 DEF Loops, RightIdx
  <2>2. Taking(q)
    BY <1>4, <1>11 DEF Holds
  <2>3. Remaining(q)' = Remaining(q) /\ \A j \in Remaining(q) : arr'[j] = arr[j]
    BY <1>1, <1>2, <1>8, <1>11, <2>1 DEF Remaining
  <2>4. \A i \in DOMAIN temp[q], j \in Remaining(q) : temp[q][i] <= arr'[j]
    BY <2>2, <2>3 DEF Taking
  <2>5. /\ idx[q] \in Int /\ RightIdx(q) \in Int
        /\ \A i \in idx[q] .. Mid(Top(q)) - 1 : arr'[i] = arr[i]
        /\ \A i \in RightIdx(q) .. Top(q)[2] - 1 : arr'[i] = arr[i]
    BY <2>1, <2>3, <1>8, <1>11 DEF Remaining
  <2>6. \A v : /\ Count(arr', <<idx[q], Mid(Top(q))>>, v) = Count(arr, <<idx[q], Mid(Top(q))>>, v)
               /\ Count(arr', <<RightIdx(q), Top(q)[2]>>, v) = Count(arr, <<RightIdx(q), Top(q)[2]>>, v)
    <3> TAKE v
    <3>1. PICK k \in Int, m \in Int, n \in Int, h \in Int :
            k = idx[q] /\ m = Mid(Top(q)) /\ n = RightIdx(q) /\ h = Top(q)[2]
      BY <1>8, <1>11, <2>5
    <3>2. /\ \A i \in k .. m - 1 : arr'[i] = arr[i]
          /\ \A i \in n .. h - 1 : arr'[i] = arr[i]
      BY <2>5, <3>1
    <3>3. Count(arr', <<k, m>>, v) = Count(arr, <<k, m>>, v)
      BY <3>2, CountAgree
    <3>4. Count(arr', <<n, h>>, v) = Count(arr, <<n, h>>, v)
      BY <3>2, CountAgree
    <3> QED
      BY <3>1, <3>3, <3>4
  <2>7. \A v \in Values :
          Count(temp[q], Whole(temp[q]), v) + Count(arr', <<idx[q], Mid(Top(q))>>, v)
            + Count(arr', <<RightIdx(q), Top(q)[2]>>, v) = Count(input, Top(q), v)
    BY <2>2, <2>6 DEF Taking
  <2>8. Taking(q)'
    BY <1>1, <1>2, <2>1, <2>2, <2>3, <2>4, <2>7 DEF Taking
  <2> QED
    BY <1>1, <1>9, <1>11, <2>8 DEF Holds
<1>12. CASE pc[q] = "copy"
  <2>1. Copying(q) /\ idx[q] \in Top(q)[1] .. Top(q)[2] - 1
    BY <1>4, <1>12 DEF Holds, Loops, Cells
  <2>2. \A i \in Top(q)[1] .. idx[q] - 1 : arr'[i] = arr[i]
    BY <1>8, <1>12, <2>1
  <2>3. Copying(q)'
    BY <1>1, <1>2, <2>1, <2>2 DEF Copying, Copied
  <2> QED
    BY <1>1, <1>12, <2>3 DEF Holds
<1>13. pc[q] \in {"call", "sort", "wait", "merge", "take", "copy"}
  BY <1>2 DEF Tree, TypeOK, Steps, Running
<1> QED
  BY <1>6, <1>7, <1>10, <1>11, <1>12, <1>13

\* So is the range of a child that has ended well and is still waited for.
LEMMA ReadyElsewhere ==
  ASSUME Tree, Loops, Exited, NEW p \in Ranges, Step(p) \/ Failure(p),
         NEW u \in Ranges, NEW i \in Waits(u), NEW c, c = LeftOf(stack[u][i]),
         status[c] = "ok", Sound(c)
  PROVE  Ready(c)'
<1>1. Running(p) /\ input' = input
  BY StepIs
<1>2. c \in Ranges
  BY CallIs DEF Tree, Born, Waits, Forked, Merging, Shape
<1>3. Ready(c)
  BY DEF Exited
<1>4. \A k \in Cells(c) : arr'[k] = arr[k]
  <2>1. CASE arr' = arr
    BY <2>1
  <2>2. CASE pc[p] # "wait" /\ \A k \in Indices \ Cells(Top(p)) : arr'[k] = arr[k]
    <3>1. Disjoint(Top(p), c) /\ Top(p) \in Ranges
      BY <1>1, <2>2, AloneEnded, StackIs DEF Tree
    <3>2. \A k \in Cells(c) : k \in Indices \ Cells(Top(p))
      BY <1>2, <3>1, RangeIs, SortAssumption DEF Disjoint, Cells, Indices
    <3> QED
      BY <2>2, <3>2
  <2> QED
    BY <2>1, <2>2, WritesAtTop
<1> QED
  BY <1>1, <1>2, <1>3, <1>4, ReadyStays

-----------------------------------------------------------------------------
(* Sorting, merging and copying back *)

\* qsort makes ready what nobody has touched.
LEMMA SortReady ==
  ASSUME Tree, Data, NEW p \in Ranges, Sort(p), Sound(Top(p)), NEW r \in Ranges, r = Top(p)
  PROVE  Ready(r)'
<1>1. Running(p) /\ pc[p] = "sort" /\ Region(p) = Top(p)
  BY DEF Sort, At, Running, Region
<1>2. \A i \in Cells(r) : input[i] = arr[i]
  BY <1>1 DEF Data, Holds, Untouched
<1>3. IsSorted(arr', r) /\ SameElements(arr, arr', r) /\ input' = input
  BY DEF Sort, SeqSorted
<1>4. r = <<r[1], r[2]>> /\ r[1] \in Int /\ r[2] \in Int
  BY RangeIs
<1>5. \A v : Count(input, <<r[1], r[2]>>, v) = Count(arr, <<r[1], r[2]>>, v)
  BY <1>2, <1>4, CountAgree DEF Cells
<1> QED
  BY <1>3, <1>4, <1>5 DEF Ready, SameElements

\* So does the copy back, with its last element.
LEMMA CopyReady ==
  ASSUME Tree, Loops, Data, NEW p \in Ranges, Copy(p), idx[p] + 1 = Top(p)[2], Sound(Top(p)),
         NEW r \in Ranges, r = Top(p)
  PROVE  Ready(r)'
<1>1. /\ Running(p) /\ pc[p] = "copy" /\ Region(p) = Top(p) /\ input' = input
      /\ arr' = [arr EXCEPT ![idx[p]] = temp[p][idx[p] - r[1] + 1]]
  BY DEF Copy, At, Running, Region
<1>2. Copying(p)
  BY <1>1 DEF Data, Holds
<1>3. /\ r = <<r[1], r[2]>> /\ r[1] \in Int /\ r[2] \in Int /\ r[1] < r[2]
      /\ idx[p] \in r[1] .. r[2] - 1 /\ idx[p] \in Indices
      /\ temp[p] \in Seq(Values) /\ Len(temp[p]) = r[2] - r[1]
  <2>1. r = <<r[1], r[2]>> /\ r[1] \in Int /\ r[2] \in Int /\ r[1] < r[2]
    BY RangeIs
  <2>2. /\ idx[p] \in Top(p)[1] .. Top(p)[2] - 1 /\ idx[p] \in Indices
        /\ temp[p] \in Seq(Values) /\ Len(temp[p]) = Top(p)[2] - Top(p)[1]
    BY CopyIs DEF Copy, Tree
  <2> QED
    BY <2>1, <2>2
<1>4. PICK s : s = temp[p]
  OBVIOUS
<1>5. \A i \in r[1] .. r[2] - 1 : arr'[i] = s[i - r[1] + 1]
  <2>1. \A i \in r[1] .. idx[p] - 1 : arr[i] = s[i - r[1] + 1]
    BY <1>2, <1>4 DEF Copying, Copied
  <2>2. arr'[idx[p]] = s[idx[p] - r[1] + 1]
    BY <1>1, <1>3, <1>4 DEF Tree, TypeOK
  <2>3. \A i \in r[1] .. idx[p] - 1 : arr'[i] = arr[i]
    BY <1>1, <1>3 DEF Tree, TypeOK
  <2>4. \A i \in r[1] .. r[2] - 1 : i \in r[1] .. idx[p] - 1 \/ i = idx[p]
    BY <1>3
  <2> QED
    BY <2>1, <2>2, <2>3, <2>4
<1>6. IsSorted(s, <<1, (r[2] - r[1]) + 1>>) /\ Whole(s) = <<1, (r[2] - r[1]) + 1>>
  BY <1>2, <1>3, <1>4 DEF Copying, Whole
<1>7. IsSorted(arr', r)
  <2> SUFFICES ASSUME NEW i \in Cells(r), NEW j \in Cells(r), i <= j
               PROVE  arr'[i] <= arr'[j]
    BY DEF IsSorted
  <2>1. /\ i \in r[1] .. r[2] - 1 /\ j \in r[1] .. r[2] - 1
    BY DEF Cells
  <2>2. /\ i - r[1] + 1 \in 1 .. ((r[2] - r[1]) + 1) - 1
        /\ j - r[1] + 1 \in 1 .. ((r[2] - r[1]) + 1) - 1
        /\ i - r[1] + 1 <= j - r[1] + 1
    BY <1>3, <2>1, SMTT(30)
  <2>3. s[i - r[1] + 1] <= s[j - r[1] + 1]
    BY <1>6, <2>2 DEF IsSorted, Cells
  <2> QED
    BY <1>5, <2>1, <2>3
<1>8. \A v : Count(arr', <<r[1], r[2]>>, v) = Count(s, <<1, (r[2] - r[1]) + 1>>, v)
  <2>1. Copied(arr', r[1], r[2], s, 1)
    BY <1>5 DEF Copied
  <2>2. PICK n \in Int : n = 1 + (r[2] - r[1]) /\ n = (r[2] - r[1]) + 1
    BY <1>3
  <2>3. \A v : Count(arr', <<r[1], r[2]>>, v) = Count(s, <<1, n>>, v)
    BY <1>3, <2>1, <2>2, CountCopied
  <2> QED
    BY <2>2, <2>3
<1>9. \A v \in Values : Count(s, Whole(s), v) = Count(input, r, v)
  BY <1>2, <1>4 DEF Copying
<1>10. SameElements(input, arr', r)
  BY <1>3, <1>6, <1>8, <1>9 DEF SameElements
<1> QED
  BY <1>1, <1>7, <1>10 DEF Ready

\* No element of s is greater than x.
Below(s, x) == \A i \in DOMAIN s : s[i] <= x

\* A sequence with one more element, that is not less than the others.
LEMMA AppendOne ==
  ASSUME NEW s \in Seq(Values), NEW x \in Values, NEW a, NEW k \in Int, x = a[k],
         NEW e \in Int, e = k + 1,
         IsSorted(s, Whole(s)), Below(s, x), NEW v
  PROVE  /\ Append(s, x) \in Seq(Values) /\ Len(Append(s, x)) = Len(s) + 1
         /\ DOMAIN Append(s, x) = 1 .. Len(s) + 1
         /\ \A i \in DOMAIN s : Append(s, x)[i] = s[i]
         /\ Append(s, x)[Len(s) + 1] = x
         /\ IsSorted(Append(s, x), Whole(Append(s, x)))
         /\ Count(Append(s, x), Whole(Append(s, x)), v)
              = Count(s, Whole(s), v) + Count(a, <<k, e>>, v)
<1>1. PICK t : t = Append(s, x)
  OBVIOUS
<1>2. PICK n \in Nat : n = Len(s)
  OBVIOUS
<1>3. /\ t \in Seq(Values) /\ Len(t) = n + 1 /\ DOMAIN t = 1 .. n + 1 /\ DOMAIN s = 1 .. n
      /\ \A i \in 1 .. n : t[i] = s[i]
      /\ t[n + 1] = x
  BY <1>1, <1>2
<1>4. Whole(t) = <<1, (n + 1) + 1>> /\ Whole(s) = <<1, n + 1>>
  BY <1>2, <1>3 DEF Whole
<1>5. IsSorted(t, Whole(t))
  <2> SUFFICES ASSUME NEW i \in 1 .. n + 1, NEW j \in 1 .. n + 1, i <= j
               PROVE  t[i] <= t[j]
    BY <1>4 DEF IsSorted, Cells
  <2>1. CASE j \in 1 .. n
    <3>1. i \in 1 .. n /\ i \in 1 .. (n + 1) - 1 /\ j \in 1 .. (n + 1) - 1
      BY <2>1
    <3>2. s[i] <= s[j]
      BY <1>4, <3>1 DEF IsSorted, Cells
    <3> QED
      BY <1>3, <2>1, <3>1, <3>2
  <2>2. CASE j = n + 1 /\ i \in 1 .. n
    BY <1>3, <2>2 DEF Below
  <2>3. CASE j = n + 1 /\ i = n + 1
    <3>1. x <= x
      BY SortAssumption
    <3> QED
      BY <1>3, <2>3, <3>1
  <2> QED
    BY <2>1, <2>2, <2>3
<1>6. Count(t, Whole(t), v) = Count(s, Whole(s), v) + Count(a, <<k, e>>, v)
  <2>1. PICK m \in Int, h \in Int : m = n + 1 /\ h = m + 1
    OBVIOUS
  <2>2. 1 <= m /\ m <= h
    BY <2>1
  <2>3. Count(t, <<1, h>>, v) = Count(t, <<1, m>>, v) + Count(t, <<m, h>>, v)
    BY <2>2, CountSplit
  <2>4. Copied(t, 1, m, s, 1)
    BY <1>3, <2>1 DEF Copied
  <2>5. Count(t, <<1, m>>, v) = Count(s, <<1, m>>, v)
    <3>1. m = 1 + (m - 1)
      BY <2>1
    <3> QED
      BY <2>4, <3>1, CountCopied
  <2>6. Copied(t, m, h, a, k)
    <3>1. \A i \in m .. h - 1 : i = n + 1 /\ i - m + k = k
      BY <2>1
    <3> QED
      BY <1>3, <3>1 DEF Copied
  <2>7. Count(t, <<m, h>>, v) = Count(a, <<k, e>>, v)
    <3>1. e = k + (h - m)
      BY <2>1
    <3> QED
      BY <2>6, <3>1, CountCopied
  <2> QED
    BY <1>4, <2>1, <2>3, <2>5, <2>7
<1> QED
  BY <1>1, <1>2, <1>3, <1>4, <1>5, <1>6

\* Merge takes element k, and its two pointers go to i and j.
Turn(p, k, i, j) ==
  \/ TakesLeft(p) /\ k = idx[p] /\ i = idx[p] + 1 /\ j = RightIdx(p)
  \/ ~TakesLeft(p) /\ k = RightIdx(p) /\ i = idx[p] /\ j = RightIdx(p) + 1

\* The next element that merge takes is one of the least that remain.
LEMMA TakesLeast ==
  ASSUME Tree, Loops, Data, NEW p \in Ranges, At(p, "take"), Sound(Top(p)),
         NEW k, k = IF TakesLeft(p) THEN idx[p] ELSE RightIdx(p)
  PROVE  /\ k \in Indices /\ k \in Remaining(p) /\ arr[k] \in Values
         /\ \A j \in Remaining(p) : arr[k] <= arr[j]
<1>1. /\ Running(p) /\ pc[p] = "take" /\ Region(p) = Top(p) /\ TypeOK /\ Shape
      /\ arr \in [Indices -> Values]
  BY DEF At, Running, Region, Tree, TypeOK
<1>2. /\ Ready(LeftOf(Top(p))) /\ Ready(RightOf(Top(p)))
  BY <1>1 DEF Data, Holds
<1>3. PICK l \in Int, m \in Int, h \in Int, i \in Int, j \in Int :
        /\ l = Top(p)[1] /\ m = Mid(Top(p)) /\ h = Top(p)[2] /\ i = idx[p] /\ j = RightIdx(p)
        /\ 0 <= l /\ l < m /\ m < h /\ h <= N
        /\ i \in l .. m /\ j \in m .. h
  <2>1. /\ Top(p)[1] \in 0 .. N /\ Mid(Top(p)) \in 0 .. N /\ Top(p)[2] \in 0 .. N
        /\ Top(p)[1] < Mid(Top(p)) /\ Mid(Top(p)) < Top(p)[2]
    BY <1>1, MergingIs DEF Merging
  <2>2. idx[p] \in Top(p)[1] .. Mid(Top(p)) /\ RightIdx(p) \in Mid(Top(p)) .. Top(p)[2]
    BY <1>1, TakeIs
  <2> QED
    BY <2>1, <2>2, SortAssumption
<1>4. /\ \A c, d \in l .. m - 1 : c <= d => arr[c] <= arr[d]
      /\ \A c, d \in m .. h - 1 : c <= d => arr[c] <= arr[d]
  BY <1>2, <1>3 DEF Ready, IsSorted, Cells, LeftOf, RightOf
<1>5. Remaining(p) = i .. m - 1 \cup j .. h - 1
  BY <1>3 DEF Remaining
<1>6. \A c \in l .. h - 1 : c \in Indices /\ arr[c] \in Values /\ arr[c] \in Int
  <2>1. \A c \in l .. h - 1 : c \in Indices
    BY <1>3, SortAssumption DEF Indices
  <2>2. \A c \in Indices : arr[c] \in Values /\ arr[c] \in Int
    BY <1>1, SortAssumption
  <2> QED
    BY <2>1, <2>2
<1>7. /\ TakesLeft(p) => k = i /\ i < m /\ (j = h \/ arr[i] <= arr[j])
      /\ ~TakesLeft(p) => k = j /\ j < h /\ (i = m \/ ~(arr[i] <= arr[j]))
  <2>1. ~TakesLeft(p) => RightIdx(p) < Top(p)[2]
    BY <1>1, TakeIs
  <2> QED
    BY <1>3, <2>1 DEF TakesLeft
<1>8. CASE TakesLeft(p)
  <2>1. k = i /\ i \in i .. m - 1 /\ i \in l .. h - 1 /\ i \in l .. m - 1
    BY <1>3, <1>7, <1>8
  <2>2. ASSUME NEW d \in i .. m - 1 PROVE arr[i] <= arr[d]
    <3>1. d \in l .. m - 1 /\ i <= d
      BY <1>3, <2>2
    <3> QED
      BY <1>4, <2>1, <3>1
  <2>3. ASSUME NEW d \in j .. h - 1 PROVE arr[i] <= arr[d]
    <3>1. j \in m .. h - 1 /\ d \in m .. h - 1 /\ j <= d /\ j # h
      BY <1>3, <2>3
    <3>2. j \in l .. h - 1 /\ d \in l .. h - 1
      BY <1>3, <3>1
    <3>3. arr[i] <= arr[j] /\ arr[j] <= arr[d]
      BY <1>4, <1>7, <1>8, <3>1
    <3> QED
      BY <1>6, <2>1, <3>2, <3>3
  <2> QED
    BY <1>5, <1>6, <2>1, <2>2, <2>3
<1>9. CASE ~TakesLeft(p)
  <2>1. k = j /\ j \in j .. h - 1 /\ j \in l .. h - 1 /\ j \in m .. h - 1
    BY <1>3, <1>7, <1>9
  <2>2. ASSUME NEW d \in j .. h - 1 PROVE arr[j] <= arr[d]
    <3>1. d \in m .. h - 1 /\ j <= d
      BY <1>3, <2>2
    <3> QED
      BY <1>4, <2>1, <3>1
  <2>3. ASSUME NEW d \in i .. m - 1 PROVE arr[j] <= arr[d]
    <3>1. i \in l .. m - 1 /\ d \in l .. m - 1 /\ i <= d /\ i # m
      BY <1>3, <2>3
    <3>2. i \in l .. h - 1 /\ d \in l .. h - 1
      BY <1>3, <3>1
    <3>3. ~(arr[i] <= arr[j]) /\ arr[i] <= arr[d]
      BY <1>4, <1>7, <1>9, <3>1
    <3> QED
      BY <1>6, <2>1, <3>2, <3>3
  <2> QED
    BY <1>5, <1>6, <2>1, <2>2, <2>3
<1> QED
  BY <1>8, <1>9

\* What merge is after, with s taken and the pointers at i and j.
Kept(p, i, j, s) ==
  /\ Len(s) = Len(temp[p]) + 1 /\ Len(temp[p]) \in Nat
  /\ i \in Top(p)[1] .. Mid(Top(p)) /\ j \in Mid(Top(p)) .. Top(p)[2]
  /\ j = Mid(Top(p)) + (Len(s) - (i - Top(p)[1]))
  /\ IsSorted(s, Whole(s))
  /\ \A c \in DOMAIN s, d \in i .. Mid(Top(p)) - 1 \cup j .. Top(p)[2] - 1 : s[c] <= arr[d]
  /\ \A v \in Values :
       Count(s, Whole(s), v) + Count(arr, <<i, Mid(Top(p))>>, v)
         + Count(arr, <<j, Top(p)[2]>>, v) = Count(input, Top(p), v)

\* One round of the loop of merge keeps what it is after.
LEMMA TakeKeeps ==
  ASSUME Tree, Loops, Data, NEW p \in Ranges, At(p, "take"), Sound(Top(p)),
         NEW k \in Int, NEW i \in Int, NEW j \in Int, Turn(p, k, i, j),
         NEW s, s = Append(temp[p], arr[k])
  PROVE  Kept(p, i, j, s)
<1>1. /\ Running(p) /\ pc[p] = "take" /\ Region(p) = Top(p) /\ TypeOK /\ Shape
      /\ temp[p] \in Seq(Values)
  BY DEF At, Running, Region, Tree, TypeOK
<1>2. Taking(p)
  BY <1>1 DEF Data, Holds
<1>3. /\ k \in Indices /\ k \in Remaining(p) /\ arr[k] \in Values
      /\ \A d \in Remaining(p) : arr[k] <= arr[d]
  BY TakesLeast DEF Turn
<1>4. PICK lo \in Int, m \in Int, h \in Int, i0 \in Int, j0 \in Int, n \in Nat :
        /\ lo = Top(p)[1] /\ m = Mid(Top(p)) /\ h = Top(p)[2] /\ i0 = idx[p] /\ j0 = RightIdx(p)
        /\ n = Len(temp[p]) /\ lo < m /\ m < h
        /\ i0 \in lo .. m /\ j0 \in m .. h /\ j0 = m + (n - (i0 - lo))
        /\ TakesLeft(p) => i0 < m
        /\ ~TakesLeft(p) => j0 < h
  <2>1. /\ Top(p)[1] \in 0 .. N /\ Mid(Top(p)) \in 0 .. N /\ Top(p)[2] \in 0 .. N
        /\ Top(p)[1] < Mid(Top(p)) /\ Mid(Top(p)) < Top(p)[2]
    BY <1>1, MergingIs DEF Merging
  <2>2. /\ idx[p] \in Top(p)[1] .. Mid(Top(p)) /\ RightIdx(p) \in Mid(Top(p)) .. Top(p)[2]
        /\ Len(temp[p]) \in Nat
        /\ RightIdx(p) = Mid(Top(p)) + (Len(temp[p]) - (idx[p] - Top(p)[1]))
        /\ TakesLeft(p) => idx[p] < Mid(Top(p))
        /\ ~TakesLeft(p) => RightIdx(p) < Top(p)[2]
    BY <1>1, TakeIs
  <2>3. /\ Top(p)[1] \in Int /\ Mid(Top(p)) \in Int /\ Top(p)[2] \in Int
        /\ idx[p] \in Int /\ RightIdx(p) \in Int
    BY <2>1, <2>2, SortAssumption
  <2> QED
    BY <2>1, <2>2, <2>3
<1>5. Remaining(p) = i0 .. m - 1 \cup j0 .. h - 1
  BY <1>4 DEF Remaining
<1>6. /\ TakesLeft(p) => k = i0 /\ i = i0 + 1 /\ j = j0 /\ i0 < m
      /\ ~TakesLeft(p) => k = j0 /\ i = i0 /\ j = j0 + 1 /\ j0 < h
  BY <1>4 DEF Turn
<1>7. i \in lo .. m /\ j \in m .. h /\ j = m + ((n + 1) - (i - lo))
  <2>1. i0 + 1 \in Int /\ j0 + 1 \in Int /\ (n + 1) - ((i0 + 1) - lo) = n - (i0 - lo)
        /\ m + ((n + 1) - (i0 - lo)) = (m + (n - (i0 - lo))) + 1
    OBVIOUS
  <2>2. CASE TakesLeft(p)
    <3>1. i = i0 + 1 /\ j = j0 /\ i0 < m
      BY <1>6, <2>2
    <3>2. i \in lo .. m
      BY <1>4, <3>1, SMTT(30)
    <3>3. j = m + ((n + 1) - (i - lo))
      BY <1>4, <2>1, <3>1
    <3> QED
      BY <1>4, <3>1, <3>2, <3>3
  <2>3. CASE ~TakesLeft(p)
    <3>1. i = i0 /\ j = j0 + 1 /\ j0 < h
      BY <1>6, <2>3
    <3>2. j \in m .. h
      BY <1>4, <3>1, SMTT(30)
    <3>3. j = m + ((n + 1) - (i - lo))
      BY <1>4, <2>1, <3>1
    <3> QED
      BY <1>4, <3>1, <3>2, <3>3
  <2> QED
    BY <2>2, <2>3
<1>8. \A c \in DOMAIN temp[p] : temp[p][c] <= arr[k]
  BY <1>2, <1>3 DEF Taking
<1>9. IsSorted(temp[p], Whole(temp[p]))
  BY <1>2 DEF Taking
<1>10. /\ Len(s) = n + 1 /\ DOMAIN s = 1 .. n + 1 /\ DOMAIN temp[p] = 1 .. n
       /\ \A c \in 1 .. n : s[c] = temp[p][c]
       /\ s[n + 1] = arr[k]
       /\ IsSorted(s, Whole(s))
       /\ \A v : Count(s, Whole(s), v) = Count(temp[p], Whole(temp[p]), v) + Count(arr, <<k, k + 1>>, v)
  <2>1. DOMAIN temp[p] = 1 .. n
    BY <1>1, <1>4
  <2>2. PICK t \in Seq(Values), x \in Values, a \in [Indices -> Values] :
         t = temp[p] /\ x = arr[k] /\ a = arr /\ x = a[k]
    BY <1>1, <1>3 DEF TypeOK
  <2>3. IsSorted(t, Whole(t)) /\ Below(t, x) /\ x = a[k]
    BY <1>8, <1>9, <2>2 DEF Below
  <2>4. /\ Len(Append(t, x)) = Len(t) + 1
        /\ DOMAIN Append(t, x) = 1 .. Len(t) + 1
        /\ \A c \in DOMAIN t : Append(t, x)[c] = t[c]
        /\ Append(t, x)[Len(t) + 1] = x
        /\ IsSorted(Append(t, x), Whole(Append(t, x)))
        /\ \A v : Count(Append(t, x), Whole(Append(t, x)), v)
                    = Count(t, Whole(t), v) + Count(a, <<k, k + 1>>, v)
    <3>1. PICK e \in Int : e = k + 1
      OBVIOUS
    <3>2. /\ Len(Append(t, x)) = Len(t) + 1
          /\ DOMAIN Append(t, x) = 1 .. Len(t) + 1
          /\ \A c \in DOMAIN t : Append(t, x)[c] = t[c]
          /\ Append(t, x)[Len(t) + 1] = x
          /\ IsSorted(Append(t, x), Whole(Append(t, x)))
      BY <2>3, <3>1, AppendOne
    <3>3. ASSUME NEW v
          PROVE  Count(Append(t, x), Whole(Append(t, x)), v)
                   = Count(t, Whole(t), v) + Count(a, <<k, e>>, v)
      BY <2>3, <3>1, AppendOne
    <3> QED
      BY <3>1, <3>2, <3>3
  <2>5. s = Append(t, x) /\ n = Len(t) /\ t = temp[p] /\ a = arr /\ x = arr[k]
    BY <1>4, <2>2
  <2>6. \A v : Count(s, Whole(s), v) = Count(temp[p], Whole(temp[p]), v) + Count(arr, <<k, k + 1>>, v)
    BY <2>4, <2>5, Zenon
  <2>7. /\ Len(s) = n + 1 /\ DOMAIN s = 1 .. n + 1 /\ s[n + 1] = arr[k]
        /\ IsSorted(s, Whole(s))
    BY <2>4, <2>5, Zenon
  <2>8. \A c \in 1 .. n : s[c] = temp[p][c]
    BY <2>1, <2>4, <2>5, Zenon
  <2> QED
    BY <2>1, <2>6, <2>7, <2>8
<1>11. \A c \in DOMAIN s, d \in i .. m - 1 \cup j .. h - 1 : s[c] <= arr[d]
  <2> SUFFICES ASSUME NEW c \in 1 .. n + 1, NEW d \in i .. m - 1 \cup j .. h - 1
               PROVE  s[c] <= arr[d]
    BY <1>10
  <2>1. d \in Remaining(p)
    <3>1. CASE TakesLeft(p)
      BY <1>4, <1>5, <1>6, <3>1
    <3>2. CASE ~TakesLeft(p)
      BY <1>4, <1>5, <1>6, <3>2, SMTT(30)
    <3> QED
      BY <3>1, <3>2
  <2>2. CASE c \in 1 .. n
    BY <1>2, <1>10, <2>1, <2>2 DEF Taking
  <2>3. CASE c = n + 1
    BY <1>3, <1>10, <2>1, <2>3
  <2>4. c \in 1 .. n \/ c = n + 1
    OBVIOUS
  <2> QED
    BY <2>2, <2>3, <2>4
<1>12. ASSUME NEW v \in Values
       PROVE  Count(s, Whole(s), v) + Count(arr, <<i, m>>, v) + Count(arr, <<j, h>>, v)
                = Count(input, Top(p), v)
  <2>1. Count(temp[p], Whole(temp[p]), v) + Count(arr, <<i0, m>>, v) + Count(arr, <<j0, h>>, v)
          = Count(input, Top(p), v)
    BY <1>2, <1>4 DEF Taking
  <2>2. Count(s, Whole(s), v) = Count(temp[p], Whole(temp[p]), v) + Count(arr, <<k, k + 1>>, v)
    BY <1>10
  <2>3. PICK e \in Int : e = k + 1
    OBVIOUS
  <2>4. /\ Count(arr, <<k, e>>, v) \in Nat
        /\ Count(arr, <<i, m>>, v) \in Nat /\ Count(arr, <<j, h>>, v) \in Nat
        /\ Count(arr, <<i0, m>>, v) \in Nat /\ Count(arr, <<j0, h>>, v) \in Nat
    BY <2>3, CountIs
  <2>5. Count(temp[p], Whole(temp[p]), v) \in Nat
    <3>1. PICK w \in Int : w = n + 1
      OBVIOUS
    <3>2. Whole(temp[p]) = <<1, w>>
      BY <1>4, <3>1 DEF Whole
    <3> QED
      BY <3>2, CountIs, SMTT(30)
  <2>6. CASE TakesLeft(p)
    <3>1. k = i0 /\ e = i /\ j = j0 /\ k <= e /\ e <= m
      BY <1>4, <1>6, <1>7, <2>3, <2>6
    <3>2. Count(arr, <<k, m>>, v) = Count(arr, <<k, e>>, v) + Count(arr, <<e, m>>, v)
      BY <1>7, <3>1, CountSplit
    <3>3. /\ Count(arr, <<i0, m>>, v) = Count(arr, <<k, k + 1>>, v) + Count(arr, <<i, m>>, v)
          /\ Count(arr, <<k, k + 1>>, v) \in Nat /\ Count(arr, <<j0, h>>, v) = Count(arr, <<j, h>>, v)
      BY <2>3, <2>4, <3>1, <3>2
    <3> QED
      BY <2>1, <2>2, <2>4, <2>5, <3>3
  <2>7. CASE ~TakesLeft(p)
    <3>1. k = j0 /\ e = j /\ i = i0 /\ k <= e /\ e <= h
      BY <1>4, <1>6, <1>7, <2>3, <2>7
    <3>2. Count(arr, <<k, h>>, v) = Count(arr, <<k, e>>, v) + Count(arr, <<e, h>>, v)
      BY <1>7, <3>1, CountSplit
    <3>3. /\ Count(arr, <<j0, h>>, v) = Count(arr, <<k, k + 1>>, v) + Count(arr, <<j, h>>, v)
          /\ Count(arr, <<k, k + 1>>, v) \in Nat /\ Count(arr, <<i0, m>>, v) = Count(arr, <<i, m>>, v)
      BY <2>3, <2>4, <3>1, <3>2
    <3> QED
      BY <2>1, <2>2, <2>4, <2>5, <3>3, SMTT(30)
  <2> QED
    BY <2>6, <2>7
<1> QED
  BY <1>4, <1>7, <1>10, <1>11, <1>12 DEF Kept

\* Parent and child begin with halves that nobody has touched.
LEMMA ForkHolds ==
  ASSUME Tree, Loops, Data, NEW p \in Ranges, Fork(p),
         NEW q \in {p, LeftOf(Top(p))}, Sound(Region(q))'
  PROVE  Holds(q)'
<1>1. PICK r \in Ranges, c \in Ranges, t \in Ranges :
        /\ r = Top(p) /\ c = LeftOf(r) /\ t = RightOf(r) /\ c # p
        /\ Within(c, r) /\ Within(t, r)
  BY ForkIs
<1>2. /\ Running(p) /\ pc[p] = "call" /\ pc'[p] = "call" /\ pc'[c] = "call"
      /\ stack'[c] = <<c>> /\ stack'[p] = <<t>> \o stack[p]
      /\ arr' = arr /\ input' = input /\ stack[p] \in Seq(Ranges)
  <2>1. /\ Running(p) /\ pc[p] = "call" /\ pc'[p] = "call" /\ pc'[c] = "call"
        /\ stack'[c] = <<c>> /\ stack'[p] = <<t>> \o stack[p]
    BY <1>1, ForkIs
  <2> QED
    BY <2>1 DEF Fork, Tree, TypeOK
<1>3. Top(p)' = t /\ Top(c)' = c
  BY <1>1, <1>2 DEF Top
<1>4. PICK h \in Ranges : h = Top(q)' /\ Within(h, r) /\ Region(q)' = h /\ pc'[q] = "call"
  <2>1. CASE q = p
    BY <1>1, <1>2, <1>3, <2>1 DEF Region
  <2>2. CASE q = c
    BY <1>1, <1>2, <1>3, <2>2 DEF Region
  <2> QED
    BY <1>1, <2>1, <2>2
<1>5. Sound(h)
  <2>1. Sound(h)'
    BY <1>4
  <2> QED
    BY <2>1, StepIs DEF Step
<1>6. Sound(r) /\ Region(p) = r
  BY <1>1, <1>2, <1>4, <1>5, SoundCall DEF Region
<1>7. Untouched(r)
  BY <1>1, <1>2, <1>6 DEF Data, Holds
<1>8. \A i \in Cells(h) : i \in Cells(r)
  BY <1>4, RangeIs, SortAssumption DEF Within, Cells
<1>9. Untouched(h)'
  BY <1>2, <1>7, <1>8 DEF Untouched
<1> QED
  BY <1>4, <1>9 DEF Holds

\* A call that returns leaves its range ready for the call below it.
LEMMA ReturnHolds ==
  ASSUME Tree, Loops, Data, NEW p \in Ranges, Step(p), Return(p), pc[p] \in {"sort", "copy"},
         UNCHANGED <<reaped, nfail>>,
         \A r \in Ranges : r = Top(p) /\ Sound(Top(p)) => Ready(r)',
         Running(p)', Sound(Region(p))'
  PROVE  Holds(p)'
<1>1. Running(p) /\ TypeOK'
  BY StepTypes, Runs DEF Tree, Next
<1>2. Len(stack[p]) # 1
  BY <1>1 DEF Return, End, Running, Tree, TypeOK
<1>3. pc'[p] = "wait" /\ Top(p) = RightOf(Top(p)')
  BY <1>1, <1>2, ReturnTree DEF Return
<1>4. PICK r \in Ranges : r = Top(p)
  BY <1>1, StackIs DEF Tree
<1>5. Region(p)' = r
  BY <1>3, <1>4 DEF Region
<1>6. Sound(r)'
  BY <1>5
<1>7. Ready(r)'
  BY <1>4, <1>6, StepIs
<1>8. Ready(RightOf(Top(p)))'
  BY <1>3, <1>4, <1>7
<1> QED
  BY <1>3, <1>8 DEF Holds

\* When the child has been waited for, both halves are ready.
LEMMA WaitHolds ==
  ASSUME Tree, Loops, Data, Exited, NEW p \in Ranges, Wait(p), Sound(Region(p))'
  PROVE  Holds(p)'
<1>1. /\ Running(p) /\ pc[p] = "wait" /\ pc'[p] = "merge" /\ Top(p)' = Top(p)
      /\ arr' = arr /\ input' = input
  BY DEF Wait, At, Running, Tree, TypeOK, Top
<1>2. PICK r \in Ranges, c \in Ranges, t \in Ranges :
        r = Top(p) /\ c = LeftOf(r) /\ t = RightOf(r) /\ 1 \in Waits(p) /\ stack[p][1] = r
  <2>1. LeftOf(Top(p)) \in Ranges /\ RightOf(Top(p)) \in Ranges
    BY <1>1, MergingIs DEF Tree, Merging
  <2>2. 1 \in DOMAIN stack[p] /\ stack[p][1] = Top(p) /\ Top(p) \in Ranges
    BY <1>1, StackIs DEF Tree
  <2> QED
    BY <1>1, <2>1, <2>2 DEF Waits
<1>3. Sound(r)
  <2>1. Region(p)' = r
    BY <1>1, <1>2 DEF Region
  <2>2. Sound(r)'
    BY <2>1
  <2> QED
    BY <2>2, StepIs DEF Step
<1>4. Sound(c) /\ Sound(t)
  BY <1>1, <1>2, <1>3, SoundHalves DEF Merging
<1>5. Ready(t)
  <2>1. Region(p) = t
    BY <1>1, <1>2 DEF Region
  <2> QED
    BY <1>1, <1>2, <1>4, <2>1 DEF Data, Holds
<1>6. status[c] = "ok"
  <2>1. c \in Born
    BY <1>1, <1>2, CallIs DEF Tree, Forked, Merging, Waits
  <2>2. status[c] # "running"
    BY <1>2 DEF Wait
  <2>3. ~Failed(c)
    BY <1>4, RangeIs DEF Sound, Within
  <2> QED
    BY <2>1, <2>2, <2>3 DEF Born, Failed, Tree, TypeOK, Statuses
<1>7. Ready(c)
  BY <1>2, <1>4, <1>6 DEF Exited
<1>8. Ready(LeftOf(Top(p)))' /\ Ready(RightOf(Top(p)))'
  BY <1>1, <1>2, <1>5, <1>7 DEF Ready, IsSorted, SameElements, Count
<1> QED
  BY <1>1, <1>8 DEF Holds

\* At the start of merge nothing is taken.
LEMMA MergeHolds ==
  ASSUME Tree, Loops, Data, NEW p \in Ranges, Merge(p), Sound(Region(p))'
  PROVE  Holds(p)'
<1>1. /\ Running(p) /\ pc[p] = "merge" /\ pc'[p] = "take" /\ Top(p)' = Top(p)
      /\ arr' = arr /\ input' = input /\ temp'[p] = temp[p] /\ temp[p] = <<>>
      /\ idx'[p] = Top(p)[1]
  BY DEF Merge, At, Running, Tree, TypeOK, Top, Loops
<1>2. PICK r \in Ranges : r = Top(p)
  BY <1>1, StackIs DEF Tree
<1>3. Sound(r) /\ Region(p) = r
  <2>1. Region(p)' = r
    BY <1>1, <1>2 DEF Region
  <2>2. Sound(r)'
    BY <2>1
  <2> QED
    BY <1>1, <1>2, <2>2, StepIs DEF Step, Region
<1>4. Ready(LeftOf(r)) /\ Ready(RightOf(r))
  BY <1>1, <1>2, <1>3 DEF Data, Holds
<1>5. Ready(LeftOf(Top(p)))' /\ Ready(RightOf(Top(p)))'
  BY <1>1, <1>2, <1>4 DEF Ready, IsSorted, SameElements, Count
<1>6. PICK l \in Int, m \in Int, h \in Int :
        /\ l = r[1] /\ m = Mid(r) /\ h = r[2] /\ l < m /\ m < h
        /\ r = <<l, h>> /\ LeftOf(r) = <<l, m>> /\ RightOf(r) = <<m, h>>
  <2>1. /\ r[1] \in Int /\ Mid(r) \in Int /\ r[2] \in Int /\ r[1] < Mid(r) /\ Mid(r) < r[2]
    BY <1>1, <1>2, MergingIs, SortAssumption DEF Tree, Merging
  <2> QED
    BY <2>1, RangeIs DEF LeftOf, RightOf
<1>7. RightIdx(p)' = m
  <2>1. RightIdx(p)' = m + (0 - (l - l))
    BY <1>1, <1>2, <1>6 DEF RightIdx
  <2> QED
    BY <2>1
<1>8. Whole(temp[p]) = <<1, 1>> /\ DOMAIN temp[p] = {}
  <2>1. Len(temp[p]) = 0 /\ 0 + 1 = 1 /\ DOMAIN temp[p] = {}
    BY <1>1
  <2> QED
    BY <2>1 DEF Whole
<1>9. IsSorted(temp[p], Whole(temp[p]))
  BY <1>8 DEF IsSorted, Cells
<1>10. ASSUME NEW v \in Values
       PROVE  Count(temp[p], <<1, 1>>, v) + Count(arr, <<l, m>>, v) + Count(arr, <<m, h>>, v)
                = Count(input, <<l, h>>, v)
  <2>1. Count(input, <<l, h>>, v) = Count(input, <<l, m>>, v) + Count(input, <<m, h>>, v)
    BY <1>6, CountSplit
  <2>2. /\ Count(input, <<l, m>>, v) = Count(arr, <<l, m>>, v)
        /\ Count(input, <<m, h>>, v) = Count(arr, <<m, h>>, v)
    BY <1>4, <1>6 DEF Ready, SameElements
  <2>3. Count(temp[p], <<1, 1>>, v) = 0
    BY CountEmpty
  <2>4. Count(arr, <<l, m>>, v) \in Nat /\ Count(arr, <<m, h>>, v) \in Nat
    BY CountIs
  <2> QED
    BY <2>1, <2>2, <2>3, <2>4
<1>11. Taking(p)'
  <2>1. \A v \in Values :
          Count(temp[p], Whole(temp[p]), v) + Count(arr, <<idx'[p], Mid(r)>>, v)
            + Count(arr, <<RightIdx(p)', r[2]>>, v) = Count(input, r, v)
    BY <1>1, <1>2, <1>6, <1>7, <1>8, <1>10
  <2> QED
    BY <1>1, <1>2, <1>8, <1>9, <2>1 DEF Taking
<1> QED
  BY <1>1, <1>5, <1>11 DEF Holds

\* A round of the loop of merge.
LEMMA TakeHolds ==
  ASSUME Tree, Loops, Data, NEW p \in Ranges, Take(p), Sound(Region(p))'
  PROVE  Holds(p)'
<1>1. /\ Running(p) /\ At(p, "take") /\ pc[p] = "take" /\ Top(p)' = Top(p) /\ TypeOK /\ Shape
      /\ arr' = arr /\ input' = input /\ pc'[p] \in {"take", "copy"}
  BY DEF Take, At, Running, Tree, TypeOK, Top
<1>2. PICK r \in Ranges : r = Top(p)
  BY <1>1, StackIs
<1>3. Sound(r) /\ Region(p) = r
  <2>1. Region(p)' = r
    BY <1>1, <1>2 DEF Region
  <2>2. Sound(r)'
    BY <2>1
  <2> QED
    BY <1>1, <1>2, <2>2, StepIs DEF Step, Region
<1>4. PICK k \in Int, i \in Int, j \in Int :
        Turn(p, k, i, j) /\ k = IF TakesLeft(p) THEN idx[p] ELSE RightIdx(p)
  <2>1. idx[p] \in Int /\ RightIdx(p) \in Int
    <3>1. /\ Top(p)[1] \in 0 .. N /\ Mid(Top(p)) \in 0 .. N /\ Top(p)[2] \in 0 .. N
      BY <1>1, MergingIs DEF Merging
    <3>2. idx[p] \in Top(p)[1] .. Mid(Top(p)) /\ RightIdx(p) \in Mid(Top(p)) .. Top(p)[2]
      BY <1>1, TakeIs
    <3> QED
      BY <3>1, <3>2
  <2>2. idx[p] + 1 \in Int /\ RightIdx(p) + 1 \in Int
    BY <2>1
  <2>3. CASE TakesLeft(p)
    BY <2>1, <2>2, <2>3 DEF Turn
  <2>4. CASE ~TakesLeft(p)
    BY <2>1, <2>2, <2>4 DEF Turn
  <2> QED
    BY <2>3, <2>4
<1>5. PICK s : s = Append(temp[p], arr[k])
  OBVIOUS
<1>6. temp'[p] = s
  BY <1>1, <1>4, <1>5 DEF Take, TypeOK
<1>7. /\ Len(s) = Len(temp[p]) + 1 /\ Len(temp[p]) \in Nat
      /\ i \in r[1] .. Mid(r) /\ j \in Mid(r) .. r[2]
      /\ j = Mid(r) + (Len(s) - (i - r[1]))
      /\ IsSorted(s, Whole(s))
      /\ \A c \in DOMAIN s, d \in i .. Mid(r) - 1 \cup j .. r[2] - 1 : s[c] <= arr[d]
      /\ \A v \in Values : Count(s, Whole(s), v) + Count(arr, <<i, Mid(r)>>, v)
                             + Count(arr, <<j, r[2]>>, v) = Count(input, r, v)
  <2>1. Sound(Top(p)) /\ At(p, "take")
    BY <1>1, <1>2, <1>3
  <2>2. Kept(p, i, j, s)
    BY <1>4, <1>5, <2>1, TakeKeeps
  <2> QED
    BY <1>2, <2>2 DEF Kept
<1>8. CASE Len(temp[p]) + 1 = Size(r)
  <2>1. pc'[p] = "copy" /\ idx'[p] = r[1]
    BY <1>1, <1>2, <1>8 DEF Take, TypeOK
  <2>2. PICK l \in Int, m \in Int, h \in Int : l = r[1] /\ m = Mid(r) /\ h = r[2] /\ l < m /\ m < h
    BY <1>1, <1>2, MergingIs, SortAssumption DEF Merging
  <2>3. i = m /\ j = h
    <3>1. j = m + ((h - l) - (i - l)) /\ i \in l .. m /\ j \in m .. h
      BY <1>7, <1>8, <2>2 DEF Size
    <3> QED
      BY <2>2, <3>1
  <2>4. ASSUME NEW v \in Values PROVE Count(s, Whole(s), v) = Count(input, r, v)
    <3>1. Count(arr, <<i, m>>, v) = 0 /\ Count(arr, <<j, h>>, v) = 0
      BY <2>3, CountEmpty
    <3>2. Count(s, Whole(s), v) \in Nat
      <4>1. PICK w \in Int : w = Len(s) + 1
        BY <1>7
      <4>2. Whole(s) = <<1, w>>
        BY <4>1 DEF Whole
      <4> QED
        BY <4>2, CountIs
    <3>3. Count(s, Whole(s), v) + 0 + 0 = Count(input, r, v)
      BY <1>7, <2>2, <3>1
    <3> QED
      BY <3>2, <3>3
  <2>5. Copied(arr, r[1], r[1], s, 1)
    BY <2>2 DEF Copied
  <2>6. Copying(p)'
    BY <1>1, <1>2, <1>6, <1>7, <2>1, <2>4, <2>5 DEF Copying
  <2> QED
    BY <2>1, <2>6 DEF Holds
<1>9. CASE Len(temp[p]) + 1 # Size(r)
  <2>1. pc'[p] = "take" /\ idx'[p] = i
    BY <1>1, <1>2, <1>4, <1>9 DEF Take, TypeOK, Turn
  <2>2. RightIdx(p)' = j
    BY <1>1, <1>2, <1>6, <1>7, <2>1 DEF RightIdx
  <2>3. Remaining(p)' = i .. Mid(r) - 1 \cup j .. r[2] - 1
    BY <1>1, <1>2, <2>1, <2>2 DEF Remaining
  <2>4. Taking(p)'
    BY <1>1, <1>2, <1>6, <1>7, <2>1, <2>2, <2>3 DEF Taking
  <2>5. Ready(LeftOf(Top(p)))' /\ Ready(RightOf(Top(p)))'
    <3>1. Ready(LeftOf(r)) /\ Ready(RightOf(r))
      BY <1>1, <1>2, <1>3 DEF Data, Holds
    <3> QED
      BY <1>1, <1>2, <3>1 DEF Ready, IsSorted, SameElements, Count
  <2> QED
    BY <2>1, <2>4, <2>5 DEF Holds
<1> QED
  BY <1>8, <1>9

\* A round of the copy back that is not the last.
LEMMA CopyHolds ==
  ASSUME Tree, Loops, Data, NEW p \in Ranges, Copy(p), idx[p] + 1 # Top(p)[2], Sound(Region(p))'
  PROVE  Holds(p)'
<1>1. /\ Running(p) /\ At(p, "copy") /\ pc[p] = "copy" /\ Top(p)' = Top(p) /\ TypeOK /\ Shape
      /\ input' = input /\ pc'[p] = "copy" /\ temp'[p] = temp[p] /\ idx'[p] = idx[p] + 1
      /\ arr' = [arr EXCEPT ![idx[p]] = temp[p][idx[p] - Top(p)[1] + 1]]
  BY DEF Copy, At, Running, Tree, TypeOK, Top
<1>2. PICK r \in Ranges : r = Top(p)
  BY <1>1, StackIs
<1>3. Sound(r) /\ Region(p) = r
  <2>1. Region(p)' = r
    BY <1>1, <1>2 DEF Region
  <2>2. Sound(r)'
    BY <2>1
  <2> QED
    BY <1>1, <1>2, <2>2, StepIs DEF Step, Region
<1>4. Copying(p)
  BY <1>1, <1>2, <1>3 DEF Data, Holds
<1>5. PICK l \in Int, i \in Int, h \in Int :
        l = r[1] /\ i = idx[p] /\ h = r[2] /\ i \in l .. h - 1 /\ i \in Indices
  <2>1. /\ Top(p)[1] \in 0 .. N /\ Top(p)[2] \in 0 .. N
        /\ idx[p] \in Top(p)[1] .. Top(p)[2] - 1 /\ idx[p] \in Indices
    BY <1>1, CopyIs
  <2> QED
    BY <1>2, <2>1
<1>6. Copied(arr', l, i + 1, temp[p], 1)
  <2> SUFFICES ASSUME NEW c \in l .. (i + 1) - 1
               PROVE  arr'[c] = temp[p][c - l + 1]
    BY DEF Copied
  <2>1. CASE c = i
    BY <1>1, <1>2, <1>5, <2>1 DEF TypeOK
  <2>2. CASE c # i
    <3>1. c \in l .. i - 1
      BY <2>2
    <3>2. arr[c] = temp[p][c - l + 1]
      BY <1>2, <1>4, <1>5, <3>1 DEF Copying, Copied
    <3> QED
      BY <1>1, <1>5, <2>2, <3>2 DEF TypeOK
  <2> QED
    BY <2>1, <2>2
<1>7. Copying(p)'
  BY <1>1, <1>2, <1>4, <1>5, <1>6 DEF Copying
<1> QED
  BY <1>1, <1>7 DEF Holds

\* Every step keeps what the processes rely on.
LEMMA StepData ==
  ASSUME Tree, Loops, Data, Exited, NEW p \in Ranges, Step(p) \/ Failure(p)
  PROVE  Data'
<1> SUFFICES ASSUME NEW q \in Ranges, Running(q)', Sound(Region(q))'
             PROVE  Holds(q)'
  BY DEF Data
<1>1. CASE Fork(p) /\ q \in {p, LeftOf(Top(p))}
  BY <1>1, ForkHolds
<1>2. CASE q # p /\ ~(Fork(p) /\ q = LeftOf(Top(p)))
  BY <1>2, HoldsElsewhere
<1>3. CASE q = p /\ CallSmall(p)
  <2>1. /\ Running(p) /\ pc[p] = "call" /\ pc'[p] = "sort" /\ Top(p)' = Top(p)
        /\ arr' = arr /\ input' = input
    BY <1>3 DEF CallSmall, At, Running, Tree, TypeOK, Top
  <2>2. PICK r \in Ranges : r = Top(p)
    BY <2>1, StackIs DEF Tree
  <2>3. Region(p) = r /\ Region(p)' = r
    BY <2>1, <2>2 DEF Region
  <2>4. Sound(r)'
    BY <1>3, <2>3
  <2>5. Sound(r)
    BY <2>4, StepIs
  <2>6. Untouched(r)
    BY <2>1, <2>2, <2>3, <2>5 DEF Data, Holds
  <2>7. Untouched(Top(p))'
    BY <2>1, <2>2, <2>6 DEF Untouched
  <2> QED
    BY <1>3, <2>1, <2>7 DEF Holds
<1>4. CASE q = p /\ Sort(p)
  BY <1>4, SortReady, ReturnHolds DEF Sort, At, Step
<1>5. CASE q = p /\ Copy(p) /\ idx[p] + 1 = Top(p)[2]
  BY <1>5, CopyReady, ReturnHolds DEF Copy, At, Step
<1>6. CASE q = p /\ Copy(p) /\ idx[p] + 1 # Top(p)[2]
  BY <1>6, CopyHolds
<1>7. CASE q = p /\ Wait(p)
  BY <1>7, WaitHolds
<1>8. CASE q = p /\ Merge(p)
  BY <1>8, MergeHolds
<1>9. CASE q = p /\ Take(p)
  BY <1>9, TakeHolds
<1>10. ~Failure(p) \/ q # p
  BY DEF Failure, ForkFails, MallocFails, Fail, Killed, End, Running, Tree, TypeOK
<1> QED
  BY <1>1, <1>2, <1>3, <1>4, <1>5, <1>6, <1>7, <1>8, <1>9, <1>10 DEF Step

\* What exits with 0, and is sound, leaves its range ready.
LEMMA OkIsReady ==
  ASSUME Tree, Loops, Data, NEW p \in Ranges, Step(p) \/ Failure(p),
         NEW c \in Ranges, status[c] # "ok", status'[c] = "ok", Sound(c)
  PROVE  c = p /\ Ready(c)'
<1>1. c = p /\ ~Fork(p)
  <2>1. CASE Fork(p)
    <3>1. c \in {p, LeftOf(Top(p))}
      BY <2>1, StepIs
    <3> QED
      BY <2>1, <3>1, ForkIs
  <2>2. CASE ~Fork(p)
    BY <2>2, StepIs
  <2> QED
    BY <2>1, <2>2
<1>2. Running(p) /\ p \in Ranges
  BY StepIs
<1>3. Return(p) /\ Len(stack[p]) = 1 /\ (Sort(p) \/ (Copy(p) /\ idx[p] + 1 = Top(p)[2]))
  <2>1. ~Failure(p)
    BY <1>1 DEF Failure, ForkFails, MallocFails, Fail, Killed, End, Tree, TypeOK
  <2>2. status'[p] # status[p]
    BY <1>1
  <2>3. Return(p) /\ (Sort(p) \/ (Copy(p) /\ idx[p] + 1 = Top(p)[2]))
    BY <1>1, <2>1, <2>2 DEF Step, CallSmall, Sort, Wait, Merge, Take, Copy
  <2> QED
    BY <2>2, <2>3 DEF Return
<1>4. Top(p) = p
  BY <1>2, <1>3, StackIs DEF Tree, Shape
<1> QED
  BY <1>1, <1>2, <1>3, <1>4, SortReady, CopyReady

\* Every step keeps what has ended well, and is still waited for, ready.
LEMMA StepExited ==
  ASSUME Tree, Loops, Data, Exited, NEW p \in Ranges, Step(p) \/ Failure(p)
  PROVE  Exited'
<1>0. Tree' /\ Running(p)
  BY StepTree, StepIs
<1> SUFFICES ASSUME NEW u \in Ranges, NEW i \in Waits(u)',
                    NEW c, c = LeftOf(stack'[u][i]), status'[c] = "ok", Sound(c)'
             PROVE  Ready(c)'
  BY DEF Exited
<1>1. c \in Ranges
  <2>1. i \in Forked(u)' /\ Running(u)'
    BY <1>0 DEF Waits, Forked, Merging, Tree, Shape
  <2>2. LeftOf(stack'[u][i]) \in Born'
    BY <1>0, <2>1 DEF Tree, Shape
  <2> QED
    BY <2>2 DEF Born
<1>2. Sound(c)
  BY <1>1, StepIs
<1>3. CASE status[c] # "ok"
  BY <1>1, <1>2, <1>3, OkIsReady
<1>4. CASE status[c] = "ok" /\ \E j \in Waits(u) : stack[u][j] = stack'[u][i]
  BY <1>2, <1>4, ReadyElsewhere
<1>5. ASSUME status[c] = "ok"
      PROVE  \E j \in Waits(u) : stack[u][j] = stack'[u][i]
  <2>1. i \in DOMAIN stack'[u] /\ (i > 1 \/ pc'[u] = "wait")
    BY DEF Waits
  <2>2. /\ stack[p] \in Seq(Ranges) /\ DOMAIN stack[p] = 1 .. Len(stack[p])
        /\ Len(stack[p]) \in Nat \ {0} /\ Top(p) = stack[p][1]
    BY <1>0, StackIs DEF Tree
  <2>3. CASE u # p /\ stack'[u] = stack[u] /\ pc'[u] = pc[u]
    BY <2>1, <2>3 DEF Waits
  <2>4. CASE u = p /\ stack'[p] = stack[p] /\ pc'[p] # "wait"
    BY <2>1, <2>4 DEF Waits
  <2>5. CASE Fork(p) /\ u \in {p, LeftOf(Top(p))}
    <3>1. PICK d \in Ranges \ Born, t \in Ranges :
            /\ d = LeftOf(Top(p)) /\ d # p /\ stack'[d] = <<d>> /\ stack'[p] = <<t>> \o stack[p]
            /\ pc'[p] = "call" /\ pc'[d] = "call"
      BY <2>5, ForkIs
    <3>2. u # d
      BY <2>1, <3>1
    <3>3. i \in 1 .. Len(stack[p]) + 1 /\ i > 1 /\ stack'[p][i] = stack[p][i - 1]
      BY <2>1, <2>2, <2>5, <3>1, <3>2
    <3>4. i # 2
      <4>1. c # d
        BY <1>5, <3>1 DEF Born
      <4> QED
        BY <2>2, <2>5, <3>1, <3>2, <3>3, <4>1
    <3>5. i - 1 \in DOMAIN stack[p] /\ i - 1 > 1
      BY <2>2, <3>3, <3>4
    <3> QED
      BY <2>5, <3>1, <3>2, <3>3, <3>5 DEF Waits
  <2>6. CASE u = p /\ Return(p)
    <3>1. Len(stack[p]) # 1 /\ stack'[p] = Tail(stack[p])
      BY <2>1, <2>6 DEF Return, End, Tree, TypeOK
    <3>2. i + 1 \in DOMAIN stack[p] /\ i + 1 > 1 /\ stack'[p][i] = stack[p][i + 1]
      BY <2>1, <2>2, <2>6, <3>1, TailIs
    <3> QED
      BY <2>6, <3>2 DEF Waits
  <2>7. ~(u = p /\ Failure(p))
    BY <2>1 DEF Failure, ForkFails, MallocFails, Fail, Killed, End, Tree, TypeOK
  <2>8. u = p => Fork(p) \/ Return(p) \/ Failure(p) \/ (stack'[p] = stack[p] /\ pc'[p] # "wait")
    BY DEF Step, CallSmall, Sort, Wait, Merge, Take, Copy, At, Tree, TypeOK
  <2>9. u # p => (Fork(p) /\ u = LeftOf(Top(p))) \/ (stack'[u] = stack[u] /\ pc'[u] = pc[u])
    BY StepIs
  <2> QED
    BY <2>3, <2>4, <2>5, <2>6, <2>7, <2>8, <2>9
<1> QED
  BY <1>3, <1>4, <1>5

-----------------------------------------------------------------------------
(* The results *)

\* At the start nobody has touched anything.
LEMMA InitData ==
  ASSUME Init
  PROVE  Data /\ Exited
<1>1. Tree
  BY InitTree
<1>2. \A p \in Ranges : Running(p) => p = Root /\ pc[p] = "call" /\ stack[p] = <<Root>> /\ arr = input
  BY DEF Init, Running
<1>3. Data
  BY <1>2 DEF Data, Holds, Untouched
<1>4. \A p \in Ranges : Waits(p) = {}
  <2> SUFFICES ASSUME NEW p \in Ranges, NEW i \in Waits(p)
               PROVE  FALSE
    OBVIOUS
  <2>1. Running(p)
    BY <1>1 DEF Waits, Tree, Shape
  <2>2. pc[p] = "call" /\ stack[p] = <<Root>>
    BY <1>2, <2>1
  <2>3. i \in DOMAIN <<Root>> /\ i > 1
    BY <2>2 DEF Waits
  <2> QED
    BY <2>3
<1>5. Exited
  BY <1>4 DEF Exited
<1> QED
  BY <1>3, <1>5

LEMMA Inductive == IInv /\ [Next]_vars => IInv'
<1> SUFFICES ASSUME IInv, [Next]_vars
             PROVE  IInv'
  OBVIOUS
<1>1. CASE UNCHANGED vars
  BY <1>1 DEF vars, IInv, Tree, TypeOK, Shape, Nested, Placed, Under, Awaited, Counted, Loops,
              Data, Exited, Holds, Region, Untouched, Ready, Taking, Copying, Remaining, Sound,
              Born, Running, Forked, Waits, Orphan, Failed, Top, RightIdx
<1>2. CASE \E p \in Ranges : Step(p) \/ Failure(p)
  BY <1>2, StepTree, StepLoops, StepData, StepExited DEF IInv
<1> QED
  BY <1>1, <1>2 DEF Next, AllEnded

\* The inductive invariant.
THEOREM InvariantHolds == Spec => []IInv
<1>1. Init => IInv
  BY InitTree, InitData DEF IInv
<1> QED
  BY <1>1, Inductive, PTL DEF Spec

\* ExitsSorted: a process that exits with 0, with no failure below or above it,
\* leaves its range sorted, with the elements of the file.
THEOREM SortsItsRange == Spec => ExitsSorted
<1>1. ASSUME IInv, [Next]_vars
      PROVE  [\A p \in Ranges :
               (status[p] = "running" /\ status'[p] = "ok" /\ Sound(p)) =>
                 IsSorted(arr', p) /\ SameElements(input, arr', p)]_vars
  <2> SUFFICES ASSUME NEW p \in Ranges, status[p] = "running", status'[p] = "ok", Sound(p)
               PROVE  IsSorted(arr', p) /\ SameElements(input, arr', p)
    OBVIOUS
  <2>1. PICK q \in Ranges : Step(q) \/ Failure(q)
    BY <1>1 DEF Next, AllEnded, vars
  <2>2. Ready(p)'
    BY <1>1, <2>1, OkIsReady DEF IInv
  <2>3. input' = input
    BY <1>1, <2>1, StepIs DEF IInv
  <2> QED
    BY <2>2, <2>3 DEF Ready
<1> QED
  BY <1>1, InvariantHolds, PTL DEF Spec, ExitsSorted
=============================================================================
