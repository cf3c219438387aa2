------------------------- MODULE AsmWordCountProofs -------------------------
(***************************************************************************)
(* casm_wordcount: the functions in assembly keep to the calling           *)
(* convention and to the memory that is theirs, and do what the functions  *)
(* in C do.                                                                *)
(*                                                                         *)
(* The invariant of the first half has three parts.  Calls says what lies on the stack at    *)
(* each place of the program: the frame of main, then for each call that   *)
(* is under way its return address and the registers of its caller, in the *)
(* order of the pushes.  A return finds them there, which is why it goes   *)
(* back to its caller and gives it its registers.  Buffered says where the *)
(* registers that go through the buffer are, and that the loops that run   *)
(* to a terminator have one in front of them.  Chained says which entries  *)
(* have been freed.                                                        *)
(*                                                                         *)
(* The second half shows that every step is one of WordCount or none.  It  *)
(* adds to the invariant what a word at hand has become at each place:     *)
(* Fetching, how much of it is in the buffer; Spelling, how much of it is  *)
(* lowered and trimmed; Entering, in which chain its entry is looked for,  *)
(* and that at most the entry just made has not been counted.  AllClean    *)
(* says that no word has a terminator in it.  The invariant of WordCount,  *)
(* under the refinement mapping, says the rest; so the properties proved   *)
(* of WordCount hold of the functions in assembly.                         *)
(***************************************************************************)
EXTENDS AsmWordCount, SequenceTheorems, WellFoundedInduction, TLAPS

-----------------------------------------------------------------------------
(* The invariant.                                                          *)

\* A finite sequence, of whatever.
IsSeq(s) == Len(s) \in Nat /\ s = [k \in 1 .. Len(s) |-> s[k]]

\* The registers of the model.
Registers == {"rax", "rbp", "r12", "r13", "r14", "r15"}

\* The registers that wc_trim_non_alpha does not spoil.
Kept == callee_saved \ {"r13"}

\* What the functions push, in this order.
ReadPushes  == <<"r12", "r13", "r14", "r15", "pad">>
LowerPushes == <<"pad", "r12", "r13">>
TrimPushes  == <<"r12">>
DictPushes  == <<"rbp", "r12", "r13", "r14", "r15">>
FindPushes  == <<"pad", "r12", "r13", "r14", "r15">>

\* The program counters inside the functions.
Reading  == {"skip_blanks", "store", "word_read", "no_word"}
Trimming == {"trim", "trim_done"}
Looking  == {"dict", "inserted"}
Finding  == {"chain", "find_done"}

\* Above the frame of main lie the return address of a call and what it pushed.
CallOf(site, pushes) ==
  /\ stack[3] = ReturnAddress[site]
  /\ \A k \in DOMAIN pushes : pushes[k] \in Kept => stack[3 + k] = Callers[pushes[k]]

\* They are all that lies there; what was not pushed is in the registers.
OneCall(site, pushes) ==
  /\ Len(stack) = 3 + Len(pushes) /\ CallOf(site, pushes)
  /\ \A r \in Kept : (\A k \in DOMAIN pushes : pushes[k] # r) => reg[r] = Callers[r]

\* The stack and the registers that belong to each program counter.
Calls ==
  /\ IsSeq(stack) /\ Len(stack) >= 2 /\ stack[2] = Frame[2]
  /\ DOMAIN reg = Registers
  /\ pc \in InMain => Len(stack) = 2 /\ \A r \in Kept : reg[r] = Callers[r]
  /\ pc \in Reading => OneCall("got_word", ReadPushes)
  /\ pc = "lower" => OneCall("lowered", LowerPushes)
  /\ pc \in Trimming => OneCall("trimmed", TrimPushes)
  /\ pc \in Looking => OneCall("entered", DictPushes) /\ reg.rbp = 2
  /\ pc \in Finding => /\ Len(stack) = 14 /\ CallOf("entered", DictPushes)
                       /\ stack[9] = ReturnAddress["inserted"] /\ reg.rbp = 2
  /\ pc = "chain" => reg.r14 = 1
  /\ pc = "free" => OneCall("next_chain", LowerPushes)

\* There is a terminator in the buffer, at this place or behind it.
Terminated(k) == \E j \in k .. MAX_WORDLEN : buffer[j] = 0

\* The buffer, and the registers that go through it.
Buffered ==
  /\ input \in Inputs /\ pos \in Nat \ {0}
  /\ buffer \in [0 .. MAX_WORDLEN -> 0 .. 255]
  /\ pc = "skip_blanks" => reg.r13 = 0 /\ reg.r14 = 0
  /\ pc \in {"store", "word_read"} => reg.r13 = reg.r14 /\ reg.r13 \in 0 .. MAX_WORDLEN
  /\ pc = "store" => reg.r15 \in 0 .. 255
  /\ pc = "got_word" /\ reg.rax # 0 => Terminated(0)
  /\ pc = "lower" => reg.r12 \in 0 .. MAX_WORDLEN /\ Terminated(reg.r12)
  /\ pc = "lowered" => Terminated(0)
  /\ pc = "trim" => reg.r13 = 0 /\ reg.r12 \in 1 .. MAX_WORDLEN

\* The entries of the first chains.
EntriesOf(n) == UNION {{b} \X DOMAIN buckets[b] : b \in 0 .. n - 1}

\* The chains, and what has been freed of them.
Chained ==
  /\ DOMAIN buckets = 0 .. HASHTABLE_SIZE - 1
  /\ \A b \in DOMAIN buckets : IsSeq(buckets[b])
  /\ pc \notin {"next_chain", "free", "exit"} => i = 0 /\ freed = {}
  /\ pc \in {"next_chain", "exit"} => i \in 0 .. HASHTABLE_SIZE /\ freed = EntriesOf(i)
  /\ pc = "exit" => i = HASHTABLE_SIZE
  /\ pc = "free" =>
       /\ i \in 1 .. HASHTABLE_SIZE
       /\ reg.r12 = reg.r13 /\ reg.r13 \in 0 .. Len(buckets[i - 1])
       /\ freed = EntriesOf(i - 1) \cup
            ({i - 1} \X {e \in DOMAIN buckets[i - 1] : reg.r13 = 0 \/ e < reg.r13})

-----------------------------------------------------------------------------
(* Sequences, calls and returns.                                           *)

\* A sequence in the sense of IsSeq is one.
LEMMA IsInSeq ==
  ASSUME NEW s, IsSeq(s)
  PROVE  \E S : s \in Seq(S)
<1> DEFINE T == {s[k] : k \in 1 .. Len(s)}
<1>1. s \in [1 .. Len(s) -> T] /\ Len(s) \in Nat
  BY DEF IsSeq
<1> HIDE DEF T
<1>2. s \in Seq(T)
  BY <1>1, SeqDef
<1> WITNESS T
<1> QED
  BY <1>2

\* A sequence over a set is one in the sense of IsSeq.
LEMMA SeqIs ==
  ASSUME NEW S, NEW s \in Seq(S)
  PROVE  IsSeq(s)
<1>1. Len(s) \in Nat /\ DOMAIN s = 1 .. Len(s) /\ s = [k \in DOMAIN s |-> s[k]]
  BY LenProperties
<1> QED
  BY <1>1 DEF IsSeq

\* A function on the first numbers is a sequence.
LEMMA SeqOfFunction ==
  ASSUME NEW n \in Nat, NEW s, s = [k \in 1 .. n |-> s[k]]
  PROVE  IsSeq(s) /\ Len(s) = n
<1> DEFINE S == {s[k] : k \in 1 .. n}
<1>1. s \in [1 .. n -> S]
  OBVIOUS
<1> HIDE DEF S
<1>2. s \in Seq(S) /\ DOMAIN s = 1 .. n
  BY <1>1, SeqDef
<1>3. Len(s) = n
  BY <1>2, LenProperties
<1> QED
  BY <1>2, <1>3, SeqIs

\* Sequences one behind the other.
LEMMA JoinIs ==
  ASSUME NEW p, NEW q, IsSeq(p), IsSeq(q)
  PROVE  /\ IsSeq(p \o q) /\ Len(p \o q) = Len(p) + Len(q)
         /\ Len(p) \in Nat /\ Len(q) \in Nat
         /\ \A k \in 1 .. Len(p) : (p \o q)[k] = p[k]
         /\ \A k \in 1 .. Len(q) : (p \o q)[Len(p) + k] = q[k]
<1>1. PICK S : p \in Seq(S)
  BY IsInSeq
<1>2. PICK T : q \in Seq(T)
  BY IsInSeq
<1>3. p \in Seq(S \cup T) /\ q \in Seq(S \cup T)
  BY <1>1, <1>2, SeqMonotonic
<1>4. /\ p \o q \in Seq(S \cup T) /\ Len(p \o q) = Len(p) + Len(q)
      /\ \A k \in 1 .. Len(p) + Len(q) : (p \o q)[k] = IF k <= Len(p) THEN p[k] ELSE q[k - Len(p)]
  BY <1>3, ConcatProperties
<1>5. Len(p) \in Nat /\ Len(q) \in Nat
  BY DEF IsSeq
<1>6. IsSeq(p \o q)
  BY <1>4, SeqIs
<1>7. \A k \in 1 .. Len(p) : (p \o q)[k] = p[k]
  BY <1>4, <1>5
<1>8. ASSUME NEW k \in 1 .. Len(q) PROVE (p \o q)[Len(p) + k] = q[k]
  <2>1. Len(p) + k \in 1 .. Len(p) + Len(q) /\ ~(Len(p) + k <= Len(p)) /\ (Len(p) + k) - Len(p) = k
    BY <1>5
  <2> QED
    BY <1>4, <2>1
<1> QED
  BY <1>4, <1>5, <1>6, <1>7, <1>8

\* A write to one place.
Written(s, j, v) == [s EXCEPT ![j] = v]

\* It keeps the length and the other places.
LEMMA WrittenIs ==
  ASSUME NEW s, IsSeq(s), NEW j, NEW v
  PROVE  /\ IsSeq(Written(s, j, v)) /\ Len(Written(s, j, v)) = Len(s)
         /\ \A k \in 1 .. Len(s) : k # j => Written(s, j, v)[k] = s[k]
<1> DEFINE t == Written(s, j, v)
<1>1. Len(s) \in Nat /\ DOMAIN s = 1 .. Len(s)
  BY DEF IsSeq
<1>2. t = [k \in 1 .. Len(s) |-> t[k]] /\ \A k \in 1 .. Len(s) : k # j => t[k] = s[k]
  BY <1>1 DEF Written
<1> HIDE DEF t
<1>3. IsSeq(t) /\ Len(t) = Len(s)
  BY <1>1, <1>2, SeqOfFunction
<1> QED
  BY <1>2, <1>3 DEF t

\* What a call leaves on the stack.
CallTo(s, site, pushes, n) ==
  /\ IsSeq(s) /\ Len(s) = Len(stack) + 1 + n /\ Len(stack) \in Nat
  /\ \A k \in 1 .. Len(stack) : s[k] = stack[k]
  /\ s[Len(stack) + 1] = ReturnAddress[site]
  /\ \A k \in 1 .. n : s[Len(stack) + 1 + k]
                        = IF pushes[k] = "pad" THEN Pad ELSE reg[pushes[k]]

\* Called is what lay there before, the return address, and the pushes.
LEMMA CalledIs ==
  ASSUME IsSeq(stack), NEW site, NEW n \in Nat, NEW pushes, DOMAIN pushes = 1 .. n
  PROVE  CallTo(Called(site, pushes), site, pushes, n)
<1> DEFINE a == <<ReturnAddress[site]>>
           b == [k \in DOMAIN pushes |-> IF pushes[k] = "pad" THEN Pad ELSE reg[pushes[k]]]
<1>1. IsSeq(a) /\ Len(a) = 1 /\ a[1] = ReturnAddress[site]
  BY DEF IsSeq
<1>2. b = [k \in 1 .. n |-> b[k]]
  OBVIOUS
<1>3. \A k \in 1 .. n : b[k] = IF pushes[k] = "pad" THEN Pad ELSE reg[pushes[k]]
  OBVIOUS
<1>4. Called(site, pushes) = (stack \o a) \o b
  BY DEF Called
<1> HIDE DEF a, b
<1>5. IsSeq(b) /\ Len(b) = n
  BY <1>2, SeqOfFunction
<1>6. /\ IsSeq(stack \o a) /\ Len(stack \o a) = Len(stack) + 1 /\ Len(stack) \in Nat
      /\ \A k \in 1 .. Len(stack) : (stack \o a)[k] = stack[k]
      /\ (stack \o a)[Len(stack) + 1] = ReturnAddress[site]
  <2>1. 1 \in 1 .. Len(a) /\ IsSeq(stack) /\ IsSeq(a)
    BY <1>1
  <2>2. /\ IsSeq(stack \o a) /\ Len(stack \o a) = Len(stack) + Len(a) /\ Len(stack) \in Nat
        /\ \A k \in 1 .. Len(stack) : (stack \o a)[k] = stack[k]
        /\ \A k \in 1 .. Len(a) : (stack \o a)[Len(stack) + k] = a[k]
    BY <2>1, JoinIs
  <2> QED
    BY <1>1, <2>1, <2>2
<1> DEFINE p == stack \o a
<1> HIDE DEF p
<1>7. IsSeq(p) /\ Len(p) = Len(stack) + 1
  BY <1>6 DEF p
<1>8. /\ IsSeq(p \o b) /\ Len(p \o b) = Len(p) + Len(b)
      /\ \A k \in 1 .. Len(p) : (p \o b)[k] = p[k]
      /\ \A k \in 1 .. Len(b) : (p \o b)[Len(p) + k] = b[k]
  BY <1>5, <1>7, JoinIs
<1>9. /\ \A k \in 1 .. Len(stack) : (p \o b)[k] = stack[k]
      /\ (p \o b)[Len(stack) + 1] = ReturnAddress[site]
  BY <1>6, <1>7, <1>8 DEF p
<1>10. \A k \in 1 .. n : (p \o b)[Len(stack) + 1 + k]
                 = IF pushes[k] = "pad" THEN Pad ELSE reg[pushes[k]]
  BY <1>3, <1>5, <1>7, <1>8
<1> QED
  BY <1>4, <1>5, <1>6, <1>7, <1>8, <1>9, <1>10 DEF p, CallTo

\* Return addresses are different.
LEMMA SitesDiffer ==
  ASSUME NEW a \in DOMAIN ReturnAddress, NEW b \in DOMAIN ReturnAddress,
         ReturnAddress[a] = ReturnAddress[b]
  PROVE  a = b
BY DEF ReturnAddress

\* What a return does.
LEMMA ReturnIs ==
  ASSUME IsSeq(stack), NEW n \in Nat, n < Len(stack), NEW pops, DOMAIN pops = 1 .. n, Len(pops) = n,
         NEW rax, Return(pops, rax),
         NEW site \in DOMAIN ReturnAddress, stack[Len(stack) - n] = ReturnAddress[site]
  PROVE  /\ pc' = site /\ IsSeq(stack') /\ Len(stack') = Len(stack) - n - 1
         /\ \A k \in 1 .. Len(stack) - n - 1 : stack'[k] = stack[k]
         /\ DOMAIN reg' = DOMAIN reg
         /\ \A r \in DOMAIN reg :
              \/ \E k \in 1 .. n : pops[k] = r /\ reg'[r] = stack[Len(stack) - k + 1]
              \/ (\A k \in 1 .. n : pops[k] # r) /\ reg'[r] = IF r = "rax" THEN rax ELSE reg[r]
<1> DEFINE top(k) == stack[Len(stack) - k + 1]
<1>1. Len(stack) \in Nat
  BY DEF IsSeq
<1>2. /\ reg' = [r \in DOMAIN reg |->
                  IF r \in ToSet(pops) THEN top(CHOOSE k \in DOMAIN pops : pops[k] = r)
                  ELSE IF r = "rax" THEN rax ELSE reg[r]]
      /\ pc' \in {q \in DOMAIN ReturnAddress : ReturnAddress[q] = top(n + 1)}
      /\ stack' = SubSeq(stack, 1, Len(stack) - n - 1)
  BY DEF Return
<1>3. pc' = site
  <2>1. top(n + 1) = stack[Len(stack) - n]
    <3>1. Len(stack) - (n + 1) + 1 = Len(stack) - n
      BY <1>1
    <3> QED
      BY <3>1
  <2> HIDE DEF top
  <2> QED
    BY <1>2, <2>1, SitesDiffer
<1>4. /\ IsSeq(stack') /\ Len(stack') = Len(stack) - n - 1
      /\ \A k \in 1 .. Len(stack) - n - 1 : stack'[k] = stack[k]
  <2>1. PICK S : stack \in Seq(S)
    BY IsInSeq
  <2>2. Len(stack) - n - 1 \in Nat
    BY <1>1
  <2> DEFINE m == Len(stack) - n - 1
  <2>3. \A k \in 1 .. m : stack[k] \in S
    BY <1>1, <2>1, ElementOfSeq
  <2> HIDE DEF m
  <2>4. m \in Nat /\ 1 \in Int
    BY <2>2 DEF m
  <2>5. /\ SubSeq(stack, 1, m) \in Seq(S)
        /\ Len(SubSeq(stack, 1, m)) = IF 1 <= m THEN m - 1 + 1 ELSE 0
        /\ \A k \in 1 .. m - 1 + 1 : SubSeq(stack, 1, m)[k] = stack[1 + k - 1]
    BY <2>3, <2>4, SubSeqProperties
  <2>6. /\ Len(SubSeq(stack, 1, m)) = m
        /\ \A k \in 1 .. m : SubSeq(stack, 1, m)[k] = stack[k]
    BY <2>4, <2>5
  <2>7. IsSeq(SubSeq(stack, 1, m))
    BY <2>5, SeqIs
  <2> QED
    BY <1>2, <2>6, <2>7 DEF m
<1>5. ASSUME NEW r \in DOMAIN reg
      PROVE  \/ \E k \in 1 .. n : pops[k] = r /\ reg'[r] = stack[Len(stack) - k + 1]
             \/ (\A k \in 1 .. n : pops[k] # r) /\ reg'[r] = IF r = "rax" THEN rax ELSE reg[r]
  <2>1. CASE \E k \in 1 .. n : pops[k] = r
    <3>1. r \in ToSet(pops)
      BY <2>1 DEF ToSet
    <3>2. PICK k : k = CHOOSE j \in DOMAIN pops : pops[j] = r
      OBVIOUS
    <3>3. k \in 1 .. n /\ pops[k] = r
      BY <2>1, <3>2
    <3> QED
      BY <1>2, <3>1, <3>2, <3>3
  <2>2. CASE \A k \in 1 .. n : pops[k] # r
    <3>1. r \notin ToSet(pops)
      BY <2>2 DEF ToSet
    <3> QED
      BY <1>2, <2>2, <3>1
  <2> QED
    BY <2>1, <2>2
<1> QED
  BY <1>2, <1>3, <1>4, <1>5

\* What is pushed by the functions that main calls.
PushLists == {ReadPushes, LowerPushes, TrimPushes, DictPushes}

\* What the functions that main calls push, and what they do not.
LEMMA PushesAre ==
  ASSUME NEW pushes \in PushLists
  PROVE  /\ Len(pushes) \in Nat /\ DOMAIN pushes = 1 .. Len(pushes)
         /\ \A k \in DOMAIN pushes : pushes[k] \in Registers \cup {"pad"} /\ pushes[k] # "rax"
BY DEF PushLists, ReadPushes, LowerPushes, TrimPushes, DictPushes, Registers

\* The registers that each function does not push.
LEMMA Unpushed ==
  ASSUME NEW r \in Kept
  PROVE  /\ (\A k \in DOMAIN ReadPushes : ReadPushes[k] # r) => r = "rbp"
         /\ (\A k \in DOMAIN LowerPushes : LowerPushes[k] # r) => r \in {"rbp", "r14", "r15"}
         /\ (\A k \in DOMAIN TrimPushes : TrimPushes[k] # r) => r \in {"rbp", "r14", "r15"}
         /\ ~(\A k \in DOMAIN DictPushes : DictPushes[k] # r)
<1>1. r \in {"rbp", "r12", "r14", "r15"}
  BY DEF Kept, callee_saved
<1>2. (\A k \in DOMAIN ReadPushes : ReadPushes[k] # r) => r = "rbp"
  <2>1. ReadPushes[1] = "r12" /\ ReadPushes[3] = "r14" /\ ReadPushes[4] = "r15"
        /\ {1, 3, 4} \subseteq DOMAIN ReadPushes
    BY DEF ReadPushes
  <2> QED
    BY <1>1, <2>1
<1>3. (\A k \in DOMAIN LowerPushes : LowerPushes[k] # r) => r \in {"rbp", "r14", "r15"}
  <2>1. LowerPushes[2] = "r12" /\ 2 \in DOMAIN LowerPushes
    BY DEF LowerPushes
  <2> QED
    BY <1>1, <2>1
<1>4. (\A k \in DOMAIN TrimPushes : TrimPushes[k] # r) => r \in {"rbp", "r14", "r15"}
  <2>1. TrimPushes[1] = "r12" /\ 1 \in DOMAIN TrimPushes
    BY DEF TrimPushes
  <2> QED
    BY <1>1, <2>1
<1>5. ~(\A k \in DOMAIN DictPushes : DictPushes[k] # r)
  <2>1. /\ DictPushes[1] = "rbp" /\ DictPushes[2] = "r12" /\ DictPushes[4] = "r14"
        /\ DictPushes[5] = "r15" /\ {1, 2, 4, 5} \subseteq DOMAIN DictPushes
    BY DEF DictPushes
  <2> QED
    BY <1>1, <2>1
<1> QED
  BY <1>2, <1>3, <1>4, <1>5

\* What a function leaves alone of the registers that it did not push.
Leaves(pushes) ==
  \A r \in Kept : (\A k \in DOMAIN pushes : pushes[k] # r) => reg'[r] = reg[r]

\* main calls a function.
LEMMA CallStep ==
  ASSUME Calls, pc \in InMain, NEW site, NEW pushes \in PushLists, Leaves(pushes),
         stack' \in {Called(site, pushes), [Called(site, pushes) EXCEPT ![1] = 0]}
  PROVE  /\ OneCall(site, pushes)'
         /\ IsSeq(stack') /\ Len(stack') >= 2 /\ stack'[2] = Frame[2]
<1> DEFINE s == Called(site, pushes)
           n == Len(pushes)
<1>1. n \in Nat /\ DOMAIN pushes = 1 .. n
  BY PushesAre
<1>2. IsSeq(stack) /\ Len(stack) = 2 /\ stack[2] = Frame[2] /\ \A r \in Kept : reg[r] = Callers[r]
  BY DEF Calls
<1> HIDE DEF n
<1>3. /\ IsSeq(s) /\ Len(s) = Len(stack) + 1 + n
      /\ \A k \in 1 .. Len(stack) : s[k] = stack[k]
      /\ s[Len(stack) + 1] = ReturnAddress[site]
      /\ \A k \in 1 .. n : s[Len(stack) + 1 + k]
                = IF pushes[k] = "pad" THEN Pad ELSE reg[pushes[k]]
  <2>1. IsSeq(stack)
    BY <1>2
  <2>2. CallTo(s, site, pushes, n)
    BY <1>1, <2>1, CalledIs
  <2> HIDE DEF s
  <2> QED
    BY <2>2 DEF CallTo
<1> HIDE DEF s
<1>4. /\ Len(s) = 3 + n /\ s[2] = Frame[2] /\ s[3] = ReturnAddress[site]
      /\ \A k \in 1 .. n : s[3 + k] = IF pushes[k] = "pad" THEN Pad ELSE reg[pushes[k]]
  BY <1>1, <1>2, <1>3
<1>5. /\ IsSeq(stack') /\ Len(stack') = Len(s) /\ \A k \in 1 .. Len(s) : k # 1 => stack'[k] = s[k]
  <2>1. CASE stack' = s
    BY <1>3, <2>1
  <2>2. CASE stack' = Written(s, 1, 0)
    BY <1>3, <2>2, WrittenIs
  <2> QED
    BY <2>1, <2>2 DEF s, Written
<1>6. stack'[2] = Frame[2] /\ stack'[3] = ReturnAddress[site]
  BY <1>1, <1>4, <1>5
<1>7. \A k \in DOMAIN pushes : pushes[k] \in Kept => stack'[3 + k] = Callers[pushes[k]]
  <2> SUFFICES ASSUME NEW k \in DOMAIN pushes, pushes[k] \in Kept
               PROVE  stack'[3 + k] = Callers[pushes[k]]
    OBVIOUS
  <2>1. k \in 1 .. n /\ 3 + k \in 1 .. Len(s) /\ 3 + k # 1
    BY <1>1, <1>4
  <2>2. pushes[k] # "pad"
    BY DEF Kept, callee_saved
  <2> QED
    BY <1>2, <1>4, <1>5, <2>1, <2>2
<1>8. \A r \in Kept : (\A k \in DOMAIN pushes : pushes[k] # r) => reg'[r] = Callers[r]
  BY <1>2 DEF Leaves
<1>9. Len(stack') = 3 + Len(pushes) /\ Len(stack') >= 2
  BY <1>1, <1>4, <1>5 DEF n
<1> QED
  BY <1>5, <1>6, <1>7, <1>8, <1>9 DEF OneCall, CallOf

\* A step inside the function.
LEMMA InsideStep ==
  ASSUME NEW site, NEW pushes, OneCall(site, pushes), Leaves(pushes), stack' = stack
  PROVE  OneCall(site, pushes)'
BY DEF OneCall, CallOf, Leaves

\* What the function pops is what it pushed.
Reversed(pops, pushes) ==
  /\ Len(pops) = Len(pushes) /\ DOMAIN pops = DOMAIN pushes
  /\ \A k \in DOMAIN pops : pops[k] = pushes[Len(pushes) + 1 - k]

\* Each function of the source pops in the reverse order.
LEMMA PopsAre ==
  /\ Reversed(<<"pad", "r15", "r14", "r13", "r12">>, ReadPushes)
  /\ Reversed(<<"r13", "r12", "pad">>, LowerPushes)
  /\ Reversed(<<"r12">>, TrimPushes)
  /\ Reversed(<<"r15", "r14", "r13", "r12", "rbp">>, DictPushes)
  /\ Reversed(<<"r15", "r14", "r13", "r12", "pad">>, FindPushes)
BY DEF Reversed, ReadPushes, LowerPushes, TrimPushes, DictPushes, FindPushes

\* It returns to main, and the registers are as they were.
LEMMA ReturnStep ==
  ASSUME Calls, NEW site \in {"got_word", "lowered", "trimmed", "entered", "next_chain"},
         NEW pushes \in PushLists, OneCall(site, pushes),
         NEW pops, Reversed(pops, pushes), NEW rax, Return(pops, rax)
  PROVE  Calls' /\ pc' = site /\ reg'["rax"] = rax
<1> DEFINE n == Len(pushes)
<1>1. n \in Nat /\ DOMAIN pushes = 1 .. n /\ DOMAIN pops = 1 .. n /\ Len(pops) = n
  BY PushesAre DEF Reversed
<1>2. /\ IsSeq(stack) /\ Len(stack) = 3 + n /\ stack[2] = Frame[2] /\ stack[3] = ReturnAddress[site]
      /\ DOMAIN reg = Registers
  BY DEF Calls, OneCall, CallOf
<1>3. site \in DOMAIN ReturnAddress /\ site \in InMain
  BY DEF ReturnAddress, InMain
<1> HIDE DEF n
<1>4. stack[Len(stack) - n] = ReturnAddress[site] /\ n < Len(stack)
  BY <1>1, <1>2
<1>5. /\ pc' = site /\ IsSeq(stack') /\ Len(stack') = Len(stack) - n - 1
      /\ \A k \in 1 .. Len(stack) - n - 1 : stack'[k] = stack[k]
      /\ DOMAIN reg' = DOMAIN reg
      /\ \A r \in DOMAIN reg :
           \/ \E k \in 1 .. n : pops[k] = r /\ reg'[r] = stack[Len(stack) - k + 1]
           \/ (\A k \in 1 .. n : pops[k] # r) /\ reg'[r] = IF r = "rax" THEN rax ELSE reg[r]
  BY <1>1, <1>2, <1>3, <1>4, ReturnIs
<1>6. Len(stack') = 2 /\ stack'[2] = Frame[2]
  BY <1>1, <1>2, <1>5
<1>7. \A k \in 1 .. n : n + 1 - k \in 1 .. n /\ pops[k] = pushes[n + 1 - k]
  BY <1>1 DEF Reversed, n
<1>8. ASSUME NEW r \in Kept
      PROVE  reg'[r] = Callers[r]
  <2>1. r \in DOMAIN reg /\ r # "rax"
    BY <1>2 DEF Kept, callee_saved, Registers
  <2>2. CASE \E k \in 1 .. n : pops[k] = r /\ reg'[r] = stack[Len(stack) - k + 1]
    <3>1. PICK k \in 1 .. n : pops[k] = r /\ reg'[r] = stack[Len(stack) - k + 1]
      BY <2>2
    <3>2. n + 1 - k \in DOMAIN pushes /\ pushes[n + 1 - k] = r
      BY <1>1, <1>7, <3>1
    <3>3. stack[3 + (n + 1 - k)] = Callers[r]
      BY <3>2 DEF OneCall, CallOf
    <3>4. 3 + (n + 1 - k) = Len(stack) - k + 1
      BY <1>1, <1>2
    <3> QED
      BY <3>1, <3>3, <3>4
  <2>3. CASE (\A k \in 1 .. n : pops[k] # r) /\ reg'[r] = IF r = "rax" THEN rax ELSE reg[r]
    <3>1. \A k \in DOMAIN pushes : pushes[k] # r
      <4> SUFFICES ASSUME NEW k \in 1 .. n PROVE pushes[k] # r
        BY <1>1
      <4>1. n + 1 - k \in 1 .. n /\ n + 1 - (n + 1 - k) = k
        BY <1>1
      <4>2. pops[n + 1 - k] = pushes[k]
        BY <1>7, <4>1
      <4> QED
        BY <2>3, <4>1, <4>2
    <3> QED
      BY <2>1, <2>3, <3>1 DEF OneCall
  <2> QED
    BY <1>5, <2>1, <2>2, <2>3
<1>9. reg'["rax"] = rax
  <2>1. \A k \in 1 .. n : pops[k] # "rax"
    BY <1>1, <1>7, PushesAre
  <2>2. "rax" \in DOMAIN reg
    BY <1>2 DEF Registers
  <2> QED
    BY <1>5, <2>1, <2>2
<1>10. /\ pc' \in InMain
       /\ pc' \notin Reading /\ pc' \notin Trimming
       /\ pc' \notin Looking /\ pc' \notin Finding
       /\ pc' # "lower" /\ pc' # "chain" /\ pc' # "free"
  BY <1>3, <1>5 DEF Reading, Trimming, Looking, Finding
<1>11. Calls'
  <2>1. DOMAIN reg' = Registers
    BY <1>2, <1>5, Zenon
  <2>2. IsSeq(stack')
    BY <1>5, Zenon
  <2>3. Len(stack') >= 2
    BY <1>6
  <2> QED
    BY <1>6, <1>8, <1>10, <2>1, <2>2, <2>3 DEF Calls
<1> QED
  BY <1>5, <1>9, <1>11

-----------------------------------------------------------------------------
(* The calls, step by step.                                                *)

\* What holds of the stack at every place.
Framed ==
  /\ IsSeq(stack) /\ Len(stack) >= 2 /\ stack[2] = Frame[2]
  /\ DOMAIN reg = Registers

\* The caller's registers in main.
AtHome == Len(stack) = 2 /\ \A r \in Kept : reg[r] = Callers[r]

\* The call of main that a place is in.
InCall ==
  \/ pc \in Reading /\ OneCall("got_word", ReadPushes)
  \/ pc = "lower" /\ OneCall("lowered", LowerPushes)
  \/ pc \in Trimming /\ OneCall("trimmed", TrimPushes)
  \/ pc \in Looking /\ OneCall("entered", DictPushes) /\ reg.rbp = 2
  \/ pc = "free" /\ OneCall("next_chain", LowerPushes)

\* The call within that of wc_dict_find_or_insert.
InFind ==
  /\ pc \in Finding
  /\ Len(stack) = 14 /\ CallOf("entered", DictPushes)
  /\ stack[9] = ReturnAddress["inserted"] /\ reg.rbp = 2
  /\ pc = "chain" => reg.r14 = 1

\* A program counter is in one part of the program only.
LEMMA PlacesDiffer ==
  ASSUME NEW q
  PROVE  /\ q \in InMain => /\ q \notin Reading /\ q \notin Trimming /\ q \notin Looking
                            /\ q \notin Finding /\ q \notin {"lower", "chain", "free"}
         /\ q \in Reading => /\ q \notin InMain /\ q \notin Trimming /\ q \notin Looking
                             /\ q \notin Finding /\ q \notin {"lower", "chain", "free"}
         /\ q \in Trimming => /\ q \notin InMain /\ q \notin Reading /\ q \notin Looking
                              /\ q \notin Finding /\ q \notin {"lower", "chain", "free"}
         /\ q \in Looking => /\ q \notin InMain /\ q \notin Reading /\ q \notin Trimming
                             /\ q \notin Finding /\ q \notin {"lower", "chain", "free"}
         /\ q \in Finding => /\ q \notin InMain /\ q \notin Reading /\ q \notin Trimming
                             /\ q \notin Looking /\ q \notin {"lower", "free"}
         /\ q \in {"lower", "free"} => /\ q \notin InMain /\ q \notin Reading
                                       /\ q \notin Trimming /\ q \notin Looking
                                       /\ q \notin Finding
BY DEF InMain, Reading, Trimming, Looking, Finding

\* Calls at the place that the program has come to.
LEMMA CallsNow ==
  ASSUME Framed', (pc \in InMain /\ AtHome)' \/ InCall' \/ InFind'
  PROVE  Calls'
<1> USE DEF Framed
<1>1. CASE (pc \in InMain /\ AtHome)'
  BY <1>1, PlacesDiffer DEF Calls, AtHome
<1>2. CASE InFind'
  BY <1>2, PlacesDiffer DEF Calls, InFind
<1>3. CASE InCall'
  <2>1. CASE pc' \in Reading /\ OneCall("got_word", ReadPushes)'
    BY <2>1, PlacesDiffer DEF Calls
  <2>2. CASE pc' = "lower" /\ OneCall("lowered", LowerPushes)'
    <3>1. pc' \in {"lower", "free"} /\ pc' # "chain" /\ pc' # "free"
      BY <2>2
    <3> QED
      BY <2>2, <3>1, PlacesDiffer DEF Calls
  <2>3. CASE pc' \in Trimming /\ OneCall("trimmed", TrimPushes)'
    BY <2>3, PlacesDiffer DEF Calls
  <2>4. CASE pc' \in Looking /\ OneCall("entered", DictPushes)' /\ reg'.rbp = 2
    BY <2>4, PlacesDiffer DEF Calls
  <2>5. CASE pc' = "free" /\ OneCall("next_chain", LowerPushes)'
    <3>1. pc' \in {"lower", "free"} /\ pc' # "chain" /\ pc' # "lower"
      BY <2>5
    <3> QED
      BY <2>5, <3>1, PlacesDiffer DEF Calls
  <2> QED
    BY <1>3, <2>1, <2>2, <2>3, <2>4, <2>5 DEF InCall
<1> QED
  BY <1>1, <1>2, <1>3

\* A step within main.
LEMMA HomeStep ==
  ASSUME Calls, pc \in InMain, pc' \in InMain, UNCHANGED <<reg, stack>>
  PROVE  Calls'
<1>1. Framed' /\ AtHome'
  BY DEF Calls, Framed, AtHome
<1> QED
  BY <1>1, CallsNow

\* A step that leaves the stack and the part of the program alone.
LEMMA PartStep ==
  ASSUME Calls, stack' = stack, DOMAIN reg' = DOMAIN reg, reg'["rbp"] = reg["rbp"],
         \/ pc \in Reading /\ pc' \in Reading /\ Leaves(ReadPushes)
         \/ pc = "lower" /\ pc' = "lower" /\ Leaves(LowerPushes)
         \/ pc \in Trimming /\ pc' \in Trimming /\ Leaves(TrimPushes)
         \/ pc = "free" /\ pc' = "free" /\ Leaves(LowerPushes)
  PROVE  Calls'
<1>1. Framed'
  BY DEF Calls, Framed
<1>2. InCall'
  <2>1. CASE pc \in Reading /\ pc' \in Reading /\ Leaves(ReadPushes)
    <3>1. OneCall("got_word", ReadPushes)
      BY <2>1 DEF Calls
    <3>2. OneCall("got_word", ReadPushes)'
      BY <2>1, <3>1, InsideStep
    <3> QED
      BY <2>1, <3>2 DEF InCall
  <2>2. CASE pc = "lower" /\ pc' = "lower" /\ Leaves(LowerPushes)
    <3>1. OneCall("lowered", LowerPushes)
      BY <2>2 DEF Calls
    <3>2. OneCall("lowered", LowerPushes)'
      BY <2>2, <3>1, InsideStep
    <3> QED
      BY <2>2, <3>2 DEF InCall
  <2>3. CASE pc \in Trimming /\ pc' \in Trimming /\ Leaves(TrimPushes)
    <3>1. OneCall("trimmed", TrimPushes)
      BY <2>3 DEF Calls
    <3>2. OneCall("trimmed", TrimPushes)'
      BY <2>3, <3>1, InsideStep
    <3> QED
      BY <2>3, <3>2 DEF InCall
  <2>4. CASE pc = "free" /\ pc' = "free" /\ Leaves(LowerPushes)
    <3>1. OneCall("next_chain", LowerPushes)
      BY <2>4 DEF Calls
    <3>2. OneCall("next_chain", LowerPushes)'
      BY <2>4, <3>1, InsideStep
    <3> QED
      BY <2>4, <3>2 DEF InCall
  <2> QED
    BY <2>1, <2>2, <2>3, <2>4
<1> QED
  BY <1>1, <1>2, CallsNow

\* main calls a function of the part of the program that it goes to.
LEMMA CallOut ==
  ASSUME Calls, pc \in InMain, DOMAIN reg' = DOMAIN reg,
         NEW site, NEW pushes, Leaves(pushes),
         stack' \in {Called(site, pushes), [Called(site, pushes) EXCEPT ![1] = 0]},
         \/ pc' \in Reading /\ site = "got_word" /\ pushes = ReadPushes
         \/ pc' = "lower" /\ site = "lowered" /\ pushes = LowerPushes
         \/ pc' \in Trimming /\ site = "trimmed" /\ pushes = TrimPushes
         \/ pc' \in Looking /\ site = "entered" /\ pushes = DictPushes /\ reg'["rbp"] = 2
         \/ pc' = "free" /\ site = "next_chain" /\ pushes = LowerPushes
  PROVE  Calls'
<1>1. pushes \in PushLists
  BY DEF PushLists
<1>2. OneCall(site, pushes)' /\ IsSeq(stack') /\ Len(stack') >= 2 /\ stack'[2] = Frame[2]
  BY <1>1, CallStep
<1>3. Framed'
  BY <1>2 DEF Framed, Calls
<1>4. InCall'
  BY <1>2, Zenon DEF InCall
<1> QED
  BY <1>3, <1>4, CallsNow

\* The registers that the functions change are those that they have pushed.
LEMMA LeavesIs ==
  ASSUME reg'["rbp"] = reg["rbp"]
  PROVE  /\ Leaves(ReadPushes)
         /\ reg'["r14"] = reg["r14"] /\ reg'["r15"] = reg["r15"] =>
              Leaves(LowerPushes) /\ Leaves(TrimPushes)
BY Unpushed DEF Leaves

\* Whatever wc_dict_find_or_insert changes, it has pushed.
LEMMA LeavesDict == Leaves(DictPushes)
BY Unpushed DEF Leaves

\* The calls of main.
LEMMA CallsOfMain ==
  ASSUME Calls, CallRead \/ GotWord \/ CallTrim \/ CallDict \/ CallFree
  PROVE  Calls'
<1>1. DOMAIN reg = Registers /\ Len(stack) \in Nat
  BY DEF Calls, IsSeq
<1>2. ASSUME CallRead PROVE Calls'
  <2>1. pc \in InMain /\ pc' \in Reading
    BY <1>2 DEF CallRead, InMain, Reading
  <2>2. DOMAIN reg' = DOMAIN reg /\ reg'["rbp"] = reg["rbp"]
    BY <1>2 DEF CallRead
  <2>3. stack' = Called("got_word", ReadPushes)
    BY <1>2 DEF CallRead, ReadPushes
  <2>4. Leaves(ReadPushes)
    BY <2>2, LeavesIs
  <2> QED
    BY <2>1, <2>2, <2>3, <2>4, CallOut
<1>3. ASSUME GotWord PROVE Calls'
  <2>1. pc \in InMain
    BY <1>3 DEF GotWord, InMain
  <2>2. CASE pc' \in {"main", "search"} /\ UNCHANGED <<reg, stack>>
    <3>1. pc' \in InMain
      BY <2>2 DEF InMain
    <3> QED
      BY <2>1, <2>2, <3>1, HomeStep
  <2>3. CASE /\ stack' = Called("lowered", <<"pad", "r12", "r13">>)
             /\ reg' = [reg EXCEPT !.r12 = 0]
             /\ pc' = "lower"
    <3>1. /\ DOMAIN reg' = DOMAIN reg /\ reg'["rbp"] = reg["rbp"]
          /\ reg'["r14"] = reg["r14"] /\ reg'["r15"] = reg["r15"]
      BY <2>3
    <3>2. stack' = Called("lowered", LowerPushes)
      BY <2>3 DEF LowerPushes
    <3>3. Leaves(LowerPushes)
      BY <3>1, LeavesIs
    <3> QED
      BY <2>1, <2>3, <3>1, <3>2, <3>3, CallOut
  <2> QED
    BY <1>3, <2>2, <2>3 DEF GotWord
<1>4. ASSUME CallTrim PROVE Calls'
  <2>1. pc \in InMain /\ pc' \in Trimming
    BY <1>4 DEF CallTrim, InMain, Trimming
  <2>2. /\ DOMAIN reg' = DOMAIN reg /\ reg'["rbp"] = reg["rbp"]
        /\ reg'["r14"] = reg["r14"] /\ reg'["r15"] = reg["r15"]
    BY <1>4 DEF CallTrim
  <2>3. stack' = Called("trimmed", TrimPushes)
    BY <1>4 DEF CallTrim, TrimPushes
  <2>4. Leaves(TrimPushes)
    BY <2>2, LeavesIs
  <2> QED
    BY <2>1, <2>2, <2>3, <2>4, CallOut
<1>5. ASSUME CallDict PROVE Calls'
  <2>1. pc \in InMain /\ pc' \in Looking
    BY <1>5 DEF CallDict, InMain, Looking
  <2>2. Len(stack) + 2 - 2 = 2 /\ Local(2) = 1
    <3>1. Len(stack) = 2
      BY <2>1 DEF Calls
    <3> QED
      BY <3>1 DEF Local
  <2>3. stack' = [Called("entered", DictPushes) EXCEPT ![1] = 0]
    BY <1>5, <2>2 DEF CallDict, DictPushes
  <2>4. DOMAIN reg' = DOMAIN reg /\ reg'["rbp"] = 2
    <3>1. "rbp" \in DOMAIN reg
      BY <1>1 DEF Registers
    <3> QED
      BY <1>5, <2>2, <3>1 DEF CallDict
  <2> QED
    BY <2>1, <2>3, <2>4, LeavesDict, CallOut
<1>6. ASSUME CallFree PROVE Calls'
  <2>1. pc \in InMain /\ pc' = "free"
    BY <1>6 DEF CallFree, InMain
  <2>2. /\ DOMAIN reg' = DOMAIN reg /\ reg'["rbp"] = reg["rbp"]
        /\ reg'["r14"] = reg["r14"] /\ reg'["r15"] = reg["r15"]
    BY <1>6 DEF CallFree
  <2>3. stack' = Called("next_chain", LowerPushes)
    BY <1>6 DEF CallFree, LowerPushes
  <2>4. Leaves(LowerPushes)
    BY <2>2, LeavesIs
  <2> QED
    BY <2>1, <2>2, <2>3, <2>4, CallOut
<1> QED
  BY <1>2, <1>3, <1>4, <1>5, <1>6

\* The steps within main.
LEMMA CallsInMain ==
  ASSUME Calls, Entered \/ Search \/ Report \/ Exit \/ Ended
  PROVE  Calls'
<1>1. pc \in InMain /\ pc' \in InMain
  <2>1. pc \in {"entered", "search", "next_chain", "exit"}
    BY DEF Entered, Search, Report, Exit, Ended
  <2>2. pc' \in {"main", "search", "next_chain", "exit"}
    BY DEF Entered, Search, Report, Exit, Ended, vars, machine
  <2> QED
    BY <2>1, <2>2 DEF InMain
<1>2. UNCHANGED <<reg, stack>>
  BY DEF Entered, Search, Report, Exit, Ended, vars, machine
<1> QED
  BY <1>1, <1>2, HomeStep

\* The steps within the functions.
LEMMA CallsInside ==
  ASSUME Calls, SkipBlank \/ Store \/ StoreFull \/ Lower \/ Trim \/ Free
  PROVE  Calls'
<1>1. CASE SkipBlank \/ Store \/ StoreFull
  <2>1. pc \in Reading /\ pc' \in Reading
    BY <1>1 DEF SkipBlank, Store, StoreFull, Reading
  <2>2. stack' = stack /\ DOMAIN reg' = DOMAIN reg /\ reg'["rbp"] = reg["rbp"]
    <3>1. CASE SkipBlank
      BY <3>1 DEF SkipBlank
    <3>2. CASE Store
      BY <3>2 DEF Store
    <3>3. CASE StoreFull
      BY <3>3 DEF StoreFull
    <3> QED
      BY <1>1, <3>1, <3>2, <3>3
  <2>3. Leaves(ReadPushes)
    BY <2>2, LeavesIs
  <2> QED
    BY <2>1, <2>2, <2>3, PartStep
<1>2. CASE Lower
  <2>1. pc = "lower" /\ pc' = "lower"
    BY <1>2 DEF Lower
  <2>2. /\ stack' = stack /\ DOMAIN reg' = DOMAIN reg /\ reg'["rbp"] = reg["rbp"]
        /\ reg'["r14"] = reg["r14"] /\ reg'["r15"] = reg["r15"]
    BY <1>2 DEF Lower
  <2>3. Leaves(LowerPushes)
    BY <2>2, LeavesIs
  <2> QED
    BY <2>1, <2>2, <2>3, PartStep
<1>3. CASE Trim
  <2>1. pc \in Trimming /\ pc' \in Trimming
    BY <1>3 DEF Trim, Trimming
  <2>2. /\ stack' = stack /\ DOMAIN reg' = DOMAIN reg /\ reg'["rbp"] = reg["rbp"]
        /\ reg'["r14"] = reg["r14"] /\ reg'["r15"] = reg["r15"]
    BY <1>3 DEF Trim
  <2>3. Leaves(TrimPushes)
    BY <2>2, LeavesIs
  <2> QED
    BY <2>1, <2>2, <2>3, PartStep
<1>4. CASE Free
  <2>1. pc = "free" /\ pc' = "free"
    BY <1>4 DEF Free
  <2>2. /\ stack' = stack /\ DOMAIN reg' = DOMAIN reg /\ reg'["rbp"] = reg["rbp"]
        /\ reg'["r14"] = reg["r14"] /\ reg'["r15"] = reg["r15"]
    BY <1>4 DEF Free
  <2>3. Leaves(LowerPushes)
    BY <2>2, LeavesIs
  <2> QED
    BY <2>1, <2>2, <2>3, PartStep
<1> QED
  BY <1>1, <1>2, <1>3, <1>4

\* The returns to main, to where the call was and with the result in rax.
LEMMA CallsReturn ==
  ASSUME Calls
  PROVE  /\ ReturnWord => Calls' /\ pc' = "got_word" /\ reg'["rax"] = 1
         /\ ReturnNoWord => Calls' /\ pc' = "got_word" /\ reg'["rax"] = 0
         /\ Lowered => Calls' /\ pc' = "lowered"
         /\ Trimmed => Calls' /\ pc' = "trimmed"
         /\ Inserted => Calls' /\ pc' = "entered"
         /\ Freed => Calls' /\ pc' = "next_chain"
<1>1. /\ ReadPushes \in PushLists /\ LowerPushes \in PushLists
      /\ TrimPushes \in PushLists /\ DictPushes \in PushLists
  BY DEF PushLists
<1>2. ASSUME ReturnWord PROVE Calls' /\ pc' = "got_word" /\ reg'["rax"] = 1
  <2>1. OneCall("got_word", ReadPushes)
    BY <1>2 DEF ReturnWord, Calls, Reading
  <2>2. Return(<<"pad", "r15", "r14", "r13", "r12">>, 1)
    BY <1>2 DEF ReturnWord
  <2> QED
    BY <1>1, <2>1, <2>2, PopsAre, ReturnStep
<1>3. ASSUME ReturnNoWord PROVE Calls' /\ pc' = "got_word" /\ reg'["rax"] = 0
  <2>1. OneCall("got_word", ReadPushes)
    BY <1>3 DEF ReturnNoWord, Calls, Reading
  <2>2. Return(<<"pad", "r15", "r14", "r13", "r12">>, 0)
    BY <1>3 DEF ReturnNoWord
  <2> QED
    BY <1>1, <2>1, <2>2, PopsAre, ReturnStep
<1>4. ASSUME Lowered PROVE Calls' /\ pc' = "lowered"
  <2>1. OneCall("lowered", LowerPushes)
    BY <1>4 DEF Lowered, Calls
  <2>2. Return(<<"r13", "r12", "pad">>, reg.rax)
    BY <1>4 DEF Lowered
  <2> QED
    BY <1>1, <2>1, <2>2, PopsAre, ReturnStep
<1>5. ASSUME Trimmed PROVE Calls' /\ pc' = "trimmed"
  <2>1. OneCall("trimmed", TrimPushes)
    BY <1>5 DEF Trimmed, Calls, Trimming
  <2>2. Return(<<"r12">>, reg.rax)
    BY <1>5 DEF Trimmed
  <2> QED
    BY <1>1, <2>1, <2>2, PopsAre, ReturnStep
<1>6. ASSUME Inserted PROVE Calls' /\ pc' = "entered"
  <2>1. OneCall("entered", DictPushes)
    BY <1>6 DEF Inserted, Calls, Looking
  <2>2. Return(<<"r15", "r14", "r13", "r12", "rbp">>, reg.rax)
    BY <1>6 DEF Inserted
  <2> QED
    BY <1>1, <2>1, <2>2, PopsAre, ReturnStep
<1>7. ASSUME Freed PROVE Calls' /\ pc' = "next_chain"
  <2>1. OneCall("next_chain", LowerPushes)
    BY <1>7 DEF Freed, Calls
  <2>2. Return(<<"r13", "r12", "pad">>, reg.rax)
    BY <1>7 DEF Freed
  <2> QED
    BY <1>1, <2>1, <2>2, PopsAre, ReturnStep
<1> QED
  BY <1>2, <1>3, <1>4, <1>5, <1>6, <1>7

\* The first part of the stack.
LEMMA BelowKept ==
  ASSUME CallOf("entered", DictPushes), NEW s,
         \A k \in 3 .. 8 : s[k] = stack[k], stack' = s
  PROVE  CallOf("entered", DictPushes)'
<1>1. DOMAIN DictPushes = 1 .. 5
  BY DEF DictPushes
<1>2. \A k \in DOMAIN DictPushes : 3 + k \in 3 .. 8
  BY <1>1
<1> QED
  BY <1>2 DEF CallOf

\* wc_dict_find_or_insert calls wc_find_or_insert, and this goes along a chain.
LEMMA CallsInFind ==
  ASSUME Calls, CallFind \/ Compare \/ Prepend
  PROVE  Calls'
<1>1. IsSeq(stack) /\ stack[2] = Frame[2] /\ DOMAIN reg = Registers
  BY DEF Calls
<1>2. CASE CallFind
  <2>1. pc \in Looking /\ pc' \in Finding
    BY <1>2 DEF CallFind, Looking, Finding
  <2>2. OneCall("entered", DictPushes) /\ reg.rbp = 2
    BY <2>1 DEF Calls
  <2>3. Len(stack) = 8 /\ CallOf("entered", DictPushes)
    BY <2>2 DEF OneCall, DictPushes
  <2>4. DOMAIN FindPushes = 1 .. 5 /\ stack' = Called("inserted", FindPushes)
    BY <1>2 DEF CallFind, FindPushes
  <2>5. CallTo(stack', "inserted", FindPushes, 5)
    <3>1. 5 \in Nat
      OBVIOUS
    <3> QED
      BY <1>1, <2>4, <3>1, CalledIs
  <2>6. /\ IsSeq(stack') /\ Len(stack') = 14 /\ \A k \in 1 .. 8 : stack'[k] = stack[k]
        /\ stack'[9] = ReturnAddress["inserted"]
    BY <2>3, <2>5 DEF CallTo
  <2>7. CallOf("entered", DictPushes)'
    <3>1. \A k \in 3 .. 8 : stack'[k] = stack[k]
      BY <2>6
    <3> QED
      BY <2>3, <3>1, BelowKept
  <2>8. DOMAIN reg' = Registers /\ reg'["rbp"] = 2 /\ reg'["r14"] = 1
    <3>1. reg' = [reg EXCEPT !.r12 = HeadEntry(reg.r12), !.r13 = 0, !.r14 = Local(reg.rbp),
                        !.r15 = HeadEntry(reg.r12)]
      BY <1>2 DEF CallFind
    <3>2. Local(reg.rbp) = 1
      BY <2>2 DEF Local
    <3>3. "r14" \in DOMAIN reg
      BY <1>1 DEF Registers
    <3> QED
      BY <1>1, <2>2, <3>1, <3>2, <3>3
  <2>9. Framed'
    BY <1>1, <2>6, <2>8 DEF Framed
  <2>10. InFind'
    BY <2>1, <2>6, <2>7, <2>8 DEF InFind
  <2> QED
    BY <2>9, <2>10, CallsNow
<1>3. CASE Compare \/ Prepend
  <2>1. pc = "chain" /\ pc \in Finding /\ pc' \in Finding
    BY <1>3 DEF Compare, Prepend, Finding
  <2>2. /\ Len(stack) = 14 /\ CallOf("entered", DictPushes)
        /\ stack[9] = ReturnAddress["inserted"] /\ reg.rbp = 2 /\ reg.r14 = 1
    BY <2>1 DEF Calls
  <2>3. \/ stack' = stack \/ stack' = Written(stack, 1, 0) \/ stack' = Written(stack, 1, 1)
    <3>1. \/ stack' = stack
          \/ stack' = [stack EXCEPT ![reg.r14] = 0]
          \/ stack' = [stack EXCEPT ![reg.r14] = 1]
      BY <1>3 DEF Compare, Prepend
    <3> QED
      BY <2>2, <3>1 DEF Written
  <2>4. IsSeq(stack') /\ Len(stack') = 14 /\ \A k \in 1 .. 14 : k # 1 => stack'[k] = stack[k]
    <3>1. CASE stack' = stack
      BY <1>1, <2>2, <3>1
    <3>2. \A v : /\ IsSeq(Written(stack, 1, v)) /\ Len(Written(stack, 1, v)) = Len(stack)
                 /\ \A k \in 1 .. Len(stack) : k # 1 => Written(stack, 1, v)[k] = stack[k]
      <4>1. IsSeq(stack)
        BY <1>1
      <4> QED
        BY <4>1, WrittenIs
    <3>3. CASE stack' \in {Written(stack, 1, 0), Written(stack, 1, 1)}
      BY <2>2, <3>2, <3>3
    <3> QED
      BY <2>3, <3>1, <3>3
  <2>5. CallOf("entered", DictPushes)'
    <3>1. \A k \in 3 .. 8 : stack'[k] = stack[k]
      BY <2>4
    <3> QED
      BY <2>2, <3>1, BelowKept
  <2>6. DOMAIN reg' = Registers /\ reg'["rbp"] = 2 /\ reg'["r14"] = 1
    <3>1. DOMAIN reg' = DOMAIN reg /\ reg'["rbp"] = reg["rbp"] /\ reg'["r14"] = reg["r14"]
      <4>1. CASE Compare
        <5>1. \/ reg' = [reg EXCEPT !.rax = reg.r12]
              \/ reg' = [reg EXCEPT !.r12 = NextEntry(Home, reg.r12)]
          BY <4>1, Zenon DEF Compare
        <5>2. {"rbp", "r14"} \subseteq DOMAIN reg
          BY <1>1 DEF Registers
        <5> QED
          BY <5>1, <5>2
      <4>2. CASE Prepend
        BY <4>2 DEF Prepend
      <4> QED
        BY <1>3, <4>1, <4>2
    <3> QED
      BY <1>1, <2>2, <3>1
  <2>7. Framed'
    BY <1>1, <2>4, <2>6 DEF Framed
  <2>8. stack'[9] = ReturnAddress["inserted"]
    BY <2>2, <2>4
  <2>9. InFind'
    BY <2>1, <2>4, <2>5, <2>6, <2>8 DEF InFind
  <2> QED
    BY <2>7, <2>9, CallsNow
<1> QED
  BY <1>2, <1>3

\* wc_find_or_insert returns to wc_dict_find_or_insert.
LEMMA CallsFound ==
  ASSUME Calls, Found
  PROVE  Calls' /\ pc' = "inserted"
<1> DEFINE pops == <<"r15", "r14", "r13", "r12", "pad">>
           rax == reg.rax
           n == 5
           site == "inserted"
<1>1. pc \in Finding /\ Return(pops, rax)
  BY DEF Found, Finding
<1>2. /\ IsSeq(stack) /\ stack[2] = Frame[2] /\ DOMAIN reg = Registers
      /\ Len(stack) = 14 /\ CallOf("entered", DictPushes)
      /\ stack[9] = ReturnAddress["inserted"] /\ reg.rbp = 2
  BY <1>1 DEF Calls
<1>3. /\ n \in Nat /\ n < Len(stack) /\ DOMAIN pops = 1 .. n /\ Len(pops) = n
      /\ stack[Len(stack) - n] = ReturnAddress[site]
      /\ site \in DOMAIN ReturnAddress
  BY <1>2 DEF ReturnAddress
<1>4. n = 5 /\ site = "inserted" /\ \A k \in 1 .. n : pops[k] # "rbp"
  OBVIOUS
<1> HIDE DEF pops, n, rax, site
<1>5. /\ pc' = site /\ IsSeq(stack') /\ Len(stack') = Len(stack) - n - 1
      /\ \A k \in 1 .. Len(stack) - n - 1 : stack'[k] = stack[k]
      /\ DOMAIN reg' = DOMAIN reg
      /\ \A r \in DOMAIN reg :
           \/ \E k \in 1 .. n : pops[k] = r /\ reg'[r] = stack[Len(stack) - k + 1]
           \/ (\A k \in 1 .. n : pops[k] # r) /\ reg'[r] = IF r = "rax" THEN rax ELSE reg[r]
  BY <1>1, <1>2, <1>3, ReturnIs
<1>6. Len(stack') = 8 /\ \A k \in 1 .. 8 : stack'[k] = stack[k]
  BY <1>2, <1>4, <1>5
<1>7. DOMAIN reg' = Registers /\ reg'["rbp"] = 2
  <2>1. "rbp" \in DOMAIN reg
    BY <1>2 DEF Registers
  <2> QED
    BY <1>2, <1>4, <1>5, <2>1
<1>8. CallOf("entered", DictPushes)'
  <2>1. \A k \in 3 .. 8 : stack'[k] = stack[k]
    BY <1>6
  <2> QED
    BY <1>2, <2>1, BelowKept
<1>9. OneCall("entered", DictPushes)'
  <2>1. Len(stack') = 3 + Len(DictPushes)
    BY <1>6 DEF DictPushes
  <2>2. \A r \in Kept : ~(\A k \in DOMAIN DictPushes : DictPushes[k] # r)
    BY Unpushed
  <2> QED
    BY <1>8, <2>1, <2>2 DEF OneCall
<1>10. Framed'
  BY <1>2, <1>5, <1>6, <1>7 DEF Framed
<1>11. InCall'
  BY <1>4, <1>5, <1>7, <1>9 DEF InCall, Looking
<1> QED
  BY <1>4, <1>5, <1>10, <1>11, CallsNow

\* Calls holds when main starts.
LEMMA CallsInit == Init => Calls
<1> SUFFICES ASSUME Init PROVE Calls
  OBVIOUS
<1>1. pc \in InMain /\ pc = "main" /\ stack = Frame /\ reg = Callers
  BY DEF Init, InMain
<1>2. IsSeq(stack) /\ Len(stack) = 2 /\ stack[2] = Frame[2]
  BY <1>1 DEF Frame, IsSeq
<1>3. DOMAIN reg = Registers
  BY <1>1 DEF Callers, Registers
<1> QED
  BY <1>1, <1>2, <1>3, PlacesDiffer DEF Calls

\* Every step keeps Calls.
LEMMA CallsStep == Calls /\ [Next]_vars => Calls'
<1> SUFFICES ASSUME Calls, [Next]_vars PROVE Calls'
  OBVIOUS
<1>1. CASE CallRead \/ GotWord \/ CallTrim \/ CallDict \/ CallFree
  BY <1>1, CallsOfMain
<1>2. CASE Entered \/ Search \/ Report \/ Exit \/ Ended
  BY <1>2, CallsInMain
<1>3. CASE SkipBlank \/ Store \/ StoreFull \/ Lower \/ Trim \/ Free
  BY <1>3, CallsInside
<1>4. CASE ReturnWord \/ ReturnNoWord \/ Lowered \/ Trimmed \/ Inserted \/ Freed
  BY <1>4, CallsReturn
<1>5. CASE CallFind \/ Compare \/ Prepend
  BY <1>5, CallsInFind
<1>6. CASE Found
  BY <1>6, CallsFound
<1>7. CASE UNCHANGED vars
  BY <1>7 DEF vars, machine, Calls, OneCall, CallOf
<1> QED
  BY <1>1, <1>2, <1>3, <1>4, <1>5, <1>6, <1>7 DEF Next, Step

\* With the stack as Calls says, the convention is kept.
LEMMA CallsConvention == Calls => CallingConvention
<1> SUFFICES ASSUME Calls PROVE CallingConvention
  OBVIOUS
<1>1. Len(Frame) = 2
  BY DEF Frame
<1>2. CallerKept
  BY <1>1 DEF CallerKept, Calls, Kept
<1>3. Aligned
  <2> SUFFICES ASSUME pc \in {"skip_blanks", "store", "chain", "free"}
               PROVE  (Len(stack) - Len(Frame)) % 2 = 0
    BY DEF Aligned
  <2>1. CASE pc \in {"skip_blanks", "store"}
    <3>1. OneCall("got_word", ReadPushes)
      BY <2>1 DEF Calls, Reading
    <3>2. Len(stack) = 8
      BY <3>1 DEF OneCall, ReadPushes
    <3> QED
      BY <1>1, <3>2
  <2>2. CASE pc = "chain"
    <3>1. Len(stack) = 14
      BY <2>2 DEF Calls, Finding
    <3> QED
      BY <1>1, <3>1
  <2>3. CASE pc = "free"
    <3>1. OneCall("next_chain", LowerPushes)
      BY <2>3 DEF Calls
    <3>2. Len(stack) = 6
      BY <3>1 DEF OneCall, LowerPushes
    <3> QED
      BY <1>1, <3>2
  <2> QED
    BY <2>1, <2>2, <2>3
<1> QED
  BY <1>2, <1>3 DEF CallingConvention

(***************************************************************************)
(* Each function of asm_wcfuncs.S returns to its caller with the stack and *)
(* the registers as they were (but for the two slips named there), and     *)
(* fgetc, malloc and free are called with the stack aligned, for every     *)
(* input, table and word length.                                           *)
(***************************************************************************)
THEOREM ConventionIsKept == Spec => []CallingConvention
<1>1. Spec => []Calls
  BY CallsInit, CallsStep, PTL DEF Spec
<1> QED
  BY <1>1, CallsConvention, PTL

-----------------------------------------------------------------------------
(* The buffer.                                                             *)

\* The bytes of the stream and of the buffer.
Bytes ==
  /\ input \in Inputs /\ pos \in Nat \ {0}
  /\ buffer \in [0 .. MAX_WORDLEN -> 0 .. 255]

\* The places at which something is known of the buffer.
Watched == {"skip_blanks", "store", "word_read", "got_word", "lower", "lowered", "trim"}

\* fgetc gives a byte.
LEMMA FetchedIsByte ==
  ASSUME Bytes
  PROVE  Fetched \in 0 .. 255
<1>1. input \in Seq(0 .. 255) /\ pos \in Nat \ {0}
  BY WordAssumption DEF Bytes
<1>2. Len(input) \in Nat /\ \A k \in 1 .. Len(input) : input[k] \in 0 .. 255
  BY <1>1, LenProperties, ElementOfSeq
<1> QED
  BY <1>1, <1>2 DEF Fetched

\* It goes on in the stream at most by one.
LEMMA FetchStep ==
  ASSUME Bytes, fgetc
  PROVE  input' = input /\ pos' \in Nat \ {0}
<1>1. pos \in Nat \ {0} /\ input' = input /\ pos' \in {pos, pos + 1}
  BY DEF Bytes, fgetc
<1> QED
  BY <1>1

\* A buffer with a terminator has a first one.
LEMMA EndIs ==
  ASSUME Bytes, Terminated(0)
  PROVE  End \in 0 .. MAX_WORDLEN
<1> DEFINE T == {k \in 0 .. MAX_WORDLEN : buffer[k] = 0}
<1>1. DOMAIN buffer = 0 .. MAX_WORDLEN /\ MAX_WORDLEN \in Nat
  BY WordAssumption DEF Bytes
<1>2. T \subseteq Nat /\ T # {}
  BY <1>1 DEF Terminated
<1>3. PICK k \in T : \A j \in T : ~(<<j, k>> \in OpToRel(<, Nat))
  BY <1>2, NatLessThanWellFounded, WFMin, Zenon
<1>4. \A j \in T : ~(j < k)
  BY <1>2, <1>3, Zenon DEF OpToRel
<1>5. k \in DOMAIN buffer /\ buffer[k] = 0 /\ \A j \in 0 .. k - 1 : buffer[j] # 0
  <2>1. k \in 0 .. MAX_WORDLEN /\ buffer[k] = 0
    BY <1>3
  <2>2. ASSUME NEW j \in 0 .. k - 1 PROVE buffer[j] # 0
    <3>1. j < k /\ j \in 0 .. MAX_WORDLEN
      BY <1>1, <2>1
    <3> QED
      BY <1>4, <3>1
  <2> QED
    BY <1>1, <2>1, <2>2
<1> HIDE DEF T
<1>6. End \in DOMAIN buffer
  BY <1>5, Zenon DEF End
<1> QED
  BY <1>1, <1>6

\* A write of a byte keeps the others.
LEMMA BufferWrite ==
  ASSUME Bytes, NEW j \in 0 .. MAX_WORDLEN, NEW c \in 0 .. 255, buffer' = [buffer EXCEPT ![j] = c]
  PROVE  /\ buffer' \in [0 .. MAX_WORDLEN -> 0 .. 255]
         /\ buffer'[j] = c /\ \A k \in 0 .. MAX_WORDLEN : k # j => buffer'[k] = buffer[k]
BY DEF Bytes

\* At the other places only the bytes matter.
LEMMA BufferedAway ==
  ASSUME Bytes', pc' \notin Watched
  PROVE  Buffered'
BY DEF Buffered, Bytes, Watched

\* wc_readnext: its registers stay within the buffer, and a word ends in a terminator.
LEMMA BufferedRead ==
  ASSUME Calls, Buffered, CallRead \/ SkipBlank \/ Store \/ StoreFull
  PROVE  Buffered'
<1>1. Bytes /\ MAX_WORDLEN \in Nat \ {0}
  BY WordAssumption DEF Buffered, Bytes
<1>2. {"r12", "r13", "r14", "r15"} \subseteq DOMAIN reg
  BY DEF Calls, Registers
<1>3. Fetched \in 0 .. 255
  BY <1>1, FetchedIsByte
<1>4. CASE CallRead
  <2>1. Bytes' /\ pc' = "skip_blanks" /\ reg' = [reg EXCEPT !.r12 = 0, !.r13 = 0, !.r14 = 0]
    BY <1>1, <1>4 DEF CallRead, Inside, Bytes
  <2>2. reg'["r13"] = 0 /\ reg'["r14"] = 0
    BY <1>2, <2>1
  <2> QED
    BY <2>1, <2>2 DEF Buffered, Bytes
<1>5. CASE SkipBlank
  <2>1. Bytes'
    <3>1. fgetc /\ buffer' = buffer
      BY <1>5 DEF SkipBlank
    <3> QED
      BY <1>1, <3>1, FetchStep DEF Bytes
  <2>2. pc = "skip_blanks" /\ pc' \in {"no_word", "skip_blanks", "store"}
    BY <1>5 DEF SkipBlank
  <2>3. reg'["r13"] = reg["r13"] /\ reg'["r14"] = reg["r14"] /\ reg'["r15"] = Fetched
    BY <1>2, <1>5 DEF SkipBlank
  <2>4. reg'["r13"] = 0 /\ reg'["r14"] = 0 /\ reg'["r15"] \in 0 .. 255
    BY <1>3, <2>2, <2>3 DEF Buffered
  <2> QED
    BY <1>1, <2>1, <2>2, <2>4 DEF Buffered, Bytes
<1>6. CASE Store
  <2>1. pc = "store" /\ reg.r14 < MAX_WORDLEN /\ pc' \in {"store", "word_read"}
        /\ buffer' = [buffer EXCEPT ![reg.r13] = reg.r15]
    BY <1>6 DEF Store
  <2>2. reg.r13 = reg.r14 /\ reg.r13 \in 0 .. MAX_WORDLEN /\ reg.r15 \in 0 .. 255
    BY <2>1 DEF Buffered
  <2>3. buffer' \in [0 .. MAX_WORDLEN -> 0 .. 255]
    BY <1>1, <2>1, <2>2, BufferWrite
  <2>4. Bytes'
    <3>1. fgetc
      BY <1>6 DEF Store
    <3> QED
      BY <1>1, <2>3, <3>1, FetchStep DEF Bytes
  <2>5. reg' = [reg EXCEPT !.r13 = @ + 1, !.r14 = @ + 1, !.r15 = Fetched]
    BY <1>6 DEF Store
  <2>6. reg'["r13"] = reg["r13"] + 1 /\ reg'["r14"] = reg["r14"] + 1 /\ reg'["r15"] = Fetched
    BY <1>2, <2>5
  <2>7. reg'["r13"] = reg'["r14"] /\ reg'["r13"] \in 0 .. MAX_WORDLEN /\ reg'["r15"] \in 0 .. 255
    BY <1>1, <1>3, <2>1, <2>2, <2>6
  <2> QED
    BY <2>1, <2>4, <2>7 DEF Buffered, Bytes
<1>7. CASE StoreFull
  <2>1. pc = "store" /\ pc' = "word_read" /\ Bytes' /\ reg' = reg
    BY <1>1, <1>7 DEF StoreFull, Inside, Bytes
  <2>2. reg.r13 = reg.r14 /\ reg.r13 \in 0 .. MAX_WORDLEN
    BY <2>1 DEF Buffered
  <2> QED
    BY <2>1, <2>2 DEF Buffered, Bytes
<1> QED
  BY <1>4, <1>5, <1>6, <1>7

\* wc_readnext returns a word with its terminator, or none.
LEMMA BufferedReturn ==
  ASSUME Calls, Buffered, ReturnWord \/ ReturnNoWord
  PROVE  Buffered'
<1>1. Bytes /\ MAX_WORDLEN \in Nat \ {0}
  BY WordAssumption DEF Buffered, Bytes
<1>2. CASE ReturnWord
  <2>1. pc' = "got_word"
    BY <1>2, CallsReturn
  <2>2. pc = "word_read" /\ buffer' = [buffer EXCEPT ![reg.r13] = 0] /\ input' = input /\ pos' = pos
    BY <1>2 DEF ReturnWord, Inside
  <2>3. reg.r13 \in 0 .. MAX_WORDLEN /\ 0 \in 0 .. 255
    BY <2>2 DEF Buffered
  <2>4. buffer' \in [0 .. MAX_WORDLEN -> 0 .. 255] /\ buffer'[reg.r13] = 0
    BY <1>1, <2>2, <2>3, BufferWrite
  <2>5. Bytes'
    BY <1>1, <2>2, <2>4 DEF Bytes
  <2>6. Terminated(0)'
    BY <2>3, <2>4 DEF Terminated
  <2> QED
    BY <2>1, <2>5, <2>6 DEF Buffered, Bytes
<1>3. CASE ReturnNoWord
  <2>1. pc' = "got_word" /\ reg'["rax"] = 0
    BY <1>3, CallsReturn
  <2>2. Bytes'
    BY <1>1, <1>3 DEF ReturnNoWord, Inside, Bytes
  <2> QED
    BY <2>1, <2>2 DEF Buffered, Bytes
<1> QED
  BY <1>2, <1>3

\* wc_tolower goes on to the terminator, which it leaves where it is.
LEMMA BufferedLower ==
  ASSUME Calls, Buffered, GotWord \/ Lower \/ Lowered
  PROVE  Buffered'
<1>1. Bytes /\ MAX_WORDLEN \in Nat \ {0}
  BY WordAssumption DEF Buffered, Bytes
<1>2. {"r12", "r13", "r14", "r15"} \subseteq DOMAIN reg
  BY DEF Calls, Registers
<1>3. CASE GotWord
  <2>1. pc = "got_word" /\ Bytes' /\ buffer' = buffer
    BY <1>1, <1>3 DEF GotWord, Bytes
  <2>2. CASE pc' \in {"search", "main"}
    BY <2>1, <2>2, BufferedAway DEF Watched
  <2>3. CASE reg.rax # 0 /\ pc' = "lower" /\ reg' = [reg EXCEPT !.r12 = 0]
    <3>1. reg'["r12"] = 0
      BY <1>2, <2>3
    <3>2. Terminated(0)'
      BY <2>1, <2>3 DEF Buffered, Terminated
    <3> QED
      BY <1>1, <2>1, <2>3, <3>1, <3>2 DEF Buffered, Bytes
  <2> QED
    BY <1>3, <2>2, <2>3 DEF GotWord
<1>4. CASE Lower
  <2> DEFINE c == buffer[reg.r12]
             d == IF wc_isalpha(c) /\ c < 97 THEN (c + 32) % 256 ELSE c
  <2>1. /\ pc = "lower" /\ pc' = "lower" /\ c # 0 /\ buffer' = [buffer EXCEPT ![reg.r12] = d]
        /\ reg' = [reg EXCEPT !.r13 = c, !.r12 = @ + 1] /\ input' = input /\ pos' = pos
    BY <1>4 DEF Lower, Inside
  <2>2. reg.r12 \in 0 .. MAX_WORDLEN /\ Terminated(reg.r12)
    BY <2>1 DEF Buffered
  <2>3. c \in 0 .. 255
    BY <1>1, <2>2 DEF Bytes
  <2>4. d \in 0 .. 255
    BY <2>3
  <2> HIDE DEF d
  <2>5. /\ buffer' \in [0 .. MAX_WORDLEN -> 0 .. 255]
        /\ \A k \in 0 .. MAX_WORDLEN : k # reg.r12 => buffer'[k] = buffer[k]
    BY <1>1, <2>1, <2>2, <2>4, BufferWrite
  <2>6. Bytes'
    BY <1>1, <2>1, <2>5 DEF Bytes
  <2>7. reg'["r12"] = reg.r12 + 1
    BY <1>2, <2>1
  <2>8. PICK j \in reg.r12 .. MAX_WORDLEN : buffer[j] = 0
    BY <2>2 DEF Terminated
  <2>9. j # reg.r12 /\ j \in reg.r12 + 1 .. MAX_WORDLEN
    BY <1>1, <2>1, <2>2, <2>8
  <2>10. j \in 0 .. MAX_WORDLEN
    BY <2>2
  <2>11. buffer'[j] = 0
    BY <2>5, <2>8, <2>9, <2>10
  <2>12. reg'["r12"] \in 0 .. MAX_WORDLEN /\ Terminated(reg.r12)'
    BY <1>1, <2>2, <2>7, <2>9, <2>11 DEF Terminated
  <2> QED
    BY <2>1, <2>6, <2>12 DEF Buffered, Bytes
<1>5. CASE Lowered
  <2>1. pc' = "lowered"
    BY <1>5, CallsReturn
  <2>2. pc = "lower" /\ buffer[reg.r12] = 0 /\ Bytes' /\ buffer' = buffer
    BY <1>1, <1>5 DEF Lowered, Inside, Bytes
  <2>3. reg.r12 \in 0 .. MAX_WORDLEN
    BY <2>2 DEF Buffered
  <2>4. Terminated(0)'
    BY <2>2, <2>3 DEF Terminated
  <2> QED
    BY <2>1, <2>2, <2>4 DEF Buffered, Bytes
<1> QED
  BY <1>3, <1>4, <1>5

\* wc_trim_non_alpha starts at the terminator and goes back to the start.
LEMMA BufferedTrim ==
  ASSUME Calls, Buffered, CallTrim \/ Trim \/ Trimmed
  PROVE  Buffered'
<1>1. Bytes /\ MAX_WORDLEN \in Nat \ {0}
  BY WordAssumption DEF Buffered, Bytes
<1>2. {"r12", "r13", "r14", "r15"} \subseteq DOMAIN reg
  BY DEF Calls, Registers
<1>3. CASE CallTrim
  <2>1. /\ pc = "lowered" /\ Bytes' /\ reg' = [reg EXCEPT !.r12 = End, !.r13 = 0]
        /\ pc' = IF End = 0 THEN "trim_done" ELSE "trim"
    BY <1>1, <1>3 DEF CallTrim, Inside, Bytes
  <2>2. Terminated(0)
    BY <2>1 DEF Buffered
  <2>3. End \in 0 .. MAX_WORDLEN
    BY <1>1, <2>2, EndIs
  <2>4. CASE End = 0
    BY <2>1, <2>4, BufferedAway DEF Watched
  <2>5. CASE End # 0
    <3>1. pc' = "trim" /\ reg'["r13"] = 0 /\ reg'["r12"] \in 1 .. MAX_WORDLEN
      BY <1>2, <2>1, <2>3, <2>5
    <3> QED
      BY <2>1, <3>1 DEF Buffered, Bytes
  <2> QED
    BY <2>4, <2>5
<1>4. CASE Trim
  <2> DEFINE k == reg.r12 - 1
  <2>1. /\ pc = "trim" /\ reg' = [reg EXCEPT !.r12 = @ - 1] /\ input' = input /\ pos' = pos
        /\ \/ buffer' = [buffer EXCEPT ![k + 1] = 0] /\ pc' = "trim_done"
           \/ buffer' = [buffer EXCEPT ![k] = 0] /\ pc' = "trim_done"
           \/ k # reg.r13 /\ buffer' = buffer /\ pc' = pc
    BY <1>4 DEF Trim, Inside
  <2>2. reg.r13 = 0 /\ reg.r12 \in 1 .. MAX_WORDLEN
    BY <2>1 DEF Buffered
  <2>3. k \in 0 .. MAX_WORDLEN /\ k + 1 \in 0 .. MAX_WORDLEN /\ 0 \in 0 .. 255
    BY <1>1, <2>2
  <2>4. buffer' \in [0 .. MAX_WORDLEN -> 0 .. 255]
    BY <1>1, <2>1, <2>3, BufferWrite DEF Bytes
  <2>5. Bytes'
    BY <1>1, <2>1, <2>4 DEF Bytes
  <2>6. reg'["r12"] = k /\ reg'["r13"] = reg["r13"]
    BY <1>2, <2>1
  <2>7. CASE pc' = "trim_done"
    BY <2>5, <2>7, BufferedAway DEF Watched
  <2>8. CASE k # reg.r13 /\ pc' = pc
    <3>1. pc' = "trim" /\ reg'["r13"] = 0 /\ reg'["r12"] \in 1 .. MAX_WORDLEN
      BY <1>1, <2>1, <2>2, <2>6, <2>8
    <3> QED
      BY <2>5, <3>1 DEF Buffered, Bytes
  <2> QED
    BY <2>1, <2>7, <2>8
<1>5. CASE Trimmed
  <2>1. pc' = "trimmed"
    BY <1>5, CallsReturn
  <2>2. Bytes'
    BY <1>1, <1>5 DEF Trimmed, Inside, Bytes
  <2> QED
    BY <2>1, <2>2, BufferedAway DEF Watched
<1> QED
  BY <1>3, <1>4, <1>5

\* The other steps do not touch the buffer.
LEMMA BufferedOther ==
  ASSUME Calls, Buffered,
         \/ CallDict \/ CallFind \/ Compare \/ Prepend \/ Found \/ Inserted \/ Entered
         \/ Search \/ Report \/ CallFree \/ Free \/ Freed \/ Exit \/ Ended
  PROVE  Buffered'
<1>1. Bytes
  BY DEF Buffered, Bytes
<1>2. input' = input /\ pos' = pos /\ buffer' = buffer
  <2>1. CASE CallDict \/ CallFind \/ Compare \/ Prepend \/ Found \/ Free \/ Freed
    BY <2>1, Zenon DEF CallDict, CallFind, Compare, Prepend, Found, Free, Freed, Inside
  <2>2. CASE Inserted \/ Entered \/ CallFree
    BY <2>2, Zenon DEF Inserted, Entered, CallFree
  <2>3. CASE Search \/ Report \/ Exit \/ Ended
    BY <2>3 DEF Search, Report, Exit, Ended, Inside, vars, machine
  <2> QED
    BY <2>1, <2>2, <2>3
<1>3. Bytes'
  BY <1>1, <1>2 DEF Bytes
<1>4. pc' \notin Watched
  <2>1. CASE Found
    BY <2>1, CallsFound DEF Watched
  <2>2. CASE Inserted \/ Freed
    BY <2>2, CallsReturn DEF Watched
  <2>3. CASE CallDict \/ CallFind \/ Prepend \/ Entered \/ Report \/ CallFree \/ Exit
    BY <2>3 DEF CallDict, CallFind, Prepend, Entered, Report, CallFree, Exit, Watched
  <2>4. CASE Compare
    <3>1. pc = "chain" /\ pc' \in {"chain", "find_done"}
      BY <2>4, Zenon DEF Compare
    <3> QED
      BY <3>1 DEF Watched
  <2>5. CASE Free \/ Search \/ Ended
    BY <2>5 DEF Free, Search, Ended, vars, machine, Watched
  <2> QED
    BY <2>1, <2>2, <2>3, <2>4, <2>5
<1> QED
  BY <1>3, <1>4, BufferedAway

\* Buffered holds when main starts.
LEMMA BufferedInit == Init => Buffered
<1> SUFFICES ASSUME Init PROVE Buffered
  OBVIOUS
<1>1. Bytes
  BY DEF Init, Bytes
<1> QED
  BY <1>1 DEF Init, Bytes, Buffered

\* Every step keeps Buffered.
LEMMA BufferedStep == Calls /\ Buffered /\ [Next]_vars => Buffered'
<1> SUFFICES ASSUME Calls, Buffered, [Next]_vars PROVE Buffered'
  OBVIOUS
<1>1. CASE CallRead \/ SkipBlank \/ Store \/ StoreFull
  BY <1>1, BufferedRead
<1>2. CASE ReturnWord \/ ReturnNoWord
  BY <1>2, BufferedReturn
<1>3. CASE GotWord \/ Lower \/ Lowered
  BY <1>3, BufferedLower
<1>4. CASE CallTrim \/ Trim \/ Trimmed
  BY <1>4, BufferedTrim
<1>5. CASE \/ CallDict \/ CallFind \/ Compare \/ Prepend \/ Found \/ Inserted \/ Entered
           \/ Search \/ Report \/ CallFree \/ Free \/ Freed \/ Exit \/ Ended
  BY <1>5, BufferedOther
<1>6. CASE UNCHANGED vars
  BY <1>6 DEF vars, machine, Buffered, Terminated
<1> QED
  BY <1>1, <1>2, <1>3, <1>4, <1>5, <1>6 DEF Next, Step

\* With the registers as Buffered says, no access is outside the buffer.
LEMMA BufferedInBuffer == Buffered => InBuffer
<1> SUFFICES ASSUME Buffered PROVE InBuffer
  OBVIOUS
<1>1. MAX_WORDLEN \in Nat \ {0}
  BY WordAssumption
<1>2. pc = "store" => reg.r13 = reg.r14 /\ reg.r13 <= MAX_WORDLEN
  BY <1>1 DEF Buffered
<1>3. pc = "lower" => reg.r12 <= MAX_WORDLEN
  BY <1>1 DEF Buffered
<1>4. pc = "trim"  => reg.r12 > reg.r13
  BY <1>1 DEF Buffered
<1> QED
  BY <1>2, <1>3, <1>4 DEF InBuffer

-----------------------------------------------------------------------------
(* The chains.                                                             *)

\* The chains are sequences, one for each hash code.
Chains ==
  /\ DOMAIN buckets = 0 .. HASHTABLE_SIZE - 1
  /\ \A b \in DOMAIN buckets : IsSeq(buckets[b])

\* The places of the last loop of main.
Freeing == {"next_chain", "free", "exit"}

\* Nothing has been freed yet.
NoneFreed == i = 0 /\ freed = {}

\* What Free has given back of the chain at hand, and of those before.
HalfFreed ==
  /\ i \in 1 .. HASHTABLE_SIZE
  /\ reg.r12 = reg.r13 /\ reg.r13 \in 0 .. Len(buckets[i - 1])
  /\ freed = EntriesOf(i - 1) \cup
       ({i - 1} \X {e \in DOMAIN buckets[i - 1] : reg.r13 = 0 \/ e < reg.r13})

\* Chained, by the names of its parts.
LEMMA ChainedIs ==
  Chained <=>
    /\ Chains
    /\ pc \notin Freeing => NoneFreed
    /\ pc \in {"next_chain", "exit"} => i \in 0 .. HASHTABLE_SIZE /\ freed = EntriesOf(i)
    /\ pc = "exit" => i = HASHTABLE_SIZE
    /\ pc = "free" => HalfFreed
BY DEF Chained, Chains, Freeing, NoneFreed, HalfFreed

\* An entry lies in one of the first chains.
LEMMA EntriesAre ==
  ASSUME NEW n \in Nat, NEW e
  PROVE  e \in EntriesOf(n) <=> \E b \in 0 .. n - 1 : \E k \in DOMAIN buckets[b] : e = <<b, k>>
<1>1. \A b : e \in {b} \X DOMAIN buckets[b] <=> \E k \in DOMAIN buckets[b] : e = <<b, k>>
  OBVIOUS
<1> QED
  BY <1>1 DEF EntriesOf

\* The entries of one more chain.
LEMMA OneMoreChain ==
  ASSUME NEW n \in Nat
  PROVE  EntriesOf(n + 1) = EntriesOf(n) \cup ({n} \X DOMAIN buckets[n])
<1>1. 0 .. (n + 1) - 1 = (0 .. n - 1) \cup {n}
  OBVIOUS
<1> QED
  BY <1>1, Zenon DEF EntriesOf

\* Steps before the last loop that leave the chains alone.
LEMMA ChainsAlone ==
  ASSUME Chained, pc \notin Freeing, pc' \notin Freeing, Chains', UNCHANGED <<i, freed>>
  PROVE  Chained'
<1>1. NoneFreed'
  BY ChainedIs DEF NoneFreed
<1>2. /\ Chains'
      /\ pc' \notin Freeing => NoneFreed'
      /\ pc' \in {"next_chain", "exit"} => i' \in 0 .. HASHTABLE_SIZE /\ freed' = EntriesOf(i)'
      /\ pc' = "exit" => i' = HASHTABLE_SIZE
      /\ pc' = "free" => HalfFreed'
  BY <1>1 DEF Freeing
<1> QED
  BY <1>2 DEF Chained, Chains, Freeing, NoneFreed, HalfFreed

\* Up to the last loop nothing is freed, and most steps do not touch the chains.
LEMMA ChainedBefore ==
  ASSUME Calls, Chained,
         \/ CallRead \/ SkipBlank \/ Store \/ StoreFull \/ ReturnWord \/ ReturnNoWord
         \/ GotWord \/ Lower \/ Lowered \/ CallTrim \/ Trim \/ Trimmed
         \/ CallDict \/ CallFind \/ Compare \/ Prepend \/ Found \/ Search
  PROVE  Chained'
<1>1. UNCHANGED <<buckets, i, freed>>
  <2>1. CASE CallRead \/ StoreFull \/ ReturnWord \/ ReturnNoWord \/ Lower \/ Lowered
    BY <2>1, Zenon DEF CallRead, StoreFull, ReturnWord, ReturnNoWord, Lower, Lowered, Inside
  <2>2. CASE SkipBlank \/ Store
    BY <2>2, Zenon DEF SkipBlank, Store, fgetc
  <2>3. CASE GotWord
    BY <2>3, Zenon DEF GotWord
  <2>4. CASE CallTrim \/ Trim \/ Trimmed
    BY <2>4, Zenon DEF CallTrim, Trim, Trimmed, Inside
  <2>5. CASE CallDict \/ CallFind \/ Compare \/ Prepend \/ Found
    BY <2>5, Zenon DEF CallDict, CallFind, Compare, Prepend, Found, Inside
  <2>6. CASE Search
    BY <2>6 DEF Search, machine
  <2> QED
    BY <2>1, <2>2, <2>3, <2>4, <2>5, <2>6
<1>2. Chains'
  BY <1>1 DEF Chained, Chains
<1>3. pc \notin Freeing /\ pc' \notin Freeing
  <2>1. CASE CallRead \/ SkipBlank \/ Store \/ StoreFull \/ Lower \/ Search
    BY <2>1 DEF CallRead, SkipBlank, Store, StoreFull, Lower, Search, machine, Freeing
  <2>2. CASE ReturnWord
    <3>1. pc = "word_read" /\ pc' = "got_word"
      BY <2>2, CallsReturn DEF ReturnWord
    <3> QED
      BY <3>1 DEF Freeing
  <2>3. CASE ReturnNoWord
    <3>1. pc = "no_word" /\ pc' = "got_word"
      BY <2>3, CallsReturn DEF ReturnNoWord
    <3> QED
      BY <3>1 DEF Freeing
  <2>4. CASE Lowered
    <3>1. pc = "lower" /\ pc' = "lowered"
      BY <2>4, CallsReturn DEF Lowered
    <3> QED
      BY <3>1 DEF Freeing
  <2>5. CASE Trimmed
    <3>1. pc = "trim_done" /\ pc' = "trimmed"
      BY <2>5, CallsReturn DEF Trimmed
    <3> QED
      BY <3>1 DEF Freeing
  <2>6. CASE Found
    <3>1. pc = "find_done" /\ pc' = "inserted"
      BY <2>6, CallsFound DEF Found
    <3> QED
      BY <3>1 DEF Freeing
  <2>7. CASE GotWord
    <3>1. pc = "got_word" /\ pc' \in {"search", "main", "lower"}
      BY <2>7, Zenon DEF GotWord
    <3> QED
      BY <3>1 DEF Freeing
  <2>8. CASE CallTrim
    BY <2>8 DEF CallTrim, Freeing
  <2>9. CASE Trim
    <3>1. pc = "trim" /\ pc' \in {"trim", "trim_done"}
      BY <2>9, Zenon DEF Trim
    <3> QED
      BY <3>1 DEF Freeing
  <2>10. CASE CallDict \/ CallFind \/ Prepend
    BY <2>10 DEF CallDict, CallFind, Prepend, Freeing
  <2>11. CASE Compare
    <3>1. pc = "chain" /\ pc' \in {"chain", "find_done"}
      BY <2>11, Zenon DEF Compare
    <3> QED
      BY <3>1 DEF Freeing
  <2> QED
    BY <2>1, <2>2, <2>3, <2>4, <2>5, <2>6, <2>7, <2>8, <2>9, <2>10, <2>11
<1> QED
  BY <1>1, <1>2, <1>3, ChainsAlone

\* A new entry goes in front of its chain, and main counts it.
LEMMA ChainedCount ==
  ASSUME Calls, Chained, Inserted \/ Entered
  PROVE  Chained'
<1>1. Chains
  BY DEF Chained, Chains
<1>2. CASE Inserted
  <2>1. pc = "inserted" /\ pc' = "entered" /\ UNCHANGED <<i, freed>>
    BY <1>2, CallsReturn DEF Inserted
  <2>2. \/ buckets' = buckets
        \/ buckets' = [buckets EXCEPT ![reg.r12] = <<node>> \o @]
    BY <1>2 DEF Inserted
  <2>3. ASSUME NEW b \in DOMAIN buckets PROVE IsSeq(<<node>> \o buckets[b])
    <3>1. IsSeq(<<node>>)
      BY DEF IsSeq
    <3>2. IsSeq(buckets[b])
      BY <1>1 DEF Chains
    <3> QED
      BY <3>1, <3>2, JoinIs
  <2>4. Chains'
    BY <1>1, <2>2, <2>3 DEF Chains
  <2> QED
    BY <2>1, <2>4, ChainsAlone DEF Freeing
<1>3. CASE Entered
  <2>1. pc = "entered" /\ pc' = "main" /\ UNCHANGED <<i, freed>>
    BY <1>3 DEF Entered
  <2> DEFINE entry == [buckets[Home][reg.rax] EXCEPT !.count = buckets[Home][reg.rax].count + 1]
             h == Home
             e == reg.rax
  <2>2. buckets' = [buckets EXCEPT ![h] = Written(buckets[h], e, entry)]
    BY <1>3, Zenon DEF Entered, Written
  <2> HIDE DEF entry, h, e
  <2>3. ASSUME NEW b \in DOMAIN buckets PROVE IsSeq(Written(buckets[b], e, entry))
    <3>1. IsSeq(buckets[b])
      BY <1>1 DEF Chains
    <3> QED
      BY <3>1, WrittenIs
  <2>4. Chains'
    BY <1>1, <2>2, <2>3 DEF Chains
  <2> QED
    BY <2>1, <2>4, ChainsAlone DEF Freeing
<1> QED
  BY <1>2, <1>3

\* The first and the next entry are in the chain.
LEMMA HeadIs ==
  ASSUME Chains, NEW b \in DOMAIN buckets
  PROVE  /\ Len(buckets[b]) \in Nat /\ DOMAIN buckets[b] = 1 .. Len(buckets[b])
         /\ HeadEntry(b) \in 0 .. Len(buckets[b])
         /\ HeadEntry(b) = 0 => DOMAIN buckets[b] = {}
         /\ HeadEntry(b) = 0 \/ HeadEntry(b) = 1
<1>1. /\ Len(buckets[b]) \in Nat /\ DOMAIN buckets[b] = 1 .. Len(buckets[b])
      /\ buckets[b] = [k \in 1 .. Len(buckets[b]) |-> buckets[b][k]]
  BY DEF Chains, IsSeq
<1>2. PICK S : buckets[b] \in Seq(S)
  BY IsInSeq DEF Chains
<1>3. buckets[b] = <<>> <=> Len(buckets[b]) = 0
  BY <1>2, EmptySeq, LenProperties
<1> QED
  BY <1>1, <1>3 DEF HeadEntry

\* The last loop of main.
LEMMA ChainedFreeing ==
  ASSUME Calls, Chained, Report \/ CallFree \/ Free \/ Freed \/ Exit \/ Ended
  PROVE  Chained'
<1>1. Chains /\ HASHTABLE_SIZE \in Nat \ {0} /\ DOMAIN reg = Registers
  BY WordAssumption DEF Chained, Chains, Calls
<1>2. {"r12", "r13"} \subseteq DOMAIN reg
  BY <1>1 DEF Registers
<1>3. buckets' = buckets
  <2>1. CASE Report \/ Free \/ Freed \/ Exit
    BY <2>1, Zenon DEF Report, Free, Freed, Exit, Inside
  <2>2. CASE CallFree \/ Ended
    BY <2>2 DEF CallFree, Ended, vars
  <2> QED
    BY <2>1, <2>2
<1>4. Chains' /\ EntriesOf(i)' = EntriesOf(i') /\ EntriesOf(i - 1)' = EntriesOf(i' - 1)
  BY <1>1, <1>3 DEF Chains, EntriesOf
<1>5. CASE Report
  <2>1. pc = "search" /\ pc' = "next_chain" /\ i' = i /\ freed' = freed
    BY <1>5 DEF Report, Inside
  <2>2. i = 0 /\ freed = {}
    BY <2>1 DEF Chained
  <2>3. EntriesOf(0) = {}
    <3>1. 0 .. 0 - 1 = {}
      OBVIOUS
    <3> QED
      BY <3>1 DEF EntriesOf
  <2>4. i' \in 0 .. HASHTABLE_SIZE /\ freed' = EntriesOf(i')
    BY <1>1, <2>1, <2>2, <2>3
  <2> QED
    BY <1>4, <2>1, <2>4 DEF Chained, Chains
<1>6. CASE CallFree
  <2>1. /\ pc = "next_chain" /\ pc' = "free" /\ i < HASHTABLE_SIZE /\ i' = i + 1 /\ freed' = freed
        /\ reg' = [reg EXCEPT !.r12 = HeadEntry(i), !.r13 = HeadEntry(i)]
    BY <1>6 DEF CallFree
  <2>2. i \in 0 .. HASHTABLE_SIZE /\ freed = EntriesOf(i)
    BY <2>1 DEF Chained
  <2>3. i \in DOMAIN buckets /\ i' \in 1 .. HASHTABLE_SIZE /\ i' - 1 = i
    BY <1>1, <2>1, <2>2 DEF Chains
  <2> DEFINE h == HeadEntry(i)
  <2>4. reg'["r12"] = h /\ reg'["r13"] = h
    BY <1>2, <2>1
  <2>5. /\ Len(buckets[i]) \in Nat /\ DOMAIN buckets[i] = 1 .. Len(buckets[i])
        /\ h \in 0 .. Len(buckets[i])
        /\ h = 0 => DOMAIN buckets[i] = {}
        /\ h = 0 \/ h = 1
    BY <1>1, <2>3, HeadIs
  <2> HIDE DEF h
  <2>6. {e \in DOMAIN buckets[i] : h = 0 \/ e < h} = {}
    BY <2>5
  <2>7. HalfFreed'
    <3>1. reg'["r12"] = reg'["r13"] /\ reg'["r13"] \in 0 .. Len(buckets'[i' - 1])
      BY <1>3, <2>3, <2>4, <2>5
    <3>2. {i} \X {e \in DOMAIN buckets[i] : h = 0 \/ e < h} = {}
      BY <2>6
    <3>3. freed' = EntriesOf(i - 1)' \cup
            ({i' - 1} \X {e \in DOMAIN buckets'[i' - 1] : reg'["r13"] = 0 \/ e < reg'["r13"]})
      <4>1. DOMAIN buckets'[i' - 1] = DOMAIN buckets[i] /\ reg'["r13"] = h /\ i' - 1 = i
        BY <1>3, <2>3, <2>4
      <4>2. {i' - 1} \X {e \in DOMAIN buckets'[i' - 1] : reg'["r13"] = 0 \/ e < reg'["r13"]} = {}
        BY <3>2, <4>1
      <4>3. freed' = EntriesOf(i - 1)'
        BY <1>4, <2>1, <2>2, <2>3
      <4> QED
        BY <4>2, <4>3
    <3> QED
      BY <2>3, <3>1, <3>3 DEF HalfFreed
  <2> QED
    BY <1>4, <2>1, <2>7 DEF Chained, Chains, HalfFreed
<1>7. CASE Free
  <2> DEFINE b == i - 1
             k == reg.r13
             next == NextEntry(b, k)
  <2>1. /\ pc = "free" /\ pc' = "free" /\ k # 0 /\ i' = i /\ freed' = freed \cup {<<b, reg.r12>>}
        /\ reg' = [reg EXCEPT !.r12 = next, !.r13 = next]
    BY <1>7 DEF Free, Inside
  <2>2. HalfFreed
    BY <2>1 DEF Chained, HalfFreed
  <2>3. /\ b \in DOMAIN buckets /\ i \in 1 .. HASHTABLE_SIZE
        /\ reg.r12 = k /\ k \in 0 .. Len(buckets[b])
    BY <1>1, <2>2 DEF HalfFreed, Chains
  <2>4. Len(buckets[b]) \in Nat /\ DOMAIN buckets[b] = 1 .. Len(buckets[b])
    BY <1>1, <2>3, HeadIs
  <2>5. reg'["r12"] = next /\ reg'["r13"] = next
    BY <1>2, <2>1
  <2>6. next \in 0 .. Len(buckets[b])
    BY <2>1, <2>3, <2>4 DEF NextEntry
  <2>7. {e \in DOMAIN buckets[b] : next = 0 \/ e < next}
          = {e \in DOMAIN buckets[b] : k = 0 \/ e < k} \cup {k}
    BY <2>1, <2>3, <2>4 DEF NextEntry
  <2>8. freed = EntriesOf(b) \cup ({b} \X {e \in DOMAIN buckets[b] : k = 0 \/ e < k})
    BY <2>2 DEF HalfFreed
  <2> HIDE DEF b, k, next
  <2>9. freed' = EntriesOf(b) \cup ({b} \X {e \in DOMAIN buckets[b] : next = 0 \/ e < next})
    <3> DEFINE A == {e \in DOMAIN buckets[b] : k = 0 \/ e < k}
               B == {e \in DOMAIN buckets[b] : next = 0 \/ e < next}
    <3>1. B = A \cup {k}
      BY <2>7
    <3>2. freed = EntriesOf(b) \cup ({b} \X A) /\ freed' = freed \cup {<<b, k>>}
      BY <2>1, <2>3, <2>8
    <3> HIDE DEF A, B
    <3>3. {b} \X B = ({b} \X A) \cup {<<b, k>>}
      BY <3>1
    <3>4. freed' = EntriesOf(b) \cup ({b} \X B)
      BY <3>2, <3>3
    <3> QED
      BY <3>4 DEF B
  <2>10. HalfFreed'
    BY <1>3, <1>4, <2>1, <2>3, <2>5, <2>6, <2>9 DEF HalfFreed, b
  <2> QED
    BY <1>4, <2>1, <2>10 DEF Chained, Chains, HalfFreed
<1>8. CASE Freed
  <2>1. pc = "free" /\ reg.r13 = 0 /\ i' = i /\ freed' = freed /\ pc' = "next_chain"
    BY <1>8, CallsReturn DEF Freed, Inside
  <2>2. HalfFreed
    BY <2>1 DEF Chained, HalfFreed
  <2>3. /\ i \in 1 .. HASHTABLE_SIZE
        /\ freed = EntriesOf(i - 1) \cup ({i - 1} \X {e \in DOMAIN buckets[i - 1] : TRUE})
    BY <2>1, <2>2 DEF HalfFreed
  <2>4. i - 1 \in Nat /\ (i - 1) + 1 = i
    BY <1>1, <2>3
  <2>5. EntriesOf((i - 1) + 1) = EntriesOf(i - 1) \cup ({i - 1} \X DOMAIN buckets[i - 1])
    BY <2>4, OneMoreChain
  <2>6. {e \in DOMAIN buckets[i - 1] : TRUE} = DOMAIN buckets[i - 1]
    OBVIOUS
  <2>7. freed = EntriesOf(i)
    BY <2>3, <2>4, <2>5, <2>6
  <2>8. i' \in 0 .. HASHTABLE_SIZE /\ freed' = EntriesOf(i)'
    BY <1>1, <1>4, <2>1, <2>3, <2>7
  <2> QED
    BY <1>4, <2>1, <2>8 DEF Chained, Chains
<1>9. CASE Exit \/ Ended
  <2>1. /\ pc \in {"next_chain", "exit"} /\ pc' = "exit" /\ i' = i /\ freed' = freed
        /\ pc = "next_chain" => i = HASHTABLE_SIZE
    BY <1>9 DEF Exit, Ended, Inside, vars, machine
  <2>2. i \in 0 .. HASHTABLE_SIZE /\ freed = EntriesOf(i) /\ i = HASHTABLE_SIZE
    BY <2>1 DEF Chained
  <2> QED
    BY <1>4, <2>1, <2>2 DEF Chained, Chains
<1> QED
  BY <1>5, <1>6, <1>7, <1>8, <1>9

\* Chained holds when main starts.
LEMMA ChainedInit == Init => Chained
<1> SUFFICES ASSUME Init PROVE Chained
  OBVIOUS
<1>1. IsSeq(<<>>)
  BY DEF IsSeq
<1> QED
  BY <1>1, WordAssumption DEF Init, Chained

\* Every step keeps Chained.
LEMMA ChainedStep == Calls /\ Chained /\ [Next]_vars => Chained'
<1> SUFFICES ASSUME Calls, Chained, [Next]_vars PROVE Chained'
  OBVIOUS
<1>1. CASE \/ CallRead \/ SkipBlank \/ Store \/ StoreFull \/ ReturnWord \/ ReturnNoWord
           \/ GotWord \/ Lower \/ Lowered \/ CallTrim \/ Trim \/ Trimmed
           \/ CallDict \/ CallFind \/ Compare \/ Prepend \/ Found \/ Search
  BY <1>1, ChainedBefore
<1>2. CASE Inserted \/ Entered
  BY <1>2, ChainedCount
<1>3. CASE Report \/ CallFree \/ Free \/ Freed \/ Exit \/ Ended
  BY <1>3, ChainedFreeing
<1>4. CASE UNCHANGED vars
  BY <1>4 DEF vars, machine, Chained, EntriesOf
<1> QED
  BY <1>1, <1>2, <1>3, <1>4 DEF Next, Step

\* With the chains as Chained says, nothing is freed twice, and all is in the end.
LEMMA ChainedFreedOnce == Chained => FreedOnce
<1> SUFFICES ASSUME Chained PROVE FreedOnce
  OBVIOUS
<1>1. Chains /\ HASHTABLE_SIZE \in Nat \ {0}
  BY WordAssumption DEF Chained, Chains
<1>2. ASSUME pc = "free", reg.r13 # 0
      PROVE  reg.r12 = reg.r13 /\ <<i - 1, reg.r12>> \notin freed
  <2> DEFINE b == i - 1
             k == reg.r13
  <2>1. HalfFreed
    BY <1>2 DEF Chained, HalfFreed
  <2>2. /\ b \in Nat /\ reg.r12 = k /\ k # 0 /\ b \in DOMAIN buckets /\ k \in 0 .. Len(buckets[b])
        /\ freed = EntriesOf(b) \cup ({b} \X {e \in DOMAIN buckets[b] : k = 0 \/ e < k})
    BY <1>1, <1>2, <2>1 DEF HalfFreed, Chains
  <2>3. k \in Nat
    BY <1>1, <2>2, HeadIs
  <2> HIDE DEF b, k
  <2>4. <<b, k>> \notin EntriesOf(b)
    <3> SUFFICES ASSUME <<b, k>> \in EntriesOf(b) PROVE FALSE
      OBVIOUS
    <3>1. PICK c \in 0 .. b - 1 : \E e \in DOMAIN buckets[c] : <<b, k>> = <<c, e>>
      BY <2>2, EntriesAre
    <3>2. c = b
      BY <3>1
    <3> QED
      BY <2>2, <3>1, <3>2
  <2>5. k \notin {e \in DOMAIN buckets[b] : k = 0 \/ e < k}
    BY <2>2, <2>3
  <2>6. <<b, k>> \notin freed
    BY <2>2, <2>4, <2>5
  <2> QED
    BY <2>2, <2>6 DEF b, k
<1>3. ASSUME pc = "exit"
      PROVE  freed = UNION {{b} \X DOMAIN buckets[b] : b \in DOMAIN buckets}
  <2>1. freed = EntriesOf(HASHTABLE_SIZE) /\ DOMAIN buckets = 0 .. HASHTABLE_SIZE - 1
    BY <1>3 DEF Chained
  <2> QED
    BY <2>1, Zenon DEF EntriesOf
<1> QED
  BY <1>2, <1>3 DEF FreedOnce

(***************************************************************************)
(* No pointer of asm_wcfuncs.S leaves the buffer of main, no entry is read *)
(* or freed after it was freed, and in the end every entry has been freed  *)
(* (asm_wcfuncs.S:329-361, 487-518, 729-750).                              *)
(***************************************************************************)
THEOREM MemoryIsKept == Spec => []MemoryKept
<1>1. Init => Calls /\ Buffered /\ Chained
  BY CallsInit, BufferedInit, ChainedInit
<1>2. Calls /\ Buffered /\ Chained /\ [Next]_vars => (Calls /\ Buffered /\ Chained)'
  BY CallsStep, BufferedStep, ChainedStep
<1>3. Calls /\ Buffered /\ Chained => MemoryKept
  BY BufferedInBuffer, ChainedFreedOnce DEF MemoryKept
<1> QED
  BY <1>1, <1>2, <1>3, PTL DEF Spec

-----------------------------------------------------------------------------
(* WordCount: the refinement mapping, and the invariant it needs.          *)

\* WordCount and what is proved about it, under the mapping of AsmWordCount's C:
\* a word is counted in the step that increments its entry.
P == INSTANCE WordCountProofs WITH
  pos         <- from,
  buckets     <- [b \in DOMAIN buckets |-> Counted(buckets[b])],
  total_words <- IF pc \in Counting THEN total_words - 1 ELSE total_words,
  phase       <- CASE pc = "search" -> "search"
                   [] pc \in {"next_chain", "free", "exit"} -> "end"
                   [] OTHER -> "read"

\* There is another word in the stream.
HasWord == P!Char(P!Start) # P!EOF

\* The k-th byte behind its first one belongs to it, too.
Inner(k) == ~P!AtEnd(P!Start + k)

\* The buffer has the first n bytes of it.
Copied(n) == \A k \in 0 .. n - 1 : buffer[k] = input[P!Start + k]

\* The buffer has the string w.
Holds(w) ==
  /\ Len(w) \in 0 .. MAX_WORDLEN
  /\ \A k \in 1 .. Len(w) : buffer[k - 1] = w[k] /\ w[k] # 0
  /\ buffer[Len(w)] = 0

\* The word in lower case.
LowWord == P!wc_tolower(P!Word)

\* The places from the end of wc_trim_non_alpha on.
Spelled == {"trim_done", "trimmed", "dict", "chain", "find_done", "inserted", "entered"}

\* Where the stream is, and what has been read of it.
Fetching ==
  /\ input \in Inputs /\ from \in 1 .. Len(input) + 1 /\ pos \in 1 .. Len(input) + 1
  /\ pc = "main" => from = pos
  /\ pc = "skip_blanks" => from <= pos /\ \A j \in from .. pos - 1 : P!wc_isspace(P!Char(j))
  /\ pc = "no_word" => ~HasWord
  /\ pc = "store" =>
       /\ HasWord /\ pos = P!Start + reg.r13 + 1 /\ reg.r15 = input[P!Start + reg.r13]
       /\ Copied(reg.r13) /\ \A k \in 0 .. reg.r13 : Inner(k)
  /\ pc = "word_read" => HasWord /\ P!Stores(reg.r13) /\ pos = P!After /\ Copied(reg.r13)
  /\ pc = "got_word" =>
       IF reg.rax = 0 THEN ~HasWord ELSE HasWord /\ pos = P!After /\ Holds(P!Word)

\* What has become of the word.
Spelling ==
  /\ pc \in Counting => HasWord /\ pos = P!After /\ P!Word # <<>>
  /\ pc = "lower" =>
       /\ reg.r12 \in 0 .. Len(P!Word) /\ Len(P!Word) \in 0 .. MAX_WORDLEN
       /\ \A k \in 1 .. Len(P!Word) :
            buffer[k - 1] = (IF k <= reg.r12 THEN LowWord[k] ELSE P!Word[k]) /\ P!Word[k] # 0
       /\ buffer[Len(P!Word)] = 0
  /\ pc \in {"lowered", "trim"} => Holds(LowWord)
  /\ pc = "trim" =>
       /\ reg.r12 \in 1 .. Len(LowWord)
       /\ \A k \in reg.r12 + 1 .. Len(LowWord) : ~P!wc_isalpha(LowWord[k])
  /\ pc \in Spelled => Holds(P!CountedWord)

\* Whether an entry of a word is in its chain.
Absent(w) == \A k \in DOMAIN buckets[Home] : buckets[Home][k].word # w

\* What has been found, or made.
Outcome ==
  \/ /\ stack[1] = 0 /\ reg.rax \in DOMAIN buckets[Home]
     /\ buckets[Home][reg.rax].word = P!CountedWord
  \/ /\ stack[1] = 1 /\ reg.rax = 1 /\ Absent(P!CountedWord)
     /\ node = [word |-> P!CountedWord, count |-> 0]

\* The chain has the entry, which may be new.
HasEntry ==
  /\ reg.rax \in DOMAIN buckets[Home] /\ buckets[Home][reg.rax].word = P!CountedWord
  /\ \/ Counted(buckets[Home]) = buckets[Home]
     \/ /\ reg.rax = 1 /\ buckets[Home][1] = [word |-> P!CountedWord, count |-> 0]
        /\ Counted(buckets[Home]) = Tail(buckets[Home])
        /\ \A k \in 2 .. Len(buckets[Home]) : buckets[Home][k].word # P!CountedWord

\* Where the entry of the word is looked for; at most that entry is new.
Entering ==
  /\ pc # "entered" => \A b \in DOMAIN buckets : Counted(buckets[b]) = buckets[b]
  /\ pc = "entered" => /\ HasEntry
                       /\ \A b \in DOMAIN buckets : b # Home => Counted(buckets[b]) = buckets[b]
  /\ pc \in {"dict", "inserted"} => reg.r12 = Home
  /\ pc \in {"chain", "find_done"} => stack[11] = Home
  /\ pc = "chain" =>
       /\ reg.r12 \in 0 .. Len(buckets[Home])
       /\ \A k \in DOMAIN buckets[Home] :
            (reg.r12 = 0 \/ k < reg.r12) => buckets[Home][k].word # P!CountedWord
  /\ pc \in {"find_done", "inserted"} => Outcome

\* Strings without a terminator.
Clean(w) == \A k \in DOMAIN w : w[k] # 0

\* No word of the table has one, nor the best so far.
AllClean ==
  /\ \A b \in DOMAIN buckets : \A k \in DOMAIN buckets[b] : Clean(buckets[b][k].word)
  /\ Clean(best_word)

\* The chains without a new entry are a table of WordCount.
PInv == P!Table

-----------------------------------------------------------------------------
(* Strings, characters and hash codes.                                     *)

\* What AsmWordCount assumes is enough for WordCount.
LEMMA Assumed ==
  /\ P!WordAssumption
  /\ Inputs \subseteq P!Strings /\ MAX_WORDLEN \in Nat \ {0} /\ HASHTABLE_SIZE \in Nat \ {0}
  /\ HASHCODES \in Nat \ {0}
BY WordAssumption, Zenon DEF P!WordAssumption, P!Strings, P!Bytes

\* The bytes of a string.
LEMMA StringIs ==
  ASSUME NEW w \in P!Strings
  PROVE  Len(w) \in Nat /\ DOMAIN w = 1 .. Len(w) /\ \A k \in 1 .. Len(w) : w[k] \in 0 .. 255
<1>1. w \in Seq(0 .. 255)
  BY Zenon DEF P!Strings, P!Bytes
<1> QED
  BY <1>1, LenProperties, ElementOfSeq

\* Strings with the same bytes.
LEMMA SameString ==
  ASSUME NEW v \in P!Strings, NEW w \in P!Strings, Len(v) = Len(w),
         \A k \in 1 .. Len(w) : v[k] = w[k]
  PROVE  v = w
<1>1. v \in Seq(0 .. 255) /\ w \in Seq(0 .. 255)
  BY Zenon DEF P!Strings, P!Bytes
<1> QED
  BY <1>1, SeqEqual

\* wc_isspace in assembly is wc_isspace in C.
LEMMA SpaceSame == \A c \in Int : wc_isspace(c) <=> P!wc_isspace(c)
BY DEF wc_isspace, P!wc_isspace

\* wc_isalpha in assembly is wc_isalpha in C.
LEMMA AlphaSame == \A c \in Int : wc_isalpha(c) <=> P!wc_isalpha(c)
BY DEF wc_isalpha, P!wc_isalpha

\* There is one remainder.
LEMMA ModIs ==
  ASSUME NEW m \in Nat \ {0}, NEW n \in Int, NEW v \in 0 .. m - 1
  PROVE  (m * n + v) % m = v
<1> DEFINE x == m * n + v
           p == x \div m
           r == x % m
           d == n - p
<1>1. x \in Int
  OBVIOUS
<1>2. p \in Int /\ r \in 0 .. m - 1 /\ x = m * p + r
  <2> HIDE DEF x
  <2> QED
    BY <1>1
<1>3. m * d = r - v
  <2> HIDE DEF p, r
  <2> QED
    BY <1>2
<1>4. d \in Int /\ r - v \in Int /\ r - v < m /\ r - v > 0 - m
  <2> HIDE DEF p, r
  <2> QED
    BY <1>2
<1> HIDE DEF d
<1>5. ~(d >= 1)
  <2> SUFFICES ASSUME d >= 1 PROVE FALSE
    OBVIOUS
  <2>1. m * d >= m
    BY <1>4
  <2> QED
    BY <1>3, <1>4, <2>1
<1>6. ~(d <= 0 - 1)
  <2> SUFFICES ASSUME d <= 0 - 1 PROVE FALSE
    OBVIOUS
  <2>1. m * d <= 0 - m
    BY <1>4
  <2> QED
    BY <1>3, <1>4, <2>1
<1>7. d = 0
  BY <1>4, <1>5, <1>6
<1>8. r = v
  <2>1. n = p
    <3> HIDE DEF p
    <3> QED
      BY <1>2, <1>7 DEF d
  <2> HIDE DEF p, r
  <2> QED
    BY <1>2, <2>1
<1> QED
  BY <1>8

\* A remainder may be taken early.
LEMMA ModTwice ==
  ASSUME NEW a \in Nat, NEW b \in Nat, NEW m \in Nat \ {0}
  PROVE  ((a % m) + b) % m = (a + b) % m
<1> DEFINE q == a \div m
           r == a % m
           u == (r + b) \div m
           v == (r + b) % m
<1>1. q \in Int /\ r \in 0 .. m - 1 /\ a = m * q + r
  OBVIOUS
<1> HIDE DEF q, r
<1>2. u \in Int /\ v \in 0 .. m - 1 /\ r + b = m * u + v
  BY <1>1
<1>3. a + b = m * (q + u) + v
  <2> HIDE DEF u, v
  <2> QED
    BY <1>1, <1>2
<1> HIDE DEF u, v
<1>4. (a + b) % m = v
  <2> DEFINE n == q + u
  <2>1. n \in Int
    BY <1>1, <1>2
  <2> HIDE DEF n
  <2>2. (m * n + v) % m = v
    BY <1>2, <2>1, ModIs
  <2> QED
    BY <1>3, <2>2 DEF n
<1> QED
  BY <1>4 DEF r, v

\* mull and addl compute the hash code of the functions in C.
LEMMA HashSame ==
  ASSUME NEW w \in P!Strings
  PROVE  wc_hash(w) = P!wc_hash(w)
<1>1. Len(w) \in Nat /\ \A k \in 1 .. Len(w) : w[k] \in 0 .. 255
  BY StringIs
<1>2. w \in Seq(Nat)
  <2>1. w \in Seq(0 .. 255)
    BY Zenon DEF P!Strings, P!Bytes
  <2>2. 0 .. 255 \subseteq Nat
    OBVIOUS
  <2> QED
    BY <2>1, <2>2, SeqMonotonic
<1>3. PICK c \in [0 .. Len(w) -> P!Codes] :
        P!CodesOf(c, w, Len(w)) /\ P!wc_hash(w) = c[Len(w)]
  BY <1>2, Assumed, P!HashIs
<1> DEFINE Asm(eax) == eax = [k \in 0 .. Len(w) |->
                               IF k = 0 THEN 5381 % HASHCODES
                               ELSE (((eax[k - 1] * 33) % HASHCODES) + w[k]) % HASHCODES]
           h == CHOOSE eax : Asm(eax)
<1>4. ASSUME NEW k \in 1 .. Len(w)
      PROVE  c[k] = (((c[k - 1] * 33) % HASHCODES) + w[k]) % HASHCODES
  <2>1. c[k] = (c[k - 1] * 33 + w[k]) % HASHCODES
    BY <1>3, <1>4 DEF P!CodesOf
  <2>2. c[k - 1] \in Nat /\ w[k] \in Nat
    <3>1. k - 1 \in 0 .. Len(w)
      BY <1>1, <1>4
    <3>2. c[k - 1] \in P!Codes
      BY <1>3, <3>1
    <3> QED
      <4>1. c[k - 1] \in 0 .. HASHCODES - 1
        BY <3>2, Zenon DEF P!Codes
      <4>2. w[k] \in 0 .. 255
        BY <1>1
      <4>3. HASHCODES \in Nat
        BY Assumed
      <4>4. \A x \in 0 .. HASHCODES - 1 : x \in Nat
        BY <4>3
      <4>5. \A x \in 0 .. 255 : x \in Nat
        OBVIOUS
      <4> QED
        BY <4>1, <4>2, <4>4, <4>5, Zenon
  <2> DEFINE a == c[k - 1] * 33
             b == w[k]
  <2>3. a \in Nat /\ b \in Nat
    BY <2>2
  <2> HIDE DEF a, b
  <2>4. ((a % HASHCODES) + b) % HASHCODES = (a + b) % HASHCODES
    BY <2>3, Assumed, ModTwice
  <2> QED
    BY <2>1, <2>4 DEF a, b
<1>5. Asm(c)
  BY <1>1, <1>3, <1>4 DEF P!CodesOf
<1>6. Asm(h)
  <2> HIDE DEF Asm
  <2> QED
    BY <1>5
<1>7. wc_hash(w) = h[Len(w)]
  BY DEF wc_hash
<1> HIDE DEF h
<1> DEFINE S == {k \in Nat : k \in 0 .. Len(w) => h[k] = c[k]}
<1>8. 0 \in S
  BY <1>1, <1>3, <1>6 DEF P!CodesOf
<1>9. ASSUME NEW k \in 0 .. Len(w) - 1, k \in S PROVE k + 1 \in S
  <2>1. k + 1 \in 1 .. Len(w) /\ k + 1 \in 0 .. Len(w) /\ k \in 0 .. Len(w) /\ (k + 1) - 1 = k
        /\ k + 1 # 0 /\ k + 1 \in Nat
    BY <1>1
  <2>2. h[k + 1] = (((h[(k + 1) - 1] * 33) % HASHCODES) + w[k + 1]) % HASHCODES
    BY <1>6, <2>1
  <2>3. c[k + 1] = (((c[(k + 1) - 1] * 33) % HASHCODES) + w[k + 1]) % HASHCODES
    BY <1>4, <2>1
  <2>4. h[k] = c[k]
    BY <1>9, <2>1
  <2> QED
    BY <2>1, <2>2, <2>3, <2>4
<1>10. \A k \in 0 .. Len(w) : k \in S
  <2> HIDE DEF S
  <2> QED
    BY <1>1, <1>8, <1>9, P!Climb
<1>11. h[Len(w)] = c[Len(w)]
  BY <1>1, <1>10
<1> QED
  BY <1>3, <1>7, <1>11

\* The string in the buffer.
LEMMA HeldIs ==
  ASSUME buffer \in [0 .. MAX_WORDLEN -> 0 .. 255], NEW w \in P!Strings, Holds(w)
  PROVE  End = Len(w) /\ String = w /\ Len(w) \in Nat /\ Len(w) \in 0 .. MAX_WORDLEN
<1>1. /\ Len(w) \in Nat /\ Len(w) \in 0 .. MAX_WORDLEN /\ MAX_WORDLEN \in Nat
      /\ DOMAIN buffer = 0 .. MAX_WORDLEN
      /\ \A k \in 1 .. Len(w) : buffer[k - 1] = w[k] /\ w[k] # 0
      /\ buffer[Len(w)] = 0
  BY StringIs, Assumed DEF Holds
<1> DEFINE Q(k) == buffer[k] = 0 /\ \A j \in 0 .. k - 1 : buffer[j] # 0
<1>2. \A j \in 0 .. Len(w) - 1 : buffer[j] # 0
  <2> SUFFICES ASSUME NEW j \in 0 .. Len(w) - 1 PROVE buffer[j] # 0
    OBVIOUS
  <2>1. j + 1 \in 1 .. Len(w) /\ (j + 1) - 1 = j
    BY <1>1
  <2> QED
    BY <1>1, <2>1
<1>3. \A k \in 0 .. MAX_WORDLEN : Q(k) => k = Len(w)
  <2> SUFFICES ASSUME NEW k \in 0 .. MAX_WORDLEN, Q(k) PROVE k = Len(w)
    OBVIOUS
  <2>1. ~(k < Len(w))
    BY <1>1, <1>2
  <2>2. ~(Len(w) < k)
    BY <1>1
  <2> QED
    BY <1>1, <2>1, <2>2
<1>4. Q(Len(w))
  BY <1>1, <1>2
<1>5. End = CHOOSE k \in DOMAIN buffer : Q(k)
  BY DEF End
<1> HIDE DEF Q
<1>6. End = Len(w)
  BY <1>1, <1>3, <1>4, <1>5
<1>7. String = w
  <2>1. String = [k \in 1 .. Len(w) |-> buffer[k - 1]]
    BY <1>6 DEF String
  <2>2. \A k \in 1 .. Len(w) : buffer[k - 1] = w[k]
    BY <1>1
  <2>3. w = [k \in 1 .. Len(w) |-> w[k]]
    <3>1. w \in Seq(0 .. 255)
      BY Zenon DEF P!Strings, P!Bytes
    <3> QED
      BY <3>1, LenProperties
  <2> QED
    BY <2>1, <2>2, <2>3
<1> QED
  BY <1>1, <1>6, <1>7

\* The chain of the string in the buffer.
LEMMA HomeIs ==
  ASSUME buffer \in [0 .. MAX_WORDLEN -> 0 .. 255], NEW w \in P!Strings, Holds(w)
  PROVE  Home = P!Bucket(w) /\ Home \in 0 .. HASHTABLE_SIZE - 1
<1>1. String = w
  BY HeldIs
<1>2. Home = P!Bucket(w)
  BY <1>1, HashSame DEF Home, P!Bucket
<1> QED
  BY <1>2, Assumed, P!BucketIs

\* The bytes of a string as a pointer meets them, up to its terminator.
LEMMA BytesOf ==
  ASSUME NEW s \in P!Strings, Clean(s), NEW k \in Nat, k >= 1
  PROVE  ByteAt(s, k) \in 0 .. 255 /\ (ByteAt(s, k) = 0 <=> k > Len(s))
         /\ (k <= Len(s) => ByteAt(s, k) = s[k])
<1>1. Len(s) \in Nat /\ DOMAIN s = 1 .. Len(s) /\ \A j \in 1 .. Len(s) : s[j] \in 0 .. 255
  BY StringIs
<1>2. CASE k <= Len(s)
  <2>1. k \in 1 .. Len(s)
    BY <1>1, <1>2
  <2> QED
    BY <1>1, <1>2, <2>1 DEF ByteAt, Clean
<1>3. CASE ~(k <= Len(s))
  BY <1>1, <1>3 DEF ByteAt
<1> QED
  BY <1>2, <1>3

\* wc_str_compare compares.
LEMMA CompareIs ==
  ASSUME NEW s \in P!Strings, NEW t \in P!Strings, Clean(s), Clean(t)
  PROVE  /\ wc_str_compare(s, t) = 0 <=> s = t
         /\ wc_str_compare(s, t) < 0 <=> P!Less(s, t)
<1> DEFINE Q(k) == /\ ByteAt(s, k) # ByteAt(t, k) \/ ByteAt(s, k) = 0
                   /\ \A j \in 1 .. k - 1 : ByteAt(s, j) = ByteAt(t, j)
           last == CHOOSE k \in 1 .. Len(s) + 1 : Q(k)
<1>1. Len(s) \in Nat /\ Len(t) \in Nat
  BY StringIs
<1>2. \A k \in Nat : k >= 1 =>
        /\ ByteAt(s, k) \in 0 .. 255 /\ (ByteAt(s, k) = 0 <=> k > Len(s))
        /\ (k <= Len(s) => ByteAt(s, k) = s[k])
        /\ ByteAt(t, k) \in 0 .. 255 /\ (ByteAt(t, k) = 0 <=> k > Len(t))
        /\ (k <= Len(t) => ByteAt(t, k) = t[k])
  BY BytesOf
<1>3. \E k \in 1 .. Len(s) + 1 : Q(k)
  <2> DEFINE D == {k \in 1 .. Len(s) + 1 : ByteAt(s, k) # ByteAt(t, k) \/ ByteAt(s, k) = 0}
  <2>1. D \subseteq Nat
    BY <1>1
  <2>2. Len(s) + 1 \in D
    BY <1>1, <1>2
  <2>3. PICK m \in D : \A k \in D : m <= k
    <3> HIDE DEF D
    <3> QED
      BY <2>1, <2>2, P!LeastIs
  <2>4. m \in 1 .. Len(s) + 1 /\ (ByteAt(s, m) # ByteAt(t, m) \/ ByteAt(s, m) = 0)
    BY <2>3
  <2>5. ASSUME NEW j \in 1 .. m - 1 PROVE ByteAt(s, j) = ByteAt(t, j)
    <3>1. j \in 1 .. Len(s) + 1 /\ ~(m <= j)
      BY <1>1, <2>4
    <3>2. j \notin D
      BY <2>3, <3>1
    <3> QED
      BY <3>1, <3>2
  <2> QED
    BY <2>4, <2>5
<1>4. last \in 1 .. Len(s) + 1 /\ Q(last)
  <2> HIDE DEF Q
  <2> QED
    BY <1>3
<1>5. wc_str_compare(s, t) = ByteAt(s, last) - ByteAt(t, last)
  BY DEF wc_str_compare
<1> HIDE DEF last, Q
<1>6. /\ last \in Nat /\ last >= 1 /\ last <= Len(s) + 1
      /\ ByteAt(s, last) # ByteAt(t, last) \/ ByteAt(s, last) = 0
      /\ \A j \in 1 .. last - 1 : ByteAt(s, j) = ByteAt(t, j)
  BY <1>1, <1>4 DEF Q
<1> DEFINE x == ByteAt(s, last)
           y == ByteAt(t, last)
<1>7. /\ x \in 0 .. 255 /\ (x = 0 <=> last > Len(s)) /\ (last <= Len(s) => x = s[last])
      /\ y \in 0 .. 255 /\ (y = 0 <=> last > Len(t)) /\ (last <= Len(t) => y = t[last])
      /\ (x # y \/ x = 0) /\ wc_str_compare(s, t) = x - y
  BY <1>2, <1>5, <1>6
<1> HIDE DEF x, y
<1>8. ASSUME x = y PROVE s = t
  <2>1. last > Len(s) /\ last > Len(t)
    BY <1>7, <1>8
  <2>2. last = Len(s) + 1
    BY <1>1, <1>6, <2>1
  <2>3. ~(Len(t) < Len(s))
    <3> SUFFICES ASSUME Len(t) < Len(s) PROVE FALSE
      OBVIOUS
    <3>1. Len(s) \in 1 .. last - 1 /\ Len(s) \in Nat /\ Len(s) >= 1
      BY <1>1, <2>2
    <3>2. ByteAt(s, Len(s)) = ByteAt(t, Len(s))
      BY <1>6, <3>1
    <3>3. ByteAt(s, Len(s)) # 0 /\ ByteAt(t, Len(s)) = 0
      BY <1>1, <1>2, <3>1
    <3> QED
      BY <3>2, <3>3
  <2>4. Len(s) = Len(t)
    BY <1>1, <2>1, <2>2, <2>3
  <2>5. ASSUME NEW k \in 1 .. Len(t) PROVE s[k] = t[k]
    <3>1. k \in 1 .. last - 1 /\ k \in Nat /\ k >= 1 /\ k <= Len(s) /\ k <= Len(t)
      BY <1>1, <2>2, <2>4
    <3> QED
      BY <1>2, <1>6, <3>1
  <2> QED
    BY <2>4, <2>5, SameString
<1>9. ASSUME s = t PROVE x = y
  BY <1>9 DEF x, y
<1>10. ASSUME x < y PROVE P!Less(s, t)
  <2>1. last \in 1 .. Len(t)
    <3>1. y # 0 /\ last \in Nat /\ last >= 1
      BY <1>1, <1>6, <1>7, <1>10
    <3>2. last <= Len(t)
      BY <1>1, <1>7, <3>1
    <3> QED
      BY <1>1, <3>1, <3>2
  <2>2. ASSUME NEW j \in 1 .. last - 1 PROVE j <= Len(s) /\ s[j] = t[j]
    <3>1. j \in Nat /\ j >= 1 /\ j <= Len(s) /\ j <= Len(t)
      BY <1>1, <1>6, <2>1
    <3> QED
      BY <1>2, <1>6, <2>2, <3>1
  <2>3. last > Len(s) \/ s[last] < t[last]
    BY <1>1, <1>6, <1>7, <1>10, <2>1
  <2> QED
    BY <2>1, <2>2, <2>3 DEF P!Less
<1>11. ASSUME P!Less(s, t) PROVE x < y
  <2>1. PICK k \in 1 .. Len(t) : /\ \A j \in 1 .. k - 1 : j <= Len(s) /\ s[j] = t[j]
                                 /\ k > Len(s) \/ s[k] < t[k]
    BY <1>11 DEF P!Less
  <2>2. k \in Nat /\ k >= 1 /\ k <= Len(t)
    BY <1>1
  <2> DEFINE a == ByteAt(s, k)
             b == ByteAt(t, k)
  <2>3. /\ a \in 0 .. 255 /\ (a = 0 <=> k > Len(s))
        /\ (k <= Len(s) => a = s[k])
        /\ b \in 0 .. 255 /\ b # 0 /\ b = t[k]
    BY <1>1, <1>2, <2>2
  <2> HIDE DEF a, b
  <2>4. a < b
    <3>1. CASE k > Len(s)
      <4>1. a = 0
        BY <2>3, <3>1
      <4>2. b \in 0 .. 255 /\ b # 0
        BY <2>3
      <4> QED
        BY <4>1, <4>2
    <3>2. CASE k <= Len(s)
      <4>1. s[k] < t[k]
        BY <1>1, <2>1, <2>2, <3>2
      <4> QED
        BY <2>3, <3>2, <4>1
    <3> QED
      BY <1>1, <2>2, <3>1, <3>2
  <2>5. ~(last < k)
    <3> SUFFICES ASSUME last < k PROVE FALSE
      OBVIOUS
    <3>1. last \in 1 .. k - 1 /\ last <= Len(t)
      BY <1>1, <1>6, <2>2
    <3>2. last <= Len(s) /\ s[last] = t[last]
      BY <2>1, <3>1
    <3> QED
      BY <1>1, <1>6, <1>7, <3>1, <3>2
  <2>6. ~(k < last)
    <3> SUFFICES ASSUME k < last PROVE FALSE
      OBVIOUS
    <3>1. k \in 1 .. last - 1
      BY <1>6, <2>2
    <3>2. a = b
      BY <1>6, <3>1 DEF a, b
    <3> QED
      BY <2>3, <2>4, <3>2
  <2>7. k = last
    BY <1>6, <2>2, <2>5, <2>6
  <2> QED
    BY <2>4, <2>7 DEF x, y, a, b
<1> QED
  BY <1>7, <1>8, <1>9, <1>10, <1>11

-----------------------------------------------------------------------------
(* The places, and the stream.                                             *)

\* Where the program goes from each place.
LEMMA Places ==
  ASSUME Calls
  PROVE  /\ CallRead     => pc = "main" /\ pc' = "skip_blanks"
         /\ SkipBlank    => pc = "skip_blanks" /\ pc' \in {"no_word", "skip_blanks", "store"}
         /\ Store        => pc = "store" /\ pc' \in {"store", "word_read"}
         /\ StoreFull    => pc = "store" /\ pc' = "word_read"
         /\ ReturnWord   => pc = "word_read" /\ pc' = "got_word" /\ reg'["rax"] = 1
         /\ ReturnNoWord => pc = "no_word" /\ pc' = "got_word" /\ reg'["rax"] = 0
         /\ GotWord      => pc = "got_word" /\ pc' \in {"search", "main", "lower"}
         /\ Lower        => pc = "lower" /\ pc' = "lower"
         /\ Lowered      => pc = "lower" /\ pc' = "lowered"
         /\ CallTrim     => pc = "lowered" /\ pc' \in {"trim", "trim_done"}
         /\ Trim         => pc = "trim" /\ pc' \in {"trim", "trim_done"}
         /\ Trimmed      => pc = "trim_done" /\ pc' = "trimmed"
         /\ CallDict     => pc = "trimmed" /\ pc' = "dict"
         /\ CallFind     => pc = "dict" /\ pc' = "chain"
         /\ Compare      => pc = "chain" /\ pc' \in {"chain", "find_done"}
         /\ Prepend      => pc = "chain" /\ pc' = "find_done"
         /\ Found        => pc = "find_done" /\ pc' = "inserted"
         /\ Inserted     => pc = "inserted" /\ pc' = "entered"
         /\ Entered      => pc = "entered" /\ pc' = "main"
         /\ Search       => pc = "search" /\ pc' = "search"
         /\ Report       => pc = "search" /\ pc' = "next_chain"
         /\ CallFree     => pc = "next_chain" /\ pc' = "free"
         /\ Free         => pc = "free" /\ pc' = "free"
         /\ Freed        => pc = "free" /\ pc' = "next_chain"
         /\ Exit         => pc = "next_chain" /\ pc' = "exit"
<1>1. /\ CallRead => pc = "main" /\ pc' = "skip_blanks"
      /\ StoreFull => pc = "store" /\ pc' = "word_read"
      /\ Lower => pc = "lower" /\ pc' = "lower"
      /\ CallDict => pc = "trimmed" /\ pc' = "dict"
      /\ CallFind => pc = "dict" /\ pc' = "chain"
      /\ Prepend => pc = "chain" /\ pc' = "find_done"
      /\ Entered => pc = "entered" /\ pc' = "main"
      /\ Report => pc = "search" /\ pc' = "next_chain"
      /\ CallFree => pc = "next_chain" /\ pc' = "free"
      /\ Free => pc = "free" /\ pc' = "free"
      /\ Exit => pc = "next_chain" /\ pc' = "exit"
  BY Zenon DEF CallRead, StoreFull, Lower, CallDict, CallFind, Prepend, Entered, Report,
               CallFree, Free, Exit
<1>2. SkipBlank => pc = "skip_blanks" /\ pc' \in {"no_word", "skip_blanks", "store"}
  BY Zenon DEF SkipBlank
<1>3. Store => pc = "store" /\ pc' \in {"store", "word_read"}
  BY Zenon DEF Store
<1>4. GotWord => pc = "got_word" /\ pc' \in {"search", "main", "lower"}
  BY Zenon DEF GotWord
<1>5. CallTrim => pc = "lowered" /\ pc' \in {"trim", "trim_done"}
  BY Zenon DEF CallTrim
<1>6. Trim => pc = "trim" /\ pc' \in {"trim", "trim_done"}
  BY Zenon DEF Trim
<1>7. Compare => pc = "chain" /\ pc' \in {"chain", "find_done"}
  BY Zenon DEF Compare
<1>8. Search => pc = "search" /\ pc' = "search"
  BY DEF Search, machine
<1>9. ReturnWord => pc = "word_read" /\ pc' = "got_word" /\ reg'["rax"] = 1
  BY CallsReturn DEF ReturnWord
<1>10. ReturnNoWord => pc = "no_word" /\ pc' = "got_word" /\ reg'["rax"] = 0
  BY CallsReturn DEF ReturnNoWord
<1>11. Lowered => pc = "lower" /\ pc' = "lowered"
  BY CallsReturn DEF Lowered
<1>12. Trimmed => pc = "trim_done" /\ pc' = "trimmed"
  BY CallsReturn DEF Trimmed
<1>13. Inserted => pc = "inserted" /\ pc' = "entered"
  BY CallsReturn DEF Inserted
<1>14. Freed => pc = "free" /\ pc' = "next_chain"
  BY CallsReturn DEF Freed
<1>15. Found => pc = "find_done" /\ pc' = "inserted"
  BY CallsFound DEF Found
<1> QED
  BY <1>1, <1>2, <1>3, <1>4, <1>5, <1>6, <1>7, <1>8, <1>9, <1>10, <1>11, <1>12, <1>13, <1>14, <1>15

\* The steps that do not go on in the stream, nor to another word.
Still ==
  \/ CallRead \/ StoreFull \/ ReturnWord \/ ReturnNoWord \/ Lower \/ Lowered
  \/ CallTrim \/ Trim \/ Trimmed \/ CallDict \/ CallFind \/ Compare \/ Prepend \/ Found
  \/ Inserted \/ Search \/ Report \/ CallFree \/ Free \/ Freed \/ Exit \/ Ended

\* They leave the stream alone.
LEMMA StillIs == Still => UNCHANGED <<input, from, pos>>
<1>1. CallRead \/ StoreFull \/ ReturnWord \/ ReturnNoWord \/ Lower \/ Lowered
        => UNCHANGED <<input, from, pos>>
  BY Zenon DEF CallRead, StoreFull, ReturnWord, ReturnNoWord, Lower, Lowered, Inside
<1>2. CallTrim \/ Trim \/ Trimmed \/ CallDict \/ CallFind => UNCHANGED <<input, from, pos>>
  BY Zenon DEF CallTrim, Trim, Trimmed, CallDict, CallFind, Inside
<1>3. Compare \/ Prepend \/ Found \/ Inserted \/ CallFree => UNCHANGED <<input, from, pos>>
  BY Zenon DEF Compare, Prepend, Found, Inserted, CallFree, Inside
<1>4. Search \/ Report \/ Free \/ Freed \/ Exit => UNCHANGED <<input, from, pos>>
  BY Zenon DEF Search, Report, Free, Freed, Exit, Inside
<1>5. Ended => UNCHANGED <<input, from, pos>>
  BY DEF Ended, vars
<1> QED
  BY <1>1, <1>2, <1>3, <1>4, <1>5 DEF Still

\* The word at hand stays what it is until the next one.
LEMMA SameWord ==
  ASSUME input' = input, from' = from
  PROVE  /\ P!Start' = P!Start /\ P!Stored' = P!Stored /\ P!After' = P!After
         /\ P!Word' = P!Word /\ P!CountedWord' = P!CountedWord /\ LowWord' = LowWord
         /\ HasWord' = HasWord
         /\ \A k : P!Char(k)' = P!Char(k) /\ P!AtEnd(k)' = P!AtEnd(k)
         /\ \A n : P!Stores(n)' = P!Stores(n)
         /\ \A k : Inner(k)' = Inner(k)
<1>1. \A k : P!Char(k)' = P!Char(k)
  BY DEF P!Char
<1>2. \A k : P!AtEnd(k)' = P!AtEnd(k)
  BY <1>1 DEF P!AtEnd
<1>3. P!Start' = P!Start
  BY <1>1 DEF P!Start
<1>4. P!Stored' = P!Stored
  BY <1>2, <1>3 DEF P!Stored
<1>5. P!After' = P!After
  BY <1>3, <1>4 DEF P!After
<1>6. P!Word' = P!Word
  BY <1>3, <1>4 DEF P!Word
<1>7. P!CountedWord' = P!CountedWord /\ LowWord' = LowWord
  BY <1>6 DEF P!CountedWord, LowWord
<1>8. HasWord' = HasWord
  BY <1>1, <1>3 DEF HasWord
<1>9. \A n : P!Stores(n)' = P!Stores(n)
  BY <1>2, <1>3 DEF P!Stores
<1>10. \A k : Inner(k)' = Inner(k)
  BY <1>2, <1>3 DEF Inner
<1> QED
  BY <1>1, <1>2, <1>3, <1>4, <1>5, <1>6, <1>7, <1>8, <1>9, <1>10

\* The stream from the point of view of WordCount.
LEMMA PlacedIs ==
  ASSUME Fetching
  PROVE  /\ P!Placed /\ input \in P!Strings /\ Len(input) \in Nat /\ pos \in Nat \ {0} /\ from \in Nat \ {0}
         /\ pos <= Len(input) + 1
         /\ \A k \in 1 .. Len(input) : input[k] \in 0 .. 255
         /\ \A k \in Nat : k > Len(input) => P!Char(k) = P!EOF
<1>1. P!Placed
  BY DEF Fetching, P!Placed
<1>2. /\ input \in P!Strings /\ Len(input) \in Nat /\ from \in Nat \ {0}
      /\ \A k \in 1 .. Len(input) : input[k] \in 0 .. 255
      /\ \A k \in Nat : k > Len(input) => P!Char(k) = P!EOF
  BY <1>1, Assumed, P!InputIs
<1>3. pos \in Nat \ {0} /\ pos <= Len(input) + 1
  BY <1>2 DEF Fetching
<1> QED
  BY <1>1, <1>2, <1>3

\* fgetc returns the next byte, or goes no further.
LEMMA FetchIs ==
  ASSUME Fetching, fgetc
  PROVE  /\ input' = input /\ from' = from /\ pos' \in 1 .. Len(input) + 1
         /\ Fetched \in 0 .. 255
         /\ Fetched = 255 <=> P!Char(pos) = P!EOF
         /\ Fetched = 255 \/ wc_isspace(Fetched) <=> P!AtEnd(pos)
         /\ Fetched # 255 => /\ pos' = pos + 1 /\ pos \in 1 .. Len(input)
                             /\ Fetched = input[pos] /\ P!Char(pos) = input[pos]
                             /\ (wc_isspace(Fetched) <=> P!wc_isspace(P!Char(pos)))
         /\ pos' = IF pos <= Len(input) THEN pos + 1 ELSE Len(input) + 1
<1>1. /\ Len(input) \in Nat /\ pos \in Nat \ {0} /\ pos <= Len(input) + 1
      /\ \A k \in 1 .. Len(input) : input[k] \in 0 .. 255
  BY PlacedIs
<1>2. input' = input /\ from' = from /\ pos' = IF pos <= Len(input) THEN pos + 1 ELSE pos
  BY DEF fgetc
<1>3. CASE pos <= Len(input) /\ input[pos] # 255
  <2> DEFINE c == input[pos]
  <2>1. pos \in 1 .. Len(input) /\ c \in 0 .. 255 /\ Fetched = c /\ P!Char(pos) = c
    BY <1>1, <1>3 DEF Fetched, P!Char
  <2> HIDE DEF c
  <2>2. c # 255
    BY <1>3 DEF c
  <2>3. c \in Int /\ c # 255
    BY <2>1, <2>2
  <2>4. wc_isspace(c) <=> P!wc_isspace(c)
    BY <2>3, SpaceSame
  <2>5. P!Char(pos) # P!EOF
    BY <2>1 DEF P!EOF
  <2>6. P!AtEnd(pos) <=> P!wc_isspace(c)
    BY <2>1, <2>5 DEF P!AtEnd
  <2> QED
    BY <1>1, <1>2, <1>3, <2>1, <2>3, <2>4, <2>5, <2>6 DEF c
<1>4. CASE ~(pos <= Len(input) /\ input[pos] # 255)
  <2>1. Fetched = 255
    BY <1>4 DEF Fetched
  <2>2. P!Char(pos) = P!EOF
    BY <1>1, <1>4 DEF P!Char
  <2>3. P!AtEnd(pos)
    BY <2>2 DEF P!AtEnd
  <2> QED
    BY <1>1, <1>2, <2>1, <2>2, <2>3
<1> QED
  BY <1>3, <1>4

-----------------------------------------------------------------------------
(* wc_readnext: the word gets into the buffer.                             *)

\* At the other places only the stream matters.
LEMMA FetchingAway ==
  ASSUME Fetching, UNCHANGED <<input, from, pos>>,
         pc' \notin {"main", "skip_blanks", "no_word", "store", "word_read", "got_word"}
  PROVE  Fetching'
BY DEF Fetching

\* The loop over whitespace keeps Fetching.
LEMMA FetchingSkip ==
  ASSUME Calls, Buffered, Fetching, CallRead \/ SkipBlank
  PROVE  Fetching'
<1>1. CASE CallRead
  <2>1. pc = "main" /\ pc' = "skip_blanks" /\ UNCHANGED <<input, from, pos>>
    BY <1>1, Zenon DEF CallRead, Inside
  <2>2. from = pos /\ pos \in Nat
    BY <2>1, PlacedIs DEF Fetching
  <2>3. from <= pos /\ \A j \in from .. pos - 1 : FALSE
    BY <2>2
  <2> QED
    BY <2>1, <2>3 DEF Fetching
<1>2. CASE SkipBlank
  <2>1. /\ pc = "skip_blanks" /\ fgetc
        /\ pc' = IF Fetched = 255 THEN "no_word"
                 ELSE IF wc_isspace(Fetched) THEN "skip_blanks" ELSE "store"
        /\ reg' = [reg EXCEPT !.r15 = Fetched]
    BY <1>2 DEF SkipBlank
  <2>2. /\ input' = input /\ from' = from /\ pos' \in 1 .. Len(input) + 1
        /\ Fetched = 255 <=> P!Char(pos) = P!EOF
        /\ Fetched = 255 \/ wc_isspace(Fetched) <=> P!AtEnd(pos)
        /\ Fetched # 255 => /\ pos' = pos + 1 /\ pos \in 1 .. Len(input)
                            /\ Fetched = input[pos] /\ P!Char(pos) = input[pos]
                            /\ (wc_isspace(Fetched) <=> P!wc_isspace(P!Char(pos)))
    BY <2>1, FetchIs
  <2>3. /\ from <= pos /\ \A j \in from .. pos - 1 : P!wc_isspace(P!Char(j))
        /\ from \in Nat \ {0} /\ pos \in Nat \ {0} /\ pos <= Len(input) + 1 /\ Len(input) \in Nat
    BY <2>1, PlacedIs DEF Fetching
  <2>4. /\ input \in Inputs /\ from \in 1 .. Len(input) + 1
    BY DEF Fetching
  <2>5. ASSUME ~P!wc_isspace(P!Char(pos)) PROVE P!Start = pos
    <3>1. P!Starts(pos)
      BY <2>3, <2>5 DEF P!Starts
    <3> QED
      BY <3>1, Assumed, PlacedIs, P!StartUnique
  <2>6. CASE Fetched = 255
    <3>1. P!Char(pos) = P!EOF /\ pc' = "no_word"
      BY <2>1, <2>2, <2>6
    <3>2. P!Start = pos
      BY <2>5, <3>1 DEF P!EOF, P!wc_isspace
    <3>3. ~HasWord
      BY <3>1, <3>2 DEF HasWord
    <3>4. ~HasWord'
      BY <2>2, <3>3, SameWord
    <3> QED
      BY <2>2, <2>4, <3>1, <3>4 DEF Fetching
  <2>7. CASE Fetched # 255 /\ wc_isspace(Fetched)
    <3>1. pc' = "skip_blanks" /\ pos' = pos + 1 /\ P!wc_isspace(P!Char(pos))
      BY <2>1, <2>2, <2>7
    <3>2. \A j \in from .. pos : P!wc_isspace(P!Char(j))
      BY <2>3, <3>1
    <3>3. from' <= pos' /\ \A j \in from' .. pos' - 1 : P!wc_isspace(P!Char(j))
      BY <2>2, <2>3, <3>1, <3>2
    <3>4. \A j : P!Char(j)' = P!Char(j)
      BY <2>2, SameWord
    <3>5. \A j : P!wc_isspace(P!Char(j))' = P!wc_isspace(P!Char(j))
      BY <3>4 DEF P!wc_isspace
    <3>6. \A j \in from' .. pos' - 1 : P!wc_isspace(P!Char(j))'
      BY <3>3, <3>5
    <3> QED
      BY <2>2, <2>4, <3>1, <3>3, <3>6 DEF Fetching
  <2>8. CASE Fetched # 255 /\ ~wc_isspace(Fetched)
    <3>1. /\ pc' = "store" /\ pos' = pos + 1 /\ pos \in 1 .. Len(input)
          /\ P!Char(pos) = input[pos] /\ Fetched = input[pos]
          /\ ~P!wc_isspace(P!Char(pos)) /\ ~P!AtEnd(pos) /\ P!Char(pos) # P!EOF
      BY <2>1, <2>2, <2>8
    <3>2. P!Start = pos
      BY <2>5, <3>1
    <3>3. HasWord
      BY <3>1, <3>2 DEF HasWord
    <3>4. reg'["r13"] = 0 /\ reg'["r15"] = Fetched
      <4>1. {"r13", "r15"} \subseteq DOMAIN reg
        BY DEF Calls, Registers
      <4>2. reg.r13 = 0
        BY <2>1 DEF Buffered
      <4> QED
        BY <2>1, <4>1, <4>2
    <3>5. /\ HasWord' /\ P!Start' = pos /\ \A k : P!AtEnd(k)' = P!AtEnd(k)
      BY <2>2, <3>2, <3>3, SameWord
    <3>6. pos' = P!Start' + reg'["r13"] + 1 /\ reg'["r15"] = input'[P!Start' + reg'["r13"]]
      BY <2>2, <2>3, <3>1, <3>4, <3>5
    <3>7. \A k \in 0 .. reg'["r13"] : k = 0
      BY <3>4
    <3>8. \A k \in 0 .. reg'["r13"] : Inner(k)'
      <4>1. Inner(0)
        BY <2>3, <3>1, <3>2 DEF Inner
      <4> QED
        BY <2>2, <3>7, <4>1, SameWord
    <3>9. Copied(reg.r13)'
      BY <3>4 DEF Copied
    <3> QED
      BY <2>2, <2>4, <3>1, <3>5, <3>6, <3>8, <3>9 DEF Fetching
  <2> QED
    BY <2>6, <2>7, <2>8
<1> QED
  BY <1>1, <1>2

\* A byte of the word is in the stream.
LEMMA InnerIs ==
  ASSUME Fetching, HasWord, NEW n \in Nat, Inner(n)
  PROVE  P!Start \in 1 .. Len(input) /\ P!Start + n \in 1 .. Len(input)
<1>1. /\ Len(input) \in Nat /\ P!Placed
      /\ \A k \in Nat : k > Len(input) => P!Char(k) = P!EOF
  BY PlacedIs
<1>2. P!Start \in 1 .. Len(input)
  BY <1>1, Assumed, P!StoredFits DEF HasWord
<1>3. P!Char(P!Start + n) # P!EOF
  BY DEF Inner, P!AtEnd
<1> QED
  BY <1>1, <1>2, <1>3

\* Where the word ends.
LEMMA AfterIs ==
  ASSUME Fetching, HasWord, NEW n, P!Stores(n)
  PROVE  /\ n = P!Stored /\ n \in 1 .. MAX_WORDLEN
         /\ P!After = IF P!Start + n <= Len(input) THEN P!Start + n + 1 ELSE Len(input) + 1
<1>1. P!Placed /\ P!Char(P!Start) # P!EOF /\ P!WordAssumption
  BY PlacedIs, Assumed DEF HasWord
<1>2. n = P!Stored
  BY <1>1, P!StoredUnique
<1> QED
  BY <1>1, <1>2, P!StoredFits

\* The loop that stores the bytes of a word keeps it.
LEMMA FetchingStore ==
  ASSUME Calls, Buffered, Fetching, Store \/ StoreFull
  PROVE  Fetching'
<1> DEFINE n == reg.r13
           s == P!Start
<1>1. pc = "store"
  BY DEF Store, StoreFull
<1>2. n = reg.r14 /\ n \in 0 .. MAX_WORDLEN /\ n \in Nat /\ MAX_WORDLEN \in Nat \ {0}
  BY <1>1, Assumed DEF Buffered
<1>3. /\ HasWord /\ pos = s + n + 1 /\ reg.r15 = input[s + n]
      /\ Copied(n) /\ \A k \in 0 .. n : Inner(k)
      /\ input \in Inputs /\ from \in 1 .. Len(input) + 1 /\ pos \in 1 .. Len(input) + 1
  BY <1>1 DEF Fetching
<1>4. s \in 1 .. Len(input) /\ s + n \in 1 .. Len(input) /\ Len(input) \in Nat
  BY <1>2, <1>3, InnerIs, PlacedIs
<1>5. \A k \in 1 .. n : ~P!AtEnd(s + k)
  <2>1. \A k \in 1 .. n : Inner(k)
    BY <1>2, <1>3
  <2> QED
    BY <2>1 DEF Inner
<1>6. CASE StoreFull
  <2>1. /\ reg.r14 >= MAX_WORDLEN /\ pc' = "word_read" /\ reg' = reg /\ buffer' = buffer
        /\ input' = input /\ from' = from /\ pos' = pos
    BY <1>6 DEF StoreFull, Inside
  <2>2. P!Stores(n)
    <3>1. n = MAX_WORDLEN /\ n \in 1 .. MAX_WORDLEN
      BY <1>2, <2>1
    <3>2. \A k \in 1 .. n - 1 : ~P!AtEnd(s + k)
      BY <1>2, <1>5
    <3> QED
      BY <3>1, <3>2 DEF P!Stores
  <2>3. pos = P!After
    <3>1. P!After = IF s + n <= Len(input) THEN s + n + 1 ELSE Len(input) + 1
      BY <1>3, <2>2, AfterIs
    <3> QED
      BY <1>2, <1>3, <1>4, <3>1
  <2>4. HasWord' /\ P!Stores(n)' /\ pos' = P!After' /\ P!Start' = s
    <3> HIDE DEF n
    <3>1. n' = n
      BY <2>1 DEF n
    <3>2. \A k : P!Stores(k)' = P!Stores(k)
      BY <2>1, SameWord
    <3>3. P!Stores(n)' = P!Stores(n)
      BY <2>1, <3>1, SameWord DEF P!Stores, P!AtEnd, P!Char
    <3> QED
      BY <1>3, <2>1, <2>2, <2>3, <3>3, SameWord
  <2>5. Copied(n)'
    BY <1>3, <2>1, <2>4 DEF Copied
  <2> QED
    BY <1>3, <2>1, <2>4, <2>5 DEF Fetching
<1>7. CASE Store
  <2>1. /\ n < MAX_WORDLEN /\ fgetc
        /\ buffer' = [buffer EXCEPT ![n] = reg.r15]
        /\ reg' = [reg EXCEPT !.r13 = @ + 1, !.r14 = @ + 1, !.r15 = Fetched]
        /\ pc' = IF Fetched = 255 \/ wc_isspace(Fetched) THEN "word_read" ELSE "store"
    BY <1>2, <1>7 DEF Store
  <2>2. reg'["r13"] = n + 1 /\ reg'["r15"] = Fetched
    <3>1. {"r13", "r14", "r15"} \subseteq DOMAIN reg
      BY DEF Calls, Registers
    <3> QED
      BY <2>1, <3>1
  <2>3. /\ input' = input /\ from' = from /\ pos' \in 1 .. Len(input) + 1
        /\ Fetched = 255 \/ wc_isspace(Fetched) <=> P!AtEnd(pos)
        /\ Fetched # 255 => pos' = pos + 1 /\ Fetched = input[pos]
        /\ pos' = IF pos <= Len(input) THEN pos + 1 ELSE Len(input) + 1
    BY <2>1, FetchIs
  <2>4. \A k \in 0 .. n : buffer'[k] = input[s + k]
    <3>1. buffer \in [0 .. MAX_WORDLEN -> 0 .. 255]
      BY DEF Buffered
    <3>2. buffer'[n] = input[s + n] /\ \A k \in 0 .. n - 1 : buffer'[k] = buffer[k]
      BY <1>2, <1>3, <2>1, <3>1
    <3>3. \A k \in 0 .. n - 1 : buffer[k] = input[s + k]
      BY <1>3 DEF Copied
    <3> QED
      BY <1>2, <3>2, <3>3
  <2> DEFINE m == n + 1
  <2>5. m \in 1 .. MAX_WORDLEN /\ m \in Nat /\ s + m = pos /\ reg'["r13"] = m /\ m - 1 = n
        /\ pos + 1 = s + m + 1
    <3>1. reg'["r13"] = m
      BY <2>2
    <3>2. s \in Nat /\ pos = s + n + 1
      BY <1>3, <1>4
    <3> HIDE DEF n, s
    <3>3. m \in 1 .. MAX_WORDLEN /\ m \in Nat
      BY <1>2, <2>1
    <3>4. s + m = pos /\ m - 1 = n /\ pos + 1 = s + m + 1
      BY <1>2, <3>2
    <3> QED
      BY <3>1, <3>3, <3>4
  <2> HIDE DEF m
  <2>6. P!Start' = s /\ HasWord' /\ \A k : Inner(k)' = Inner(k)
    BY <1>3, <2>3, SameWord
  <2>7. Copied(reg.r13)'
    BY <2>3, <2>4, <2>5, <2>6 DEF Copied
  <2>8. CASE P!AtEnd(pos)
    <3>1. pc' = "word_read"
      BY <2>1, <2>3, <2>8
    <3>2. P!Stores(m)
      <4>1. \A k \in 1 .. m - 1 : ~P!AtEnd(s + k)
        BY <1>5, <2>5
      <4>2. P!AtEnd(s + m)
        BY <2>5, <2>8
      <4> QED
        BY <2>5, <4>1, <4>2 DEF P!Stores
    <3>3. pos' = P!After
      <4>1. P!After = IF s + m <= Len(input) THEN s + m + 1 ELSE Len(input) + 1
        BY <1>3, <3>2, AfterIs
      <4> QED
        BY <2>3, <2>5, <4>1
    <3>4. P!Stores(reg.r13)'
      <4>1. \A k : P!Stores(k)' = P!Stores(k)
        BY <2>3, SameWord
      <4>2. P!Stores(m)
        BY <3>2
      <4> QED
        BY <2>3, <2>5, <3>2, SameWord DEF P!Stores, P!AtEnd, P!Char
    <3>5. pos' = P!After'
      BY <2>3, <3>3, SameWord
    <3> QED
      BY <1>3, <2>3, <2>6, <2>7, <3>1, <3>4, <3>5 DEF Fetching
  <2>9. CASE ~P!AtEnd(pos)
    <3>1. pc' = "store" /\ Fetched # 255 /\ pos' = pos + 1 /\ Fetched = input[pos]
      BY <2>1, <2>3, <2>9
    <3>2. \A k \in 0 .. m : Inner(k)
      <4>1. Inner(m)
        BY <2>5, <2>9 DEF Inner
      <4> QED
        BY <1>2, <1>3, <2>5, <4>1
    <3>3. \A k \in 0 .. reg'["r13"] : Inner(k)'
      BY <2>5, <2>6, <3>2
    <3>4. pos' = P!Start' + reg'["r13"] + 1 /\ reg'["r15"] = input'[P!Start' + reg'["r13"]]
      BY <2>2, <2>3, <2>5, <2>6, <3>1
    <3> QED
      BY <1>3, <2>3, <2>6, <2>7, <3>1, <3>3, <3>4 DEF Fetching
  <2> QED
    BY <2>8, <2>9
<1> QED
  BY <1>6, <1>7

\* With its terminator the word is complete.
LEMMA HoldsWord ==
  ASSUME Buffered, Fetching, pc = "word_read",
         buffer' = [buffer EXCEPT ![reg.r13] = 0], UNCHANGED <<input, from>>
  PROVE  Holds(P!Word)'
<1> DEFINE n == reg.r13
           w == P!Word
<1>1. HasWord /\ P!Stores(n) /\ Copied(n)
  BY DEF Fetching
<1>2. n = P!Stored /\ n \in 1 .. MAX_WORDLEN /\ MAX_WORDLEN \in Nat
  BY <1>1, AfterIs, Assumed
<1>3. /\ w \in P!Strings /\ Len(w) \in 0 .. n
      /\ \A k \in 1 .. Len(w) : w[k] = input[P!Start + k - 1] /\ w[k] # 0
      /\ Len(w) < n => input[P!Start + Len(w)] = 0
  BY <1>1, <1>2, Assumed, PlacedIs, P!WordIs DEF HasWord
<1>4. buffer \in [0 .. MAX_WORDLEN -> 0 .. 255] /\ P!Start \in Nat /\ Len(w) \in Nat
  <2>1. P!Start \in 1 .. Len(input) /\ Len(input) \in Nat
    BY <1>1, Assumed, PlacedIs, P!StoredFits DEF HasWord
  <2> QED
    BY <1>2, <1>3, <2>1, StringIs DEF Buffered
<1>5. buffer'[n] = 0 /\ \A k \in 0 .. n - 1 : buffer'[k] = input[P!Start + k]
  <2>1. \A k \in 0 .. n - 1 : buffer[k] = input[P!Start + k]
    BY <1>1 DEF Copied
  <2>2. n \in 0 .. MAX_WORDLEN /\ \A k \in 0 .. n - 1 : k \in 0 .. MAX_WORDLEN /\ k # n
    BY <1>2
  <2> QED
    BY <1>4, <2>1, <2>2
<1>6. P!Word' = w
  BY SameWord
<1> HIDE DEF w, n
<1>7. ASSUME NEW k \in 1 .. Len(w) PROVE buffer'[k - 1] = w[k] /\ w[k] # 0
  <2>1. k - 1 \in 0 .. n - 1 /\ P!Start + k - 1 = P!Start + (k - 1)
    BY <1>2, <1>3, <1>4
  <2> QED
    BY <1>3, <1>5, <2>1
<1>8. buffer'[Len(w)] = 0
  <2>1. CASE Len(w) < n
    <3>1. Len(w) \in 0 .. n - 1
      BY <1>2, <1>4, <2>1
    <3> QED
      BY <1>3, <1>5, <2>1, <3>1
  <2>2. CASE ~(Len(w) < n)
    <3>1. Len(w) = n
      BY <1>2, <1>3, <2>2
    <3> QED
      BY <1>5, <3>1
  <2> QED
    BY <2>1, <2>2
<1>9. Len(w) \in 0 .. MAX_WORDLEN
  BY <1>2, <1>3
<1> QED
  BY <1>6, <1>7, <1>8, <1>9 DEF Holds

\* The returns of wc_readnext keep Fetching.
LEMMA FetchingReturn ==
  ASSUME Calls, Buffered, Fetching, ReturnWord \/ ReturnNoWord
  PROVE  Fetching'
<1>1. CASE ReturnWord
  <2>1. /\ pc = "word_read" /\ pc' = "got_word" /\ reg'["rax"] = 1
        /\ buffer' = [buffer EXCEPT ![reg.r13] = 0] /\ UNCHANGED <<input, from, pos>>
    <3>1. buffer' = [buffer EXCEPT ![reg.r13] = 0] /\ UNCHANGED <<input, from, pos>>
      BY <1>1, Zenon DEF ReturnWord, Inside
    <3> QED
      BY <1>1, <3>1, Places
  <2>2. Holds(P!Word)'
    BY <2>1, HoldsWord
  <2>3. HasWord' /\ pos' = P!After'
    BY <2>1, SameWord DEF Fetching
  <2> QED
    BY <2>1, <2>2, <2>3 DEF Fetching
<1>2. CASE ReturnNoWord
  <2>1. pc = "no_word" /\ pc' = "got_word" /\ reg'["rax"] = 0
    BY <1>2, Places
  <2>2. UNCHANGED <<input, from, pos>>
    BY <1>2, Zenon DEF ReturnNoWord, Inside
  <2>3. ~HasWord'
    BY <2>1, <2>2, SameWord DEF Fetching
  <2> QED
    BY <2>1, <2>2, <2>3 DEF Fetching
<1> QED
  BY <1>1, <1>2

\* Every step keeps it.
LEMMA FetchingStep == Calls /\ Buffered /\ Fetching /\ [Next]_vars => Fetching'
<1> SUFFICES ASSUME Calls, Buffered, Fetching, [Next]_vars PROVE Fetching'
  OBVIOUS
<1>1. CASE CallRead \/ SkipBlank
  BY <1>1, FetchingSkip
<1>2. CASE Store \/ StoreFull
  BY <1>2, FetchingStore
<1>3. CASE ReturnWord \/ ReturnNoWord
  BY <1>3, FetchingReturn
<1>4. CASE GotWord
  <2>1. /\ input' = input /\ pos' = pos
        /\ \/ pc' \in {"search", "lower"} /\ from' = from
           \/ pc' = "main" /\ from' = pos
    BY <1>4, Zenon DEF GotWord
  <2>2. CASE pc' \in {"search", "lower"} /\ from' = from
    BY <2>1, <2>2, FetchingAway
  <2>3. CASE pc' = "main" /\ from' = pos
    BY <2>1, <2>3 DEF Fetching
  <2> QED
    BY <2>1, <2>2, <2>3
<1>5. CASE Entered
  <2>1. input' = input /\ pos' = pos /\ pc' = "main" /\ from' = pos
    BY <1>5, Zenon DEF Entered
  <2> QED
    BY <2>1 DEF Fetching
<1>6. CASE \/ Lower \/ Lowered \/ CallTrim \/ Trim \/ Trimmed \/ CallDict \/ CallFind \/ Compare
           \/ Prepend \/ Found \/ Inserted \/ Search \/ Report \/ CallFree \/ Free \/ Freed \/ Exit
  <2>1. UNCHANGED <<input, from, pos>>
    BY <1>6, StillIs, Zenon DEF Still
  <2>2. pc' \notin {"main", "skip_blanks", "no_word", "store", "word_read", "got_word"}
    BY <1>6, Places
  <2> QED
    BY <2>1, <2>2, FetchingAway
<1>7. CASE Ended \/ UNCHANGED vars
  <2>1. UNCHANGED <<input, from, pos, pc, reg, buffer>>
    BY <1>7 DEF Ended, vars, machine
  <2>2. /\ P!Start' = P!Start /\ HasWord' = HasWord /\ P!After' = P!After /\ P!Word' = P!Word
        /\ \A k : Inner(k)' = Inner(k) /\ P!Stores(k)' = P!Stores(k)
    BY <2>1, SameWord
  <2>3. Copied(reg.r13)' = Copied(reg.r13) /\ P!Stores(reg.r13)' = P!Stores(reg.r13)
    BY <2>1, <2>2, SameWord DEF Copied, P!Stores, P!AtEnd, P!Char
  <2>4. Holds(P!Word)' = Holds(P!Word)
    BY <2>1, <2>2 DEF Holds
  <2>5. \A j : P!wc_isspace(P!Char(j))' = P!wc_isspace(P!Char(j))
    BY <2>1 DEF P!wc_isspace, P!Char
  <2> QED
    BY <2>1, <2>2, <2>3, <2>4, <2>5 DEF Fetching
<1> QED
  BY <1>1, <1>2, <1>3, <1>4, <1>5, <1>6, <1>7 DEF Next, Step

\* It holds when main starts.
LEMMA FetchingInit == Init => Fetching
<1> SUFFICES ASSUME Init PROVE Fetching
  OBVIOUS
<1>1. input \in Inputs /\ pos = 1 /\ from = 1 /\ pc = "main"
  BY DEF Init
<1>2. input \in P!Strings
  BY <1>1, Assumed
<1>3. Len(input) \in Nat
  BY <1>2, StringIs
<1> QED
  BY <1>1, <1>3 DEF Fetching

-----------------------------------------------------------------------------
(* wc_tolower and wc_trim_non_alpha: the word is spelled.                  *)

\* The word at hand, in lower case, and trimmed.
LEMMA WordsAre ==
  ASSUME Fetching, HasWord
  PROVE  /\ P!Word \in P!Strings /\ LowWord \in P!Strings /\ P!CountedWord \in P!Strings
         /\ Len(P!Word) \in 0 .. MAX_WORDLEN /\ Len(P!Word) \in Nat /\ Len(LowWord) = Len(P!Word)
         /\ \A k \in 1 .. Len(P!Word) :
              /\ P!Word[k] \in 0 .. 255 /\ P!Word[k] # 0
              /\ LowWord[k] \in 0 .. 255 /\ LowWord[k] # 0
              /\ LowWord[k] = IF wc_isalpha(P!Word[k]) /\ P!Word[k] < 97
                              THEN (P!Word[k] + 32) % 256 ELSE P!Word[k]
         /\ P!CutAtLetter(P!CountedWord, LowWord)
<1> DEFINE w == P!Word
           u == LowWord
<1>1. P!WordAssumption /\ P!Placed /\ P!Char(P!Start) # P!EOF /\ MAX_WORDLEN \in Nat
  BY Assumed, PlacedIs DEF HasWord
<1>2. P!Stored \in 1 .. MAX_WORDLEN
  BY <1>1, P!StoredFits
<1>3. w \in P!Strings /\ Len(w) \in 0 .. P!Stored /\ \A k \in 1 .. Len(w) : w[k] # 0
  BY <1>1, P!WordIs
<1>4. u \in P!Strings /\ Len(u) = Len(w) /\ Len(w) \in Nat
      /\ \A k \in 1 .. Len(w) :
           u[k] = IF P!wc_isalpha(w[k]) /\ w[k] < 97 THEN w[k] + 32 ELSE w[k]
  BY <1>3, P!LowerIs DEF LowWord
<1>5. P!CutAtLetter(P!CountedWord, u)
  BY <1>4, P!TrimIs DEF P!CountedWord, LowWord
<1>6. P!CountedWord \in P!Strings
  BY <1>5 DEF P!CutAtLetter
<1> HIDE DEF w, u
<1>7. ASSUME NEW k \in 1 .. Len(w)
      PROVE  /\ w[k] \in 0 .. 255 /\ w[k] # 0 /\ u[k] \in 0 .. 255 /\ u[k] # 0
             /\ u[k] = IF wc_isalpha(w[k]) /\ w[k] < 97 THEN (w[k] + 32) % 256 ELSE w[k]
  <2> DEFINE c == w[k]
             d == u[k]
  <2>1. c \in 0 .. 255 /\ c # 0 /\ d = IF P!wc_isalpha(c) /\ c < 97 THEN c + 32 ELSE c
    BY <1>3, <1>4, <1>7, StringIs
  <2> HIDE DEF c, d
  <2>2. wc_isalpha(c) <=> P!wc_isalpha(c)
    <3>1. c \in Int
      BY <2>1
    <3> QED
      BY <3>1, AlphaSame
  <2>3. c < 97 => (c + 32) % 256 = c + 32 /\ c + 32 \in 0 .. 255 /\ c + 32 # 0
    BY <2>1
  <2>4. d \in 0 .. 255 /\ d # 0 /\ d = IF wc_isalpha(c) /\ c < 97 THEN (c + 32) % 256 ELSE c
    <3>1. CASE wc_isalpha(c) /\ c < 97
      BY <2>1, <2>2, <2>3, <3>1
    <3>2. CASE ~(wc_isalpha(c) /\ c < 97)
      BY <2>1, <2>2, <3>2
    <3> QED
      BY <3>1, <3>2
  <2> QED
    BY <2>1, <2>4 DEF c, d
<1>8. Len(w) \in 0 .. MAX_WORDLEN
  BY <1>1, <1>2, <1>3
<1> QED
  BY <1>3, <1>4, <1>5, <1>6, <1>7, <1>8 DEF w, u

\* A string without a terminator is one of the length at which the terminator is.
LEMMA HoldsSame ==
  ASSUME UNCHANGED <<input, from, buffer>>
  PROVE  /\ Holds(P!Word)' = Holds(P!Word) /\ Holds(LowWord)' = Holds(LowWord)
         /\ Holds(P!CountedWord)' = Holds(P!CountedWord)
BY SameWord DEF Holds

\* The word stays while it is looked up.
LEMMA SpellingAway ==
  ASSUME Spelling, pc \in Counting => UNCHANGED <<input, from, pos, buffer>>,
         \/ pc \in Spelled /\ pc' \in Spelled
         \/ pc' \notin Counting
  PROVE  Spelling'
<1>1. \A p : p \in Spelled => p \in Counting /\ p \notin {"lower", "lowered", "trim"}
  BY DEF Spelled, Counting
<1>2. CASE pc \in Spelled /\ pc' \in Spelled
  <2>1. UNCHANGED <<input, from, pos, buffer>> /\ Holds(P!CountedWord)
        /\ HasWord /\ pos = P!After /\ P!Word # <<>>
    BY <1>1, <1>2 DEF Spelling
  <2>2. Holds(P!CountedWord)' /\ HasWord' /\ pos' = P!After' /\ P!Word' # <<>>
    BY <2>1, HoldsSame, SameWord
  <2> QED
    BY <1>1, <1>2, <2>2 DEF Spelling
<1>3. CASE pc' \notin Counting
  <2>1. pc' \notin Spelled /\ pc' \notin {"lower", "lowered", "trim"}
    BY <1>1, <1>3 DEF Counting
  <2> QED
    BY <1>3, <2>1 DEF Spelling
<1> QED
  BY <1>2, <1>3

\* wc_tolower lowers the word, byte by byte.
LEMMA SpellingLower ==
  ASSUME Calls, Buffered, Fetching, Spelling, GotWord \/ Lower \/ Lowered
  PROVE  Spelling'
<1>1. buffer \in [0 .. MAX_WORDLEN -> 0 .. 255] /\ MAX_WORDLEN \in Nat
  BY Assumed DEF Buffered
<1>2. {"r12", "r13"} \subseteq DOMAIN reg
  BY DEF Calls, Registers
<1>3. CASE GotWord /\ pc' # "lower"
  <2>1. pc = "got_word" /\ pc' \in {"search", "main"}
    BY <1>3, Places
  <2>2. pc \notin Counting /\ pc' \notin Counting
    BY <2>1 DEF Counting
  <2> QED
    BY <2>2, SpellingAway
<1>4. CASE GotWord /\ pc' = "lower"
  <2>1. /\ pc = "got_word" /\ reg.rax # 0 /\ buffer[0] # 0 /\ reg' = [reg EXCEPT !.r12 = 0]
        /\ UNCHANGED <<input, from, pos, buffer>>
    <3>1. pc = "got_word" /\ UNCHANGED <<input, pos, buffer>>
      BY <1>4, Zenon DEF GotWord
    <3>2. reg.rax # 0 /\ buffer[0] # 0 /\ reg' = [reg EXCEPT !.r12 = 0] /\ from' = from
      BY <1>4 DEF GotWord
    <3> QED
      BY <3>1, <3>2
  <2>2. HasWord /\ pos = P!After /\ Holds(P!Word)
    BY <2>1 DEF Fetching
  <2> DEFINE w == P!Word
  <2>3. Len(w) \in 0 .. MAX_WORDLEN /\ Len(w) \in Nat
    BY <2>2, WordsAre
  <2>4. w # <<>>
    BY <2>1, <2>2, EmptySeq DEF Holds
  <2>5. reg'["r12"] = 0
    BY <1>2, <2>1
  <2>6. \A k \in 1 .. Len(w) : ~(k <= 0) /\ buffer[k - 1] = w[k] /\ w[k] # 0
    BY <2>2, <2>3 DEF Holds
  <2>7. buffer[Len(w)] = 0
    BY <2>2 DEF Holds
  <2>8. P!Word' = w /\ HasWord' /\ pos' = P!After' /\ LowWord' = LowWord
    BY <2>1, <2>2, SameWord
  <2> HIDE DEF w
  <2>9. 0 \in 0 .. Len(w)
    BY <2>3
  <2> QED
    BY <1>4, <2>1, <2>3, <2>4, <2>5, <2>6, <2>7, <2>8, <2>9 DEF Spelling, Spelled
<1> DEFINE w == P!Word
           u == LowWord
           r == reg.r12
<1>5. ASSUME pc = "lower"
      PROVE  /\ HasWord /\ pos = P!After /\ w # <<>>
             /\ r \in 0 .. Len(w) /\ Len(w) \in 0 .. MAX_WORDLEN /\ Len(w) \in Nat
             /\ \A k \in 1 .. Len(w) : buffer[k - 1] = (IF k <= r THEN u[k] ELSE w[k])
             /\ buffer[Len(w)] = 0
             /\ \A k \in 1 .. Len(w) :
                  /\ w[k] \in 0 .. 255 /\ w[k] # 0 /\ u[k] \in 0 .. 255 /\ u[k] # 0
                  /\ u[k] = IF wc_isalpha(w[k]) /\ w[k] < 97 THEN (w[k] + 32) % 256 ELSE w[k]
             /\ Len(u) = Len(w)
  <2>1. pc \in Counting
    BY <1>5 DEF Counting
  <2> QED
    BY <1>5, <2>1, WordsAre DEF Spelling
<1>6. CASE Lower
  <2>1. /\ pc = "lower" /\ pc' = "lower" /\ buffer[r] # 0
        /\ buffer' = [buffer EXCEPT ![r] = IF wc_isalpha(buffer[r]) /\ buffer[r] < 97
                                           THEN (buffer[r] + 32) % 256 ELSE buffer[r]]
        /\ reg' = [reg EXCEPT !.r13 = buffer[r], !.r12 = @ + 1]
        /\ UNCHANGED <<input, from, pos>>
    BY <1>6 DEF Lower, Inside
  <2>2. reg'["r12"] = r + 1
    BY <1>2, <2>1
  <2>3. P!Word' = w /\ HasWord' /\ pos' = P!After' /\ LowWord' = u
    BY <1>5, <2>1, SameWord
  <2>4. r \in 0 .. Len(w) - 1 /\ r + 1 \in 1 .. Len(w) /\ r \in 0 .. MAX_WORDLEN
    BY <1>1, <1>5, <2>1
  <2> HIDE DEF w, u, r
  <2>5. buffer[r] = w[r + 1]
    <3>1. ~(r + 1 <= r) /\ (r + 1) - 1 = r
      BY <2>4
    <3> QED
      BY <1>5, <2>1, <2>4, <3>1
  <2>6. buffer'[r] = u[r + 1] /\ \A j \in 0 .. MAX_WORDLEN : j # r => buffer'[j] = buffer[j]
    BY <1>1, <1>5, <2>1, <2>4, <2>5
  <2>7. ASSUME NEW k \in 1 .. Len(w)
        PROVE  buffer'[k - 1] = (IF k <= r + 1 THEN u[k] ELSE w[k]) /\ w[k] # 0
    <3>1. CASE k = r + 1
      BY <1>5, <2>1, <2>4, <2>6, <3>1
    <3>2. CASE k # r + 1
      <4>1. k - 1 \in 0 .. MAX_WORDLEN /\ k - 1 # r /\ (k <= r <=> k <= r + 1)
        BY <1>1, <1>5, <2>1, <2>4, <3>2
      <4> QED
        BY <1>5, <2>1, <2>6, <4>1
    <3> QED
      BY <3>1, <3>2
  <2>8. buffer'[Len(w)] = 0
    BY <1>5, <2>1, <2>4, <2>6
  <2>9. r + 1 \in 0 .. Len(w)
    BY <1>5, <2>1, <2>4
  <2> QED
    BY <1>5, <2>1, <2>2, <2>3, <2>7, <2>8, <2>9 DEF Spelling, Spelled
<1>7. CASE Lowered
  <2>1. pc = "lower" /\ pc' = "lowered"
    BY <1>7, Places
  <2>2. buffer[r] = 0 /\ UNCHANGED <<input, from, pos, buffer>>
    BY <1>7, Zenon DEF Lowered, Inside
  <2>3. P!Word' = w /\ HasWord' /\ pos' = P!After'
    BY <1>5, <2>1, <2>2, SameWord
  <2>4. Holds(u)
    <3> HIDE DEF w, u, r
    <3>1. r = Len(w)
      <4> SUFFICES ASSUME r # Len(w) PROVE FALSE
        OBVIOUS
      <4>1. r + 1 \in 1 .. Len(w) /\ ~(r + 1 <= r) /\ (r + 1) - 1 = r
        BY <1>5, <2>1
      <4> QED
        BY <1>5, <2>1, <2>2, <4>1
    <3>2. \A k \in 1 .. Len(u) : buffer[k - 1] = u[k] /\ u[k] # 0
      BY <1>5, <2>1, <3>1
    <3> QED
      BY <1>5, <2>1, <3>2 DEF Holds
  <2>5. Holds(LowWord)'
    BY <2>2, <2>4, HoldsSame
  <2> QED
    BY <1>5, <2>1, <2>3, <2>5 DEF Spelling, Spelled
<1> QED
  BY <1>3, <1>4, <1>6, <1>7

\* wc_trim_non_alpha goes back to the last letter, and ends the word there.
LEMMA SpellingTrim ==
  ASSUME Calls, Buffered, Fetching, Spelling, CallTrim \/ Trim
  PROVE  Spelling'
<1> DEFINE u == LowWord
           v == P!CountedWord
           r == reg.r12
<1>1. buffer \in [0 .. MAX_WORDLEN -> 0 .. 255] /\ MAX_WORDLEN \in Nat
  BY Assumed DEF Buffered
<1>2. {"r12", "r13"} \subseteq DOMAIN reg
  BY DEF Calls, Registers
<1>3. pc \in {"lowered", "trim"} /\ UNCHANGED <<input, from, pos>>
  BY Zenon DEF CallTrim, Trim, Inside
<1>4. HasWord /\ pos = P!After /\ P!Word # <<>> /\ Holds(u)
  BY <1>3 DEF Spelling, Counting
<1>5. /\ u \in P!Strings /\ v \in P!Strings /\ Len(u) \in 0 .. MAX_WORDLEN /\ Len(u) \in Nat
      /\ Len(u) # 0
      /\ \A k \in 1 .. Len(u) : u[k] \in 0 .. 255 /\ buffer[k - 1] = u[k] /\ u[k] # 0
      /\ buffer[Len(u)] = 0
      /\ P!CutAtLetter(v, u)
  <2>1. Len(P!Word) # 0
    <3>1. P!Word \in Seq(0 .. 255)
      BY <1>4, WordsAre, Zenon DEF P!Strings, P!Bytes
    <3> QED
      BY <1>4, <3>1, EmptySeq
  <2> QED
    BY <1>4, <2>1, WordsAre DEF Holds
<1>6. P!Word' = P!Word /\ HasWord' /\ pos' = P!After' /\ LowWord' = u /\ P!CountedWord' = v
  BY <1>3, <1>4, SameWord
<1>7. CASE CallTrim
  <2>1. End = Len(u)
    BY <1>1, <1>4, <1>5, HeldIs
  <2>2. pc' = "trim" /\ buffer' = buffer /\ reg'["r12"] = Len(u)
    <3>1. /\ buffer' = buffer /\ reg' = [reg EXCEPT !.r12 = End, !.r13 = 0]
          /\ pc' = IF End = 0 THEN "trim_done" ELSE "trim"
      BY <1>7 DEF CallTrim
    <3> QED
      BY <1>2, <1>5, <2>1, <3>1
  <2>3. Holds(LowWord)'
    BY <1>3, <1>4, <2>2, HoldsSame
  <2> HIDE DEF u
  <2>4. Len(u) \in 1 .. Len(u) /\ \A k \in Len(u) + 1 .. Len(u) : FALSE
    BY <1>5
  <2> QED
    BY <1>4, <1>6, <2>2, <2>3, <2>4 DEF Spelling, Spelled
<1>8. CASE Trim
  <2> DEFINE a == buffer[r - 1]
  <2>1. pc = "trim" /\ pc' \in {"trim", "trim_done"} /\ reg' = [reg EXCEPT !.r12 = @ - 1]
    BY <1>8, Zenon DEF Trim
  <2>2. \/ wc_isalpha(a) /\ buffer' = [buffer EXCEPT ![r - 1 + 1] = 0] /\ pc' = "trim_done"
        \/ ~wc_isalpha(a) /\ r - 1 = reg.r13 /\ buffer' = [buffer EXCEPT ![r - 1] = 0] /\ pc' = "trim_done"
        \/ ~wc_isalpha(a) /\ r - 1 # reg.r13 /\ UNCHANGED <<buffer, pc>>
    BY <1>8 DEF Trim
  <2>3. r \in 1 .. Len(u) /\ (\A k \in r + 1 .. Len(u) : ~P!wc_isalpha(u[k])) /\ reg.r13 = 0
    BY <2>1 DEF Spelling, Buffered
  <2>4. reg'["r12"] = r - 1
    BY <1>2, <2>1
  <2> HIDE DEF r, u, v
  <2>5. a = u[r] /\ r - 1 \in 0 .. MAX_WORDLEN /\ r \in 0 .. MAX_WORDLEN /\ r - 1 + 1 = r
    BY <1>1, <1>5, <2>3
  <2>6. wc_isalpha(a) <=> P!wc_isalpha(u[r])
    <3>1. u[r] \in 0 .. 255
      BY <1>5, <2>3
    <3>2. u[r] \in Int
      BY <3>1
    <3> QED
      BY <2>5, <3>2, AlphaSame
  <2> HIDE DEF a
  <2>7. /\ Len(v) \in 0 .. Len(u) /\ (\A k \in 1 .. Len(v) : v[k] = u[k])
        /\ Len(v) # 0 => P!wc_isalpha(u[Len(v)])
        /\ \A k \in Len(v) + 1 .. Len(u) : ~P!wc_isalpha(u[k])
    BY <1>5 DEF P!CutAtLetter
  <2>8. CASE wc_isalpha(a) /\ buffer' = [buffer EXCEPT ![r - 1 + 1] = 0] /\ pc' = "trim_done"
    <3>1. Len(v) = r
      <4>1. ~(Len(v) < r)
        BY <1>5, <2>3, <2>6, <2>7, <2>8
      <4>2. ~(Len(v) > r)
        <5> SUFFICES ASSUME Len(v) > r PROVE FALSE
          OBVIOUS
        <5>1. Len(v) \in r + 1 .. Len(u) /\ Len(v) # 0
          BY <1>5, <2>3, <2>7
        <5> QED
          BY <2>3, <2>7, <5>1
      <4> QED
        BY <1>5, <2>3, <2>7, <4>1, <4>2
    <3>2. buffer'[r] = 0 /\ \A j \in 0 .. MAX_WORDLEN : j # r => buffer'[j] = buffer[j]
      BY <1>1, <2>5, <2>8
    <3>3. ASSUME NEW k \in 1 .. Len(v) PROVE buffer'[k - 1] = v[k] /\ v[k] # 0
      <4>1. k \in 1 .. Len(u) /\ k - 1 \in 0 .. MAX_WORDLEN /\ k - 1 # r
        BY <1>1, <1>5, <2>3, <3>1
      <4> QED
        BY <1>5, <2>7, <3>2, <4>1
    <3>4. Holds(P!CountedWord)'
      BY <1>6, <2>5, <3>1, <3>2, <3>3 DEF Holds
    <3> QED
      BY <1>4, <1>6, <2>8, <3>4 DEF Spelling, Spelled
  <2>9. CASE ~wc_isalpha(a) /\ r - 1 = reg.r13 /\ buffer' = [buffer EXCEPT ![r - 1] = 0] /\ pc' = "trim_done"
    <3>1. r = 1 /\ r - 1 = 0
      BY <1>5, <2>3, <2>9
    <3>2. Len(v) = 0
      <4> SUFFICES ASSUME Len(v) # 0 PROVE FALSE
        OBVIOUS
      <4>1. Len(v) = r \/ Len(v) \in r + 1 .. Len(u)
        <5> DEFINE x == Len(v)
                   y == Len(u)
        <5>1. x \in 0 .. y /\ y \in Nat /\ x # 0
          BY <1>5, <2>7
        <5> HIDE DEF x, y
        <5>2. x = 1 \/ x \in 2 .. y
          BY <5>1
        <5>3. r = 1 /\ r + 1 = 2
          BY <3>1
        <5> QED
          BY <5>2, <5>3 DEF x, y
      <4> QED
        BY <2>3, <2>6, <2>7, <2>9, <4>1
    <3>3. buffer'[0] = 0
      BY <1>1, <2>5, <2>9, <3>1
    <3>4. \A k \in 1 .. Len(v) : FALSE
      BY <3>2
    <3>5. Holds(P!CountedWord)'
      BY <1>1, <1>6, <3>2, <3>3, <3>4 DEF Holds
    <3> QED
      BY <1>4, <1>6, <2>9, <3>5 DEF Spelling, Spelled
  <2>10. CASE ~wc_isalpha(a) /\ r - 1 # reg.r13 /\ UNCHANGED <<buffer, pc>>
    <3>1. r - 1 \in 1 .. Len(u)
      BY <1>5, <2>3, <2>10
    <3>2. \A k \in (r - 1) + 1 .. Len(u) : ~P!wc_isalpha(u[k])
      <4> SUFFICES ASSUME NEW k \in (r - 1) + 1 .. Len(u) PROVE ~P!wc_isalpha(u[k])
        OBVIOUS
      <4>1. k = r \/ k \in r + 1 .. Len(u)
        BY <1>5, <2>3
      <4> QED
        BY <2>3, <2>6, <2>10, <4>1
    <3>3. Holds(LowWord)'
      BY <1>3, <1>4, <2>10, HoldsSame DEF u
    <3>4. \A k : P!wc_isalpha(u[k])' = P!wc_isalpha(u'[k])
      BY DEF P!wc_isalpha
    <3> QED
      BY <1>4, <1>6, <2>1, <2>4, <2>10, <3>1, <3>2, <3>3 DEF Spelling, Spelled, P!wc_isalpha
  <2> QED
    BY <2>2, <2>8, <2>9, <2>10
<1> QED
  BY <1>7, <1>8

\* Every step keeps Spelling.
LEMMA SpellingStep == Calls /\ Buffered /\ Fetching /\ Spelling /\ [Next]_vars => Spelling'
<1> SUFFICES ASSUME Calls, Buffered, Fetching, Spelling, [Next]_vars PROVE Spelling'
  OBVIOUS
<1>1. CASE GotWord \/ Lower \/ Lowered
  BY <1>1, SpellingLower
<1>2. CASE CallTrim \/ Trim
  BY <1>2, SpellingTrim
<1>3. CASE Trimmed \/ CallDict \/ CallFind \/ Compare \/ Prepend \/ Found \/ Inserted
  <2>1. pc \in Spelled /\ pc' \in Spelled
    <3>1. CASE Trimmed \/ CallDict \/ CallFind
      BY <3>1, Places DEF Spelled
    <3>2. CASE Compare
      BY <3>2, Places DEF Spelled
    <3>3. CASE Prepend \/ Found \/ Inserted
      BY <3>3, Places DEF Spelled
    <3> QED
      BY <1>3, <3>1, <3>2, <3>3
  <2>2. UNCHANGED <<input, from, pos>>
    BY <1>3, StillIs, Zenon DEF Still
  <2>3. buffer' = buffer
    BY <1>3, Zenon DEF Trimmed, CallDict, CallFind, Compare, Prepend, Found, Inserted
  <2> QED
    BY <2>1, <2>2, <2>3, SpellingAway
<1>4. CASE Entered
  <2>1. pc' \notin Counting
    BY <1>4, Places DEF Counting
  <2>2. pc' \notin Spelled /\ pc' \notin {"lower", "lowered", "trim"}
    BY <2>1 DEF Counting, Spelled
  <2> QED
    BY <2>1, <2>2 DEF Spelling
<1>5. CASE \/ CallRead \/ SkipBlank \/ Store \/ StoreFull \/ ReturnWord \/ ReturnNoWord
           \/ Search \/ Report \/ CallFree \/ Free \/ Freed \/ Exit
  <2>1. pc' \notin Counting
    <3>1. CASE CallRead \/ SkipBlank \/ Store \/ StoreFull
      BY <3>1, Places DEF Counting
    <3>2. CASE ReturnWord \/ ReturnNoWord \/ Search \/ Report \/ CallFree \/ Free \/ Freed \/ Exit
      BY <3>2, Places DEF Counting
    <3> QED
      BY <1>5, <3>1, <3>2
  <2>2. pc' \notin Spelled /\ pc' \notin {"lower", "lowered", "trim"}
    BY <2>1 DEF Counting, Spelled
  <2> QED
    BY <2>1, <2>2 DEF Spelling
<1>6. CASE Ended \/ UNCHANGED vars
  <2>1. UNCHANGED <<input, from, pos, pc, reg, buffer>>
    BY <1>6 DEF Ended, vars, machine
  <2>2. /\ HasWord' = HasWord /\ P!After' = P!After /\ P!Word' = P!Word /\ LowWord' = LowWord
        /\ Holds(LowWord)' = Holds(LowWord) /\ Holds(P!CountedWord)' = Holds(P!CountedWord)
    BY <2>1, SameWord, HoldsSame
  <2> QED
    BY <2>1, <2>2 DEF Spelling, P!wc_isalpha
<1> QED
  BY <1>1, <1>2, <1>3, <1>4, <1>5, <1>6 DEF Next, Step

\* Spelling holds when main starts.
LEMMA SpellingInit == Init => Spelling
<1> SUFFICES ASSUME Init PROVE Spelling
  OBVIOUS
<1>1. pc = "main"
  BY DEF Init
<1> QED
  BY <1>1 DEF Spelling, Counting, Spelled

-----------------------------------------------------------------------------
(* The chains as WordCount sees them.                                      *)

\* The chains as WordCount sees them.
Mapped == [b \in DOMAIN buckets |-> Counted(buckets[b])]

\* An entry in front of a chain.
LEMMA PrependIs ==
  ASSUME NEW e, NEW q, IsSeq(q)
  PROVE  /\ IsSeq(<<e>> \o q) /\ Len(<<e>> \o q) = Len(q) + 1 /\ Len(q) \in Nat
         /\ (<<e>> \o q)[1] = e
         /\ \A k \in 1 .. Len(q) : (<<e>> \o q)[k + 1] = q[k]
         /\ Tail(<<e>> \o q) = q /\ <<e>> \o q # <<>>
<1> DEFINE s == <<e>> \o q
<1>1. IsSeq(<<e>>) /\ Len(<<e>>) = 1 /\ <<e>>[1] = e
  BY DEF IsSeq
<1>2. /\ IsSeq(s) /\ Len(s) = 1 + Len(q) /\ Len(q) \in Nat
      /\ \A k \in 1 .. 1 : s[k] = <<e>>[k]
      /\ \A k \in 1 .. Len(q) : s[1 + k] = q[k]
  BY <1>1, JoinIs
<1>3. s[1] = e /\ Len(s) = Len(q) + 1 /\ \A k \in 1 .. Len(q) : s[k + 1] = q[k]
  BY <1>1, <1>2
<1> HIDE DEF s
<1>4. PICK S : s \in Seq(S)
  BY <1>2, IsInSeq
<1>5. s # <<>>
  BY <1>2, <1>3, EmptySeq
<1>6. Tail(s) \in Seq(S) /\ Len(Tail(s)) = Len(q) /\ \A k \in 1 .. Len(q) : Tail(s)[k] = q[k]
  <2>1. Tail(s) \in Seq(S) /\ Len(Tail(s)) = Len(s) - 1 /\ \A k \in 1 .. Len(Tail(s)) : Tail(s)[k] = s[k + 1]
    BY <1>4, <1>5, HeadTailProperties
  <2>2. Len(Tail(s)) = Len(q)
    BY <1>2, <1>3, <2>1
  <2> QED
    BY <1>3, <2>1, <2>2
<1>7. Tail(s) = q
  <2>1. Tail(s) = [k \in 1 .. Len(q) |-> Tail(s)[k]]
    BY <1>6, LenProperties
  <2>2. q = [k \in 1 .. Len(q) |-> q[k]]
    BY DEF IsSeq
  <2> QED
    BY <1>6, <2>1, <2>2
<1> QED
  BY <1>2, <1>3, <1>5, <1>7 DEF s

\* A chain that is not empty is an entry in front of one.
LEMMA TailIs ==
  ASSUME NEW s, IsSeq(s), Len(s) # 0
  PROVE  /\ s # <<>> /\ IsSeq(Tail(s)) /\ Len(Tail(s)) = Len(s) - 1 /\ Len(s) \in Nat
         /\ \A k \in 1 .. Len(s) - 1 : Tail(s)[k] = s[k + 1]
         /\ Tail(s) # s
<1>1. PICK S : s \in Seq(S)
  BY IsInSeq
<1>2. s # <<>> /\ Len(s) \in Nat
  BY <1>1, EmptySeq, LenProperties
<1>3. Tail(s) \in Seq(S) /\ Len(Tail(s)) = Len(s) - 1 /\ \A k \in 1 .. Len(Tail(s)) : Tail(s)[k] = s[k + 1]
  BY <1>1, <1>2, HeadTailProperties
<1>4. IsSeq(Tail(s))
  BY <1>3, SeqIs
<1>5. Tail(s) # s
  <2> SUFFICES ASSUME Tail(s) = s PROVE FALSE
    OBVIOUS
  <2>1. Len(s) = Len(s) - 1
    BY <1>3
  <2> QED
    BY <1>2, <2>1
<1> QED
  BY <1>2, <1>3, <1>4, <1>5

\* What is counted of a chain.
LEMMA CountedIs ==
  ASSUME NEW s, IsSeq(s)
  PROVE  /\ Len(s) \in Nat
         /\ Counted(s) = s <=> (Len(s) = 0 \/ s[1].count # 0)
         /\ Len(s) # 0 /\ s[1].count = 0 => Counted(s) = Tail(s)
<1>1. Len(s) \in Nat
  BY DEF IsSeq
<1>2. CASE Len(s) = 0
  <2>1. PICK S : s \in Seq(S)
    BY IsInSeq
  <2>2. s = <<>>
    BY <1>2, <2>1, EmptySeq
  <2> QED
    BY <1>1, <1>2, <2>2 DEF Counted
<1>3. CASE Len(s) # 0
  BY <1>1, <1>3, TailIs DEF Counted
<1> QED
  BY <1>2, <1>3

\* The chains when no entry is new.
LEMMA TableIs ==
  ASSUME Chained, PInv, NEW b \in 0 .. HASHTABLE_SIZE - 1, Counted(buckets[b]) = buckets[b]
  PROVE  /\ buckets[b] \in Seq(P!Entry) /\ IsSeq(buckets[b]) /\ Len(buckets[b]) \in Nat
         /\ DOMAIN buckets[b] = 1 .. Len(buckets[b]) /\ P!Entries(b) = 1 .. Len(buckets[b])
         /\ \A k \in 1 .. Len(buckets[b]) :
              /\ buckets[b][k] \in P!Entry
              /\ buckets[b][k].word \in P!Strings
              /\ buckets[b][k].count \in Nat \ {0}
<1>1. P!Typed /\ b \in P!Chains
  BY DEF PInv, P!Table, P!Chains
<1>2. b \in DOMAIN buckets /\ IsSeq(buckets[b])
  BY DEF Chained
<1>3. Mapped[b] = buckets[b]
  BY <1>2 DEF Mapped
<1>4. /\ Mapped[b] \in Seq(P!Entry) /\ Len(Mapped[b]) \in Nat /\ DOMAIN Mapped[b] = P!Entries(b)
      /\ \A k \in P!Entries(b) :
           /\ Mapped[b][k] \in P!Entry
           /\ Mapped[b][k].word \in P!Strings
           /\ Mapped[b][k].count \in Nat \ {0}
  BY <1>1, P!EntryIs DEF Mapped
<1>5. P!Entries(b) = 1 .. Len(Mapped[b])
  BY DEF P!Entries, Mapped
<1> QED
  BY <1>2, <1>3, <1>4, <1>5

-----------------------------------------------------------------------------
(* wc_dict_find_or_insert: the entry of the word.                          *)

\* The word that is looked up, and its chain.
LEMMA LookingUp ==
  ASSUME Buffered, Chained, Fetching, Spelling, pc \in Spelled
  PROVE  /\ P!CountedWord \in P!Strings /\ Clean(P!CountedWord)
         /\ String = P!CountedWord /\ Home = P!Bucket(P!CountedWord)
         /\ Home \in 0 .. HASHTABLE_SIZE - 1 /\ Home \in DOMAIN buckets
         /\ IsSeq(buckets[Home]) /\ Len(buckets[Home]) \in Nat
         /\ DOMAIN buckets[Home] = 1 .. Len(buckets[Home])
<1>1. Holds(P!CountedWord) /\ HasWord
  BY DEF Spelling, Spelled, Counting
<1>2. P!CountedWord \in P!Strings
  BY <1>1, WordsAre
<1>3. buffer \in [0 .. MAX_WORDLEN -> 0 .. 255]
  BY DEF Buffered
<1>4. String = P!CountedWord /\ Home = P!Bucket(P!CountedWord) /\ Home \in 0 .. HASHTABLE_SIZE - 1
  BY <1>1, <1>2, <1>3, HeldIs, HomeIs
<1>5. Clean(P!CountedWord)
  BY <1>1, <1>2, StringIs DEF Holds, Clean
<1>6. Home \in DOMAIN buckets /\ IsSeq(buckets[Home])
  BY <1>4 DEF Chained
<1>7. Len(buckets[Home]) \in Nat /\ DOMAIN buckets[Home] = 1 .. Len(buckets[Home])
  BY <1>6 DEF IsSeq
<1> QED
  BY <1>2, <1>4, <1>5, <1>6, <1>7

\* No chain has a new entry.
Settled == \A b \in DOMAIN buckets : Counted(buckets[b]) = buckets[b]

\* The chain and the word are the same as long as nothing is written.
LEMMA LookupSame ==
  ASSUME UNCHANGED <<input, from, buffer, buckets>>
  PROVE  /\ Home' = Home /\ P!CountedWord' = P!CountedWord
         /\ Absent(P!CountedWord)' = Absent(P!CountedWord)
         /\ Settled' = Settled
<1>1. P!CountedWord' = P!CountedWord
  BY SameWord
<1>2. End' = End
  BY DEF End
<1>3. String' = String
  BY <1>2 DEF String
<1>4. Home' = Home
  BY <1>3 DEF Home
<1>5. Absent(P!CountedWord)' = Absent(P!CountedWord)
  BY <1>1, <1>4 DEF Absent
<1>6. Settled' = Settled
  BY DEF Settled
<1> QED
  BY <1>1, <1>4, <1>5, <1>6

\* At the other places only the chains matter.
LEMMA EnteringAway ==
  ASSUME Entering, pc # "entered", buckets' = buckets,
         pc' \notin {"dict", "chain", "find_done", "inserted", "entered"}
  PROVE  Entering'
<1>1. Settled
  BY DEF Entering, Settled
<1>2. Settled'
  BY <1>1 DEF Settled
<1> QED
  BY <1>2 DEF Entering, Settled

\* wc_dict_find_or_insert takes the chain, and calls wc_find_or_insert.
LEMMA EnteringCalls ==
  ASSUME Calls, Buffered, Chained, Fetching, Spelling, Entering, CallDict \/ CallFind
  PROVE  Entering'
<1>1. /\ DOMAIN reg = Registers /\ IsSeq(stack) /\ Settled
      /\ UNCHANGED <<input, from, buffer, buckets>>
      /\ pc \in {"trimmed", "dict"} /\ pc \in Spelled
  BY Places DEF Calls, Entering, Settled, CallDict, CallFind, Inside, Spelled
<1>2. /\ Home' = Home /\ P!CountedWord' = P!CountedWord /\ Settled'
  BY <1>1, LookupSame
<1>3. {"rbp", "r12", "r13", "r14", "r15"} \subseteq DOMAIN reg
  BY <1>1 DEF Registers
<1>4. CASE CallDict
  <2>1. pc' = "dict"
    BY <1>4 DEF CallDict
  <2>2. reg'["r12"] = Home
    <3>1. PICK rbp : reg' = [reg EXCEPT !.rbp = rbp, !.r12 = Home, !.r13 = HASHTABLE_SIZE,
                                        !.r14 = 0, !.r15 = Home]
      BY <1>4 DEF CallDict
    <3> QED
      BY <1>3, <3>1
  <2> QED
    BY <1>2, <2>1, <2>2 DEF Entering, Settled
<1>5. CASE CallFind
  <2>1. pc = "dict" /\ pc' = "chain" /\ reg.r12 = Home
    BY <1>5 DEF CallFind, Entering
  <2>2. /\ Home \in DOMAIN buckets /\ Len(buckets[Home]) \in Nat
        /\ DOMAIN buckets[Home] = 1 .. Len(buckets[Home])
    BY <1>1, LookingUp
  <2>3. reg'["r12"] = HeadEntry(Home)
    <3>1. reg' = [reg EXCEPT !.r12 = HeadEntry(reg.r12), !.r13 = 0, !.r14 = Local(reg.rbp),
                             !.r15 = HeadEntry(reg.r12)]
      BY <1>5 DEF CallFind
    <3> QED
      BY <1>3, <2>1, <3>1
  <2>4. HeadEntry(Home) \in 0 .. Len(buckets[Home])
        /\ (HeadEntry(Home) = 0 => DOMAIN buckets[Home] = {})
        /\ (HeadEntry(Home) = 0 \/ HeadEntry(Home) = 1)
    <3>1. Chains
      BY DEF Chained, Chains
    <3> QED
      BY <2>2, <3>1, HeadIs
  <2>5. stack'[11] = Home
    <3>1. OneCall("entered", DictPushes)
      BY <2>1 DEF Calls, Looking
    <3>2. Len(stack) = 8
      BY <3>1 DEF OneCall, DictPushes
    <3>3. DOMAIN FindPushes = 1 .. 5 /\ stack' = Called("inserted", FindPushes) /\ 5 \in Nat
      BY <1>5 DEF CallFind, FindPushes
    <3>4. CallTo(stack', "inserted", FindPushes, 5)
      BY <1>1, <3>3, CalledIs
    <3>5. FindPushes[2] = "r12"
      BY DEF FindPushes
    <3>6. \A k \in 1 .. 5 : stack'[9 + k] = IF FindPushes[k] = "pad" THEN Pad ELSE reg[FindPushes[k]]
      BY <3>2, <3>4 DEF CallTo
    <3>7. stack'[9 + 2] = reg["r12"]
      BY <3>5, <3>6
    <3> QED
      BY <2>1, <3>7
  <2>6. \A k \in DOMAIN buckets[Home] :
          (reg'["r12"] = 0 \/ k < reg'["r12"]) => buckets[Home][k].word # P!CountedWord
    BY <2>2, <2>3, <2>4
  <2> QED
    BY <1>1, <1>2, <2>1, <2>3, <2>4, <2>5, <2>6 DEF Entering, Settled
<1> QED
  BY <1>4, <1>5

\* wc_find_or_insert goes along the chain to the entry, or makes one.
LEMMA EnteringFind ==
  ASSUME Calls, Buffered, Chained, Fetching, Spelling, PInv, AllClean, Entering, Compare \/ Prepend
  PROVE  Entering'
<1> DEFINE w == P!CountedWord
<1>1. /\ DOMAIN reg = Registers /\ IsSeq(stack) /\ Settled
      /\ UNCHANGED <<input, from, buffer, buckets>>
      /\ pc = "chain" /\ pc \in Spelled
  BY Places DEF Calls, Entering, Settled, Compare, Prepend, Inside, Spelled
<1>2. Home' = Home /\ w' = w /\ Absent(w)' = Absent(w) /\ Settled'
  BY <1>1, LookupSame
<1>3. {"rbp", "r12", "r13", "r14", "r15", "rax"} \subseteq DOMAIN reg
  BY <1>1 DEF Registers
<1>4. /\ w \in P!Strings /\ Clean(w) /\ String = w
      /\ Home \in 0 .. HASHTABLE_SIZE - 1 /\ Home \in DOMAIN buckets
      /\ Len(buckets[Home]) \in Nat /\ DOMAIN buckets[Home] = 1 .. Len(buckets[Home])
  BY <1>1, LookingUp
<1>5. /\ Len(stack) = 14 /\ reg.r14 = 1 /\ stack[11] = Home
      /\ reg.r12 \in 0 .. Len(buckets[Home])
      /\ \A k \in DOMAIN buckets[Home] :
           (reg.r12 = 0 \/ k < reg.r12) => buckets[Home][k].word # w
  BY <1>1 DEF Calls, Finding, Entering
<1>6. ASSUME NEW v
      PROVE  Written(stack, 1, v)[1] = v /\ Written(stack, 1, v)[11] = Home
  <2>1. /\ Len(Written(stack, 1, v)) = Len(stack)
        /\ \A k \in 1 .. Len(stack) : k # 1 => Written(stack, 1, v)[k] = stack[k]
    <3>1. IsSeq(stack)
      BY <1>1
    <3> QED
      BY <3>1, WrittenIs
  <2>2. 1 \in DOMAIN stack
    BY <1>1, <1>5 DEF IsSeq
  <2>3. Written(stack, 1, v)[1] = v
    BY <2>2 DEF Written
  <2> QED
    BY <1>5, <2>1, <2>3
<1> HIDE DEF w
<1>7. CASE Compare
  <2>1. reg.r12 # 0 /\ reg.r12 \in DOMAIN buckets[Home] /\ reg.r12 \in Nat
    BY <1>4, <1>5, <1>7 DEF Compare
  <2> DEFINE v == buckets[Home][reg.r12].word
  <2>2. v \in P!Strings /\ Clean(v)
    <3>1. v \in P!Strings
      <4>1. Counted(buckets[Home]) = buckets[Home]
        BY <1>1, <1>4 DEF Settled
      <4> QED
        BY <1>4, <2>1, <4>1, TableIs
    <3> QED
      BY <1>4, <2>1, <3>1 DEF AllClean
  <2>3. wc_str_compare(String, v) = 0 <=> v = w
    <3> HIDE DEF v
    <3>1. wc_str_compare(w, v) = 0 <=> w = v
      BY <1>4, <2>2, CompareIs
    <3> QED
      BY <1>4, <3>1
  <2> HIDE DEF v
  <2>4. CASE v = w
    <3>1. /\ stack' = [stack EXCEPT ![reg.r14] = 0]
          /\ reg' = [reg EXCEPT !.rax = reg.r12]
          /\ pc' = "find_done"
      BY <1>7, <2>3, <2>4 DEF Compare, v
    <3>2. stack' = Written(stack, 1, 0) /\ reg'["rax"] = reg["r12"]
      BY <1>3, <1>5, <3>1 DEF Written
    <3>3. stack'[1] = 0 /\ stack'[11] = Home
      BY <1>6, <3>2
    <3>4. Outcome'
      BY <1>1, <1>2, <2>1, <2>4, <3>2, <3>3 DEF Outcome, v, w
    <3> QED
      BY <1>1, <1>2, <3>1, <3>3, <3>4 DEF Entering, Settled
  <2>5. CASE v # w
    <3>1. reg' = [reg EXCEPT !.r12 = NextEntry(Home, @)] /\ stack' = stack /\ pc' = "chain"
      BY <1>1, <1>7, <2>3, <2>5 DEF Compare, v
    <3>2. reg'["r12"] = IF reg.r12 = Len(buckets[Home]) THEN 0 ELSE reg.r12 + 1
      BY <1>3, <3>1 DEF NextEntry
    <3>3. \A k \in DOMAIN buckets[Home] : k <= reg.r12 => buckets[Home][k].word # w
      <4> SUFFICES ASSUME NEW k \in DOMAIN buckets[Home], k <= reg.r12
                   PROVE  buckets[Home][k].word # w
        OBVIOUS
      <4>1. k \in Nat
        BY <1>4
      <4>2. k = reg.r12 \/ k < reg.r12
        BY <2>1, <4>1
      <4> QED
        BY <1>5, <2>5, <4>2 DEF v
    <3>4. /\ reg'["r12"] \in 0 .. Len(buckets[Home])
          /\ \A k \in DOMAIN buckets[Home] :
               (reg'["r12"] = 0 \/ k < reg'["r12"]) => buckets[Home][k].word # w
      <4>1. CASE reg.r12 = Len(buckets[Home])
        BY <1>4, <3>2, <3>3, <4>1
      <4>2. CASE reg.r12 # Len(buckets[Home])
        <5>1. reg'["r12"] = reg.r12 + 1 /\ reg.r12 + 1 \in 0 .. Len(buckets[Home]) /\ reg.r12 + 1 # 0
          BY <1>4, <1>5, <2>1, <3>2, <4>2
        <5>2. \A k \in DOMAIN buckets[Home] : k < reg.r12 + 1 => k <= reg.r12
          BY <1>4, <2>1
        <5> QED
          BY <3>3, <5>1, <5>2
      <4> QED
        BY <4>1, <4>2
    <3> QED
      BY <1>1, <1>2, <1>5, <3>1, <3>4 DEF Entering, Settled, w
  <2> QED
    BY <2>4, <2>5
<1>8. CASE Prepend
  <2>1. /\ reg.r12 = 0 /\ pc' = "find_done"
        /\ node' = [word |-> String, count |-> 0]
        /\ stack' = [stack EXCEPT ![reg.r14] = 1]
        /\ reg' = [reg EXCEPT !.rax = 1, !.r12 = 1]
    BY <1>8 DEF Prepend
  <2>2. stack'[1] = 1 /\ stack'[11] = Home
    <3>1. stack' = Written(stack, 1, 1)
      BY <1>5, <2>1 DEF Written
    <3> QED
      BY <1>6, <3>1
  <2>3. reg'["rax"] = 1
    BY <1>3, <2>1
  <2>4. Absent(w)
    BY <1>5, <2>1 DEF Absent
  <2>5. Outcome'
    BY <1>2, <1>4, <2>1, <2>2, <2>3, <2>4 DEF Outcome, w
  <2> QED
    BY <1>1, <1>2, <2>1, <2>2, <2>5 DEF Entering, Settled
<1> QED
  BY <1>7, <1>8

\* wc_find_or_insert returns to wc_dict_find_or_insert.
LEMMA EnteringFound ==
  ASSUME Calls, Buffered, Chained, Fetching, Spelling, Entering, Found
  PROVE  Entering'
<1> DEFINE pops == <<"r15", "r14", "r13", "r12", "pad">>
           rax == reg.rax
           n == 5
           site == "inserted"
<1>1. /\ DOMAIN reg = Registers /\ IsSeq(stack) /\ Settled /\ Return(pops, rax)
      /\ UNCHANGED <<input, from, buffer, buckets, node>>
      /\ pc = "find_done" /\ pc \in Spelled
  BY Places DEF Calls, Entering, Settled, Found, Inside, Spelled
<1>2. /\ Len(stack) = 14 /\ stack[9] = ReturnAddress["inserted"]
      /\ stack[11] = Home /\ Outcome
  BY <1>1 DEF Calls, Finding, Entering
<1>3. Home' = Home /\ P!CountedWord' = P!CountedWord /\ Absent(P!CountedWord)' = Absent(P!CountedWord)
      /\ Settled'
  BY <1>1, LookupSame
<1>4. /\ n \in Nat /\ n < Len(stack) /\ DOMAIN pops = 1 .. n /\ Len(pops) = n
      /\ stack[Len(stack) - n] = ReturnAddress[site]
      /\ site \in DOMAIN ReturnAddress
  BY <1>2 DEF ReturnAddress
<1>5. n = 5 /\ site = "inserted" /\ \A k \in 1 .. n : pops[k] # "rax" /\ (pops[k] = "r12" => k = 4)
  OBVIOUS
<1>6. pops[4] = "r12" /\ rax = reg.rax
  OBVIOUS
<1> HIDE DEF pops, n, rax, site
<1>7. /\ pc' = site /\ IsSeq(stack') /\ Len(stack') = Len(stack) - n - 1
      /\ \A k \in 1 .. Len(stack) - n - 1 : stack'[k] = stack[k]
      /\ DOMAIN reg' = DOMAIN reg
      /\ \A r \in DOMAIN reg :
           \/ \E k \in 1 .. n : pops[k] = r /\ reg'[r] = stack[Len(stack) - k + 1]
           \/ (\A k \in 1 .. n : pops[k] # r) /\ reg'[r] = IF r = "rax" THEN rax ELSE reg[r]
  <2>1. IsSeq(stack) /\ Return(pops, rax)
    BY <1>1
  <2>2. n \in Nat /\ n < Len(stack) /\ DOMAIN pops = 1 .. n /\ Len(pops) = n
    BY <1>4
  <2>3. site \in DOMAIN ReturnAddress /\ stack[Len(stack) - n] = ReturnAddress[site]
    BY <1>4
  <2>4. pc' = site /\ IsSeq(stack') /\ Len(stack') = Len(stack) - n - 1 /\ DOMAIN reg' = DOMAIN reg
    BY <2>1, <2>2, <2>3, ReturnIs
  <2>5. \A k \in 1 .. Len(stack) - n - 1 : stack'[k] = stack[k]
    BY <2>1, <2>2, <2>3, ReturnIs
  <2>6. \A r \in DOMAIN reg :
          \/ \E k \in 1 .. n : pops[k] = r /\ reg'[r] = stack[Len(stack) - k + 1]
          \/ (\A k \in 1 .. n : pops[k] # r) /\ reg'[r] = IF r = "rax" THEN rax ELSE reg[r]
    BY <2>1, <2>2, <2>3, ReturnIs
  <2> QED
    BY <2>4, <2>5, <2>6
<1>8. reg'["rax"] = reg["rax"]
  <2>1. "rax" \in DOMAIN reg
    BY <1>1 DEF Registers
  <2> QED
    BY <1>5, <1>6, <1>7, <2>1
<1>9. reg'["r12"] = stack[11]
  <2>1. "r12" \in DOMAIN reg
    BY <1>1 DEF Registers
  <2>2. 4 \in 1 .. n
    BY <1>5
  <2>3. \E k \in 1 .. n : pops[k] = "r12" /\ reg'["r12"] = stack[Len(stack) - k + 1]
    BY <1>6, <1>7, <2>1, <2>2
  <2>4. reg'["r12"] = stack[14 - 4 + 1]
    BY <1>2, <1>5, <2>3
  <2> QED
    BY <2>4
<1>10. stack'[1] = stack[1]
  BY <1>2, <1>5, <1>7
<1>11. Outcome'
  BY <1>1, <1>2, <1>3, <1>8, <1>10 DEF Outcome
<1> QED
  BY <1>2, <1>3, <1>5, <1>7, <1>9, <1>11 DEF Entering, Settled

\* Without a new entry, WordCount sees the chains as they are.
LEMMA MappedIs ==
  ASSUME Settled
  PROVE  /\ \A b \in DOMAIN buckets : Mapped[b] = buckets[b]
         /\ DOMAIN Mapped = DOMAIN buckets
BY DEF Settled, Mapped

\* wc_dict_find_or_insert keeps the entry that it returns, in front of its chain.
LEMMA EnteringInserted ==
  ASSUME Calls, Buffered, Chained, Fetching, Spelling, Entering, Inserted
  PROVE  Entering' /\ Mapped' = Mapped
<1> DEFINE w == P!CountedWord
           e == [word |-> w, count |-> 0]
<1>1. /\ IsSeq(stack) /\ Settled
      /\ UNCHANGED <<input, from, buffer, node>>
      /\ pc = "inserted" /\ pc \in Spelled /\ pc' = "entered"
  BY Places DEF Calls, Entering, Settled, Inserted, Spelled
<1>2. OneCall("entered", DictPushes) /\ reg.rbp = 2
  BY <1>1 DEF Calls, Looking
<1>3. reg'["rax"] = reg["rax"]
  <2>1. Return(<<"r15", "r14", "r13", "r12", "rbp">>, reg.rax)
    BY DEF Inserted
  <2>2. DictPushes \in PushLists
    BY DEF PushLists
  <2> QED
    BY <1>2, <2>1, <2>2, PopsAre, ReturnStep
<1>4. reg.r12 = Home /\ Outcome /\ Local(reg.rbp) = 1
  BY <1>1, <1>2 DEF Entering, Local
<1>5. /\ Home \in DOMAIN buckets /\ IsSeq(buckets[Home]) /\ Len(buckets[Home]) \in Nat
      /\ DOMAIN buckets[Home] = 1 .. Len(buckets[Home])
  BY <1>1, LookingUp
<1>6. Home' = Home /\ w' = w
  <2>1. End' = End
    BY <1>1 DEF End
  <2>2. String' = String
    BY <1>1, <2>1 DEF String
  <2> QED
    BY <1>1, <2>2, SameWord DEF Home
<1> DEFINE h == Home
           q == buckets[h]
<1>7. CASE stack[1] = 0
  <2>1. buckets' = buckets
    BY <1>4, <1>7 DEF Inserted
  <2>2. reg.rax \in DOMAIN buckets[h] /\ buckets[h][reg.rax].word = w
    BY <1>4, <1>7 DEF Outcome
  <2>3. Counted(buckets[h]) = buckets[h]
    BY <1>1, <1>5 DEF Settled
  <2>4. HasEntry'
    BY <1>3, <1>6, <2>1, <2>2, <2>3 DEF HasEntry
  <2>5. \A b \in DOMAIN buckets' : Counted(buckets'[b]) = buckets'[b]
    BY <1>1, <2>1 DEF Settled
  <2>6. Mapped' = Mapped
    BY <2>1 DEF Mapped
  <2> QED
    BY <1>1, <2>4, <2>5, <2>6 DEF Entering
<1>8. CASE stack[1] = 1
  <2>1. node = e /\ reg.rax = 1 /\ Absent(w)
    BY <1>4, <1>8 DEF Outcome
  <2>2. buckets' = [buckets EXCEPT ![h] = <<e>> \o q]
    BY <1>4, <1>8, <2>1 DEF Inserted
  <2>3. \A k \in DOMAIN q : q[k].word # w
    BY <2>1 DEF Absent
  <2>4. e.word = w /\ e.count = 0
    OBVIOUS
  <2>5. IsSeq(q) /\ h \in DOMAIN buckets /\ DOMAIN q = 1 .. Len(q)
    BY <1>5
  <2> HIDE DEF e, q, h
  <2> DEFINE s == <<e>> \o q
  <2>6. /\ IsSeq(s) /\ Len(s) = Len(q) + 1 /\ Len(q) \in Nat /\ s[1] = e
        /\ \A k \in 1 .. Len(q) : s[k + 1] = q[k]
        /\ Tail(s) = q /\ s # <<>>
    BY <2>5, PrependIs
  <2> HIDE DEF s
  <2>7. Counted(s) = q
    BY <2>4, <2>6 DEF Counted
  <2>8. /\ DOMAIN buckets' = DOMAIN buckets /\ buckets'[h] = s
        /\ \A b \in DOMAIN buckets : b # h => buckets'[b] = buckets[b]
    BY <2>2, <2>5 DEF s
  <2>9. Counted(q) = q
    BY <1>1, <2>5 DEF Settled, q
  <2>10. Mapped' = Mapped
    BY <2>7, <2>8, <2>9 DEF Mapped, q
  <2>11. DOMAIN s = 1 .. Len(s)
    BY <2>6 DEF IsSeq
  <2>12. \A k \in 2 .. Len(s) : s[k].word # w
    <3> SUFFICES ASSUME NEW k \in 2 .. Len(s) PROVE s[k].word # w
      OBVIOUS
    <3>1. k - 1 \in 1 .. Len(q) /\ (k - 1) + 1 = k
      BY <2>6
    <3>2. s[k] = q[k - 1]
      BY <2>6, <3>1
    <3> QED
      BY <2>3, <2>5, <3>1, <3>2
  <2>13. Home' = h
    BY <1>6 DEF h
  <2>14. 1 \in DOMAIN s
    BY <2>6, <2>11
  <2>15. HasEntry'
    BY <1>3, <1>6, <2>1, <2>4, <2>6, <2>7, <2>8, <2>12, <2>13, <2>14 DEF HasEntry, e
  <2>16. \A b \in DOMAIN buckets' : b # Home' => Counted(buckets'[b]) = buckets'[b]
    BY <1>1, <2>8, <2>13 DEF Settled
  <2> QED
    BY <1>1, <2>10, <2>15, <2>16 DEF Entering
<1> QED
  BY <1>4, <1>7, <1>8 DEF Outcome

\* main counts the word in its entry, as WordCount does: again, or for the first time.
LEMMA EnteredIs ==
  ASSUME Calls, Buffered, Chained, Fetching, Spelling, PInv, Entering, Entered
  PROVE  Entering' /\ P!Count(P!CountedWord)
<1> DEFINE w == P!CountedWord
           h == Home
           q == buckets[h]
           m == reg.rax
           e == [q[m] EXCEPT !.count = q[m].count + 1]
           d == Written(q, m, e)
<1>1. pc = "entered" /\ pc \in Spelled /\ pc' = "main" /\ HasEntry
      /\ \A b \in DOMAIN buckets : b # h => Counted(buckets[b]) = buckets[b]
  BY DEF Entering, Entered, Spelled
<1>2. /\ w \in P!Strings /\ h = P!Bucket(w) /\ h \in 0 .. HASHTABLE_SIZE - 1 /\ h \in DOMAIN buckets
      /\ IsSeq(q) /\ Len(q) \in Nat /\ DOMAIN q = 1 .. Len(q)
  BY <1>1, LookingUp
<1>3. buckets' = [buckets EXCEPT ![h] = d]
  BY Zenon DEF Entered, Written
<1>4. unique_words' = IF q[m].count = 0 THEN unique_words + 1 ELSE unique_words
  BY DEF Entered
<1>5. /\ m \in DOMAIN q /\ q[m].word = w
      /\ \/ Counted(q) = q
         \/ /\ m = 1 /\ q[1] = [word |-> w, count |-> 0] /\ Counted(q) = Tail(q)
            /\ \A k \in 2 .. Len(q) : q[k].word # w
  BY <1>1 DEF HasEntry
<1>6. /\ IsSeq(d) /\ Len(d) = Len(q) /\ d[m] = e
      /\ \A k \in 1 .. Len(q) : k # m => d[k] = q[k]
  <2>1. d[m] = e
    BY <1>5 DEF Written
  <2>2. IsSeq(q)
    BY <1>2
  <2> HIDE DEF q, m, e
  <2> QED
    BY <2>1, <2>2, WrittenIs
<1> HIDE DEF w, h, q, d, m
<1>7. /\ DOMAIN buckets' = DOMAIN buckets /\ buckets'[h] = d
      /\ \A b \in DOMAIN buckets : b # h => buckets'[b] = buckets[b]
  BY <1>2, <1>3
<1>8. \A b \in DOMAIN buckets : Mapped[b] = Counted(buckets[b])
  BY DEF Mapped
<1>9. ASSUME Counted(d) = d
      PROVE  /\ Entering'
             /\ Mapped' = [b \in DOMAIN buckets |-> IF b = h THEN d ELSE Mapped[b]]
  <2>1. \A b \in DOMAIN buckets' : Counted(buckets'[b]) = buckets'[b]
    BY <1>1, <1>7, <1>9
  <2>2. Entering'
    BY <1>1, <2>1 DEF Entering
  <2>3. Mapped' = [b \in DOMAIN buckets |-> IF b = h THEN d ELSE Mapped[b]]
    BY <1>1, <1>7, <1>8, <2>1 DEF Mapped
  <2> QED
    BY <2>2, <2>3
<1>10. /\ P!Found(w) = {k \in 1 .. Len(Mapped[h]) : Mapped[h][k].word = w}
       /\ \A k \in P!Found(w) : P!Found(w) = {k}
       /\ P!Found(w) # {} => P!Min(P!Found(w)) \in P!Found(w)
  <2>1. P!WordAssumption /\ P!Typed /\ P!Filed
    BY Assumed DEF PInv, P!Table
  <2>2. P!Found(w) = {k \in 1 .. Len(Mapped[h]) : Mapped[h][k].word = w}
    BY <1>2 DEF P!Found, P!Entries, Mapped
  <2>3. /\ \A k \in P!Found(w) : P!Found(w) = {k}
        /\ P!Found(w) # {} => P!Min(P!Found(w)) \in P!Found(w)
    BY <1>2, <2>1, P!FoundIs
  <2> QED
    BY <2>2, <2>3
<1>11. /\ P!Count(w) <=>
            IF P!Found(w) # {}
            THEN /\ Mapped' = [Mapped EXCEPT ![h][P!Min(P!Found(w))].count = @ + 1]
                 /\ unique_words' = unique_words
            ELSE /\ Mapped' = [Mapped EXCEPT ![h] = <<[word |-> w, count |-> 1]>> \o @]
                 /\ unique_words' = unique_words + 1
       /\ DOMAIN Mapped = DOMAIN buckets
  <2>1. DOMAIN Mapped = DOMAIN buckets
    BY DEF Mapped
  <2>2. P!Count(w) <=>
            IF P!Found(w) # {}
            THEN /\ Mapped' = [Mapped EXCEPT ![h][P!Min(P!Found(w))].count = @ + 1]
                 /\ unique_words' = unique_words
            ELSE /\ Mapped' = [Mapped EXCEPT ![h] = <<[word |-> w, count |-> 1]>> \o @]
                 /\ unique_words' = unique_words + 1
    BY <1>2 DEF P!Count, Mapped
  <2> QED
    BY <2>1, <2>2
<1>12. CASE Counted(q) = q
  <2>1. /\ \A k \in 1 .. Len(q) : q[k] \in P!Entry /\ q[k].count \in Nat \ {0}
    <3>1. Counted(buckets[h]) = buckets[h]
      BY <1>12 DEF q
    <3> QED
      BY <1>2, <3>1, TableIs DEF q
  <2>2. q[m] \in P!Entry /\ q[m].count \in Nat \ {0}
    BY <1>2, <1>5, <2>1
  <2>3. e.count = q[m].count + 1 /\ e.count # 0
    BY <2>2 DEF P!Entry
  <2>4. Counted(d) = d
    <3>1. Len(d) = 0 \/ d[1].count # 0
      <4>1. CASE m = 1
        BY <1>6, <2>3, <4>1
      <4>2. CASE m # 1
        <5>1. 1 \in 1 .. Len(q)
          BY <1>2, <1>5
        <5> QED
          BY <1>6, <2>1, <4>2, <5>1
      <4> QED
        BY <4>1, <4>2
    <3> QED
      BY <1>6, <3>1, CountedIs
  <2>5. Mapped[h] = q
    BY <1>2, <1>8, <1>12 DEF q
  <2>6. P!Found(w) = {m} /\ P!Min(P!Found(w)) = m
    <3>1. m \in P!Found(w)
      BY <1>2, <1>5, <1>10, <2>5
    <3>2. P!Found(w) = {m}
      BY <1>10, <3>1
    <3> QED
      BY <1>10, <3>2
  <2>7. Mapped' = [Mapped EXCEPT ![h][m].count = @ + 1]
    <3>1. Mapped' = [b \in DOMAIN buckets |-> IF b = h THEN d ELSE Mapped[b]]
      BY <1>9, <2>4
    <3>2. d = [Mapped[h] EXCEPT ![m] = [Mapped[h][m] EXCEPT !.count = Mapped[h][m].count + 1]]
      BY <2>5 DEF d, Written
    <3>3. [Mapped EXCEPT ![h][m].count = @ + 1]
            = [Mapped EXCEPT ![h] = [Mapped[h] EXCEPT ![m] =
                                       [Mapped[h][m] EXCEPT !.count = Mapped[h][m].count + 1]]]
      BY Zenon
    <3>4. Mapped = [b \in DOMAIN buckets |-> Mapped[b]]
      BY DEF Mapped
    <3> HIDE DEF e
    <3>5. [Mapped EXCEPT ![h] = d] = [b \in DOMAIN buckets |-> IF b = h THEN d ELSE Mapped[b]]
      BY <1>2, <1>11, <3>4
    <3> QED
      BY <3>1, <3>2, <3>3, <3>5
  <2>8. unique_words' = unique_words
    BY <1>4, <2>2
  <2>9. P!Count(w)
    BY <1>11, <2>6, <2>7, <2>8
  <2> QED
    BY <1>9, <2>4, <2>9 DEF w
<1>13. CASE /\ m = 1 /\ q[1] = [word |-> w, count |-> 0] /\ Counted(q) = Tail(q)
            /\ \A k \in 2 .. Len(q) : q[k].word # w
  <2>1. e = [word |-> w, count |-> 1] /\ e.count = 1
    BY <1>13
  <2>2. Len(q) # 0 /\ Len(d) # 0
    BY <1>2, <1>5, <1>6
  <2>3. Counted(d) = d
    BY <1>6, <1>13, <2>1, CountedIs
  <2>4. /\ IsSeq(Tail(q)) /\ Len(Tail(q)) = Len(q) - 1
        /\ \A k \in 1 .. Len(q) - 1 : Tail(q)[k] = q[k + 1]
    BY <1>2, <2>2, TailIs
  <2>5. Mapped[h] = Tail(q)
    BY <1>2, <1>8, <1>13 DEF q
  <2>6. P!Found(w) = {}
    <3> SUFFICES ASSUME NEW k \in 1 .. Len(Tail(q)) PROVE Tail(q)[k].word # w
      BY <1>10, <2>5
    <3>1. k \in 1 .. Len(q) - 1 /\ k + 1 \in 2 .. Len(q)
      BY <1>2, <2>4
    <3> QED
      BY <1>13, <2>4, <3>1
  <2> HIDE DEF e
  <2>7. d = <<e>> \o Tail(q)
    <3> DEFINE s == <<e>> \o Tail(q)
    <3>1. /\ IsSeq(s) /\ Len(s) = Len(Tail(q)) + 1 /\ s[1] = e
          /\ \A k \in 1 .. Len(Tail(q)) : s[k + 1] = Tail(q)[k]
      BY <2>4, PrependIs
    <3> HIDE DEF s
    <3>2. Len(s) = Len(d)
      BY <1>2, <1>6, <2>4, <3>1
    <3>3. ASSUME NEW k \in 1 .. Len(d) PROVE s[k] = d[k]
      <4>1. CASE k = 1
        BY <1>6, <1>13, <3>1, <4>1
      <4>2. CASE k # 1
        <5>1. k - 1 \in 1 .. Len(q) - 1 /\ (k - 1) + 1 = k /\ k \in 1 .. Len(q)
          BY <1>2, <1>6, <3>3, <4>2
        <5>2. s[k] = Tail(q)[k - 1]
          BY <2>4, <3>1, <5>1
        <5>3. Tail(q)[k - 1] = q[k]
          BY <2>4, <5>1
        <5> QED
          BY <1>6, <1>13, <4>2, <5>1, <5>2, <5>3
      <4> QED
        BY <4>1, <4>2
    <3>4. s = [k \in 1 .. Len(d) |-> s[k]] /\ d = [k \in 1 .. Len(d) |-> d[k]]
      BY <1>6, <3>1, <3>2 DEF IsSeq
    <3>5. [k \in 1 .. Len(d) |-> s[k]] = [k \in 1 .. Len(d) |-> d[k]]
      BY <3>3
    <3> QED
      BY <3>4, <3>5 DEF s
  <2>8. Mapped' = [Mapped EXCEPT ![h] = <<[word |-> w, count |-> 1]>> \o @]
    <3>1. Mapped' = [b \in DOMAIN buckets |-> IF b = h THEN d ELSE Mapped[b]]
      BY <1>9, <2>3
    <3>2. d = <<[word |-> w, count |-> 1]>> \o Mapped[h]
      BY <2>1, <2>5, <2>7
    <3>3. Mapped = [b \in DOMAIN buckets |-> Mapped[b]]
      BY DEF Mapped
    <3>4. [Mapped EXCEPT ![h] = d] = [b \in DOMAIN buckets |-> IF b = h THEN d ELSE Mapped[b]]
      BY <1>2, <1>11, <3>3
    <3> QED
      BY <3>1, <3>2, <3>4
  <2>9. unique_words' = unique_words + 1
    BY <1>4, <1>13
  <2>10. P!Count(w)
    BY <1>11, <2>6, <2>8, <2>9
  <2> QED
    BY <1>9, <2>3, <2>10 DEF w
<1> QED
  BY <1>5, <1>12, <1>13

\* Every step keeps Entering.
LEMMA EnteringStep ==
  /\ Calls /\ Buffered /\ Chained /\ Fetching /\ Spelling /\ PInv /\ AllClean /\ Entering
  /\ [Next]_vars
  => Entering'
<1> SUFFICES ASSUME Calls, Buffered, Chained, Fetching, Spelling, PInv, AllClean, Entering, [Next]_vars
             PROVE  Entering'
  OBVIOUS
<1>1. CASE CallRead \/ SkipBlank \/ Store \/ StoreFull \/ ReturnWord \/ ReturnNoWord \/ GotWord
  <2>1. /\ pc # "entered"
        /\ pc' \notin {"dict", "chain", "find_done", "inserted", "entered"}
    BY <1>1, Places
  <2>2. buckets' = buckets
    BY <1>1 DEF CallRead, SkipBlank, Store, StoreFull, ReturnWord, ReturnNoWord, GotWord, fgetc, Inside
  <2> QED
    BY <2>1, <2>2, EnteringAway
<1>2. CASE Lower \/ Lowered \/ CallTrim \/ Trim \/ Trimmed
  <2>1. /\ pc # "entered"
        /\ pc' \notin {"dict", "chain", "find_done", "inserted", "entered"}
    BY <1>2, Places
  <2>2. buckets' = buckets
    BY <1>2 DEF Lower, Lowered, CallTrim, Trim, Trimmed, Inside
  <2> QED
    BY <2>1, <2>2, EnteringAway
<1>3. CASE CallDict \/ CallFind
  BY <1>3, EnteringCalls
<1>4. CASE Compare \/ Prepend
  BY <1>4, EnteringFind
<1>5. CASE Found
  BY <1>5, EnteringFound
<1>6. CASE Inserted
  BY <1>6, EnteringInserted
<1>7. CASE Entered
  BY <1>7, EnteredIs
<1>8. CASE Search \/ Report \/ CallFree \/ Free \/ Freed \/ Exit
  <2>1. /\ pc # "entered"
        /\ pc' \notin {"dict", "chain", "find_done", "inserted", "entered"}
    BY <1>8, Places
  <2>2. buckets' = buckets
    BY <1>8 DEF Search, Report, CallFree, Free, Freed, Exit, Inside
  <2> QED
    BY <2>1, <2>2, EnteringAway
<1>9. CASE Ended \/ UNCHANGED vars
  <2>1. UNCHANGED <<input, from, buffer, buckets, pc, reg, stack, node>>
    BY <1>9 DEF Ended, vars, machine
  <2>2. /\ Home' = Home /\ P!CountedWord' = P!CountedWord
        /\ Absent(P!CountedWord)' = Absent(P!CountedWord)
    BY <2>1, LookupSame
  <2>3. Outcome' = Outcome /\ HasEntry' = HasEntry
    BY <2>1, <2>2 DEF Outcome, HasEntry
  <2> QED
    BY <2>1, <2>2, <2>3 DEF Entering
<1> QED
  BY <1>1, <1>2, <1>3, <1>4, <1>5, <1>6, <1>7, <1>8, <1>9 DEF Next, Step

\* When main starts, the chains are empty.
LEMMA EnteringInit == Init => Entering
<1> SUFFICES ASSUME Init PROVE Entering
  OBVIOUS
<1>1. \A b \in DOMAIN buckets : buckets[b] = <<>>
  BY DEF Init
<1>2. Counted(<<>>) = <<>>
  BY DEF Counted
<1>3. pc = "main"
  BY DEF Init
<1> QED
  BY <1>1, <1>2, <1>3 DEF Entering

\* The chains keep their words, or get one more.
LEMMA CleanCount ==
  ASSUME Calls, Buffered, Chained, Fetching, Spelling, PInv, AllClean, Entering, Inserted \/ Entered
  PROVE  AllClean'
<1>1. pc \in {"inserted", "entered"} /\ pc \in Spelled /\ best_word' = best_word
  BY DEF Inserted, Entered, Spelled, counted
<1>2. /\ Clean(P!CountedWord) /\ Home \in DOMAIN buckets /\ IsSeq(buckets[Home])
      /\ Len(buckets[Home]) \in Nat /\ DOMAIN buckets[Home] = 1 .. Len(buckets[Home])
  BY <1>1, LookingUp
<1> DEFINE h == Home
           q == buckets[h]
<1>3. CASE Inserted
  <2>1. /\ reg.r12 = h /\ Outcome /\ reg.rbp = 2 /\ Local(reg.rbp) = 1
    BY <1>3 DEF Inserted, Entering, Calls, Looking, Local
  <2>2. CASE buckets' = buckets
    BY <1>1, <2>2 DEF AllClean
  <2>3. CASE buckets' # buckets
    <3>1. stack[1] = 1 /\ buckets' = [buckets EXCEPT ![h] = <<node>> \o q]
      BY <1>3, <2>1, <2>3 DEF Inserted
    <3>2. node = [word |-> P!CountedWord, count |-> 0] /\ node.word = P!CountedWord
      BY <2>1, <3>1 DEF Outcome
    <3>3. IsSeq(q) /\ h \in DOMAIN buckets /\ DOMAIN q = 1 .. Len(q)
      BY <1>2
    <3> HIDE DEF q, h
    <3> DEFINE s == <<node>> \o q
    <3>4. /\ IsSeq(s) /\ Len(s) = Len(q) + 1 /\ Len(q) \in Nat /\ s[1] = node
          /\ \A k \in 1 .. Len(q) : s[k + 1] = q[k]
      BY <3>3, PrependIs
    <3> HIDE DEF s
    <3>5. /\ DOMAIN buckets' = DOMAIN buckets /\ buckets'[h] = s
          /\ \A b \in DOMAIN buckets : b # h => buckets'[b] = buckets[b]
      BY <3>1, <3>3 DEF s
    <3>6. \A k \in DOMAIN q : Clean(q[k].word)
      BY <3>3 DEF AllClean, q
    <3>7. DOMAIN s = 1 .. Len(s)
      BY <3>4 DEF IsSeq
    <3>8. ASSUME NEW k \in DOMAIN s PROVE Clean(s[k].word)
      <4>1. CASE k = 1
        BY <1>2, <3>2, <3>4, <4>1
      <4>2. CASE k # 1
        <5>1. k - 1 \in 1 .. Len(q) /\ (k - 1) + 1 = k
          BY <3>4, <3>7, <3>8, <4>2
        <5>2. s[k] = q[k - 1]
          BY <3>4, <5>1
        <5> QED
          BY <3>3, <3>6, <5>1, <5>2
      <4> QED
        BY <4>1, <4>2
    <3>9. \A b \in DOMAIN buckets' : \A k \in DOMAIN buckets'[b] : Clean(buckets'[b][k].word)
      BY <3>5, <3>8 DEF AllClean
    <3>10. Clean(best_word')
      BY <1>1 DEF AllClean
    <3> QED
      BY <3>9, <3>10 DEF AllClean, Clean
  <2> QED
    BY <2>2, <2>3
<1>4. CASE Entered
  <2> DEFINE m == reg.rax
             e == [q[m] EXCEPT !.count = q[m].count + 1]
  <2>1. buckets' = [buckets EXCEPT ![h] = Written(q, m, e)]
    BY <1>4, Zenon DEF Entered, Written
  <2>2. HasEntry /\ m \in DOMAIN q /\ q[m].word = P!CountedWord
    BY <1>4 DEF Entered, Entering, HasEntry
  <2>3. e.word = q[m].word
    OBVIOUS
  <2>4. IsSeq(q) /\ h \in DOMAIN buckets /\ DOMAIN q = 1 .. Len(q)
    BY <1>2
  <2>5. \A k \in DOMAIN q : Clean(q[k].word)
    BY <1>2 DEF AllClean
  <2> HIDE DEF q, h, e, m
  <2>6. DOMAIN Written(q, m, e) = DOMAIN q /\ Written(q, m, e)[m] = e
        /\ \A k \in DOMAIN q : k # m => Written(q, m, e)[k] = q[k]
    BY <2>2 DEF Written
  <2>7. /\ DOMAIN buckets' = DOMAIN buckets /\ buckets'[h] = Written(q, m, e)
        /\ \A b \in DOMAIN buckets : b # h => buckets'[b] = buckets[b]
    BY <2>1, <2>4
  <2>8. \A k \in DOMAIN q : Clean(Written(q, m, e)[k].word)
    BY <2>2, <2>3, <2>5, <2>6
  <2>9. \A b \in DOMAIN buckets' : \A k \in DOMAIN buckets'[b] : Clean(buckets'[b][k].word)
    BY <2>6, <2>7, <2>8 DEF AllClean
  <2> QED
    BY <1>1, <2>9 DEF AllClean
<1> QED
  BY <1>3, <1>4

\* No step puts a terminator into a word.
LEMMA CleanStep ==
  /\ Calls /\ Buffered /\ Chained /\ Fetching /\ Spelling /\ PInv /\ AllClean /\ Entering
  /\ P!Searching
  /\ [Next]_vars
  => AllClean'
<1> SUFFICES ASSUME Calls, Buffered, Chained, Fetching, Spelling, PInv, AllClean, Entering,
                    P!Searching, [Next]_vars
             PROVE  AllClean'
  OBVIOUS
<1>1. CASE Inserted \/ Entered
  BY <1>1, CleanCount
<1>2. CASE Search
  <2>1. UNCHANGED buckets
    BY <1>2 DEF Search
  <2>2. CASE best_word' = best_word
    BY <2>1, <2>2 DEF AllClean
  <2>3. CASE best_word' # best_word
    <3>1. cell[1] < HASHTABLE_SIZE /\ cell[2] <= Len(buckets[cell[1]])
          /\ best_word' = buckets[cell[1]][cell[2]].word
      BY <1>2, <2>3 DEF Search
    <3>2. cell[1] \in DOMAIN buckets /\ cell[2] \in DOMAIN buckets[cell[1]]
      <4>1. cell \in (0 .. HASHTABLE_SIZE) \X (Nat \ {0})
        BY DEF P!Searching
      <4>2. HASHTABLE_SIZE \in Nat
        BY Assumed
      <4>3. cell[1] \in DOMAIN buckets
        BY <3>1, <4>1, <4>2 DEF Chained
      <4>4. DOMAIN buckets[cell[1]] = 1 .. Len(buckets[cell[1]]) /\ Len(buckets[cell[1]]) \in Nat
        BY <4>3 DEF Chained, IsSeq
      <4> QED
        BY <3>1, <4>1, <4>3, <4>4
    <3>3. Clean(best_word')
      BY <3>1, <3>2 DEF AllClean
    <3> QED
      BY <2>1, <3>3 DEF AllClean, Clean
  <2> QED
    BY <2>2, <2>3
<1>3. CASE UNCHANGED <<buckets, best_word>>
  BY <1>3 DEF AllClean
<1>4. CASE CallRead \/ SkipBlank \/ Store \/ StoreFull \/ ReturnWord \/ ReturnNoWord \/ GotWord
  <2>1. UNCHANGED <<buckets, best_word>>
    BY <1>4 DEF CallRead, SkipBlank, Store, StoreFull, ReturnWord, ReturnNoWord, GotWord,
                fgetc, Inside, counted
  <2> QED
    BY <1>3, <2>1
<1>5. CASE \/ Lower \/ Lowered \/ CallTrim \/ Trim \/ Trimmed
           \/ CallDict \/ CallFind \/ Compare \/ Prepend \/ Found
  <2>1. UNCHANGED <<buckets, best_word>>
    BY <1>5 DEF Lower, Lowered, CallTrim, Trim, Trimmed, CallDict, CallFind, Compare, Prepend,
                Found, Inside, counted
  <2> QED
    BY <1>3, <2>1
<1>6. CASE Report \/ CallFree \/ Free \/ Freed \/ Exit \/ Ended \/ UNCHANGED vars
  <2>1. UNCHANGED <<buckets, best_word>>
    BY <1>6 DEF Report, CallFree, Free, Freed, Exit, Ended, vars, Inside, counted
  <2> QED
    BY <1>3, <2>1
<1> QED
  BY <1>1, <1>2, <1>4, <1>5, <1>6 DEF Next, Step

\* At first there are no words.
LEMMA CleanInit == Init => AllClean
<1> SUFFICES ASSUME Init PROVE AllClean
  OBVIOUS
<1>1. \A b \in DOMAIN buckets : buckets[b] = <<>>
  BY DEF Init
<1>2. best_word = <<>>
  BY DEF Init
<1> QED
  BY <1>1, <1>2 DEF AllClean, Clean

-----------------------------------------------------------------------------
(* Every step is one of WordCount, or none.                                *)

\* The total and the phase as WordCount sees them.
Total == IF pc \in Counting THEN total_words - 1 ELSE total_words
\* The phase as it is mapped.
Phase == CASE pc = "search" -> "search"
           [] pc \in {"next_chain", "free", "exit"} -> "end"
           [] OTHER -> "read"

\* The phase at each place.
LEMMA PhaseIs ==
  /\ pc = "search" => Phase = "search"
  /\ pc \in {"next_chain", "free", "exit"} => Phase = "end"
  /\ pc \notin {"search", "next_chain", "free", "exit"} => Phase = "read"
  /\ pc \in Counting => Phase = "read"
BY DEF Phase, Counting

\* What changes nothing that WordCount sees.
LEMMA StutterIs ==
  ASSUME Mapped' = Mapped, Total' = Total, Phase' = Phase,
         UNCHANGED <<input, from, unique_words, cell, best_word, best_word_count, words>>
  PROVE  UNCHANGED P!vars
BY DEF P!vars, Mapped, Total, Phase

\* Steps that go on within one part of the program and leave the table alone.
LEMMA StutterStep ==
  ASSUME UNCHANGED <<input, from, buckets, counted>>,
         \/ pc \in Counting /\ pc' \in Counting
         \/ /\ pc \notin Counting \cup {"search", "next_chain", "free", "exit"}
            /\ pc' \notin Counting \cup {"search", "next_chain", "free", "exit"}
         \/ pc \in {"next_chain", "free", "exit"} /\ pc' \in {"next_chain", "free", "exit"}
         \/ pc' = pc
  PROVE  UNCHANGED P!vars
<1>1. UNCHANGED <<total_words, unique_words, cell, best_word, best_word_count, words>>
  BY DEF counted
<1>2. Mapped' = Mapped
  BY DEF Mapped
<1>3. Phase' = Phase
  BY DEF Phase, Counting
<1>4. Total' = Total
  BY <1>1 DEF Total, Counting
<1> QED
  BY <1>1, <1>2, <1>3, <1>4, StutterIs

\* The invariant.
Refines ==
  /\ Calls /\ Buffered /\ Chained
  /\ Fetching /\ Spelling /\ Entering /\ AllClean
  /\ PInv /\ P!Searching /\ P!BestSoFar /\ P!RunsRead
  /\ total_words \in Nat

\* wc_readnext, wc_tolower, wc_trim_non_alpha, wc_dict_find_or_insert and
\* wc_free_chain are parts of a step of WordCount.
LEMMA InnerSteps ==
  ASSUME Refines,
         \/ CallRead \/ SkipBlank \/ Store \/ StoreFull \/ ReturnWord \/ ReturnNoWord
         \/ Lower \/ Lowered \/ CallTrim \/ Trim \/ Trimmed
         \/ CallDict \/ CallFind \/ Compare \/ Prepend \/ Found \/ Inserted
         \/ CallFree \/ Free \/ Freed \/ Exit \/ Ended \/ UNCHANGED vars
  PROVE  UNCHANGED P!vars
<1>1. Calls
  BY DEF Refines
<1>2. CASE CallRead \/ SkipBlank \/ Store \/ StoreFull \/ ReturnWord \/ ReturnNoWord
  <2>1. UNCHANGED <<input, from, buckets, counted>>
    BY <1>2 DEF CallRead, SkipBlank, Store, StoreFull, ReturnWord, ReturnNoWord, fgetc, Inside
  <2>2. /\ pc \notin Counting \cup {"search", "next_chain", "free", "exit"}
        /\ pc' \notin Counting \cup {"search", "next_chain", "free", "exit"}
    BY <1>1, <1>2, Places DEF Counting
  <2> QED
    BY <2>1, <2>2, StutterStep
<1>3. CASE Lower \/ Lowered \/ CallTrim \/ Trim \/ Trimmed
  <2>1. UNCHANGED <<input, from, buckets, counted>>
    BY <1>3 DEF Lower, Lowered, CallTrim, Trim, Trimmed, Inside
  <2>2. pc \in Counting /\ pc' \in Counting
    BY <1>1, <1>3, Places DEF Counting
  <2> QED
    BY <2>1, <2>2, StutterStep
<1>4. CASE CallDict \/ CallFind \/ Compare \/ Prepend \/ Found
  <2>1. UNCHANGED <<input, from, buckets, counted>>
    BY <1>4 DEF CallDict, CallFind, Compare, Prepend, Found, Inside
  <2>2. pc \in Counting /\ pc' \in Counting
    BY <1>1, <1>4, Places DEF Counting
  <2> QED
    BY <2>1, <2>2, StutterStep
<1>5. CASE Inserted
  <2>1. Mapped' = Mapped
    BY <1>5, EnteringInserted DEF Refines
  <2>2. UNCHANGED <<input, from, total_words, unique_words, cell, best_word, best_word_count, words>>
    BY <1>5 DEF Inserted, counted
  <2>3. pc \in Counting /\ pc' \in Counting
    BY <1>1, <1>5, Places DEF Counting
  <2>4. Phase' = Phase
    BY <2>3 DEF Phase, Counting
  <2>5. Total' = Total
    BY <2>2, <2>3 DEF Total, Counting
  <2> QED
    BY <2>1, <2>2, <2>4, <2>5, StutterIs
<1>6. CASE CallFree \/ Free \/ Freed \/ Exit
  <2>1. UNCHANGED <<input, from, buckets, counted>>
    BY <1>6 DEF CallFree, Free, Freed, Exit, Inside
  <2>2. pc \in {"next_chain", "free", "exit"} /\ pc' \in {"next_chain", "free", "exit"}
    BY <1>1, <1>6, Places
  <2> QED
    BY <2>1, <2>2, StutterStep
<1>7. CASE Ended \/ UNCHANGED vars
  <2>1. UNCHANGED <<input, from, buckets, counted, pc>>
    BY <1>7 DEF Ended, vars, machine
  <2> QED
    BY <2>1, StutterStep
<1> QED
  BY <1>2, <1>3, <1>4, <1>5, <1>6, <1>7

\* main, when wc_readnext has returned.
LEMMA GotWordIs ==
  ASSUME Refines, GotWord
  PROVE  P!EndOfInput \/ P!Skip \/ UNCHANGED P!vars
<1>1. /\ pc = "got_word" /\ pc \notin Counting
      /\ UNCHANGED <<input, pos, buckets, unique_words, best_word, best_word_count, cell, words>>
  BY DEF GotWord, Counting
<1>2. Mapped' = Mapped
  BY <1>1 DEF Mapped
<1>3. Fetching /\ total_words \in Nat /\ Phase = "read" /\ Total = total_words
  BY <1>1, PhaseIs DEF Refines, Total
<1>4. IF reg.rax = 0 THEN ~HasWord ELSE HasWord /\ pos = P!After /\ Holds(P!Word)
  BY <1>1, <1>3 DEF Fetching
<1>5. CASE reg.rax = 0
  <2>1. pc' = "search" /\ UNCHANGED <<total_words, from>>
    BY <1>5 DEF GotWord
  <2>2. Phase' = "search" /\ Total' = Total
    BY <1>3, <2>1 DEF Phase, Total, Counting
  <2>3. P!Char(P!Start) = P!EOF
    BY <1>4, <1>5 DEF HasWord
  <2>4. P!EndOfInput
    BY <1>1, <1>2, <1>3, <2>1, <2>2, <2>3 DEF P!EndOfInput, Mapped, Total, Phase
  <2> QED
    BY <2>4
<1>6. CASE reg.rax # 0 /\ buffer[0] = 0
  <2>1. pc' = "main" /\ from' = pos /\ total_words' = total_words
    BY <1>6 DEF GotWord
  <2>2. Phase' = Phase /\ Total' = Total
    BY <1>3, <2>1 DEF Phase, Total, Counting
  <2>3. HasWord /\ pos = P!After /\ Holds(P!Word)
    BY <1>4, <1>6
  <2>4. P!Word \in P!Strings
    BY <1>3, <2>3, WordsAre
  <2>5. Len(P!Word) = 0
    <3>1. Len(P!Word) \in Nat
      BY <2>4, StringIs
    <3> SUFFICES ASSUME 1 \in 1 .. Len(P!Word) PROVE FALSE
      BY <3>1
    <3>2. buffer[1 - 1] = P!Word[1] /\ P!Word[1] # 0
      BY <2>3 DEF Holds
    <3> QED
      BY <1>6, <3>2
  <2>6. P!Word = <<>>
    BY <2>4, <2>5, EmptySeq DEF P!Strings
  <2>7. P!ReadsWord
    BY <1>3, <2>3 DEF P!ReadsWord, HasWord, Phase
  <2>8. P!Skip
    BY <1>1, <1>2, <2>1, <2>2, <2>3, <2>6, <2>7 DEF P!Skip, Mapped, Total, Phase
  <2> QED
    BY <2>8
<1>7. CASE reg.rax # 0 /\ buffer[0] # 0
  <2>1. pc' = "lower" /\ from' = from /\ total_words' = total_words + 1
    BY <1>7 DEF GotWord
  <2>2. Phase' = Phase
    BY <1>3, <2>1 DEF Phase
  <2>3. Total' = Total
    BY <1>3, <2>1 DEF Total, Counting
  <2> QED
    BY <1>1, <1>2, <2>1, <2>2, <2>3, StutterIs
<1> QED
  BY <1>5, <1>6, <1>7

\* main, when wc_dict_find_or_insert has returned.
LEMMA EnteredCounts ==
  ASSUME Refines, Entered
  PROVE  P!CountWord
<1>1. pc = "entered" /\ pc' = "main" /\ pc \in Counting /\ pc' \notin Counting /\ pc \in Spelled
      /\ from' = pos /\ words' = Append(words, String)
      /\ UNCHANGED <<input, total_words, cell, best_word, best_word_count>>
  BY DEF Entered, Counting, Spelled
<1>2. /\ Calls /\ Buffered /\ Chained /\ Fetching /\ Spelling /\ Entering /\ PInv
      /\ total_words \in Nat
  BY DEF Refines
<1>3. HasWord /\ pos = P!After /\ P!Word # <<>>
  BY <1>1, <1>2 DEF Spelling
<1>4. String = P!CountedWord
  BY <1>1, <1>2, LookingUp
<1>5. P!Count(P!CountedWord)
  BY <1>2, EnteredIs
<1>6. Phase = "read" /\ Phase' = "read" /\ Total' = Total + 1
  BY <1>1, <1>2 DEF Phase, Total, Counting
<1>7. P!ReadsWord
  BY <1>3, <1>6 DEF P!ReadsWord, HasWord, Phase
<1> QED
  BY <1>1, <1>3, <1>4, <1>5, <1>6, <1>7 DEF P!CountWord, P!CountedWord, Total, Phase

\* The search of main.
LEMMA SearchIs ==
  ASSUME Refines, Search
  PROVE  P!Search
<1>1. /\ pc = "search" /\ pc' = "search" /\ cell[1] < HASHTABLE_SIZE
      /\ UNCHANGED <<input, from, buckets, total_words, unique_words, words>>
  BY DEF Search, machine
<1>2. Settled /\ PInv /\ Chained /\ AllClean /\ P!Searching
  BY <1>1 DEF Refines, Entering, Settled
<1>3. Mapped' = Mapped /\ Total' = Total /\ Phase' = Phase /\ Phase = "search"
  BY <1>1 DEF Mapped, Total, Phase
<1>4. cell \in (0 .. HASHTABLE_SIZE) \X (Nat \ {0}) /\ best_word \in P!Strings
  BY <1>2 DEF P!Searching
<1>5. cell[1] \in 0 .. HASHTABLE_SIZE - 1 /\ cell[1] \in DOMAIN buckets /\ cell[2] \in Nat \ {0}
  <2>1. HASHTABLE_SIZE \in Nat
    BY Assumed
  <2> QED
    BY <1>1, <1>2, <1>4, <2>1 DEF Chained
<1> DEFINE b == cell[1]
           q == buckets[b]
           e == q[cell[2]]
<1>6. /\ Len(q) \in Nat /\ DOMAIN q = 1 .. Len(q) /\ P!Entries(b) = 1 .. Len(q)
      /\ \A k \in 1 .. Len(q) : q[k].word \in P!Strings
  <2>1. Counted(buckets[b]) = buckets[b]
    BY <1>2, <1>5 DEF Settled
  <2> QED
    BY <1>2, <1>5, <2>1, TableIs
<1>7. Mapped[b] = q
  BY <1>2, <1>5, MappedIs
<1>8. cell[2] \in P!Entries(b) <=> cell[2] <= Len(q)
  <2> HIDE DEF q, b
  <2> QED
    BY <1>5, <1>6
<1>9. ASSUME cell[2] <= Len(q)
      PROVE  Better(e) <=> P!Better(e)
  <2>1. cell[2] \in 1 .. Len(q)
    BY <1>6, <1>8, <1>9
  <2>2. e.word \in P!Strings /\ Clean(e.word) /\ Clean(best_word)
    BY <1>2, <1>5, <1>6, <2>1 DEF AllClean
  <2> HIDE DEF e
  <2>3. wc_str_compare(e.word, best_word) < 0 <=> P!Less(e.word, best_word)
    BY <1>4, <2>2, CompareIs
  <2> QED
    BY <2>3 DEF Better, P!Better
<1>10. CASE cell[2] <= Len(q)
  <2>1. /\ cell' = <<cell[1], cell[2] + 1>>
        /\ best_word' = IF Better(e) THEN e.word ELSE best_word
        /\ best_word_count' = IF Better(e) THEN e.count ELSE best_word_count
    BY <1>10 DEF Search
  <2>2. cell[2] \in P!Entries(b) /\ (Better(e) <=> P!Better(e)) /\ Mapped[cell[1]][cell[2]] = e
    BY <1>7, <1>8, <1>9, <1>10
  <2>3. /\ best_word' = IF P!Better(e) THEN e.word ELSE best_word
        /\ best_word_count' = IF P!Better(e) THEN e.count ELSE best_word_count
    BY <2>1, <2>2
  <2> HIDE DEF e, q
  <2> QED
    BY <1>1, <1>3, <2>1, <2>2, <2>3 DEF P!Search, Mapped, Total, Phase
<1>11. CASE ~(cell[2] <= Len(q))
  <2>1. cell' = <<cell[1] + 1, 1>> /\ UNCHANGED <<best_word, best_word_count>>
    BY <1>11 DEF Search
  <2>2. cell[2] \notin P!Entries(cell[1])
    BY <1>8, <1>11
  <2> HIDE DEF e, q
  <2> QED
    BY <1>1, <1>3, <2>1, <2>2 DEF P!Search, Mapped, Total, Phase
<1> QED
  BY <1>10, <1>11

\* The end of the search.
LEMMA ReportIs ==
  ASSUME Refines, Report
  PROVE  P!Finish
<1>1. /\ pc = "search" /\ pc' = "next_chain" /\ cell[1] = HASHTABLE_SIZE
      /\ UNCHANGED <<input, from, buckets, counted>>
  BY DEF Report, Inside
<1>2. UNCHANGED <<total_words, unique_words, cell, best_word, best_word_count, words>>
  BY <1>1 DEF counted
<1>3. Mapped' = Mapped /\ Phase = "search" /\ Phase' = "end"
  BY <1>1 DEF Mapped, Phase
<1>4. Total' = Total
  BY <1>1, <1>2 DEF Total, Counting
<1> QED
  BY <1>1, <1>2, <1>3, <1>4 DEF P!Finish, Mapped, Total, Phase

\* Every step of the functions in assembly is a step of WordCount, or none.
LEMMA StepRefines == Refines /\ [Next]_vars => [P!Next]_P!vars
<1> SUFFICES ASSUME Refines, [Next]_vars PROVE P!Next \/ UNCHANGED P!vars
  OBVIOUS
<1>1. CASE \/ CallRead \/ SkipBlank \/ Store \/ StoreFull \/ ReturnWord \/ ReturnNoWord
           \/ Lower \/ Lowered \/ CallTrim \/ Trim \/ Trimmed
           \/ CallDict \/ CallFind \/ Compare \/ Prepend \/ Found \/ Inserted
           \/ CallFree \/ Free \/ Freed \/ Exit \/ Ended \/ UNCHANGED vars
  BY <1>1, InnerSteps
<1>2. CASE GotWord
  BY <1>2, GotWordIs DEF P!Next
<1>3. CASE Entered
  BY <1>3, EnteredCounts DEF P!Next
<1>4. CASE Search
  BY <1>4, SearchIs DEF P!Next
<1>5. CASE Report
  BY <1>5, ReportIs DEF P!Next
<1> QED
  BY <1>1, <1>2, <1>3, <1>4, <1>5 DEF Next, Step

-----------------------------------------------------------------------------
(* The refinement, and what it carries over.                               *)

\* The program starts where WordCount does.
LEMMA InitRefines == Init => P!Init
<1> SUFFICES ASSUME Init PROVE P!Init
  OBVIOUS
<1>1. /\ input \in Inputs /\ from = 1 /\ pc = "main" /\ total_words = 0 /\ unique_words = 0
      /\ cell = <<0, 1>> /\ best_word = <<>> /\ best_word_count = 0 /\ words = <<>>
      /\ buckets = [b \in 0 .. HASHTABLE_SIZE - 1 |-> <<>>]
  BY DEF Init
<1>2. Counted(<<>>) = <<>>
  BY DEF Counted
<1>3. Mapped = [b \in 0 .. HASHTABLE_SIZE - 1 |-> <<>>]
  BY <1>1, <1>2 DEF Mapped
<1>4. Total = 0 /\ Phase = "read"
  BY <1>1 DEF Total, Phase, Counting
<1> QED
  BY <1>1, <1>3, <1>4 DEF P!Init, Mapped, Total, Phase

\* The invariant holds when main starts.
LEMMA RefinesInit == Init => Refines
<1> SUFFICES ASSUME Init PROVE Refines
  OBVIOUS
<1>1. P!Init
  BY InitRefines
<1>2. PInv /\ P!Searching /\ P!BestSoFar /\ P!RunsRead
  BY <1>1, Assumed, P!TableInit, P!BestInit, P!RunsInit DEF PInv
<1>3. total_words \in Nat
  BY DEF Init
<1> QED
  BY <1>2, <1>3, CallsInit, BufferedInit, ChainedInit, FetchingInit, SpellingInit,
     EnteringInit, CleanInit DEF Refines

\* Every step keeps it.
LEMMA RefinesStep == Refines /\ [Next]_vars => Refines'
<1> SUFFICES ASSUME Refines, [Next]_vars PROVE Refines'
  OBVIOUS
<1>1. /\ Calls /\ Buffered /\ Chained /\ Fetching /\ Spelling /\ Entering /\ AllClean
      /\ PInv /\ P!Searching /\ P!BestSoFar /\ P!RunsRead /\ total_words \in Nat
  BY DEF Refines
<1>2. [P!Next]_P!vars
  BY StepRefines
<1>3. P!WordAssumption /\ P!Placed
  BY <1>1, Assumed, PlacedIs
<1>4. PInv'
  BY <1>1, <1>2, <1>3, P!TableStep DEF PInv
<1>5. P!Searching' /\ P!BestSoFar'
  BY <1>1, <1>2, <1>3, P!BestStep DEF PInv
<1>6. P!RunsRead'
  <2>1. words \in Seq(P!Strings)
    BY <1>1 DEF PInv, P!Table, P!Typed
  <2> QED
    BY <1>1, <1>2, <1>3, <2>1, P!RunsStep
<1>7. total_words' \in Nat
  <2>1. CASE GotWord
    BY <1>1, <2>1 DEF GotWord
  <2>2. CASE CallRead \/ SkipBlank \/ Store \/ StoreFull \/ ReturnWord \/ ReturnNoWord
    BY <1>1, <2>2 DEF CallRead, SkipBlank, Store, StoreFull, ReturnWord, ReturnNoWord,
                      fgetc, Inside, counted
  <2>3. CASE \/ Lower \/ Lowered \/ CallTrim \/ Trim \/ Trimmed
             \/ CallDict \/ CallFind \/ Compare \/ Prepend \/ Found
    BY <1>1, <2>3 DEF Lower, Lowered, CallTrim, Trim, Trimmed, CallDict, CallFind, Compare,
                      Prepend, Found, Inside, counted
  <2>4. CASE Inserted \/ Entered \/ Search
    BY <1>1, <2>4 DEF Inserted, Entered, Search, counted
  <2>5. CASE Report \/ CallFree \/ Free \/ Freed \/ Exit \/ Ended \/ UNCHANGED vars
    BY <1>1, <2>5 DEF Report, CallFree, Free, Freed, Exit, Ended, vars, Inside, counted
  <2> QED
    BY <2>1, <2>2, <2>3, <2>4, <2>5 DEF Next, Step
<1>8. Calls' /\ Buffered' /\ Chained' /\ Fetching' /\ Spelling'
  BY <1>1, CallsStep, BufferedStep, ChainedStep, FetchingStep, SpellingStep
<1>9. Entering' /\ AllClean'
  BY <1>1, EnteringStep, CleanStep
<1> QED
  BY <1>4, <1>5, <1>7, <1>8, <1>9, <1>6 DEF Refines

\* P and C are instances of the same definitions.
LEMMA SameInit == P!Init <=> C!Init
BY DEF P!Init, C!Init

\* They read alike.
LEMMA SameReading ==
  /\ P!ReadsWord <=> C!ReadsWord
  /\ P!Word = C!Word /\ P!After = C!After
  /\ P!Char(P!Start) = C!Char(C!Start) /\ P!EOF = C!EOF
<1>1. \A k : P!Char(k) = C!Char(k)
  BY DEF P!Char, C!Char, P!EOF, C!EOF
<1>2. P!Start = C!Start
  BY <1>1 DEF P!Start, C!Start, P!wc_isspace, C!wc_isspace
<1>3. \A k : P!AtEnd(k) = C!AtEnd(k)
  BY <1>1 DEF P!AtEnd, C!AtEnd, P!EOF, C!EOF, P!wc_isspace, C!wc_isspace
<1>4. P!Stored = C!Stored
  BY <1>2, <1>3 DEF P!Stored, C!Stored
<1>5. P!Word = C!Word
  BY <1>2, <1>4 DEF P!Word, C!Word, P!Terminated, C!Terminated, P!Min, C!Min
<1>6. P!After = C!After
  BY <1>2, <1>4 DEF P!After, C!After, P!Min, C!Min
<1>7. P!ReadsWord <=> C!ReadsWord
  BY <1>1, <1>2 DEF P!ReadsWord, C!ReadsWord, P!EOF, C!EOF
<1> QED
  BY <1>1, <1>2, <1>5, <1>6, <1>7 DEF P!EOF, C!EOF

\* They file words alike.
LEMMA SameFiling ==
  ASSUME NEW w
  PROVE  /\ P!Bucket(w) = C!Bucket(w) /\ P!Found(w) = C!Found(w)
         /\ P!Count(w) <=> C!Count(w)
<1>1. P!Bucket(w) = C!Bucket(w)
  BY DEF P!Bucket, C!Bucket, P!wc_hash, C!wc_hash
<1>2. P!Found(w) = C!Found(w)
  BY <1>1 DEF P!Found, C!Found, P!Entries, C!Entries
<1>3. P!Min(P!Found(w)) = C!Min(C!Found(w))
  BY <1>2 DEF P!Min, C!Min
<1> QED
  BY <1>1, <1>2, <1>3 DEF P!Count, C!Count

\* They compare words alike.
LEMMA SameOrder ==
  ASSUME NEW s, NEW t
  PROVE  P!Less(s, t) <=> C!Less(s, t)
BY DEF P!Less, C!Less

\* They lower and trim alike.
LEMMA SameSpelling ==
  ASSUME NEW w
  PROVE  P!wc_trim_non_alpha(P!wc_tolower(w)) = C!wc_trim_non_alpha(C!wc_tolower(w))
<1>1. P!wc_tolower(w) = C!wc_tolower(w)
  BY DEF P!wc_tolower, C!wc_tolower, P!wc_isalpha, C!wc_isalpha
<1> QED
  BY <1>1 DEF P!wc_trim_non_alpha, C!wc_trim_non_alpha, P!wc_isalpha, C!wc_isalpha, P!Max, C!Max

\* They take the same steps.
LEMMA SameStep == [P!Next]_P!vars => [C!Next]_C!vars
<1> SUFFICES ASSUME [P!Next]_P!vars PROVE C!Next \/ UNCHANGED C!vars
  OBVIOUS
<1>1. CASE P!Skip
  BY <1>1, SameReading DEF P!Skip, C!Skip, C!Next
<1>2. CASE P!CountWord
  <2>1. P!wc_trim_non_alpha(P!wc_tolower(P!Word)) = C!wc_trim_non_alpha(C!wc_tolower(C!Word))
    BY SameReading, SameSpelling
  <2>2. C!CountWord
    BY <1>2, <2>1, SameReading, SameFiling DEF P!CountWord, C!CountWord
  <2> QED
    BY <2>2 DEF C!Next
<1>3. CASE P!EndOfInput
  BY <1>3, SameReading DEF P!EndOfInput, C!EndOfInput, C!Next
<1>4. CASE P!Search
  <2>1. \A e : P!Better(e) <=> C!Better(e)
    BY SameOrder DEF P!Better, C!Better
  <2>2. C!Search
    BY <1>4, <2>1 DEF P!Search, C!Search, P!Entries, C!Entries
  <2> QED
    BY <2>2 DEF C!Next
<1>5. CASE P!Finish
  BY <1>5 DEF P!Finish, C!Finish, C!Next
<1>6. CASE P!Ended \/ UNCHANGED P!vars
  BY <1>6 DEF P!Ended, P!vars, C!vars
<1> QED
  BY <1>1, <1>2, <1>3, <1>4, <1>5, <1>6 DEF P!Next

\* They count alike.
LEMMA SameCounts ==
  /\ \A w : P!Occurrences(w) = C!Occurrences(w)
  /\ \A s : P!ToSet(s) = C!ToSet(s) /\ P!Cardinality(s) = C!Cardinality(s)
<1>1. \A s : P!Cardinality(s) = C!Cardinality(s)
  BY DEF P!Cardinality, C!Cardinality
<1>2. \A s : P!ToSet(s) = C!ToSet(s)
  BY DEF P!ToSet, C!ToSet
<1>3. \A w : P!Occurrences(w) = C!Occurrences(w)
  BY <1>1 DEF P!Occurrences, C!Occurrences
<1> QED
  BY <1>1, <1>2, <1>3

\* The census is the same.
LEMMA SameCensus == P!Census => C!Census
<1> SUFFICES ASSUME P!Census PROVE C!Census
  OBVIOUS
<1>1. \A b : P!Entries(b) = C!Entries(b)
  BY DEF P!Entries, C!Entries
<1>2. \A w : P!Found(w) = C!Found(w)
  BY SameFiling
<1> QED
  BY <1>1, <1>2, SameCounts DEF P!Census, C!Census

\* And so is the first of the most frequent words.
LEMMA SameBest == P!BestIsFirstOfMostFrequent => C!BestIsFirstOfMostFrequent
<1>1. \A s, t : P!Less(s, t) <=> C!Less(s, t)
  BY SameOrder
<1> QED
  BY <1>1, SameCounts DEF P!BestIsFirstOfMostFrequent, C!BestIsFirstOfMostFrequent

\* The runs are the same.
LEMMA SameRuns == P!WordsAreRuns => C!WordsAreRuns
<1> SUFFICES ASSUME P!WordsAreRuns PROVE C!WordsAreRuns
  OBVIOUS
<1>1. P!RunStarts = C!RunStarts
  BY DEF P!RunStarts, C!RunStarts, P!wc_isspace, C!wc_isspace
<1>2. \A k : P!RunEnd(k) = C!RunEnd(k)
  BY DEF P!RunEnd, C!RunEnd, P!wc_isspace, C!wc_isspace
<1>3. \A k : P!Run(k) = C!Run(k)
  BY <1>2 DEF P!Run, C!Run
<1>4. \A k : P!Rank(k) = C!Rank(k)
  BY <1>1, SameCounts DEF P!Rank, C!Rank
<1>5. \A w : P!wc_trim_non_alpha(P!wc_tolower(w)) = C!wc_trim_non_alpha(C!wc_tolower(w))
  BY SameSpelling
<1> QED
  BY <1>1, <1>3, <1>4, <1>5, SameCounts DEF P!WordsAreRuns, C!WordsAreRuns

(***************************************************************************)
(* casm_wordcount implements c_wordcount: main and the functions of        *)
(* asm_wcfuncs.S take steps of the word count in C, or steps that it does  *)
(* not see, for every input, word length, table and hash codes.            *)
(***************************************************************************)
THEOREM WordCountIsImplemented == Spec => ImplementsWordCount
<1>1. Init => C!Init
  BY InitRefines, SameInit
<1>2. Refines /\ [Next]_vars => [C!Next]_C!vars
  BY StepRefines, SameStep
<1> QED
  BY <1>1, <1>2, RefinesInit, RefinesStep, PTL DEF Spec, ImplementsWordCount, C!Spec

(***************************************************************************)
(* The table that wc_find_or_insert and wc_dict_find_or_insert of          *)
(* asm_wcfuncs.S build is a census of the words, but for the entry that is *)
(* just being made.                                                        *)
(***************************************************************************)
THEOREM TableIsCensus == Spec => []Census
<1>1. Refines => Census
  BY Assumed, P!TableIsCensus, SameCensus DEF Refines, PInv, Census
<1> QED
  BY <1>1, RefinesInit, RefinesStep, PTL DEF Spec

(***************************************************************************)
(* casm_wordcount reports, of the words that occur most often, the first in*)
(* the order of wc_str_compare of asm_wcfuncs.S.                           *)
(***************************************************************************)
THEOREM BestIsReported == Spec => []BestIsFirstOfMostFrequent
<1>1. Refines => BestIsFirstOfMostFrequent
  BY Assumed, P!BestIsBest, SameBest DEF Refines, PInv, BestIsFirstOfMostFrequent
<1> QED
  BY <1>1, RefinesInit, RefinesStep, PTL DEF Spec

(***************************************************************************)
(* wc_readnext of asm_wcfuncs.S neither loses nor splits a word, nor glues *)
(* it to the next one, and the words are counted in the order of the input.*)
(***************************************************************************)
THEOREM RunsAreCounted == Spec => []WordsAreRuns
<1>1. Refines => WordsAreRuns
  <2> SUFFICES ASSUME Refines PROVE WordsAreRuns
    OBVIOUS
  <2>1. Fetching /\ P!RunsRead
    BY DEF Refines
  <2>2. P!Placed
    BY <2>1, PlacedIs
  <2>3. P!WordsAreRuns
    BY <2>1, <2>2, Assumed, P!RunsAreWords
  <2> QED
    BY <2>3, SameRuns DEF WordsAreRuns
<1> QED
  BY <1>1, RefinesInit, RefinesStep, PTL DEF Spec

=============================================================================
