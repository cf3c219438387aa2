---------------------------- MODULE AsmWordCount ----------------------------
(***************************************************************************)
(* casm_wordcount of csf_assign02: main of c_wcmain.c with the functions   *)
(* of asm_wcfuncs.S.  A step is one round of a loop of a function, or what *)
(* main does between two calls.                                            *)
(*                                                                         *)
(* The stack is a sequence of slots of eight bytes with the top at its     *)
(* end; below all calls lies the frame of main.  An address in the stack   *)
(* is a position, one in the buffer an index, one of an entry its place in *)
(* its chain, with 0 for null.  What belongs to main, and return           *)
(* addresses, are negative numbers.  The functions that push no register   *)
(* of their caller (wc_hash, wc_str_compare, wc_str_copy, wc_isspace,      *)
(* wc_isalpha) leave the stack as it was and are operators.                *)
(***************************************************************************)
EXTENDS Integers, Sequences, FiniteSets, SequencesExt

CONSTANTS
  Inputs,          \* the streams: sequences of bytes
  MAX_WORDLEN,     \* the longest word (63)
  HASHTABLE_SIZE,  \* the number of chains (13249)
  HASHCODES        \* the number of hash codes (2^32)

ASSUME WordAssumption ==
  /\ Inputs \subseteq Seq(0 .. 255)
  /\ MAX_WORDLEN \in Nat \ {0}
  /\ HASHTABLE_SIZE \in Nat \ {0}
  /\ HASHCODES \in Nat \ {0}

VARIABLES
  input, pos,      \* the stream, and the index of the byte that fgetc returns next
  buckets,         \* the chains, each from its head on
  total_words, unique_words, best_word, best_word_count,
  cell,            \* the search of main: the chain, and the entry in it
  i,               \* main's count of the chains that it has freed
  pc,              \* where the program is
  reg,             \* the registers that a function keeps for its caller, and rax
  stack,
  buffer,          \* the buffer of main
  node,            \* the entry that malloc returned last
  freed,           \* the entries that were given to free
  from, words      \* history: where the word at hand begins; the words counted

machine == <<pc, reg, stack, buffer, node, freed, i>>
counted == <<total_words, unique_words, best_word, best_word_count, cell, words>>
vars    == <<input, pos, from, buckets, counted, machine>>

-----------------------------------------------------------------------------
(* Calls.                                                                  *)

\* What main keeps on top of its stack and in the registers.
Frame == <<-1, -2>>
Callers == [rax |-> 0, rbp |-> -3, r12 |-> -4, r13 |-> -5, r14 |-> -6, r15 |-> -7]

callee_saved == {"rbp", "r12", "r13", "r14", "r15"}

\* The places that functions return to: four in main, one in
\* wc_dict_find_or_insert, one in the last loop of main.
ReturnAddress ==
  [got_word |-> -11, lowered |-> -12, trimmed |-> -13, entered |-> -14,
   inserted |-> -15, next_chain |-> -16]

InMain == {"main", "got_word", "lowered", "trimmed", "entered", "search", "next_chain", "exit"}

Pad == 0

\* A call and the pushes at the start of the function: registers by their
\* names, and "pad" for a slot that is only reserved.
Called(site, pushes) ==
  stack \o <<ReturnAddress[site]>>
        \o [k \in DOMAIN pushes |-> IF pushes[k] = "pad" THEN Pad ELSE reg[pushes[k]]]

\* The pops at the end of a function, and its return.
Return(pops, rax) ==
  LET top(k) == stack[Len(stack) - k + 1]
  IN /\ reg' = [r \in DOMAIN reg |->
                  IF r \in ToSet(pops) THEN top(CHOOSE k \in DOMAIN pops : pops[k] = r)
                  ELSE IF r = "rax" THEN rax ELSE reg[r]]
     /\ pc' \in {site \in DOMAIN ReturnAddress : ReturnAddress[site] = top(Len(pops) + 1)}
     /\ stack' = SubSeq(stack, 1, Len(stack) - Len(pops) - 1)

-----------------------------------------------------------------------------
(* The functions without a frame.                                          *)

\* MUTANT: only a blank and a tabulator are whitespace.
IsBlank(c) == c \in {9, 32}

wc_isspace(c) == c \in 9 .. 13 \/ c = 32

wc_isalpha(c) == c >= 65 /\ (c <= 90 \/ (c >= 97 /\ c <= 122))

\* mull and addl keep the low half.
wc_hash(w) ==
  LET eax[k \in 0 .. Len(w)] ==
        IF k = 0 THEN 5381 % HASHCODES
        ELSE (((eax[k - 1] * 33) % HASHCODES) + w[k]) % HASHCODES
  IN eax[Len(w)]

\* The byte of a string at an index, or its terminator.
ByteAt(w, k) == IF k <= Len(w) THEN w[k] ELSE 0

\* MUTANT: the loop ends where the first string does.
ComparePrefix(lhs, rhs) ==
  IF \A k \in 1 .. Len(lhs) : lhs[k] = ByteAt(rhs, k) THEN 0
  ELSE LET last == CHOOSE k \in 1 .. Len(lhs) :
                     /\ lhs[k] # ByteAt(rhs, k)
                     /\ \A j \in 1 .. k - 1 : lhs[j] = ByteAt(rhs, j)
       IN lhs[last] - ByteAt(rhs, last)

\* The loop ends at the first difference, or at the end of both.
wc_str_compare(lhs, rhs) ==
  LET last == CHOOSE k \in 1 .. Len(lhs) + 1 :
                /\ ByteAt(lhs, k) # ByteAt(rhs, k) \/ ByteAt(lhs, k) = 0
                /\ \A j \in 1 .. k - 1 : ByteAt(lhs, j) = ByteAt(rhs, j)
  IN ByteAt(lhs, last) - ByteAt(rhs, last)

\* Where the terminator of the buffer is.
End == CHOOSE k \in DOMAIN buffer :
         buffer[k] = 0 /\ \A j \in 0 .. k - 1 : buffer[j] # 0

\* wc_str_copy: the bytes in front of the terminator.
String == [k \in 1 .. End |-> buffer[k - 1]]

\* fgetc, in the low byte of a register; end of file is the byte 255.
Fetched == IF pos <= Len(input) THEN input[pos] ELSE 255

fgetc ==
  /\ pos' = IF pos <= Len(input) THEN pos + 1 ELSE pos
  /\ UNCHANGED <<input, from, buckets, counted, i, node, freed>>

\* A step that leaves everything but the machine as it was.
Inside == UNCHANGED <<input, pos, from, buckets, counted, i>>

-----------------------------------------------------------------------------
(* wc_readnext                                                             *)

\* The buffer has not been written yet: any bytes that are no terminators do.
Init ==
  /\ input \in Inputs /\ pos = 1 /\ from = 1
  /\ buckets = [b \in 0 .. HASHTABLE_SIZE - 1 |-> <<>>]
  /\ total_words = 0 /\ unique_words = 0
  /\ best_word = <<>> /\ best_word_count = 0
  /\ cell = <<0, 1>> /\ i = 0
  /\ pc = "main" /\ reg = Callers /\ stack = Frame
  /\ buffer = [k \in 0 .. MAX_WORDLEN |-> 88]
  /\ node = <<>> /\ freed = {} /\ words = <<>>

\* r12 has the file, r13 goes through the buffer, r14 counts.
CallRead ==
  /\ pc = "main"
  /\ stack' = Called("got_word", <<"r12", "r13", "r14", "r15", "pad">>)
  /\ reg' = [reg EXCEPT !.r12 = 0, !.r13 = 0, !.r14 = 0]
  /\ pc' = "skip_blanks"
  /\ Inside /\ UNCHANGED <<buffer, node, freed>>

SkipBlank ==
  /\ pc = "skip_blanks"
  /\ fgetc
  /\ reg' = [reg EXCEPT !.r15 = Fetched]
  /\ pc' = IF Fetched = 255 THEN "no_word"
           ELSE IF wc_isspace(Fetched) THEN "skip_blanks" ELSE "store"
  /\ UNCHANGED <<stack, buffer>>

\* MUTANT: one character too many is stored.
StoreOneMore ==
  /\ pc = "store" /\ reg.r14 <= MAX_WORDLEN
  /\ buffer' = [buffer EXCEPT ![reg.r13] = reg.r15]
  /\ fgetc
  /\ reg' = [reg EXCEPT !.r13 = @ + 1, !.r14 = @ + 1, !.r15 = Fetched]
  /\ pc' = IF Fetched = 255 \/ wc_isspace(Fetched) THEN "word_read" ELSE "store"
  /\ UNCHANGED stack

\* A character goes to the buffer, and the next one is read.
Store ==
  /\ pc = "store" /\ reg.r14 < MAX_WORDLEN
  /\ buffer' = [buffer EXCEPT ![reg.r13] = reg.r15]
  /\ fgetc
  /\ reg' = [reg EXCEPT !.r13 = @ + 1, !.r14 = @ + 1, !.r15 = Fetched]
  /\ pc' = IF Fetched = 255 \/ wc_isspace(Fetched) THEN "word_read" ELSE "store"
  /\ UNCHANGED stack

StoreFull ==
  /\ pc = "store" /\ reg.r14 >= MAX_WORDLEN
  /\ pc' = "word_read"
  /\ Inside /\ UNCHANGED <<reg, stack, buffer, node, freed>>

\* MUTANT: the registers come back in the order in which they were pushed.
ReturnSwapped ==
  /\ pc = "word_read"
  /\ buffer' = [buffer EXCEPT ![reg.r13] = 0]
  /\ Return(<<"pad", "r12", "r13", "r14", "r15">>, 1)
  /\ Inside /\ UNCHANGED <<node, freed>>

ReturnWord ==
  /\ pc = "word_read"
  /\ buffer' = [buffer EXCEPT ![reg.r13] = 0]
  /\ Return(<<"pad", "r15", "r14", "r13", "r12">>, 1)
  /\ Inside /\ UNCHANGED <<node, freed>>

ReturnNoWord ==
  /\ pc = "no_word"
  /\ Return(<<"pad", "r15", "r14", "r13", "r12">>, 0)
  /\ Inside /\ UNCHANGED <<buffer, node, freed>>

-----------------------------------------------------------------------------
(* wc_tolower and wc_trim_non_alpha                                        *)

\* main goes on to its search, or to the next word if this one is empty, or
\* counts it and calls wc_tolower.
GotWord ==
  /\ pc = "got_word"
  /\ IF reg.rax = 0
     THEN pc' = "search" /\ UNCHANGED <<total_words, from, reg, stack>>
     ELSE IF buffer[0] = 0
     THEN pc' = "main" /\ from' = pos /\ UNCHANGED <<total_words, reg, stack>>
     ELSE /\ total_words' = total_words + 1
          /\ stack' = Called("lowered", <<"pad", "r12", "r13">>)
          /\ reg' = [reg EXCEPT !.r12 = 0]
          /\ pc' = "lower"
          /\ UNCHANGED from
  /\ UNCHANGED <<input, pos, buckets, unique_words, best_word, best_word_count, cell,
                 words, buffer, node, freed, i>>

\* r12 goes through the string, r13 has the letter.
Lower ==
  /\ pc = "lower" /\ buffer[reg.r12] # 0
  /\ LET c == buffer[reg.r12]
         upper == wc_isalpha(c) /\ c < 97
     IN /\ buffer' = [buffer EXCEPT ![reg.r12] = IF upper THEN (c + 32) % 256 ELSE c]
        /\ reg' = [reg EXCEPT !.r13 = c, !.r12 = @ + 1]
  /\ Inside /\ UNCHANGED <<pc, stack, node, freed>>

Lowered ==
  /\ pc = "lower" /\ buffer[reg.r12] = 0
  /\ Return(<<"r13", "r12", "pad">>, reg.rax)
  /\ Inside /\ UNCHANGED <<buffer, node, freed>>

\* r12 becomes the end of the string and r13 its start.  r13 was not pushed.
CallTrim ==
  /\ pc = "lowered"
  /\ stack' = Called("trimmed", <<"r12">>)
  /\ reg' = [reg EXCEPT !.r12 = End, !.r13 = 0]
  /\ pc' = IF End = 0 THEN "trim_done" ELSE "trim"
  /\ Inside /\ UNCHANGED <<buffer, node, freed>>

\* One step back: to a letter, which stays, or to the start of the string.
Trim ==
  /\ pc = "trim"
  /\ LET k == reg.r12 - 1 IN
     IF wc_isalpha(buffer[k])
     THEN buffer' = [buffer EXCEPT ![k + 1] = 0] /\ pc' = "trim_done"
     ELSE IF k = reg.r13
     THEN buffer' = [buffer EXCEPT ![k] = 0] /\ pc' = "trim_done"
     ELSE UNCHANGED <<buffer, pc>>
  /\ reg' = [reg EXCEPT !.r12 = @ - 1]
  /\ Inside /\ UNCHANGED <<stack, node, freed>>

Trimmed ==
  /\ pc = "trim_done"
  /\ Return(<<"r12">>, reg.rax)
  /\ Inside /\ UNCHANGED <<buffer, node, freed>>

-----------------------------------------------------------------------------
(* wc_dict_find_or_insert and wc_find_or_insert                            *)

Home == wc_hash(String) % HASHTABLE_SIZE

\* The slot of 8(%rbp), after rbp was set 16 bytes above the saved rbp: the
\* second slot of the caller (of which a write changes the lower half).
Local(rbp) == rbp - 1

\* 0 goes to the variable that has been declared there; r12 has the chain, r14
\* the string, r15 the hash code.
CallDict ==
  /\ pc = "trimmed"
  /\ LET pushed == Called("entered", <<"rbp", "r12", "r13", "r14", "r15">>)
         rbp == Len(stack) + 2 - 2
     IN /\ stack' = [pushed EXCEPT ![Local(rbp)] = 0]
        /\ reg' = [reg EXCEPT !.rbp = rbp, !.r12 = Home, !.r13 = HASHTABLE_SIZE,
                              !.r14 = 0, !.r15 = Home]
  /\ pc' = "dict"
  /\ Inside /\ UNCHANGED <<buffer, node, freed>>

\* The pointers in a chain: its head, and the successor of an entry.
HeadEntry(b)    == IF buckets[b] = <<>> THEN 0 ELSE 1
NextEntry(b, e) == IF e = Len(buckets[b]) THEN 0 ELSE e + 1

\* r12 goes along the chain, r13 has the string, r14 where to say whether it
\* was inserted, r15 the head of the chain.
CallFind ==
  /\ pc = "dict"
  /\ stack' = Called("inserted", <<"pad", "r12", "r13", "r14", "r15">>)
  /\ reg' = [reg EXCEPT !.r12 = HeadEntry(reg.r12), !.r13 = 0, !.r14 = Local(reg.rbp),
                        !.r15 = HeadEntry(reg.r12)]
  /\ pc' = "chain"
  /\ Inside /\ UNCHANGED <<buffer, node, freed>>

Compare ==
  /\ pc = "chain" /\ reg.r12 # 0
  /\ IF wc_str_compare(String, buckets[Home][reg.r12].word) = 0
     THEN /\ stack' = [stack EXCEPT ![reg.r14] = 0]
          /\ reg' = [reg EXCEPT !.rax = reg.r12]
          /\ pc' = "find_done"
     ELSE /\ reg' = [reg EXCEPT !.r12 = NextEntry(Home, @)]
          /\ UNCHANGED <<stack, pc>>
  /\ Inside /\ UNCHANGED <<buffer, node, freed>>

\* The entry is in front of the chain, but the chain does not have it yet.
Prepend ==
  /\ pc = "chain" /\ reg.r12 = 0
  /\ node' = [word |-> String, count |-> 0]
  /\ stack' = [stack EXCEPT ![reg.r14] = 1]
  /\ reg' = [reg EXCEPT !.rax = 1, !.r12 = 1]
  /\ pc' = "find_done"
  /\ Inside /\ UNCHANGED <<buffer, freed>>

Found ==
  /\ pc = "find_done"
  /\ Return(<<"r15", "r14", "r13", "r12", "pad">>, reg.rax)
  /\ Inside /\ UNCHANGED <<buffer, node, freed>>

\* MUTANT: the new entry has no successor.
InsertedAlone ==
  /\ pc = "inserted"
  /\ buckets' = IF stack[Local(reg.rbp)] = 1
                THEN [buckets EXCEPT ![reg.r12] = <<node>>] ELSE buckets
  /\ Return(<<"r15", "r14", "r13", "r12", "rbp">>, reg.rax)
  /\ UNCHANGED <<input, pos, from, counted, i, buffer, node, freed>>

\* The new entry becomes the head of its chain.
Inserted ==
  /\ pc = "inserted"
  /\ buckets' = IF stack[Local(reg.rbp)] = 1
                THEN [buckets EXCEPT ![reg.r12] = <<node>> \o @] ELSE buckets
  /\ Return(<<"r15", "r14", "r13", "r12", "rbp">>, reg.rax)
  /\ UNCHANGED <<input, pos, from, counted, i, buffer, node, freed>>

\* main counts the word.
Entered ==
  /\ pc = "entered"
  /\ LET count == buckets[Home][reg.rax].count IN
     /\ unique_words' = IF count = 0 THEN unique_words + 1 ELSE unique_words
     /\ buckets' = [buckets EXCEPT ![Home][reg.rax].count = count + 1]
  /\ words' = Append(words, String)
  /\ from' = pos
  /\ pc' = "main"
  /\ UNCHANGED <<input, pos, total_words, best_word, best_word_count, cell,
                 reg, stack, buffer, node, freed, i>>

-----------------------------------------------------------------------------
(* The search, and wc_free_chain                                           *)

\* MUTANT: ties go to the entry that is met last.
BetterOrEqual(entry) == entry.count >= best_word_count

Better(entry) ==
  \/ entry.count > best_word_count
  \/ entry.count = best_word_count /\ wc_str_compare(entry.word, best_word) < 0

Search ==
  /\ pc = "search" /\ cell[1] < HASHTABLE_SIZE
  /\ IF cell[2] <= Len(buckets[cell[1]])
     THEN LET entry == buckets[cell[1]][cell[2]] IN
          /\ cell' = <<cell[1], cell[2] + 1>>
          /\ best_word' = IF Better(entry) THEN entry.word ELSE best_word
          /\ best_word_count' = IF Better(entry) THEN entry.count ELSE best_word_count
     ELSE cell' = <<cell[1] + 1, 1>> /\ UNCHANGED <<best_word, best_word_count>>
  /\ UNCHANGED <<input, pos, from, buckets, total_words, unique_words, words, machine>>

Report ==
  /\ pc = "search" /\ cell[1] = HASHTABLE_SIZE
  /\ pc' = "next_chain"
  /\ Inside /\ UNCHANGED <<reg, stack, buffer, node, freed>>

\* r12 lags behind r13 by the entry that is given to free.
CallFree ==
  /\ pc = "next_chain" /\ i < HASHTABLE_SIZE
  /\ i' = i + 1
  /\ stack' = Called("next_chain", <<"pad", "r12", "r13">>)
  /\ reg' = [reg EXCEPT !.r12 = HeadEntry(i), !.r13 = HeadEntry(i)]
  /\ pc' = "free"
  /\ UNCHANGED <<input, pos, from, buckets, counted, buffer, node, freed>>

Free ==
  /\ pc = "free" /\ reg.r13 # 0
  /\ LET next == NextEntry(i - 1, reg.r13) IN
     /\ freed' = freed \cup {<<i - 1, reg.r12>>}
     /\ reg' = [reg EXCEPT !.r12 = next, !.r13 = next]
  /\ Inside /\ UNCHANGED <<pc, stack, buffer, node>>

Freed ==
  /\ pc = "free" /\ reg.r13 = 0
  /\ Return(<<"r13", "r12", "pad">>, reg.rax)
  /\ Inside /\ UNCHANGED <<buffer, node, freed>>

Exit ==
  /\ pc = "next_chain" /\ i = HASHTABLE_SIZE
  /\ pc' = "exit"
  /\ Inside /\ UNCHANGED <<reg, stack, buffer, node, freed>>

Step ==
  \/ CallRead \/ SkipBlank \/ Store \/ StoreFull \/ ReturnWord \/ ReturnNoWord
  \/ GotWord \/ Lower \/ Lowered \/ CallTrim \/ Trim \/ Trimmed
  \/ CallDict \/ CallFind \/ Compare \/ Prepend \/ Found \/ Inserted \/ Entered
  \/ Search \/ Report \/ CallFree \/ Free \/ Freed \/ Exit

Ended == pc = "exit" /\ UNCHANGED vars

Next == Step \/ Ended

Spec == Init /\ [][Next]_vars

-----------------------------------------------------------------------------
(* Properties.                                                             *)

\* A word counts when main has counted its entry: between its reading and that
\* moment the total is one ahead, and a new entry has the count 0.
Counting == {"lower", "lowered", "trim", "trim_done", "trimmed", "dict", "chain",
             "find_done", "inserted", "entered"}

\* A chain without its new entry, which is at its head.
Counted(chain) ==
  IF chain # <<>> /\ chain[1].count = 0 THEN Tail(chain) ELSE chain

C == INSTANCE WordCount WITH
  pos         <- from,
  buckets     <- [b \in DOMAIN buckets |-> Counted(buckets[b])],
  total_words <- IF pc \in Counting THEN total_words - 1 ELSE total_words,
  phase       <- CASE pc = "search" -> "search"
                   [] pc \in {"next_chain", "free", "exit"} -> "end"
                   [] OTHER -> "read"

(***************************************************************************)
(* The loops over registers do what the functions in C do: each word is    *)
(* read, lowered, trimmed, found or inserted and counted as WordCount says *)
(* (asm_wcfuncs.S:286-706 for c_wcfuncs.c:98-224).                         *)
(***************************************************************************)
ImplementsWordCount == C!Spec

\* In the table of chains each word read has one entry, with the number of its
\* occurrences; there are no others, and the totals agree (WordCount).
Census == C!Census

\* The words counted are the maximal runs of the input, lowered and trimmed, if
\* none is too long and no byte is 0 or 255 (WordCount).
WordsAreRuns == C!WordsAreRuns

\* The word that is printed is the first one, in the alphabet, of those that
\* occur most often (WordCount).
BestIsFirstOfMostFrequent == C!BestIsFirstOfMostFrequent

\* Each function returns to its caller with the stack at its old place and the
\* registers as they were.
CallerKept ==
  pc \in InMain =>
    /\ Len(stack) = Len(Frame) /\ stack[Len(stack)] = Frame[Len(Frame)]
    /\ \A r \in callee_saved \ {"r13"} : reg[r] = Callers[r]

\* Whoever calls fgetc, malloc or free does so with the stack aligned to 16
\* bytes, at whatever depth it was called itself.
Aligned ==
  pc \in {"skip_blanks", "store", "chain", "free"} => (Len(stack) - Len(Frame)) % 2 = 0

(***************************************************************************)
(* The functions keep to the calling convention over all levels of calls,  *)
(* but for two slips: wc_trim_non_alpha uses r13 without saving it         *)
(* (asm_wcfuncs.S:466, against 455), and the local variable of             *)
(* wc_dict_find_or_insert lies in the second slot of its caller            *)
(* (asm_wcfuncs.S:664, against 663).                                       *)
(***************************************************************************)
CallingConvention == CallerKept /\ Aligned

\* The pointers into the buffer stay inside it, and one place is left for the
\* terminator, for words of every length and for words without a letter.
InBuffer ==
  /\ pc = "store" => reg.r13 = reg.r14 /\ reg.r13 <= MAX_WORDLEN
  /\ pc = "lower" => reg.r12 <= MAX_WORDLEN
  /\ pc = "trim"  => reg.r12 > reg.r13

\* No entry is read or freed after it has been freed, and in the end every one
\* has been.
FreedOnce ==
  /\ pc = "free" /\ reg.r13 # 0 => reg.r12 = reg.r13 /\ <<i - 1, reg.r12>> \notin freed
  /\ pc = "exit" => freed = UNION {{b} \X DOMAIN buckets[b] : b \in DOMAIN buckets}

\* Nothing outside the buffer or in a freed entry is touched
\* (asm_wcfuncs.S:329-361, 487-518, 729-750).
MemoryKept == InBuffer /\ FreedOnce
=============================================================================
