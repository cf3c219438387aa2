------------------------------ MODULE WordCount ------------------------------
(***************************************************************************)
(* The word count of csf_assign02 (c_wcfuncs.c, c_wcmain.c): words are     *)
(* read from a stream of bytes into a buffer of limited size, lowered and  *)
(* trimmed, and counted in the chains of a hash table; then the chains are *)
(* searched for the most frequent word.  A step is one word, or one entry  *)
(* of the search.  Words are sequences of bytes, without the terminator.   *)
(* AsmWordCount has the loops, and implements this specification.          *)
(***************************************************************************)
EXTENDS Integers, Sequences, FiniteSets, SequencesExt

CONSTANTS
  Inputs,          \* the streams: sequences of bytes
  MAX_WORDLEN,     \* the longest word (63)
  HASHTABLE_SIZE,  \* the number of chains (13249)
  HASHCODES        \* the number of hash codes (2^32)

VARIABLES
  input,       \* the stream
  pos,         \* the index of the byte that fgetc returns next
  buckets,     \* the chains, each from its head on
  total_words, unique_words,
  phase,       \* "read", "search" or "end"
  cell,        \* the search: the chain, and the entry in it
  best_word, best_word_count,
  words        \* history: the words counted so far

vars == <<input, pos, buckets, total_words, unique_words, phase, cell,
          best_word, best_word_count, words>>

Init ==
  /\ input \in Inputs /\ pos = 1
  /\ buckets = [b \in 0 .. HASHTABLE_SIZE - 1 |-> <<>>]
  /\ total_words = 0 /\ unique_words = 0
  /\ phase = "read" /\ cell = <<0, 1>>
  /\ best_word = <<>> /\ best_word_count = 0
  /\ words = <<>>

-----------------------------------------------------------------------------
(* Strings.                                                                *)

wc_isspace(c) == c \in {32, 9, 13, 10, 12, 11}

wc_isalpha(c) == c \in 65 .. 90 \/ c \in 97 .. 122

wc_hash(w) ==
  LET code[k \in 0 .. Len(w)] ==
        IF k = 0 THEN 5381 % HASHCODES ELSE (code[k - 1] * 33 + w[k]) % HASHCODES
  IN code[Len(w)]

\* wc_str_compare(s, t) < 0: the first difference decides, and the terminator
\* is less than every byte.
Less(s, t) ==
  \E i \in 1 .. Len(t) :
    /\ \A j \in 1 .. i - 1 : j <= Len(s) /\ s[j] = t[j]
    /\ i > Len(s) \/ s[i] < t[i]

wc_tolower(w) ==
  [i \in DOMAIN w |-> IF wc_isalpha(w[i]) /\ w[i] < 97 THEN w[i] + 32 ELSE w[i]]

wc_trim_non_alpha(w) ==
  SubSeq(w, 1, Max({0} \cup {i \in DOMAIN w : wc_isalpha(w[i])}))

-----------------------------------------------------------------------------
(* Reading.                                                                *)

EOF == -1

\* fgetc stored in a char: the byte 255 is EOF, too.
Char(i) == IF i > Len(input) \/ input[i] = 255 THEN EOF ELSE input[i]

AtEnd(i) == Char(i) = EOF \/ wc_isspace(Char(i))

\* Where the leading whitespace ends.
Start == CHOOSE i \in pos .. Len(input) + 1 :
           /\ ~wc_isspace(Char(i))
           /\ \A j \in pos .. i - 1 : wc_isspace(Char(j))

\* How many bytes are stored: up to whitespace, EOF, or what the buffer holds.
Stored == CHOOSE n \in 1 .. MAX_WORDLEN :
            /\ n = MAX_WORDLEN \/ AtEnd(Start + n)
            /\ \A k \in 1 .. n - 1 : ~AtEnd(Start + k)

\* What the callers see of the buffer.
Terminated(w) ==
  SubSeq(w, 1, Min({Len(w)} \cup {i - 1 : i \in {j \in DOMAIN w : w[j] = 0}}))

\* wc_readnext returns 1.  The byte behind the word has been read as well.
ReadsWord == phase = "read" /\ Char(Start) # EOF

Word == Terminated(SubSeq(input, Start, Start + Stored - 1))

After == Min({Start + Stored + 1, Len(input) + 1})

-----------------------------------------------------------------------------
(* Counting.                                                               *)

Bucket(w) == wc_hash(w) % HASHTABLE_SIZE

Entries(b) == 1 .. Len(buckets[b])

Found(w) == {i \in Entries(Bucket(w)) : buckets[Bucket(w)][i].word = w}

\* A word that is in its chain is counted there, another one becomes its head.
Count(w) ==
  IF Found(w) # {}
  THEN /\ buckets' = [buckets EXCEPT ![Bucket(w)][Min(Found(w))].count = @ + 1]
       /\ UNCHANGED unique_words
  ELSE /\ buckets' = [buckets EXCEPT ![Bucket(w)] = <<[word |-> w, count |-> 1]>> \o @]
       /\ unique_words' = unique_words + 1

Skip ==
  /\ ReadsWord /\ Word = <<>>
  /\ pos' = After
  /\ UNCHANGED <<input, buckets, total_words, unique_words, phase, cell,
                 best_word, best_word_count, words>>

CountWord ==
  LET w == wc_trim_non_alpha(wc_tolower(Word)) IN
  /\ ReadsWord /\ Word # <<>>
  /\ pos' = After
  /\ total_words' = total_words + 1
  /\ Count(w)
  /\ words' = Append(words, w)
  /\ UNCHANGED <<input, phase, cell, best_word, best_word_count>>

EndOfInput ==
  /\ phase = "read" /\ Char(Start) = EOF
  /\ phase' = "search"
  /\ UNCHANGED <<input, pos, buckets, total_words, unique_words, cell,
                 best_word, best_word_count, words>>

Better(entry) ==
  \/ entry.count > best_word_count
  \/ entry.count = best_word_count /\ Less(entry.word, best_word)

Search ==
  /\ phase = "search" /\ cell[1] < HASHTABLE_SIZE
  /\ IF cell[2] \in Entries(cell[1])
     THEN LET entry == buckets[cell[1]][cell[2]] IN
          /\ cell' = <<cell[1], cell[2] + 1>>
          /\ best_word' = IF Better(entry) THEN entry.word ELSE best_word
          /\ best_word_count' = IF Better(entry) THEN entry.count ELSE best_word_count
     ELSE cell' = <<cell[1] + 1, 1>> /\ UNCHANGED <<best_word, best_word_count>>
  /\ UNCHANGED <<input, pos, buckets, total_words, unique_words, phase, words>>

Finish ==
  /\ phase = "search" /\ cell[1] = HASHTABLE_SIZE
  /\ phase' = "end"
  /\ UNCHANGED <<input, pos, buckets, total_words, unique_words, cell,
                 best_word, best_word_count, words>>

Ended == phase = "end" /\ UNCHANGED vars

Next == Skip \/ CountWord \/ EndOfInput \/ Search \/ Finish \/ Ended

Spec == Init /\ [][Next]_vars

-----------------------------------------------------------------------------
(* Properties.                                                             *)

Occurrences(w) == Cardinality({i \in DOMAIN words : words[i] = w})

(***************************************************************************)
(* The table is a census of the words read so far: each word has exactly   *)
(* one entry in all chains, with the number of its occurrences, whatever   *)
(* other words share its chain and in whatever order they came; there is   *)
(* no other entry; and the two totals agree with the entries               *)
(* (c_wcfuncs.c:181-224, c_wcmain.c:49-62).                                *)
(***************************************************************************)
Census ==
  /\ \A b \in DOMAIN buckets : \A i \in Entries(b) :
       LET entry == buckets[b][i] IN
       /\ entry.count = Occurrences(entry.word) /\ entry.count > 0
       /\ \A c \in DOMAIN buckets : \A j \in Entries(c) :
            buckets[c][j].word = entry.word => <<c, j>> = <<b, i>>
  /\ \A w \in ToSet(words) : Found(w) # {}
  /\ total_words = Len(words)
  /\ unique_words = Cardinality(ToSet(words))

\* Where the maximal runs of bytes that are not whitespace begin, and one of them.
RunStarts ==
  {i \in DOMAIN input : ~wc_isspace(input[i]) /\ (i = 1 \/ wc_isspace(input[i - 1]))}

RunEnd(i) == CHOOSE j \in i .. Len(input) :
               /\ j = Len(input) \/ wc_isspace(input[j + 1])
               /\ \A k \in i .. j : ~wc_isspace(input[k])

Run(i) == SubSeq(input, i, RunEnd(i))

\* The first run, the second one, and so on.
Rank(i) == Cardinality({j \in RunStarts : j <= i})

(***************************************************************************)
(* The words counted are the maximal runs of non-whitespace bytes, lowered *)
(* and trimmed (c_wcfuncs.c:96-97), in their order and none lost at the    *)
(* end of the input or at the limit of the buffer, as long as no run is    *)
(* longer than MAX_WORDLEN, and the input has neither a byte 255, which    *)
(* ends it early, nor a terminator.                                        *)
(***************************************************************************)
WordsAreRuns ==
  /\ phase # "read" /\ {0, 255} \cap ToSet(input) = {}
  /\ \A i \in RunStarts : Len(Run(i)) <= MAX_WORDLEN
  => /\ Len(words) = Cardinality(RunStarts)
     /\ \A i \in RunStarts : words[Rank(i)] = wc_trim_non_alpha(wc_tolower(Run(i)))

(***************************************************************************)
(* What is printed as the most frequent word occurs most often, that many  *)
(* times, and is the first in the alphabet of those that do, although the  *)
(* search meets the words in the order of hash codes (c_wcmain.c:65-81).   *)
(***************************************************************************)
BestIsFirstOfMostFrequent ==
  phase = "end" /\ words # <<>> =>
    /\ best_word \in ToSet(words)
    /\ best_word_count = Occurrences(best_word)
    /\ \A w \in ToSet(words) :
         \/ Occurrences(w) < best_word_count
         \/ Occurrences(w) = best_word_count /\ ~Less(w, best_word)
=============================================================================
