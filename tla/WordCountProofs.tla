-------------------------- MODULE WordCountProofs --------------------------
(***************************************************************************)
(* The word count of csf_assign02: the table is a census of the words that *)
(* were counted, the search reports the first of the most frequent ones,   *)
(* and the words counted are the runs between whitespace of the input.     *)
(*                                                                         *)
(* The invariant has five parts.  Placed says where the stream is.  Table  *)
(* says that each entry is in the chain of its hash code, that no word has *)
(* two, that its count is how often the word was counted, and that every   *)
(* word has one; the totals follow.  Searching ties the phase to the cell, *)
(* and BestSoFar says that no entry the search has met is better than the  *)
(* best so far, which is one of the entries.  RunsRead says that the words *)
(* are the runs that begin before the place in the stream, which is not    *)
(* inside a run.  Nothing is assumed of the hash codes but that they are   *)
(* numbers below HASHCODES: words may share a code, or a chain.            *)
(***************************************************************************)
EXTENDS WordCount, FiniteSetTheorems, SequenceTheorems, WellFoundedInduction, TLAPS

\* What a byte of a char may be.
Bytes == 0 .. 255

\* The strings, without their terminators.
Strings == Seq(Bytes)

\* What the source and its buffers allow.
WordAssumption ==
  /\ Inputs \subseteq Strings
  /\ MAX_WORDLEN \in Nat \ {0}
  /\ HASHTABLE_SIZE \in Nat \ {0}
  /\ HASHCODES \in Nat \ {0}

-----------------------------------------------------------------------------
(* Numbers.                                                                *)

\* A set of numbers that is not empty has a least one.
LEMMA LeastIs ==
  ASSUME NEW S, S \subseteq Nat, S # {}
  PROVE  \E m \in S : \A k \in S : m <= k
<1>1. PICK m \in S : \A k \in S : ~(<<k, m>> \in OpToRel(<, Nat))
  BY NatLessThanWellFounded, WFMin, Zenon
<1>2. \A k \in S : ~(k < m)
  <2> SUFFICES ASSUME NEW k \in S, k < m PROVE FALSE
    OBVIOUS
  <2>1. k \in Nat /\ m \in Nat
    BY <1>1, Zenon
  <2>2. <<k, m>> \in OpToRel(<, Nat)
    BY <2>1, Zenon DEF OpToRel
  <2> QED
    BY <1>1, <2>2
<1>3. \A k \in S : k \in Nat /\ m \in Nat
  BY <1>1, Zenon
<1>4. ASSUME NEW k \in S PROVE m <= k
  BY <1>2, <1>3
<1> QED
  BY <1>1, <1>4

\* Min of the community modules is the least element.
LEMMA MinIs ==
  ASSUME NEW S, S \subseteq Nat, S # {}
  PROVE  Min(S) \in S /\ \A k \in S : Min(S) <= k
<1>1. \E m \in S : \A k \in S : m <= k
  BY LeastIs
<1> QED
  BY <1>1, Zenon DEF Min

\* One below a bound has a greatest one.
LEMMA MaxIs ==
  ASSUME NEW n \in Nat, NEW S, S \subseteq 0 .. n, S # {}
  PROVE  Max(S) \in S /\ \A k \in S : k <= Max(S)
<1> DEFINE T == {n - k : k \in S}
<1>1. T \subseteq Nat /\ T # {}
  <2>1. \A k \in S : k \in 0 .. n
    BY Zenon
  <2>2. \A k \in S : n - k \in Nat
    BY <2>1
  <2> QED
    BY <2>2
<1>2. PICK m \in T : \A k \in T : m <= k
  BY <1>1, LeastIs
<1>3. PICK g \in S : m = n - g
  BY <1>2
<1>4. ASSUME NEW k \in S PROVE k <= g
  <2>1. k \in 0 .. n /\ g \in 0 .. n
    BY <1>3, Zenon
  <2>2. m <= n - k
    BY <1>2
  <2> QED
    BY <1>3, <2>1, <2>2
<1>5. \E x \in S : \A k \in S : x >= k
  BY <1>3, <1>4
<1>6. Max(S) \in S /\ \A k \in S : Max(S) >= k
  BY <1>5, Zenon DEF Max
<1> QED
  BY <1>6

\* Induction over the first numbers.
LEMMA Climb ==
  ASSUME NEW n \in Nat, NEW S, 0 \in S, \A k \in 0 .. n - 1 : k \in S => k + 1 \in S
  PROVE  \A k \in 0 .. n : k \in S
<1> DEFINE T == {k \in 0 .. n : k \notin S}
<1> SUFFICES ASSUME T # {} PROVE FALSE
  OBVIOUS
<1>1. T \subseteq Nat
  OBVIOUS
<1>2. PICK m \in T : \A k \in T : m <= k
  BY <1>1, LeastIs
<1>3. m \in 0 .. n /\ m # 0 /\ m \notin S
  BY <1>2
<1>4. m - 1 \in 0 .. n - 1 /\ m - 1 \notin T
  BY <1>2, <1>3
<1>5. m - 1 \in S
  BY <1>4
<1>6. (m - 1) + 1 \in S
  BY <1>4, <1>5
<1> QED
  BY <1>3, <1>6

-----------------------------------------------------------------------------
(* Hash codes.                                                             *)

\* The hash codes.
Codes == 0 .. HASHCODES - 1

\* c holds the codes of the first bytes of w, up to n of them.
CodesOf(c, w, n) ==
  /\ c[0] = 5381 % HASHCODES
  /\ \A k \in 1 .. n : c[k] = (c[k - 1] * 33 + w[k]) % HASHCODES

\* There is such a function.
LEMMA CodesExist ==
  ASSUME WordAssumption, NEW w \in Seq(Nat)
  PROVE  \E c \in [0 .. Len(w) -> Codes] : CodesOf(c, w, Len(w))
<1> DEFINE S == {n \in Nat : \E c \in [0 .. n -> Codes] : CodesOf(c, w, n)}
<1>1. HASHCODES \in Nat \ {0} /\ Len(w) \in Nat /\ \A k \in 1 .. Len(w) : w[k] \in Nat
  BY LenProperties, ElementOfSeq DEF WordAssumption
<1>2. 0 \in S
  <2> DEFINE c == [k \in 0 .. 0 |-> 5381 % HASHCODES]
  <2>1. c \in [0 .. 0 -> Codes]
    BY <1>1 DEF Codes
  <2>2. CodesOf(c, w, 0)
    BY DEF CodesOf
  <2> QED
    BY <2>1, <2>2
<1>3. ASSUME NEW n \in 0 .. Len(w) - 1, n \in S PROVE n + 1 \in S
  <2>1. PICK c \in [0 .. n -> Codes] : CodesOf(c, w, n)
    BY <1>3
  <2> DEFINE x == (c[n] * 33 + w[n + 1]) % HASHCODES
             d == [k \in 0 .. n + 1 |-> IF k = n + 1 THEN x ELSE c[k]]
  <2>2. n \in Nat /\ c[n] \in Nat /\ w[n + 1] \in Nat /\ n + 1 \in Nat
    BY <1>1, <1>3, <2>1 DEF Codes
  <2>3. x \in Codes
    <3> DEFINE a == c[n] * 33 + w[n + 1]
    <3>1. a \in Int
      BY <2>2
    <3> HIDE DEF a
    <3>2. a % HASHCODES \in 0 .. HASHCODES - 1
      BY <1>1, <3>1, SMTT(30)
    <3> QED
      BY <3>2 DEF a, Codes
  <2> HIDE DEF x
  <2>4. d \in [0 .. n + 1 -> Codes]
    BY <2>1, <2>2, <2>3
  <2>5. d[0] = c[0] /\ \A k \in 0 .. n : d[k] = c[k]
    BY <2>2
  <2>6. d[n + 1] = x
    BY <2>2
  <2> HIDE DEF d
  <2>7. ASSUME NEW k \in 1 .. n + 1 PROVE d[k] = (d[k - 1] * 33 + w[k]) % HASHCODES
    <3>1. CASE k = n + 1
      <4>1. k - 1 = n /\ d[k - 1] = c[n]
        BY <2>2, <2>5, <3>1
      <4> QED
        BY <2>6, <3>1, <4>1 DEF x
    <3>2. CASE k # n + 1
      <4>1. k \in 1 .. n /\ k - 1 \in 0 .. n /\ k \in 0 .. n
        BY <2>2, <3>2
      <4>2. c[k] = (c[k - 1] * 33 + w[k]) % HASHCODES
        BY <2>1, <4>1 DEF CodesOf
      <4> QED
        BY <2>5, <4>1, <4>2
    <3> QED
      BY <3>1, <3>2
  <2>8. CodesOf(d, w, n + 1)
    BY <2>1, <2>5, <2>7 DEF CodesOf
  <2> QED
    BY <2>2, <2>4, <2>8
<1>4. \A n \in 0 .. Len(w) : n \in S
  <2> HIDE DEF S
  <2> QED
    BY <1>1, <1>2, <1>3, Climb
<1>5. Len(w) \in S
  BY <1>1, <1>4
<1> QED
  BY <1>5

\* The hash code is the last of them.
LEMMA HashIs ==
  ASSUME WordAssumption, NEW w \in Seq(Nat)
  PROVE  \E c \in [0 .. Len(w) -> Codes] : CodesOf(c, w, Len(w)) /\ wc_hash(w) = c[Len(w)]
<1> DEFINE P(code) == code = [k \in 0 .. Len(w) |->
                               IF k = 0 THEN 5381 % HASHCODES
                               ELSE (code[k - 1] * 33 + w[k]) % HASHCODES]
           h == CHOOSE code : P(code)
<1>1. Len(w) \in Nat
  BY LenProperties
<1>2. PICK c \in [0 .. Len(w) -> Codes] : CodesOf(c, w, Len(w))
  BY CodesExist
<1>3. P(c)
  BY <1>1, <1>2 DEF CodesOf
<1>4. P(h)
  <2> HIDE DEF P
  <2> QED
    BY <1>3
<1>5. wc_hash(w) = h[Len(w)]
  BY DEF wc_hash
<1> HIDE DEF h
<1> DEFINE S == {k \in Nat : k \in 0 .. Len(w) => h[k] = c[k]}
<1>6. 0 \in S
  BY <1>1, <1>2, <1>4 DEF CodesOf
<1>7. ASSUME NEW k \in 0 .. Len(w) - 1, k \in S PROVE k + 1 \in S
  <2>1. k + 1 \in 1 .. Len(w) /\ k + 1 \in 0 .. Len(w) /\ k \in 0 .. Len(w) /\ (k + 1) - 1 = k
        /\ k + 1 # 0 /\ k + 1 \in Nat
    BY <1>1
  <2>2. h[k + 1] = (h[(k + 1) - 1] * 33 + w[k + 1]) % HASHCODES
    BY <1>4, <2>1
  <2>3. c[k + 1] = (c[(k + 1) - 1] * 33 + w[k + 1]) % HASHCODES
    BY <1>2, <2>1 DEF CodesOf
  <2>4. h[k] = c[k]
    BY <1>7, <2>1
  <2> QED
    BY <2>1, <2>2, <2>3, <2>4
<1>8. \A k \in 0 .. Len(w) : k \in S
  <2> HIDE DEF S
  <2> QED
    BY <1>1, <1>6, <1>7, Climb
<1>9. h[Len(w)] = c[Len(w)]
  BY <1>1, <1>8
<1> QED
  BY <1>2, <1>5, <1>9

\* A word belongs into one of the chains.
LEMMA BucketIs ==
  ASSUME WordAssumption, NEW w \in Strings
  PROVE  Bucket(w) \in 0 .. HASHTABLE_SIZE - 1
<1>1. w \in Seq(Nat)
  <2>1. Bytes \subseteq Nat
    BY DEF Bytes
  <2> QED
    BY <2>1, SeqMonotonic DEF Strings
<1>2. PICK c \in [0 .. Len(w) -> Codes] : wc_hash(w) = c[Len(w)]
  BY <1>1, HashIs
<1>3. wc_hash(w) \in Int
  BY <1>1, <1>2, LenProperties DEF Codes
<1> QED
  BY <1>3 DEF Bucket, WordAssumption

-----------------------------------------------------------------------------
(* Reading.                                                                *)

\* Where the stream is.
Placed == input \in Inputs /\ pos \in 1 .. Len(input) + 1

\* The stream is a string, and behind it there is nothing but EOF.
LEMMA InputIs ==
  ASSUME WordAssumption, Placed
  PROVE  /\ input \in Strings /\ Len(input) \in Nat /\ pos \in Nat \ {0}
         /\ \A i \in 1 .. Len(input) : input[i] \in 0 .. 255
         /\ \A i \in Nat : i > Len(input) => Char(i) = EOF /\ ~wc_isspace(Char(i))
<1>1. input \in Strings
  BY Zenon DEF WordAssumption, Placed
<1>2. Len(input) \in Nat /\ \A i \in 1 .. Len(input) : input[i] \in 0 .. 255
  BY <1>1, LenProperties, ElementOfSeq DEF Strings, Bytes
<1>3. pos \in Nat \ {0}
  BY <1>2 DEF Placed
<1>4. \A i \in Nat : i > Len(input) => Char(i) = EOF /\ ~wc_isspace(Char(i))
  BY DEF Char, EOF, wc_isspace
<1> QED
  BY <1>1, <1>2, <1>3, <1>4

\* Leading whitespace ends at s.
Starts(s) ==
  /\ s \in pos .. Len(input) + 1
  /\ ~wc_isspace(Char(s))
  /\ \A j \in pos .. s - 1 : wc_isspace(Char(j))

\* There is such a place.
LEMMA StartIs ==
  ASSUME WordAssumption, Placed
  PROVE  Starts(Start)
<1>1. /\ Len(input) \in Nat /\ pos \in Nat \ {0} /\ pos \in 1 .. Len(input) + 1
      /\ ~wc_isspace(Char(Len(input) + 1))
  BY InputIs DEF Placed
<1> DEFINE S == {s \in pos .. Len(input) + 1 : ~wc_isspace(Char(s))}
<1>2. S \subseteq Nat
  BY <1>1
<1>3. Len(input) + 1 \in S
  BY <1>1
<1>4. PICK m \in S : \A k \in S : m <= k
  BY <1>2, <1>3, LeastIs
<1>5. ASSUME NEW j \in pos .. m - 1 PROVE wc_isspace(Char(j))
  <2>1. m \in pos .. Len(input) + 1
    BY <1>4
  <2>2. j \in pos .. Len(input) + 1 /\ ~(m <= j)
    BY <1>1, <2>1
  <2> QED
    BY <1>4, <2>2
<1>6. m \in pos .. Len(input) + 1 /\ ~wc_isspace(Char(m))
  BY <1>4
<1>7. /\ Start \in pos .. Len(input) + 1
      /\ ~wc_isspace(Char(Start))
      /\ \A j \in pos .. Start - 1 : wc_isspace(Char(j))
  <2> DEFINE P(i) == /\ ~wc_isspace(Char(i))
                     /\ \A j \in pos .. i - 1 : wc_isspace(Char(j))
  <2>1. \E i \in pos .. Len(input) + 1 : P(i)
    BY <1>5, <1>6
  <2>2. Start = CHOOSE i \in pos .. Len(input) + 1 : P(i)
    BY DEF Start
  <2> HIDE DEF P
  <2>3. Start \in pos .. Len(input) + 1 /\ P(Start)
    BY <2>1, <2>2, Zenon
  <2> QED
    BY <2>3 DEF P
<1> QED
  BY <1>7 DEF Starts

\* There is only one such place.
LEMMA StartUnique ==
  ASSUME WordAssumption, Placed, NEW s, Starts(s)
  PROVE  s = Start
<1>1. Starts(Start)
  BY StartIs
<1>2. pos \in Nat \ {0} /\ Len(input) \in Nat
  BY InputIs
<1>3. s \in Nat /\ Start \in Nat /\ s >= pos /\ Start >= pos
  BY <1>1, <1>2 DEF Starts
<1>4. ~(s < Start)
  <2> SUFFICES ASSUME s < Start PROVE FALSE
    OBVIOUS
  <2>1. s \in pos .. Start - 1
    BY <1>2, <1>3
  <2> QED
    BY <1>1, <2>1 DEF Starts
<1>5. ~(Start < s)
  <2> SUFFICES ASSUME Start < s PROVE FALSE
    OBVIOUS
  <2>1. Start \in pos .. s - 1
    BY <1>2, <1>3
  <2> QED
    BY <1>1, <2>1 DEF Starts
<1> QED
  BY <1>3, <1>4, <1>5

\* A word of n bytes begins at the start.
Stores(n) ==
  /\ n \in 1 .. MAX_WORDLEN
  /\ n = MAX_WORDLEN \/ AtEnd(Start + n)
  /\ \A k \in 1 .. n - 1 : ~AtEnd(Start + k)

\* There is such a number of bytes, and Stored is it.
LEMMA StoredIs ==
  ASSUME WordAssumption, Placed, Char(Start) # EOF
  PROVE  Stores(Stored)
<1>1. MAX_WORDLEN \in Nat \ {0}
  BY DEF WordAssumption
<1> DEFINE S == {n \in 1 .. MAX_WORDLEN : n = MAX_WORDLEN \/ AtEnd(Start + n)}
<1>2. S \subseteq Nat
  BY <1>1
<1>3. MAX_WORDLEN \in S
  BY <1>1
<1>4. PICK m \in S : \A k \in S : m <= k
  BY <1>2, <1>3, LeastIs
<1>5. m \in 1 .. MAX_WORDLEN /\ (m = MAX_WORDLEN \/ AtEnd(Start + m))
  BY <1>4
<1>6. ASSUME NEW k \in 1 .. m - 1 PROVE ~AtEnd(Start + k)
  <2>1. k \in 1 .. MAX_WORDLEN /\ ~(m <= k)
    BY <1>1, <1>5
  <2> QED
    BY <1>4, <2>1
<1> DEFINE P(n) == /\ n = MAX_WORDLEN \/ AtEnd(Start + n)
                   /\ \A k \in 1 .. n - 1 : ~AtEnd(Start + k)
<1>7. \E n \in 1 .. MAX_WORDLEN : P(n)
  BY <1>5, <1>6
<1>8. Stored = CHOOSE n \in 1 .. MAX_WORDLEN : P(n)
  BY DEF Stored
<1> HIDE DEF P
<1>9. Stored \in 1 .. MAX_WORDLEN /\ P(Stored)
  BY <1>7, <1>8, Zenon
<1> QED
  BY <1>9 DEF P, Stores

\* There is only one.
LEMMA StoredUnique ==
  ASSUME WordAssumption, Placed, Char(Start) # EOF, NEW n, Stores(n)
  PROVE  n = Stored
<1>1. Stores(Stored) /\ MAX_WORDLEN \in Nat
  BY StoredIs DEF WordAssumption
<1>2. n \in Nat /\ Stored \in Nat /\ n >= 1 /\ Stored >= 1 /\ n <= MAX_WORDLEN /\ Stored <= MAX_WORDLEN
  BY <1>1 DEF Stores
<1>3. ~(n < Stored)
  <2> SUFFICES ASSUME n < Stored PROVE FALSE
    OBVIOUS
  <2>1. n \in 1 .. Stored - 1 /\ n # MAX_WORDLEN
    BY <1>1, <1>2
  <2> QED
    BY <1>1, <2>1 DEF Stores
<1>4. ~(Stored < n)
  <2> SUFFICES ASSUME Stored < n PROVE FALSE
    OBVIOUS
  <2>1. Stored \in 1 .. n - 1 /\ Stored # MAX_WORDLEN
    BY <1>1, <1>2
  <2> QED
    BY <1>1, <2>1 DEF Stores
<1> QED
  BY <1>2, <1>3, <1>4

\* The word lies inside the stream.
LEMMA StoredFits ==
  ASSUME WordAssumption, Placed, Char(Start) # EOF
  PROVE  /\ Start \in 1 .. Len(input) /\ Stored \in 1 .. MAX_WORDLEN
         /\ Start + Stored - 1 \in 1 .. Len(input)
         /\ After \in 1 .. Len(input) + 1
         /\ After = IF Start + Stored <= Len(input) THEN Start + Stored + 1 ELSE Len(input) + 1
<1>1. Starts(Start) /\ Stores(Stored) /\ MAX_WORDLEN \in Nat
  BY StartIs, StoredIs DEF WordAssumption
<1>2. /\ Len(input) \in Nat /\ pos \in Nat \ {0}
      /\ \A i \in Nat : i > Len(input) => Char(i) = EOF
  BY InputIs
<1>3. Start \in 1 .. Len(input) /\ Stored \in 1 .. MAX_WORDLEN
  <2>1. Start \in Nat /\ Start >= 1 /\ Start <= Len(input) + 1 /\ Stored \in 1 .. MAX_WORDLEN
    BY <1>1, <1>2 DEF Starts, Stores
  <2>2. ~(Start > Len(input))
    BY <1>2, <2>1
  <2> QED
    BY <1>2, <2>1, <2>2
<1>4. Start + Stored - 1 \in 1 .. Len(input)
  <2>1. CASE Stored = 1
    BY <1>2, <1>3, <2>1
  <2>2. CASE Stored # 1
    <3>1. Stored - 1 \in 1 .. Stored - 1
      BY <1>1, <1>3, <2>2
    <3>2. ~AtEnd(Start + (Stored - 1))
      BY <1>1, <3>1 DEF Stores
    <3>3. Start + (Stored - 1) \in Nat /\ Start + (Stored - 1) = Start + Stored - 1
          /\ Start + (Stored - 1) >= 1
      BY <1>1, <1>2, <1>3
    <3>4. ~(Start + (Stored - 1) > Len(input))
      BY <1>2, <3>2, <3>3 DEF AtEnd
    <3> QED
      BY <1>2, <3>3, <3>4
  <2> QED
    BY <2>1, <2>2
<1>5. After = IF Start + Stored <= Len(input) THEN Start + Stored + 1 ELSE Len(input) + 1
  <2> DEFINE S == {Start + Stored + 1, Len(input) + 1}
  <2>1. Start + Stored + 1 \in Nat /\ Len(input) + 1 \in Nat
    BY <1>1, <1>2, <1>3
  <2>2. S \subseteq Nat /\ S # {}
    BY <2>1
  <2>3. Min(S) \in S /\ \A k \in S : Min(S) <= k
    BY <2>2, MinIs
  <2>4. After \in {Start + Stored + 1, Len(input) + 1} /\ After <= Start + Stored + 1
        /\ After <= Len(input) + 1
    BY <2>3 DEF After
  <2> QED
    BY <1>1, <1>2, <1>3, <2>1, <2>4
<1> QED
  BY <1>1, <1>2, <1>3, <1>4, <1>5

\* t is what lies before the first terminator of w.
CutAtZero(t, w) ==
  /\ t \in Strings /\ Len(t) \in 0 .. Len(w)
  /\ \A k \in 1 .. Len(t) : t[k] = w[k] /\ t[k] # 0
  /\ Len(t) < Len(w) => w[Len(t) + 1] = 0

\* Terminated cuts there.
LEMMA TerminatedIs ==
  ASSUME NEW w \in Strings
  PROVE  CutAtZero(Terminated(w), w)
<1> DEFINE Z == {j \in DOMAIN w : w[j] = 0}
           S == {Len(w)} \cup {i - 1 : i \in Z}
           m == Min(S)
<1>1. Len(w) \in Nat /\ DOMAIN w = 1 .. Len(w) /\ \A k \in 1 .. Len(w) : w[k] \in Bytes
  BY LenProperties, ElementOfSeq DEF Strings
<1>2. S \subseteq 0 .. Len(w)
  <2>1. \A i \in Z : i - 1 \in 0 .. Len(w)
    BY <1>1
  <2> QED
    BY <1>1, <2>1
<1>3. m \in S /\ \A k \in S : m <= k
  <2>1. S # {}
    OBVIOUS
  <2> HIDE DEF S
  <2>2. S \subseteq Nat
    BY <1>1, <1>2
  <2> QED
    BY <2>1, <2>2, MinIs
<1>4. Terminated(w) = SubSeq(w, 1, m)
  BY DEF Terminated
<1> HIDE DEF m
<1>5. m \in 0 .. Len(w)
  BY <1>2, <1>3, Zenon
<1>6. \A k \in 1 .. m : w[k] # 0
  <2> SUFFICES ASSUME NEW k \in 1 .. m, w[k] = 0 PROVE FALSE
    OBVIOUS
  <2>1. k \in Z
    BY <1>1, <1>5
  <2>2. m <= k - 1
    BY <1>3, <2>1
  <2> QED
    BY <1>5, <2>2
<1>7. m < Len(w) => w[m + 1] = 0
  <2> SUFFICES ASSUME m < Len(w) PROVE w[m + 1] = 0
    OBVIOUS
  <2>1. PICK i \in Z : m = i - 1
    BY <1>1, <1>3
  <2>2. i \in 1 .. Len(w) /\ w[i] = 0 /\ m + 1 = i
    BY <1>1, <1>5, <2>1
  <2> QED
    BY <2>2
<1>8. /\ SubSeq(w, 1, m) \in Strings /\ Len(SubSeq(w, 1, m)) = m
      /\ \A k \in 1 .. m : SubSeq(w, 1, m)[k] = w[k]
  <2>1. \A k \in 1 .. m : w[k] \in Bytes
    BY <1>1, <1>5
  <2>2. m \in Int /\ 1 \in Int /\ m \in Nat
    BY <1>1, <1>5
  <2>3. /\ SubSeq(w, 1, m) \in Seq(Bytes)
        /\ Len(SubSeq(w, 1, m)) = IF 1 <= m THEN m - 1 + 1 ELSE 0
        /\ \A k \in 1 .. m - 1 + 1 : SubSeq(w, 1, m)[k] = w[1 + k - 1]
    BY <2>1, <2>2, SubSeqProperties
  <2> QED
    BY <2>2, <2>3 DEF Strings
<1>9. m \in Nat
  BY <1>1, <1>5
<1> QED
  BY <1>1, <1>4, <1>5, <1>6, <1>7, <1>8, <1>9 DEF CutAtZero

\* The bytes from a place on.
LEMMA PieceIs ==
  ASSUME NEW w \in Strings, NEW a \in 1 .. Len(w), NEW n \in Nat, n >= 1, a + n - 1 \in 1 .. Len(w)
  PROVE  /\ SubSeq(w, a, a + n - 1) \in Strings /\ Len(SubSeq(w, a, a + n - 1)) = n
         /\ \A k \in 1 .. n : SubSeq(w, a, a + n - 1)[k] = w[a + k - 1]
<1> DEFINE b == a + n - 1
<1>1. Len(w) \in Nat /\ \A k \in 1 .. Len(w) : w[k] \in Bytes
  BY LenProperties, ElementOfSeq DEF Strings
<1>2. a \in Int /\ b \in Int /\ a <= b /\ b - a + 1 = n /\ b <= Len(w)
  BY <1>1
<1>3. \A k \in a .. b : w[k] \in Bytes
  BY <1>1, <1>2
<1> HIDE DEF b
<1>4. /\ SubSeq(w, a, b) \in Seq(Bytes)
      /\ Len(SubSeq(w, a, b)) = IF a <= b THEN b - a + 1 ELSE 0
      /\ \A k \in 1 .. b - a + 1 : SubSeq(w, a, b)[k] = w[a + k - 1]
  BY <1>2, <1>3, SubSeqProperties
<1>5. SubSeq(w, a, b) \in Strings /\ Len(SubSeq(w, a, b)) = n
      /\ \A k \in 1 .. n : SubSeq(w, a, b)[k] = w[a + k - 1]
  BY <1>2, <1>4 DEF Strings
<1> QED
  BY <1>5 DEF b

\* The word that is read: the stream from the start on, up to a terminator.
LEMMA WordIs ==
  ASSUME WordAssumption, Placed, Char(Start) # EOF
  PROVE  /\ Word \in Strings /\ Len(Word) \in 0 .. Stored
         /\ \A k \in 1 .. Len(Word) : Word[k] = input[Start + k - 1] /\ Word[k] # 0
         /\ Len(Word) < Stored => input[Start + Len(Word)] = 0
<1> DEFINE p == SubSeq(input, Start, Start + Stored - 1)
<1>1. /\ Start \in 1 .. Len(input) /\ Stored \in Nat /\ Stored >= 1
      /\ Start + Stored - 1 \in 1 .. Len(input) /\ input \in Strings /\ Len(input) \in Nat
  <2>1. MAX_WORDLEN \in Nat
    BY DEF WordAssumption
  <2> QED
    BY <2>1, StoredFits, InputIs
<1>2. p \in Strings /\ Len(p) = Stored /\ \A k \in 1 .. Stored : p[k] = input[Start + k - 1]
  BY <1>1, PieceIs
<1>3. Word = Terminated(p)
  BY DEF Word
<1> HIDE DEF p
<1>4. CutAtZero(Word, p)
  BY <1>2, <1>3, TerminatedIs
<1>5. Word \in Strings /\ Len(Word) \in 0 .. Stored
  BY <1>2, <1>4 DEF CutAtZero
<1>6. \A k \in 1 .. Len(Word) : Word[k] = input[Start + k - 1] /\ Word[k] # 0
  BY <1>1, <1>2, <1>4, <1>5 DEF CutAtZero
<1>7. ASSUME Len(Word) < Stored PROVE input[Start + Len(Word)] = 0
  <2>1. p[Len(Word) + 1] = 0 /\ Len(Word) + 1 \in 1 .. Stored
    BY <1>1, <1>2, <1>4, <1>5, <1>7 DEF CutAtZero
  <2>2. Start + (Len(Word) + 1) - 1 = Start + Len(Word)
    BY <1>1, <1>5
  <2> QED
    BY <1>2, <2>1, <2>2
<1> QED
  BY <1>5, <1>6, <1>7

\* A word in lower case.
LEMMA LowerIs ==
  ASSUME NEW w \in Strings
  PROVE  /\ wc_tolower(w) \in Strings /\ Len(wc_tolower(w)) = Len(w) /\ Len(w) \in Nat
         /\ \A k \in 1 .. Len(w) :
              wc_tolower(w)[k] = IF wc_isalpha(w[k]) /\ w[k] < 97 THEN w[k] + 32 ELSE w[k]
<1>1. Len(w) \in Nat /\ DOMAIN w = 1 .. Len(w) /\ \A k \in 1 .. Len(w) : w[k] \in Bytes
  BY LenProperties, ElementOfSeq DEF Strings
<1>2. ASSUME NEW k \in 1 .. Len(w)
      PROVE  (IF wc_isalpha(w[k]) /\ w[k] < 97 THEN w[k] + 32 ELSE w[k]) \in Bytes
  <2> DEFINE c == w[k]
  <2>1. c \in 0 .. 255
    BY <1>1 DEF Bytes
  <2> HIDE DEF c
  <2>2. c < 97 => c + 32 \in 0 .. 255
    BY <2>1
  <2>3. (IF wc_isalpha(c) /\ c < 97 THEN c + 32 ELSE c) \in 0 .. 255
    BY <2>1, <2>2, Zenon
  <2> QED
    BY <2>3 DEF c, Bytes
<1>3. wc_tolower(w) \in [1 .. Len(w) -> Bytes]
  BY <1>1, <1>2 DEF wc_tolower
<1>4. wc_tolower(w) \in Strings
  BY <1>1, <1>3, SeqDef DEF Strings
<1>5. Len(wc_tolower(w)) = Len(w)
  BY <1>1, <1>3, <1>4, LenProperties DEF Strings
<1>6. \A k \in 1 .. Len(w) :
              wc_tolower(w)[k] = IF wc_isalpha(w[k]) /\ w[k] < 97 THEN w[k] + 32 ELSE w[k]
  BY <1>1 DEF wc_tolower
<1> QED
  BY <1>1, <1>4, <1>5, <1>6

\* t is w up to its last letter.
CutAtLetter(t, w) ==
  /\ t \in Strings /\ Len(t) \in 0 .. Len(w)
  /\ \A k \in 1 .. Len(t) : t[k] = w[k]
  /\ Len(t) # 0 => wc_isalpha(w[Len(t)])
  /\ \A k \in Len(t) + 1 .. Len(w) : ~wc_isalpha(w[k])

\* wc_trim_non_alpha cuts there.
LEMMA TrimIs ==
  ASSUME NEW w \in Strings
  PROVE  CutAtLetter(wc_trim_non_alpha(w), w)
<1> DEFINE A == {i \in DOMAIN w : wc_isalpha(w[i])}
           S == {0} \cup A
           m == Max(S)
<1>1. Len(w) \in Nat /\ DOMAIN w = 1 .. Len(w) /\ \A k \in 1 .. Len(w) : w[k] \in Bytes
  BY LenProperties, ElementOfSeq DEF Strings
<1>2. S \subseteq 0 .. Len(w) /\ S # {}
  BY <1>1
<1>3. m \in S /\ \A k \in S : k <= m
  <2> HIDE DEF S
  <2> QED
    BY <1>1, <1>2, MaxIs
<1>4. wc_trim_non_alpha(w) = SubSeq(w, 1, m)
  BY DEF wc_trim_non_alpha
<1> HIDE DEF m
<1>5. m \in 0 .. Len(w) /\ m \in Nat
  BY <1>1, <1>2, <1>3
<1>6. m # 0 => wc_isalpha(w[m])
  BY <1>3
<1>7. \A k \in m + 1 .. Len(w) : ~wc_isalpha(w[k])
  <2> SUFFICES ASSUME NEW k \in m + 1 .. Len(w), wc_isalpha(w[k]) PROVE FALSE
    OBVIOUS
  <2>1. k \in A
    BY <1>1, <1>5
  <2>2. k <= m
    BY <1>3, <2>1
  <2> QED
    BY <1>5, <2>2
<1>8. /\ SubSeq(w, 1, m) \in Strings /\ Len(SubSeq(w, 1, m)) = m
      /\ \A k \in 1 .. m : SubSeq(w, 1, m)[k] = w[k]
  <2>1. \A k \in 1 .. m : w[k] \in Bytes
    BY <1>1, <1>5
  <2>2. m \in Int /\ 1 \in Int
    BY <1>5
  <2>3. /\ SubSeq(w, 1, m) \in Seq(Bytes)
        /\ Len(SubSeq(w, 1, m)) = IF 1 <= m THEN m - 1 + 1 ELSE 0
        /\ \A k \in 1 .. m - 1 + 1 : SubSeq(w, 1, m)[k] = w[1 + k - 1]
    BY <2>1, <2>2, SubSeqProperties
  <2> QED
    BY <1>5, <2>3 DEF Strings
<1> QED
  BY <1>1, <1>4, <1>5, <1>6, <1>7, <1>8 DEF CutAtLetter

\* What is counted.
CountedWord == wc_trim_non_alpha(wc_tolower(Word))

\* It is a string again.
LEMMA CountedWordIs ==
  ASSUME WordAssumption, Placed, Char(Start) # EOF
  PROVE  CountedWord \in Strings
<1>1. Word \in Strings
  BY WordIs
<1>2. wc_tolower(Word) \in Strings
  BY <1>1, LowerIs
<1>3. CutAtLetter(CountedWord, wc_tolower(Word))
  BY <1>2, TrimIs DEF CountedWord
<1> QED
  BY <1>3 DEF CutAtLetter

\* Placed holds at first.
LEMMA PlacedInit == WordAssumption /\ Init => Placed
<1> SUFFICES ASSUME WordAssumption, Init PROVE Placed
  OBVIOUS
<1>1. input \in Strings
  BY Zenon DEF WordAssumption, Init
<1>2. Len(input) \in Nat
  BY <1>1, LenProperties DEF Strings
<1> QED
  BY <1>2 DEF Init, Placed

\* A word takes the stream on, and not beyond its end.
LEMMA PlacedStep == WordAssumption /\ Placed /\ [Next]_vars => Placed'
<1> SUFFICES ASSUME WordAssumption, Placed, [Next]_vars PROVE Placed'
  OBVIOUS
<1>1. CASE Skip \/ CountWord
  <2>1. Char(Start) # EOF /\ input' = input /\ pos' = After
    BY <1>1 DEF Skip, CountWord, ReadsWord
  <2>2. After \in 1 .. Len(input) + 1
    BY <2>1, StoredFits
  <2> QED
    BY <2>1, <2>2 DEF Placed
<1>2. CASE EndOfInput \/ Search \/ Finish \/ Ended \/ UNCHANGED vars
  BY <1>2 DEF EndOfInput, Search, Finish, Ended, vars, Placed
<1> QED
  BY <1>1, <1>2 DEF Next

-----------------------------------------------------------------------------
(* The census.                                                             *)

\* How often w is in ws.
Times(ws, w) == Cardinality({i \in DOMAIN ws : ws[i] = w})

\* A word more counts for itself only.
LEMMA TimesAppend ==
  ASSUME NEW ws \in Seq(Strings), NEW w \in Strings
  PROVE  /\ Append(ws, w) \in Seq(Strings) /\ Len(Append(ws, w)) = Len(ws) + 1
         /\ \A v : Times(ws, v) \in Nat
                   /\ Times(Append(ws, w), v) = IF v = w THEN Times(ws, v) + 1 ELSE Times(ws, v)
<1>1. /\ Append(ws, w) \in Seq(Strings) /\ Len(Append(ws, w)) = Len(ws) + 1
      /\ Append(ws, w)[Len(ws) + 1] = w
      /\ \A k \in 1 .. Len(ws) : Append(ws, w)[k] = ws[k]
  BY AppendProperties
<1>2. Len(ws) \in Nat /\ DOMAIN ws = 1 .. Len(ws) /\ DOMAIN Append(ws, w) = 1 .. Len(ws) + 1
  BY <1>1, LenProperties
<1> DEFINE us == Append(ws, w)
<1> HIDE DEF us
<1>3. ASSUME NEW v
      PROVE  Times(ws, v) \in Nat
             /\ Times(us, v) = IF v = w THEN Times(ws, v) + 1 ELSE Times(ws, v)
  <2> DEFINE S == {i \in DOMAIN ws : ws[i] = v}
             T == {i \in DOMAIN us : us[i] = v}
  <2>1. IsFiniteSet(S)
    <3>1. IsFiniteSet(1 .. Len(ws)) /\ S \subseteq 1 .. Len(ws)
      BY <1>2, FS_Interval
    <3> QED
      BY <3>1, FS_Subset
  <2>2. Len(ws) + 1 \notin S
    BY <1>2
  <2>3. v = w => T = S \cup {Len(ws) + 1}
    BY <1>1, <1>2 DEF us
  <2>4. v # w => T = S
    BY <1>1, <1>2 DEF us
  <2> HIDE DEF S, T
  <2>5. Cardinality(S) \in Nat /\ Cardinality(S \cup {Len(ws) + 1}) = Cardinality(S) + 1
    BY <2>1, <2>2, FS_AddElement, FS_CardinalityType
  <2>6. Cardinality(T) = IF v = w THEN Cardinality(S) + 1 ELSE Cardinality(S)
    BY <2>3, <2>4, <2>5
  <2> QED
    BY <2>5, <2>6 DEF S, T, Times
<1> QED
  BY <1>1, <1>3 DEF us

\* A word that occurs is in the sequence.
LEMMA TimesIs ==
  ASSUME NEW ws \in Seq(Strings), NEW w
  PROVE  Times(ws, w) \in Nat /\ (Times(ws, w) = 0 <=> w \notin ToSet(ws))
<1> DEFINE S == {i \in DOMAIN ws : ws[i] = w}
<1>1. Len(ws) \in Nat /\ DOMAIN ws = 1 .. Len(ws)
  BY LenProperties
<1>2. IsFiniteSet(S)
  <2>1. IsFiniteSet(1 .. Len(ws)) /\ S \subseteq 1 .. Len(ws)
    BY <1>1, FS_Interval
  <2> QED
    BY <2>1, FS_Subset
<1>3. S = {} <=> w \notin ToSet(ws)
  BY DEF ToSet
<1>4. Cardinality(S) \in Nat /\ (Cardinality(S) = 0 <=> S = {})
  BY <1>2, FS_EmptySet, FS_CardinalityType
<1> QED
  BY <1>3, <1>4, Zenon DEF Times

\* The words of a longer sequence.
LEMMA ToSetAppend ==
  ASSUME NEW ws \in Seq(Strings), NEW w \in Strings
  PROVE  ToSet(Append(ws, w)) = ToSet(ws) \cup {w} /\ IsFiniteSet(ToSet(ws))
<1>1. /\ Append(ws, w) \in Seq(Strings) /\ Len(Append(ws, w)) = Len(ws) + 1
      /\ Append(ws, w)[Len(ws) + 1] = w
      /\ \A k \in 1 .. Len(ws) : Append(ws, w)[k] = ws[k]
  BY AppendProperties
<1>2. Len(ws) \in Nat /\ DOMAIN ws = 1 .. Len(ws) /\ DOMAIN Append(ws, w) = 1 .. Len(ws) + 1
  BY <1>1, LenProperties
<1> DEFINE us == Append(ws, w)
<1> HIDE DEF us
<1>3. ToSet(us) = ToSet(ws) \cup {w}
  <2>1. ASSUME NEW x \in ToSet(us) PROVE x \in ToSet(ws) \cup {w}
    <3>1. PICK k \in 1 .. Len(ws) + 1 : x = us[k]
      BY <1>2, <2>1 DEF us, ToSet
    <3>2. CASE k = Len(ws) + 1
      BY <1>1, <3>1, <3>2 DEF us
    <3>3. CASE k # Len(ws) + 1
      <4>1. k \in 1 .. Len(ws)
        BY <1>2, <3>3
      <4> QED
        BY <1>1, <1>2, <3>1, <4>1 DEF us, ToSet
    <3> QED
      BY <3>2, <3>3
  <2>2. ASSUME NEW x \in ToSet(ws) PROVE x \in ToSet(us)
    <3>1. PICK k \in 1 .. Len(ws) : x = ws[k]
      BY <1>2, <2>2 DEF ToSet
    <3>2. k \in 1 .. Len(ws) + 1 /\ us[k] = x
      BY <1>1, <1>2, <3>1 DEF us
    <3> QED
      BY <1>2, <3>2 DEF us, ToSet
  <2>3. w \in ToSet(us)
    <3>1. Len(ws) + 1 \in 1 .. Len(ws) + 1 /\ us[Len(ws) + 1] = w
      BY <1>1, <1>2 DEF us
    <3> QED
      BY <1>2, <3>1 DEF us, ToSet
  <2> QED
    BY <2>1, <2>2, <2>3
<1>4. IsFiniteSet(ToSet(ws))
  <2>1. IsFiniteSet(1 .. Len(ws))
    BY <1>2, FS_Interval
  <2>2. ws \in Surjection(1 .. Len(ws), ToSet(ws))
    BY <1>2, ElementOfSeq DEF ToSet, Surjection
  <2> QED
    BY <2>1, <2>2, FS_Surjection
<1> QED
  BY <1>3, <1>4 DEF us

\* An entry of a chain has been counted.
Entry == [word : Strings, count : Nat \ {0}]

\* The numbers of the chains.
Chains == 0 .. HASHTABLE_SIZE - 1

\* The types of the table and of the history.
Typed == buckets \in [Chains -> Seq(Entry)] /\ words \in Seq(Strings)

\* Every entry is where its hash code says, and the only one with its word.
Filed ==
  /\ \A b \in Chains : \A i \in Entries(b) : Bucket(buckets[b][i].word) = b
  /\ \A b \in Chains : \A i, j \in Entries(b) :
       buckets[b][i].word = buckets[b][j].word => i = j

\* Every count is how often its word was counted.
Exact ==
  \A b \in Chains : \A i \in Entries(b) :
    buckets[b][i].count = Times(words, buckets[b][i].word)

\* Every word that was counted has an entry.
Complete == \A w \in ToSet(words) : Found(w) # {}

\* total_words counts all words, unique_words the different ones.
Totals == total_words = Len(words) /\ unique_words = Cardinality(ToSet(words))

\* The table is a census of the words.
Table == Typed /\ Filed /\ Exact /\ Complete /\ Totals

\* The entry of a word.
LEMMA FoundIs ==
  ASSUME WordAssumption, Typed, Filed, NEW w \in Strings
  PROVE  /\ Bucket(w) \in Chains /\ Found(w) \subseteq Nat /\ Found(w) \subseteq Entries(Bucket(w))
         /\ Len(buckets[Bucket(w)]) \in Nat /\ DOMAIN buckets[Bucket(w)] = Entries(Bucket(w))
         /\ buckets[Bucket(w)] \in Seq(Entry)
         /\ \A i \in Found(w) : Found(w) = {i}
         /\ Found(w) # {} => Min(Found(w)) \in Found(w)
<1>1. Bucket(w) \in Chains
  BY BucketIs DEF Chains
<1> DEFINE b == Bucket(w)
<1> HIDE DEF b
<1>2. buckets[b] \in Seq(Entry)
  BY <1>1 DEF b, Typed
<1>3. Len(buckets[b]) \in Nat /\ DOMAIN buckets[b] = Entries(b)
  BY <1>2, LenProperties DEF Entries
<1>4. Found(w) \subseteq Entries(b) /\ Found(w) \subseteq Nat
  BY <1>3 DEF b, Found, Entries
<1>5. \A i, j \in Found(w) : i = j
  BY <1>1 DEF b, Filed, Found
<1>6. Found(w) # {} => Min(Found(w)) \in Found(w)
  BY <1>4, MinIs
<1> QED
  BY <1>1, <1>2, <1>3, <1>4, <1>5, <1>6 DEF b

\* The types of a chain and its entries.
LEMMA EntryIs ==
  ASSUME Typed, NEW b \in Chains
  PROVE  /\ buckets[b] \in Seq(Entry) /\ Len(buckets[b]) \in Nat /\ DOMAIN buckets[b] = Entries(b)
         /\ \A i \in Entries(b) :
              /\ buckets[b][i] \in Entry
              /\ buckets[b][i].word \in Strings
              /\ buckets[b][i].count \in Nat \ {0}
<1>1. buckets[b] \in Seq(Entry)
  BY DEF Typed
<1>2. Len(buckets[b]) \in Nat /\ DOMAIN buckets[b] = Entries(b)
  BY <1>1, LenProperties DEF Entries
<1>3. \A i \in Entries(b) : buckets[b][i] \in Entry
  BY <1>1, ElementOfSeq DEF Entries
<1>4. \A e \in Entry : e.word \in Strings /\ e.count \in Nat \ {0}
  BY DEF Entry
<1> QED
  BY <1>1, <1>2, <1>3, <1>4

\* The chains after a word has been counted in its entry.
LEMMA CountAgain ==
  ASSUME WordAssumption, Typed, Filed, NEW w \in Strings, Found(w) # {}, Count(w)
  PROVE  /\ buckets' \in [Chains -> Seq(Entry)]
         /\ \A c \in Chains : Entries(c)' = Entries(c)
         /\ \A c \in Chains : \A i \in Entries(c) :
              /\ buckets'[c][i].word = buckets[c][i].word
              /\ buckets'[c][i].count =
                   IF buckets[c][i].word = w THEN buckets[c][i].count + 1 ELSE buckets[c][i].count
<1> DEFINE b == Bucket(w)
           m == Min(Found(w))
           e == [buckets[b][m] EXCEPT !.count = @ + 1]
           d == [buckets[b] EXCEPT ![m] = e]
<1>1. /\ b \in Chains /\ m \in Entries(b) /\ buckets[b] \in Seq(Entry)
      /\ Len(buckets[b]) \in Nat /\ DOMAIN buckets[b] = Entries(b)
      /\ m \in Found(w) /\ Found(w) = {m}
  BY FoundIs
<1>2. buckets[b][m].word = w
  BY <1>1 DEF Found
<1>3. buckets[b][m] \in Entry
  BY <1>1, EntryIs
<1>4. e \in Entry /\ e.word = buckets[b][m].word /\ e.count = buckets[b][m].count + 1
  BY <1>3 DEF Entry
<1>5. buckets' = [buckets EXCEPT ![b] = d]
  BY DEF Count
<1>6. d \in Seq(Entry) /\ Len(d) = Len(buckets[b]) /\ d[m] = e
      /\ \A i \in Entries(b) : i # m => d[i] = buckets[b][i]
  <2> HIDE DEF b, m, e
  <2> QED
    BY <1>1, <1>4, ExceptSeq DEF Entries
<1> HIDE DEF b, m, e, d
<1>7. buckets' \in [Chains -> Seq(Entry)] /\ buckets'[b] = d
      /\ \A c \in Chains : c # b => buckets'[c] = buckets[c]
  BY <1>1, <1>5, <1>6 DEF Typed
<1>8. \A c \in Chains : Entries(c)' = Entries(c)
  BY <1>1, <1>6, <1>7 DEF Entries
<1>9. ASSUME NEW c \in Chains, NEW i \in Entries(c)
      PROVE  /\ buckets'[c][i].word = buckets[c][i].word
             /\ buckets'[c][i].count =
                  IF buckets[c][i].word = w THEN buckets[c][i].count + 1 ELSE buckets[c][i].count
  <2>1. CASE c = b /\ i = m
    BY <1>2, <1>4, <1>6, <1>7, <2>1
  <2>2. CASE ~(c = b /\ i = m)
    <3>1. buckets'[c][i] = buckets[c][i]
      BY <1>6, <1>7, <1>9, <2>2
    <3>2. buckets[c][i].word # w
      <4> SUFFICES ASSUME buckets[c][i].word = w PROVE FALSE
        OBVIOUS
      <4>1. c = b
        BY <1>9 DEF b, Filed
      <4>2. i \in Found(w)
        BY <1>9, <4>1 DEF b, Found
      <4> QED
        BY <1>1, <2>2, <4>1, <4>2
    <3> QED
      BY <3>1, <3>2
  <2> QED
    BY <2>1, <2>2
<1> QED
  BY <1>7, <1>8, <1>9

\* The chains after a word has been put in front of its chain.
LEMMA CountFirst ==
  ASSUME WordAssumption, Typed, Filed, NEW w \in Strings, Found(w) = {}, Count(w)
  PROVE  /\ buckets' \in [Chains -> Seq(Entry)]
         /\ \A c \in Chains : c # Bucket(w) =>
              Entries(c)' = Entries(c) /\ buckets'[c] = buckets[c]
         /\ 1 \in Entries(Bucket(w))'
         /\ buckets'[Bucket(w)][1].word = w /\ buckets'[Bucket(w)][1].count = 1
         /\ \A i \in Entries(Bucket(w))' : i # 1 =>
              i - 1 \in Entries(Bucket(w)) /\ buckets'[Bucket(w)][i] = buckets[Bucket(w)][i - 1]
         /\ \A i \in Entries(Bucket(w)) :
              i + 1 \in Entries(Bucket(w))' /\ buckets'[Bucket(w)][i + 1] = buckets[Bucket(w)][i]
<1> DEFINE b == Bucket(w)
           e == [word |-> w, count |-> 1]
           d == <<e>> \o buckets[b]
<1>1. /\ b \in Chains /\ buckets[b] \in Seq(Entry) /\ Len(buckets[b]) \in Nat
  BY FoundIs
<1>2. e \in Entry /\ e.word = w /\ e.count = 1
  BY DEF Entry
<1>3. buckets' = [buckets EXCEPT ![b] = d]
  BY DEF Count
<1> HIDE DEF b, e
<1>4. d \in Seq(Entry) /\ Len(d) = Len(buckets[b]) + 1 /\ d[1] = e
      /\ \A i \in 2 .. Len(buckets[b]) + 1 : d[i] = buckets[b][i - 1]
  <2>1. <<e>> \in Seq(Entry) /\ Len(<<e>>) = 1 /\ <<e>>[1] = e
    BY <1>2
  <2>2. /\ d \in Seq(Entry) /\ Len(d) = 1 + Len(buckets[b])
        /\ \A i \in 1 .. 1 + Len(buckets[b]) :
             d[i] = IF i <= 1 THEN <<e>>[i] ELSE buckets[b][i - 1]
    BY <1>1, <2>1, ConcatProperties
  <2> QED
    BY <1>1, <2>1, <2>2
<1> HIDE DEF d
<1>5. buckets' \in [Chains -> Seq(Entry)] /\ buckets'[b] = d
      /\ \A c \in Chains : c # b => buckets'[c] = buckets[c]
  BY <1>1, <1>3, <1>4 DEF Typed
<1>6. \A c \in Chains : c # b => Entries(c)' = Entries(c)
  BY <1>5 DEF Entries
<1>7. Entries(b)' = 1 .. Len(buckets[b]) + 1 /\ Entries(b) = 1 .. Len(buckets[b])
  BY <1>4, <1>5 DEF Entries
<1>8. \A i \in Entries(b)' : i # 1 => i - 1 \in Entries(b) /\ d[i] = buckets[b][i - 1]
  BY <1>1, <1>4, <1>7
<1>9. \A i \in Entries(b) : i + 1 \in Entries(b)' /\ d[i + 1] = buckets[b][i]
  <2> SUFFICES ASSUME NEW i \in Entries(b)
               PROVE  i + 1 \in Entries(b)' /\ d[i + 1] = buckets[b][i]
    OBVIOUS
  <2>1. i + 1 \in 2 .. Len(buckets[b]) + 1 /\ i + 1 \in 1 .. Len(buckets[b]) + 1 /\ (i + 1) - 1 = i
    BY <1>1, <1>7
  <2> QED
    BY <1>4, <1>7, <2>1
<1>10. 1 \in Entries(b)' /\ d[1].word = w /\ d[1].count = 1
  BY <1>1, <1>2, <1>4, <1>7
<1>11. Entries(b)' = Entries(Bucket(w))'
  BY DEF b, Entries
<1> QED
  BY <1>5, <1>6, <1>8, <1>9, <1>10, <1>11 DEF b

\* Counting a word keeps the table a census.
LEMMA CountKeeps ==
  ASSUME WordAssumption, Table, NEW w \in Strings, Count(w), words' = Append(words, w),
         total_words' = total_words + 1
  PROVE  Table'
<1>1. Typed /\ Filed /\ Exact /\ Complete /\ Totals /\ words \in Seq(Strings)
  BY DEF Table, Typed
<1>2. /\ words' \in Seq(Strings) /\ Len(words') = Len(words) + 1
      /\ \A v : /\ Times(words, v) \in Nat
                /\ Times(words', v) = IF v = w THEN Times(words, v) + 1 ELSE Times(words, v)
  BY <1>1, TimesAppend
<1>3. ToSet(words') = ToSet(words) \cup {w} /\ IsFiniteSet(ToSet(words))
  BY <1>1, ToSetAppend
<1>4. CASE Found(w) # {}
  <2>1. /\ buckets' \in [Chains -> Seq(Entry)]
        /\ \A c \in Chains : Entries(c)' = Entries(c)
        /\ \A c \in Chains : \A i \in Entries(c) :
             /\ buckets'[c][i].word = buckets[c][i].word
             /\ buckets'[c][i].count =
                  IF buckets[c][i].word = w THEN buckets[c][i].count + 1 ELSE buckets[c][i].count
    BY <1>1, <1>4, CountAgain
  <2>2. Typed'
    BY <1>2, <2>1 DEF Typed, Chains, Entry, Strings, Bytes
  <2>3. Filed'
    <3>1. \A b \in Chains : \A i \in Entries(b)' : Bucket(buckets'[b][i].word) = b
      BY <1>1, <2>1 DEF Filed
    <3>2. \A b \in Chains : \A i, j \in Entries(b)' :
            buckets'[b][i].word = buckets'[b][j].word => i = j
      BY <1>1, <2>1 DEF Filed
    <3> QED
      BY <3>1, <3>2 DEF Filed, Chains
  <2>4. Exact'
    <3>1. ASSUME NEW b \in Chains, NEW i \in Entries(b)'
          PROVE  buckets'[b][i].count = Times(words', buckets'[b][i].word)
      <4>1. i \in Entries(b)
        BY <2>1, <3>1
      <4>2. buckets[b][i].count = Times(words, buckets[b][i].word)
        BY <1>1, <4>1 DEF Exact
      <4> QED
        BY <1>2, <2>1, <4>1, <4>2
    <3> QED
      BY <3>1 DEF Exact, Chains, Times
  <2>5. w \in ToSet(words)
    <3>1. PICK i \in Found(w) : TRUE
      BY <1>4
    <3>2. Bucket(w) \in Chains /\ i \in Entries(Bucket(w)) /\ buckets[Bucket(w)][i].word = w
      BY <1>1, <3>1, FoundIs DEF Found
    <3>3. Times(words, w) \in Nat \ {0}
      BY <1>1, <3>2, EntryIs DEF Exact
    <3> QED
      BY <1>1, <3>3, TimesIs
  <2>6. Complete'
    <3>1. ASSUME NEW v \in ToSet(words') PROVE Found(v)' # {}
      <4>1. v \in ToSet(words)
        BY <1>3, <2>5, <3>1
      <4>2. PICK i \in Found(v) : TRUE
        BY <1>1, <4>1 DEF Complete
      <4>3. v \in Strings
        BY <1>1, <4>1, ElementOfSeq, LenProperties DEF ToSet
      <4>4. Bucket(v) \in Chains /\ i \in Entries(Bucket(v)) /\ buckets[Bucket(v)][i].word = v
        BY <1>1, <4>2, <4>3, FoundIs DEF Found
      <4> DEFINE b == Bucket(v)
      <4>5. i \in Entries(b)' /\ buckets'[b][i].word = v
        BY <2>1, <4>4
      <4>6. i \in Found(v)'
        BY <4>5 DEF Found
      <4> QED
        BY <4>6
    <3> QED
      BY <3>1 DEF Complete
  <2>7. ToSet(words') = ToSet(words) /\ unique_words' = unique_words
    BY <1>3, <1>4, <2>5 DEF Count
  <2>8. Totals'
    BY <1>1, <1>2, <2>7 DEF Totals
  <2> QED
    BY <2>2, <2>3, <2>4, <2>6, <2>8 DEF Table
<1>5. CASE Found(w) = {}
  <2> DEFINE h == Bucket(w)
  <2>1. /\ buckets' \in [Chains -> Seq(Entry)]
        /\ \A c \in Chains : c # h => Entries(c)' = Entries(c) /\ buckets'[c] = buckets[c]
        /\ 1 \in Entries(h)'
        /\ buckets'[h][1].word = w /\ buckets'[h][1].count = 1
        /\ \A i \in Entries(h)' : i # 1 => i - 1 \in Entries(h) /\ buckets'[h][i] = buckets[h][i - 1]
        /\ \A i \in Entries(h) : i + 1 \in Entries(h)' /\ buckets'[h][i + 1] = buckets[h][i]
    BY <1>1, <1>5, CountFirst
  <2>2. h \in Chains /\ Len(buckets[h]) \in Nat
    BY <1>1, FoundIs
  <2>3. Typed'
    BY <1>2, <2>1 DEF Typed, Chains, Entry, Strings, Bytes
  <2>4. \A i \in Entries(h) : buckets[h][i].word # w
    BY <1>5 DEF Found
  <2>5. w \notin ToSet(words) /\ Times(words, w) = 0
    BY <1>1, <1>5, TimesIs DEF Complete
  <2>6. \A i \in Entries(h)' : i \in Nat
    BY <2>1, <2>2 DEF Entries
  <2> HIDE DEF h
  <2>7. Filed'
    <3>1. ASSUME NEW b \in Chains, NEW i \in Entries(b)' PROVE Bucket(buckets'[b][i].word) = b
      <4>1. CASE b # h
        BY <1>1, <2>1, <3>1, <4>1 DEF Filed
      <4>2. CASE b = h /\ i = 1
        BY <2>1, <4>2 DEF h
      <4>3. CASE b = h /\ i # 1
        BY <1>1, <2>1, <2>2, <3>1, <4>3 DEF Filed
      <4> QED
        BY <4>1, <4>2, <4>3
    <3>2. ASSUME NEW b \in Chains, NEW i \in Entries(b)', NEW j \in Entries(b)',
                 buckets'[b][i].word = buckets'[b][j].word
          PROVE  i = j
      <4>1. CASE b # h
        BY <1>1, <2>1, <3>2, <4>1 DEF Filed
      <4>2. CASE b = h /\ i = 1
        <5>1. j # 1 => j - 1 \in Entries(h) /\ buckets'[h][j] = buckets[h][j - 1]
          BY <2>1, <3>2, <4>2
        <5> QED
          BY <2>1, <2>4, <3>2, <4>2, <5>1
      <4>3. CASE b = h /\ j = 1
        <5>1. i # 1 => i - 1 \in Entries(h) /\ buckets'[h][i] = buckets[h][i - 1]
          BY <2>1, <3>2, <4>3
        <5> QED
          BY <2>1, <2>4, <3>2, <4>3, <5>1
      <4>4. CASE b = h /\ i # 1 /\ j # 1
        <5>1. /\ i - 1 \in Entries(h) /\ buckets'[h][i] = buckets[h][i - 1]
              /\ j - 1 \in Entries(h) /\ buckets'[h][j] = buckets[h][j - 1]
          BY <2>1, <3>2, <4>4
        <5>2. i - 1 = j - 1
          BY <1>1, <2>2, <3>2, <4>4, <5>1 DEF Filed
        <5> QED
          BY <2>6, <3>2, <4>4, <5>2
      <4> QED
        BY <4>1, <4>2, <4>3, <4>4
    <3> QED
      BY <3>1, <3>2 DEF Filed, Chains
  <2>8. Exact'
    <3>1. ASSUME NEW b \in Chains, NEW i \in Entries(b)'
          PROVE  buckets'[b][i].count = Times(words', buckets'[b][i].word)
      <4>1. CASE b # h
        <5>1. i \in Entries(b) /\ buckets'[b][i] = buckets[b][i]
          BY <2>1, <3>1, <4>1
        <5>2. buckets[b][i].word # w
          BY <1>1, <4>1, <5>1 DEF Filed, h
        <5> QED
          BY <1>1, <1>2, <5>1, <5>2 DEF Exact
      <4>2. CASE b = h /\ i = 1
        BY <1>2, <2>1, <2>5, <4>2
      <4>3. CASE b = h /\ i # 1
        <5>1. i - 1 \in Entries(h) /\ buckets'[h][i] = buckets[h][i - 1]
          BY <2>1, <3>1, <4>3
        <5> DEFINE k == i - 1
        <5>2. k \in Entries(h) /\ buckets'[h][i] = buckets[h][k]
          BY <5>1
        <5> HIDE DEF k
        <5>3. buckets[h][k].word # w
          BY <2>4, <5>2
        <5>4. buckets[h][k].count = Times(words, buckets[h][k].word)
          BY <1>1, <2>2, <5>2 DEF Exact
        <5> QED
          BY <1>2, <4>3, <5>2, <5>3, <5>4
      <4> QED
        BY <4>1, <4>2, <4>3
    <3> QED
      BY <3>1 DEF Exact, Chains, Times
  <2>9. Complete'
    <3>1. ASSUME NEW v \in ToSet(words') PROVE Found(v)' # {}
      <4>1. CASE v = w
        <5>1. 1 \in Found(w)'
          BY <2>1 DEF Found, h
        <5> QED
          BY <4>1, <5>1
      <4>2. CASE v # w
        <5>1. v \in ToSet(words)
          BY <1>3, <3>1, <4>2
        <5>2. PICK i \in Found(v) : TRUE
          BY <1>1, <5>1 DEF Complete
        <5>3. v \in Strings
          BY <1>1, <5>1, ElementOfSeq, LenProperties DEF ToSet
        <5> DEFINE b == Bucket(v)
        <5>4. b \in Chains /\ i \in Entries(b) /\ buckets[b][i].word = v
          BY <1>1, <5>2, <5>3, FoundIs DEF Found
        <5>5. b # h => i \in Entries(b)' /\ buckets'[b][i].word = v
          BY <2>1, <5>4
        <5>6. b = h => i + 1 \in Entries(b)' /\ buckets'[b][i + 1].word = v
          BY <2>1, <5>4
        <5>7. b # h => i \in Found(v)'
          BY <5>5 DEF Found
        <5>8. b = h => i + 1 \in Found(v)'
          BY <5>6 DEF Found
        <5> QED
          BY <5>7, <5>8
      <4> QED
        BY <4>1, <4>2
    <3> QED
      BY <3>1 DEF Complete
  <2>10. Cardinality(ToSet(words')) = Cardinality(ToSet(words)) + 1 /\ unique_words' = unique_words + 1
    <3>1. unique_words' = unique_words + 1
      BY <1>5 DEF Count
    <3>2. Cardinality(ToSet(words) \cup {w}) = Cardinality(ToSet(words)) + 1
      BY <1>3, <2>5, FS_AddElement
    <3> QED
      BY <1>3, <3>1, <3>2
  <2>11. Totals'
    BY <1>1, <1>2, <2>10 DEF Totals
  <2> QED
    BY <2>3, <2>7, <2>8, <2>9, <2>11 DEF Table
<1> QED
  BY <1>4, <1>5

\* The empty table is a census of no words.
LEMMA TableInit == WordAssumption /\ Init => Table
<1> SUFFICES ASSUME WordAssumption, Init PROVE Table
  OBVIOUS
<1>1. HASHTABLE_SIZE \in Nat \ {0}
  BY DEF WordAssumption
<1>2. buckets = [b \in Chains |-> <<>>] /\ words = <<>> /\ total_words = 0 /\ unique_words = 0
  BY DEF Init, Chains
<1>3. <<>> \in Seq(Entry) /\ <<>> \in Seq(Strings) /\ Len(<<>>) = 0
  BY EmptySeq
<1>4. Typed
  BY <1>2, <1>3 DEF Typed
<1>5. \A b \in Chains : Entries(b) = {}
  BY <1>2, <1>3 DEF Entries
<1>6. ToSet(words) = {}
  BY <1>2 DEF ToSet
<1>7. Filed /\ Exact
  BY <1>5 DEF Filed, Exact
<1>8. Complete
  BY <1>6 DEF Complete
<1>9. Totals
  BY <1>2, <1>3, <1>6, FS_EmptySet DEF Totals
<1> QED
  BY <1>4, <1>7, <1>8, <1>9 DEF Table

\* Every step keeps the table a census.
LEMMA TableStep == WordAssumption /\ Placed /\ Table /\ [Next]_vars => Table'
<1> SUFFICES ASSUME WordAssumption, Placed, Table, [Next]_vars PROVE Table'
  OBVIOUS
<1>1. CASE CountWord
  <2>1. /\ Char(Start) # EOF /\ Count(CountedWord) /\ words' = Append(words, CountedWord)
        /\ total_words' = total_words + 1
    BY <1>1 DEF CountWord, ReadsWord, CountedWord
  <2>2. CountedWord \in Strings
    BY <2>1, CountedWordIs
  <2> DEFINE w == CountedWord
  <2> HIDE DEF w
  <2>3. w \in Strings /\ Count(w) /\ words' = Append(words, w) /\ total_words' = total_words + 1
    BY <2>1, <2>2 DEF w
  <2> QED
    BY <2>3, CountKeeps
<1>2. CASE Skip \/ EndOfInput \/ Search \/ Finish \/ Ended \/ UNCHANGED vars
  <2>1. UNCHANGED <<buckets, total_words, unique_words, words>>
    BY <1>2 DEF Skip, EndOfInput, Search, Finish, Ended, vars
  <2>2. \A b : Entries(b)' = Entries(b)
    BY <2>1 DEF Entries
  <2>3. \A w : Found(w)' = Found(w)
    BY <2>1, <2>2 DEF Found
  <2>4. Typed' /\ Filed'
    BY <2>1, <2>2 DEF Table, Typed, Filed
  <2>5. Exact'
    BY <2>1, <2>2 DEF Table, Exact
  <2>6. Complete' /\ Totals'
    BY <2>1, <2>3 DEF Table, Complete, Totals
  <2> QED
    BY <2>4, <2>5, <2>6 DEF Table
<1> QED
  BY <1>1, <1>2 DEF Next

\* Such a table is a census as WordCount states it.
LEMMA TableIsCensus == WordAssumption /\ Table => Census
<1> SUFFICES ASSUME WordAssumption, Table PROVE Census
  OBVIOUS
<1>1. Typed /\ Filed /\ Exact /\ Complete /\ Totals
  BY DEF Table
<1>2. DOMAIN buckets = Chains
  BY <1>1 DEF Typed
<1>3. ASSUME NEW b \in Chains, NEW i \in Entries(b)
      PROVE  /\ buckets[b][i].count = Occurrences(buckets[b][i].word) /\ buckets[b][i].count > 0
             /\ \A c \in Chains : \A j \in Entries(c) :
                  buckets[c][j].word = buckets[b][i].word => <<c, j>> = <<b, i>>
  <2>1. buckets[b][i].count = Occurrences(buckets[b][i].word)
    BY <1>1, <1>3 DEF Exact, Times, Occurrences
  <2>2. buckets[b][i].count > 0
    BY <1>1, <1>3, EntryIs
  <2>3. ASSUME NEW c \in Chains, NEW j \in Entries(c), buckets[c][j].word = buckets[b][i].word
        PROVE  c = b /\ j = i
    BY <1>1, <1>3, <2>3 DEF Filed
  <2> QED
    BY <2>1, <2>2, <2>3
<1> QED
  BY <1>1, <1>2, <1>3 DEF Census, Complete, Totals

(***************************************************************************)
(* wc_find_or_insert and wc_dict_find_or_insert keep one entry for each word*)
(* that was counted, in the chain of its hash code, with the number of its *)
(* occurrences, and main adds them up (c_wcfuncs.c, c_wcmain.c), whatever  *)
(* the input, the number of chains and the collisions of hash codes.       *)
(***************************************************************************)
THEOREM CensusIsKept == ASSUME WordAssumption PROVE Spec => []Census
<1>1. Init => Placed /\ Table
  BY PlacedInit, TableInit
<1>2. Placed /\ Table /\ [Next]_vars => Placed' /\ Table'
  BY PlacedStep, TableStep
<1>3. Table => Census
  BY TableIsCensus
<1> QED
  BY <1>1, <1>2, <1>3, PTL DEF Spec

-----------------------------------------------------------------------------
(* The search.                                                             *)

\* wc_str_compare orders the words: no word is less than itself, or than a lesser one.
LEMMA LessIsOrder ==
  ASSUME NEW s \in Strings, NEW t \in Strings, NEW u \in Strings
  PROVE  ~Less(s, s) /\ (Less(s, t) /\ Less(t, u) => Less(s, u))
<1>1. Len(s) \in Nat /\ Len(t) \in Nat /\ Len(u) \in Nat
  BY LenProperties DEF Strings
<1>2. /\ \A k \in 1 .. Len(s) : s[k] \in Nat
      /\ \A k \in 1 .. Len(t) : t[k] \in Nat
      /\ \A k \in 1 .. Len(u) : u[k] \in Nat
  <2>1. \A v \in Strings : \A k \in 1 .. Len(v) : v[k] \in 0 .. 255
    BY ElementOfSeq DEF Strings, Bytes
  <2>2. \A x \in 0 .. 255 : x \in Nat
    OBVIOUS
  <2> QED
    BY <2>1, <2>2
<1>3. ~Less(s, s)
  BY <1>1, <1>2 DEF Less
<1>4. ASSUME Less(s, t), Less(t, u) PROVE Less(s, u)
  <2>1. PICK i \in 1 .. Len(t) : /\ \A j \in 1 .. i - 1 : j <= Len(s) /\ s[j] = t[j]
                                 /\ i > Len(s) \/ s[i] < t[i]
    BY <1>4 DEF Less
  <2>2. PICK k \in 1 .. Len(u) : /\ \A j \in 1 .. k - 1 : j <= Len(t) /\ t[j] = u[j]
                                 /\ k > Len(t) \/ t[k] < u[k]
    BY <1>4 DEF Less
  <2>3. i \in Nat /\ k \in Nat /\ i >= 1 /\ k >= 1 /\ i <= Len(t) /\ k <= Len(u)
    BY <1>1, <2>1, <2>2
  <2>4. CASE i < k
    <3>1. i \in 1 .. Len(u) /\ i \in 1 .. k - 1 /\ t[i] = u[i]
      BY <1>1, <2>2, <2>3, <2>4
    <3>2. \A j \in 1 .. i - 1 : j <= Len(s) /\ s[j] = u[j]
      BY <2>1, <2>2, <2>3, <2>4
    <3> QED
      BY <2>1, <3>1, <3>2 DEF Less
  <2>5. CASE i = k
    <3>1. i \in 1 .. Len(u) /\ t[i] < u[i]
      BY <1>1, <2>2, <2>3, <2>5
    <3>2. \A j \in 1 .. i - 1 : j <= Len(s) /\ s[j] = u[j]
      BY <2>1, <2>2, <2>3, <2>5
    <3>3. i > Len(s) \/ s[i] < u[i]
      <4>1. CASE i <= Len(s)
        BY <1>1, <1>2, <2>1, <2>3, <3>1, <4>1
      <4> QED
        BY <1>1, <2>3, <4>1
    <3> QED
      BY <3>1, <3>2, <3>3 DEF Less
  <2>6. CASE i > k
    <3>1. k \in 1 .. i - 1 /\ k <= Len(s) /\ s[k] = t[k] /\ t[k] < u[k]
      BY <1>1, <2>1, <2>2, <2>3, <2>6
    <3>2. \A j \in 1 .. k - 1 : j <= Len(s) /\ s[j] = u[j]
      BY <2>1, <2>2, <2>3, <2>6
    <3> QED
      BY <2>2, <3>1, <3>2 DEF Less
  <2> QED
    BY <2>3, <2>4, <2>5, <2>6
<1> QED
  BY <1>3, <1>4

\* The search has met the i-th entry of chain b.
Met(b, i) == b < cell[1] \/ (b = cell[1] /\ i < cell[2])

\* An entry is no better than the best so far.
NoBetter(e) ==
  \/ e.count < best_word_count
  \/ e.count = best_word_count /\ ~Less(e.word, best_word)

\* The best so far is this entry.
IsBest(e) == best_word = e.word /\ best_word_count = e.count

\* The search begins in front of the first chain, and ends behind the last one.
Searching ==
  /\ cell \in (0 .. HASHTABLE_SIZE) \X (Nat \ {0})
  /\ phase \in {"read", "search", "end"}
  /\ phase = "read" => cell = <<0, 1>> /\ best_word_count = 0
  /\ phase = "end" => cell[1] = HASHTABLE_SIZE
  /\ best_word \in Strings /\ best_word_count \in Nat

\* The best so far is an entry, and none that the search has met is better.
BestSoFar ==
  /\ \A b \in Chains : \A i \in Entries(b) : Met(b, i) => NoBetter(buckets[b][i])
  /\ best_word_count = 0 \/ \E b \in Chains : \E i \in Entries(b) : IsBest(buckets[b][i])

\* Before the search there is none.
LEMMA BestInit == WordAssumption /\ Init => Searching /\ BestSoFar
<1> SUFFICES ASSUME WordAssumption, Init PROVE Searching /\ BestSoFar
  OBVIOUS
<1>1. HASHTABLE_SIZE \in Nat \ {0}
  BY DEF WordAssumption
<1>2. Searching
  <2>1. <<>> \in Strings
    BY EmptySeq DEF Strings
  <2> QED
    BY <1>1, <2>1 DEF Init, Searching
<1>3. \A b \in Chains : Entries(b) = {}
  <2>1. \A b \in Chains : buckets[b] = <<>>
    BY DEF Init, Chains
  <2>2. Len(<<>>) = 0
    BY EmptySeq
  <2> QED
    BY <2>1, <2>2 DEF Entries
<1>4. BestSoFar
  BY <1>3 DEF Init, BestSoFar
<1> QED
  BY <1>2, <1>4

\* Every step keeps the best so far the best of those that were met.
LEMMA BestStep ==
  WordAssumption /\ Placed /\ Table /\ Searching /\ BestSoFar /\ [Next]_vars
    => Searching' /\ BestSoFar'
<1> SUFFICES ASSUME WordAssumption, Placed, Table, Searching, BestSoFar, [Next]_vars
             PROVE  Searching' /\ BestSoFar'
  OBVIOUS
<1>1. HASHTABLE_SIZE \in Nat \ {0} /\ Typed
  BY DEF WordAssumption, Table
<1>2. /\ cell[1] \in 0 .. HASHTABLE_SIZE /\ cell[2] \in Nat \ {0}
      /\ best_word \in Strings /\ best_word_count \in Nat
  BY DEF Searching
<1>3. \A b \in Chains : \A i \in Entries(b) : b \in Nat /\ i \in Nat \ {0}
  <2>1. \A b \in Chains : Len(buckets[b]) \in Nat
    BY <1>1, EntryIs
  <2> QED
    BY <1>1, <2>1 DEF Chains, Entries
<1>4. CASE Skip \/ CountWord
  <2>1. phase = "read" /\ cell = <<0, 1>> /\ best_word_count = 0
        /\ UNCHANGED <<phase, cell, best_word, best_word_count>>
    BY <1>4 DEF Skip, CountWord, ReadsWord, Searching
  <2>2. Searching'
    BY <2>1 DEF Searching
  <2>3. Table'
    BY TableStep
  <2>4. \A b \in Chains : \A i \in Entries(b)' : b \in Nat /\ i \in Nat \ {0}
    <3>1. Typed'
      BY <2>3 DEF Table
    <3>2. \A b \in Chains : buckets'[b] \in Seq(Entry)
      BY <3>1 DEF Typed, Chains, Entry, Strings, Bytes
    <3>3. \A b \in Chains : Len(buckets'[b]) \in Nat
      BY <3>2, LenProperties
    <3> QED
      BY <1>1, <3>3 DEF Chains, Entries
  <2>5. \A b \in Chains : \A i \in Entries(b)' : ~Met(b, i)'
    BY <2>1, <2>4 DEF Met
  <2>6. BestSoFar'
    BY <2>1, <2>5 DEF BestSoFar, Chains
  <2> QED
    BY <2>2, <2>6
<1>5. CASE EndOfInput \/ Finish \/ Ended \/ UNCHANGED vars
  <2>1. UNCHANGED <<buckets, cell, best_word, best_word_count>>
    BY <1>5 DEF EndOfInput, Finish, Ended, vars
  <2>2. Searching'
    BY <1>5, <2>1 DEF EndOfInput, Finish, Ended, vars, Searching
  <2>3. BestSoFar'
    BY <2>1 DEF BestSoFar, Met, NoBetter, IsBest, Entries
  <2> QED
    BY <2>2, <2>3
<1>6. CASE Search
  <2>1. /\ phase' = phase /\ buckets' = buckets /\ phase = "search" /\ cell[1] < HASHTABLE_SIZE
        /\ \A b : Entries(b)' = Entries(b)
    BY <1>6 DEF Search, Entries
  <2>2. cell[1] \in Chains
    BY <1>1, <1>2, <2>1 DEF Chains
  <2>3. PICK c \in Chains : c = cell[1]
    BY <2>2
  <2>4. PICK k \in Nat \ {0} : k = cell[2]
    BY <1>2
  <2>5. c \in 0 .. HASHTABLE_SIZE - 1 /\ k \in Nat \ {0} /\ c = cell[1] /\ k = cell[2]
    BY <2>3, <2>4 DEF Chains
  <2> DEFINE e == buckets[c][k]
  <2>6. CASE k \in Entries(c)
    <3>1. /\ cell' = <<c, k + 1>>
          /\ best_word' = IF Better(e) THEN e.word ELSE best_word
          /\ best_word_count' = IF Better(e) THEN e.count ELSE best_word_count
      BY <1>6, <2>5, <2>6 DEF Search
    <3>2. e.word \in Strings /\ e.count \in Nat \ {0}
      BY <1>1, <2>6, EntryIs
    <3>3. Searching'
      <4>1. cell' \in (0 .. HASHTABLE_SIZE) \X (Nat \ {0})
        BY <1>2, <2>5, <3>1
      <4>2. best_word' \in Strings /\ best_word_count' \in Nat
        BY <1>2, <3>1, <3>2
      <4> QED
        BY <2>1, <4>1, <4>2 DEF Searching, Strings, Bytes
    <3>4. ASSUME NEW b \in Chains, NEW j \in Entries(b), Met(b, j)'
          PROVE  NoBetter(buckets[b][j])'
      <4>1. Met(b, j) \/ (b = c /\ j = k)
        BY <1>2, <1>3, <2>5, <3>1, <3>4 DEF Met
      <4>2. buckets[b][j].word \in Strings /\ buckets[b][j].count \in Nat \ {0}
        BY <1>1, <3>4, EntryIs
      <4> DEFINE f == buckets[b][j]
      <4>3. Met(b, j) => NoBetter(f)
        BY <3>4 DEF BestSoFar
      <4> HIDE DEF f, e
      <4>4. f.word \in Strings /\ f.count \in Nat \ {0}
        BY <4>2 DEF f
      <4>5. b = c /\ j = k => f = e
        BY DEF f, e
      <4>6. CASE Better(e)
        <5>1. best_word' = e.word /\ best_word_count' = e.count
          BY <3>1, <4>6
        <5>2. ~Less(e.word, e.word)
              /\ (Less(f.word, e.word) /\ Less(e.word, best_word) => Less(f.word, best_word))
          BY <1>2, <3>2, <4>4, LessIsOrder
        <5>3. e.count > best_word_count \/ (e.count = best_word_count /\ Less(e.word, best_word))
          BY <4>6 DEF Better
        <5>4. CASE Met(b, j)
          <6>1. f.count < best_word_count \/ (f.count = best_word_count /\ ~Less(f.word, best_word))
            BY <4>3, <5>4 DEF NoBetter
          <6>2. f.count < e.count \/ (f.count = e.count /\ ~Less(f.word, e.word))
            BY <1>2, <3>2, <4>4, <5>2, <5>3, <6>1
          <6> QED
            BY <2>1, <5>1, <6>2 DEF NoBetter, f
        <5>5. CASE ~Met(b, j)
          <6>1. f = e
            BY <4>1, <4>5, <5>5
          <6>2. f.count = e.count /\ ~Less(f.word, e.word)
            BY <5>2, <6>1
          <6> QED
            BY <2>1, <5>1, <6>2 DEF NoBetter, f
        <5> QED
          BY <5>4, <5>5
      <4>7. CASE ~Better(e)
        <5>1. best_word' = best_word /\ best_word_count' = best_word_count
          BY <3>1, <4>7
        <5>2. e.count < best_word_count \/ (e.count = best_word_count /\ ~Less(e.word, best_word))
          BY <1>2, <3>2, <4>7 DEF Better
        <5>3. f.count < best_word_count \/ (f.count = best_word_count /\ ~Less(f.word, best_word))
          BY <4>1, <4>3, <4>5, <5>2 DEF NoBetter
        <5> QED
          BY <2>1, <5>1, <5>3 DEF NoBetter, f
      <4> QED
        BY <4>6, <4>7
    <3>5. best_word_count' = 0 \/ \E b \in Chains : \E j \in Entries(b) : IsBest(buckets[b][j])'
      <4>1. CASE Better(e)
        <5>1. IsBest(buckets[c][k])'
          BY <2>1, <3>1, <4>1 DEF IsBest
        <5> QED
          BY <2>5, <2>6, <5>1
      <4>2. CASE ~Better(e)
        BY <2>1, <3>1, <4>2 DEF BestSoFar, IsBest
      <4> QED
        BY <4>1, <4>2
    <3>6. BestSoFar'
      BY <2>1, <3>4, <3>5 DEF BestSoFar, Chains
    <3> QED
      BY <3>3, <3>6
  <2>7. CASE k \notin Entries(c)
    <3>1. cell' = <<c + 1, 1>> /\ UNCHANGED <<best_word, best_word_count>>
      BY <1>6, <2>5, <2>7 DEF Search
    <3>2. Searching'
      <4>1. cell' \in (0 .. HASHTABLE_SIZE) \X (Nat \ {0})
        BY <1>1, <1>2, <2>1, <2>5, <3>1
      <4> QED
        BY <1>2, <2>1, <3>1, <4>1 DEF Searching, Strings, Bytes
    <3>3. ASSUME NEW b \in Chains, NEW j \in Entries(b), Met(b, j)' PROVE Met(b, j)
      <4>1. Len(buckets[c]) \in Nat
        BY <1>1, EntryIs
      <4>2. b = c => j < k
        BY <1>2, <1>3, <2>5, <2>7, <3>3, <4>1 DEF Entries
      <4>3. b < c + 1 \/ (b = c + 1 /\ j < 1)
        BY <2>5, <3>1, <3>3 DEF Met
      <4> QED
        BY <1>2, <1>3, <2>5, <3>3, <4>2, <4>3 DEF Met
    <3>4. BestSoFar'
      BY <2>1, <3>1, <3>3 DEF BestSoFar, NoBetter, IsBest, Chains
    <3> QED
      BY <3>2, <3>4
  <2> QED
    BY <2>6, <2>7
<1> QED
  BY <1>4, <1>5, <1>6 DEF Next

\* When all entries have been met, it is the first of the most frequent words.
LEMMA BestIsBest ==
  WordAssumption /\ Table /\ Searching /\ BestSoFar => BestIsFirstOfMostFrequent
<1> SUFFICES ASSUME WordAssumption, Table, Searching, BestSoFar, phase = "end", words # <<>>
             PROVE  /\ best_word \in ToSet(words)
                    /\ best_word_count = Occurrences(best_word)
                    /\ \A w \in ToSet(words) :
                         \/ Occurrences(w) < best_word_count
                         \/ Occurrences(w) = best_word_count /\ ~Less(w, best_word)
  BY DEF BestIsFirstOfMostFrequent
<1>1. Typed /\ Filed /\ Exact /\ Complete /\ words \in Seq(Strings) /\ HASHTABLE_SIZE \in Nat
  BY DEF Table, Typed, WordAssumption
<1>2. cell[1] = HASHTABLE_SIZE /\ best_word_count \in Nat
  BY DEF Searching
<1>3. \A b \in Chains : \A i \in Entries(b) : NoBetter(buckets[b][i])
  BY <1>1, <1>2 DEF BestSoFar, Met, Chains
<1>4. ASSUME NEW w \in ToSet(words)
      PROVE  /\ Occurrences(w) \in Nat \ {0}
             /\ Occurrences(w) < best_word_count
                \/ (Occurrences(w) = best_word_count /\ ~Less(w, best_word))
  <2>1. w \in Strings
    BY <1>1, <1>4, ElementOfSeq, LenProperties DEF ToSet
  <2>2. PICK i \in Found(w) : TRUE
    BY <1>1, <1>4 DEF Complete
  <2> DEFINE b == Bucket(w)
  <2>3. b \in Chains /\ i \in Entries(b) /\ buckets[b][i].word = w
    BY <1>1, <2>1, <2>2, FoundIs DEF Found
  <2> HIDE DEF b
  <2>4. buckets[b][i].count = Occurrences(w) /\ buckets[b][i].count \in Nat \ {0}
    BY <1>1, <2>3, EntryIs DEF Exact, Times, Occurrences
  <2>5. NoBetter(buckets[b][i])
    BY <1>3, <2>3
  <2> QED
    BY <2>3, <2>4, <2>5 DEF NoBetter
<1>5. PICK w \in ToSet(words) : TRUE
  <2>1. Len(words) \in Nat /\ Len(words) # 0 /\ DOMAIN words = 1 .. Len(words)
    BY <1>1, LenProperties, EmptySeq
  <2>2. words[1] \in ToSet(words)
    BY <2>1 DEF ToSet
  <2> QED
    BY <2>2
<1>6. best_word_count # 0
  BY <1>2, <1>4, <1>5
<1>7. PICK b \in Chains : \E i \in Entries(b) : IsBest(buckets[b][i])
  BY <1>6 DEF BestSoFar
<1>8. PICK i \in Entries(b) : IsBest(buckets[b][i])
  BY <1>7
<1>9. best_word_count = Times(words, best_word)
  BY <1>1, <1>8 DEF IsBest, Exact
<1>10. best_word \in ToSet(words)
  BY <1>1, <1>6, <1>9, TimesIs
<1> QED
  BY <1>4, <1>9, <1>10 DEF Times, Occurrences

(***************************************************************************)
(* The search of main in c_wcmain.c reports, of the words that occur most  *)
(* often, the first in the order of wc_str_compare, in whatever chains and *)
(* order it meets them.                                                    *)
(***************************************************************************)
THEOREM BestIsReported == ASSUME WordAssumption PROVE Spec => []BestIsFirstOfMostFrequent
<1> DEFINE Inv == Placed /\ Table /\ Searching /\ BestSoFar
<1>1. Init => Inv
  BY PlacedInit, TableInit, BestInit
<1>2. Inv /\ [Next]_vars => Inv'
  BY PlacedStep, TableStep, BestStep
<1>3. Inv => BestIsFirstOfMostFrequent
  BY BestIsBest
<1> QED
  BY <1>1, <1>2, <1>3, PTL DEF Spec

-----------------------------------------------------------------------------
(* The runs.                                                               *)

\* The input has no byte that ends it early or cuts a word, and no long run.
Plain ==
  /\ {0, 255} \cap ToSet(input) = {}
  /\ \A i \in RunStarts : Len(Run(i)) <= MAX_WORDLEN

\* The stream is in front of a run, or of whitespace, but not within a run.
Between == pos = 1 \/ pos = Len(input) + 1 \/ wc_isspace(input[pos - 1])

\* The runs that begin before a place.
Before(p) == {j \in RunStarts : j < p}

\* The words counted are the runs that have been read.
RunsRead ==
  Plain =>
    /\ Between
    /\ Len(words) = Cardinality(Before(pos))
    /\ \A i \in Before(pos) : words[Rank(i)] = wc_trim_non_alpha(wc_tolower(Run(i)))
    /\ phase # "read" => RunStarts \subseteq Before(pos)

\* A run ends, at one place.
LEMMA RunEndIs ==
  ASSUME WordAssumption, Placed, NEW i \in RunStarts
  PROVE  /\ i \in 1 .. Len(input) /\ Len(input) \in Nat
         /\ RunEnd(i) \in i .. Len(input)
         /\ RunEnd(i) = Len(input) \/ wc_isspace(input[RunEnd(i) + 1])
         /\ \A k \in i .. RunEnd(i) : ~wc_isspace(input[k])
<1>1. Len(input) \in Nat /\ DOMAIN input = 1 .. Len(input)
  BY InputIs, LenProperties DEF Strings
<1>2. i \in 1 .. Len(input) /\ ~wc_isspace(input[i])
  BY <1>1 DEF RunStarts
<1> DEFINE S == {j \in i .. Len(input) : j = Len(input) \/ wc_isspace(input[j + 1])}
<1>3. PICK m \in S : \A k \in S : m <= k
  <2>1. S \subseteq Nat /\ Len(input) \in S
    BY <1>1, <1>2
  <2> HIDE DEF S
  <2> QED
    BY <2>1, LeastIs
<1>4. \A k \in i .. m : ~wc_isspace(input[k])
  <2> SUFFICES ASSUME NEW k \in i .. m, wc_isspace(input[k]) PROVE FALSE
    OBVIOUS
  <2>1. k # i /\ m \in i .. Len(input)
    BY <1>2, <1>3
  <2>2. k - 1 \in i .. Len(input) /\ (k - 1) + 1 = k /\ ~(m <= k - 1)
    <3> DEFINE l == Len(input)
    <3> HIDE DEF S
    <3>1. m \in i .. l /\ k # i
      BY <2>1
    <3> HIDE DEF l
    <3>2. l \in Int /\ i \in Int
      BY <1>1, <1>2 DEF l
    <3>3. k - 1 \in i .. l /\ (k - 1) + 1 = k /\ ~(m <= k - 1)
      BY <3>1, <3>2
    <3> QED
      BY <3>3 DEF l
  <2>3. k - 1 \in S
    BY <2>2
  <2> QED
    BY <1>3, <2>2, <2>3
<1>5. \E j \in i .. Len(input) :
        /\ j = Len(input) \/ wc_isspace(input[j + 1])
        /\ \A k \in i .. j : ~wc_isspace(input[k])
  BY <1>3, <1>4
<1>6. /\ RunEnd(i) \in i .. Len(input)
      /\ RunEnd(i) = Len(input) \/ wc_isspace(input[RunEnd(i) + 1])
      /\ \A k \in i .. RunEnd(i) : ~wc_isspace(input[k])
  BY <1>5, Zenon DEF RunEnd
<1> QED
  BY <1>1, <1>2, <1>6

\* A place where a run may end is where it ends.
LEMMA RunEndUnique ==
  ASSUME WordAssumption, Placed, NEW i \in RunStarts, NEW e \in i .. Len(input),
         e = Len(input) \/ wc_isspace(input[e + 1]),
         \A k \in i .. e : ~wc_isspace(input[k])
  PROVE  e = RunEnd(i)
<1>1. /\ i \in 1 .. Len(input) /\ Len(input) \in Nat
      /\ RunEnd(i) \in i .. Len(input)
      /\ RunEnd(i) = Len(input) \/ wc_isspace(input[RunEnd(i) + 1])
      /\ \A k \in i .. RunEnd(i) : ~wc_isspace(input[k])
  BY RunEndIs
<1> DEFINE r == RunEnd(i)
<1> HIDE DEF r
<1>2. ~(e < r)
  <2> SUFFICES ASSUME e < r PROVE FALSE
    OBVIOUS
  <2>1. e + 1 \in i .. r /\ e # Len(input)
    BY <1>1 DEF r
  <2> QED
    BY <1>1, <2>1 DEF r
<1>3. ~(r < e)
  <2> SUFFICES ASSUME r < e PROVE FALSE
    OBVIOUS
  <2>1. r + 1 \in i .. e /\ r # Len(input)
    BY <1>1 DEF r
  <2> QED
    BY <1>1, <2>1 DEF r
<1> QED
  BY <1>1, <1>2, <1>3 DEF r

\* Its bytes.
LEMMA RunIs ==
  ASSUME WordAssumption, Placed, NEW i \in RunStarts
  PROVE  /\ Run(i) \in Strings /\ Len(Run(i)) = RunEnd(i) - i + 1
         /\ \A k \in 1 .. Len(Run(i)) : Run(i)[k] = input[i + k - 1]
<1>1. i \in 1 .. Len(input) /\ Len(input) \in Nat /\ RunEnd(i) \in i .. Len(input)
  BY RunEndIs
<1>2. input \in Strings
  BY InputIs
<1> DEFINE n == RunEnd(i) - i + 1
<1>3. n \in Nat /\ n >= 1 /\ i + n - 1 \in 1 .. Len(input) /\ i + n - 1 = RunEnd(i)
  BY <1>1
<1> HIDE DEF n
<1>4. /\ SubSeq(input, i, i + n - 1) \in Strings /\ Len(SubSeq(input, i, i + n - 1)) = n
      /\ \A k \in 1 .. n : SubSeq(input, i, i + n - 1)[k] = input[i + k - 1]
  BY <1>1, <1>2, <1>3, PieceIs
<1> QED
  BY <1>3, <1>4 DEF Run, n

\* Runs are counted by where they begin.
LEMMA RankIs ==
  ASSUME WordAssumption, Placed
  PROVE  /\ RunStarts \subseteq 1 .. Len(input) /\ IsFiniteSet(RunStarts)
         /\ \A p : IsFiniteSet(Before(p)) /\ Cardinality(Before(p)) \in Nat
         /\ \A i \in RunStarts : Rank(i) = Cardinality(Before(i)) + 1
         /\ \A p \in Nat : \A i \in Before(p) : Rank(i) \in 1 .. Cardinality(Before(p))
<1>1. Len(input) \in Nat /\ DOMAIN input = 1 .. Len(input)
  BY InputIs, LenProperties DEF Strings
<1>2. RunStarts \subseteq 1 .. Len(input)
  BY <1>1 DEF RunStarts
<1>3. IsFiniteSet(RunStarts)
  <2>1. IsFiniteSet(1 .. Len(input))
    BY <1>1, FS_Interval
  <2> QED
    BY <1>2, <2>1, FS_Subset
<1>4. ASSUME NEW p PROVE IsFiniteSet(Before(p)) /\ Cardinality(Before(p)) \in Nat
  <2>1. Before(p) \subseteq RunStarts
    BY DEF Before
  <2>2. IsFiniteSet(Before(p))
    BY <1>3, <2>1, FS_Subset
  <2> QED
    BY <2>2, FS_CardinalityType
<1>5. ASSUME NEW i \in RunStarts PROVE Rank(i) = Cardinality(Before(i)) + 1
  <2>1. {j \in RunStarts : j <= i} = Before(i) \cup {i} /\ i \notin Before(i)
    <3>1. i \in Int /\ \A j \in RunStarts : j \in Int
      BY <1>2
    <3>2. \A j \in RunStarts : j <= i <=> (j < i \/ j = i)
      BY <3>1
    <3>3. ~(i < i)
      BY <3>1
    <3> QED
      BY <3>2, <3>3, Zenon DEF Before
  <2>2. Cardinality(Before(i) \cup {i}) = Cardinality(Before(i)) + 1
    BY <1>4, <2>1, FS_AddElement
  <2> QED
    BY <2>1, <2>2 DEF Rank
<1>6. ASSUME NEW p \in Nat, NEW i \in Before(p) PROVE Rank(i) \in 1 .. Cardinality(Before(p))
  <2>1. i \in RunStarts /\ i < p
    BY DEF Before
  <2>2. {j \in RunStarts : j <= i} \subseteq Before(p)
    <3>1. i \in Int /\ \A j \in RunStarts : j \in Int
      BY <1>2, <2>1
    <3>2. \A j \in RunStarts : j <= i => j < p
      BY <2>1, <3>1
    <3> QED
      BY <3>2, Zenon DEF Before
  <2>3. Rank(i) <= Cardinality(Before(p))
    BY <1>4, <2>2, FS_Subset DEF Rank
  <2>4. Rank(i) = Cardinality(Before(i)) + 1 /\ Cardinality(Before(i)) \in Nat
        /\ Cardinality(Before(p)) \in Nat
    BY <1>4, <1>5, <2>1
  <2> QED
    BY <2>3, <2>4
<1> QED
  BY <1>2, <1>3, <1>4, <1>5, <1>6

\* Without a byte 255 the bytes of the stream are characters.
LEMMA PlainIs ==
  ASSUME WordAssumption, Placed, Plain
  PROVE  /\ \A k \in 1 .. Len(input) :
              /\ input[k] # 0 /\ Char(k) = input[k] /\ Char(k) # EOF
              /\ AtEnd(k) <=> wc_isspace(input[k])
         /\ \A k \in Nat : k > Len(input) => Char(k) = EOF /\ AtEnd(k) /\ ~wc_isspace(Char(k))
<1>1. /\ input \in Strings /\ Len(input) \in Nat
      /\ \A k \in 1 .. Len(input) : input[k] \in 0 .. 255
      /\ \A k \in Nat : k > Len(input) => Char(k) = EOF /\ ~wc_isspace(Char(k))
  BY InputIs
<1>2. DOMAIN input = 1 .. Len(input)
  BY <1>1, LenProperties DEF Strings
<1>3. \A k \in 1 .. Len(input) : input[k] # 0 /\ input[k] # 255
  BY <1>2 DEF Plain, ToSet
<1>4. ASSUME NEW k \in 1 .. Len(input)
      PROVE  Char(k) = input[k] /\ Char(k) # EOF /\ (AtEnd(k) <=> wc_isspace(input[k]))
  <2>1. input[k] \in 0 .. 255 /\ input[k] # 255 /\ ~(k > Len(input))
    BY <1>1, <1>3
  <2>2. Char(k) = input[k]
    BY <2>1 DEF Char
  <2>3. Char(k) # EOF
    <3> DEFINE c == input[k]
    <3>1. c \in 0 .. 255
      BY <2>1
    <3> HIDE DEF c
    <3>2. c # -1
      BY <3>1
    <3>3. input[k] # -1
      BY <3>2 DEF c
    <3> QED
      BY <2>2, <3>3 DEF EOF
  <2> QED
    BY <2>2, <2>3 DEF AtEnd
<1> QED
  BY <1>1, <1>3, <1>4 DEF AtEnd

\* Between runs, the next word begins with a run.
LEMMA NextRunIs ==
  ASSUME WordAssumption, Placed, Plain, Between, Char(Start) # EOF
  PROVE  /\ Start \in RunStarts /\ pos <= Start /\ Start \in Nat /\ pos \in Nat
         /\ \A j \in pos .. Start - 1 : wc_isspace(input[j])
<1>1. /\ Start \in pos .. Len(input) + 1
      /\ ~wc_isspace(Char(Start))
      /\ \A j \in pos .. Start - 1 : wc_isspace(Char(j))
  BY StartIs DEF Starts
<1>2. Start \in 1 .. Len(input)
  BY StoredFits
<1>3. Len(input) \in Nat /\ pos \in Nat \ {0} /\ DOMAIN input = 1 .. Len(input)
  BY InputIs, LenProperties DEF Strings
<1>4. \A k \in 1 .. Len(input) : Char(k) = input[k]
  BY PlainIs
<1>5. ASSUME NEW j \in pos .. Start - 1 PROVE wc_isspace(input[j])
  <2>1. j \in 1 .. Len(input)
    BY <1>2, <1>3
  <2> QED
    BY <1>1, <1>4, <2>1
<1>6. ~wc_isspace(input[Start])
  BY <1>1, <1>2, <1>4
<1>7. Start = 1 \/ wc_isspace(input[Start - 1])
  <2>1. CASE Start = pos
    <3>1. pos # Len(input) + 1
      BY <1>2, <1>3, <2>1
    <3> QED
      BY <2>1, <3>1 DEF Between
  <2>2. CASE Start # pos
    <3>1. Start - 1 \in pos .. Start - 1
      BY <1>1, <1>2, <1>3, <2>2
    <3> QED
      BY <1>5, <3>1
  <2> QED
    BY <2>1, <2>2
<1>8. pos <= Start /\ Start \in Nat
  BY <1>1, <1>2, <1>3
<1> QED
  BY <1>2, <1>3, <1>5, <1>6, <1>7, <1>8 DEF RunStarts

\* All of the run is stored, and nothing else.
LEMMA RunIsStored ==
  ASSUME WordAssumption, Placed, Plain, Between, Char(Start) # EOF
  PROVE  /\ RunEnd(Start) = Start + Stored - 1
         /\ Start \in 1 .. Len(input) /\ Stored \in Nat \ {0} /\ Len(input) \in Nat
         /\ Start + Stored - 1 \in 1 .. Len(input)
         /\ \A k \in Start .. Start + Stored - 1 : ~wc_isspace(input[k])
         /\ Start + Stored <= Len(input) => wc_isspace(input[Start + Stored])
<1> DEFINE n == Stored
           a == Start
           e == a + n - 1
           r == RunEnd(a)
<1>1. /\ n = MAX_WORDLEN \/ AtEnd(a + n)
      /\ \A k \in 1 .. n - 1 : ~AtEnd(a + k)
  BY StoredIs DEF Stores
<1>2. /\ a \in 1 .. Len(input) /\ n \in 1 .. MAX_WORDLEN /\ e \in 1 .. Len(input)
      /\ MAX_WORDLEN \in Nat
  BY StoredFits DEF WordAssumption
<1>3. /\ a \in RunStarts
  BY NextRunIs
<1>4. /\ Len(input) \in Nat /\ r \in a .. Len(input)
      /\ r = Len(input) \/ wc_isspace(input[r + 1])
      /\ \A k \in a .. r : ~wc_isspace(input[k])
  BY <1>3, RunEndIs
<1>5. Len(Run(a)) = r - a + 1 /\ Len(Run(a)) <= MAX_WORDLEN
  BY <1>3, RunIs DEF Plain
<1>6. \A k \in 1 .. Len(input) : AtEnd(k) <=> wc_isspace(input[k])
  BY PlainIs
<1> DEFINE l == Len(input)
<1> HIDE DEF n, a, r, l
<1>7. l \in Nat /\ a \in 1 .. l /\ n \in Nat \ {0} /\ e \in 1 .. l /\ r \in a .. l
  BY <1>2, <1>4 DEF l
<1>8. ASSUME NEW k \in a .. e PROVE ~wc_isspace(input[k])
  <2>1. CASE k = a
    BY <1>4, <1>7, <2>1
  <2>2. CASE k # a
    <3>1. k - a \in 1 .. n - 1 /\ a + (k - a) = k /\ k \in 1 .. l
      BY <1>7, <2>2
    <3>2. ~AtEnd(k)
      BY <1>1, <3>1
    <3> QED
      BY <1>6, <3>1, <3>2 DEF l
  <2> QED
    BY <2>1, <2>2
<1>9. ASSUME e < l PROVE wc_isspace(input[e + 1])
  <2>1. e + 1 \in 1 .. l /\ a + n = e + 1
    BY <1>7, <1>9
  <2>2. CASE AtEnd(a + n)
    BY <1>6, <2>1, <2>2 DEF l
  <2>3. CASE n = MAX_WORDLEN
    <3>1. r <= e
      BY <1>5, <1>7, <2>3
    <3>2. ~(r < e)
      <4> SUFFICES ASSUME r < e PROVE FALSE
        OBVIOUS
      <4>1. r + 1 \in a .. e /\ r # l
        BY <1>7
      <4> QED
        BY <1>4, <1>8, <4>1 DEF l
    <3>3. r = e /\ r # l
      BY <1>7, <1>9, <3>1, <3>2
    <3> QED
      BY <1>4, <3>3 DEF l
  <2> QED
    BY <1>1, <2>2, <2>3
<1>10. r = e
  <2>1. e \in a .. Len(input) /\ (e = Len(input) \/ wc_isspace(input[e + 1]))
    BY <1>7, <1>9 DEF l
  <2> HIDE DEF e
  <2> QED
    BY <1>3, <1>8, <2>1, RunEndUnique DEF r
<1>11. a + n <= l => wc_isspace(input[a + n])
  <2> SUFFICES ASSUME a + n <= l PROVE wc_isspace(input[a + n])
    OBVIOUS
  <2>1. e < l /\ e + 1 = a + n
    BY <1>7
  <2> QED
    BY <1>9, <2>1
<1> QED
  BY <1>7, <1>8, <1>10, <1>11 DEF n, a, r, l

\* The word is the run.
LEMMA WordIsRun ==
  ASSUME WordAssumption, Placed, Plain, Between, Char(Start) # EOF
  PROVE  Word = Run(Start) /\ Word # <<>>
<1>1. /\ RunEnd(Start) = Start + Stored - 1
      /\ Start \in 1 .. Len(input) /\ Stored \in Nat \ {0} /\ Len(input) \in Nat
      /\ Start + Stored - 1 \in 1 .. Len(input)
  BY RunIsStored
<1>2. /\ Word \in Strings /\ Len(Word) \in 0 .. Stored
      /\ \A k \in 1 .. Len(Word) : Word[k] = input[Start + k - 1]
      /\ Len(Word) < Stored => input[Start + Len(Word)] = 0
  BY WordIs
<1>3. Len(Word) = Stored
  <2> SUFFICES ASSUME Len(Word) < Stored PROVE FALSE
    BY <1>1, <1>2
  <2>1. Start + Len(Word) \in 1 .. Len(input)
    BY <1>1, <1>2
  <2> QED
    BY <1>2, <2>1, PlainIs
<1>4. /\ Run(Start) \in Strings /\ Len(Run(Start)) = Stored
      /\ \A k \in 1 .. Stored : Run(Start)[k] = input[Start + k - 1]
  <2>1. /\ Run(Start) \in Strings /\ Len(Run(Start)) = RunEnd(Start) - Start + 1
        /\ \A k \in 1 .. Len(Run(Start)) : Run(Start)[k] = input[Start + k - 1]
    BY NextRunIs, RunIs
  <2>2. RunEnd(Start) - Start + 1 = Stored
    BY <1>1
  <2> QED
    BY <2>1, <2>2
<1>5. Word = Run(Start)
  <2>1. \A k \in 1 .. Stored : Word[k] = Run(Start)[k]
    BY <1>2, <1>3, <1>4
  <2>2. Word = [k \in 1 .. Stored |-> Word[k]] /\ Run(Start) = [k \in 1 .. Stored |-> Run(Start)[k]]
    BY <1>2, <1>3, <1>4, LenProperties DEF Strings
  <2> QED
    BY <2>1, <2>2
<1>6. Word # <<>>
  BY <1>1, <1>3
<1> QED
  BY <1>5, <1>6

\* No other run begins before the place at which the next word is looked for.
LEMMA OneMoreRun ==
  ASSUME WordAssumption, Placed, Plain, Between, Char(Start) # EOF
  PROVE  /\ Before(After) = Before(pos) \cup {Start} /\ Start \notin Before(pos)
         /\ Before(Start) = Before(pos)
         /\ After = Len(input) + 1 \/ wc_isspace(input[After - 1])
<1>1. /\ Start \in RunStarts /\ pos <= Start /\ Start \in Nat /\ pos \in Nat
      /\ \A j \in pos .. Start - 1 : wc_isspace(input[j])
  BY NextRunIs
<1>2. /\ Start \in 1 .. Len(input) /\ Stored \in Nat \ {0} /\ Len(input) \in Nat
      /\ Start + Stored - 1 \in 1 .. Len(input)
      /\ \A k \in Start .. Start + Stored - 1 : ~wc_isspace(input[k])
      /\ Start + Stored <= Len(input) => wc_isspace(input[Start + Stored])
  BY RunIsStored
<1>3. After = IF Start + Stored <= Len(input) THEN Start + Stored + 1 ELSE Len(input) + 1
  BY StoredFits
<1>4. \A j \in RunStarts : /\ j \in 1 .. Len(input) /\ ~wc_isspace(input[j])
                           /\ j = 1 \/ wc_isspace(input[j - 1])
  BY RankIs DEF RunStarts
<1> DEFINE l == Len(input)
           a == Start
           n == Stored
           p == pos
           q == After
<1> HIDE DEF l, a, n, p, q
<1>5. /\ l \in Nat /\ a \in 1 .. l /\ n \in Nat \ {0} /\ a + n - 1 \in 1 .. l /\ p \in Nat /\ p <= a
      /\ q = IF a + n <= l THEN a + n + 1 ELSE l + 1
  BY <1>1, <1>2, <1>3 DEF l, a, n, p, q
<1>6. ASSUME NEW j \in RunStarts PROVE j < a <=> j < p
  <2>1. j \in 1 .. l
    BY <1>4 DEF l
  <2>2. ~(j \in p .. a - 1)
    BY <1>1, <1>4 DEF a, p
  <2> QED
    BY <1>5, <2>1, <2>2
<1>7. ASSUME NEW j \in RunStarts PROVE j < q <=> (j < p \/ j = a)
  <2>1. j \in 1 .. l
    BY <1>4 DEF l
  <2>2. j < p \/ j = a => j < q
    BY <1>5, <2>1
  <2>3. ASSUME j < q, j > a PROVE FALSE
    <3>1. CASE j \in a + 1 .. a + n - 1
      <4>1. j - 1 \in a .. a + n - 1 /\ j # 1
        BY <1>5, <2>1, <3>1
      <4> QED
        BY <1>2, <1>4, <4>1 DEF a, n
    <3>2. CASE ~(j \in a + 1 .. a + n - 1)
      <4>1. j = a + n /\ a + n <= l
        BY <1>5, <2>1, <2>3, <3>2
      <4> QED
        BY <1>2, <1>4, <4>1 DEF a, n, l
    <3> QED
      BY <3>1, <3>2
  <2>4. j < q => j < a \/ j = a
    BY <1>5, <2>1, <2>3
  <2> QED
    BY <1>6, <2>2, <2>4
<1>8. Before(q) = Before(p) \cup {a}
  BY <1>1, <1>7, Zenon DEF Before, a
<1>9. Before(a) = Before(p)
  BY <1>6, Zenon DEF Before
<1>10. a \notin Before(p)
  BY <1>5 DEF Before
<1>11. q = l + 1 \/ wc_isspace(input[q - 1])
  <2>1. CASE a + n <= l
    <3>1. q - 1 = a + n
      BY <1>5, <2>1
    <3> QED
      BY <1>2, <2>1, <3>1 DEF a, n, l
  <2>2. CASE ~(a + n <= l)
    BY <1>5, <2>2
  <2> QED
    BY <2>1, <2>2
<1> QED
  BY <1>8, <1>9, <1>10, <1>11 DEF l, a, p, q

\* At the end of the input, every run has been read.
LEMMA NoMoreRuns ==
  ASSUME WordAssumption, Placed, Plain, Char(Start) = EOF
  PROVE  RunStarts \subseteq Before(pos)
<1>1. /\ Start \in pos .. Len(input) + 1
      /\ \A j \in pos .. Start - 1 : wc_isspace(Char(j))
  BY StartIs DEF Starts
<1>2. Len(input) \in Nat /\ pos \in Nat \ {0}
  BY InputIs
<1>3. \A k \in 1 .. Len(input) : Char(k) = input[k] /\ Char(k) # EOF
  BY PlainIs
<1>4. Start = Len(input) + 1
  <2>1. ~(Start \in 1 .. Len(input))
    BY <1>3
  <2> QED
    BY <1>1, <1>2, <2>1
<1>5. ASSUME NEW j \in RunStarts PROVE j < pos
  <2>1. j \in 1 .. Len(input) /\ ~wc_isspace(input[j])
    BY <1>5, RankIs DEF RunStarts
  <2>2. ~(j \in pos .. Start - 1)
    BY <1>1, <1>3, <2>1
  <2> QED
    BY <1>2, <1>4, <2>1, <2>2
<1> QED
  BY <1>5 DEF Before

\* At first nothing has been read.
LEMMA RunsInit == WordAssumption /\ Init => RunsRead
<1> SUFFICES ASSUME WordAssumption, Init PROVE RunsRead
  OBVIOUS
<1>1. Placed
  BY PlacedInit
<1>2. pos = 1 /\ words = <<>> /\ phase = "read"
  BY DEF Init
<1>3. Before(pos) = {}
  <2>1. Len(input) \in Nat /\ RunStarts \subseteq 1 .. Len(input)
    BY <1>1, InputIs, RankIs
  <2>2. \A j \in RunStarts : ~(j < 1)
    BY <2>1
  <2> QED
    BY <1>2, <2>2 DEF Before
<1>4. Len(words) = 0 /\ Cardinality({}) = 0
  BY <1>2, FS_EmptySet
<1> QED
  BY <1>2, <1>3, <1>4 DEF RunsRead, Between

\* As long as the input is the same, so are its runs.
LEMMA RunsSame ==
  ASSUME input' = input
  PROVE  /\ RunStarts' = RunStarts /\ Plain' = Plain
         /\ \A p : Before(p)' = Before(p)
         /\ \A i : Rank(i)' = Rank(i) /\ Run(i)' = Run(i)
<1>1. RunStarts' = RunStarts
  BY DEF RunStarts
<1>2. \A i : RunEnd(i)' = RunEnd(i)
  BY DEF RunEnd
<1>3. \A i : Run(i)' = Run(i)
  BY <1>2 DEF Run
<1>4. \A i : Rank(i)' = Rank(i)
  BY <1>1 DEF Rank
<1>5. \A p : Before(p)' = Before(p)
  BY <1>1 DEF Before
<1>6. Plain' = Plain
  BY <1>1, <1>3 DEF Plain
<1> QED
  BY <1>1, <1>3, <1>4, <1>5, <1>6

\* A word more is a run more.
LEMMA RunsCount ==
  ASSUME WordAssumption, Placed, words \in Seq(Strings), RunsRead, Plain, CountWord
  PROVE  RunsRead'
<1>1. /\ Between /\ Len(words) = Cardinality(Before(pos))
      /\ \A i \in Before(pos) : words[Rank(i)] = wc_trim_non_alpha(wc_tolower(Run(i)))
  BY DEF RunsRead
<1>2. /\ Char(Start) # EOF /\ pos' = After /\ input' = input /\ phase = "read" /\ phase' = phase
      /\ words' = Append(words, CountedWord)
  BY DEF CountWord, ReadsWord, CountedWord
<1>3. Word = Run(Start) /\ Start \in RunStarts
  BY <1>1, <1>2, WordIsRun, NextRunIs
<1>4. /\ Before(After) = Before(pos) \cup {Start} /\ Start \notin Before(pos)
      /\ Before(Start) = Before(pos)
      /\ After = Len(input) + 1 \/ wc_isspace(input[After - 1])
  BY <1>1, <1>2, OneMoreRun
<1>5. /\ IsFiniteSet(Before(pos)) /\ Cardinality(Before(pos)) \in Nat
      /\ Rank(Start) = Cardinality(Before(Start)) + 1
      /\ \A i \in Before(pos) : Rank(i) \in 1 .. Cardinality(Before(pos))
  <2>1. pos \in Nat
    BY InputIs
  <2> QED
    BY <1>3, <2>1, RankIs
<1>6. Cardinality(Before(pos) \cup {Start}) = Cardinality(Before(pos)) + 1
  BY <1>4, <1>5, FS_AddElement
<1>7. CountedWord \in Strings
  BY <1>2, CountedWordIs
<1>8. /\ Len(words') = Len(words) + 1 /\ words'[Len(words) + 1] = CountedWord
      /\ \A k \in 1 .. Len(words) : words'[k] = words[k]
  BY <1>2, <1>7, AppendProperties
<1>9. Len(words') = Cardinality(Before(After))
  BY <1>1, <1>4, <1>6, <1>8
<1>10. ASSUME NEW i \in Before(After)
       PROVE  words'[Rank(i)] = wc_trim_non_alpha(wc_tolower(Run(i)))
  <2>1. CASE i = Start
    <3>1. Rank(i) = Len(words) + 1
      BY <1>1, <1>4, <1>5, <2>1
    <3> QED
      BY <1>3, <1>8, <2>1, <3>1 DEF CountedWord
  <2>2. CASE i \in Before(pos)
    <3>1. Rank(i) \in 1 .. Len(words)
      BY <1>1, <1>5, <2>2
    <3> QED
      BY <1>1, <1>8, <2>2, <3>1
  <2> QED
    BY <1>4, <1>10, <2>1, <2>2
<1>11. Between'
  BY <1>2, <1>4 DEF Between
<1>12. Before(pos)' = Before(After)
  <2>1. RunStarts' = RunStarts
    BY <1>2, RunsSame
  <2> QED
    BY <1>2, <2>1 DEF Before
<1>13. \A i \in Before(pos)' : words'[Rank(i)'] = wc_trim_non_alpha(wc_tolower(Run(i)'))
  BY <1>2, <1>10, <1>12, RunsSame
<1> QED
  BY <1>2, <1>9, <1>11, <1>12, <1>13 DEF RunsRead, wc_trim_non_alpha, wc_tolower, wc_isalpha

\* Every step keeps it.
LEMMA RunsStep ==
  WordAssumption /\ Placed /\ words \in Seq(Strings) /\ RunsRead /\ [Next]_vars => RunsRead'
<1> SUFFICES ASSUME WordAssumption, Placed, words \in Seq(Strings), RunsRead, [Next]_vars, Plain'
             PROVE  RunsRead'
  BY DEF RunsRead
<1>1. input' = input
  BY DEF Next, Skip, CountWord, EndOfInput, Search, Finish, Ended, vars
<1>2. Plain
  BY <1>1, RunsSame
<1>3. /\ Between /\ Len(words) = Cardinality(Before(pos))
      /\ \A i \in Before(pos) : words[Rank(i)] = wc_trim_non_alpha(wc_tolower(Run(i)))
  BY <1>2 DEF RunsRead
<1>4. ASSUME UNCHANGED <<pos, words>>, phase' # "read" => RunStarts \subseteq Before(pos)
      PROVE  RunsRead'
  <2>1. RunStarts' = RunStarts /\ Between' = Between
    BY <1>1, <1>4, RunsSame DEF Between
  <2>2. Before(pos)' = Before(pos)
    BY <1>4, <2>1 DEF Before
  <2>3. \A i : Rank(i)' = Rank(i) /\ Run(i)' = Run(i)
    BY <1>1, RunsSame
  <2>4. \A i \in Before(pos)' : words'[Rank(i)'] = wc_trim_non_alpha(wc_tolower(Run(i)'))
    BY <1>3, <1>4, <2>2, <2>3
  <2> QED
    BY <1>3, <1>4, <2>1, <2>2, <2>4 DEF RunsRead, wc_trim_non_alpha, wc_tolower, wc_isalpha
<1>5. CASE CountWord
  BY <1>2, <1>5, RunsCount
<1>6. CASE Skip
  <2>1. Char(Start) # EOF /\ Word = <<>>
    BY <1>6 DEF Skip, ReadsWord
  <2> QED
    BY <1>2, <1>3, <2>1, WordIsRun
<1>7. CASE EndOfInput
  <2>1. UNCHANGED <<pos, words>> /\ Char(Start) = EOF
    BY <1>7 DEF EndOfInput
  <2> QED
    BY <1>2, <1>4, <2>1, NoMoreRuns
<1>8. CASE Search \/ Finish \/ Ended \/ UNCHANGED vars
  <2>1. UNCHANGED <<pos, words>> /\ (phase' # "read" => phase # "read")
    BY <1>8 DEF Search, Finish, Ended, vars
  <2> QED
    BY <1>2, <1>4, <2>1 DEF RunsRead
<1> QED
  BY <1>5, <1>6, <1>7, <1>8 DEF Next

\* When the input has been read, the words are its runs.
LEMMA RunsAreWords ==
  ASSUME WordAssumption, Placed, RunsRead
  PROVE  WordsAreRuns
<1> SUFFICES ASSUME phase # "read", Plain
             PROVE  /\ Len(words) = Cardinality(RunStarts)
                    /\ \A i \in RunStarts : words[Rank(i)] = wc_trim_non_alpha(wc_tolower(Run(i)))
  BY DEF WordsAreRuns, Plain
<1>1. Before(pos) = RunStarts
  BY DEF RunsRead, Before
<1> QED
  BY <1>1 DEF RunsRead

(***************************************************************************)
(* wc_readnext neither loses nor splits a word, nor glues it to the next   *)
(* one, and main counts them in the order of the input, whatever the       *)
(* lengths of the input and of the whitespace in it.                       *)
(***************************************************************************)
THEOREM RunsAreCounted == ASSUME WordAssumption PROVE Spec => []WordsAreRuns
<1> DEFINE Inv == Placed /\ Table /\ RunsRead
<1>1. Init => Inv
  BY PlacedInit, TableInit, RunsInit
<1>2. Inv /\ [Next]_vars => Inv'
  <2> SUFFICES ASSUME Inv, [Next]_vars PROVE Inv'
    OBVIOUS
  <2>1. words \in Seq(Strings)
    BY DEF Table, Typed
  <2> QED
    BY <2>1, PlacedStep, TableStep, RunsStep
<1>3. Inv => WordsAreRuns
  BY RunsAreWords
<1> QED
  BY <1>1, <1>2, <1>3, PTL DEF Spec

=============================================================================
