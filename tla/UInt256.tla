------------------------------ MODULE UInt256 -------------------------------
(***************************************************************************)
(* csf_assign01/uint256.c: unsigned integers of N words, with arithmetic   *)
(* modulo two to their number of bits.  In the code a value has 8 words of *)
(* 8 hex digits of 4 bits.  A caller has one value, calls a function of it *)
(* and perhaps of a second one, and goes on with what it returns.          *)
(*                                                                         *)
(* A definition whose comment starts with MUTANT is a broken form of one   *)
(* that follows it; no specification uses it.                              *)
(***************************************************************************)
EXTENDS Integers, Sequences

CONSTANTS
  N,         \* the words of a value
  DIGITS,    \* the hex digits of a word
  HEXBITS,   \* the bits of a hex digit
  MaxHex     \* bound: the length of a string of hex digits

ASSUME WidthAssumption ==
  /\ {N, DIGITS, HEXBITS} \subseteq Nat \ {0}
  /\ MaxHex \in Nat

VARIABLES
  val,    \* the value of the caller
  call    \* the call that has just been made, and its result

callerVars == <<val, call>>

\* b to the power n.  A shift by n bits multiplies with or divides by Power(2, n).
Power(b, n) ==
  LET p[k \in 0 .. n] == IF k = 0 THEN 1 ELSE b * p[k - 1]
  IN p[n]

BITS  == DIGITS * HEXBITS
BASE  == Power(2, HEXBITS)
WORD  == Power(2, BITS)
Index == 0 .. N - 1
UInt  == [Index -> 0 .. WORD - 1]

Hex(n) == [1 .. n -> 0 .. BASE - 1]

Ready == [op |-> "none"]

-----------------------------------------------------------------------------
(* The functions of uint256.c *)

create_from_u32(w) == [i \in Index |-> IF i = 0 THEN w ELSE 0]

create(data) == [i \in Index |-> data[i]]

\* MUTANT: the sum is compared with the right word only.
AddRightOnly(l, r) ==
  LET flag[i \in 0 .. N] ==
        IF i = 0 THEN 0
        ELSE LET s == (l[i - 1] + r[i - 1] + flag[i - 1]) % WORD
             IN IF s < r[i - 1] THEN 1 ELSE 0
  IN [i \in Index |-> (l[i] + r[i] + flag[i]) % WORD]

\* flag is the carry into each word, as the code finds it.
add(l, r) ==
  LET flag[i \in 0 .. N] ==
        IF i = 0 THEN 0
        ELSE LET s == (l[i - 1] + r[i - 1] + flag[i - 1]) % WORD
             IN IF s < l[i - 1] \/ s < r[i - 1] THEN 1 ELSE 0
  IN [i \in Index |-> (l[i] + r[i] + flag[i]) % WORD]

\* MUTANT: the bits are inverted, and one is not added.
OnesComplement(v) == [i \in Index |-> WORD - 1 - v[i]]

negate(v) == add(create_from_u32(1), [i \in Index |-> WORD - 1 - v[i]])

sub(l, r) == add(l, negate(r))

\* Each word moves by whole words, and takes its low bits from the one below.
rotate_left(v, nbits) ==
  LET big   == (nbits % (N * BITS)) \div BITS
      small == (nbits % (N * BITS)) % BITS
  IN [i \in Index |->
        IF small = 0 THEN v[(i - big) % N]
        ELSE ((v[(i - big) % N] * Power(2, small)) % WORD)
               + (v[(i - 1 - big) % N] \div Power(2, BITS - small))]

\* MUTANT: the bits that come in are those of the neighbour before the move.
RotateStale(v, nbits) ==
  LET big   == (nbits % (N * BITS)) \div BITS
      small == (nbits % (N * BITS)) % BITS
  IN [i \in Index |->
        IF small = 0 THEN v[(i + big) % N]
        ELSE (v[(i + big) % N] \div Power(2, small))
               + (v[(i + 1) % N] % Power(2, small)) * Power(2, BITS - small)]

\* Each word takes its high bits from the one above.
rotate_right(v, nbits) ==
  LET big   == (nbits % (N * BITS)) \div BITS
      small == (nbits % (N * BITS)) % BITS
  IN [i \in Index |->
        IF small = 0 THEN v[(i + big) % N]
        ELSE (v[(i + big) % N] \div Power(2, small))
               + (v[(i + 1 + big) % N] % Power(2, small)) * Power(2, BITS - small)]

\* What strtoul reads from a string of hex digits.
strtoul(s) ==
  LET value[k \in 0 .. Len(s)] ==
        IF k = 0 THEN 0 ELSE value[k - 1] * BASE + s[k]
  IN value[Len(s)]

\* The digits that count: the rightmost ones that fit.
Kept(hex) ==
  IF Len(hex) > N * DIGITS THEN SubSeq(hex, Len(hex) - N * DIGITS + 1, Len(hex)) ELSE hex

\* The word that create_from_hex leaves uninitialized: the one that would hold
\* the rest of a string which is no whole number of words, when it is.
Unset(hex) == {i \in Index : Len(Kept(hex)) = i * DIGITS}

\* The possible results, as the word that is not set may hold anything.
create_from_hex(hex) ==
  LET h      == Kept(hex)
      rest   == Len(h) % DIGITS
      top    == Len(h) \div DIGITS
      word(i) == SubSeq(h, Len(h) - (i + 1) * DIGITS + 1, Len(h) - i * DIGITS)
  IN {[i \in Index |->
         CASE i < top -> strtoul(word(i))
           [] i > top -> 0
           [] OTHER   -> IF rest # 0 THEN strtoul(SubSeq(h, 1, rest)) ELSE junk] :
      junk \in IF Unset(hex) = {} THEN {0} ELSE 0 .. WORD - 1}

\* A word as "%08x" prints it, and as "%x" does.
Padded(w)   == [k \in 1 .. DIGITS |-> (w \div Power(BASE, DIGITS - k)) % BASE]
Unpadded(w) ==
  LET len == CHOOSE n \in 1 .. DIGITS :
               w < Power(BASE, n) /\ (n > 1 => w >= Power(BASE, n - 1))
  IN SubSeq(Padded(w), DIGITS - len + 1, DIGITS)

\* The most significant word that is not zero.
FirstInd(v) ==
  CHOOSE i \in Index : (i = 0 \/ v[i] # 0) /\ \A k \in Index : k > i => v[k] = 0

\* MUTANT: the words below the first are printed without their leading zeros.
FormatUnpadded(v) ==
  LET text[i \in Index] ==
        IF i = 0 THEN Unpadded(v[0]) ELSE Unpadded(v[i]) \o text[i - 1]
  IN text[FirstInd(v)]

format_as_hex(v) ==
  LET below[i \in 0 .. N] == IF i = 0 THEN <<>> ELSE Padded(v[i - 1]) \o below[i - 1]
  IN Unpadded(v[FirstInd(v)]) \o below[FirstInd(v)]

-----------------------------------------------------------------------------
(* A caller *)

CallerInit ==
  /\ \/ \E w \in 0 .. WORD - 1 : val = create_from_u32(w)
     \/ \E data \in UInt : val = create(data)
  /\ call = Ready

Calls(c) == call = Ready /\ call' = c /\ UNCHANGED val

Add    == \E r \in UInt : Calls([op |-> "add", right |-> r, result |-> add(val, r)])
Sub    == \E r \in UInt : Calls([op |-> "sub", right |-> r, result |-> sub(val, r)])
Negate == Calls([op |-> "negate", result |-> negate(val)])

RotateLeft  == \E n \in 0 .. N * BITS + 1 :
                 Calls([op |-> "left", nbits |-> n, result |-> rotate_left(val, n)])
RotateRight == \E n \in 0 .. N * BITS + 1 :
                 Calls([op |-> "right", nbits |-> n, result |-> rotate_right(val, n)])

CreateFromHex == \E n \in 0 .. MaxHex : \E hex \in Hex(n) : \E v \in create_from_hex(hex) :
                   Calls([op |-> "from_hex", hex |-> hex, result |-> v])

FormatAsHex == Calls([op |-> "format", hex |-> format_as_hex(val), result |-> val])

\* The caller goes on with the result.
Return ==
  /\ call # Ready
  /\ val' = call.result
  /\ call' = Ready

CallerNext ==
  \/ Add \/ Sub \/ Negate \/ RotateLeft \/ RotateRight
  \/ CreateFromHex \/ FormatAsHex \/ Return

CallerSpec == CallerInit /\ [][CallerNext]_callerVars

-----------------------------------------------------------------------------
(* Properties *)

\* The number that the low k words of a value stand for.
Low(v, k) ==
  LET sum[i \in 0 .. N] == IF i = 0 THEN 0 ELSE sum[i - 1] + v[i - 1] * Power(WORD, i - 1)
  IN sum[k]

Num(v)  == Low(v, N)
Modulus == Power(WORD, N)

\* A carry into a word that is all ones on both sides; it is lost, which shows
\* unless there is no word above.
LostCarry(l, r) ==
  \E i \in 1 .. N - 2 :
    /\ l[i] = WORD - 1 /\ r[i] = WORD - 1
    /\ Low(l, i) + Low(r, i) >= Power(WORD, i)

\* uint256_add and uint256_sub are exact modulo 2^256, but for a carry that the
\* comparison of uint256.c:198 does not see: exactly then are they wrong.
SumExact ==
  /\ call.op = "add" =>
       (Num(call.result) = (Num(val) + Num(call.right)) % Modulus
          <=> ~LostCarry(val, call.right))
  /\ call.op = "sub" =>
       (Num(call.result) = (Num(val) - Num(call.right)) % Modulus
          <=> ~LostCarry(val, negate(call.right)))

\* uint256_negate is the two's complement, whatever carries run through the
\* words: the carries that add loses cannot come up in it.
NegationExact ==
  call.op = "negate" => Num(call.result) = (Modulus - Num(val)) % Modulus

\* The rotations lose no bit at the edges of words and wrap around at the ends,
\* for shifts by nothing, by whole words and by more than the width too.
RotationsExact ==
  LET width == N * BITS
      turned(n, k) == ((n * Power(2, k)) % Modulus) + (n \div Power(2, width - k))
  IN /\ call.op = "left" =>
          Num(call.result) = turned(Num(val), call.nbits % width)
     /\ call.op = "right" =>
          Num(val) = turned(Num(call.result), call.nbits % width)

\* uint256_format_as_hex prints the number without leading zeros, and
\* uint256_create_from_hex reads the number back, but for the word it leaves
\* unset when the digits fill a whole number of words and not all of them.
HexExact ==
  /\ call.op = "format" =>
       /\ strtoul(call.hex) = Num(val)
       /\ Len(call.hex) > 1 => call.hex[1] # 0
  /\ call.op = "from_hex" =>
       /\ Unset(call.hex) = {} => Num(call.result) = strtoul(Kept(call.hex))
       /\ \A i \in Unset(call.hex) :
            Num([call.result EXCEPT ![i] = 0]) = strtoul(call.hex)
=============================================================================
