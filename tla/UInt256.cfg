\* Four words of two digits of one bit: every operand, every string of digits
\* up to one more than fit, every number of bits up to one more than there are.
SPECIFICATION CallerSpec
CONSTANTS
  N       = 4
  DIGITS  = 2
  HEXBITS = 1
  MaxHex  = 9
INVARIANTS SumExact NegationExact RotationsExact HexExact
