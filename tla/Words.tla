------------------------------- MODULE Words -------------------------------
(***************************************************************************)
(* Machine words as sets of bit positions: a w-bit word is the set of the  *)
(* positions of its 1 bits, so that `&`, `|` and `& ~` are intersection,   *)
(* union and difference, and a 64-bit value keeps its width without any    *)
(* arithmetic.  The sum of an aligned base and an offset below the         *)
(* alignment, the only addition of addresses in the code, is a union.      *)
(***************************************************************************)
EXTENDS Naturals

Word(w) == SUBSET (0 .. w - 1)

\* x & (2^n - 1)
LowBits(x, n) == {b \in x : b < n}

\* x & ~(2^n - 1)
ClearLow(x, n) == {b \in x : n <= b}

\* (x >> lo) & (2^n - 1), also the reading of a bit-field at [lo+n-1 : lo]
Field(x, lo, n) == {b \in 0 .. n - 1 : lo + b \in x}

\* x << n in a register of w bits
ShiftLeft(x, n, w) == {b \in n .. w - 1 : b - n \in x}

\* a < b as unsigned integers: the highest bit where they differ is in b
Less(a, b) == \E i \in b \ a : \A j \in a \ b : j < i

\* The unsigned value of a word of at most 8 bits
Number(x) ==
    LET bit(i, value) == IF i \in x THEN value ELSE 0
    IN  bit(0, 1) + bit(1, 2) + bit(2, 4) + bit(3, 8)
          + bit(4, 16) + bit(5, 32) + bit(6, 64) + bit(7, 128)
=============================================================================
