----------------------------- MODULE FixedPoint -----------------------------
(***************************************************************************)
(* The I80F48 arithmetic of the MarginFi adapter: a raw number n stands    *)
(* for n / One, One being 2^48 in the program.  Every overflow the code    *)
(* checks on the way (of u128) makes the result exceed a u64 as well, so a *)
(* computation fails exactly when its result is not below MaxU64 + 1.      *)
(***************************************************************************)
EXTENDS Integers

CONSTANTS
  One,    \* I80F48_ONE
  MaxU64  \* largest amount a u64 field holds

ASSUME FixedPointConstants == One \in Nat \ {0} /\ MaxU64 \in Nat

fixed_floor_to_u64(raw) == raw \div One

fixed_mul_floor_to_u64(left, right) ==
  LET whole == (left \div One) * (right \div One)
      cross == (left \div One) * (right % One) + (right \div One) * (left % One)
      frac == (left % One) * (right % One)
  IN  whole + cross \div One + (frac \div One) \div One

(* What the product of two I80F48 numbers is, floored to a whole number.   *)
Product(left, right) == (left * right) \div (One * One)

(* Mutant: the conversion to u64 is taken to succeed. *)
MutAlwaysFits(value) == TRUE

Fits(value) == value <= MaxU64
=============================================================================
