-------------------------- MODULE AddressRounding ---------------------------
(***************************************************************************)
(* slaballoc/src/util.rs, align_up, as the rest of the project uses it: in *)
(* arithmetic.  Addresses and sizes are usize values and WORD is how many  *)
(* of them there are (2^64 on the kernel's target): an addition that the   *)
(* code does not check wraps modulo WORD in a release build.               *)
(***************************************************************************)
EXTENDS Integers

CONSTANT WORD

ASSUME WordAssumption == WORD \in Nat \ {0}

Wrapped(n) == n % WORD

(* The multiple of align that s has reached: !(align - 1) as a mask clears *)
(* the low bits of s, which for a power of two is its remainder.           *)
MultipleBelow(s, align) == s - (s % align)

(* Rounding without the "- 1": off by one on values already aligned.       *)
align_up_off_by_one(x, align) == MultipleBelow(Wrapped(x + align), align)

(* (x + align - 1) & !(align - 1).                                         *)
align_up(x, align) == MultipleBelow(Wrapped(x + align - 1), align)
=============================================================================
