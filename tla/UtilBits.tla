------------------------------ MODULE UtilBits ------------------------------
(***************************************************************************)
(* slaballoc/src/util.rs as it is written, on bits: the mask of align_up   *)
(* and is_power_of_two.  The rest of the project uses the arithmetic form  *)
(* in AddressRounding, which the provers understand; here TLC compares the *)
(* two, and both with what the documentation of util.rs promises.          *)
(* A step is a call with other arguments.                                  *)
(***************************************************************************)
EXTENDS AddressRounding, Bitwise

VARIABLES x, align

usize == 0 .. WORD - 1

(* Masking with the complement of align itself.                            *)
align_up_mask_shifted(a, al) == ((a + al - 1) % WORD) & (WORD - 1 - al)
(* (x + align - 1) & !(align - 1), in a word of WORD values.               *)
align_up_mask(a, al) == ((a + al - 1) % WORD) & (WORD - 1 - (al - 1))

(* x != 0 && (x & (x - 1)) == 0.                                           *)
is_power_of_two_with_zero(a) == a = 0 \/ (a & (a - 1)) = 0
is_power_of_two(a) == a # 0 /\ (a & (a - 1)) = 0

Init == x \in usize /\ align \in usize
Next == x' \in usize /\ align' \in usize
Spec == Init /\ [][Next]_<<x, align>>
-----------------------------------------------------------------------------
(* is_power_of_two is true exactly of the powers of two.                   *)
PowersOfTwo == is_power_of_two(align) <=> \E k \in 0 .. 30 : align = 2^k

(* For a power of two, masking the low bits is subtracting the remainder,  *)
(* also when the addition wraps: the arithmetic align_up is the code's.    *)
MaskIsRemainder ==
    is_power_of_two(align) => align_up_mask(x, align) = align_up(x, align)

(* The result is the least multiple of align that is not below x.          *)
LeastMultiple ==
    LET y == align_up_mask(x, align)
    IN  y >= x /\ y % align = 0 /\ y - x < align

(* "Retour: la plus petite valeur >= x telle que result % align == 0":     *)
(* this is what callers get as long as x + align - 1 fits in a word.       *)
RoundsUp ==
    is_power_of_two(align) /\ x + align - 1 < WORD => LeastMultiple
=============================================================================
