--------------------------- MODULE VersionNumber ---------------------------
(***************************************************************************)
(* Base::VersionNumber32 and VersionNumber64 (Base/VersionNumber.hpp):     *)
(* unsigned counters that wrap from MAX to 0, with an order that survives  *)
(* the wrap.  The two classes differ only in their width, so one module    *)
(* models both: MAX is MAX_UINT in the one and MAX_ULLONG in the other.    *)
(***************************************************************************)
EXTENDS Integers

CONSTANT MAX          \* the largest value of the counter, 2^w - 1

ASSUME MaxAssumption == MAX \in Nat /\ MAX > 1 /\ MAX % 2 = 1

Version == 0 .. MAX

Half == MAX \div 2

\* operator++
Succ(v) == IF v # MAX THEN v + 1 ELSE 0

\* operator+= and operator+: res is what is left below MAX.  The second branch
\* is unsigned arithmetic: step = res makes it -1, which is MAX again.
Plus(v, step) ==
    LET res == MAX - v
    IN  IF step < res THEN v + step
        ELSE (step - res - 1) % (MAX + 1)

\* operator<
Less(left, right) ==
    IF left < right THEN right - left <= Half
    ELSE left - right > Half

\* operator>
Greater(left, right) ==
    IF left > right THEN left - right <= Half
    ELSE right - left > Half

=============================================================================
