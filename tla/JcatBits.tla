------------------------------ MODULE JcatBits ------------------------------
(***************************************************************************)
(* The bit operations of jcat-common.c on a number of Width bits (64 in    *)
(* C), in both builds: with the loops, and with the compiler's built-ins,  *)
(* whose result is undefined for 0.                                        *)
(***************************************************************************)
EXTENDS Integers, FiniteSetsExt

CONSTANT Width

ASSUME WidthAssumption == Width \in Nat \ {0}

\* (guint64)1 << i, and the first number that has no room in Width bits.
Power ==
  LET shifted[i \in 0..Width] == IF i = 0 THEN 1 ELSE 2 * shifted[i - 1]
  IN  shifted

IsSet(val, i) == (val \div Power[i]) % 2 = 1

\* The bits that are set: what the built-ins are defined by (GCC, clang).
Bits(val) == {i \in 0..Width - 1 : IsSet(val, i)}

\* The first i for which the body of the loop returns, Width if it ends.
FirstOf(returns) ==
  LET from[i \in 0..Width] ==
        IF i = Width \/ i \in returns THEN i ELSE from[i + 1]
  IN  from[0]

OnesCountLoop(val) ==
  LET c[i \in 0..Width] ==
        IF i = 0 THEN 0 ELSE c[i - 1] + (IF IsSet(val, i - 1) THEN 1 ELSE 0)
  IN  c[Width]

(* A mutation of LengthLoop: a power of two needs one bit less. *)
LengthLoopShort(val)   == FirstOf({i \in 0..Width - 1 : Power[i] >= val})

TrailingZerosLoop(val) == FirstOf({i \in 0..Width - 1 : IsSet(val, i)})
LengthLoop(val)        == FirstOf({i \in 0..Width - 1 : Power[i] > val})

Popcount(val)    == {Cardinality(Bits(val))}
Ctz(val)         == IF val = 0 THEN 0..Width ELSE {Min(Bits(val))}
Clz(val)         == IF val = 0 THEN 0..Width ELSE {Width - 1 - Max(Bits(val))}

\* What each function may return, in the build that has the built-ins.
OnesCount(val)     == Popcount(val)
TrailingZeros(val) == IF val = 0 THEN {Width} ELSE Ctz(val)
Length(val)        == IF val = 0 THEN {0} ELSE {Width - n : n \in Clz(val)}
=============================================================================
