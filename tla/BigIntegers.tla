----------------------------- MODULE BigIntegers -----------------------------
(***************************************************************************)
(* What csf_assign01/apint.h offers its callers: variables that hold        *)
(* integers of any size.                                                   *)
(***************************************************************************)
EXTENDS Numerals

CONSTANTS
  Reg,        \* the caller's variables
  Null,       \* a variable that holds no number
  HexBase,    \* 16
  U64s, Hexes, Shifts   \* the arguments the caller uses

VARIABLE val

NumberOf(digits) == Numeral(HexBase, digits)
Signed(minus, n) == IF minus THEN -n ELSE n

Held(r) == val[r] # Null
Assign(r, n) == val' = [val EXCEPT ![r] = n]

Init == val = [r \in Reg |-> Null]

CreateFromU64(r) == \E n \in U64s : Assign(r, n)
CreateFromHex(r) == \E hex \in Hexes : Assign(r, Signed(hex.minus, NumberOf(hex.digits)))
Negate(r, x) == Held(x) /\ Assign(r, -val[x])
Add(r, x, y) == Held(x) /\ Held(y) /\ Assign(r, val[x] + val[y])
Sub(r, x, y) == Held(x) /\ Held(y) /\ Assign(r, val[x] - val[y])
LshiftN(r, x) == Held(x) /\ \E n \in Shifts : Assign(r, val[x] * 2 ^ n)
Destroy(r) == Held(r) /\ Assign(r, Null)

Next ==
  \E r \in Reg :
    \/ CreateFromU64(r) \/ CreateFromHex(r) \/ Destroy(r)
    \/ \E x \in Reg : Negate(r, x) \/ LshiftN(r, x)
    \/ \E x, y \in Reg : Add(r, x, y) \/ Sub(r, x, y)

Spec == Init /\ [][Next]_val
=============================================================================
