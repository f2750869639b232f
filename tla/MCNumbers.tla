------------------------------ MODULE MCNumbers ------------------------------
(***************************************************************************)
(* Numbers of two and of four bits, the latter those of the carriers, and  *)
(* floats of two and of three significant bits.                            *)
(***************************************************************************)
EXTENDS RibNumbers, TLC

MCHalf == [t \in Ints |-> IF t \in {"u8", "s8"} THEN 2 ELSE 8]

\* The float of b significant bits next to n >= 0, the even one of two.
Nearest(b, n) ==
  LET unit == CHOOSE u \in {1, 2, 4, 8, 16} : n < b * u /\ (u = 1 \/ n >= (b * u) \div 2)
      down == n - (n % unit)
  IN  IF 2 * (n % unit) > unit \/ (2 * (n % unit) = unit /\ (n \div unit) % 2 = 1) THEN down + unit ELSE down

MCRound(t, n) ==
  LET b == IF t = "f32" THEN 4 ELSE 8 IN IF n < 0 THEN -Nearest(b, -n) ELSE Nearest(b, n)

MCLiterals == -8..15

===============================================================================
