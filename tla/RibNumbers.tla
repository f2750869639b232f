------------------------------ MODULE RibNumbers ------------------------------
(***************************************************************************)
(* Numbers in the interpreter.  A value of any numeric type is carried as  *)
(* a 64-bit unsigned or signed integer or as a float, operations are done  *)
(* on carriers, and the result is cast to the type the operation was given *)
(* by inference.  Types differ only in width, which is a parameter.        *)
(***************************************************************************)
EXTENDS Integers

CONSTANTS
  Unsigned, Signed, Floating,  \* names of the numeric types
  Half,        \* Half[t]: how many numbers of a type of integers its sign bit splits off
  WordHalf,    \* the same of the carriers
  Round(_, _), \* Round(t, n): n as a float of type t, what the hardware makes of it
  Double,      \* the type of float that carries floats
  Literals     \* numbers written in a program

Ints  == Unsigned \cup Signed
Types == Ints \cup Floating

MinOf(t) == IF t \in Signed THEN -Half[t] ELSE 0
MaxOf(t) == IF t \in Signed THEN Half[t] - 1 ELSE 2 * Half[t] - 1
Fits(t, n) == MinOf(t) <= n /\ n <= MaxOf(t)

\* The numbers some carrier of integers holds.
Span == -WordHalf..(2 * WordHalf - 1)

ASSUME WidthAssumption ==
  /\ Unsigned \cap Signed = {} /\ Ints \cap Floating = {} /\ Double \in Floating
  /\ WordHalf \in Nat \ {0}
  /\ Half \in [Ints -> Nat \ {0}]
  /\ \A t \in Ints : Half[t] <= WordHalf
  /\ Literals \subseteq Span

ASSUME RoundAssumption ==
  /\ \A t \in Floating : \A n \in Span : Round(t, n) \in Int
  /\ \A m, n \in Span : m <= n => Round(Double, m) <= Round(Double, n)

VARIABLES
  acc,      \* the number on the stack: its type and what it is
  fault,    \* "" or the error the program has ended with
  exact,    \* the number the operations so far should give
  wrapped   \* an unsigned number above the signed maximum met a signed one

vars == <<acc, fault, exact, wrapped>>

Typed(t, n) == [t |-> t, n |-> n]

-----------------------------------------------------------------------------
(***************************************************************************)
(* Carriers: "pos" of u64, "neg" of i64 (any signed number), "float".      *)
(***************************************************************************)
Carried(v) ==
  [as |-> IF v.t \in Floating THEN "float" ELSE IF v.t \in Signed THEN "neg" ELSE "pos", n |-> v.n]

AsSigned(c) == IF c.as = "pos" /\ c.n >= WordHalf THEN c.n - 2 * WordHalf ELSE c.n

Abs(n) == IF n < 0 THEN -n ELSE n
Quotient(m, n) == IF (m < 0) = (n < 0) THEN Abs(m) \div Abs(n) ELSE -(Abs(m) \div Abs(n))

Ops == {"+", "-", "*", "/"}

Meaning(op, m, n) ==
  CASE op = "+" -> m + n
    [] op = "-" -> m - n
    [] op = "*" -> m * n
    [] op = "/" -> Quotient(m, n)

\* The checked operations: <<>> for an overflow of the carrier.
Checked(as, n) ==
  IF (as = "pos" /\ 0 <= n /\ n < 2 * WordHalf) \/ (as = "neg" /\ -WordHalf <= n /\ n < WordHalf)
  THEN <<[as |-> as, n |-> n]>> ELSE <<>>

\* For the run that checks Exact: arithmetic that wraps around.
OperatedWrapping(op, a, b) ==
  LET n == Meaning(op, AsSigned(a), AsSigned(b))
  IN  <<[as |-> "neg", n |-> ((n + WordHalf) % (2 * WordHalf)) - WordHalf]>>

Operated(op, a, b) ==
  IF a.as = "pos" /\ b.as = "pos" THEN Checked("pos", Meaning(op, a.n, b.n))
  ELSE Checked("neg", Meaning(op, AsSigned(a), AsSigned(b)))

\* For the run that checks TypeOK: no bound below.
CastAnyNegative(c, t) ==
  IF t \in Floating THEN <<Typed(t, Round(t, c.n))>>
  ELSE IF c.n <= MaxOf(t) THEN <<Typed(t, c.n)>> ELSE <<>>

\* For the run that checks RefusedRightly: the bounds are outside.
CastStrict(c, t) ==
  IF t \in Floating THEN <<Typed(t, Round(t, c.n))>>
  ELSE IF MinOf(t) <= c.n /\ c.n < MaxOf(t) THEN <<Typed(t, c.n)>> ELSE <<>>

\* cast_to, for integers: every integer becomes a float.
Cast(c, t) ==
  IF t \in Floating THEN <<Typed(t, Round(t, c.n))>>
  ELSE IF Fits(t, c.n) THEN <<Typed(t, c.n)>> ELSE <<>>

-----------------------------------------------------------------------------
(***************************************************************************)
(* The order and the equality of carriers, which are written separately.   *)
(***************************************************************************)
AsFloat(c) == IF c.as = "float" THEN c.n ELSE Round(Double, c.n)

Order(m, n) == IF m < n THEN "less" ELSE IF m = n THEN "equal" ELSE "greater"

\* For the run that checks OrderKept: operands compared as signed numbers.
PartialCmpSigned(a, b) ==
  IF "float" \in {a.as, b.as} THEN Order(AsFloat(a), AsFloat(b)) ELSE Order(AsSigned(a), AsSigned(b))

PartialCmp(a, b) ==
  IF "float" \in {a.as, b.as} THEN Order(AsFloat(a), AsFloat(b))
  ELSE IF a.as = "pos" /\ b.as = "neg" /\ b.n < 0 THEN "greater"
  ELSE IF a.as = "neg" /\ b.as = "pos" /\ a.n < 0 THEN "less"
  ELSE Order(a.n, b.n)

Eq(a, b) ==
  IF "float" \in {a.as, b.as} THEN AsFloat(a) = AsFloat(b)
  ELSE IF a.as = "pos" /\ b.as = "neg" THEN b.n >= 0 /\ a.n = b.n
  ELSE IF a.as = "neg" /\ b.as = "pos" THEN a.n >= 0 /\ a.n = b.n
  ELSE a.n = b.n

-----------------------------------------------------------------------------
(***************************************************************************)
(* Number::to_val: a literal as a value of the type inference has settled. *)
(* A literal that does not fit is an error of the compiler.                *)
(***************************************************************************)
ToVal(n, t) ==
  IF t \in Floating THEN <<Typed(t, Round(t, n))>>
  ELSE IF Fits(t, n) THEN <<Typed(t, n)>> ELSE <<>>

Operands == {Typed(t, n) : t \in Ints, n \in Literals}

Init ==
  \E t \in Types, n \in Literals :
    /\ ToVal(n, t) # <<>>
    /\ acc = ToVal(n, t)[1] /\ exact = n /\ fault = "" /\ wrapped = FALSE

Fail(error) == fault' = error /\ UNCHANGED <<acc, exact, wrapped>>

\* One of the operands loses its value when the other makes it signed.
Wraps(a, b) == a.as # b.as /\ (AsSigned(a) # a.n \/ AsSigned(b) # b.n)

\* run_math_instruction: acc op right, as a value of type t.
Math(op, right, t) ==
  LET a == Carried(acc)
      b == Carried(right)
      result == Operated(op, a, b)
  IN  /\ fault = "" /\ ~ wrapped
      /\ acc.t \in Ints /\ Fits(right.t, right.n)
      /\ IF op = "/" /\ right.n = 0 THEN Fail("division by zero")
         ELSE IF result = <<>> THEN Fail("overflow")
         ELSE IF Cast(result[1], t) = <<>> THEN Fail("cast")
         ELSE /\ acc' = Cast(result[1], t)[1]
              /\ exact' = Meaning(op, exact, right.n)
              /\ wrapped' = Wraps(a, b)
              /\ UNCHANGED fault

Next == \E op \in Ops, right \in Operands, t \in Types : Math(op, right, t)

Spec == Init /\ [][Next]_vars

-----------------------------------------------------------------------------
(***************************************************************************)
(* A value has a number of its type.                                       *)
(***************************************************************************)
TypeOK ==
  /\ acc.t \in Types /\ acc.n \in Int /\ exact \in Int
  /\ acc.t \in Ints => Fits(acc.t, acc.n)
  /\ fault \in {"", "division by zero", "overflow", "cast"}
  /\ wrapped \in BOOLEAN

(***************************************************************************)
(* Integer arithmetic is exact, whatever types are mixed and over any      *)
(* number of operations, unless an unsigned operand above the signed       *)
(* maximum was made a negative number (CoercedNumericValue, `as i64`).     *)
(***************************************************************************)
Exact == acc.t \in Ints /\ ~ wrapped => acc.n = exact

(***************************************************************************)
(* Between numbers of one type an operation is refused only when its       *)
(* result does not exist or is no number of that type.                     *)
(***************************************************************************)
RefusedRightly ==
  [][\A op \in Ops, right \in Operands :
       /\ Math(op, right, acc.t) /\ right.t = acc.t
       => (fault' = "" <=> ~ (op = "/" /\ right.n = 0) /\ Fits(acc.t, Meaning(op, acc.n, right.n)))]_vars

(***************************************************************************)
(* Comparisons of integers of all types are those of the numbers; with a   *)
(* float they are never reversed; and == agrees with < and >.              *)
(***************************************************************************)
OrderKept ==
  \A right \in Operands :
    LET a == Carried(acc)
        b == Carried(right)
    IN  Fits(right.t, right.n) =>
          /\ Eq(a, b) <=> PartialCmp(a, b) = "equal"
          /\ acc.t \in Ints => PartialCmp(a, b) = Order(acc.n, right.n)
          /\ \A n \in Literals :
               acc.t = Double /\ acc.n = Round(Double, n) =>
                 /\ n < right.n => PartialCmp(a, b) # "greater"
                 /\ n > right.n => PartialCmp(a, b) # "less"

===============================================================================
