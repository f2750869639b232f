--------------------------- MODULE RibNumbers_proofs ---------------------------
(***************************************************************************)
(* Arithmetic and order of the interpreter's numbers, for every width of   *)
(* the types and of the carriers and for every rounding to floats that     *)
(* keeps the order of numbers.                                             *)
(***************************************************************************)
EXTENDS RibNumbers, TLAPS

LEMMA FitsInSpan ==
  ASSUME NEW t \in Ints, NEW n \in Int, Fits(t, n)
  PROVE  n \in Span
BY WidthAssumption DEF Fits, MinOf, MaxOf, Span, Ints

LEMMA LiteralsAreInts ==
  ASSUME NEW n \in Literals
  PROVE  n \in Span /\ n \in Int
<1>1. n \in Span
  BY WidthAssumption
<1> QED
  BY <1>1, WidthAssumption DEF Span

LEMMA MeaningIsInt ==
  ASSUME NEW op \in Ops, NEW m \in Int, NEW n \in Int, op = "/" => n # 0
  PROVE  Meaning(op, m, n) \in Int
<1>1. CASE op = "/"
  <2>1. Abs(m) \in Nat /\ Abs(n) \in Nat \ {0}
    BY <1>1 DEF Abs
  <2>2. Abs(m) \div Abs(n) \in Int
    BY <2>1
  <2> QED
    BY <1>1, <2>2 DEF Meaning, Quotient
<1>2. CASE op # "/"
  BY <1>2 DEF Meaning, Ops
<1> QED
  BY <1>1, <1>2

LEMMA CheckedKeeps ==
  ASSUME NEW as \in {"pos", "neg"}, NEW n \in Int, Checked(as, n) # <<>>
  PROVE  Checked(as, n)[1] = [as |-> as, n |-> n] /\ n \in Span
<1> DEFINE Within == \/ as = "pos" /\ 0 <= n /\ n < 2 * WordHalf
                     \/ as = "neg" /\ -WordHalf <= n /\ n < WordHalf
<1>1. Within
  BY DEF Checked
<1>2. Checked(as, n) = <<[as |-> as, n |-> n]>>
  BY <1>1 DEF Checked
<1>3. WordHalf \in Nat \ {0}
  BY WidthAssumption
<1>4. CASE as = "pos" /\ 0 <= n /\ n < 2 * WordHalf
  BY <1>2, <1>3, <1>4 DEF Span
<1>5. CASE as = "neg" /\ -WordHalf <= n /\ n < WordHalf
  BY <1>2, <1>3, <1>5 DEF Span
<1> QED
  BY <1>1, <1>4, <1>5

LEMMA CastKeeps ==
  ASSUME NEW as, NEW n \in Span, NEW t \in Types, Cast([as |-> as, n |-> n], t) # <<>>
  PROVE  LET v == Cast([as |-> as, n |-> n], t)[1]
         IN  v.t = t /\ v.n \in Int /\ (t \in Ints => Fits(t, v.n) /\ v.n = n)
<1>1. n \in Int
  BY DEF Span
<1>2. CASE t \in Floating
  BY <1>2, RoundAssumption, WidthAssumption DEF Cast, Typed
<1>3. CASE t \notin Floating
  BY <1>1, <1>3 DEF Cast, Typed, Types
<1> QED
  BY <1>2, <1>3

-----------------------------------------------------------------------------
(***************************************************************************)
(* Operands that keep their value give the result of the operation.        *)
(***************************************************************************)
LEMMA OperatedMeans ==
  ASSUME NEW op \in Ops, NEW s \in Ints, NEW m, NEW t \in Ints, NEW n,
         ~ Wraps(Carried(Typed(s, m)), Carried(Typed(t, n)))
  PROVE  \E as \in {"pos", "neg"} :
           Operated(op, Carried(Typed(s, m)), Carried(Typed(t, n))) = Checked(as, Meaning(op, m, n))
BY WidthAssumption DEF Wraps, Operated, Carried, Typed, AsSigned, Ints

\* Operands of one type always keep theirs.
LEMMA SameTypeMeans ==
  ASSUME NEW op \in Ops, NEW t \in Ints, NEW m, NEW n
  PROVE  Operated(op, Carried(Typed(t, m)), Carried(Typed(t, n)))
           = Checked(IF t \in Signed THEN "neg" ELSE "pos", Meaning(op, m, n))
<1>1. t \notin Floating
  BY WidthAssumption
<1>2. CASE t \in Signed
  BY <1>1, <1>2 DEF Operated, Carried, Typed, AsSigned
<1>3. CASE t \notin Signed
  BY <1>1, <1>3 DEF Operated, Carried, Typed, AsSigned
<1> QED
  BY <1>2, <1>3

LEMMA OperatedIsChecked ==
  ASSUME NEW op \in Ops, NEW s \in Ints, NEW m \in Int, NEW t \in Ints, NEW n \in Int,
         Fits(t, n), op = "/" => n # 0
  PROVE  \E as \in {"pos", "neg"} : \E r \in Int :
           Operated(op, Carried(Typed(s, m)), Carried(Typed(t, n))) = Checked(as, r)
<1> DEFINE a == Carried(Typed(s, m))
           b == Carried(Typed(t, n))
<1>1. a.n = m /\ b.n = n
  BY DEF Carried, Typed
<1>2. AsSigned(a) \in Int /\ AsSigned(b) \in Int
  BY <1>1, WidthAssumption DEF AsSigned
<1>3. op = "/" => AsSigned(b) # 0
  <2>1. n < 2 * WordHalf
    BY FitsInSpan, WidthAssumption DEF Span
  <2> QED
    BY <1>1, <2>1, WidthAssumption DEF AsSigned
<1>4. Meaning(op, a.n, b.n) \in Int /\ Meaning(op, AsSigned(a), AsSigned(b)) \in Int
  BY <1>1, <1>2, <1>3, MeaningIsInt
<1> QED
  BY <1>4 DEF Operated

-----------------------------------------------------------------------------
(***************************************************************************)
(* A value has a number of its type, and as long as no operand has changed *)
(* its sign it is the number the operations should give: of each step the  *)
(* exact result is that of the operands on the stack.                      *)
(***************************************************************************)
IInv == TypeOK /\ Exact

LEMMA InitInvariant == Init => IInv
<1> SUFFICES ASSUME NEW t \in Types, NEW n \in Literals,
                    ToVal(n, t) # <<>>, acc = ToVal(n, t)[1],
                    exact = n, fault = "", wrapped = FALSE
             PROVE  IInv
  BY DEF Init
<1>1. n \in Span /\ n \in Int
  BY LiteralsAreInts
<1>2. CASE t \in Floating
  BY <1>1, <1>2, RoundAssumption, WidthAssumption DEF ToVal, Typed, IInv, TypeOK, Exact, Types
<1>3. CASE t \notin Floating
  BY <1>1, <1>3 DEF ToVal, Typed, IInv, TypeOK, Exact, Types
<1> QED
  BY <1>2, <1>3

LEMMA OperandIsTyped ==
  ASSUME NEW right \in Operands
  PROVE  right.t \in Ints /\ right.n \in Int /\ right = Typed(right.t, right.n)
BY WidthAssumption DEF Operands, Typed, Span

LEMMA AccIsTyped ==
  ASSUME TypeOK
  PROVE  Carried(acc) = Carried(Typed(acc.t, acc.n))
BY DEF Carried, Typed

LEMMA MathInvariant ==
  ASSUME IInv, NEW op \in Ops, NEW right \in Operands, NEW t \in Types, Math(op, right, t)
  PROVE  IInv'
<1> DEFINE result == Operated(op, Carried(acc), Carried(right))
<1>1. CASE op = "/" /\ right.n = 0
  BY <1>1 DEF Math, Fail, IInv, TypeOK, Exact
<1>2. CASE ~ (op = "/" /\ right.n = 0) /\ result = <<>>
  BY <1>2 DEF Math, Fail, IInv, TypeOK, Exact
<1>3. CASE ~ (op = "/" /\ right.n = 0) /\ result # <<>> /\ Cast(result[1], t) = <<>>
  BY <1>3 DEF Math, Fail, IInv, TypeOK, Exact
<1>4. CASE ~ (op = "/" /\ right.n = 0) /\ result # <<>> /\ Cast(result[1], t) # <<>>
  <2>1. /\ acc' = Cast(result[1], t)[1] /\ exact' = Meaning(op, exact, right.n)
        /\ wrapped' = Wraps(Carried(acc), Carried(right)) /\ fault' = fault
        /\ acc.t \in Ints /\ acc.n \in Int /\ ~ wrapped /\ Fits(right.t, right.n)
    BY <1>4 DEF Math, IInv, TypeOK
  <2>2. right.t \in Ints /\ right.n \in Int /\ right = Typed(right.t, right.n)
    BY OperandIsTyped
  <2>3. acc.n = exact
    BY <2>1 DEF IInv, Exact
  <2>4. Carried(acc) = Carried(Typed(acc.t, acc.n))
    BY AccIsTyped DEF IInv
  <2>5. PICK as \in {"pos", "neg"}, r \in Int : result = Checked(as, r)
    BY <1>4, <2>1, <2>2, <2>4, OperatedIsChecked
  <2>6. result[1] = [as |-> as, n |-> r] /\ r \in Span
    BY <1>4, <2>5, CheckedKeeps
  <2>7. acc'.t = t /\ acc'.n \in Int /\ (t \in Ints => Fits(t, acc'.n) /\ acc'.n = r)
    BY <1>4, <2>1, <2>6, CastKeeps
  <2>8. exact' \in Int
    BY <1>4, <2>1, <2>2, <2>3, MeaningIsInt
  <2>9. TypeOK'
    BY <2>1, <2>7, <2>8 DEF TypeOK, IInv, Wraps
  <2>10. ASSUME t \in Ints, ~ wrapped' PROVE acc'.n = exact'
    <3>1. PICK how \in {"pos", "neg"} : result = Checked(how, Meaning(op, acc.n, right.n))
      BY <2>1, <2>2, <2>4, <2>10, OperatedMeans
    <3>2. Meaning(op, acc.n, right.n) \in Int
      BY <1>4, <2>1, <2>2, MeaningIsInt
    <3>3. result[1] = [as |-> how, n |-> Meaning(op, acc.n, right.n)]
      BY <1>4, <3>1, <3>2, CheckedKeeps
    <3> QED
      BY <2>1, <2>3, <2>6, <2>7, <2>10, <3>3
  <2>11. Exact'
    BY <2>7, <2>10 DEF Exact
  <2> QED
    BY <2>9, <2>11 DEF IInv
<1> QED
  BY <1>1, <1>2, <1>3, <1>4

LEMMA NextInvariant == IInv /\ [Next]_vars => IInv'
<1> SUFFICES ASSUME IInv, [Next]_vars PROVE IInv'
  OBVIOUS
<1>1. CASE Next
  BY <1>1, MathInvariant DEF Next
<1>2. CASE UNCHANGED vars
  BY <1>2 DEF vars, IInv, TypeOK, Exact
<1> QED
  BY <1>1, <1>2

(***************************************************************************)
(* Every value has a number of its type.                                   *)
(***************************************************************************)
THEOREM NumbersTyped == Spec => []TypeOK
<1>1. IInv => TypeOK
  BY DEF IInv
<1> QED
  BY <1>1, InitInvariant, NextInvariant, PTL DEF Spec

(***************************************************************************)
(* Integer arithmetic is exact as long as no operand changes its sign.     *)
(***************************************************************************)
THEOREM NumbersExact == Spec => []Exact
<1>1. IInv => Exact
  BY DEF IInv
<1> QED
  BY <1>1, InitInvariant, NextInvariant, PTL DEF Spec

-----------------------------------------------------------------------------
(***************************************************************************)
(* Refusals: between numbers of one type, the carrier never overflows on a *)
(* result that is a number of the type.                                    *)
(***************************************************************************)
LEMMA CheckedWhenFits ==
  ASSUME NEW t \in Ints, NEW n \in Int, Fits(t, n)
  PROVE  Checked(IF t \in Signed THEN "neg" ELSE "pos", n) # <<>>
<1>1. Half[t] \in Nat \ {0} /\ Half[t] <= WordHalf /\ WordHalf \in Nat
  BY WidthAssumption
<1>2. CASE t \in Signed
  BY <1>1, <1>2 DEF Fits, MinOf, MaxOf, Checked
<1>3. CASE t \notin Signed
  BY <1>1, <1>3 DEF Fits, MinOf, MaxOf, Checked
<1> QED
  BY <1>2, <1>3

LEMMA MathRefuses ==
  ASSUME IInv, NEW op \in Ops, NEW right \in Operands,
         Math(op, right, acc.t), right.t = acc.t
  PROVE  fault' = "" <=> ~ (op = "/" /\ right.n = 0) /\ Fits(acc.t, Meaning(op, acc.n, right.n))
<1> DEFINE result == Operated(op, Carried(acc), Carried(right))
           n == Meaning(op, acc.n, right.n)
<1>1. right.t \in Ints /\ right.n \in Int /\ right = Typed(right.t, right.n)
  BY OperandIsTyped
<1>2. fault = "" /\ acc.t \in Ints /\ acc.n \in Int /\ acc.t \notin Floating
  BY WidthAssumption DEF Math, IInv, TypeOK
<1>3. CASE op = "/" /\ right.n = 0
  BY <1>3 DEF Math, Fail
<1>4. CASE ~ (op = "/" /\ right.n = 0)
  <2>1. n \in Int
    BY <1>1, <1>2, <1>4, MeaningIsInt
  <2>2. Carried(acc) = Carried(Typed(acc.t, acc.n))
    BY AccIsTyped DEF IInv
  <2>3. Operated(op, Carried(Typed(acc.t, acc.n)), Carried(Typed(acc.t, right.n)))
          = Checked(IF acc.t \in Signed THEN "neg" ELSE "pos", n)
    BY <1>2, SameTypeMeans
  <2>4. PICK how \in {"pos", "neg"} : how = IF acc.t \in Signed THEN "neg" ELSE "pos"
    OBVIOUS
  <2>5. result = Checked(how, n)
    BY <1>1, <2>2, <2>3, <2>4
  <2>6. result # <<>> => result[1].n = n
    <3> SUFFICES ASSUME Checked(how, n) # <<>> PROVE Checked(how, n)[1].n = n
      BY <2>5
    <3>1. Checked(how, n)[1] = [as |-> how, n |-> n]
      BY <2>1, CheckedKeeps
    <3> QED
      BY <3>1
  <2>7. CASE Fits(acc.t, n)
    <3>1. result # <<>>
      BY <1>2, <2>1, <2>4, <2>5, <2>7, CheckedWhenFits
    <3>2. Cast(result[1], acc.t) # <<>>
      BY <1>2, <2>6, <2>7, <3>1 DEF Cast
    <3> QED
      BY <1>2, <1>4, <2>7, <3>1, <3>2 DEF Math
  <2>8. CASE ~ Fits(acc.t, n)
    <3>1. CASE result = <<>>
      BY <1>2, <1>4, <2>8, <3>1 DEF Math, Fail
    <3>2. CASE result # <<>>
      <4>1. Cast(result[1], acc.t) = <<>>
        BY <1>2, <2>6, <2>8, <3>2 DEF Cast
      <4> QED
        BY <1>2, <1>4, <2>8, <3>2, <4>1 DEF Math, Fail
    <3> QED
      BY <3>1, <3>2
  <2> QED
    BY <2>7, <2>8
<1> QED
  BY <1>3, <1>4

(***************************************************************************)
(* Between numbers of one type an operation is refused only when its       *)
(* result does not exist or is no number of that type.                     *)
(***************************************************************************)
THEOREM NumbersRefused == Spec => RefusedRightly
<1>1. IInv => [\A op \in Ops, right \in Operands :
       /\ Math(op, right, acc.t) /\ right.t = acc.t
       => (fault' = "" <=> ~ (op = "/" /\ right.n = 0) /\ Fits(acc.t, Meaning(op, acc.n, right.n)))]_vars
  BY MathRefuses
<1> QED
  BY <1>1, InitInvariant, NextInvariant, PTL DEF Spec, RefusedRightly

-----------------------------------------------------------------------------
LEMMA IntegersOrdered ==
  ASSUME NEW s \in Ints, NEW m \in Int, Fits(s, m), NEW t \in Ints, NEW n \in Int, Fits(t, n)
  PROVE  LET a == Carried(Typed(s, m))
             b == Carried(Typed(t, n))
         IN  PartialCmp(a, b) = Order(m, n) /\ (Eq(a, b) <=> PartialCmp(a, b) = "equal")
<1>1. s \notin Signed => m >= 0
  BY WidthAssumption DEF Fits, MinOf
<1>2. t \notin Signed => n >= 0
  BY WidthAssumption DEF Fits, MinOf
<1>3. s \notin Floating /\ t \notin Floating
  BY WidthAssumption
<1> QED
  BY <1>1, <1>2, <1>3 DEF PartialCmp, Eq, Order, Carried, Typed

LEMMA FloatsOrdered ==
  ASSUME NEW s \in Floating, NEW m \in Int, NEW t \in Ints, NEW n \in Int, Fits(t, n)
  PROVE  LET a == Carried(Typed(s, m))
             b == Carried(Typed(t, n))
         IN  /\ PartialCmp(a, b) = Order(m, Round(Double, n)) /\ Round(Double, n) \in Int
             /\ Eq(a, b) <=> PartialCmp(a, b) = "equal"
<1>1. n \in Span
  BY FitsInSpan
<1>2. Round(Double, n) \in Int
  BY <1>1, WidthAssumption, RoundAssumption
<1>3. t \notin Floating
  BY WidthAssumption
<1> QED
  BY <1>2, <1>3 DEF PartialCmp, Eq, Order, AsFloat, Carried, Typed

LEMMA InvariantOrders == IInv => OrderKept
<1> SUFFICES ASSUME IInv, NEW right \in Operands, Fits(right.t, right.n)
             PROVE  LET a == Carried(acc)
                        b == Carried(right)
                    IN  /\ Eq(a, b) <=> PartialCmp(a, b) = "equal"
                        /\ acc.t \in Ints => PartialCmp(a, b) = Order(acc.n, right.n)
                        /\ \A n \in Literals :
                             acc.t = Double /\ acc.n = Round(Double, n) =>
                               /\ n < right.n => PartialCmp(a, b) # "greater"
                               /\ n > right.n => PartialCmp(a, b) # "less"
  BY DEF OrderKept
<1>1. right.t \in Ints /\ right.n \in Int /\ right = Typed(right.t, right.n)
  BY OperandIsTyped
<1>2. Carried(acc) = Carried(Typed(acc.t, acc.n)) /\ acc.n \in Int /\ acc.t \in Types
  BY AccIsTyped DEF IInv, TypeOK
<1>3. CASE acc.t \in Ints
  <2>1. Fits(acc.t, acc.n) /\ acc.t # Double
    BY <1>3, WidthAssumption DEF IInv, TypeOK
  <2> QED
    BY <1>1, <1>2, <1>3, <2>1, IntegersOrdered
<1>4. CASE acc.t \in Floating
  <2>1. acc.t \notin Ints
    BY <1>4, WidthAssumption
  <2>2. /\ PartialCmp(Carried(acc), Carried(right)) = Order(acc.n, Round(Double, right.n))
        /\ Round(Double, right.n) \in Int
        /\ Eq(Carried(acc), Carried(right)) <=> PartialCmp(Carried(acc), Carried(right)) = "equal"
    BY <1>1, <1>2, <1>4, FloatsOrdered
  <2>3. ASSUME NEW n \in Literals, acc.n = Round(Double, n)
        PROVE  /\ n < right.n => PartialCmp(Carried(acc), Carried(right)) # "greater"
               /\ n > right.n => PartialCmp(Carried(acc), Carried(right)) # "less"
    <3>1. n \in Span /\ n \in Int /\ right.n \in Span
      BY <1>1, LiteralsAreInts, FitsInSpan
    <3>2. /\ n <= right.n => Round(Double, n) <= Round(Double, right.n)
          /\ right.n <= n => Round(Double, right.n) <= Round(Double, n)
      BY <3>1, RoundAssumption
    <3> QED
      BY <1>1, <1>2, <2>2, <2>3, <3>1, <3>2 DEF Order
  <2> QED
    BY <2>1, <2>2, <2>3
<1> QED
  BY <1>2, <1>3, <1>4 DEF Types

(***************************************************************************)
(* Comparisons of integers are those of the numbers, with a float they are *)
(* never reversed, and == agrees with < and >.                             *)
(***************************************************************************)
THEOREM NumbersOrdered == Spec => []OrderKept
BY InitInvariant, NextInvariant, InvariantOrders, PTL DEF Spec
===============================================================================
