------------------------- MODULE RibPipeline_proofs -------------------------
(***************************************************************************)
(* What the interpreter takes from its stack is there.  The plan of the    *)
(* compiler has shapes: what is at least on the stack before each of its   *)
(* items.  A step of the compiler finds shapes for what it puts in, and a  *)
(* step of the interpreter goes from a shape to the next.                  *)
(***************************************************************************)
EXTENDS RibPipeline, RibCompile_proofs, WellFoundedInduction

Shape == Seq({"any", "iterator", "sink"})

(***************************************************************************)
(* The top n of s give way to an element c, or to nothing; t is a part,    *)
(* from the bottom, of what that makes, or says less of it.                *)
(***************************************************************************)
Leads(s, n, c, t) ==
  /\ n \in 0..Len(s)
  /\ Len(t) <= Len(s) - n + (IF c = "nothing" THEN 0 ELSE 1)
  /\ \A k \in 1..Len(t) :
       t[k] # "any" => \/ k <= Len(s) - n /\ t[k] = s[k]
                       \/ k = Len(s) - n + 1 /\ t[k] = c

Under(s, t) == Leads(s, 0, "nothing", t)

LEMMA LeadsUnder ==
  ASSUME NEW s \in Shape, NEW t \in Shape, NEW u \in Shape, NEW n, NEW c,
         Leads(s, n, c, t), Under(t, u)
  PROVE  Leads(s, n, c, u)
  <1>1. Len(s) \in Nat /\ Len(t) \in Nat /\ Len(u) \in Nat /\ n \in Nat
    BY DEF Leads, Shape
  <1>2. Len(u) <= Len(t)
    BY <1>1 DEF Under, Leads
  <1>3. Len(u) <= Len(s) - n + (IF c = "nothing" THEN 0 ELSE 1)
    BY <1>1, <1>2 DEF Leads
  <1>4. ASSUME NEW k \in 1..Len(u), u[k] # "any"
        PROVE  \/ k <= Len(s) - n /\ u[k] = s[k]
               \/ k = Len(s) - n + 1 /\ u[k] = c
    <2>1. k \in 1..Len(t)
      BY <1>1, <1>2
    <2>2. u[k] = t[k]
      BY <1>1, <1>2, <1>4 DEF Under, Leads
    <2> QED BY <1>4, <2>1, <2>2 DEF Leads
  <1> QED BY <1>3, <1>4 DEF Leads

LEMMA UnderItself ==
  ASSUME NEW s \in Shape
  PROVE  Under(s, s)
  <1>1. Len(s) \in Nat
    BY DEF Shape
  <1> QED BY <1>1 DEF Under, Leads

-----------------------------------------------------------------------------
(***************************************************************************)
(* An instruction takes the top Uses(i) of the stack for Given(i).         *)
(***************************************************************************)
Uses(i) ==
  CASE i.op \in {"is-empty", "advance"} -> 0
    [] i.op = "sink-to-list" -> 1
    [] OTHER -> Takes(i)

Given(i) ==
  CASE i.op \in {"assign", "jump", "jump-if-false", "label", "push-to-sink"} -> "nothing"
    [] i.op = "to-iterator" -> "iterator"
    [] i.op = "create-sink" -> "sink"
    [] OTHER -> "any"

\* What it looks for beyond how much there is.
Finds(i, s) ==
  CASE i.op \in {"is-empty", "advance"} -> Len(s) > 0 /\ s[Len(s)] \in {"iterator", "sink"}
    [] i.op = "push-to-sink" -> Len(s) > 1 /\ s[Len(s) - 1] = "sink"
    [] i.op = "sink-to-list" -> Len(s) > 0 /\ s[Len(s)] = "sink"
    [] OTHER -> TRUE

\* The instruction i is between the shapes s and t, where L are those at labels.
Between(i, s, t, L) ==
  /\ Finds(i, s)
  /\ i.op # "jump" => Leads(s, Uses(i), Given(i), t)
  /\ i.op \in {"label", "jump", "jump-if-false"} => Leads(s, Uses(i), Given(i), L[i.imm])
  /\ i.op = "label" => Under(L[i.imm], t)

Left(e) == IF e \in Yielding THEN "any" ELSE "nothing"

Steps(x, s, t, L) ==
  IF x.what = "expr" THEN Leads(s, 0, Left(x.it), t) ELSE Between(x.it, s, t, L)

\* S are the shapes before the n items of P and after them.
Shaped(P, n, S, L, m) ==
  /\ S \in [1..(n + 1) -> Shape]
  /\ L \in [1..m -> Shape]
  /\ Under(<<>>, S[1])
  /\ \A k \in 1..n : Steps(P[k], S[k], S[k + 1], L)

LEMMA StepsUnder ==
  ASSUME NEW x, NEW s \in Shape, NEW t \in Shape, NEW u \in Shape, NEW L,
         x.what = "expr" \/ (x.it.op = "label" => L[x.it.imm] \in Shape),
         Steps(x, s, t, L), Under(t, u)
  PROVE  Steps(x, s, u, L)
  <1>1. CASE x.what = "expr"
    BY <1>1, LeadsUnder, Zenon DEF Steps
  <1>2. CASE x.what # "expr"
    <2>1. Between(x.it, s, t, L)
      BY <1>2 DEF Steps
    <2>2. x.it.op # "jump" => Leads(s, Uses(x.it), Given(x.it), u)
      <3>1. x.it.op # "jump" => Leads(s, Uses(x.it), Given(x.it), t)
        BY <2>1 DEF Between
      <3> QED BY <3>1, LeadsUnder, Zenon
    <2>3. x.it.op = "label" => Under(L[x.it.imm], u)
      <3>1. x.it.op = "label" => Leads(L[x.it.imm], 0, "nothing", t)
        BY <2>1 DEF Between, Under
      <3>2. x.it.op = "label" => Leads(L[x.it.imm], 0, "nothing", u)
        BY <1>2, <3>1, LeadsUnder, Zenon
      <3> QED BY <3>2 DEF Under
    <2> QED BY <1>2, <2>1, <2>2, <2>3 DEF Steps, Between
  <1> QED BY <1>1, <1>2

\* Steps look at the shapes of the labels they name.
LEMMA StepsSameLabels ==
  ASSUME NEW x, NEW s, NEW t, NEW L, NEW L2, Steps(x, s, t, L),
         HasLabel(x) \/ HasJump(x) => L2[x.it.imm] = L[x.it.imm], x.what \in {"expr", "ir"}
  PROVE  Steps(x, s, t, L2)
  <1>1. CASE x.what = "expr"
    BY <1>1 DEF Steps
  <1>2. CASE x.what = "ir"
    <2>1. Between(x.it, s, t, L)
      BY <1>2 DEF Steps
    <2>2. Between(x.it, s, t, L2)
      BY <1>2, <2>1 DEF Between, HasLabel, HasJump, IsJump
    <2> QED BY <1>2, <2>2 DEF Steps
  <1> QED BY <1>1, <1>2

-----------------------------------------------------------------------------
\* N, of d items, leads from s to t.
Chain(N, d, s, t, L) ==
  \E Z \in [1..(d + 1) -> Shape] :
    /\ Under(s, Z[1])
    /\ Z[d + 1] = t
    /\ \A k \in 1..d : Steps(N[k], Z[k], Z[k + 1], L)

Kinds(P, n) == \A k \in 1..n : P[k].what \in {"expr", "ir"}

SameLabels(L, L2, m) == \A l \in 1..m : L2[l] = L[l]

(***************************************************************************)
(* What leads from the shape before an expression to the one after it may  *)
(* be put in the place of the expression.                                  *)
(***************************************************************************)
LEMMA SpliceShapes ==
  ASSUME NEW P, NEW n \in Nat, NEW w \in 1..n, NEW N, NEW d \in Nat,
         NEW m \in Nat, NEW m2 \in Nat, m <= m2, Kinds(P, n), Linked(P, n, 1, m),
         NEW S, NEW L, Shaped(P, n, S, L, m),
         NEW L2 \in [1..m2 -> Shape], SameLabels(L, L2, m),
         Chain(N, d, S[w], S[w + 1], L2)
  PROVE  \E S2 : Shaped(Splice(P, n, w, N, d), n - 1 + d, S2, L2, m2)
  <1>1. PICK Z \in [1..(d + 1) -> Shape] :
               /\ Under(S[w], Z[1])
               /\ Z[d + 1] = S[w + 1]
               /\ \A k \in 1..d : Steps(N[k], Z[k], Z[k + 1], L2)
    BY DEF Chain
  <1> DEFINE R  == Splice(P, n, w, N, d)
             S2 == [k \in 1..(n + d) |-> IF k < w THEN S[k] ELSE IF k <= w + d THEN Z[k - w + 1] ELSE S[k - d + 1]]
  <1>2. /\ \A k \in 1..(n + 1) : S[k] \in Shape
        /\ \A k \in 1..n : Steps(P[k], S[k], S[k + 1], L)
        /\ Under(<<>>, S[1])
    BY DEF Shaped
  <1>3. \A k \in 1..(d + 1) : Z[k] \in Shape
    BY <1>1
  <1>4. \A k \in 1..(n - 1 + d) : R[k] = IF k < w THEN P[k] ELSE IF k < w + d THEN N[k - w + 1] ELSE P[k - d + 1]
    BY DEF Splice
  <1>5. \A k \in 1..(n + d) : S2[k] = IF k < w THEN S[k] ELSE IF k <= w + d THEN Z[k - w + 1] ELSE S[k - d + 1]
    OBVIOUS
  <1>6. S2 = [k \in 1..(n + d) |-> S2[k]]
    OBVIOUS
  <1> HIDE DEF R, S2
  <1>7. ASSUME NEW k \in 1..(n + d)
        PROVE  S2[k] \in Shape
    <2>1. CASE k < w
      <3>1. k \in 1..(n + 1) /\ S2[k] = S[k]
        BY <1>5, <2>1
      <3> QED BY <1>2, <3>1
    <2>2. CASE k >= w /\ k <= w + d
      <3>1. k - w + 1 \in 1..(d + 1) /\ S2[k] = Z[k - w + 1]
        BY <1>5, <2>2
      <3> QED BY <1>3, <3>1
    <2>3. CASE k > w + d
      <3>1. k - d + 1 \in 1..(n + 1) /\ S2[k] = S[k - d + 1]
        BY <1>5, <2>3
      <3> QED BY <1>2, <3>1
    <2> QED BY <2>1, <2>2, <2>3
  <1>8. S2 \in [1..(n - 1 + d + 1) -> Shape]
    <2>1. n - 1 + d + 1 = n + d
      OBVIOUS
    <2> QED BY <1>6, <1>7, <2>1
  <1>9. ASSUME NEW k \in 1..n
        PROVE  /\ Steps(P[k], S[k], S[k + 1], L2)
               /\ P[k].what = "expr" \/ (P[k].it.op = "label" => L2[P[k].it.imm] \in Shape)
    <2>1. HasLabel(P[k]) \/ HasJump(P[k]) => P[k].it.imm \in 1..m
      BY DEF Linked, LabelsMade, JumpsHaveLabels
    <2>2. HasLabel(P[k]) \/ HasJump(P[k]) => L2[P[k].it.imm] = L[P[k].it.imm]
      BY <2>1 DEF SameLabels
    <2>3. P[k].what \in {"expr", "ir"}
      BY DEF Kinds
    <2>4. Steps(P[k], S[k], S[k + 1], L2)
      BY <1>2, <2>2, <2>3, StepsSameLabels, Zenon
    <2>5. HasLabel(P[k]) => L2[P[k].it.imm] \in Shape
      <3>1. \A l \in 1..m : l \in 1..m2
        OBVIOUS
      <3> QED BY <2>1, <3>1
    <2> QED BY <2>3, <2>4, <2>5 DEF HasLabel
  <1>10. ASSUME NEW k \in 1..(n - 1 + d)
         PROVE  Steps(R[k], S2[k], S2[k + 1], L2)
    <2>1. CASE k < w - 1
      BY <1>4, <1>5, <1>9, <2>1
    <2>2. CASE k = w - 1
      <3>1. R[k] = P[k] /\ S2[k] = S[k] /\ S2[k + 1] = Z[1] /\ k + 1 = w /\ k \in 1..n
        <4>1. k < w /\ k + 1 = w /\ k \in 1..n /\ k + 1 \in 1..(n + d) /\ k \in 1..(n + d)
          BY <2>2
        <4>2. (k + 1) - w + 1 = 1 /\ ~ (k + 1 < w) /\ k + 1 <= w + d
          BY <2>2
        <4>3. S2[k + 1] = Z[(k + 1) - w + 1]
          BY <1>5, <4>1, <4>2
        <4> QED BY <1>4, <1>5, <4>1, <4>2, <4>3
      <3>2. S[k] \in Shape /\ S[k + 1] \in Shape /\ Z[1] \in Shape /\ Under(S[k + 1], Z[1])
        BY <1>1, <1>2, <1>3, <3>1
      <3>3. Steps(P[k], S[k], Z[1], L2)
        BY <1>9, <3>1, <3>2, StepsUnder, Zenon
      <3> QED BY <3>1, <3>3
    <2>3. CASE k >= w /\ k < w + d
      <3>1. /\ R[k] = N[k - w + 1] /\ k - w + 1 \in 1..d
            /\ S2[k] = Z[k - w + 1] /\ S2[k + 1] = Z[(k - w + 1) + 1]
        BY <1>4, <1>5, <2>3
      <3> QED BY <1>1, <3>1
    <2>4. CASE k >= w + d
      <3>1. /\ R[k] = P[k - d + 1] /\ k - d + 1 \in 1..n
            /\ S2[k + 1] = S[(k - d + 1) + 1]
        <4>1. /\ k - d + 1 \in 1..n /\ ~ (k < w) /\ ~ (k < w + d)
              /\ k + 1 \in 1..(n + d) /\ ~ (k + 1 < w) /\ ~ (k + 1 <= w + d) /\ (k + 1) - d + 1 = (k - d + 1) + 1
          BY <2>4
        <4>2. R[k] = P[k - d + 1]
          BY <1>4, <4>1
        <4>3. S2[k + 1] = S[(k + 1) - d + 1]
          BY <1>5, <4>1
        <4> QED BY <4>1, <4>2, <4>3
      <3>2. S2[k] = S[k - d + 1]
        <4>1. CASE k = w + d
          <5>1. k - w + 1 = d + 1 /\ k - d + 1 = w + 1 /\ k \in 1..(n + d) /\ ~ (k < w) /\ k <= w + d
            BY <4>1
          <5>2. S2[k] = Z[k - w + 1]
            BY <1>5, <5>1
          <5> QED BY <1>1, <5>1, <5>2
        <4>2. CASE k > w + d
          <5>1. k \in 1..(n + d) /\ ~ (k < w) /\ ~ (k <= w + d)
            BY <4>2
          <5> QED BY <1>5, <5>1
        <4>3. k = w + d \/ k > w + d
          BY <2>4
        <4> QED BY <4>1, <4>2, <4>3, Zenon
      <3> QED BY <1>9, <3>1, <3>2
    <2> QED BY <2>1, <2>2, <2>3, <2>4
  <1>11. Under(<<>>, S2[1])
    <2>1. CASE w > 1
      BY <1>2, <1>5, <2>1
    <2>2. CASE w = 1
      <3>1. S2[1] = Z[1] /\ Under(<<>>, S[1]) /\ Under(S[1], Z[1]) /\ S[1] \in Shape /\ Z[1] \in Shape
        BY <1>1, <1>2, <1>3, <1>5, <2>2
      <3>2. <<>> \in Shape
        BY DEF Shape
      <3> QED BY <3>1, <3>2, LeadsUnder, Zenon DEF Under
    <2> QED BY <2>1, <2>2
  <1>12. Shaped(R, n - 1 + d, S2, L2, m2)
    BY <1>8, <1>10, <1>11 DEF Shaped
  <1> QED BY <1>12 DEF R

-----------------------------------------------------------------------------
\* The shape s with c on top, and what it leads to.
LEMMA OneOn ==
  ASSUME NEW s \in Shape, NEW c \in {"any", "iterator", "sink"}
  PROVE  /\ Append(s, c) \in Shape
         /\ Len(s) \in Nat /\ Len(Append(s, c)) = Len(s) + 1
         /\ Append(s, c)[Len(s) + 1] = c
         /\ \A k \in 1..Len(s) : Append(s, c)[k] = s[k]
  BY DEF Shape

LEMMA LeadsOn ==
  ASSUME NEW s \in Shape, NEW c \in {"any", "iterator", "sink"}
  PROVE  Leads(s, 0, c, Append(s, c))
  BY OneOn DEF Leads

LEMMA LeadsOff ==
  ASSUME NEW s \in Shape, NEW c \in {"any", "iterator", "sink"}
  PROVE  Leads(Append(s, c), 1, "nothing", s)
  BY OneOn DEF Leads

LEMMA LeadsFor ==
  ASSUME NEW s \in Shape, NEW c \in {"any", "iterator", "sink"}, NEW b \in {"any", "iterator", "sink"}
  PROVE  Leads(Append(s, b), 1, c, Append(s, c))
  <1>1. /\ Len(s) \in Nat /\ Len(Append(s, b)) = Len(s) + 1 /\ Len(Append(s, c)) = Len(s) + 1
        /\ Append(s, c)[Len(s) + 1] = c
        /\ \A k \in 1..Len(s) : Append(s, c)[k] = s[k] /\ Append(s, b)[k] = s[k]
    BY OneOn
  <1> QED BY <1>1 DEF Leads

\* The first of s2 are those of s.
Begins(s2, s) == Len(s) <= Len(s2) /\ \A k \in 1..Len(s) : s2[k] = s[k]

LEMMA LeadsFrom ==
  ASSUME NEW s \in Shape, NEW t \in Shape, NEW c \in {"any", "nothing"}, Leads(s, 0, c, t),
         NEW s2 \in Shape, Begins(s2, s), NEW n \in Nat, n <= Len(s2) - Len(s)
  PROVE  Leads(s2, n, "any", t)
  <1>1. Len(s) \in Nat /\ Len(t) \in Nat /\ Len(s2) \in Nat
    BY DEF Shape
  <1>2. Len(s) <= Len(s2) - n /\ n \in 0..Len(s2)
    BY <1>1
  <1>3. Len(t) <= Len(s2) - n + 1
    BY <1>1, <1>2 DEF Leads
  <1>4. ASSUME NEW k \in 1..Len(t), t[k] # "any"
        PROVE  k <= Len(s2) - n /\ t[k] = s2[k]
    <2>1. k <= Len(s) /\ t[k] = s[k]
      BY <1>1, <1>4 DEF Leads
    <2>2. k \in 1..Len(s) /\ k <= Len(s2) - n
      BY <1>1, <1>2, <2>1
    <2> QED BY <2>1, <2>2 DEF Begins
  <1> QED BY <1>2, <1>3, <1>4 DEF Leads

LEMMA BeginsItself ==
  ASSUME NEW s \in Shape
  PROVE  Begins(s, s) /\ Len(s) - Len(s) = 0
  BY DEF Begins, Shape

LEMMA BeginsOn ==
  ASSUME NEW s2 \in Shape, NEW s \in Shape, Begins(s2, s), NEW c \in {"any", "iterator", "sink"}
  PROVE  Begins(Append(s2, c), s)
  <1>1. Len(s) \in Nat /\ Len(s2) \in Nat
    BY DEF Shape
  <1> QED BY <1>1, OneOn DEF Begins

\* An expression that yields at least where e does leads where e leads.
LEMMA LeavesAsMuch ==
  ASSUME NEW s \in Shape, NEW t \in Shape, NEW e, NEW f,
         e \in Yielding => f \in Yielding, Leads(s, 0, Left(e), t)
  PROVE  Leads(s, 0, Left(f), t)
  <1>1. CASE f \in Yielding
    <2>1. Left(e) \in {"any", "nothing"} /\ Left(f) = "any"
      BY <1>1 DEF Left
    <2>2. Begins(s, s) /\ 0 <= Len(s) - Len(s) /\ 0 \in Nat
      BY BeginsItself
    <2> QED BY <2>1, <2>2, LeadsFrom
  <1>2. CASE f \notin Yielding
    BY <1>2 DEF Left
  <1> QED BY <1>1, <1>2

LEMMA LeavesOver ==
  ASSUME NEW s \in Shape, NEW e
  PROVE  Leads(s, 0, Left(e), s)
  <1>1. Len(s) \in Nat
    BY DEF Shape
  <1> QED BY <1>1 DEF Leads, Left

LEMMA LeavesOn ==
  ASSUME NEW s \in Shape, NEW e \in Yielding
  PROVE  Leads(s, 0, Left(e), Append(s, "any"))
  BY LeadsOn DEF Left

-----------------------------------------------------------------------------
(***************************************************************************)
(* The instructions of branches and loops, between the shapes they have    *)
(* there.                                                                  *)
(***************************************************************************)
LEMMA AssignBetween ==
  ASSUME NEW s \in Shape, NEW c \in {"any", "iterator", "sink"}, NEW x, NEW L
  PROVE  Between(AssignVar(x), Append(s, c), s, L)
  <1>1. Uses(AssignVar(x)) = 1 /\ Given(AssignVar(x)) = "nothing" /\ AssignVar(x).op = "assign"
    BY DEF Uses, Takes, Given, AssignVar, Ir
  <1> QED BY <1>1, LeadsOff DEF Between, Finds

LEMMA TestBetween ==
  ASSUME NEW s \in Shape, NEW c \in {"iterator", "sink"}, NEW op \in {"is-empty", "advance"}, NEW L
  PROVE  Between(Plain(op), Append(s, c), Append(Append(s, c), "any"), L)
  <1>1. Uses(Plain(op)) = 0 /\ Given(Plain(op)) = "any" /\ Plain(op).op = op
    BY DEF Uses, Given, Plain, Ir
  <1>2. Append(s, c) \in Shape /\ Len(Append(s, c)) > 0 /\ Append(s, c)[Len(Append(s, c))] = c
    BY OneOn
  <1>3. Finds(Plain(op), Append(s, c))
    BY <1>1, <1>2 DEF Finds
  <1>4. Leads(Append(s, c), 0, "any", Append(Append(s, c), "any"))
    BY <1>2, LeadsOn
  <1> QED BY <1>1, <1>3, <1>4 DEF Between

LEMMA IterateBetween ==
  ASSUME NEW s \in Shape, NEW L
  PROVE  /\ Between(Plain("to-iterator"), Append(s, "any"), Append(s, "iterator"), L)
         /\ Between(Plain("create-sink"), s, Append(s, "sink"), L)
  <1>1. /\ Uses(Plain("to-iterator")) = 1 /\ Given(Plain("to-iterator")) = "iterator"
        /\ Plain("to-iterator").op = "to-iterator"
    BY DEF Uses, Takes, Given, Plain, Ir
  <1>2. /\ Uses(Plain("create-sink")) = 0 /\ Given(Plain("create-sink")) = "sink"
        /\ Plain("create-sink").op = "create-sink"
    BY DEF Uses, Takes, Given, Plain, Ir
  <1>3. Between(Plain("to-iterator"), Append(s, "any"), Append(s, "iterator"), L)
    BY <1>1, LeadsFor DEF Between, Finds
  <1>4. Between(Plain("create-sink"), s, Append(s, "sink"), L)
    BY <1>2, LeadsOn DEF Between, Finds
  <1> QED BY <1>3, <1>4

LEMMA PushBetween ==
  ASSUME NEW s \in Shape, NEW L
  PROVE  Between(Plain("push-to-sink"), Append(Append(s, "sink"), "any"), Append(s, "sink"), L)
  <1>1. /\ Uses(Plain("push-to-sink")) = 1 /\ Given(Plain("push-to-sink")) = "nothing"
        /\ Plain("push-to-sink").op = "push-to-sink"
    BY DEF Uses, Takes, Given, Plain, Ir
  <1> DEFINE k == Append(s, "sink")
  <1>2. k \in Shape /\ Len(k) \in Nat /\ Len(k) > 0 /\ k[Len(k)] = "sink"
    BY OneOn
  <1> HIDE DEF k
  <1>3. Len(Append(k, "any")) = Len(k) + 1 /\ Append(k, "any")[Len(k)] = "sink"
    BY <1>2, OneOn
  <1>4. Finds(Plain("push-to-sink"), Append(k, "any"))
    BY <1>1, <1>2, <1>3 DEF Finds
  <1>5. Leads(Append(k, "any"), 1, "nothing", k)
    BY <1>2, LeadsOff
  <1>6. Between(Plain("push-to-sink"), Append(k, "any"), k, L)
    BY <1>1, <1>4, <1>5 DEF Between
  <1> QED BY <1>6 DEF k

LEMMA BranchBetween ==
  ASSUME NEW s \in Shape, NEW L, NEW l, L[l] = s
  PROVE  /\ Between(JumpIfFalse(l), Append(s, "any"), s, L)
         /\ Between(Label(l), s, s, L)
         /\ \A t : Between(Jump(l), s, t, L)
  <1>1. /\ Uses(JumpIfFalse(l)) = 1 /\ Given(JumpIfFalse(l)) = "nothing"
        /\ JumpIfFalse(l).op = "jump-if-false" /\ JumpIfFalse(l).imm = l
    BY DEF Uses, Takes, Given, JumpIfFalse, Ir
  <1>2. /\ Uses(Label(l)) = 0 /\ Given(Label(l)) = "nothing" /\ Label(l).op = "label" /\ Label(l).imm = l
    BY DEF Uses, Takes, Given, Label, Ir
  <1>3. /\ Uses(Jump(l)) = 0 /\ Given(Jump(l)) = "nothing" /\ Jump(l).op = "jump" /\ Jump(l).imm = l
    BY DEF Uses, Takes, Given, Jump, Ir
  <1>4. Leads(s, 0, "nothing", s) /\ Leads(Append(s, "any"), 1, "nothing", s)
    BY UnderItself, LeadsOff DEF Under
  <1>5. Between(JumpIfFalse(l), Append(s, "any"), s, L)
    BY <1>1, <1>4 DEF Between, Finds
  <1>6. Between(Label(l), s, s, L)
    BY <1>2, <1>4 DEF Between, Finds, Under
  <1>7. \A t : Between(Jump(l), s, t, L)
    BY <1>3, <1>4 DEF Between, Finds
  <1> QED BY <1>5, <1>6, <1>7

\* Instructions that make one element of those they take.
Making(i) ==
  i.op \notin {"assign", "jump", "jump-if-false", "label", "push-to-sink", "to-iterator",
               "create-sink", "is-empty", "advance", "sink-to-list"}

LEMMA MakingBetween ==
  ASSUME NEW i, Making(i), NEW s, NEW t, Leads(s, Takes(i), "any", t), NEW L
  PROVE  Between(i, s, t, L)
  <1>1. Uses(i) = Takes(i) /\ Given(i) = "any" /\ Finds(i, s)
    BY DEF Uses, Given, Finds, Making
  <1> QED BY <1>1 DEF Between, Making

-----------------------------------------------------------------------------
(***************************************************************************)
(* What each form is compiled to leads where the form leads.               *)
(***************************************************************************)
LEMMA StepsItem ==
  ASSUME NEW s, NEW t, NEW L
  PROVE  /\ \A e : Leads(s, 0, Left(e), t) => Steps(ExprItem(e), s, t, L)
         /\ \A i : Between(i, s, t, L) => Steps(IrItem(i), s, t, L)
  BY DEF Steps, ExprItem, IrItem

\* The parts of e leave a value where they are used, and where e does.
LEMMA PartsYield ==
  ASSUME NEW e \in Exprs
  PROVE  /\ \A k \in 1..Len(e.args) : e.form \notin {"block", "cond"} \cup StandingForms => e.args[k] \in Yielding
         /\ e.form = "cond" => e.args[1] \in Yielding
         /\ e.form = "cond" /\ e \in Yielding => e.args[2] \in Yielding /\ e.args[3] \in Yielding
         /\ e.form = "block" /\ e \in Yielding => e.args # <<>> /\ e.args[Len(e.args)] \in Yielding
         /\ e.form \in StandingForms /\ Standing(e) # NoExpr /\ e \in Yielding => Standing(e) \in Yielding
         /\ e.form = "let" => e \notin Yielding
  <1>1. DOMAIN e.args = 1..Len(e.args)
    BY ExprsAssumption
  <1>2. \A k \in 1..Len(e.args) : e.form \notin {"block", "cond"} \cup StandingForms => e.args[k] \in Yielding
    <2>1. e.form \notin {"block", "cond"} \cup StandingForms => UsedBy(e) = {e.args[k] : k \in DOMAIN e.args}
      BY DEF UsedBy
    <2>2. UsedBy(e) \subseteq Yielding
      BY YieldingAssumption
    <2> QED BY <1>1, <2>1, <2>2
  <1>3. e.form = "cond" => e.args[1] \in Yielding
    <2>1. e.form = "cond" => UsedBy(e) = {e.args[1]}
      BY DEF UsedBy, StandingForms
    <2>2. UsedBy(e) \subseteq Yielding
      BY YieldingAssumption
    <2> QED BY <2>1, <2>2
  <1>4. e \in Yielding => LeftBy(e) \subseteq Yielding
    BY YieldingAssumption
  <1>5. e.form = "cond" /\ e \in Yielding => e.args[2] \in Yielding /\ e.args[3] \in Yielding
    BY <1>4 DEF LeftBy, StandingForms
  <1>6. e.form = "block" /\ e \in Yielding => e.args # <<>> /\ e.args[Len(e.args)] \in Yielding
    BY <1>4, YieldingAssumption DEF LeftBy, StandingForms
  <1>7. e.form \in StandingForms /\ Standing(e) # NoExpr /\ e \in Yielding => Standing(e) \in Yielding
    BY <1>4 DEF LeftBy, StandingForms
  <1>8. e.form = "let" => e \notin Yielding
    BY YieldingAssumption
  <1> QED BY <1>2, <1>3, <1>5, <1>6, <1>7, <1>8

LEMMA ChoiceChain ==
  ASSUME NEW e \in Exprs, e.form = "cond", NEW l \in Nat,
         NEW s \in Shape, NEW t \in Shape, Leads(s, 0, Left(e), t),
         NEW L, L[l + 1] = s, L[l + 2] = t
  PROVE  LET a == Choice(e, l + 1, l + 2)
         IN  Chain(PlanOf(a, <<>>), Len(a) + Len(<<>>), s, t, L)
  <1> DEFINE a == Choice(e, l + 1, l + 2)
             N == PlanOf(a, <<>>)
             s1 == Append(s, "any")
             Z == [k \in 1..8 |-> IF k \in {4, 7, 8} THEN t ELSE IF k = 2 THEN s1 ELSE s]
  <1>1. Len(a) + Len(<<>>) = 7 /\ \A k \in 1..7 : N[k] = a[k]
    BY ChoiceItems, ItemsOnly
  <1>2. /\ a[1] = ExprItem(e.args[1]) /\ a[2] = IrItem(JumpIfFalse(l + 1)) /\ a[3] = ExprItem(e.args[2])
        /\ a[4] = IrItem(Jump(l + 2)) /\ a[5] = IrItem(Label(l + 1)) /\ a[6] = ExprItem(e.args[3])
        /\ a[7] = IrItem(Label(l + 2))
    BY DEF Choice
  <1>3. s1 \in Shape
    BY OneOn
  <1> HIDE DEF a, N, s1
  <1>4. Z \in [1..8 -> Shape]
    BY <1>3
  <1>5. /\ Z[1] = s /\ Z[2] = s1 /\ Z[3] = s /\ Z[4] = t /\ Z[5] = s /\ Z[6] = s /\ Z[7] = t /\ Z[8] = t
    OBVIOUS
  <1> HIDE DEF Z
  <1>6. Leads(s, 0, Left(e.args[1]), s1)
    BY PartsYield, LeavesOn DEF s1
  <1>7. Leads(s, 0, Left(e.args[2]), t) /\ Leads(s, 0, Left(e.args[3]), t)
    BY PartsYield, LeavesAsMuch
  <1>8. /\ Between(JumpIfFalse(l + 1), s1, s, L) /\ Between(Jump(l + 2), t, s, L)
        /\ Between(Label(l + 1), s, s, L) /\ Between(Label(l + 2), t, t, L)
    BY BranchBetween DEF s1
  <1>9. ASSUME NEW k \in 1..7
        PROVE  Steps(N[k], Z[k], Z[k + 1], L)
    <2>1. CASE k = 1
      BY <1>1, <1>2, <1>5, <1>6, <2>1, StepsItem
    <2>2. CASE k = 2
      BY <1>1, <1>2, <1>5, <1>8, <2>2, StepsItem
    <2>3. CASE k = 3
      BY <1>1, <1>2, <1>5, <1>7, <2>3, StepsItem
    <2>4. CASE k = 4
      BY <1>1, <1>2, <1>5, <1>8, <2>4, StepsItem
    <2>5. CASE k = 5
      BY <1>1, <1>2, <1>5, <1>8, <2>5, StepsItem
    <2>6. CASE k = 6
      BY <1>1, <1>2, <1>5, <1>7, <2>6, StepsItem
    <2>7. CASE k = 7
      BY <1>1, <1>2, <1>5, <1>8, <2>7, StepsItem
    <2> QED BY <2>1, <2>2, <2>3, <2>4, <2>5, <2>6, <2>7
  <1>10. Under(s, Z[1]) /\ Z[7 + 1] = t /\ Z \in [1..(7 + 1) -> Shape]
    BY <1>4, <1>5, UnderItself
  <1>11. Chain(N, 7, s, t, L)
    BY <1>9, <1>10 DEF Chain
  <1> QED BY <1>1, <1>11 DEF N, a

LEMMA CollectBetween ==
  ASSUME NEW s, Len(s) \in Nat, Len(s) > 0, s[Len(s)] = "sink", NEW t, NEW L, Leads(s, 1, "any", t)
  PROVE  Between(Plain("sink-to-list"), s, t, L)
  <1>1. /\ Uses(Plain("sink-to-list")) = 1 /\ Given(Plain("sink-to-list")) = "any"
        /\ Plain("sink-to-list").op = "sink-to-list"
    BY DEF Uses, Given, Plain, Ir
  <1>2. Finds(Plain("sink-to-list"), s)
    BY <1>1 DEF Finds
  <1> QED BY <1>1, <1>2 DEF Between

LEMMA ComprehensionChain ==
  ASSUME NEW e \in Exprs, e.form = "for", NEW l \in Nat,
         NEW s \in Shape, NEW t \in Shape, Leads(s, 0, Left(e), t),
         NEW L, LET k == Append(Append(s, "iterator"), "sink") IN L[l + 1] = k /\ L[l + 2] = k
  PROVE  LET a == Comprehension(e, l + 1, l + 2)
         IN  Chain(PlanOf(a, <<>>), Len(a) + Len(<<>>), s, t, L)
  <1> DEFINE a == Comprehension(e, l + 1, l + 2)
             N == PlanOf(a, <<>>)
             s1 == Append(s, "any")
             si == Append(s, "iterator")
             sk == Append(si, "sink")
             ska == Append(sk, "any")
             Z == [k \in 1..14 |->
                     IF k \in {1} THEN s ELSE IF k \in {2} THEN s1 ELSE IF k \in {3} THEN si ELSE IF k \in {6, 8, 10} THEN ska ELSE IF k \in {14} THEN t ELSE sk]
  <1>1. Len(a) + Len(<<>>) = 13 /\ \A k \in 1..13 : N[k] = a[k]
    BY ComprehensionItems, ItemsOnly
  <1>2. /\ a[1] = ExprItem(e.args[1]) /\ a[2] = IrItem(Plain("to-iterator")) /\ a[3] = IrItem(Plain("create-sink"))
        /\ a[4] = IrItem(Label(l + 1)) /\ a[5] = IrItem(Plain("is-empty")) /\ a[6] = IrItem(JumpIfFalse(l + 2))
        /\ a[7] = IrItem(Plain("advance")) /\ a[8] = IrItem(AssignVar(e.tag)) /\ a[9] = ExprItem(e.args[2])
        /\ a[10] = IrItem(Plain("push-to-sink")) /\ a[11] = IrItem(Jump(l + 1)) /\ a[12] = IrItem(Label(l + 2))
        /\ a[13] = IrItem(Plain("sink-to-list"))
    BY DEF Comprehension
  <1> HIDE DEF a, N
  <1>3. s1 \in Shape /\ si \in Shape /\ sk \in Shape /\ ska \in Shape
    BY OneOn
  <1>6. L[l + 1] = sk /\ L[l + 2] = sk
    OBVIOUS
  <1>7. /\ Between(Plain("to-iterator"), s1, si, L) /\ Between(Plain("create-sink"), si, sk, L)
        /\ Between(Plain("is-empty"), sk, ska, L) /\ Between(Plain("advance"), sk, ska, L)
        /\ Between(AssignVar(e.tag), ska, sk, L) /\ Between(Plain("push-to-sink"), ska, sk, L)
    <2>1. si \in Shape /\ sk \in Shape
      BY <1>3
    <2>2. Between(Plain("to-iterator"), s1, si, L)
      BY IterateBetween
    <2>3. Between(Plain("create-sink"), si, sk, L)
      <3> HIDE DEF si
      <3> QED BY <2>1, IterateBetween
    <2>4. Between(Plain("is-empty"), sk, ska, L) /\ Between(Plain("advance"), sk, ska, L)
      <3> HIDE DEF si
      <3> QED BY <2>1, TestBetween
    <2>5. Between(AssignVar(e.tag), ska, sk, L)
      <3> HIDE DEF sk
      <3> QED BY <2>1, AssignBetween
    <2>6. Between(Plain("push-to-sink"), ska, sk, L)
      <3> HIDE DEF si
      <3> QED BY <2>1, PushBetween
    <2> QED BY <2>2, <2>3, <2>4, <2>5, <2>6
  <1>8. /\ Between(JumpIfFalse(l + 2), ska, sk, L) /\ Between(Label(l + 1), sk, sk, L)
        /\ Between(Label(l + 2), sk, sk, L) /\ Between(Jump(l + 1), sk, sk, L)
    <2>1. sk \in Shape /\ L[l + 1] = sk /\ L[l + 2] = sk
      BY <1>3, <1>6
    <2> HIDE DEF sk
    <2> QED BY <2>1, BranchBetween
  <1>12. Leads(s, 0, Left(e.args[1]), s1) /\ Leads(sk, 0, Left(e.args[2]), ska)
    <2>1. sk \in Shape /\ e.args[1] \in Yielding /\ e.args[2] \in Yielding
      <3>1. Len(e.args) = 2 /\ e.form \notin {"block", "cond"} \cup StandingForms
        BY ExprsAssumption DEF Formed, TwoOperands, StandingForms
      <3>2. \A k \in 1..Len(e.args) : e.args[k] \in Yielding
        BY <3>1, PartsYield, Zenon
      <3>3. 1 \in 1..Len(e.args) /\ 2 \in 1..Len(e.args)
        BY <3>1
      <3> QED BY <1>3, <3>2, <3>3, Zenon
    <2> HIDE DEF sk
    <2> QED BY <2>1, LeavesOn
  <1>13. Between(Plain("sink-to-list"), sk, t, L)
    <2>1. si \in Shape /\ Begins(si, s) /\ sk \in Shape /\ Begins(sk, s)
      <3>1. Begins(s, s)
        BY BeginsItself
      <3>2. Begins(si, s)
        BY <3>1, BeginsOn
      <3> QED BY <1>3, <3>2, BeginsOn
    <2>2. Len(s) \in Nat /\ Len(si) = Len(s) + 1 /\ Len(sk) = Len(si) + 1 /\ sk[Len(si) + 1] = "sink"
      <3>1. Len(s) \in Nat /\ Len(si) = Len(s) + 1
        BY OneOn
      <3> HIDE DEF si
      <3> QED BY <2>1, <3>1, OneOn
    <2>3. 1 <= Len(sk) - Len(s) /\ 1 \in Nat
      BY <2>2
    <2>4. Left(e) \in {"any", "nothing"}
      BY DEF Left
    <2> HIDE DEF sk, si
    <2>5. Leads(sk, 1, "any", t)
      BY <2>1, <2>3, <2>4, LeadsFrom
    <2> QED BY <2>1, <2>2, <2>5, CollectBetween
  <1> HIDE DEF s1, si, sk, ska
  <1>4. Z \in [1..14 -> Shape]
    BY <1>3
  <1>5. /\ Z[1] = s /\ Z[2] = s1 /\ Z[3] = si /\ Z[4] = sk /\ Z[5] = sk
        /\ Z[6] = ska /\ Z[7] = sk /\ Z[8] = ska /\ Z[9] = sk /\ Z[10] = ska
        /\ Z[11] = sk /\ Z[12] = sk /\ Z[13] = sk /\ Z[14] = t
    OBVIOUS
  <1> HIDE DEF Z
  <1>20. /\ Steps(ExprItem(e.args[1]), s, s1, L)
         /\ Steps(ExprItem(e.args[2]), sk, ska, L)
    BY <1>12, StepsItem, Zenon
  <1>21. /\ Steps(IrItem(Plain("to-iterator")), s1, si, L)
         /\ Steps(IrItem(Plain("create-sink")), si, sk, L)
         /\ Steps(IrItem(Plain("is-empty")), sk, ska, L)
         /\ Steps(IrItem(Plain("advance")), sk, ska, L)
         /\ Steps(IrItem(AssignVar(e.tag)), ska, sk, L)
         /\ Steps(IrItem(Plain("push-to-sink")), ska, sk, L)
    BY <1>7, StepsItem, Zenon
  <1>22. /\ Steps(IrItem(Label(l + 1)), sk, sk, L)
         /\ Steps(IrItem(JumpIfFalse(l + 2)), ska, sk, L)
         /\ Steps(IrItem(Jump(l + 1)), sk, sk, L)
         /\ Steps(IrItem(Label(l + 2)), sk, sk, L)
    BY <1>8, StepsItem, Zenon
  <1>23. Steps(IrItem(Plain("sink-to-list")), sk, t, L)
    BY <1>13, StepsItem, Zenon
  <1>9. ASSUME NEW k \in 1..13
        PROVE  Steps(N[k], Z[k], Z[k + 1], L)
    <2>1. CASE k = 1
      <3>1. N[k] = ExprItem(e.args[1]) /\ Z[k] = s /\ Z[k + 1] = s1
        BY <1>1, <1>2, <1>5, <2>1
      <3> QED BY <1>20, <3>1, Zenon
    <2>2. CASE k = 2
      <3>1. N[k] = IrItem(Plain("to-iterator")) /\ Z[k] = s1 /\ Z[k + 1] = si
        BY <1>1, <1>2, <1>5, <2>2
      <3> QED BY <1>21, <3>1, Zenon
    <2>3. CASE k = 3
      <3>1. N[k] = IrItem(Plain("create-sink")) /\ Z[k] = si /\ Z[k + 1] = sk
        BY <1>1, <1>2, <1>5, <2>3
      <3> QED BY <1>21, <3>1, Zenon
    <2>4. CASE k = 4
      <3>1. N[k] = IrItem(Label(l + 1)) /\ Z[k] = sk /\ Z[k + 1] = sk
        BY <1>1, <1>2, <1>5, <2>4
      <3> QED BY <1>22, <3>1, Zenon
    <2>5. CASE k = 5
      <3>1. N[k] = IrItem(Plain("is-empty")) /\ Z[k] = sk /\ Z[k + 1] = ska
        BY <1>1, <1>2, <1>5, <2>5
      <3> QED BY <1>21, <3>1, Zenon
    <2>6. CASE k = 6
      <3>1. N[k] = IrItem(JumpIfFalse(l + 2)) /\ Z[k] = ska /\ Z[k + 1] = sk
        BY <1>1, <1>2, <1>5, <2>6
      <3> QED BY <1>22, <3>1, Zenon
    <2>7. CASE k = 7
      <3>1. N[k] = IrItem(Plain("advance")) /\ Z[k] = sk /\ Z[k + 1] = ska
        BY <1>1, <1>2, <1>5, <2>7
      <3> QED BY <1>21, <3>1, Zenon
    <2>8. CASE k = 8
      <3>1. N[k] = IrItem(AssignVar(e.tag)) /\ Z[k] = ska /\ Z[k + 1] = sk
        BY <1>1, <1>2, <1>5, <2>8
      <3> QED BY <1>21, <3>1, Zenon
    <2>9. CASE k = 9
      <3>1. N[k] = ExprItem(e.args[2]) /\ Z[k] = sk /\ Z[k + 1] = ska
        BY <1>1, <1>2, <1>5, <2>9
      <3> QED BY <1>20, <3>1, Zenon
    <2>10. CASE k = 10
      <3>1. N[k] = IrItem(Plain("push-to-sink")) /\ Z[k] = ska /\ Z[k + 1] = sk
        BY <1>1, <1>2, <1>5, <2>10
      <3> QED BY <1>21, <3>1, Zenon
    <2>11. CASE k = 11
      <3>1. N[k] = IrItem(Jump(l + 1)) /\ Z[k] = sk /\ Z[k + 1] = sk
        BY <1>1, <1>2, <1>5, <2>11
      <3> QED BY <1>22, <3>1, Zenon
    <2>12. CASE k = 12
      <3>1. N[k] = IrItem(Label(l + 2)) /\ Z[k] = sk /\ Z[k + 1] = sk
        BY <1>1, <1>2, <1>5, <2>12
      <3> QED BY <1>22, <3>1, Zenon
    <2>13. CASE k = 13
      <3>1. N[k] = IrItem(Plain("sink-to-list")) /\ Z[k] = sk /\ Z[k + 1] = t
        BY <1>1, <1>2, <1>5, <2>13
      <3> QED BY <1>23, <3>1, Zenon
    <2> QED BY <2>1, <2>2, <2>3, <2>4, <2>5, <2>6, <2>7, <2>8, <2>9, <2>10, <2>11, <2>12, <2>13
  <1>10. Under(s, Z[1]) /\ Z[13 + 1] = t /\ Z \in [1..(13 + 1) -> Shape]
    BY <1>4, <1>5, UnderItself
  <1>11. Chain(N, 13, s, t, L)
    BY <1>9, <1>10 DEF Chain
  <1> QED BY <1>1, <1>11 DEF N, a

LEMMA ReductionChain ==
  ASSUME NEW e \in Exprs, e.form = "reduce", NEW l \in Nat,
         NEW s \in Shape, NEW t \in Shape, Leads(s, 0, Left(e), t),
         NEW L, L[l + 1] = Append(s, "iterator"), L[l + 2] = Append(s, "iterator")
  PROVE  LET a == Reduction(e, l + 1, l + 2)
         IN  Chain(PlanOf(a, <<>>), Len(a) + Len(<<>>), s, t, L)
  <1> DEFINE a == Reduction(e, l + 1, l + 2)
             N == PlanOf(a, <<>>)
             s1 == Append(s, "any")
             s2 == Append(s1, "any")
             si == Append(s, "iterator")
             sia == Append(si, "any")
             Z == [k \in 1..15 |->
                     IF k \in {1} THEN s ELSE IF k \in {2, 4} THEN s1 ELSE IF k \in {3} THEN s2 ELSE IF k \in {7, 9, 11} THEN sia ELSE IF k \in {15} THEN t ELSE si]
  <1>1. Len(a) + Len(<<>>) = 14 /\ \A k \in 1..14 : N[k] = a[k]
    BY ReductionItems, ItemsOnly
  <1>2. /\ a[1] = ExprItem(e.args[1]) /\ a[2] = ExprItem(e.args[2]) /\ a[3] = IrItem(AssignVar(e.tag[1]))
        /\ a[4] = IrItem(Plain("to-iterator")) /\ a[5] = IrItem(Label(l + 1)) /\ a[6] = IrItem(Plain("is-empty"))
        /\ a[7] = IrItem(JumpIfFalse(l + 2)) /\ a[8] = IrItem(Plain("advance")) /\ a[9] = IrItem(AssignVar(e.tag[2]))
        /\ a[10] = ExprItem(e.args[3]) /\ a[11] = IrItem(AssignVar(e.tag[1])) /\ a[12] = IrItem(Jump(l + 1))
        /\ a[13] = IrItem(Label(l + 2)) /\ a[14] = IrItem(LoadVar(e.tag[1]))
    BY DEF Reduction
  <1> HIDE DEF a, N
  <1>3. s1 \in Shape /\ s2 \in Shape /\ si \in Shape /\ sia \in Shape
    BY OneOn
  <1>6. L[l + 1] = si /\ L[l + 2] = si
    OBVIOUS
  <1>7. /\ Between(Plain("to-iterator"), s1, si, L)
        /\ Between(Plain("is-empty"), si, sia, L) /\ Between(Plain("advance"), si, sia, L)
        /\ \A x : Between(AssignVar(x), sia, si, L) /\ Between(AssignVar(x), s2, s1, L)
    <2>1. si \in Shape /\ s1 \in Shape
      BY <1>3
    <2>2. Between(Plain("to-iterator"), s1, si, L)
      BY IterateBetween
    <2>3. Between(Plain("is-empty"), si, sia, L) /\ Between(Plain("advance"), si, sia, L)
      BY TestBetween
    <2>4. \A x : Between(AssignVar(x), sia, si, L)
      <3> HIDE DEF si
      <3> QED BY <2>1, AssignBetween
    <2>5. \A x : Between(AssignVar(x), s2, s1, L)
      <3> HIDE DEF s1
      <3> QED BY <2>1, AssignBetween
    <2> QED BY <2>2, <2>3, <2>4, <2>5
  <1>8. /\ Between(JumpIfFalse(l + 2), sia, si, L) /\ Between(Label(l + 1), si, si, L)
        /\ Between(Label(l + 2), si, si, L) /\ Between(Jump(l + 1), si, si, L)
    <2>1. si \in Shape /\ L[l + 1] = si /\ L[l + 2] = si
      BY <1>3, <1>6
    <2> HIDE DEF si
    <2> QED BY <2>1, BranchBetween
  <1>12. Leads(s, 0, Left(e.args[1]), s1) /\ Leads(s1, 0, Left(e.args[2]), s2) /\ Leads(si, 0, Left(e.args[3]), sia)
    <2>1. s1 \in Shape /\ si \in Shape /\ e.args[1] \in Yielding /\ e.args[2] \in Yielding /\ e.args[3] \in Yielding
      <3>1. Len(e.args) = 3 /\ "reduce" \notin {"block", "cond"} \cup StandingForms
        BY ExprsAssumption DEF Formed, StandingForms
      <3> QED BY <1>3, <3>1, PartsYield
    <2>2. Leads(s, 0, Left(e.args[1]), s1)
      BY <2>1, LeavesOn
    <2>3. Leads(s1, 0, Left(e.args[2]), s2)
      <3> HIDE DEF s1
      <3> QED BY <2>1, LeavesOn
    <2>4. Leads(si, 0, Left(e.args[3]), sia)
      <3> HIDE DEF si
      <3> QED BY <2>1, LeavesOn
    <2> QED BY <2>2, <2>3, <2>4
  <1>13. Between(LoadVar(e.tag[1]), si, t, L)
    <2>1. si \in Shape /\ Begins(si, s)
      <3>1. Begins(s, s)
        BY BeginsItself
      <3> QED BY <1>3, <3>1, BeginsOn
    <2>2. Len(s) \in Nat /\ Len(si) = Len(s) + 1
      BY OneOn
    <2>3. 0 <= Len(si) - Len(s) /\ 0 \in Nat
      BY <2>2
    <2>4. Left(e) \in {"any", "nothing"}
      BY DEF Left
    <2>5. Takes(LoadVar(e.tag[1])) = 0 /\ Making(LoadVar(e.tag[1]))
      BY DEF Takes, Making, LoadVar, Ir
    <2> HIDE DEF si
    <2>6. Leads(si, 0, "any", t)
      BY <2>1, <2>3, <2>4, LeadsFrom
    <2> QED BY <2>5, <2>6, MakingBetween
  <1> HIDE DEF s1, s2, si, sia
  <1>4. Z \in [1..15 -> Shape]
    BY <1>3
  <1>5. /\ Z[1] = s /\ Z[2] = s1 /\ Z[3] = s2 /\ Z[4] = s1 /\ Z[5] = si
        /\ Z[6] = si /\ Z[7] = sia /\ Z[8] = si /\ Z[9] = sia /\ Z[10] = si
        /\ Z[11] = sia /\ Z[12] = si /\ Z[13] = si /\ Z[14] = si /\ Z[15] = t
    OBVIOUS
  <1> HIDE DEF Z
  <1>20. /\ Steps(ExprItem(e.args[1]), s, s1, L)
         /\ Steps(ExprItem(e.args[2]), s1, s2, L)
         /\ Steps(ExprItem(e.args[3]), si, sia, L)
    BY <1>12, StepsItem, Zenon
  <1>21. /\ Steps(IrItem(AssignVar(e.tag[1])), s2, s1, L)
         /\ Steps(IrItem(Plain("to-iterator")), s1, si, L)
         /\ Steps(IrItem(Plain("is-empty")), si, sia, L)
         /\ Steps(IrItem(Plain("advance")), si, sia, L)
         /\ Steps(IrItem(AssignVar(e.tag[2])), sia, si, L)
         /\ Steps(IrItem(AssignVar(e.tag[1])), sia, si, L)
    BY <1>7, StepsItem, Zenon
  <1>22. /\ Steps(IrItem(Label(l + 1)), si, si, L)
         /\ Steps(IrItem(JumpIfFalse(l + 2)), sia, si, L)
         /\ Steps(IrItem(Jump(l + 1)), si, si, L)
         /\ Steps(IrItem(Label(l + 2)), si, si, L)
    BY <1>8, StepsItem, Zenon
  <1>23. Steps(IrItem(LoadVar(e.tag[1])), si, t, L)
    BY <1>13, StepsItem, Zenon
  <1>9. ASSUME NEW k \in 1..14
        PROVE  Steps(N[k], Z[k], Z[k + 1], L)
    <2>1. CASE k = 1
      <3>1. N[k] = ExprItem(e.args[1]) /\ Z[k] = s /\ Z[k + 1] = s1
        BY <1>1, <1>2, <1>5, <2>1
      <3> QED BY <1>20, <3>1, Zenon
    <2>2. CASE k = 2
      <3>1. N[k] = ExprItem(e.args[2]) /\ Z[k] = s1 /\ Z[k + 1] = s2
        BY <1>1, <1>2, <1>5, <2>2
      <3> QED BY <1>20, <3>1, Zenon
    <2>3. CASE k = 3
      <3>1. N[k] = IrItem(AssignVar(e.tag[1])) /\ Z[k] = s2 /\ Z[k + 1] = s1
        BY <1>1, <1>2, <1>5, <2>3
      <3> QED BY <1>21, <3>1, Zenon
    <2>4. CASE k = 4
      <3>1. N[k] = IrItem(Plain("to-iterator")) /\ Z[k] = s1 /\ Z[k + 1] = si
        BY <1>1, <1>2, <1>5, <2>4
      <3> QED BY <1>21, <3>1, Zenon
    <2>5. CASE k = 5
      <3>1. N[k] = IrItem(Label(l + 1)) /\ Z[k] = si /\ Z[k + 1] = si
        BY <1>1, <1>2, <1>5, <2>5
      <3> QED BY <1>22, <3>1, Zenon
    <2>6. CASE k = 6
      <3>1. N[k] = IrItem(Plain("is-empty")) /\ Z[k] = si /\ Z[k + 1] = sia
        BY <1>1, <1>2, <1>5, <2>6
      <3> QED BY <1>21, <3>1, Zenon
    <2>7. CASE k = 7
      <3>1. N[k] = IrItem(JumpIfFalse(l + 2)) /\ Z[k] = sia /\ Z[k + 1] = si
        BY <1>1, <1>2, <1>5, <2>7
      <3> QED BY <1>22, <3>1, Zenon
    <2>8. CASE k = 8
      <3>1. N[k] = IrItem(Plain("advance")) /\ Z[k] = si /\ Z[k + 1] = sia
        BY <1>1, <1>2, <1>5, <2>8
      <3> QED BY <1>21, <3>1, Zenon
    <2>9. CASE k = 9
      <3>1. N[k] = IrItem(AssignVar(e.tag[2])) /\ Z[k] = sia /\ Z[k + 1] = si
        BY <1>1, <1>2, <1>5, <2>9
      <3> QED BY <1>21, <3>1, Zenon
    <2>10. CASE k = 10
      <3>1. N[k] = ExprItem(e.args[3]) /\ Z[k] = si /\ Z[k + 1] = sia
        BY <1>1, <1>2, <1>5, <2>10
      <3> QED BY <1>20, <3>1, Zenon
    <2>11. CASE k = 11
      <3>1. N[k] = IrItem(AssignVar(e.tag[1])) /\ Z[k] = sia /\ Z[k + 1] = si
        BY <1>1, <1>2, <1>5, <2>11
      <3> QED BY <1>21, <3>1, Zenon
    <2>12. CASE k = 12
      <3>1. N[k] = IrItem(Jump(l + 1)) /\ Z[k] = si /\ Z[k + 1] = si
        BY <1>1, <1>2, <1>5, <2>12
      <3> QED BY <1>22, <3>1, Zenon
    <2>13. CASE k = 13
      <3>1. N[k] = IrItem(Label(l + 2)) /\ Z[k] = si /\ Z[k + 1] = si
        BY <1>1, <1>2, <1>5, <2>13
      <3> QED BY <1>22, <3>1, Zenon
    <2>14. CASE k = 14
      <3>1. N[k] = IrItem(LoadVar(e.tag[1])) /\ Z[k] = si /\ Z[k + 1] = t
        BY <1>1, <1>2, <1>5, <2>14
      <3> QED BY <1>23, <3>1, Zenon
    <2> QED BY <2>1, <2>2, <2>3, <2>4, <2>5, <2>6, <2>7, <2>8, <2>9, <2>10, <2>11, <2>12, <2>13, <2>14
  <1>10. Under(s, Z[1]) /\ Z[14 + 1] = t /\ Z \in [1..(14 + 1) -> Shape]
    BY <1>4, <1>5, UnderItself
  <1>11. Chain(N, 14, s, t, L)
    BY <1>9, <1>10 DEF Chain
  <1> QED BY <1>1, <1>11 DEF N, a

-----------------------------------------------------------------------------
(***************************************************************************)
(* Forms whose code only piles up values and takes them.                   *)
(***************************************************************************)
Raised(s, h) == [k \in 1..(Len(s) + h) |-> IF k <= Len(s) THEN s[k] ELSE "any"]

LEMMA RaisedShape ==
  ASSUME NEW s \in Shape, NEW h \in Nat
  PROVE  /\ Raised(s, h) \in Shape
         /\ Len(s) \in Nat /\ Len(Raised(s, h)) = Len(s) + h
         /\ \A k \in 1..(Len(s) + h) : Raised(s, h)[k] = IF k <= Len(s) THEN s[k] ELSE "any"
  <1>1. PICK n \in Nat : n = Len(s) /\ \A k \in 1..n : s[k] \in {"any", "iterator", "sink"}
    BY DEF Shape
  <1>2. Raised(s, h) = [k \in 1..(n + h) |-> IF k <= n THEN s[k] ELSE "any"]
    BY <1>1 DEF Raised
  <1>3. \A k \in 1..(n + h) : Raised(s, h)[k] \in {"any", "iterator", "sink"}
    BY <1>1, <1>2
  <1>4. n + h \in Nat
    OBVIOUS
  <1>5. Raised(s, h) \in Seq({"any", "iterator", "sink"}) /\ Len(Raised(s, h)) = n + h
    <2> DEFINE r == Raised(s, h)
    <2>1. r = [k \in 1..(n + h) |-> r[k]]
      BY <1>2
    <2> HIDE DEF r
    <2>2. \A k \in 1..(n + h) : r[k] \in {"any", "iterator", "sink"}
      BY <1>3 DEF r
    <2>3. r \in Seq({"any", "iterator", "sink"}) /\ Len(r) = n + h
      BY <1>4, <2>1, <2>2
    <2> QED BY <2>3 DEF r
  <1> QED BY <1>1, <1>2, <1>5 DEF Shape

LEMMA RaisedLeads ==
  ASSUME NEW s \in Shape, NEW h \in Nat, NEW n \in 0..h
  PROVE  /\ Leads(Raised(s, h), n, "any", Raised(s, h - n + 1))
         /\ Leads(Raised(s, h), n, "nothing", Raised(s, h - n))
  <1>1. PICK m \in Nat : m = Len(s)
    BY RaisedShape
  <1>2. ASSUME NEW j \in Nat
        PROVE  /\ Len(Raised(s, j)) = m + j
               /\ \A k \in 1..(m + j) : Raised(s, j)[k] = IF k <= m THEN s[k] ELSE "any"
    BY <1>1, RaisedShape
  <1>3. h - n \in Nat /\ h - n + 1 \in Nat
    OBVIOUS
  <1>4. ASSUME NEW j \in Nat, NEW k \in 1..(m + j), Raised(s, j)[k] # "any"
        PROVE  k <= m /\ Raised(s, j)[k] = Raised(s, h)[k]
    <2>1. k <= m /\ Raised(s, j)[k] = s[k]
      BY <1>2, <1>4
    <2>2. k \in 1..(m + h)
      BY <2>1
    <2> QED BY <1>2, <2>1, <2>2
  <1>5. ASSUME NEW j \in Nat, NEW c, j <= h - n + (IF c = "nothing" THEN 0 ELSE 1)
        PROVE  Leads(Raised(s, h), n, c, Raised(s, j))
    <2>1. Len(Raised(s, h)) = m + h /\ Len(Raised(s, j)) = m + j
      BY <1>2
    <2>2. n \in 0..(m + h) /\ m + j <= m + h - n + (IF c = "nothing" THEN 0 ELSE 1)
      BY <1>5
    <2>3. ASSUME NEW k \in 1..(m + j), Raised(s, j)[k] # "any"
          PROVE  k <= m + h - n /\ Raised(s, j)[k] = Raised(s, h)[k]
      BY <1>4, <2>3
    <2> QED BY <2>1, <2>2, <2>3 DEF Leads
  <1> QED BY <1>3, <1>5

LEMMA RaisedUnder ==
  ASSUME NEW s \in Shape, NEW t \in Shape, NEW c \in {"any", "nothing"}, Leads(s, 0, c, t),
         NEW h \in Nat, c = "any" => h > 0
  PROVE  Under(Raised(s, h), t)
  <1>1. PICK m \in Nat : m = Len(s)
    BY RaisedShape
  <1>2. Len(t) \in Nat /\ Len(t) <= m + h
    BY <1>1 DEF Leads, Shape
  <1>3. /\ Len(Raised(s, h)) = m + h
        /\ \A k \in 1..(m + h) : Raised(s, h)[k] = IF k <= m THEN s[k] ELSE "any"
    BY <1>1, RaisedShape
  <1>4. ASSUME NEW k \in 1..Len(t), t[k] # "any"
        PROVE  k <= m + h /\ t[k] = Raised(s, h)[k]
    <2>1. k <= m /\ t[k] = s[k]
      BY <1>1, <1>2, <1>4 DEF Leads
    <2> QED BY <1>3, <2>1
  <1> QED BY <1>2, <1>3, <1>4 DEF Under, Leads

\* From h values on the shape to j.
Lifts(x, h, j) ==
  \/ x.what = "expr" /\ x.it \in Yielding /\ j = h + 1
  \/ x.what = "ir" /\ Making(x.it) /\ Takes(x.it) \in 0..h /\ j = h - Takes(x.it) + 1
  \/ x.what = "ir" /\ x.it.op = "assign" /\ h > 0 /\ j = h - 1

LEMMA LiftsSteps ==
  ASSUME NEW s \in Shape, NEW x, NEW h \in Nat, NEW j \in Nat, Lifts(x, h, j), NEW L
  PROVE  /\ Steps(x, Raised(s, h), Raised(s, j), L)
         /\ x.what = "expr" \/ x.it.op # "label"
  <1>1. CASE x.what = "expr" /\ x.it \in Yielding /\ j = h + 1
    <2>1. 0 \in 0..h /\ h - 0 + 1 = j
      BY <1>1
    <2>2. Leads(Raised(s, h), 0, "any", Raised(s, h - 0 + 1))
      BY <2>1, RaisedLeads
    <2> QED BY <1>1, <2>1, <2>2 DEF Steps, Left
  <1>2. CASE x.what = "ir" /\ Making(x.it) /\ Takes(x.it) \in 0..h /\ j = h - Takes(x.it) + 1
    <2>1. Leads(Raised(s, h), Takes(x.it), "any", Raised(s, j))
      BY <1>2, RaisedLeads
    <2>2. Between(x.it, Raised(s, h), Raised(s, j), L)
      BY <1>2, <2>1, MakingBetween
    <2> QED BY <1>2, <2>2 DEF Steps, Making
  <1>3. CASE x.what = "ir" /\ x.it.op = "assign" /\ h > 0 /\ j = h - 1
    <2>1. Uses(x.it) = 1 /\ Given(x.it) = "nothing" /\ Finds(x.it, Raised(s, h))
      BY <1>3 DEF Uses, Takes, Given, Finds
    <2>2. Leads(Raised(s, h), 1, "nothing", Raised(s, j))
      BY <1>3, RaisedLeads
    <2> QED BY <1>3, <2>1, <2>2 DEF Steps, Between
  <1> QED BY <1>1, <1>2, <1>3 DEF Lifts

LEMMA HeightsChain ==
  ASSUME NEW N, NEW d \in Nat, NEW H \in [1..(d + 1) -> Nat], H[1] = 0,
         \A k \in 1..d : Lifts(N[k], H[k], H[k + 1]),
         NEW s \in Shape, NEW t \in Shape, NEW c \in {"any", "nothing"}, Leads(s, 0, c, t),
         c = "any" => H[d + 1] > 0, NEW L
  PROVE  Chain(N, d, s, t, L)
  <1> DEFINE Z == [k \in 1..(d + 1) |-> IF k = d + 1 THEN t ELSE Raised(s, H[k])]
  <1>1. \A k \in 1..(d + 1) : H[k] \in Nat /\ Raised(s, H[k]) \in Shape
    BY RaisedShape
  <1>2. Z \in [1..(d + 1) -> Shape]
    BY <1>1
  <1>3. Z[d + 1] = t /\ \A k \in 1..d : Z[k] = Raised(s, H[k])
    OBVIOUS
  <1> HIDE DEF Z
  <1>4. Under(Raised(s, H[d + 1]), t)
    <2>1. H[d + 1] \in Nat
      OBVIOUS
    <2> QED BY <2>1, RaisedUnder
  <1>5. ASSUME NEW k \in 1..d
        PROVE  Steps(N[k], Z[k], Z[k + 1], L)
    <2>1. /\ Steps(N[k], Raised(s, H[k]), Raised(s, H[k + 1]), L)
          /\ N[k].what = "expr" \/ N[k].it.op # "label"
      <3>1. H[k] \in Nat /\ H[k + 1] \in Nat /\ Lifts(N[k], H[k], H[k + 1])
        BY <1>1
      <3> QED BY <3>1, LiftsSteps, Zenon
    <2>2. CASE k < d
      BY <1>3, <2>1, <2>2
    <2>3. CASE k = d
      <3>1. Steps(N[k], Raised(s, H[k]), t, L)
        <4>1. Raised(s, H[k]) \in Shape /\ Raised(s, H[k + 1]) \in Shape /\ Under(Raised(s, H[k + 1]), t)
          BY <1>1, <1>4, <2>3
        <4> QED BY <2>1, <4>1, StepsUnder, Zenon
      <3> QED BY <1>3, <2>3, <3>1
    <2> QED BY <2>2, <2>3
  <1>6. Under(s, Z[1])
    <2>1. CASE d = 0
      <3>1. c = "nothing" /\ Z[1] = t
        BY <1>3, <2>1
      <3> QED BY <3>1 DEF Under
    <2>2. CASE d > 0
      <3>1. Z[1] = Raised(s, 0)
        BY <1>3, <2>2
      <3>2. Len(s) \in Nat /\ Len(Raised(s, 0)) = Len(s) + 0
            /\ \A k \in 1..(Len(s) + 0) : Raised(s, 0)[k] = IF k <= Len(s) THEN s[k] ELSE "any"
        BY RaisedShape
      <3>3. Under(s, Raised(s, 0))
        BY <3>2 DEF Under, Leads
      <3> QED BY <3>1, <3>3
    <2> QED BY <2>1, <2>2
  <1> QED BY <1>2, <1>3, <1>5, <1>6 DEF Chain

\* An item that puts one value on the stack and takes none.
Pushes(x) ==
  \/ x.what = "expr" /\ x.it \in Yielding
  \/ x.what = "ir" /\ Making(x.it) /\ Takes(x.it) = 0

Pushing(a) == IsSequence(a) /\ \A k \in 1..Len(a) : Pushes(a[k])

LEMMA PushesLifts ==
  ASSUME NEW x, Pushes(x), NEW h \in Nat
  PROVE  Lifts(x, h, h + 1)
  <1>1. 0 \in 0..h /\ h - 0 + 1 = h + 1
    OBVIOUS
  <1> QED BY <1>1 DEF Pushes, Lifts

\* N is made of a, and under it the instructions b, the last first.
IsPlan(N, a, b) ==
  /\ Len(a) \in Nat /\ Len(b) \in Nat
  /\ \A k \in 1..Len(a) : N[k] = a[k]
  /\ \A j \in 1..Len(b) : N[Len(a) + j] = IrItem(b[Len(b) + 1 - j])

LEMMA PlanAt ==
  ASSUME NEW a, NEW b, IsSequence(a), IsSequence(b)
  PROVE  IsPlan(PlanOf(a, b), a, b)
  <1>1. PICK m \in Nat, n \in Nat : m = Len(a) /\ n = Len(b)
    BY DEF IsSequence
  <1>2. PlanOf(a, b) = [k \in 1..(m + n) |-> IF k <= m THEN a[k] ELSE IrItem(b[m + n + 1 - k])]
    BY <1>1 DEF PlanOf
  <1>3. \A j \in 1..n : m + j \in 1..(m + n) /\ ~ (m + j <= m) /\ m + n + 1 - (m + j) = n + 1 - j
    BY <1>1
  <1>4. \A j \in 1..n : PlanOf(a, b)[m + j] = IrItem(b[n + 1 - j])
    BY <1>2, <1>3
  <1> QED BY <1>1, <1>2, <1>4 DEF IsPlan

LEMMA OneChain ==
  ASSUME NEW a, Pushing(a), NEW i,
         NEW s \in Shape, NEW t \in Shape, NEW c \in {"any", "nothing"}, Leads(s, 0, c, t),
         \/ Making(i) /\ Takes(i) = Len(a)
         \/ i.op = "assign" /\ Len(a) = 1 /\ c = "nothing",
         NEW L
  PROVE  Chain(PlanOf(a, <<i>>), Len(a) + Len(<<i>>), s, t, L)
  <1>1. PICK p \in Nat : p = Len(a)
    BY DEF Pushing, IsSequence
  <1>2. IsSequence(<<i>>) /\ Len(<<i>>) = 1 /\ <<i>>[1] = i
    BY OneMore, ItemsOnly DEF IsSequence
  <1> DEFINE N == PlanOf(a, <<i>>)
             g == IF i.op = "assign" THEN p - 1 ELSE 1
             H == [k \in 1..(p + 1 + 1) |-> IF k <= p + 1 THEN k - 1 ELSE g]
  <1>3. (\A k \in 1..p : N[k] = a[k]) /\ N[p + 1] = IrItem(i)
    <2>1. IsSequence(a)
      BY DEF Pushing
    <2>2. IsPlan(N, a, <<i>>)
      BY <1>2, <2>1, PlanAt, Zenon
    <2> HIDE DEF N
    <2>3. PICK b : b = <<i>>
      OBVIOUS
    <2>4. IsPlan(N, a, b) /\ Len(b) = 1 /\ b[1] = i
      BY <1>2, <2>2, <2>3, Zenon
    <2> QED BY <1>1, <2>4 DEF IsPlan
  <1>4. Lifts(IrItem(i), p, g) /\ g \in Nat
    BY <1>1 DEF Lifts, IrItem, Making
  <1>5. c = "any" => g > 0
    BY <1>1 DEF Making
  <1> HIDE DEF N, g
  <1>6. H \in [1..(p + 1 + 1) -> Nat] /\ H[1] = 0
    BY <1>4
  <1>7. \A k \in 1..(p + 1) : H[k] = k - 1
    OBVIOUS
  <1>8. H[p + 1 + 1] = g
    OBVIOUS
  <1> HIDE DEF H
  <1>9. ASSUME NEW k \in 1..(p + 1)
        PROVE  Lifts(N[k], H[k], H[k + 1])
    <2>1. CASE k <= p
      <3>1. N[k] = a[k] /\ H[k] = k - 1 /\ H[k + 1] = (k - 1) + 1
        BY <1>3, <1>7, <2>1
      <3>2. k - 1 \in Nat /\ Pushes(a[k])
        BY <1>1, <2>1 DEF Pushing
      <3> QED BY <3>1, <3>2, PushesLifts
    <2>2. CASE k = p + 1
      BY <1>3, <1>4, <1>7, <1>8, <2>2
    <2> QED BY <2>1, <2>2
  <1>10. c = "any" => H[p + 1 + 1] > 0
    BY <1>5, <1>8
  <1>11. p + 1 \in Nat
    OBVIOUS
  <1>12. Chain(N, p + 1, s, t, L)
    BY <1>6, <1>9, <1>10, <1>11, HeightsChain
  <1> QED BY <1>1, <1>2, <1>12 DEF N

LEMMA CallChain ==
  ASSUME NEW a, Pushing(a), NEW i, NEW f, Making(i), Making(f), Takes(i) = Len(a) + 1, Takes(f) = 0,
         NEW s \in Shape, NEW t \in Shape, NEW c \in {"any", "nothing"}, Leads(s, 0, c, t), NEW L
  PROVE  Chain(PlanOf(a, <<i, f>>), Len(a) + Len(<<i, f>>), s, t, L)
  <1>1. PICK p \in Nat : p = Len(a)
    BY DEF Pushing, IsSequence
  <1>2. IsSequence(<<i, f>>) /\ Len(<<i, f>>) = 2 /\ <<i, f>>[1] = i /\ <<i, f>>[2] = f
    <2>1. <<i, f>> \in Seq({i, f})
      OBVIOUS
    <2> QED BY <2>1, Sequences
  <1> DEFINE N == PlanOf(a, <<i, f>>)
             H == [k \in 1..(p + 2 + 1) |-> IF k <= p + 2 THEN k - 1 ELSE 1]
  <1>3. (\A k \in 1..p : N[k] = a[k]) /\ N[p + 1] = IrItem(f) /\ N[p + 2] = IrItem(i)
    <2>1. IsSequence(a)
      BY DEF Pushing
    <2>2. IsPlan(N, a, <<i, f>>)
      BY <1>2, <2>1, PlanAt, Zenon
    <2> HIDE DEF N
    <2>3. PICK b : b = <<i, f>>
      OBVIOUS
    <2>4. IsPlan(N, a, b) /\ Len(b) = 2 /\ b[1] = i /\ b[2] = f
      BY <1>2, <2>2, <2>3, Zenon
    <2>5. (\A k \in 1..p : N[k] = a[k]) /\ \A j \in 1..2 : N[p + j] = IrItem(b[2 + 1 - j])
      BY <1>1, <2>4 DEF IsPlan
    <2>6. N[p + 1] = IrItem(b[2]) /\ N[p + 2] = IrItem(b[1])
      BY <2>5
    <2> QED BY <2>4, <2>5, <2>6
  <1>4. Lifts(IrItem(f), p, p + 1) /\ Lifts(IrItem(i), p + 1, 1)
    BY <1>1 DEF Lifts, IrItem
  <1> HIDE DEF N
  <1>6. H \in [1..(p + 2 + 1) -> Nat] /\ H[1] = 0
    OBVIOUS
  <1>7. \A k \in 1..(p + 2) : H[k] = k - 1
    OBVIOUS
  <1>8. H[p + 2 + 1] = 1
    OBVIOUS
  <1> HIDE DEF H
  <1>9. ASSUME NEW k \in 1..(p + 2)
        PROVE  Lifts(N[k], H[k], H[k + 1])
    <2>1. CASE k <= p
      <3>1. N[k] = a[k] /\ H[k] = k - 1 /\ H[k + 1] = (k - 1) + 1
        BY <1>3, <1>7, <2>1
      <3>2. k - 1 \in Nat /\ Pushes(a[k])
        BY <1>1, <2>1 DEF Pushing
      <3> QED BY <3>1, <3>2, PushesLifts
    <2>2. CASE k = p + 1
      <3>1. H[k] = p /\ H[k + 1] = p + 1
        BY <1>7, <2>2
      <3> QED BY <1>3, <1>4, <2>2, <3>1
    <2>3. CASE k = p + 2
      <3>1. H[k] = p + 1 /\ H[k + 1] = 1
        BY <1>7, <1>8, <2>3
      <3> QED BY <1>3, <1>4, <2>3, <3>1
    <2> QED BY <2>1, <2>2, <2>3
  <1>10. c = "any" => H[p + 2 + 1] > 0
    BY <1>8
  <1>11. p + 2 \in Nat
    OBVIOUS
  <1>12. Chain(N, p + 2, s, t, L)
    BY <1>6, <1>9, <1>10, <1>11, HeightsChain
  <1> QED BY <1>1, <1>2, <1>12 DEF N

\* A record is created over its values, and takes them one by one.
LEMMA RecordChain ==
  ASSUME NEW a, Pushing(a), NEW b, IsSequence(b), Len(b) = Len(a) + 1,
         Making(b[Len(b)]), Takes(b[Len(b)]) = 0,
         \A k \in 1..Len(a) : Making(b[k]) /\ Takes(b[k]) = 2,
         NEW s \in Shape, NEW t \in Shape, NEW c \in {"any", "nothing"}, Leads(s, 0, c, t), NEW L
  PROVE  Chain(PlanOf(a, b), Len(a) + Len(b), s, t, L)
  <1>1. PICK p \in Nat : p = Len(a)
    BY DEF Pushing, IsSequence
  <1>2. Len(b) = p + 1 /\ p + (p + 1) = 2 * p + 1
    BY <1>1
  <1> DEFINE N == PlanOf(a, b)
             d == 2 * p + 1
             H == [k \in 1..(d + 1) |-> IF k <= p + 1 THEN k - 1 ELSE 2 * p + 3 - k]
  <1>3. /\ \A k \in 1..p : N[k] = a[k]
        /\ N[p + 1] = IrItem(b[p + 1])
        /\ \A k \in (p + 2)..d : \E j \in 1..p : N[k] = IrItem(b[j])
    <2>1. IsSequence(a)
      BY DEF Pushing
    <2>6. IsPlan(N, a, b)
      BY <2>1, PlanAt, Zenon
    <2> HIDE DEF N
    <2>2. /\ \A k \in 1..p : N[k] = a[k]
          /\ \A j \in 1..(p + 1) : N[p + j] = IrItem(b[p + 1 + 1 - j])
      BY <1>1, <1>2, <2>6 DEF IsPlan
    <2>3. N[p + 1] = IrItem(b[p + 1])
      <3>1. 1 \in 1..(p + 1) /\ p + 1 + 1 - 1 = p + 1
        OBVIOUS
      <3> QED BY <2>2, <3>1
    <2>4. ASSUME NEW k \in (p + 2)..d
          PROVE  \E j \in 1..p : N[k] = IrItem(b[j])
      <3>1. k - p \in 1..(p + 1) /\ p + (k - p) = k /\ p + 1 + 1 - (k - p) \in 1..p
        OBVIOUS
      <3>2. N[p + (k - p)] = IrItem(b[p + 1 + 1 - (k - p)])
        BY <2>2, <3>1
      <3> QED BY <3>1, <3>2
    <2> QED BY <2>2, <2>3, <2>4
  <1>4. /\ Making(b[p + 1]) /\ Takes(b[p + 1]) = 0
        /\ \A j \in 1..p : Making(b[j]) /\ Takes(b[j]) = 2
    BY <1>1, <1>2
  <1> HIDE DEF N
  <1>5. d \in Nat /\ d + 1 = 2 * p + 2
    OBVIOUS
  <1>6. H \in [1..(d + 1) -> Nat] /\ H[1] = 0
    OBVIOUS
  <1>7. \A k \in 1..(p + 1) : H[k] = k - 1
    OBVIOUS
  <1>8. \A k \in (p + 2)..(d + 1) : H[k] = 2 * p + 3 - k
    OBVIOUS
  <1> HIDE DEF H
  <1>9. ASSUME NEW k \in 1..d
        PROVE  Lifts(N[k], H[k], H[k + 1])
    <2>1. CASE k <= p
      <3>1. N[k] = a[k] /\ H[k] = k - 1 /\ H[k + 1] = (k - 1) + 1
        BY <1>3, <1>7, <2>1
      <3>2. k - 1 \in Nat /\ Pushes(a[k])
        BY <1>1, <2>1 DEF Pushing
      <3> QED BY <3>1, <3>2, PushesLifts
    <2>2. CASE k = p + 1
      <3>1. H[k] = p /\ H[k + 1] = p + 1
        BY <1>7, <1>8, <2>2
      <3>2. Lifts(IrItem(b[p + 1]), p, p + 1)
        BY <1>4 DEF Lifts, IrItem
      <3> QED BY <1>3, <2>2, <3>1, <3>2
    <2>3. CASE k > p + 1
      <3>1. k \in (p + 2)..d /\ k + 1 \in (p + 2)..(d + 1) /\ 2 * p + 3 - (k + 1) = 2 * p + 3 - k - 1
            /\ 2 * p + 3 - k \in Nat /\ 2 * p + 3 - k > 1
        BY <2>3
      <3>2. PICK h \in Nat : h > 1 /\ H[k] = h /\ H[k + 1] = h - 1
        BY <1>8, <3>1
      <3>3. PICK j \in 1..p : N[k] = IrItem(b[j])
        BY <1>3, <3>1
      <3>4. Lifts(IrItem(b[j]), h, h - 1)
        BY <1>4, <3>2 DEF Lifts, IrItem
      <3> QED BY <3>2, <3>3, <3>4
    <2> QED BY <2>1, <2>2, <2>3
  <1>10. c = "any" => H[d + 1] > 0
    BY <1>7, <1>8
  <1>11. Chain(N, d, s, t, L)
    <2> HIDE DEF d
    <2> QED BY <1>5, <1>6, <1>9, <1>10, HeightsChain
  <1> QED BY <1>1, <1>2, <1>11 DEF N

LEMMA SingleChain ==
  ASSUME NEW N, NEW s \in Shape, NEW t \in Shape, NEW L, Steps(N[1], s, t, L)
  PROVE  Chain(N, 1, s, t, L)
  <1> DEFINE Z == [k \in 1..(1 + 1) |-> IF k = 1 THEN s ELSE t]
  <1>1. Z \in [1..(1 + 1) -> Shape] /\ Z[1] = s /\ Z[1 + 1] = t
    OBVIOUS
  <1> HIDE DEF Z
  <1>2. Under(s, Z[1])
    BY <1>1, UnderItself
  <1>3. \A k \in 1..1 : Steps(N[k], Z[k], Z[k + 1], L)
    <2>1. \A k \in 1..1 : k = 1
      OBVIOUS
    <2>2. Steps(N[1], Z[1], Z[1 + 1], L)
      BY <1>1
    <2> QED BY <2>1, <2>2
  <1> QED BY <1>1, <1>2, <1>3 DEF Chain

\* An expression alone leads where one that yields no more than it does.
LEMMA InsteadChain ==
  ASSUME NEW a, IsSequence(a), Len(a) = 1, NEW f, a[1] = ExprItem(f),
         NEW e, e \in Yielding => f \in Yielding,
         NEW s \in Shape, NEW t \in Shape, Leads(s, 0, Left(e), t), NEW L
  PROVE  Chain(PlanOf(a, <<>>), Len(a) + Len(<<>>), s, t, L)
  <1>1. Len(a) + Len(<<>>) = 1 /\ PlanOf(a, <<>>)[1] = ExprItem(f)
    BY ItemsOnly
  <1>2. Leads(s, 0, Left(f), t)
    BY LeavesAsMuch, Zenon
  <1>3. Steps(ExprItem(f), s, t, L)
    BY <1>2, StepsItem, Zenon
  <1> DEFINE N == PlanOf(a, <<>>)
  <1>4. Steps(N[1], s, t, L)
    BY <1>1, <1>3
  <1> HIDE DEF N
  <1>5. Chain(N, 1, s, t, L)
    BY <1>4, SingleChain
  <1> QED BY <1>1, <1>5 DEF N

\* The operands leave a value each.
LEMMA OperandsPush ==
  ASSUME NEW e \in Exprs, e.form \in OperandForms
  PROVE  /\ Pushing(Operands(e)) /\ Len(Operands(e)) = Len(e.args) /\ Len(e.args) \in Nat
         /\ \A k \in 1..Len(e.args) : e.args[k] \in Yielding
  <1>1. PICK n \in Nat : n = Len(e.args)
    BY OperandItems
  <1>2. e.form \notin {"block", "cond"} \cup StandingForms
    BY DEF OperandForms, StandingForms
  <1>3. \A k \in 1..n : e.args[k] \in Yielding
    BY <1>1, <1>2, PartsYield
  <1>4. IsSequence(Operands(e)) /\ Len(Operands(e)) = n /\ \A k \in 1..n : Operands(e)[k] = ExprItem(e.args[n + 1 - k])
    BY <1>1, OperandItems
  <1>5. ASSUME NEW k \in 1..n
        PROVE  Pushes(Operands(e)[k])
    <2>1. n + 1 - k \in 1..n
      OBVIOUS
    <2>2. Operands(e)[k] = ExprItem(e.args[n + 1 - k]) /\ e.args[n + 1 - k] \in Yielding
      BY <1>3, <1>4, <2>1
    <2> QED BY <2>2 DEF Pushes, ExprItem
  <1> QED BY <1>1, <1>3, <1>4, <1>5 DEF Pushing

LEMMA RecordOwn ==
  ASSUME NEW e \in Exprs, e.form = "record"
  PROVE  /\ IsSequence(Own(e)) /\ Len(Own(e)) = Len(e.args) + 1
         /\ Making(Own(e)[Len(Own(e))]) /\ Takes(Own(e)[Len(Own(e))]) = 0
         /\ \A k \in 1..Len(e.args) : Making(Own(e)[k]) /\ Takes(Own(e)[k]) = 2
  <1>1. Own(e) = Updates(e.tag) \o <<Ir("create-record", e.tag)>>
    BY DEF Own
  <1>2. PICK n \in Nat : n = Len(e.tag) /\ n = Len(e.args)
    BY ExprsAssumption DEF Formed
  <1>3. Updates(e.tag) = [k \in 1..n |-> Ir("update-record", e.tag[n + 1 - k])]
    BY <1>2 DEF Updates
  <1> DEFINE u == Updates(e.tag)
             c == Ir("create-record", e.tag)
  <1>4. \A k \in 1..n : Making(u[k]) /\ Takes(u[k]) = 2
    BY <1>3 DEF Making, Takes, Ir
  <1>5. IsSequence(u) /\ Len(u) = n
    BY <1>3, Listed
  <1>6. Making(c) /\ Takes(c) = 0
    BY DEF Making, Takes, Ir
  <1> HIDE DEF u, c
  <1>7. /\ IsSequence(u \o <<c>>) /\ Len(u \o <<c>>) = n + 1
        /\ (u \o <<c>>)[n + 1] = c /\ \A k \in 1..n : (u \o <<c>>)[k] = u[k]
    BY <1>5, OneMore
  <1> DEFINE b == u \o <<c>>
  <1>8. IsSequence(b) /\ Len(b) = n + 1 /\ b[n + 1] = c /\ \A k \in 1..n : b[k] = u[k]
    BY <1>7
  <1> HIDE DEF b
  <1>9. /\ Making(b[Len(b)]) /\ Takes(b[Len(b)]) = 0
        /\ \A k \in 1..n : Making(b[k]) /\ Takes(b[k]) = 2
    BY <1>4, <1>6, <1>8
  <1> QED BY <1>1, <1>2, <1>8, <1>9 DEF u, c, b

LEMMA OneOwn ==
  ASSUME NEW e \in Exprs, e.form \in OperandForms \ {"record", "call", "instance"}
  PROVE  \E i : /\ Own(e) = <<i>>
                /\ \/ Making(i) /\ Takes(i) = Len(e.args)
                   \/ i.op = "assign" /\ Len(e.args) = 1 /\ e.form = "let"
  <1>1. Len(<<>>) = 0
    OBVIOUS
  <1>2. Formed(e)
    BY ExprsAssumption
  <1>3. CASE e.form \in Operandless
    <2>1. Len(e.args) = 0
      BY <1>1, <1>2, <1>3 DEF Formed
    <2>2. \E i : Own(e) = <<i>> /\ i.op \in {"lit", "load", "throw", "enum", "worker-name"}
      BY <1>3 DEF Own, Operandless, PushLit, LoadVar, Plain, Ir
    <2> QED BY <2>1, <2>2 DEF Making, Takes
  <1>4. CASE e.form \in OneOperand
    <2>1. Len(e.args) = 1
      BY <1>2, <1>4 DEF Formed
    <2>2. CASE e.form = "let"
      BY <2>1, <2>2 DEF Own, AssignVar, Ir
    <2>3. CASE e.form # "let"
      <3>1. \E i : Own(e) = <<i>> /\ i.op \in {"select-field", "not", "some", "ok", "err", "length", "unwrap", "get-tag"}
        BY <1>4, <2>3 DEF Own, OneOperand, OperandForms, Plain, Ir
      <3> QED BY <2>1, <3>1 DEF Making, Takes
    <2> QED BY <2>2, <2>3
  <1>5. CASE e.form \in {"compare", "math", "select-index"}
    <2>1. Len(e.args) = 2
      BY <1>2, <1>5 DEF Formed, TwoOperands
    <2>2. \E i : Own(e) = <<i>> /\ i.op \in {"compare", "math", "select-index"}
      BY <1>5 DEF Own, Plain, Ir
    <2> QED BY <2>1, <2>2 DEF Making, Takes
  <1>6. CASE e.form \in {"sequence", "tuple", "concat"}
    <2>1. Own(e) = <<Ir(e.form, Len(e.args))>>
      BY <1>6 DEF Own
    <2>2. Making(Ir(e.form, Len(e.args))) /\ Takes(Ir(e.form, Len(e.args))) = Len(e.args)
      BY <1>6 DEF Making, Takes, Ir
    <2> QED BY <2>1, <2>2
  <1>7. CASE e.form = "variant"
    <2>1. Own(e) = <<Ir("variant", <<e.tag, Len(e.args)>>)>>
      BY <1>7 DEF Own
    <2>2. Making(Ir("variant", <<e.tag, Len(e.args)>>)) /\ Takes(Ir("variant", <<e.tag, Len(e.args)>>)) = Len(e.args)
      BY DEF Making, Takes, Ir
    <2> QED BY <2>1, <2>2
  <1> QED BY <1>3, <1>4, <1>5, <1>6, <1>7 DEF OperandForms, Operandless, OneOperand

LEMMA OwnChain ==
  ASSUME NEW e \in Exprs, e.form \in OperandForms,
         NEW s \in Shape, NEW t \in Shape, Leads(s, 0, Left(e), t), NEW L
  PROVE  Chain(PlanOf(Operands(e), Own(e)), Len(Operands(e)) + Len(Own(e)), s, t, L)
  <1> DEFINE a == Operands(e)
             c == Left(e)
  <1>1. Pushing(a) /\ Len(a) = Len(e.args) /\ Len(a) \in Nat
    BY OperandsPush
  <1>2. c \in {"any", "nothing"} /\ Leads(s, 0, c, t) /\ (e.form = "let" => c = "nothing")
    <2>1. e.form = "let" => e \notin Yielding
      BY PartsYield
    <2> QED BY <2>1 DEF Left
  <1>3. CASE e.form = "instance"
    <2>1. Own(e) = <<>>
      BY <1>3 DEF Own
    <2>2. IsSequence(a) /\ Len(a) = 1 /\ a[1] = ExprItem(e.args[1]) /\ e.args[1] \in Yielding
      <3>1. Len(e.args) = 1
        BY <1>3, ExprsAssumption DEF Formed, OneOperand
      <3>2. 1 \in 1..1 /\ 1 + 1 - 1 = 1
        OBVIOUS
      <3> QED BY <3>1, <3>2, OperandItems, OperandsPush
    <2> HIDE DEF a
    <2>3. Chain(PlanOf(a, <<>>), Len(a) + Len(<<>>), s, t, L)
      BY <2>2, InsteadChain, Zenon
    <2> QED BY <2>1, <2>3 DEF a
  <1>4. CASE e.form = "record"
    <2> DEFINE b == Own(e)
    <2>1. /\ IsSequence(b) /\ Len(b) = Len(a) + 1
          /\ Making(b[Len(b)]) /\ Takes(b[Len(b)]) = 0
          /\ \A k \in 1..Len(a) : Making(b[k]) /\ Takes(b[k]) = 2
      BY <1>1, <1>4, RecordOwn
    <2> HIDE DEF a, b, c
    <2>2. Chain(PlanOf(a, b), Len(a) + Len(b), s, t, L)
      BY <1>1, <1>2, <2>1, RecordChain, Zenon
    <2> QED BY <2>2 DEF a, b
  <1>5. CASE e.form = "call"
    <2> DEFINE i == Ir("invoke", [on |-> e.tag[2], args |-> Len(e.args)])
               f == Ir("function-name", e.tag[1])
    <2>1. Own(e) = <<i, f>>
      BY <1>5 DEF Own, Invocation
    <2>2. Making(i) /\ Making(f) /\ Takes(i) = Len(a) + 1 /\ Takes(f) = 0
      BY <1>1 DEF Making, Takes, Ir
    <2> HIDE DEF a, i, f, c
    <2>3. Chain(PlanOf(a, <<i, f>>), Len(a) + Len(<<i, f>>), s, t, L)
      BY <1>1, <1>2, <2>2, CallChain, Zenon
    <2> QED BY <2>1, <2>3 DEF a
  <1>6. CASE e.form \notin {"record", "call", "instance"}
    <2>1. PICK i : /\ Own(e) = <<i>>
                   /\ \/ Making(i) /\ Takes(i) = Len(a)
                      \/ i.op = "assign" /\ Len(a) = 1 /\ c = "nothing"
      <3>1. e.form \in OperandForms \ {"record", "call", "instance"}
        BY <1>6
      <3>2. \E i : /\ Own(e) = <<i>>
                   /\ \/ Making(i) /\ Takes(i) = Len(e.args)
                      \/ i.op = "assign" /\ Len(e.args) = 1 /\ e.form = "let"
        BY <3>1, OneOwn
      <3> HIDE DEF a, c
      <3> QED BY <1>1, <1>2, <3>2
    <2> HIDE DEF a, c
    <2>2. Chain(PlanOf(a, <<i>>), Len(a) + Len(<<i>>), s, t, L)
      BY <1>1, <1>2, <2>1, OneChain, Zenon
    <2> QED BY <2>1, <2>2 DEF a
  <1> QED BY <1>3, <1>4, <1>5, <1>6

LEMMA BlockChain ==
  ASSUME NEW e \in Exprs, e.form = "block",
         NEW s \in Shape, NEW t \in Shape, Leads(s, 0, Left(e), t), NEW L
  PROVE  Chain(PlanOf(InOrder(e), <<>>), Len(InOrder(e)) + Len(<<>>), s, t, L)
  <1> DEFINE a == InOrder(e)
             N == PlanOf(a, <<>>)
  <1>1. PICK n \in Nat : n = Len(e.args)
    BY OperandItems
  <1>2. Len(a) + Len(<<>>) = n /\ \A k \in 1..n : N[k] = ExprItem(e.args[k])
    <2>1. IsSequence(a) /\ Len(a) = n /\ \A k \in 1..n : a[k] = ExprItem(e.args[k])
      BY <1>1, BlockItems
    <2> HIDE DEF a
    <2> QED BY <2>1, ItemsOnly
  <1> HIDE DEF a, N
  <1> DEFINE Z == [k \in 1..(n + 1) |-> IF k = n + 1 THEN t ELSE s]
  <1>3. Z \in [1..(n + 1) -> Shape] /\ Z[n + 1] = t /\ \A k \in 1..n : Z[k] = s
    OBVIOUS
  <1> HIDE DEF Z
  <1>4. e \in Yielding => n > 0 /\ e.args[n] \in Yielding
    <2>1. e \in Yielding => e.args # <<>> /\ e.args[n] \in Yielding
      BY <1>1, PartsYield
    <2>2. e.args \in Seq(Exprs)
      BY ExprsAssumption
    <2> QED BY <1>1, <2>1, <2>2
  <1>5. Under(s, Z[1])
    <2>1. CASE n = 0
      BY <1>3, <1>4, <2>1 DEF Left, Under
    <2>2. CASE n > 0
      BY <1>3, <2>2, UnderItself
    <2> QED BY <2>1, <2>2
  <1>6. ASSUME NEW k \in 1..n
        PROVE  Steps(N[k], Z[k], Z[k + 1], L)
    <2>1. CASE k = n
      <3>1. Leads(s, 0, Left(e.args[n]), t)
        BY <1>4, LeavesAsMuch, Zenon
      <3>2. Steps(ExprItem(e.args[n]), s, t, L)
        BY <3>1, StepsItem, Zenon
      <3> QED BY <1>2, <1>3, <2>1, <3>2
    <2>2. CASE k < n
      <3>1. Leads(s, 0, Left(e.args[k]), s)
        BY LeavesOver, Zenon
      <3>2. Steps(ExprItem(e.args[k]), s, s, L)
        BY <3>1, StepsItem, Zenon
      <3>3. k + 1 \in 1..n
        BY <2>2
      <3> QED BY <1>2, <1>3, <3>2, <3>3
    <2> QED BY <2>1, <2>2
  <1>7. Chain(N, n, s, t, L)
    BY <1>3, <1>5, <1>6 DEF Chain
  <1> QED BY <1>2, <1>7 DEF a, N

LEMMA StandingChain ==
  ASSUME NEW e \in Exprs, e.form \in StandingForms, Standing(e) # NoExpr,
         NEW s \in Shape, NEW t \in Shape, Leads(s, 0, Left(e), t), NEW L
  PROVE  LET a == <<ExprItem(Standing(e))>>
         IN  Chain(PlanOf(a, <<>>), Len(a) + Len(<<>>), s, t, L)
  <1> DEFINE a == <<ExprItem(Standing(e))>>
  <1>1. IsSequence(a) /\ Len(a) = 1 /\ a[1] = ExprItem(Standing(e))
    BY StandingItem
  <1>2. e \in Yielding => Standing(e) \in Yielding
    BY PartsYield
  <1> HIDE DEF a
  <1>3. Chain(PlanOf(a, <<>>), Len(a) + Len(<<>>), s, t, L)
    BY <1>1, <1>2, InsteadChain, Zenon
  <1> QED BY <1>3 DEF a

LEMMA RangeChain ==
  ASSUME NEW e \in Exprs, e.form \in {"range", "range-from"},
         NEW s \in Shape, NEW t \in Shape, Leads(s, 0, Left(e), t), NEW L
  PROVE  Chain(PlanOf(Bounds(e), RangeOwn(e)), Len(Bounds(e)) + Len(RangeOwn(e)), s, t, L)
  <1> DEFINE f == Append(Ends(e), "inclusive")
             n == IF e.form = "range" THEN 3 ELSE 2
             u == [k \in 1..n |-> Ir("update-record", f[k])]
             r == Ir("create-record", f)
             lit == IrItem(PushLit(Boolean(e.tag)))
             a == Bounds(e)
             b == RangeOwn(e)
  <1>1. Len(f) = n /\ n \in Nat
    BY DEF Ends
  <1>2. b = u \o <<r>>
    BY <1>1 DEF RangeOwn
  <1>3. \A k \in 1..n : Making(u[k]) /\ Takes(u[k]) = 2
    BY DEF Making, Takes, Ir
  <1>4. IsSequence(u) /\ Len(u) = n
    BY <1>1, Listed
  <1>5. Making(r) /\ Takes(r) = 0
    BY DEF Making, Takes, Ir
  <1>6. IsSequence(a)
    BY RangeItems
  <1>7. e.args[1] \in Yielding /\ (e.form = "range" => e.args[2] \in Yielding)
    <2>1. Len(e.args) = IF e.form = "range" THEN 2 ELSE 1
      BY ExprsAssumption DEF Formed, OneOperand, TwoOperands
    <2>2. e.form \notin {"block", "cond"} \cup StandingForms
      BY DEF StandingForms
    <2> QED BY <2>1, <2>2, PartsYield
  <1>8. Pushes(lit) /\ \A x \in Yielding : Pushes(ExprItem(x))
    BY DEF Pushes, ExprItem, IrItem, PushLit, Ir, Making, Takes
  <1>9. /\ Len(a) = n /\ a[1] = ExprItem(e.args[1]) /\ a[n] = lit
        /\ e.form = "range" => a[2] = ExprItem(e.args[2])
    BY DEF Bounds
  <1> HIDE DEF f, u, r, a, b, lit
  <1>10. ASSUME NEW k \in 1..n
         PROVE  Pushes(a[k])
    <2>1. k = 1 \/ k = n \/ (k = 2 /\ e.form = "range")
      OBVIOUS
    <2> QED BY <1>7, <1>8, <1>9, <2>1
  <1> HIDE DEF n
  <1>11. Pushing(a)
    BY <1>6, <1>9, <1>10 DEF Pushing
  <1>12. /\ IsSequence(u \o <<r>>) /\ Len(u \o <<r>>) = n + 1
         /\ (u \o <<r>>)[n + 1] = r /\ \A k \in 1..n : (u \o <<r>>)[k] = u[k]
    BY <1>1, <1>4, OneMore
  <1>13. IsSequence(b) /\ Len(b) = n + 1 /\ b[n + 1] = r /\ \A k \in 1..n : b[k] = u[k]
    BY <1>2, <1>12
  <1>14. /\ IsSequence(b) /\ Len(b) = Len(a) + 1
         /\ Making(b[Len(b)]) /\ Takes(b[Len(b)]) = 0
         /\ \A k \in 1..Len(a) : Making(b[k]) /\ Takes(b[k]) = 2
    BY <1>1, <1>3, <1>5, <1>9, <1>13
  <1>15. Left(e) \in {"any", "nothing"}
    BY DEF Left
  <1>16. Chain(PlanOf(a, b), Len(a) + Len(b), s, t, L)
    BY <1>11, <1>14, <1>15, RecordChain, Zenon
  <1> QED BY <1>16 DEF a, b

-----------------------------------------------------------------------------
(***************************************************************************)
(* The plan has shapes before it is compiled, and each step of the         *)
(* compiler finds shapes for what it puts in.                              *)
(***************************************************************************)
Laid == \E S, L : Shaped(Plan, Extent, S, L, labels)

LEMMA PlanKinds ==
  ASSUME Linkage
  PROVE  Extent \in Nat /\ Kinds(Plan, Extent)
  <1>1. PICK m \in Nat, n \in Nat : m = Len(work) /\ n = Len(out)
    BY DEF Linkage, IsSequence
  <1>2. Plan = [k \in 1..(m + n) |-> IF k <= m THEN work[k] ELSE IrItem(out[m + n + 1 - k])]
    BY <1>1 DEF Plan, PlanOf
  <1>3. ASSUME NEW k \in 1..(m + n)
        PROVE  Plan[k].what \in {"expr", "ir"}
    <2>1. CASE k <= m
      <3>1. Plan[k] = work[k] /\ IsItem(work[k])
        BY <1>1, <1>2, <2>1 DEF Linkage, AreItems
      <3> QED BY <3>1 DEF IsItem, IrItem, ExprItem
    <2>2. CASE k > m
      <3>1. Plan[k] = IrItem(out[m + n + 1 - k])
        BY <1>2, <2>2
      <3> QED BY <3>1 DEF IrItem
    <2> QED BY <2>1, <2>2
  <1> QED BY <1>1, <1>3 DEF Kinds, Extent

LEMMA TopLeads ==
  ASSUME Linkage, NEW e, work # <<>>, work[Len(work)] = ExprItem(e),
         NEW S, NEW L, Shaped(Plan, Extent, S, L, labels)
  PROVE  /\ S[Len(work)] \in Shape /\ S[Len(work) + 1] \in Shape
         /\ Leads(S[Len(work)], 0, Left(e), S[Len(work) + 1])
  <1>1. Extent \in Nat /\ Len(work) \in 1..Extent /\ Plan[Len(work)] = ExprItem(e)
    BY TopInPlan
  <1>2. Len(work) \in 1..(Extent + 1) /\ Len(work) + 1 \in 1..(Extent + 1)
    BY <1>1
  <1>3. S[Len(work)] \in Shape /\ S[Len(work) + 1] \in Shape
    BY <1>2 DEF Shaped
  <1>4. Steps(ExprItem(e), S[Len(work)], S[Len(work) + 1], L)
    BY <1>1 DEF Shaped
  <1> QED BY <1>3, <1>4 DEF Steps, ExprItem

LEMMA CompilesShapes ==
  ASSUME Linkage, NEW e, NEW a, NEW b, NEW m \in Nat, Compiles(e, a, b, m),
         NEW S, NEW L, Shaped(Plan, Extent, S, L, labels),
         NEW L2 \in [1..(labels + m) -> Shape], SameLabels(L, L2, labels),
         Chain(PlanOf(a, b), Len(a) + Len(b), S[Len(work)], S[Len(work) + 1], L2)
  PROVE  Laid'
  <1>1. work # <<>> /\ IsSequence(a) /\ IsSequence(b) /\ Replaced(a, b) /\ labels' = labels + m
    BY DEF Compiles
  <1>2. Extent \in Nat /\ Len(work) \in 1..Extent /\ Kinds(Plan, Extent)
    BY <1>1, TopInPlan, PlanKinds
  <1>3. Len(a) + Len(b) \in Nat /\ labels \in Nat /\ labels + m \in Nat /\ labels <= labels + m
    BY <1>1 DEF IsSequence, Linkage
  <1>4. Linked(Plan, Extent, 1, labels)
    BY DEF Linkage
  <1>5. PICK S2 : Shaped(Splice(Plan, Extent, Len(work), PlanOf(a, b), Len(a) + Len(b)),
                         Extent - 1 + (Len(a) + Len(b)), S2, L2, labels + m)
    BY <1>2, <1>3, <1>4, SpliceShapes, Zenon
  <1>6. /\ Extent' = Extent - 1 + (Len(a) + Len(b))
        /\ Plan' = Splice(Plan, Extent, Len(work), PlanOf(a, b), Len(a) + Len(b))
    BY <1>1 DEF Replaced, IsSplice, Plan, Extent
  <1>7. Shaped(Plan', Extent', S2, L2, labels')
    BY <1>1, <1>5, <1>6, Zenon
  <1> QED BY <1>7 DEF Laid

\* Without labels of its own, whatever is at labels, what it is compiled to leads on.
LEMMA CompilesStraight ==
  ASSUME Linkage, Laid, NEW e, NEW a, NEW b, Compiles(e, a, b, 0),
         \A s, t \in Shape : \A L :
           Leads(s, 0, Left(e), t) => Chain(PlanOf(a, b), Len(a) + Len(b), s, t, L)
  PROVE  Laid'
  <1>1. PICK S, L : Shaped(Plan, Extent, S, L, labels)
    BY DEF Laid
  <1>2. work # <<>> /\ work[Len(work)] = ExprItem(e)
    BY DEF Compiles
  <1>3. /\ S[Len(work)] \in Shape /\ S[Len(work) + 1] \in Shape
        /\ Leads(S[Len(work)], 0, Left(e), S[Len(work) + 1])
    BY <1>1, <1>2, TopLeads, Zenon
  <1>4. Chain(PlanOf(a, b), Len(a) + Len(b), S[Len(work)], S[Len(work) + 1], L)
    BY <1>3
  <1>5. L \in [1..(labels + 0) -> Shape] /\ SameLabels(L, L, labels) /\ 0 \in Nat
    <2>1. labels + 0 = labels
      BY DEF Linkage
    <2> QED BY <1>1, <2>1 DEF Shaped, SameLabels
  <1> QED BY <1>1, <1>4, <1>5, CompilesShapes, Zenon

LEMMA TwoMore ==
  ASSUME NEW m \in Nat, NEW L \in [1..m -> Shape], NEW x \in Shape, NEW y \in Shape
  PROVE  \E L2 \in [1..(m + 2) -> Shape] : SameLabels(L, L2, m) /\ L2[m + 1] = x /\ L2[m + 2] = y
  <1> DEFINE L2 == [l \in 1..(m + 2) |-> IF l <= m THEN L[l] ELSE IF l = m + 1 THEN x ELSE y]
  <1>1. L2 \in [1..(m + 2) -> Shape]
    BY DEF Shape
  <1>2. SameLabels(L, L2, m) /\ L2[m + 1] = x /\ L2[m + 2] = y
    BY DEF SameLabels
  <1> QED BY <1>1, <1>2

\* With two labels, for which there are shapes.
LEMMA CompilesLabelled ==
  ASSUME Linkage, Laid, NEW e, NEW a, Compiles(e, a, <<>>, 2),
         \A s, t \in Shape :
           Leads(s, 0, Left(e), t) =>
             \E x \in Shape, y \in Shape :
               \A L : L[labels + 1] = x /\ L[labels + 2] = y => Chain(PlanOf(a, <<>>), Len(a) + Len(<<>>), s, t, L)
  PROVE  Laid'
  <1>1. PICK S, L : Shaped(Plan, Extent, S, L, labels)
    BY DEF Laid
  <1>2. work # <<>> /\ work[Len(work)] = ExprItem(e)
    BY DEF Compiles
  <1>3. /\ S[Len(work)] \in Shape /\ S[Len(work) + 1] \in Shape
        /\ Leads(S[Len(work)], 0, Left(e), S[Len(work) + 1])
    BY <1>1, <1>2, TopLeads, Zenon
  <1>4. PICK x \in Shape, y \in Shape :
               \A K : K[labels + 1] = x /\ K[labels + 2] = y =>
                        Chain(PlanOf(a, <<>>), Len(a) + Len(<<>>), S[Len(work)], S[Len(work) + 1], K)
    BY <1>3, Zenon
  <1>5. PICK L2 \in [1..(labels + 2) -> Shape] : SameLabels(L, L2, labels) /\ L2[labels + 1] = x /\ L2[labels + 2] = y
    <2>1. labels \in Nat /\ L \in [1..labels -> Shape]
      BY <1>1 DEF Linkage, Shaped
    <2> QED BY <2>1, TwoMore
  <1>6. Chain(PlanOf(a, <<>>), Len(a) + Len(<<>>), S[Len(work)], S[Len(work) + 1], L2)
    BY <1>4, <1>5, Zenon
  <1>7. 2 \in Nat
    OBVIOUS
  <1> QED BY <1>1, <1>5, <1>6, <1>7, CompilesShapes, Zenon

LEMMA StartsLaid == CInit => Laid
  <1> SUFFICES ASSUME CInit PROVE Laid
    OBVIOUS
  <1> DEFINE item == ExprItem(source)
             S == [k \in 1..2 |-> <<>>]
             L == [l \in 1..0 |-> <<>>]
  <1>1. work = <<item>> /\ out = <<>> /\ labels = 0
    BY DEF CInit, ExprItem
  <1>2. item = ExprItem(source)
    OBVIOUS
  <1>3. <<>> \in Shape
    BY DEF Shape
  <1>4. S \in [1..(1 + 1) -> Shape] /\ L \in [1..0 -> Shape] /\ S[1] = <<>> /\ S[1 + 1] = <<>>
    BY <1>3
  <1> HIDE DEF item, S, L
  <1>5. Extent = 1 /\ Plan[1] = item
    BY <1>1 DEF Extent, Plan, PlanOf
  <1>6. Steps(item, <<>>, <<>>, L)
    <2>1. Leads(<<>>, 0, Left(source), <<>>)
      BY <1>3, LeavesOver, Zenon
    <2> QED BY <1>2, <2>1, StepsItem, Zenon
  <1>7. \A k \in 1..1 : Steps(Plan[k], S[k], S[k + 1], L)
    <2>1. Steps(Plan[1], S[1], S[1 + 1], L)
      BY <1>4, <1>5, <1>6
    <2>2. \A k \in 1..1 : k = 1
      OBVIOUS
    <2> QED BY <2>1, <2>2
  <1>8. Under(<<>>, S[1])
    BY <1>3, <1>4, UnderItself
  <1> QED BY <1>1, <1>4, <1>5, <1>7, <1>8 DEF Laid, Shaped

LEMMA StaysLaid == Linkage /\ Laid /\ [CNext]_cvars => Laid'
  <1> SUFFICES ASSUME Linkage, Laid, [CNext]_cvars PROVE Laid'
    OBVIOUS
  <1>0. ASSUME Plan' = Plan, Extent' = Extent, labels' = labels
        PROVE  Laid'
    BY <1>0 DEF Laid
  <1>1. CASE WriteInstruction
    BY <1>0, <1>1, Writing DEF WriteInstruction
  <1>2. CASE LowerOperands
    <2>1. Top \in Exprs /\ Top.form \in OperandForms /\ Compiles(Top, Operands(Top), Own(Top), 0)
      BY <1>2, OperandsCompile
    <2>2. \A s, t \in Shape : \A L :
            Leads(s, 0, Left(Top), t) =>
              Chain(PlanOf(Operands(Top), Own(Top)), Len(Operands(Top)) + Len(Own(Top)), s, t, L)
      BY <2>1, OwnChain, Zenon
    <2> QED BY <2>1, <2>2, CompilesStraight, Zenon
  <1>3. CASE LowerBlock
    <2>1. Top \in Exprs /\ Top.form = "block" /\ Compiles(Top, InOrder(Top), <<>>, 0)
      BY <1>3, BlockCompiles
    <2>2. \A s, t \in Shape : \A L :
            Leads(s, 0, Left(Top), t) =>
              Chain(PlanOf(InOrder(Top), <<>>), Len(InOrder(Top)) + Len(<<>>), s, t, L)
      BY <2>1, BlockChain, Zenon
    <2> QED BY <2>1, <2>2, CompilesStraight, Zenon
  <1>4. CASE LowerStanding
    <2> DEFINE a == <<ExprItem(Standing(Top))>>
    <2>1. Top \in Exprs /\ Top.form \in StandingForms /\ Standing(Top) # NoExpr /\ Compiles(Top, a, <<>>, 0)
      BY <1>4, StandingCompiles
    <2>2. \A s, t \in Shape : \A L :
            Leads(s, 0, Left(Top), t) => Chain(PlanOf(a, <<>>), Len(a) + Len(<<>>), s, t, L)
      BY <2>1, StandingChain, Zenon
    <2> QED BY <2>1, <2>2, CompilesStraight, Zenon
  <1>5. CASE Reject
    BY <1>0, <1>5 DEF Reject, Plan, Extent
  <1>6. CASE LowerIf
    <2> DEFINE a == Choice(Top, labels + 1, labels + 2)
    <2>1. Top \in Exprs /\ Top.form = "cond" /\ labels \in Nat /\ Compiles(Top, a, <<>>, 2)
      BY <1>6, ChoiceCompiles
    <2>2. \A s, t \in Shape :
            Leads(s, 0, Left(Top), t) =>
              \A L : L[labels + 1] = s /\ L[labels + 2] = t =>
                       Chain(PlanOf(a, <<>>), Len(a) + Len(<<>>), s, t, L)
      BY <2>1, ChoiceChain, Zenon
    <2> HIDE DEF a
    <2>3. ASSUME NEW s \in Shape, NEW t \in Shape, Leads(s, 0, Left(Top), t)
          PROVE  \E x \in Shape, y \in Shape :
                   \A L : L[labels + 1] = x /\ L[labels + 2] = y =>
                            Chain(PlanOf(a, <<>>), Len(a) + Len(<<>>), s, t, L)
      BY <2>2, <2>3, Zenon
    <2> QED BY <2>1, <2>3, CompilesLabelled, Zenon
  <1>7. CASE LowerRange
    <2>1. Top \in Exprs /\ Top.form \in {"range", "range-from"} /\ Compiles(Top, Bounds(Top), RangeOwn(Top), 0)
      BY <1>7, RangeCompiles
    <2>2. \A s, t \in Shape : \A L :
            Leads(s, 0, Left(Top), t) =>
              Chain(PlanOf(Bounds(Top), RangeOwn(Top)), Len(Bounds(Top)) + Len(RangeOwn(Top)), s, t, L)
      BY <2>1, RangeChain, Zenon
    <2> QED BY <2>1, <2>2, CompilesStraight, Zenon
  <1>8. CASE LowerFor
    <2> DEFINE a == Comprehension(Top, labels + 1, labels + 2)
    <2>1. Top \in Exprs /\ Top.form = "for" /\ labels \in Nat /\ Compiles(Top, a, <<>>, 2)
      BY <1>8, ComprehensionCompiles
    <2>2. ASSUME NEW s \in Shape, NEW t \in Shape, Leads(s, 0, Left(Top), t)
          PROVE  \E x \in Shape, y \in Shape :
                   \A L : L[labels + 1] = x /\ L[labels + 2] = y =>
                            Chain(PlanOf(a, <<>>), Len(a) + Len(<<>>), s, t, L)
      <3> DEFINE x == Append(Append(s, "iterator"), "sink")
      <3>1. x \in Shape
        BY DEF Shape
      <3>2. \A L : L[labels + 1] = x /\ L[labels + 2] = x => Chain(PlanOf(a, <<>>), Len(a) + Len(<<>>), s, t, L)
        BY <2>1, <2>2, ComprehensionChain, Zenon
      <3> HIDE DEF x, a
      <3> QED BY <3>1, <3>2, Zenon
    <2> HIDE DEF a
    <2> QED BY <2>1, <2>2, CompilesLabelled, Zenon
  <1>9. CASE LowerReduce
    <2> DEFINE a == Reduction(Top, labels + 1, labels + 2)
    <2>1. Top \in Exprs /\ Top.form = "reduce" /\ labels \in Nat /\ Compiles(Top, a, <<>>, 2)
      BY <1>9, ReductionCompiles
    <2>2. ASSUME NEW s \in Shape, NEW t \in Shape, Leads(s, 0, Left(Top), t)
          PROVE  \E x \in Shape, y \in Shape :
                   \A L : L[labels + 1] = x /\ L[labels + 2] = y =>
                            Chain(PlanOf(a, <<>>), Len(a) + Len(<<>>), s, t, L)
      <3> DEFINE x == Append(s, "iterator")
      <3>1. x \in Shape
        BY DEF Shape
      <3>2. \A L : L[labels + 1] = x /\ L[labels + 2] = x => Chain(PlanOf(a, <<>>), Len(a) + Len(<<>>), s, t, L)
        BY <2>1, <2>2, ReductionChain, Zenon
      <3> HIDE DEF x, a
      <3> QED BY <3>1, <3>2, Zenon
    <2> HIDE DEF a
    <2> QED BY <2>1, <2>2, CompilesLabelled, Zenon
  <1>10. CASE Compiled
    BY <1>0, <1>10 DEF Compiled, Plan, Extent
  <1>11. CASE UNCHANGED cvars
    BY <1>0, <1>11 DEF cvars, Plan, Extent
  <1> QED
    BY <1>1, <1>2, <1>3, <1>4, <1>5, <1>6, <1>7, <1>8, <1>9, <1>10, <1>11 DEF CNext

-----------------------------------------------------------------------------
(***************************************************************************)
(* The stack of the interpreter has a shape when its elements are there,   *)
(* in that order, whatever is left between them: the first m elements of s *)
(* are among the first w of q.                                             *)
(***************************************************************************)
Embeds(f, m, w) ==
  /\ f \in [1..m -> 1..w]
  /\ \A i, j \in 1..m : i <= j => f[j] - f[i] >= j - i

Fits(q, w, s, m) ==
  \E f : /\ Embeds(f, m, w)
         /\ \A i \in 1..m : s[i] # "any" => Kind(q[f[i]]) = s[i]

LEMMA FitsNothing ==
  ASSUME NEW q, NEW w, NEW s
  PROVE  Fits(q, w, s, 0)
  <1> DEFINE f == [i \in 1..0 |-> 0]
  <1>1. Embeds(f, 0, w)
    BY DEF Embeds
  <1>2. \A i \in 1..0 : s[i] # "any" => Kind(q[f[i]]) = s[i]
    OBVIOUS
  <1> QED BY <1>1, <1>2 DEF Fits

LEMMA FitsLess ==
  ASSUME NEW q, NEW w \in Nat, NEW s, NEW m \in Nat, NEW n \in 0..m, Fits(q, w, s, m)
  PROVE  w - n \in Nat /\ Fits(q, w - n, s, m - n)
  <1>1. PICK f : /\ Embeds(f, m, w)
                 /\ \A i \in 1..m : s[i] # "any" => Kind(q[f[i]]) = s[i]
    BY DEF Fits
  <1>2. ASSUME NEW i \in 1..m
        PROVE  f[i] \in 1..w /\ f[i] <= w - m + i /\ i <= f[i]
    <2>1. f[i] \in 1..w /\ f[m] \in 1..w /\ f[1] \in 1..w /\ f[m] - f[i] >= m - i /\ f[i] - f[1] >= i - 1
      BY <1>1 DEF Embeds
    <2> QED BY <2>1
  <1>3. w >= m
    <2>1. CASE m = 0
      BY <2>1
    <2>2. CASE m > 0
      <3>1. m \in 1..m
        BY <2>2
      <3> QED BY <1>2, <3>1
    <2> QED BY <2>1, <2>2
  <1> DEFINE g == [i \in 1..(m - n) |-> f[i]]
  <1>4. \A i \in 1..(m - n) : i \in 1..m /\ f[i] \in 1..(w - n)
    BY <1>2, <1>3
  <1>5. g \in [1..(m - n) -> 1..(w - n)] /\ \A i \in 1..(m - n) : g[i] = f[i]
    BY <1>4
  <1> HIDE DEF g
  <1>6. Embeds(g, m - n, w - n)
    BY <1>1, <1>4, <1>5 DEF Embeds
  <1>7. \A i \in 1..(m - n) : s[i] # "any" => Kind(q[g[i]]) = s[i]
    BY <1>1, <1>4, <1>5
  <1> QED BY <1>3, <1>6, <1>7 DEF Fits

\* What is above the last element of a kind holds none of that kind.
LEMMA FitsMark ==
  ASSUME NEW q, NEW w \in Nat, NEW s, NEW m \in Nat, m > 0, s[m] # "any", Fits(q, w, s, m),
         NEW v \in 0..w, \A k \in (v + 1)..w : Kind(q[k]) # s[m]
  PROVE  Fits(q, v, s, m)
  <1>1. PICK f : /\ Embeds(f, m, w)
                 /\ \A i \in 1..m : s[i] # "any" => Kind(q[f[i]]) = s[i]
    BY DEF Fits
  <1>2. f[m] \in 1..w /\ Kind(q[f[m]]) = s[m]
    <2>1. m \in 1..m
      OBVIOUS
    <2> QED BY <1>1, <2>1 DEF Embeds
  <1>3. f[m] <= v
    <2>1. f[m] \notin (v + 1)..w
      BY <1>2
    <2> QED BY <1>2, <2>1
  <1>4. ASSUME NEW i \in 1..m
        PROVE  f[i] \in 1..v
    <2>1. f[i] \in 1..w /\ f[m] - f[i] >= m - i
      BY <1>1 DEF Embeds
    <2> QED BY <1>2, <1>3, <2>1
  <1>5. Embeds(f, m, v)
    BY <1>1, <1>4 DEF Embeds
  <1> QED BY <1>1, <1>5 DEF Fits

\* A mark is there, and where the last of its kind is.
LEMMA FitsFinds ==
  ASSUME NEW q, NEW w \in Nat, NEW s, NEW m \in Nat, m > 0, s[m] # "any", Fits(q, w, s, m)
  PROVE  \E k \in 1..w : Kind(q[k]) = s[m]
  <1>1. PICK f : /\ Embeds(f, m, w)
                 /\ \A i \in 1..m : s[i] # "any" => Kind(q[f[i]]) = s[i]
    BY DEF Fits
  <1>2. m \in 1..m
    OBVIOUS
  <1>3. f[m] \in 1..w /\ Kind(q[f[m]]) = s[m]
    BY <1>1, <1>2 DEF Embeds
  <1> QED BY <1>3

SameKinds(q, q2, w) == \A k \in 1..w : Kind(q2[k]) = Kind(q[k])

(***************************************************************************)
(* An instruction goes from a stack of the shape before it to one of the   *)
(* shape after it.                                                         *)
(***************************************************************************)
LEMMA FitsStep ==
  ASSUME NEW s \in Shape, NEW t \in Shape, NEW n, NEW c, Leads(s, n, c, t),
         NEW q, NEW w \in Nat, Fits(q, w, s, Len(s) - n),
         NEW q2, NEW w2 \in Nat, w <= w2, SameKinds(q, q2, w),
         c = "nothing" \/ (w < w2 /\ (c = "any" \/ Kind(q2[w2]) = c))
  PROVE  Fits(q2, w2, t, Len(t))
  <1>1. PICK m \in Nat : m = Len(s) - n
    <2>1. Len(s) \in Nat /\ n \in 0..Len(s)
      BY DEF Leads, Shape
    <2>2. Len(s) - n \in Nat
      BY <2>1
    <2> QED BY <2>2
  <1>2. PICK p \in Nat : p = Len(t)
    BY DEF Shape
  <1>3. /\ p <= m + (IF c = "nothing" THEN 0 ELSE 1)
        /\ \A k \in 1..p : t[k] # "any" => (k <= m /\ t[k] = s[k]) \/ (k = m + 1 /\ t[k] = c)
    BY <1>1, <1>2 DEF Leads
  <1>4. PICK f : /\ Embeds(f, m, w)
                 /\ \A i \in 1..m : s[i] # "any" => Kind(q[f[i]]) = s[i]
    BY <1>1 DEF Fits
  <1> DEFINE g == [i \in 1..p |-> IF i <= m THEN f[i] ELSE w2]
  <1>5. \A i \in 1..p : /\ i <= m => i \in 1..m /\ f[i] \in 1..w /\ f[i] \in 1..w2
                        /\ i > m => i = m + 1 /\ w < w2 /\ w2 \in 1..w2
    <2>1. ASSUME NEW i \in 1..p, i <= m
          PROVE  i \in 1..m /\ f[i] \in 1..w /\ f[i] \in 1..w2
      <3>1. i \in 1..m
        BY <2>1
      <3>2. f[i] \in 1..w
        BY <1>4, <3>1 DEF Embeds
      <3> QED BY <3>1, <3>2
    <2>2. ASSUME NEW i \in 1..p, i > m
          PROVE  i = m + 1 /\ w < w2 /\ w2 \in 1..w2
      <3>1. c # "nothing"
        BY <1>3, <2>2
      <3>2. p <= m + 1 /\ w < w2
        BY <1>3, <3>1
      <3> QED BY <2>2, <3>2
    <2> QED BY <2>1, <2>2
  <1>6. g \in [1..p -> 1..w2]
    BY <1>5
  <1>7. \A i \in 1..p : (i <= m => g[i] = f[i]) /\ (i > m => g[i] = w2)
    OBVIOUS
  <1> HIDE DEF g
  <1>8. ASSUME NEW i \in 1..p, NEW j \in 1..p, i <= j
        PROVE  g[j] - g[i] >= j - i
    <2>1. CASE j <= m
      BY <1>4, <1>5, <1>7, <1>8, <2>1 DEF Embeds
    <2>2. CASE i <= m /\ j > m
      <3>1. i \in 1..m /\ m \in 1..m /\ f[i] \in 1..w /\ f[m] \in 1..w /\ f[m] - f[i] >= m - i
        BY <1>4, <2>2 DEF Embeds
      <3>2. j = m + 1 /\ w < w2 /\ g[j] = w2 /\ g[i] = f[i]
        BY <1>5, <1>7, <2>2
      <3> QED BY <3>1, <3>2
    <2>3. CASE i > m /\ j > m
      BY <1>5, <1>7, <1>8, <2>3
    <2> QED BY <1>8, <2>1, <2>2, <2>3
  <1>9. ASSUME NEW i \in 1..p, t[i] # "any"
        PROVE  Kind(q2[g[i]]) = t[i]
    <2>1. CASE i <= m
      <3>1. i \in 1..m /\ f[i] \in 1..w /\ g[i] = f[i] /\ t[i] = s[i]
        BY <1>3, <1>5, <1>7, <1>9, <2>1
      <3> QED BY <1>4, <1>9, <3>1 DEF SameKinds
    <2>2. CASE i > m
      <3>1. g[i] = w2 /\ t[i] = c /\ c # "nothing"
        BY <1>3, <1>7, <1>9, <2>2
      <3> QED BY <1>9, <3>1
    <2> QED BY <2>1, <2>2
  <1>10. Embeds(g, p, w2)
    BY <1>6, <1>8 DEF Embeds
  <1> QED BY <1>2, <1>9, <1>10 DEF Fits

LEMMA LastOf ==
  ASSUME NEW n \in Nat, NEW A, A \subseteq 1..n, A # {}
  PROVE  \E k \in A : \A j \in A : j <= k
  <1> DEFINE R == OpToRel(<, Nat)
             T == {n - k : k \in A}
  <1>1. T \subseteq Nat /\ T # {}
    <2>1. PICK k \in A : TRUE
      OBVIOUS
    <2>2. n - k \in T
      BY <2>1
    <2>3. \A j \in A : n - j \in Nat
      OBVIOUS
    <2> QED BY <2>2, <2>3
  <1>2. IsWellFoundedOn(R, Nat)
    BY NatLessThanWellFounded
  <1>3. R = {p \in Nat \X Nat : p[1] < p[2]}
    BY DEF OpToRel
  <1> HIDE DEF R, T
  <1>4. PICK t \in T : \A u \in T : ~ (<<u, t>> \in R)
    BY <1>1, <1>2, WFMin
  <1>5. PICK k \in A : t = n - k
    BY DEF T
  <1>6. \A j \in A : ~ (n - j < n - k)
    BY <1>1, <1>3, <1>4, <1>5 DEF T
  <1> QED BY <1>5, <1>6

LEMMA TopSinkIsLast ==
  ASSUME NEW q, Len(q) \in Nat, \E k \in 1..Len(q) : Kind(q[k]) = "sink"
  PROVE  /\ TopSink(q) \in 1..Len(q) /\ Kind(q[TopSink(q)]) = "sink"
         /\ \A j \in (TopSink(q) + 1)..Len(q) : Kind(q[j]) # "sink"
  <1> DEFINE A == {k \in 1..Len(q) : Kind(q[k]) = "sink"}
  <1>1. PICK k \in A : \A j \in A : j <= k
    BY LastOf
  <1>2. \A j \in (k + 1)..Len(q) : Kind(q[j]) # "sink"
    BY <1>1
  <1>3. \E i \in 1..Len(q) : Kind(q[i]) = "sink" /\ \A j \in (i + 1)..Len(q) : Kind(q[j]) # "sink"
    BY <1>1, <1>2
  <1> QED BY <1>3 DEF TopSink

-----------------------------------------------------------------------------
(***************************************************************************)
(* The invariant of a run: its code is the plan, and its stack has the     *)
(* shape that is before the instruction at the cursor.                     *)
(***************************************************************************)
Fitted ==
  \A S, L : Shaped(Plan, Extent, S, L, labels) => Fits(stack, Len(stack), S[pc], Len(S[pc]))

Loaded ==
  IF pc = 0
  THEN code = <<>> /\ stack = <<>>
  ELSE /\ verdict = "compiled" /\ code = CodeOf(out)
       /\ pc \in 1..(Len(out) + 1)
       /\ IsSequence(stack)
       /\ Fitted

\* The cursor is at an instruction.
AtWork == Linkage /\ Loaded /\ pc # 0 /\ pc \in DOMAIN code

\* A step to another instruction, or to the end.
Goes ==
  /\ code' = code
  /\ pc' \in 1..(Len(out) + 1)
  /\ IsSequence(stack')
  /\ \A S, L : Shaped(Plan, Extent, S, L, labels) => Fits(stack', Len(stack'), S[pc'], Len(S[pc']))

LEMMA CodeAt ==
  ASSUME Linkage, verdict = "compiled", code = CodeOf(out)
  PROVE  /\ Len(out) \in Nat /\ Extent = Len(out) /\ DOMAIN code = 1..Len(out)
         /\ \A k \in 1..Len(out) : Plan[k] = IrItem(code[k]) /\ code[k] = out[Len(out) + 1 - k]
  <1>1. PICK n \in Nat : /\ n = Len(out) /\ Extent = n
                         /\ Plan = [k \in 1..n |-> IrItem(out[n + 1 - k])]
    BY CompiledPlan
  <1>2. code = [k \in 1..n |-> out[n + 1 - k]]
    BY <1>1 DEF CodeOf
  <1> QED BY <1>1, <1>2

LEMMA BetweenAt ==
  ASSUME AtWork, NEW S, NEW L, Shaped(Plan, Extent, S, L, labels), NEW k \in 1..Len(out)
  PROVE  /\ S[k] \in Shape /\ S[k + 1] \in Shape
         /\ Between(code[k], S[k], S[k + 1], L)
         /\ code[k].op \in {"label", "jump", "jump-if-false"} => L[code[k].imm] \in Shape
  <1>1. PICK n \in Nat : /\ n = Len(out) /\ Extent = n
                         /\ \A j \in 1..n : Plan[j] = IrItem(code[j])
    BY CodeAt DEF AtWork, Loaded
  <1>2. k \in 1..(n + 1) /\ k + 1 \in 1..(n + 1) /\ k \in 1..n
    BY <1>1
  <1>3. S[k] \in Shape /\ S[k + 1] \in Shape
    BY <1>1, <1>2 DEF Shaped
  <1>4. Steps(IrItem(code[k]), S[k], S[k + 1], L)
    BY <1>1, <1>2 DEF Shaped
  <1>5. Between(code[k], S[k], S[k + 1], L)
    BY <1>4 DEF Steps, IrItem
  <1>6. code[k].op \in {"label", "jump", "jump-if-false"} => code[k].imm \in 1..labels
    <2>1. LabelsMade(Plan, n, 1, labels) /\ JumpsHaveLabels(Plan, n)
      BY <1>1 DEF AtWork, Linkage, Linked
    <2>2. HasLabel(Plan[k]) \/ HasJump(Plan[k]) => Plan[k].it.imm \in 1..labels
      BY <1>2, <2>1 DEF LabelsMade, JumpsHaveLabels
    <2>3. Plan[k].what = "ir" /\ Plan[k].it = code[k]
      <3>1. Plan[k] = IrItem(code[k])
        BY <1>1, <1>2
      <3> HIDE DEF Plan
      <3> QED BY <3>1 DEF IrItem
    <2> QED BY <2>2, <2>3 DEF HasLabel, HasJump, IsJump
  <1>7. code[k].op \in {"label", "jump", "jump-if-false"} => L[code[k].imm] \in Shape
    BY <1>6 DEF Shaped
  <1> QED BY <1>3, <1>5, <1>7

\* The instruction at the cursor, between the shape the stack has and the next.
LEMMA Here ==
  ASSUME AtWork, NEW S, NEW L, Shaped(Plan, Extent, S, L, labels)
  PROVE  /\ pc \in 1..Len(out) /\ pc + 1 \in 1..(Len(out) + 1) /\ Len(stack) \in Nat
         /\ S[pc] \in Shape /\ S[pc + 1] \in Shape
         /\ Between(code[pc], S[pc], S[pc + 1], L)
         /\ Fits(stack, Len(stack), S[pc], Len(S[pc])) /\ Len(S[pc]) \in Nat
         /\ Len(S[pc]) <= Len(stack)
  <1>1. pc \in 1..Len(out) /\ Len(out) \in Nat
    BY CodeAt DEF AtWork, Loaded
  <1>2. IsSequence(stack) /\ Fits(stack, Len(stack), S[pc], Len(S[pc]))
    BY DEF AtWork, Loaded, Fitted
  <1>3. S[pc] \in Shape /\ S[pc + 1] \in Shape /\ Between(code[pc], S[pc], S[pc + 1], L)
    BY <1>1, BetweenAt
  <1>4. PICK m \in Nat : m = Len(S[pc])
    BY <1>3 DEF Shape
  <1>5. PICK w \in Nat : w = Len(stack)
    BY <1>2 DEF IsSequence
  <1>6. w - m \in Nat
    <2>1. m \in 0..m /\ Fits(stack, w, S[pc], m)
      BY <1>2, <1>4, <1>5
    <2> QED BY <2>1, FitsLess
  <1> QED BY <1>1, <1>2, <1>3, <1>4, <1>5, <1>6

(***************************************************************************)
(* What most instructions do to the stack.                                 *)
(***************************************************************************)
Effect(i, z) ==
  /\ IsSequence(z)
  /\ Len(stack) - Uses(i) <= Len(z)
  /\ SameKinds(stack, z, Len(stack) - Uses(i))
  /\ Given(i) # "nothing" =>
       /\ Len(stack) - Uses(i) < Len(z)
       /\ Given(i) # "any" => Kind(z[Len(z)]) = Given(i)

LEMMA EffectFits ==
  ASSUME AtWork, NEW S, NEW L, Shaped(Plan, Extent, S, L, labels), NEW t \in Shape,
         Leads(S[pc], Uses(code[pc]), Given(code[pc]), t), NEW z, Effect(code[pc], z)
  PROVE  Fits(z, Len(z), t, Len(t))
  <1>1. PICK w \in Nat, s \in Shape : /\ w = Len(stack) /\ s = S[pc] /\ Len(s) \in Nat
                                      /\ Fits(stack, w, s, Len(s))
    BY Here
  <1>2. PICK n : n = Uses(code[pc]) /\ n \in 0..Len(s)
    BY <1>1 DEF Leads
  <1>3. w - n \in Nat /\ Fits(stack, w - n, s, Len(s) - n)
    BY <1>1, <1>2, FitsLess
  <1>4. PICK v \in Nat : v = Len(z)
    BY DEF Effect, IsSequence
  <1>5. /\ w - n <= v /\ SameKinds(stack, z, w - n)
        /\ Given(code[pc]) = "nothing" \/ (w - n < v /\ (Given(code[pc]) = "any" \/ Kind(z[v]) = Given(code[pc])))
    BY <1>1, <1>2, <1>4 DEF Effect
  <1>6. Leads(s, n, Given(code[pc]), t)
    BY <1>1, <1>2
  <1>7. Fits(z, v, t, Len(t))
    BY <1>3, <1>5, <1>6, FitsStep
  <1> QED BY <1>4, <1>7

LEMMA EffectGoes ==
  ASSUME AtWork, code[pc].op # "jump", Effect(code[pc], stack'), code' = code, pc' = pc + 1
  PROVE  Goes
  <1>1. pc \in 1..Len(out) /\ Len(out) \in Nat
    BY CodeAt DEF AtWork, Loaded
  <1>2. ASSUME NEW S, NEW L, Shaped(Plan, Extent, S, L, labels)
        PROVE  Fits(stack', Len(stack'), S[pc'], Len(S[pc']))
    <2>1. S[pc + 1] \in Shape /\ Between(code[pc], S[pc], S[pc + 1], L)
      BY <1>2, Here
    <2>2. Leads(S[pc], Uses(code[pc]), Given(code[pc]), S[pc + 1])
      BY <2>1 DEF Between
    <2>3. Fits(stack', Len(stack'), S[pc + 1], Len(S[pc + 1]))
      BY <1>2, <2>1, <2>2, EffectFits, Zenon
    <2> QED BY <2>3
  <1> QED BY <1>1, <1>2 DEF Goes, Effect

\* There is as much on the stack as the instruction uses.
LEMMA Enough ==
  ASSUME AtWork, Laid, code[pc].op # "jump"
  PROVE  Uses(code[pc]) \in 0..Len(stack) /\ Len(stack) \in Nat /\ IsSequence(stack)
  <1>1. PICK S, L : Shaped(Plan, Extent, S, L, labels)
    BY DEF Laid
  <1>2. /\ Between(code[pc], S[pc], S[pc + 1], L) /\ Len(S[pc]) <= Len(stack)
        /\ Len(stack) \in Nat /\ Len(S[pc]) \in Nat
    BY <1>1, Here
  <1>3. Uses(code[pc]) \in 0..Len(S[pc])
    BY <1>2 DEF Between, Leads
  <1> QED BY <1>2, <1>3 DEF AtWork, Loaded

-----------------------------------------------------------------------------
(***************************************************************************)
(* An instruction that takes what it uses, and puts one element there or   *)
(* nothing.                                                                *)
(***************************************************************************)
LEMMA Onto ==
  ASSUME IsSequence(stack), NEW n \in 0..Len(stack), NEW q, IsSequence(q)
  PROVE  /\ IsSequence(Below(n) \o q)
         /\ Extends(Below(n) \o q, stack, Len(stack) - n, q)
         /\ Len(stack) \in Nat /\ Len(q) \in Nat
  <1> DEFINE T == {stack[k] : k \in 1..Len(stack)}
             Q == {q[k] : k \in 1..Len(q)}
  <1>1. stack \in Seq(T) /\ q \in Seq(Q)
    BY DEF IsSequence
  <1> HIDE DEF T, Q
  <1>2. Len(stack) \in Nat /\ Len(q) \in Nat /\ Len(stack) - n \in 0..Len(stack)
    BY <1>1
  <1>3. Below(n) \in Seq(T) /\ Len(Below(n)) = Len(stack) - n /\ \A k \in 1..(Len(stack) - n) : Below(n)[k] = stack[k]
    BY <1>1, <1>2, Shortened, Zenon DEF Below
  <1>4. Below(n) \o q \in Seq(T \cup Q) /\ Extends(Below(n) \o q, Below(n), Len(Below(n)), q)
    BY <1>1, <1>3, Concatenated
  <1>5. Extends(Below(n) \o q, stack, Len(stack) - n, q)
    BY <1>3, <1>4 DEF Extends
  <1> QED BY <1>2, <1>4, <1>5, Sequences

LEMMA Alone ==
  ASSUME NEW v
  PROVE  IsSequence(<<v>>) /\ Len(<<v>>) = 1 /\ <<v>>[1] = v
  <1>1. <<v>> \in Seq({v})
    OBVIOUS
  <1> QED BY <1>1, Sequences

\* The top n of the stack give way to the elements of q.
Exchange(n, q) == stack' = Below(n) \o q /\ code' = code /\ pc' = pc + 1

LEMMA MakesOne ==
  ASSUME AtWork, Laid, code[pc].op # "jump", NEW v, Exchange(Uses(code[pc]), <<v>>),
         Given(code[pc]) \in {"any", Kind(v)}
  PROVE  Goes
  <1>1. PICK n : n = Uses(code[pc]) /\ n \in 0..Len(stack) /\ Len(stack) \in Nat /\ IsSequence(stack)
    BY Enough
  <1>2. PICK q : q = <<v>> /\ IsSequence(q) /\ Len(q) = 1 /\ q[1] = v
    BY Alone
  <1>3. IsSequence(Below(n) \o q) /\ Extends(Below(n) \o q, stack, Len(stack) - n, q)
    BY <1>1, <1>2, Onto
  <1>4. stack' = Below(n) \o q /\ code' = code /\ pc' = pc + 1
    BY <1>1, <1>2 DEF Exchange
  <1>5. PICK z : z = stack' /\ IsSequence(z) /\ Extends(z, stack, Len(stack) - n, q)
    BY <1>3, <1>4
  <1>6. Len(z) = Len(stack) - n + 1 /\ Kind(z[Len(z)]) = Kind(v) /\ SameKinds(stack, z, Len(stack) - n)
    <2>1. Len(z) = Len(stack) - n + 1 /\ \A k \in 1..(Len(stack) - n) : z[k] = stack[k]
      BY <1>2, <1>5 DEF Extends
    <2>2. Len(z) \in Int /\ Len(stack) - n < Len(z) /\ Len(z) <= Len(stack) - n + 1 /\ Len(z) - (Len(stack) - n) = 1
      <3>1. PICK W \in Nat : W = Len(stack)
        BY <1>1
      <3>2. n \in 0..W /\ Len(z) = W - n + 1
        BY <1>1, <2>1, <3>1
      <3> QED BY <3>1, <3>2
    <2>3. z[Len(z)] = q[1]
      BY <1>2, <1>5, <2>2 DEF Extends
    <2> QED BY <1>2, <2>1, <2>3 DEF SameKinds
  <1>7. Effect(code[pc], z)
    BY <1>1, <1>5, <1>6 DEF Effect
  <1> QED BY <1>4, <1>5, <1>7, EffectGoes, Zenon

LEMMA MakesNone ==
  ASSUME AtWork, Laid, code[pc].op # "jump", Exchange(Uses(code[pc]), <<>>), Given(code[pc]) = "nothing"
  PROVE  Goes
  <1>1. PICK n : n = Uses(code[pc]) /\ n \in 0..Len(stack) /\ Len(stack) \in Nat /\ IsSequence(stack)
    BY Enough
  <1>2. PICK q : q = <<>> /\ IsSequence(q) /\ Len(q) = 0
    BY ItemsOnly, <1>1
  <1>3. IsSequence(Below(n) \o q) /\ Extends(Below(n) \o q, stack, Len(stack) - n, q)
    BY <1>1, <1>2, Onto
  <1>4. stack' = Below(n) \o q /\ code' = code /\ pc' = pc + 1
    BY <1>1, <1>2 DEF Exchange
  <1>5. PICK z : z = stack' /\ IsSequence(z) /\ Extends(z, stack, Len(stack) - n, q)
    BY <1>3, <1>4
  <1>6. Len(z) = Len(stack) - n /\ SameKinds(stack, z, Len(stack) - n)
    BY <1>1, <1>2, <1>5 DEF Extends, SameKinds
  <1>7. Effect(code[pc], z)
    BY <1>1, <1>5, <1>6 DEF Effect
  <1> QED BY <1>4, <1>5, <1>7, EffectGoes, Zenon

LEMMA Dropped ==
  ASSUME IsSequence(stack), NEW n \in 0..Len(stack)
  PROVE  /\ Below(n) \o <<>> = Below(n)
         /\ \A v : Append(Below(n), v) = Below(n) \o <<v>>
         /\ Below(0) = stack
  <1> DEFINE T == {stack[k] : k \in 1..Len(stack)}
  <1>1. stack \in Seq(T)
    BY DEF IsSequence
  <1> HIDE DEF T
  <1>2. Below(n) \in Seq(T)
    <2>1. Len(stack) - n \in 0..Len(stack)
      BY <1>1
    <2> QED BY <1>1, <2>1, Shortened, Zenon DEF Below
  <1>3. PICK b \in Seq(T) : b = Below(n)
    BY <1>2
  <1>4. b \o <<>> = b
    OBVIOUS
  <1>5. \A v : Append(b, v) = b \o <<v>>
    OBVIOUS
  <1>6. Below(0) = stack
    BY <1>1 DEF Below
  <1> QED BY <1>3, <1>4, <1>5, <1>6

-----------------------------------------------------------------------------
(***************************************************************************)
(* Each action of the interpreter.                                         *)
(***************************************************************************)
LEMMA ValuesGo ==
  ASSUME AtWork, Laid,
         \/ Literal \/ Collection \/ Join \/ Wrap \/ Construct \/ PushEnum \/ CreateRecord \/ UpdateRecord
         \/ SelectField \/ SelectIndex \/ Deconstruct \/ GetTag \/ Size
         \/ Negate \/ Arithmetic \/ Comparison \/ Load \/ FunctionName
  PROVE  Goes
  <1>1. ASSUME NEW n, NEW v, Replace(n, <<v>>), n = Uses(code[pc]), Given(code[pc]) = "any", code[pc].op # "jump"
        PROVE  Goes
    <2>1. Exchange(n, <<v>>)
      BY <1>1 DEF Replace, Exchange
    <2> QED BY <1>1, <2>1, MakesOne, Zenon
  <1>2. CASE Literal
    <2>1. PICK v : Replace(0, <<v>>) /\ code[pc].op = "lit"
      BY <1>2 DEF Literal, At
    <2> QED BY <1>1, <2>1 DEF Uses, Takes, Given
  <1>3. CASE Collection
    <2>1. PICK v : Replace(code[pc].imm, <<v>>) /\ code[pc].op \in {"sequence", "tuple"}
      BY <1>3 DEF Collection, At, Imm
    <2> QED BY <1>1, <2>1 DEF Uses, Takes, Given
  <1>4. CASE Join
    <2>1. PICK v : Replace(code[pc].imm, <<v>>) /\ code[pc].op = "concat"
      BY <1>4 DEF Join, At, Imm
    <2> QED BY <1>1, <2>1 DEF Uses, Takes, Given
  <1>5. CASE Wrap
    <2>1. PICK v : Replace(1, <<v>>) /\ code[pc].op \in {"some", "ok", "err"}
      BY <1>5 DEF Wrap, At
    <2> QED BY <1>1, <2>1 DEF Uses, Takes, Given
  <1>6. CASE Construct
    <2>1. PICK v : Replace(code[pc].imm[2], <<v>>) /\ code[pc].op = "variant"
      BY <1>6 DEF Construct, At, Imm
    <2> QED BY <1>1, <2>1 DEF Uses, Takes, Given
  <1>7. CASE PushEnum \/ CreateRecord
    <2>1. PICK v : Replace(0, <<v>>) /\ code[pc].op \in {"enum", "create-record"}
      BY <1>7 DEF PushEnum, CreateRecord, At
    <2> QED BY <1>1, <2>1 DEF Uses, Takes, Given
  <1>8. CASE UpdateRecord
    <2>1. PICK v : Replace(2, <<v>>) /\ code[pc].op = "update-record"
      BY <1>8 DEF UpdateRecord, At
    <2> QED BY <1>1, <2>1 DEF Uses, Takes, Given
  <1>9. CASE SelectIndex \/ Arithmetic \/ Comparison
    <2>1. PICK v : Replace(2, <<v>>) /\ code[pc].op \in {"select-index", "math", "compare"}
      BY <1>9 DEF SelectIndex, Arithmetic, Comparison, At
    <2> QED BY <1>1, <2>1 DEF Uses, Takes, Given
  <1>10. CASE SelectField \/ Deconstruct \/ GetTag \/ Size \/ Negate
    <2>1. PICK v : Replace(1, <<v>>) /\ code[pc].op \in {"select-field", "unwrap", "get-tag", "length", "not"}
      BY <1>10 DEF SelectField, Deconstruct, GetTag, Size, Negate, At
    <2> QED BY <1>1, <2>1 DEF Uses, Takes, Given
  <1>11. CASE Load \/ FunctionName
    <2>1. PICK v : Replace(0, <<v>>) /\ code[pc].op \in {"load", "function-name"}
      BY <1>11 DEF Load, FunctionName, At
    <2> QED BY <1>1, <2>1 DEF Uses, Takes, Given
  <1> QED BY <1>2, <1>3, <1>4, <1>5, <1>6, <1>7, <1>8, <1>9, <1>10, <1>11

LEMMA CallsGo ==
  ASSUME AtWork, Laid, Invoke \/ GenerateWorkerName
  PROVE  Goes
  <1>1. CASE Invoke
    <2>1. PICK v : /\ stack' = Append(Below(code[pc].imm.args + 1), v) /\ code[pc].op = "invoke"
                   /\ pc' = pc + 1 /\ UNCHANGED <<code, env, names, outcome>>
      BY <1>1 DEF Invoke, At, Imm
    <2>2. Uses(code[pc]) = code[pc].imm.args + 1 /\ Given(code[pc]) = "any"
      BY <2>1 DEF Uses, Takes, Given
    <2>3. PICK n : n = code[pc].imm.args + 1 /\ n \in 0..Len(stack) /\ IsSequence(stack)
      BY <2>1, <2>2, Enough
    <2>4. Exchange(n, <<v>>)
      BY <2>1, <2>3, Dropped DEF Exchange
    <2> QED BY <2>1, <2>2, <2>3, <2>4, MakesOne
  <1>2. CASE GenerateWorkerName
    <2>1. PICK v : /\ stack' = Append(stack, v) /\ code[pc].op = "worker-name"
                   /\ pc' = pc + 1 /\ code' = code
      BY <1>2 DEF GenerateWorkerName, At
    <2>2. Uses(code[pc]) = 0 /\ Given(code[pc]) = "any"
      BY <2>1 DEF Uses, Takes, Given
    <2>3. 0 \in 0..Len(stack) /\ IsSequence(stack)
      BY <2>1, <2>2, Enough
    <2>4. Exchange(0, <<v>>)
      BY <2>1, <2>3, Dropped DEF Exchange
    <2> QED BY <2>1, <2>2, <2>4, MakesOne
  <1> QED BY <1>1, <1>2

LEMMA VariablesGo ==
  ASSUME AtWork, Laid, Skip \/ Assign \/ ToIterator \/ CreateSink
  PROVE  Goes
  <1>1. CASE Skip
    <2>1. Exchange(0, <<>>) /\ code[pc].op = "label"
      BY <1>1 DEF Skip, At, Replace, Exchange
    <2>2. Uses(code[pc]) = 0 /\ Given(code[pc]) = "nothing"
      BY <2>1 DEF Uses, Takes, Given
    <2> QED BY <2>1, <2>2, MakesNone
  <1>2. CASE Assign
    <2>1. stack' = Below(1) /\ code' = code /\ pc' = pc + 1 /\ code[pc].op = "assign"
      BY <1>2 DEF Assign, At
    <2>2. Uses(code[pc]) = 1 /\ Given(code[pc]) = "nothing"
      BY <2>1 DEF Uses, Takes, Given
    <2>3. 1 \in 0..Len(stack) /\ IsSequence(stack)
      BY <2>1, <2>2, Enough
    <2>4. Exchange(1, <<>>)
      BY <2>1, <2>3, Dropped DEF Exchange
    <2> QED BY <2>1, <2>2, <2>4, MakesNone
  <1>3. CASE ToIterator
    <2>1. PICK v : Replace(1, <<Iterator(v)>>) /\ code[pc].op = "to-iterator"
      BY <1>3 DEF ToIterator, At
    <2>2. Uses(code[pc]) = 1 /\ Given(code[pc]) = Kind(Iterator(v))
      BY <2>1 DEF Uses, Takes, Given, Kind, Iterator
    <2>3. Exchange(1, <<Iterator(v)>>)
      BY <2>1 DEF Replace, Exchange
    <2> QED BY <2>1, <2>2, <2>3, MakesOne
  <1>4. CASE CreateSink
    <2>1. Replace(0, <<Sink(<<>>)>>) /\ code[pc].op = "create-sink"
      BY <1>4 DEF CreateSink, At
    <2>2. Uses(code[pc]) = 0 /\ Given(code[pc]) = Kind(Sink(<<>>))
      BY <2>1 DEF Uses, Takes, Given, Kind, Sink
    <2>3. Exchange(0, <<Sink(<<>>)>>)
      BY <2>1 DEF Replace, Exchange
    <2> QED BY <2>1, <2>2, <2>3, MakesOne
  <1> QED BY <1>1, <1>2, <1>3, <1>4

-----------------------------------------------------------------------------
(***************************************************************************)
(* A jump goes to the one label it names, which has the shape that the     *)
(* jump leads to.                                                          *)
(***************************************************************************)
LEMMA OnePlace ==
  ASSUME AtWork, IsJump(code[pc])
  PROVE  \E p \in 1..Len(out) : Places(code[pc].imm) = {p} /\ code[p].op = "label" /\ code[p].imm = code[pc].imm
  <1>1. verdict = "compiled" /\ code = CodeOf(out) /\ Linkage
    BY DEF AtWork, Loaded
  <1>2. PICK n \in Nat : /\ n = Len(out) /\ DOMAIN code = 1..n /\ DOMAIN out = 1..n
                         /\ \A k \in 1..n : code[k] = out[n + 1 - k]
    BY <1>1, CodeAt, CompiledPlan
  <1>3. PICK i \in 1..n : out[i] = code[pc] /\ IsJump(out[i])
    <2>1. pc \in 1..n /\ n + 1 - pc \in 1..n
      BY <1>2 DEF AtWork
    <2> QED BY <1>2, <2>1
  <1>4. PICK q \in 1..n : /\ IsLabel(out[q], code[pc].imm)
                          /\ \A r \in 1..n : IsLabel(out[r], code[pc].imm) => r = q
    <2>1. JumpsLand
      BY <1>1, LinkedLands
    <2>2. \E q \in 1..n : /\ IsLabel(out[q], out[i].imm)
                          /\ \A r \in 1..n : IsLabel(out[r], out[i].imm) => r = q
      <3>1. DOMAIN out = 1..n /\ i \in DOMAIN out
        BY <1>2
      <3>2. \E q \in DOMAIN out : /\ IsLabel(out[q], out[i].imm)
                                  /\ \A r \in DOMAIN out : IsLabel(out[r], out[i].imm) => r = q
        BY <1>1, <1>3, <2>1, <3>1, Zenon DEF JumpsLand
      <3> QED BY <3>1, <3>2, Zenon
    <2> QED BY <1>3, <2>2, Zenon
  <1>5. n + 1 - q \in 1..n /\ code[n + 1 - q] = out[q]
    <2>1. n + 1 - q \in 1..n /\ n + 1 - (n + 1 - q) = q
      OBVIOUS
    <2> QED BY <1>2, <2>1
  <1>6. ASSUME NEW r \in 1..n, code[r].op = "label", code[r].imm = code[pc].imm
        PROVE  r = n + 1 - q
    <2>1. n + 1 - r \in 1..n /\ IsLabel(out[n + 1 - r], code[pc].imm)
      BY <1>2, <1>6 DEF IsLabel
    <2>2. n + 1 - r = q
      BY <1>4, <2>1
    <2> QED BY <2>2
  <1>7. code[n + 1 - q].op = "label" /\ code[n + 1 - q].imm = code[pc].imm
    BY <1>4, <1>5 DEF IsLabel
  <1>8. Places(code[pc].imm) = {n + 1 - q}
    <2>1. \A r : r \in Places(code[pc].imm) <=> r \in 1..n /\ code[r].op = "label" /\ code[r].imm = code[pc].imm
      BY <1>2 DEF Places
    <2> QED BY <1>5, <1>6, <1>7, <2>1
  <1> QED BY <1>2, <1>5, <1>7, <1>8

LEMMA JumpGoes ==
  ASSUME AtWork, Laid, IsJump(code[pc]), MoveTo(code[pc].imm), code' = code, Effect(code[pc], stack')
  PROVE  Goes
  <1>1. PICK p \in 1..Len(out) : Places(code[pc].imm) = {p} /\ code[p].op = "label" /\ code[p].imm = code[pc].imm
    BY OnePlace
  <1>2. pc' = 1 + p
    <2>1. p \in Int /\ p <= p
      BY <1>1
    <2>2. (CHOOSE x \in {p} : \A y \in {p} : x <= y) = p
      BY <2>1
    <2> QED BY <1>1, <2>2 DEF MoveTo
  <1>3. Len(out) \in Nat
    BY CodeAt DEF AtWork, Loaded
  <1>4. p + 1 \in 1..(Len(out) + 1) /\ pc' = p + 1
    BY <1>1, <1>2, <1>3
  <1>5. ASSUME NEW S, NEW L, Shaped(Plan, Extent, S, L, labels)
        PROVE  Fits(stack', Len(stack'), S[p + 1], Len(S[p + 1]))
    <2>1. PICK l : l = code[pc].imm
      OBVIOUS
    <2>2. L[l] \in Shape /\ Leads(S[pc], Uses(code[pc]), Given(code[pc]), L[l])
      <3>1. pc \in 1..Len(out)
        BY <1>5, Here
      <3>2. Between(code[pc], S[pc], S[pc + 1], L) /\ L[l] \in Shape
        BY <1>5, <2>1, <3>1, BetweenAt DEF IsJump
      <3> QED BY <2>1, <3>2 DEF Between, IsJump
    <2>3. Fits(stack', Len(stack'), L[l], Len(L[l]))
      BY <1>5, <2>2, EffectFits, Zenon
    <2>4. S[p + 1] \in Shape /\ Under(L[l], S[p + 1])
      BY <1>1, <1>5, <2>1, BetweenAt DEF Between
    <2>5. PICK z : z = stack' /\ Len(z) \in Nat
      BY DEF Effect, IsSequence
    <2>8. PICK t \in Shape, u \in Shape, w \in Nat : t = L[l] /\ u = S[p + 1] /\ w = Len(z) /\ Len(t) - 0 = Len(t)
      <3>1. Len(L[l]) \in Nat
        BY <2>2 DEF Shape
      <3> QED BY <2>2, <2>4, <2>5, <3>1
    <2>6. Leads(t, 0, "nothing", u) /\ Fits(z, w, t, Len(t) - 0) /\ w <= w /\ SameKinds(z, z, w)
      BY <2>3, <2>4, <2>5, <2>8 DEF Under, SameKinds
    <2>7. Fits(z, w, u, Len(u))
      BY <2>6, FitsStep
    <2> QED BY <2>5, <2>7, <2>8
  <1>6. IsSequence(stack')
    BY DEF Effect
  <1> QED BY <1>4, <1>5, <1>6 DEF Goes

LEMMA EffectOfNone ==
  ASSUME AtWork, Laid, NEW n, n \in 0..Len(stack), n = Uses(code[pc]), stack' = Below(n),
         Given(code[pc]) = "nothing"
  PROVE  Effect(code[pc], stack')
  <1>1. IsSequence(stack)
    BY DEF AtWork, Loaded
  <1> DEFINE T == {stack[k] : k \in 1..Len(stack)}
  <1>2. stack \in Seq(T)
    BY <1>1 DEF IsSequence
  <1> HIDE DEF T
  <1>3. Len(stack) \in Nat /\ Len(stack) - n \in 0..Len(stack)
    BY <1>2
  <1>4. /\ Below(n) \in Seq(T) /\ Len(Below(n)) = Len(stack) - n
        /\ \A k \in 1..(Len(stack) - n) : Below(n)[k] = stack[k]
    BY <1>2, <1>3, Shortened, Zenon DEF Below
  <1>5. PICK z \in Seq(T) : z = stack' /\ Len(z) = Len(stack) - n /\ \A k \in 1..(Len(stack) - n) : z[k] = stack[k]
    BY <1>4
  <1>6. IsSequence(z)
    BY <1>5, Sequences
  <1>7. Effect(code[pc], z)
    BY <1>3, <1>5, <1>6 DEF Effect, SameKinds
  <1> QED BY <1>5, <1>7

LEMMA JumpsGo ==
  ASSUME AtWork, Laid, Goto \/ JumpUnless
  PROVE  Goes
  <1>1. CASE Goto
    <2>1. MoveTo(code[pc].imm) /\ code' = code /\ stack' = stack /\ code[pc].op = "jump"
      BY <1>1 DEF Goto, At, Imm
    <2>2. Uses(code[pc]) = 0 /\ Given(code[pc]) = "nothing"
      BY <2>1 DEF Uses, Takes, Given
    <2>3. IsSequence(stack) /\ 0 \in 0..Len(stack)
      <3>1. IsSequence(stack) /\ Len(stack) \in Nat
        BY DEF AtWork, Loaded, IsSequence
      <3> QED BY <3>1
    <2>4. stack' = Below(0)
      BY <2>1, <2>3, Dropped
    <2>5. Effect(code[pc], stack')
      BY <2>2, <2>3, <2>4, EffectOfNone, Zenon
    <2> QED BY <2>1, <2>5, JumpGoes DEF IsJump
  <1>2. CASE JumpUnless
    <2>1. /\ pc' = pc + 1 \/ MoveTo(code[pc].imm)
          /\ stack' = Below(1) /\ code' = code /\ code[pc].op = "jump-if-false"
      BY <1>2 DEF JumpUnless, At, Imm
    <2>2. Uses(code[pc]) = 1 /\ Given(code[pc]) = "nothing"
      BY <2>1 DEF Uses, Takes, Given
    <2>3. 1 \in 0..Len(stack)
      BY <2>1, <2>2, Enough
    <2>4. Effect(code[pc], stack')
      BY <2>1, <2>2, <2>3, EffectOfNone, Zenon
    <2>5. CASE pc' = pc + 1
      BY <2>1, <2>4, <2>5, EffectGoes
    <2>6. CASE MoveTo(code[pc].imm)
      BY <2>1, <2>4, <2>6, JumpGoes DEF IsJump
    <2> QED BY <2>1, <2>5, <2>6
  <1> QED BY <1>1, <1>2

-----------------------------------------------------------------------------
(***************************************************************************)
(* The instructions of loops look for their iterator and their sink.       *)
(***************************************************************************)
\* A step from a part of the stack, where the shape still is.
LEMMA PartGoes ==
  ASSUME AtWork, NEW n \in Nat, NEW c,
         \A s, t \in Shape : \A L : Between(code[pc], s, t, L) => Leads(s, n, c, t),
         NEW w \in Nat,
         \A s, t \in Shape : \A L :
           Between(code[pc], s, t, L) /\ Fits(stack, Len(stack), s, Len(s)) => Fits(stack, w, s, Len(s) - n),
         IsSequence(stack'), w <= Len(stack'), SameKinds(stack, stack', w),
         c = "nothing" \/ (c = "any" /\ w < Len(stack')),
         code' = code, pc' = pc + 1
  PROVE  Goes
  <1>1. pc \in 1..Len(out) /\ Len(out) \in Nat
    BY CodeAt DEF AtWork, Loaded
  <1>2. PICK z : z = stack'
    OBVIOUS
  <1>3. PICK v \in Nat : v = Len(z)
    BY <1>2 DEF IsSequence
  <1>4. ASSUME NEW S, NEW L, Shaped(Plan, Extent, S, L, labels)
        PROVE  Fits(stack', Len(stack'), S[pc'], Len(S[pc']))
    <2>1. PICK s \in Shape, t \in Shape : s = S[pc] /\ t = S[pc + 1]
      BY <1>4, Here
    <2>2. Between(code[pc], s, t, L) /\ Fits(stack, Len(stack), s, Len(s))
      BY <1>4, <2>1, Here
    <2>3. Leads(s, n, c, t) /\ Fits(stack, w, s, Len(s) - n)
      BY <2>2, Zenon
    <2>4. w <= v /\ SameKinds(stack, z, w) /\ (c = "nothing" \/ (w < v /\ (c = "any" \/ Kind(z[v]) = c)))
      BY <1>2, <1>3
    <2>5. Fits(z, v, t, Len(t))
      BY <2>3, <2>4, FitsStep
    <2> QED BY <1>2, <1>3, <2>1, <2>5
  <1> QED BY <1>1, <1>4 DEF Goes

\* What the last n give way to.
LEMMA Exchanged ==
  ASSUME AtWork, NEW n, n \in 0..Len(stack), NEW q, IsSequence(q), Exchange(n, q)
  PROVE  /\ IsSequence(stack') /\ Len(stack) \in Nat /\ Len(stack') = Len(stack) - n + Len(q)
         /\ \A k \in 1..(Len(stack) - n) : stack'[k] = stack[k]
         /\ \A j \in 1..Len(q) : stack'[Len(stack) - n + j] = q[j]
         /\ SameKinds(stack, stack', Len(stack) - n)
  <1>1. IsSequence(stack)
    BY DEF AtWork, Loaded
  <1>2. IsSequence(stack') /\ Extends(stack', stack, Len(stack) - n, q) /\ Len(stack) \in Nat /\ Len(q) \in Nat
    BY <1>1, Onto DEF Exchange
  <1>7. PICK z : z = stack'
    OBVIOUS
  <1>3. PICK m \in Int, p \in Nat : z = stack' /\ m = Len(stack) - n /\ p = Len(q)
    <2>1. Len(stack) - n \in Int
      BY <1>2
    <2> QED BY <1>2, <1>7, <2>1
  <1>4. Extends(z, stack, m, q)
    BY <1>2, <1>3
  <1>5. \A j \in 1..p : m < m + j /\ m + j <= m + p /\ (m + j) - m = j /\ m + j \in Int
    BY <1>3
  <1>6. \A j \in 1..p : z[m + j] = q[j]
    <2>1. \A k \in Int : m < k /\ k <= m + p => z[k] = q[k - m]
      BY <1>3, <1>4 DEF Extends
    <2>2. ASSUME NEW j \in 1..p
          PROVE  z[m + j] = q[j]
      <3>1. z[m + j] = q[(m + j) - m]
        BY <1>5, <2>1
      <3> QED BY <1>5, <3>1
    <2> QED BY <2>2
  <1> QED BY <1>2, <1>3, <1>4, <1>6 DEF Extends, SameKinds

LEMMA AdvanceGoes ==
  ASSUME AtWork, Laid, Advance
  PROVE  Goes
  <1>1. /\ code[pc].op = "advance" /\ Iterating # 0
        /\ Replace(Iterating, <<Iterator(Tail(Payload(Peek(Iterating))))>>
                              \o (IF Iterating = 1 THEN <<>> ELSE <<Peek(1)>>)
                              \o <<Head(Payload(Peek(Iterating)))>>)
    BY DEF Advance, At, Ready
  <1>2. PICK W \in Nat : W = Len(stack)
    BY DEF AtWork, Loaded, IsSequence
  <1>8. \A v : Kind(Iterator(v)) = "iterator"
    BY DEF Kind, Iterator
  <1>9. PICK it : it = Iterator(Tail(Payload(Peek(Iterating))))
    OBVIOUS
  <1>10. PICK h : h = Head(Payload(Peek(Iterating)))
    OBVIOUS
  <1>3. /\ it = Iterator(Tail(Payload(Peek(Iterating)))) /\ h = Head(Payload(Peek(Iterating)))
        /\ Kind(it) = "iterator"
    BY <1>8, <1>9, <1>10, Zenon
  <1>11. PICK one : one = <<it>> /\ IsSequence(one) /\ Len(one) = 1 /\ one[1] = it
    BY Alone
  <1>4. Uses(code[pc]) = 0 /\ Given(code[pc]) = "any"
    BY <1>1 DEF Uses, Given
  <1>5. CASE Iterating = 1
    <2>1. W >= 1 /\ Kind(stack[W]) = "iterator"
      BY <1>2, <1>5 DEF Iterating, IsKind, Has, Peek
    <2>2. Replace(1, <<it>> \o <<>> \o <<h>>)
      BY <1>1, <1>3, <1>5, Zenon
    <2>3. one \o <<>> = one
      <3>1. one \in Seq({one[k] : k \in 1..Len(one)})
        BY <1>11 DEF IsSequence
      <3> QED BY <3>1
    <2>4. PICK q : q = <<it>> \o <<>> \o <<h>> /\ IsSequence(q) /\ Len(q) = 2 /\ q[1] = it
      <3>1. IsSequence(one \o <<h>>) /\ Len(one \o <<h>>) = 1 + 1 /\ (one \o <<h>>)[1] = one[1]
        <4>1. 1 \in Nat /\ 1 \in 1..1
          OBVIOUS
        <4> QED BY <1>11, <4>1, OneMore
      <3>2. <<it>> \o <<>> \o <<h>> = one \o <<h>>
        BY <1>11, <2>3, Zenon
      <3> HIDE DEF IsSequence
      <3>3. PICK q : q = one \o <<h>>
        OBVIOUS
      <3>4. q = <<it>> \o <<>> \o <<h>> /\ IsSequence(q) /\ Len(q) = 2 /\ q[1] = it
        <4>1. 1 + 1 = 2
          OBVIOUS
        <4> QED BY <1>11, <3>1, <3>2, <3>3, <4>1, Zenon
      <3> QED BY <3>4, Zenon
    <2>5. 1 \in 0..Len(stack) /\ Exchange(1, q)
      BY <1>2, <2>1, <2>2, <2>4 DEF Replace, Exchange
    <2>6. PICK z : /\ z = stack' /\ IsSequence(z) /\ Len(z) = W + 1
                   /\ (\A k \in 1..(W - 1) : z[k] = stack[k]) /\ z[W] = it
      <3>1. /\ IsSequence(stack') /\ Len(stack') = W - 1 + 2
            /\ \A k \in 1..(W - 1) : stack'[k] = stack[k]
            /\ \A j \in 1..2 : stack'[W - 1 + j] = q[j]
        <4>1. 1 \in 0..Len(stack) /\ IsSequence(q) /\ Exchange(1, q)
          BY <2>4, <2>5
        <4>2. /\ IsSequence(stack') /\ Len(stack') = Len(stack) - 1 + Len(q)
              /\ \A k \in 1..(Len(stack) - 1) : stack'[k] = stack[k]
              /\ \A j \in 1..Len(q) : stack'[Len(stack) - 1 + j] = q[j]
          BY <4>1, Exchanged
        <4> QED BY <1>2, <2>4, <4>2
      <3>2. stack'[W - 1 + 1] = q[1] /\ W - 1 + 1 = W
        BY <3>1
      <3> QED BY <2>4, <3>1, <3>2
    <2>7. SameKinds(stack, z, W)
      BY <1>3, <2>1, <2>6 DEF SameKinds
    <2>8. Effect(code[pc], z)
      BY <1>2, <1>4, <2>6, <2>7 DEF Effect
    <2>9. code' = code /\ pc' = pc + 1
      BY <2>2 DEF Replace
    <2> QED BY <1>1, <2>6, <2>8, <2>9, EffectGoes
  <1>6. CASE Iterating # 1
    <2>1. /\ Iterating = 2 /\ W >= 2 /\ Kind(stack[W - 1]) = "iterator" /\ Peek(1) = stack[W]
      <3>1. Iterating = 2 /\ IsKind(2, {"iterator"})
        BY <1>1, <1>6 DEF Iterating
      <3>2. W + 1 - 2 = W - 1 /\ W + 1 - 1 = W
        OBVIOUS
      <3> QED BY <1>2, <3>1, <3>2 DEF IsKind, Has, Peek
    <2>2. PICK x : x = stack[W]
      OBVIOUS
    <2>3. Replace(2, <<it>> \o <<x>> \o <<h>>)
      <3>1. ~ (2 = 1)
        OBVIOUS
      <3>2. Replace(2, <<it>> \o (IF 2 = 1 THEN <<>> ELSE <<Peek(1)>>) \o <<h>>)
        BY <1>1, <1>3, <2>1, Zenon
      <3> QED BY <2>1, <2>2, <3>1, <3>2, Zenon
    <2>4. PICK two : two = <<it>> \o <<x>> /\ IsSequence(two) /\ Len(two) = 2 /\ two[1] = it /\ two[2] = x
      <3>1. IsSequence(one \o <<x>>) /\ Len(one \o <<x>>) = 1 + 1 /\ (one \o <<x>>)[1] = one[1] /\ (one \o <<x>>)[1 + 1] = x
        <4>1. 1 \in Nat /\ 1 \in 1..1
          OBVIOUS
        <4> QED BY <1>11, <4>1, OneMore
      <3>2. PICK q : q = one \o <<x>>
        OBVIOUS
      <3>3. q = <<it>> \o <<x>> /\ IsSequence(q) /\ Len(q) = 2 /\ q[1] = it /\ q[2] = x
        <4>1. 1 + 1 = 2
          OBVIOUS
        <4> QED BY <1>11, <3>1, <3>2, <4>1, Zenon
      <3> QED BY <3>3, Zenon
    <2>5. PICK q : q = <<it>> \o <<x>> \o <<h>> /\ IsSequence(q) /\ Len(q) = 3 /\ q[1] = it /\ q[2] = x
      <3>1. IsSequence(two \o <<h>>) /\ Len(two \o <<h>>) = 2 + 1 /\ (two \o <<h>>)[1] = two[1] /\ (two \o <<h>>)[2] = two[2]
        <4>1. 2 \in Nat /\ 1 \in 1..2 /\ 2 \in 1..2
          OBVIOUS
        <4> QED BY <2>4, <4>1, OneMore
      <3>2. PICK q : q = two \o <<h>>
        OBVIOUS
      <3>3. q = <<it>> \o <<x>> \o <<h>> /\ IsSequence(q) /\ Len(q) = 3 /\ q[1] = it /\ q[2] = x
        <4>1. 2 + 1 = 3
          OBVIOUS
        <4> QED BY <2>4, <3>1, <3>2, <4>1, Zenon
      <3> QED BY <3>3, Zenon
    <2>6. 2 \in 0..Len(stack) /\ Exchange(2, q)
      BY <1>2, <2>1, <2>3, <2>5 DEF Replace, Exchange
    <2>7. PICK z : /\ z = stack' /\ IsSequence(z) /\ Len(z) = W + 1
                   /\ (\A k \in 1..(W - 2) : z[k] = stack[k]) /\ z[W - 1] = it /\ z[W] = x
      <3>1. /\ IsSequence(stack') /\ Len(stack') = W - 2 + 3
            /\ \A k \in 1..(W - 2) : stack'[k] = stack[k]
            /\ \A j \in 1..3 : stack'[W - 2 + j] = q[j]
        <4>1. 2 \in 0..Len(stack) /\ IsSequence(q) /\ Exchange(2, q)
          BY <2>5, <2>6
        <4>2. /\ IsSequence(stack') /\ Len(stack') = Len(stack) - 2 + Len(q)
              /\ \A k \in 1..(Len(stack) - 2) : stack'[k] = stack[k]
              /\ \A j \in 1..Len(q) : stack'[Len(stack) - 2 + j] = q[j]
          BY <4>1, Exchanged
        <4> QED BY <1>2, <2>5, <4>2
      <3>2. stack'[W - 2 + 1] = q[1] /\ W - 2 + 1 = W - 1 /\ stack'[W - 2 + 2] = q[2] /\ W - 2 + 2 = W
        BY <3>1
      <3> QED BY <2>5, <3>1, <3>2
    <2>8. SameKinds(stack, z, W)
      <3>1. \A k \in 1..W : k \in 1..(W - 2) \/ k = W - 1 \/ k = W
        OBVIOUS
      <3> QED BY <1>3, <2>1, <2>2, <2>7, <3>1 DEF SameKinds
    <2>9. Effect(code[pc], z)
      BY <1>2, <1>4, <2>7, <2>8 DEF Effect
    <2>10. code' = code /\ pc' = pc + 1
      BY <2>3 DEF Replace
    <2> QED BY <1>1, <2>7, <2>9, <2>10, EffectGoes
  <1> QED BY <1>5, <1>6

LEMMA IsEmptyGoes ==
  ASSUME AtWork, Laid, IsEmpty
  PROVE  Goes
  <1>1. code[pc].op = "is-empty" /\ (IsKind(1, {"list"}) \/ Iterating # 0)
    BY DEF IsEmpty, At, Ready
  <1>2. Uses(code[pc]) = 0 /\ Given(code[pc]) = "any"
    BY <1>1 DEF Uses, Given
  <1>3. CASE Iterating # 0
    <2>1. PICK v : Replace(0, <<v>>)
      BY <1>3 DEF IsEmpty
    <2>2. Exchange(0, <<v>>)
      BY <2>1 DEF Replace, Exchange
    <2> QED BY <1>1, <1>2, <2>2, MakesOne
  <1>4. CASE Iterating = 0
    <2>1. PICK v : Replace(1, <<v>>)
      BY <1>4 DEF IsEmpty
    <2>2. PICK W \in Nat : W = Len(stack)
      BY DEF AtWork, Loaded, IsSequence
    <2>3. W >= 1 /\ Kind(stack[W]) = "list"
      <3>1. IsKind(1, {"list"}) /\ W + 1 - 1 = W
        BY <1>1, <1>4
      <3> QED BY <2>2, <3>1 DEF IsKind, Has, Peek
    <2>4. 1 \in 0..Len(stack) /\ Exchange(1, <<v>>) /\ code' = code /\ pc' = pc + 1
      BY <2>1, <2>2, <2>3 DEF Replace, Exchange
    <2>5. IsSequence(stack') /\ Len(stack') = W - 1 + 1 /\ SameKinds(stack, stack', W - 1)
      <3>1. PICK q : q = <<v>> /\ IsSequence(q) /\ Len(q) = 1
        BY Alone
      <3>2. Exchange(1, q)
        BY <2>4, <3>1
      <3>3. /\ IsSequence(stack') /\ Len(stack') = Len(stack) - 1 + Len(q)
            /\ SameKinds(stack, stack', Len(stack) - 1)
        BY <2>4, <3>1, <3>2, Exchanged, Zenon
      <3> QED BY <2>2, <3>1, <3>3, Zenon
    <2>6. ASSUME NEW s \in Shape, NEW t \in Shape, NEW L, Between(code[pc], s, t, L)
          PROVE  Leads(s, 0, "any", t) /\ Len(s) \in Nat /\ Len(s) > 0 /\ s[Len(s)] \in {"iterator", "sink"}
      <3>1. Len(s) \in Nat
        BY DEF Shape
      <3> QED BY <1>1, <1>2, <2>6, <3>1 DEF Between, Finds
    <2>7. ASSUME NEW s \in Shape, NEW t \in Shape, NEW L, Between(code[pc], s, t, L), Fits(stack, Len(stack), s, Len(s))
          PROVE  Fits(stack, W - 1, s, Len(s) - 0)
      <3>1. PICK m \in Nat : m = Len(s) /\ m > 0 /\ s[m] \in {"iterator", "sink"} /\ Len(s) - 0 = m
        BY <2>6, <2>7
      <3>2. W - 1 \in 0..W /\ \A k \in (W - 1 + 1)..W : Kind(stack[k]) # s[m]
        <4>1. W - 1 \in 0..W /\ \A k \in (W - 1 + 1)..W : k = W
          BY <2>3
        <4> QED BY <2>3, <3>1, <4>1
      <3>3. s[m] # "any" /\ Fits(stack, W, s, m)
        BY <2>2, <2>7, <3>1
      <3>4. Fits(stack, W - 1, s, m)
        BY <3>1, <3>2, <3>3, FitsMark
      <3> QED BY <3>1, <3>4
    <2>8. W - 1 \in Nat /\ W - 1 < Len(stack') /\ W - 1 <= Len(stack') /\ 0 \in Nat
      BY <2>3, <2>5
    <2>9. \A s, t \in Shape : \A L : Between(code[pc], s, t, L) => Leads(s, 0, "any", t)
      BY <2>6
    <2>10. \A s, t \in Shape : \A L :
             Between(code[pc], s, t, L) /\ Fits(stack, Len(stack), s, Len(s)) => Fits(stack, W - 1, s, Len(s) - 0)
      BY <2>7
    <2> QED BY <2>4, <2>5, <2>8, <2>9, <2>10, PartGoes, Zenon
  <1> QED BY <1>3, <1>4

\* The last sink of a stack that has one, and what is put in its place.
LEMMA SinkGoes ==
  ASSUME AtWork, NEW W \in Nat, W = Len(stack), \E k \in 1..W : Kind(stack[k]) = "sink",
         NEW v, Exchange(Len(stack) - TopSink(stack) + 1, <<v>>)
  PROVE  /\ TopSink(stack) \in 1..W /\ Kind(stack[TopSink(stack)]) = "sink"
         /\ \A j \in (TopSink(stack) + 1)..W : Kind(stack[j]) # "sink"
         /\ IsSequence(stack') /\ Len(stack') = TopSink(stack)
         /\ SameKinds(stack, stack', TopSink(stack) - 1)
         /\ stack'[TopSink(stack)] = v /\ code' = code /\ pc' = pc + 1
  <1>1. /\ TopSink(stack) \in 1..W /\ Kind(stack[TopSink(stack)]) = "sink"
        /\ \A j \in (TopSink(stack) + 1)..W : Kind(stack[j]) # "sink"
    BY TopSinkIsLast
  <1>2. PICK p \in 1..W : p = TopSink(stack)
    BY <1>1
  <1>3. PICK n \in 0..W : n = W - p + 1 /\ W - n = p - 1
    <2>1. W - p + 1 \in 0..W /\ W - (W - p + 1) = p - 1
      OBVIOUS
    <2> QED BY <2>1
  <1>4. PICK q : q = <<v>> /\ IsSequence(q) /\ Len(q) = 1 /\ q[1] = v
    BY Alone
  <1>5. n \in 0..Len(stack) /\ IsSequence(q) /\ Exchange(n, q)
    BY <1>2, <1>3, <1>4
  <1>6. /\ IsSequence(stack') /\ Len(stack') = Len(stack) - n + Len(q)
        /\ \A j \in 1..Len(q) : stack'[Len(stack) - n + j] = q[j]
        /\ SameKinds(stack, stack', Len(stack) - n)
    BY <1>5, Exchanged, Zenon
  <1>7. Len(stack) - n = p - 1 /\ p - 1 + 1 = p
    BY <1>3
  <1>8. Len(stack') = p /\ stack'[p] = v /\ SameKinds(stack, stack', p - 1)
    <2>1. stack'[Len(stack) - n + 1] = q[1] /\ Len(stack') = Len(stack) - n + 1
      BY <1>4, <1>6
    <2> QED BY <1>4, <1>6, <1>7, <2>1, Zenon
  <1> QED BY <1>1, <1>2, <1>5, <1>6, <1>8 DEF Exchange

LEMMA SinkToListGoes ==
  ASSUME AtWork, Laid, SinkToList
  PROVE  Goes
  <1>1. code[pc].op = "sink-to-list" /\ TopSink(stack) # 0
    BY DEF SinkToList, At, Ready
  <1>2. PICK W \in Nat : W = Len(stack)
    BY DEF AtWork, Loaded, IsSequence
  <1>3. PICK v : Exchange(Len(stack) - TopSink(stack) + 1, <<v>>)
    BY DEF SinkToList, Replace, Exchange
  <1>4. \E k \in 1..W : Kind(stack[k]) = "sink"
    BY <1>1, <1>2 DEF TopSink
  <1>5. PICK p \in 1..W :
              /\ p = TopSink(stack) /\ \A j \in (p + 1)..W : Kind(stack[j]) # "sink"
              /\ IsSequence(stack') /\ Len(stack') = p /\ SameKinds(stack, stack', p - 1)
              /\ code' = code /\ pc' = pc + 1
    BY <1>2, <1>3, <1>4, SinkGoes
  <1>6. ASSUME NEW s \in Shape, NEW t \in Shape, NEW L, Between(code[pc], s, t, L)
        PROVE  Leads(s, 1, "any", t) /\ Len(s) \in Nat /\ Len(s) > 0 /\ s[Len(s)] = "sink"
    <2>1. Len(s) \in Nat
      BY DEF Shape
    <2>2. Uses(code[pc]) = 1 /\ Given(code[pc]) = "any"
      BY <1>1 DEF Uses, Given
    <2> QED BY <1>1, <1>6, <2>1, <2>2 DEF Between, Finds
  <1>7. ASSUME NEW s \in Shape, NEW t \in Shape, NEW L, Between(code[pc], s, t, L), Fits(stack, Len(stack), s, Len(s))
        PROVE  Fits(stack, p - 1, s, Len(s) - 1)
    <2>1. PICK m \in Nat : m = Len(s) /\ m > 0 /\ s[m] = "sink"
      BY <1>6, <1>7
    <2>2. p \in 0..W /\ p \in Nat /\ 1 \in 0..m
      BY <2>1
    <2>3. s[m] # "any" /\ Fits(stack, W, s, m) /\ \A k \in (p + 1)..W : Kind(stack[k]) # s[m]
      BY <1>2, <1>5, <1>7, <2>1
    <2>4. Fits(stack, p, s, m)
      BY <2>1, <2>2, <2>3, FitsMark
    <2>5. Fits(stack, p - 1, s, m - 1)
      BY <2>2, <2>4, FitsLess
    <2> QED BY <2>1, <2>5
  <1>8. p - 1 \in Nat /\ p - 1 < Len(stack') /\ p - 1 <= Len(stack') /\ 1 \in Nat
    BY <1>5
  <1>9. \A s, t \in Shape : \A L : Between(code[pc], s, t, L) => Leads(s, 1, "any", t)
    BY <1>6
  <1>10. \A s, t \in Shape : \A L :
           Between(code[pc], s, t, L) /\ Fits(stack, Len(stack), s, Len(s)) => Fits(stack, p - 1, s, Len(s) - 1)
    BY <1>7
  <1> QED BY <1>5, <1>8, <1>9, <1>10, PartGoes, Zenon

Among(q, w, c) == \E k \in 1..w : Kind(q[k]) = c

LEMMA FitsAmong ==
  ASSUME NEW q, NEW w \in Nat, NEW s, NEW m \in Nat, m > 0, s[m] # "any", Fits(q, w, s, m)
  PROVE  Among(q, w, s[m])
  BY FitsFinds DEF Among

\* Under the element on top there is a sink.
LEMMA SinkUnder ==
  ASSUME AtWork, code[pc].op = "push-to-sink", NEW W \in Nat, W = Len(stack),
         NEW s \in Shape, NEW t \in Shape, NEW L, Between(code[pc], s, t, L), Fits(stack, W, s, Len(s))
  PROVE  /\ Leads(s, 1, "nothing", t) /\ W >= 1
         /\ \E m \in Nat : m > 0 /\ Len(s) - 1 = m /\ s[m] = "sink" /\ Fits(stack, W - 1, s, m)
         /\ \E k \in 1..(W - 1) : Kind(stack[k]) = "sink"
  <1>1. Uses(code[pc]) = 1 /\ Given(code[pc]) = "nothing"
    BY DEF Uses, Takes, Given
  <1>2. Leads(s, 1, "nothing", t)
    BY <1>1 DEF Between
  <1>3. PICK n \in Nat : n = Len(s) /\ n > 1 /\ s[n - 1] = "sink"
    <2>1. Len(s) \in Nat
      BY DEF Shape
    <2> QED BY <2>1 DEF Between, Finds
  <1>4. 1 \in 0..n /\ Fits(stack, W, s, n)
    BY <1>3
  <1>5. W - 1 \in Nat /\ Fits(stack, W - 1, s, n - 1)
    BY <1>4, FitsLess
  <1>6. PICK m \in Nat : m = n - 1 /\ m > 0 /\ s[m] = "sink" /\ Len(s) - 1 = m
    BY <1>3
  <1>7. \E k \in 1..(W - 1) : Kind(stack[k]) = s[m]
    <2>1. PICK w \in Nat : w = W - 1
      BY <1>5
    <2>2. w \in Nat /\ m \in Nat /\ m > 0 /\ s[m] # "any" /\ Fits(stack, w, s, m)
      BY <1>5, <1>6, <2>1
    <2>3. Among(stack, w, s[m])
      BY <2>2, FitsAmong
    <2> QED BY <2>1, <2>3, Zenon DEF Among
  <1> QED BY <1>2, <1>5, <1>6, <1>7

LEMMA PushToSinkGoes ==
  ASSUME AtWork, Laid, PushToSink
  PROVE  Goes
  <1>1. code[pc].op = "push-to-sink"
    BY DEF PushToSink, At
  <1>2. PICK W \in Nat : W = Len(stack)
    BY DEF AtWork, Loaded, IsSequence
  <1>3. PICK S, L : Shaped(Plan, Extent, S, L, labels)
    BY DEF Laid
  <1>4. W >= 1 /\ \E k \in 1..(W - 1) : Kind(stack[k]) = "sink"
    <2>1. /\ S[pc] \in Shape /\ S[pc + 1] \in Shape /\ Between(code[pc], S[pc], S[pc + 1], L)
          /\ Fits(stack, W, S[pc], Len(S[pc]))
      BY <1>2, <1>3, Here
    <2> QED BY <1>1, <1>2, <2>1, SinkUnder
  <1>5. Uses(code[pc]) = 1 /\ Given(code[pc]) = "nothing"
    BY <1>1 DEF Uses, Takes, Given
  <1>6. CASE ~ Values(1)
    <2>1. Replace(1, <<>>)
      BY <1>2, <1>4, <1>6 DEF PushToSink, Has
    <2>2. Exchange(1, <<>>)
      BY <2>1 DEF Replace, Exchange
    <2> QED BY <1>1, <1>5, <2>2, MakesNone
  <1>7. CASE Values(1)
    <2>1. PICK x : Exchange(Len(stack) - TopSink(stack) + 1, <<Sink(x)>>)
      BY <1>7 DEF PushToSink, Replace, Exchange
    <2>2. PICK v : v = Sink(x) /\ Kind(v) = "sink"
      <3>1. Kind(Sink(x)) = "sink"
        BY DEF Kind, Sink
      <3> QED BY <3>1, Zenon
    <2>3. \E k \in 1..W : Kind(stack[k]) = "sink"
      BY <1>4
    <2>4. /\ TopSink(stack) \in 1..W /\ Kind(stack[TopSink(stack)]) = "sink"
          /\ \A j \in (TopSink(stack) + 1)..W : Kind(stack[j]) # "sink"
          /\ IsSequence(stack') /\ Len(stack') = TopSink(stack)
          /\ SameKinds(stack, stack', TopSink(stack) - 1)
          /\ stack'[TopSink(stack)] = v /\ code' = code /\ pc' = pc + 1
      BY <1>2, <2>1, <2>2, <2>3, SinkGoes
    <2>5. PICK p \in 1..W : p = TopSink(stack)
      BY <2>4
    <2>6. SameKinds(stack, stack', p)
      <3>1. \A k \in 1..p : k \in 1..(p - 1) \/ k = p
        OBVIOUS
      <3> QED BY <2>2, <2>4, <2>5, <3>1 DEF SameKinds
    <2>7. p <= W - 1
      <3>1. Kind(stack[W]) \in ValueKinds
        <4>1. IsKind(1, ValueKinds) /\ W + 1 - 1 = W
          BY <1>7 DEF Values
        <4> QED BY <1>2, <4>1 DEF IsKind, Peek
      <3>2. p # W
        BY <2>4, <2>5, <3>1 DEF ValueKinds
      <3> QED BY <3>2
    <2>8. ASSUME NEW s \in Shape, NEW t \in Shape, NEW K, Between(code[pc], s, t, K), Fits(stack, Len(stack), s, Len(s))
          PROVE  Fits(stack, p, s, Len(s) - 1)
      <3>1. PICK m \in Nat : m > 0 /\ Len(s) - 1 = m /\ s[m] = "sink" /\ Fits(stack, W - 1, s, m)
        BY <1>1, <1>2, <2>8, SinkUnder
      <3>2. W - 1 \in Nat /\ p \in 0..(W - 1) /\ s[m] # "any"
        BY <1>4, <2>7, <3>1
      <3>3. \A k \in (p + 1)..(W - 1) : Kind(stack[k]) # s[m]
        BY <2>4, <2>5, <3>1
      <3>4. Fits(stack, p, s, m)
        BY <3>1, <3>2, <3>3, FitsMark
      <3> QED BY <3>1, <3>4
    <2>9. ASSUME NEW s \in Shape, NEW t \in Shape, NEW K, Between(code[pc], s, t, K)
          PROVE  Leads(s, 1, "nothing", t)
      BY <1>5, <1>1, <2>9 DEF Between
    <2>10. \A s, t \in Shape : \A K : Between(code[pc], s, t, K) => Leads(s, 1, "nothing", t)
      BY <2>9
    <2>11. \A s, t \in Shape : \A K :
             Between(code[pc], s, t, K) /\ Fits(stack, Len(stack), s, Len(s)) => Fits(stack, p, s, Len(s) - 1)
      BY <2>8
    <2>12. p \in Nat /\ p <= Len(stack') /\ 1 \in Nat
      BY <2>4, <2>5
    <2> QED BY <2>4, <2>6, <2>10, <2>11, <2>12, PartGoes, Zenon
  <1> QED BY <1>6, <1>7

-----------------------------------------------------------------------------
(***************************************************************************)
(* The invariant: the compiler's, its shapes, and the stack that fits the  *)
(* shape at the cursor.                                                    *)
(***************************************************************************)
Invariant == Linkage /\ Laid /\ Loaded

LEMMA StartsLoaded == Init => Invariant
  <1> SUFFICES ASSUME Init PROVE Invariant
    OBVIOUS
  <1>1. CInit /\ pc = 0 /\ code = <<>> /\ stack = <<>>
    BY DEF Init, MInit
  <1>2. Linkage
    BY <1>1, StartsLinked
  <1>3. Laid
    BY <1>1, StartsLaid
  <1>4. Loaded
    BY <1>1 DEF Loaded
  <1> QED BY <1>2, <1>3, <1>4 DEF Invariant

\* A step that leaves the machine alone and the code that it runs.
LEMMA StaysLoaded ==
  ASSUME Loaded, verdict = "compiled" => UNCHANGED cvars, UNCHANGED <<code, pc, stack>>
  PROVE  Loaded'
  <1>1. CASE pc = 0
    BY <1>1 DEF Loaded
  <1>2. CASE pc # 0
    <2>1. /\ verdict = "compiled" /\ code = CodeOf(out) /\ pc \in 1..(Len(out) + 1)
          /\ IsSequence(stack) /\ Fitted
      BY <1>2 DEF Loaded
    <2>2. UNCHANGED <<work, out, labels, verdict>>
      BY <2>1 DEF cvars
    <2>3. Fitted'
      BY <2>1, <2>2 DEF Fitted, Plan, Extent
    <2>4. IsSequence(stack)'
      BY <2>1 DEF IsSequence
    <2>5. (pc # 0 /\ verdict = "compiled" /\ code = CodeOf(out) /\ pc \in 1..(Len(out) + 1))'
      BY <1>2, <2>1, <2>2 DEF CodeOf
    <2> QED BY <2>3, <2>4, <2>5 DEF Loaded
  <1> QED BY <1>1, <1>2

\* The compiler has ended where it has code.
LEMMA CompilerEnds == [CNext]_cvars /\ verdict = "compiled" => UNCHANGED cvars
  <1> SUFFICES ASSUME CNext, verdict = "compiled" PROVE FALSE
    OBVIOUS
  <1>1. verdict # "compiling"
    OBVIOUS
  <1> QED BY <1>1 DEF CNext, WriteInstruction, LowerOperands, LowerBlock, LowerStanding, Reject,
                      LowerIf, LowerRange, LowerFor, LowerReduce, Compiled, Lowering

LEMMA StartLoads ==
  ASSUME Invariant, StartRun
  PROVE  Loaded'
  <1>1. /\ pc = 0 /\ verdict = "compiled" /\ code' = CodeOf(out) /\ pc' = 1 /\ UNCHANGED cvars
        /\ stack' = stack /\ UNCHANGED <<work, out, labels, verdict>>
    BY DEF StartRun, Start, cvars
  <1>2. stack = <<>>
    BY <1>1 DEF Invariant, Loaded
  <1>3. PICK q : q = <<>> /\ q \in Shape /\ Len(q) = 0 /\ IsSequence(q)
    <2>1. <<>> \in Shape /\ Len(<<>>) = 0
      BY DEF Shape
    <2>2. IsSequence(<<>>)
      <3>1. <<>> \in Seq({})
        OBVIOUS
      <3> QED BY <3>1, Sequences
    <2> QED BY <2>1, <2>2
  <1>4. ASSUME NEW S, NEW L, Shaped(Plan, Extent, S, L, labels)
        PROVE  Fits(q, 0, S[1], Len(S[1]))
    <2>1. S[1] \in Shape /\ Leads(q, 0, "nothing", S[1])
      <3>1. Extent \in Nat
        BY DEF Invariant, Linkage, IsSequence, Extent
      <3>2. 1 \in 1..(Extent + 1)
        BY <3>1
      <3> QED BY <1>3, <1>4, <3>2 DEF Shaped, Under
    <2>2. Fits(q, 0, q, Len(q) - 0)
      <3>1. Fits(q, 0, q, 0) /\ Len(q) - 0 = 0
        BY <1>3, FitsNothing
      <3> QED BY <3>1
    <2>3. SameKinds(q, q, 0)
      BY DEF SameKinds
    <2>4. PICK t \in Shape : t = S[1]
      BY <2>1
    <2>5. PICK z \in Nat : z = 0
      OBVIOUS
    <2>6. /\ Leads(q, z, "nothing", t) /\ Fits(q, z, q, Len(q) - z) /\ z <= z /\ SameKinds(q, q, z)
          /\ q \in Shape /\ z \in Nat
      BY <1>3, <2>1, <2>2, <2>3, <2>4, <2>5
    <2>7. Fits(q, z, t, Len(t))
      BY <2>6, FitsStep
    <2> QED BY <2>4, <2>5, <2>7
  <1>5. stack' = q /\ Len(stack') = 0 /\ IsSequence(stack')
    BY <1>1, <1>2, <1>3
  <1>6. Fitted'
    <2>1. \A S, L : Shaped(Plan, Extent, S, L, labels) => Fits(q, 0, S[1], Len(S[1]))
      BY <1>4
    <2>2. Plan' = Plan /\ Extent' = Extent /\ labels' = labels
      BY <1>1 DEF Plan, Extent
    <2> QED BY <1>1, <1>5, <2>1, <2>2 DEF Fitted
  <1>7. 1 \in 1..(Len(out) + 1)
    BY DEF Invariant, Linkage, IsSequence
  <1>8. (IsSequence(stack))'
    BY <1>5 DEF IsSequence
  <1>9. (pc # 0 /\ verdict = "compiled" /\ code = CodeOf(out) /\ pc \in 1..(Len(out) + 1))'
    BY <1>1, <1>7 DEF CodeOf
  <1> QED BY <1>6, <1>8, <1>9 DEF Loaded

LEMMA GoesLoaded ==
  ASSUME AtWork, Goes, UNCHANGED cvars
  PROVE  Loaded'
  <1>1. verdict = "compiled" /\ code = CodeOf(out)
    BY DEF AtWork, Loaded
  <1>2. UNCHANGED <<work, out, labels, verdict>>
    BY DEF cvars
  <1>3. Fitted'
    <2>1. Plan' = Plan /\ Extent' = Extent
      BY <1>2 DEF Plan, Extent
    <2> QED BY <1>2, <2>1 DEF Goes, Fitted
  <1>4. IsSequence(stack)'
    BY DEF Goes, IsSequence
  <1>5. (verdict = "compiled" /\ code = CodeOf(out) /\ pc \in 1..(Len(out) + 1))'
    BY <1>1, <1>2 DEF Goes, CodeOf
  <1>6. pc' # 0
    <2>1. Len(out) \in Nat
      BY DEF AtWork, Linkage, IsSequence
    <2> QED BY <2>1 DEF Goes
  <1> QED BY <1>3, <1>4, <1>5, <1>6 DEF Loaded

\* An instruction is executed where there is one.
LEMMA ExecutesAt ==
  ASSUME Invariant, NEW op, At(op)
  PROVE  AtWork
  <1>1. pc \in DOMAIN code
    BY DEF At
  <1>2. pc # 0
    <2>1. pc = 0 => code = <<>>
      BY DEF Invariant, Loaded
    <2> QED BY <1>1, <2>1
  <1> QED BY <1>1, <1>2 DEF AtWork, Invariant

LEMMA RunStays ==
  ASSUME Invariant, Run
  PROVE  Loaded'
  <1>1. UNCHANGED cvars
    BY DEF Run
  <1>2. Laid /\ Loaded
    BY DEF Invariant
  <1>3. ASSUME \E op : At(op), AtWork => Goes
        PROVE  Loaded'
    <2>1. AtWork
      BY <1>3, ExecutesAt
    <2> QED BY <1>1, <1>3, <2>1, GoesLoaded
  <1>4. ASSUME UNCHANGED <<code, pc, stack>>
        PROVE  Loaded'
    BY <1>1, <1>2, <1>4, StaysLoaded
  <1>5. CASE \/ Literal \/ Collection \/ Join \/ Wrap \/ Construct \/ PushEnum \/ CreateRecord \/ UpdateRecord
             \/ SelectField \/ SelectIndex \/ Deconstruct \/ GetTag \/ Size
             \/ Negate \/ Arithmetic \/ Comparison \/ Load \/ FunctionName
    <2>1. \E op : At(op)
      BY <1>5 DEF Literal, Collection, Join, Wrap, Construct, PushEnum, CreateRecord, UpdateRecord, SelectField,
                  SelectIndex, Deconstruct, GetTag, Size, Negate, Arithmetic, Comparison, Load, FunctionName
    <2>2. AtWork => Goes
      BY <1>2, <1>5, ValuesGo
    <2> QED BY <1>3, <2>1, <2>2
  <1>6. CASE Invoke \/ GenerateWorkerName
    <2>1. \E op : At(op)
      BY <1>6 DEF Invoke, GenerateWorkerName
    <2>2. AtWork => Goes
      BY <1>2, <1>6, CallsGo
    <2> QED BY <1>3, <2>1, <2>2
  <1>7. CASE Skip \/ Assign \/ ToIterator \/ CreateSink
    <2>1. \E op : At(op)
      BY <1>7 DEF Skip, Assign, ToIterator, CreateSink
    <2>2. AtWork => Goes
      BY <1>2, <1>7, VariablesGo
    <2> QED BY <1>3, <2>1, <2>2
  <1>8. CASE Goto \/ JumpUnless
    <2>1. \E op : At(op)
      BY <1>8 DEF Goto, JumpUnless
    <2>2. AtWork => Goes
      BY <1>2, <1>8, JumpsGo
    <2> QED BY <1>3, <2>1, <2>2
  <1>9. CASE Advance \/ IsEmpty
    <2>1. \E op : At(op)
      BY <1>9 DEF Advance, IsEmpty
    <2>2. AtWork => Goes
      BY <1>2, <1>9, AdvanceGoes, IsEmptyGoes
    <2> QED BY <1>3, <2>1, <2>2
  <1>10. CASE PushToSink \/ SinkToList
    <2>1. \E op : At(op)
      BY <1>10 DEF PushToSink, SinkToList
    <2>2. AtWork => Goes
      BY <1>2, <1>10, PushToSinkGoes, SinkToListGoes
    <2> QED BY <1>3, <2>1, <2>2
  <1>11. CASE HostError \/ Fault \/ End
    <2>1. UNCHANGED <<code, pc, stack>>
      BY <1>11 DEF HostError, Fault, End
    <2> QED BY <1>4, <2>1
  <1> QED BY <1>5, <1>6, <1>7, <1>8, <1>9, <1>10, <1>11 DEF Run, Execute

LEMMA StaysInvariant == Invariant /\ [Next]_vars => Invariant'
  <1> SUFFICES ASSUME Invariant, [Next]_vars PROVE Invariant'
    OBVIOUS
  <1>1. Linkage /\ Laid /\ Loaded
    BY DEF Invariant
  <1>2. [CNext]_cvars
    BY DEF Next, Compile, StartRun, Run, vars
  <1>3. Linkage' /\ Laid'
    BY <1>1, <1>2, StaysLinked, StaysLaid
  <1>4. CASE Compile \/ UNCHANGED vars
    <2>1. UNCHANGED <<code, pc, stack>>
      BY <1>4 DEF Compile, vars, mvars
    <2>2. verdict = "compiled" => UNCHANGED cvars
      BY <1>2, CompilerEnds
    <2>3. Loaded'
      BY <1>1, <2>1, <2>2, StaysLoaded
    <2> QED BY <1>3, <2>3 DEF Invariant
  <1>5. CASE StartRun
    BY <1>3, <1>5, StartLoads DEF Invariant
  <1>6. CASE Run
    BY <1>3, <1>6, RunStays DEF Invariant
  <1> QED BY <1>4, <1>5, <1>6 DEF Next

LEMMA InvariantKept == Spec => []Invariant
  BY StartsLoaded, StaysInvariant, PTL DEF Spec

\* What the shapes say is what the property asks.
LEMMA InvariantHasAll == Invariant => NothingMissing
  <1> SUFFICES ASSUME Invariant, pc \in DOMAIN code
               PROVE  /\ Len(stack) >= Takes(code[pc])
                      /\ code[pc].op \in {"push-to-sink", "sink-to-list"} => TopSink(stack) # 0
                      /\ IsJump(code[pc]) => Places(code[pc].imm) # {}
    BY DEF NothingMissing
  <1>1. pc # 0
    <2>1. pc = 0 => code = <<>>
      BY DEF Invariant, Loaded
    <2> QED BY <2>1
  <1>2. AtWork /\ Laid
    BY <1>1 DEF AtWork, Invariant
  <1>3. PICK S, L : Shaped(Plan, Extent, S, L, labels)
    BY <1>2 DEF Laid
  <1>4. PICK W \in Nat, s \in Shape, t \in Shape :
              W = Len(stack) /\ Between(code[pc], s, t, L) /\ Fits(stack, W, s, Len(s)) /\ Len(s) \in Nat /\ Len(s) <= W
    BY <1>2, <1>3, Here
  <1>5. Len(stack) >= Takes(code[pc])
    <2>1. CASE code[pc].op = "jump"
      <3>1. Takes(code[pc]) = 0
        BY <2>1 DEF Takes
      <3> QED BY <1>4, <3>1
    <2>2. CASE code[pc].op \in {"is-empty", "advance"}
      <3>1. Takes(code[pc]) = 1 /\ Len(s) > 0
        BY <1>4, <2>2 DEF Takes, Between, Finds
      <3> QED BY <1>4, <3>1
    <2>3. CASE code[pc].op = "sink-to-list"
      <3>1. Takes(code[pc]) = 0
        BY <2>3 DEF Takes
      <3> QED BY <1>4, <3>1
    <2>4. CASE code[pc].op \notin {"jump", "is-empty", "advance", "sink-to-list"}
      <3>1. Uses(code[pc]) = Takes(code[pc])
        BY <2>4 DEF Uses
      <3>2. Uses(code[pc]) \in 0..Len(stack)
        BY <1>2, <2>4, Enough
      <3>3. Takes(code[pc]) \in 0..W
        BY <1>4, <3>1, <3>2
      <3> QED BY <1>4, <3>3
    <2> QED BY <2>1, <2>2, <2>3, <2>4
  <1>6. ASSUME code[pc].op \in {"push-to-sink", "sink-to-list"}
        PROVE  TopSink(stack) # 0
    <2>1. \E k \in 1..W : Kind(stack[k]) = "sink"
      <3>1. CASE code[pc].op = "push-to-sink"
        <4>1. \E k \in 1..(W - 1) : Kind(stack[k]) = "sink"
          BY <1>2, <1>4, <3>1, SinkUnder
        <4> QED BY <4>1
      <3>2. CASE code[pc].op = "sink-to-list"
        <4>1. PICK m \in Nat : m = Len(s) /\ m > 0 /\ s[m] = "sink"
          BY <1>4, <3>2 DEF Between, Finds
        <4>2. W \in Nat /\ m \in Nat /\ m > 0 /\ s[m] # "any" /\ Fits(stack, W, s, m)
          BY <1>4, <4>1
        <4>3. Among(stack, W, s[m])
          BY <4>2, FitsAmong
        <4> QED BY <4>1, <4>3 DEF Among
      <3> QED BY <1>6, <3>1, <3>2
    <2>2. TopSink(stack) \in 1..W
      BY <1>4, <2>1, TopSinkIsLast
    <2> QED BY <2>2
  <1>7. ASSUME IsJump(code[pc])
        PROVE  Places(code[pc].imm) # {}
    BY <1>2, <1>7, OnePlace
  <1> QED BY <1>5, <1>6, <1>7

(***************************************************************************)
(* However a compiled program branches and loops, the interpreter finds on *)
(* its stack all that an instruction takes, under an element the sink that *)
(* collects it, and the label of a jump.                                   *)
(***************************************************************************)
THEOREM StackSuffices == Spec => []NothingMissing
  BY InvariantKept, InvariantHasAll, PTL

(***************************************************************************)
(* The jumps land also while the program runs that they are in.            *)
(***************************************************************************)
THEOREM RunsLand == Spec => []JumpsLand
  <1>1. Invariant => JumpsLand
    BY LinkedLands DEF Invariant
  <1> QED BY <1>1, InvariantKept, PTL

=============================================================================
