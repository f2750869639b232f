-------------------------- MODULE RibCompile_proofs --------------------------
(***************************************************************************)
(* What the compiler has left to do and what it has written are one list,  *)
(* the plan of the program: the work from the bottom of its stack, then    *)
(* the instructions from the last written.  A step of the compiler leaves  *)
(* the plan as it is, or replaces the expression on top of the stack by    *)
(* what it is compiled to.                                                 *)
(***************************************************************************)
EXTENDS RibCompile, TLAPS

PlanOf(w, o) ==
  [k \in 1..(Len(w) + Len(o)) |->
     IF k <= Len(w) THEN w[k] ELSE IrItem(o[Len(w) + Len(o) + 1 - k])]

Plan == PlanOf(work, out)
Extent == Len(work) + Len(out)

\* P, of n items, with the d items of N in place of item w.
Splice(P, n, w, N, d) ==
  [k \in 1..(n - 1 + d) |->
     IF k < w THEN P[k] ELSE IF k < w + d THEN N[k - w + 1] ELSE P[k - d + 1]]

(***************************************************************************)
(* To replace the top of the work by the items of a, and to write the      *)
(* instructions of b, is a splice of the plan.                             *)
(***************************************************************************)
\* q is the first n elements of p, and then those of a.
Extends(q, p, n, a) ==
  /\ Len(q) = n + Len(a)
  /\ \A k \in 1..n : q[k] = p[k]
  /\ \A k \in Int : n < k /\ k <= n + Len(a) => q[k] = a[k - n]

LEMMA Shortened ==
  ASSUME NEW A, NEW a \in Seq(A), NEW n \in 0..Len(a)
  PROVE  /\ SubSeq(a, 1, n) \in Seq(A)
         /\ Len(SubSeq(a, 1, n)) = n
         /\ \A k \in 1..n : SubSeq(a, 1, n)[k] = a[k]
  OBVIOUS

LEMMA Concatenated ==
  ASSUME NEW A, NEW p \in Seq(A), NEW B, NEW a \in Seq(B)
  PROVE  p \o a \in Seq(A \cup B) /\ Extends(p \o a, p, Len(p), a)
  <1>1. p \in Seq(A \cup B) /\ a \in Seq(A \cup B)
    OBVIOUS
  <1>2. p \o a \in Seq(A \cup B) /\ Len(p \o a) = Len(p) + Len(a)
    BY <1>1
  <1>3. \A k \in 1..Len(p) : (p \o a)[k] = p[k]
    BY <1>1
  <1>4. \A k \in Int : Len(p) < k /\ k <= Len(p) + Len(a) => (p \o a)[k] = a[k - Len(p)]
    BY <1>1
  <1> QED BY <1>2, <1>3, <1>4 DEF Extends

\* From w and o to w2 and o2, the top of the work gives way to a and b.
IsSplice(w, o, w2, o2, a, b) ==
  /\ Len(w2) + Len(o2) = Len(w) + Len(o) - 1 + (Len(a) + Len(b))
  /\ PlanOf(w2, o2) = Splice(PlanOf(w, o), Len(w) + Len(o), Len(w), PlanOf(a, b), Len(a) + Len(b))

LEMMA Spliced ==
  ASSUME NEW T, NEW w \in Seq(T), NEW o \in Seq(T), w # <<>>,
         NEW A, NEW a \in Seq(A), NEW B, NEW b \in Seq(B),
         NEW w2, Extends(w2, w, Len(w) - 1, a), NEW o2, Extends(o2, o, Len(o), b)
  PROVE  IsSplice(w, o, w2, o2, a, b)
  <1>1. PICK W \in Nat, X \in Nat, la \in Nat, lb \in Nat :
          W > 0 /\ W = Len(w) /\ X = Len(o) /\ la = Len(a) /\ lb = Len(b)
    OBVIOUS
  <1>2. PICK n \in Nat, d \in Nat : n = W + X /\ d = la + lb
    OBVIOUS
  <1> DEFINE P  == PlanOf(w, o)
             N  == PlanOf(a, b)
             L  == PlanOf(w2, o2)
             R  == Splice(P, n, W, N, d)
  <1>3. /\ Len(w2) = W - 1 + la
        /\ \A k \in 1..(W - 1) : w2[k] = w[k]
        /\ \A k \in W..(W - 1 + la) : w2[k] = a[k - (W - 1)]
    <2>1. W - 1 \in Nat /\ W - 1 + 1 = W /\ la \in Nat /\ Len(a) = la /\ Extends(w2, w, W - 1, a)
      BY <1>1
    <2> HIDE DEF P, N, L, R
    <2>2. /\ Len(w2) = W - 1 + Len(a)
          /\ \A k \in 1..(W - 1) : w2[k] = w[k]
          /\ \A k \in Int : W - 1 < k /\ k <= W - 1 + Len(a) => w2[k] = a[k - (W - 1)]
      BY <2>1, Zenon DEF Extends
    <2>3. \A k \in W..(W - 1 + la) : k \in Int /\ W - 1 < k /\ k <= W - 1 + Len(a)
      BY <2>1
    <2> QED BY <2>1, <2>2, <2>3, Zenon
  <1>4. /\ Len(o2) = X + lb
        /\ \A k \in 1..X : o2[k] = o[k]
        /\ \A k \in (X + 1)..(X + lb) : o2[k] = b[k - X]
    <2>1. X \in Nat /\ lb \in Nat /\ Len(b) = lb /\ Extends(o2, o, X, b)
      BY <1>1
    <2> HIDE DEF P, N, L, R
    <2>2. /\ Len(o2) = X + Len(b)
          /\ \A k \in 1..X : o2[k] = o[k]
          /\ \A k \in Int : X < k /\ k <= X + Len(b) => o2[k] = b[k - X]
      BY <2>1, Zenon DEF Extends
    <2>3. \A k \in (X + 1)..(X + lb) : k \in Int /\ X < k /\ k <= X + Len(b)
      BY <2>1
    <2> QED BY <2>1, <2>2, <2>3, Zenon
  <1>0. W > 0
    BY <1>1
  <1>5. Len(w2) + Len(o2) = n - 1 + d
    BY <1>2, <1>3, <1>4
  <1>6. L = [k \in 1..(n - 1 + d) |-> IF k <= Len(w2) THEN w2[k] ELSE IrItem(o2[n - 1 + d + 1 - k])]
    BY <1>5 DEF PlanOf
  <1>7. ASSUME NEW k \in 1..(n - 1 + d)
        PROVE  L[k] = R[k]
    <2>1. P = [i \in 1..n |-> IF i <= W THEN w[i] ELSE IrItem(o[n + 1 - i])]
      BY <1>1, <1>2 DEF PlanOf
    <2>2. N = [i \in 1..d |-> IF i <= la THEN a[i] ELSE IrItem(b[d + 1 - i])]
      BY <1>1, <1>2 DEF PlanOf
    <2>3. R[k] = IF k < W THEN P[k] ELSE IF k < W + d THEN N[k - W + 1] ELSE P[k - d + 1]
      <3> HIDE DEF P, N
      <3> QED BY DEF Splice
    <2>4. L[k] = IF k <= Len(w2) THEN w2[k] ELSE IrItem(o2[n + d - k])
      BY <1>6
    <2> HIDE DEF P, N, L, R
    <2>5. CASE k < W
      BY <1>2, <1>3, <2>1, <2>3, <2>4, <2>5
    <2>6. CASE k >= W /\ k < W + la
      <3>1. k - W + 1 \in 1..d /\ k - W + 1 <= la /\ k <= Len(w2) /\ k < W + d
        BY <1>0, <1>2, <1>3, <2>6
      <3> QED BY <1>3, <2>2, <2>3, <2>4, <2>6, <3>1
    <2>7. CASE k >= W + la /\ k < W + d
      <3>1. /\ k - W + 1 \in 1..d /\ ~ (k - W + 1 <= la) /\ ~ (k <= Len(w2)) /\ ~ (k < W)
            /\ n + d - k \in (X + 1)..(X + lb)
            /\ n + d - k - X = d + 1 - (k - W + 1)
        BY <1>0, <1>2, <1>3, <2>7
      <3>2. L[k] = IrItem(b[d + 1 - (k - W + 1)])
        BY <1>4, <2>4, <3>1
      <3>3. R[k] = IrItem(b[d + 1 - (k - W + 1)])
        BY <2>2, <2>3, <2>7, <3>1
      <3> QED BY <3>2, <3>3
    <2>8. CASE k >= W + d
      <3>1. /\ k - d + 1 \in 1..n /\ ~ (k - d + 1 <= W) /\ ~ (k <= Len(w2)) /\ ~ (k < W) /\ ~ (k < W + d)
            /\ n + d - k \in 1..X
            /\ n + d - k = n + 1 - (k - d + 1)
        BY <1>0, <1>2, <1>3, <2>8
      <3>2. L[k] = IrItem(o[n + 1 - (k - d + 1)])
        BY <1>4, <2>4, <3>1
      <3>3. R[k] = IrItem(o[n + 1 - (k - d + 1)])
        BY <2>1, <2>3, <3>1
      <3> QED BY <3>2, <3>3
    <2>9. k \in Int /\ W \in Int /\ la \in Int /\ d \in Int
      BY <1>2
    <2>10. k < W \/ (k >= W /\ k < W + la) \/ (k >= W + la /\ k < W + d) \/ k >= W + d
      BY <2>9
    <2> QED BY <2>5, <2>6, <2>7, <2>8, <2>10
  <1>8. L = [k \in 1..(n - 1 + d) |-> L[k]]
    BY <1>6
  <1>9. W \in 1..n
    BY <1>0, <1>2
  <1>10. L = R
    <2>1. R = [k \in 1..(n - 1 + d) |-> R[k]]
      <3> HIDE DEF P, N
      <3> QED BY DEF Splice
    <2> HIDE DEF L, R
    <2> QED BY <1>7, <1>8, <2>1
  <1> QED BY <1>1, <1>2, <1>5, <1>10 DEF IsSplice

\* From w and o to w2 and o2, the plan stays.
SamePlan(w, o, w2, o2) ==
  /\ Len(w2) + Len(o2) = Len(w) + Len(o)
  /\ PlanOf(w2, o2) = PlanOf(w, o)

LEMMA Written ==
  ASSUME NEW T, NEW w \in Seq(T), NEW o \in Seq(T), w # <<>>, NEW i, w[Len(w)] = IrItem(i),
         NEW w2, Extends(w2, w, Len(w) - 1, <<>>), NEW o2, Extends(o2, o, Len(o), <<i>>)
  PROVE  SamePlan(w, o, w2, o2)
  <1> DEFINE n == Len(w) + Len(o)
  <1>a. Len(w2) = Len(w) - 1 /\ \A k \in 1..(Len(w) - 1) : w2[k] = w[k]
    BY DEF Extends
  <1>b. Len(o2) = Len(o) + 1 /\ o2[Len(o) + 1] = i /\ \A k \in 1..Len(o) : o2[k] = o[k]
    BY DEF Extends
  <1>1. Len(w2) + Len(o2) = n
    BY <1>a, <1>b
  <1>2. PlanOf(w2, o2) = [k \in 1..n |-> IF k <= Len(w2) THEN w2[k] ELSE IrItem(o2[n + 1 - k])]
    BY <1>1 DEF PlanOf
  <1>3. ASSUME NEW k \in 1..n
        PROVE  (IF k <= Len(w2) THEN w2[k] ELSE IrItem(o2[n + 1 - k]))
                 = (IF k <= Len(w) THEN w[k] ELSE IrItem(o[n + 1 - k]))
    <2>1. CASE k < Len(w)
      BY <1>a, <2>1
    <2>2. CASE k = Len(w)
      BY <1>a, <1>b, <2>2
    <2>3. CASE k > Len(w)
      <3>1. n + 1 - k \in 1..Len(o) /\ ~ (k <= Len(w2))
        BY <1>a, <2>3
      <3> QED BY <1>b, <2>3, <3>1
    <2> QED BY <2>1, <2>2, <2>3
  <1> QED BY <1>1, <1>2, <1>3 DEF PlanOf, SamePlan

-----------------------------------------------------------------------------
(***************************************************************************)
(* The labels of the first n items of P are among the first m made, none   *)
(* is there twice, and what is jumped to is there.                         *)
(***************************************************************************)
HasLabel(x) == x.what = "ir" /\ x.it.op = "label"
HasJump(x)  == x.what = "ir" /\ IsJump(x.it)

LabelsMade(P, n, lo, hi) ==
  \A k \in 1..n : HasLabel(P[k]) => P[k].it.imm \in lo..hi

LabelledOnce(P, n) ==
  \A j, k \in 1..n : HasLabel(P[j]) /\ HasLabel(P[k]) /\ P[j].it.imm = P[k].it.imm => j = k

JumpsHaveLabels(P, n) ==
  \A k \in 1..n : HasJump(P[k]) => \E j \in 1..n : HasLabel(P[j]) /\ P[j].it.imm = P[k].it.imm

Linked(P, n, lo, hi) == LabelsMade(P, n, lo, hi) /\ LabelledOnce(P, n) /\ JumpsHaveLabels(P, n)

(***************************************************************************)
(* A splice links as long as what is put in has labels of its own only.    *)
(***************************************************************************)
LEMMA SpliceLinks ==
  ASSUME NEW P, NEW n \in Nat, NEW w \in 1..n, NEW N, NEW d \in Nat,
         NEW m \in Nat, NEW m2 \in Nat, m <= m2,
         P[w].what = "expr",
         Linked(P, n, 1, m), Linked(N, d, m + 1, m2)
  PROVE  Linked(Splice(P, n, w, N, d), n - 1 + d, 1, m2)
  <1> DEFINE R == Splice(P, n, w, N, d)
             to(k) == IF k < w THEN k ELSE k + d - 1
  <1>1. \A k \in 1..(n - 1 + d) : R[k] = IF k < w THEN P[k] ELSE IF k < w + d THEN N[k - w + 1] ELSE P[k - d + 1]
    BY DEF Splice
  <1> HIDE DEF R
  <1>2. ASSUME NEW k \in 1..n, k # w
        PROVE  to(k) \in 1..(n - 1 + d) /\ R[to(k)] = P[k]
    BY <1>1, <1>2
  <1>3. ASSUME NEW k \in 1..d
        PROVE  k + w - 1 \in 1..(n - 1 + d) /\ R[k + w - 1] = N[k]
    BY <1>1
  <1>4. ASSUME NEW k \in 1..(n - 1 + d)
        PROVE  \/ \E j \in 1..n : j # w /\ k = to(j) /\ R[k] = P[j]
               \/ \E j \in 1..d : k = j + w - 1 /\ R[k] = N[j]
    <2>1. CASE k < w
      BY <1>1, <2>1
    <2>2. CASE k >= w /\ k < w + d
      <3>1. k - w + 1 \in 1..d /\ k = (k - w + 1) + w - 1 /\ R[k] = N[k - w + 1]
        BY <1>1, <2>2
      <3> QED BY <3>1
    <2>3. CASE k >= w + d
      <3>1. k - d + 1 \in 1..n /\ k - d + 1 # w /\ k = to(k - d + 1) /\ R[k] = P[k - d + 1]
        BY <1>1, <2>3
      <3> QED BY <3>1
    <2> QED BY <2>1, <2>2, <2>3
  <1>5. ~ HasLabel(P[w]) /\ ~ HasJump(P[w])
    BY DEF HasLabel, HasJump
  <1>6. LabelsMade(R, n - 1 + d, 1, m2)
    <2> SUFFICES ASSUME NEW k \in 1..(n - 1 + d), HasLabel(R[k])
                 PROVE  R[k].it.imm \in 1..m2
      BY DEF LabelsMade
    <2>1. CASE \E j \in 1..n : R[k] = P[j]
      BY <2>1 DEF Linked, LabelsMade
    <2>2. CASE \E j \in 1..d : R[k] = N[j]
      BY <2>2 DEF Linked, LabelsMade
    <2> QED BY <1>4, <2>1, <2>2
  <1>7. LabelledOnce(R, n - 1 + d)
    <2> SUFFICES ASSUME NEW j \in 1..(n - 1 + d), NEW k \in 1..(n - 1 + d),
                        HasLabel(R[j]), HasLabel(R[k]), R[j].it.imm = R[k].it.imm
                 PROVE  j = k
      BY DEF LabelledOnce
    <2>1. CASE \E i, l \in 1..n : R[j] = P[i] /\ R[k] = P[l] /\ j = to(i) /\ k = to(l)
      BY <2>1 DEF Linked, LabelledOnce
    <2>2. CASE \E i, l \in 1..d : R[j] = N[i] /\ R[k] = N[l] /\ j = i + w - 1 /\ k = l + w - 1
      BY <2>2 DEF Linked, LabelledOnce
    <2>3. CASE \E i \in 1..n, l \in 1..d : R[j] = P[i] /\ R[k] = N[l]
      <3>1. R[j].it.imm \in 1..m /\ R[k].it.imm \in (m + 1)..m2
        BY <2>3 DEF Linked, LabelsMade
      <3> QED BY <3>1
    <2>4. CASE \E i \in 1..n, l \in 1..d : R[k] = P[i] /\ R[j] = N[l]
      <3>1. R[k].it.imm \in 1..m /\ R[j].it.imm \in (m + 1)..m2
        BY <2>4 DEF Linked, LabelsMade
      <3> QED BY <3>1
    <2> QED BY <1>4, <2>1, <2>2, <2>3, <2>4
  <1>8. JumpsHaveLabels(R, n - 1 + d)
    <2> SUFFICES ASSUME NEW k \in 1..(n - 1 + d), HasJump(R[k])
                 PROVE  \E j \in 1..(n - 1 + d) : HasLabel(R[j]) /\ R[j].it.imm = R[k].it.imm
      BY DEF JumpsHaveLabels
    <2>1. CASE \E i \in 1..n : R[k] = P[i]
      <3>1. PICK j \in 1..n : HasLabel(P[j]) /\ P[j].it.imm = R[k].it.imm
        BY <2>1 DEF Linked, JumpsHaveLabels
      <3>2. to(j) \in 1..(n - 1 + d) /\ R[to(j)] = P[j]
        BY <1>2, <1>5, <3>1
      <3> HIDE DEF to
      <3> QED BY <3>1, <3>2
    <2>2. CASE \E i \in 1..d : R[k] = N[i]
      <3>1. PICK j \in 1..d : HasLabel(N[j]) /\ N[j].it.imm = R[k].it.imm
        BY <2>2 DEF Linked, JumpsHaveLabels
      <3>2. j + w - 1 \in 1..(n - 1 + d) /\ R[j + w - 1] = N[j]
        BY <1>3, <3>1
      <3> QED BY <3>1, <3>2
    <2> QED BY <1>4, <2>1, <2>2
  <1> QED BY <1>6, <1>7, <1>8 DEF Linked, R

LEMMA NoLinks ==
  ASSUME NEW N, NEW d \in Nat, NEW lo, NEW hi,
         \A k \in 1..d : ~ HasLabel(N[k]) /\ ~ HasJump(N[k])
  PROVE  Linked(N, d, lo, hi)
  BY DEF Linked, LabelsMade, LabelledOnce, JumpsHaveLabels

\* Of the d items of N, p and q are the labels l and k, and jumps are to those.
TwoLabelled(N, d, p, l, q, k) ==
  /\ N[p] = IrItem(Label(l)) /\ N[q] = IrItem(Label(k))
  /\ \A j \in 1..d : HasLabel(N[j]) => j \in {p, q}
  /\ \A j \in 1..d : HasJump(N[j]) => N[j].it.imm \in {l, k}

LEMMA TwoLabels ==
  ASSUME NEW N, NEW d \in Nat, NEW m \in Nat, NEW p \in 1..d, NEW q \in 1..d,
         TwoLabelled(N, d, p, m + 1, q, m + 2)
  PROVE  Linked(N, d, m + 1, m + 2)
  <1>0. /\ N[p] = IrItem(Label(m + 1)) /\ N[q] = IrItem(Label(m + 2))
        /\ \A k \in 1..d : HasLabel(N[k]) => k \in {p, q}
        /\ \A k \in 1..d : HasJump(N[k]) => N[k].it.imm \in {m + 1, m + 2}
    BY DEF TwoLabelled
  <1>1. HasLabel(N[p]) /\ N[p].it.imm = m + 1 /\ HasLabel(N[q]) /\ N[q].it.imm = m + 2
    BY <1>0 DEF HasLabel, IrItem, Label, Ir
  <1>2. LabelsMade(N, d, m + 1, m + 2)
    BY <1>0, <1>1 DEF LabelsMade
  <1>3. LabelledOnce(N, d)
    BY <1>0, <1>1 DEF LabelledOnce
  <1>4. JumpsHaveLabels(N, d)
    BY <1>0, <1>1 DEF JumpsHaveLabels
  <1> QED BY <1>2, <1>3, <1>4 DEF Linked

-----------------------------------------------------------------------------
(***************************************************************************)
(* The invariant of the compiler.                                          *)
(***************************************************************************)
IsSequence(q) == q \in Seq({q[k] : k \in 1..Len(q)})

IsItem(x) == x = IrItem(x.it) \/ (x = ExprItem(x.it) /\ x.it \in Exprs)

AreItems(q) == \A k \in 1..Len(q) : IsItem(q[k])

Linkage ==
  /\ labels \in Nat
  /\ IsSequence(work) /\ IsSequence(out)
  /\ AreItems(work)
  /\ verdict = "compiled" => work = <<>>
  /\ Linked(Plan, Extent, 1, labels)

LEMMA Sequences ==
  ASSUME NEW T, NEW q \in Seq(T)
  PROVE  IsSequence(q)
  BY DEF IsSequence

LEMMA ItemsExtended ==
  ASSUME NEW T, NEW w \in Seq(T), w # <<>>, NEW A, NEW a \in Seq(A),
         NEW w2, Extends(w2, w, Len(w) - 1, a), AreItems(w), AreItems(a)
  PROVE  AreItems(w2)
  <1>1. PICK W \in Int, la \in Int : W = Len(w) /\ la = Len(a)
    OBVIOUS
  <1>2. Len(w2) = W - 1 + la
    BY <1>1 DEF Extends
  <1>3. ASSUME NEW k \in 1..(W - 1 + la)
        PROVE  IsItem(w2[k])
    <2>1. CASE k <= W - 1
      <3>1. k \in 1..(W - 1) /\ k \in 1..W
        BY <1>1, <2>1
      <3>2. w2[k] = w[k] /\ IsItem(w[k])
        BY <1>1, <3>1 DEF Extends, AreItems
      <3> QED BY <3>2
    <2>2. CASE k > W - 1
      <3>1. k - (W - 1) \in 1..la
        BY <1>1, <2>2
      <3>2. w2[k] = a[k - (W - 1)]
        BY <1>1, <2>2 DEF Extends
      <3>3. IsItem(a[k - (W - 1)])
        BY <1>1, <3>1 DEF AreItems
      <3> QED BY <3>2, <3>3
    <2> QED BY <1>1, <2>1, <2>2
  <1> QED BY <1>2, <1>3 DEF AreItems

(***************************************************************************)
(* A step that compiles the expression on top to a and b.                  *)
(***************************************************************************)
Replaced(a, b) ==
  /\ IsSequence(work') /\ IsSequence(out') /\ AreItems(work')
  /\ IsSplice(work, out, work', out', a, b)

LEMMA Lowered ==
  ASSUME Linkage, work # <<>>, NEW a, NEW b, IsSequence(a), IsSequence(b), AreItems(a),
         work' = Pop \o a, out' = out \o b
  PROVE  Replaced(a, b)
  <1> DEFINE T == {work[k] : k \in 1..Len(work)} \cup {out[k] : k \in 1..Len(out)}
             A == {a[k] : k \in 1..Len(a)}
             B == {b[k] : k \in 1..Len(b)}
  <1>1. work \in Seq(T) /\ out \in Seq(T) /\ a \in Seq(A) /\ b \in Seq(B)
    BY DEF Linkage, IsSequence
  <1> HIDE DEF T, A, B
  <1>2. work' \in Seq(T \cup A) /\ Extends(work', work, Len(work) - 1, a)
    <2>1. Len(work) - 1 \in 0..Len(work)
      BY <1>1
    <2>2. Pop \in Seq(T) /\ Len(Pop) = Len(work) - 1 /\ \A k \in 1..(Len(work) - 1) : Pop[k] = work[k]
      BY <1>1, <2>1, Shortened, Zenon DEF Pop
    <2>3. Pop \o a \in Seq(T \cup A) /\ Extends(Pop \o a, Pop, Len(Pop), a)
      BY <1>1, <2>2, Concatenated
    <2> QED BY <2>2, <2>3 DEF Extends
  <1>3. out' \in Seq(T \cup B) /\ Extends(out', out, Len(out), b)
    BY <1>1, Concatenated
  <1>4. IsSplice(work, out, work', out', a, b)
    BY <1>1, <1>2, <1>3, Spliced, Zenon
  <1>5. AreItems(work')
    <2>1. AreItems(work)
      BY DEF Linkage
    <2> QED BY <1>1, <1>2, <2>1, ItemsExtended, Zenon
  <1> QED BY <1>2, <1>3, <1>4, <1>5, Sequences DEF Replaced

LEMMA TopInPlan ==
  ASSUME Linkage, work # <<>>
  PROVE  /\ Extent \in Nat /\ Len(work) \in 1..Extent
         /\ Plan[Len(work)] = work[Len(work)]
  <1>1. Len(work) \in Nat /\ Len(work) > 0 /\ Len(out) \in Nat
    BY DEF Linkage, IsSequence
  <1> QED BY <1>1 DEF Extent, Plan, PlanOf

LEMMA LoweredLinks ==
  ASSUME Linkage, work # <<>>, work[Len(work)].what = "expr",
         NEW a, NEW b, IsSequence(a), IsSequence(b), Replaced(a, b),
         verdict' = "compiling", labels' \in Nat, labels <= labels',
         Linked(PlanOf(a, b), Len(a) + Len(b), labels + 1, labels')
  PROVE  Linkage'
  <1> DEFINE R == Splice(Plan, Extent, Len(work), PlanOf(a, b), Len(a) + Len(b))
  <1>1. Extent' = Extent - 1 + (Len(a) + Len(b)) /\ Plan' = R
    BY DEF Replaced, IsSplice, Plan, Extent
  <1>2. Linked(R, Extent - 1 + (Len(a) + Len(b)), 1, labels')
    <2>1. Extent \in Nat /\ Len(work) \in 1..Extent /\ Plan[Len(work)] = work[Len(work)]
      BY TopInPlan
    <2>2. Len(a) + Len(b) \in Nat /\ labels \in Nat
      BY DEF IsSequence, Linkage
    <2>3. Linked(Plan, Extent, 1, labels)
      BY DEF Linkage
    <2> QED BY <2>1, <2>2, <2>3, SpliceLinks
  <1> QED BY <1>1, <1>2 DEF Linkage, Replaced

-----------------------------------------------------------------------------
(***************************************************************************)
(* What each form is compiled to.                                          *)
(***************************************************************************)
LEMMA Listed ==
  ASSUME NEW n \in Nat, NEW q, q = [k \in 1..n |-> q[k]]
  PROVE  IsSequence(q) /\ Len(q) = n
  <1>1. q \in Seq({q[k] : k \in 1..n}) /\ Len(q) = n
    OBVIOUS
  <1> QED BY <1>1 DEF IsSequence

LEMMA OneMore ==
  ASSUME NEW u, IsSequence(u), NEW n \in Nat, Len(u) = n, NEW c
  PROVE  /\ IsSequence(u \o <<c>>) /\ Len(u \o <<c>>) = n + 1
         /\ (u \o <<c>>)[n + 1] = c
         /\ \A k \in 1..n : (u \o <<c>>)[k] = u[k]
  <1>1. PICK T : u \in Seq(T) /\ <<c>> \in Seq(T)
    <2>1. u \in Seq({u[k] : k \in 1..n} \cup {c}) /\ <<c>> \in Seq({u[k] : k \in 1..n} \cup {c})
      BY DEF IsSequence
    <2> QED BY <2>1
  <1>2. u \o <<c>> \in Seq(T) /\ Len(u \o <<c>>) = n + 1
    BY <1>1
  <1>3. (u \o <<c>>)[n + 1] = c /\ \A k \in 1..n : (u \o <<c>>)[k] = u[k]
    BY <1>1
  <1> QED BY <1>2, <1>3, Sequences

\* An instruction that is no label and no jump.
Straight(i) == i.op \notin {"label", "jump", "jump-if-false"}

LEMMA OwnIsStraight ==
  ASSUME NEW e \in Exprs, e.form \in OperandForms
  PROVE  /\ IsSequence(Own(e))
         /\ \A k \in 1..Len(Own(e)) : Straight(Own(e)[k])
  <1>1. CASE e.form = "record"
    <2>1. Own(e) = Updates(e.tag) \o <<Ir("create-record", e.tag)>>
      BY <1>1 DEF Own
    <2>2. PICK n \in Nat : n = Len(e.tag)
      BY <1>1, ExprsAssumption DEF Formed
    <2>3. Updates(e.tag) = [k \in 1..n |-> Ir("update-record", e.tag[n + 1 - k])]
      BY <2>2 DEF Updates
    <2>4. \A k \in 1..n : Straight(Updates(e.tag)[k])
      BY <2>3 DEF Straight, Ir
    <2>5. IsSequence(Updates(e.tag)) /\ Len(Updates(e.tag)) = n
      BY <2>3, Listed
    <2>6. Straight(Ir("create-record", e.tag))
      BY DEF Straight, Ir
    <2> HIDE DEF Straight
    <2> DEFINE u == Updates(e.tag)
               c == Ir("create-record", e.tag)
    <2> HIDE DEF u, c
    <2>7. /\ IsSequence(u \o <<c>>) /\ Len(u \o <<c>>) = n + 1
          /\ (u \o <<c>>)[n + 1] = c /\ \A k \in 1..n : (u \o <<c>>)[k] = u[k]
      BY <2>5, OneMore DEF u
    <2>8. \A k \in 1..(n + 1) : Straight((u \o <<c>>)[k])
      BY <2>4, <2>6, <2>7 DEF u, c
    <2> QED BY <2>1, <2>7, <2>8 DEF u, c
  <1>2. CASE e.form # "record"
    <2>1. \/ Own(e) = <<>>
          \/ \E i : Own(e) = <<i>> /\ Straight(i)
          \/ \E i, j : Own(e) = <<i, j>> /\ Straight(i) /\ Straight(j)
      BY <1>2 DEF Own, OperandForms, Straight, Ir, Plain, PushLit, LoadVar, AssignVar, Invocation
    <2> HIDE DEF Straight
    <2>2. CASE Own(e) = <<>>
      <3>1. <<>> \in Seq({}) /\ Len(<<>>) = 0
        OBVIOUS
      <3>2. IsSequence(<<>>)
        BY <3>1, Sequences, Zenon
      <3> QED BY <2>2, <3>1, <3>2
    <2>3. CASE \E i : Own(e) = <<i>> /\ Straight(i)
      <3>1. PICK i : Own(e) = <<i>> /\ Straight(i)
        BY <2>3
      <3>2. <<i>> \in Seq({i}) /\ \A k \in 1..Len(<<i>>) : <<i>>[k] = i
        OBVIOUS
      <3>3. IsSequence(<<i>>)
        BY <3>2, Sequences, Zenon
      <3> QED BY <3>1, <3>2, <3>3
    <2>4. CASE \E i, j : Own(e) = <<i, j>> /\ Straight(i) /\ Straight(j)
      <3>1. PICK i, j : Own(e) = <<i, j>> /\ Straight(i) /\ Straight(j)
        BY <2>4
      <3>2. <<i, j>> \in Seq({i, j}) /\ \A k \in 1..Len(<<i, j>>) : <<i, j>>[k] \in {i, j}
        OBVIOUS
      <3>3. IsSequence(<<i, j>>)
        BY <3>2, Sequences, Zenon
      <3> QED BY <3>1, <3>2, <3>3
    <2> QED BY <2>1, <2>2, <2>3, <2>4
  <1> QED BY <1>1, <1>2

LEMMA OperandItems ==
  ASSUME NEW e \in Exprs
  PROVE  /\ Len(e.args) \in Nat
         /\ \A k \in 1..Len(e.args) : e.args[k] \in Exprs
         /\ IsSequence(Operands(e)) /\ Len(Operands(e)) = Len(e.args)
         /\ \A k \in 1..Len(e.args) : Operands(e)[k] = ExprItem(e.args[Len(e.args) + 1 - k])
         /\ AreItems(Operands(e))
  <1>1. e.args \in Seq(Exprs)
    BY ExprsAssumption
  <1>2. PICK n \in Nat : n = Len(e.args)
    BY <1>1
  <1>3. Operands(e) = [k \in 1..n |-> ExprItem(e.args[n + 1 - k])]
    BY <1>2 DEF Operands
  <1>4. \A k \in 1..n : e.args[k] \in Exprs
    BY <1>1, <1>2
  <1>5. IsSequence(Operands(e)) /\ Len(Operands(e)) = n
    BY <1>3, Listed
  <1>6. ASSUME NEW k \in 1..n
        PROVE  IsItem(Operands(e)[k])
    <2>1. n + 1 - k \in 1..n
      OBVIOUS
    <2>2. e.args[n + 1 - k] \in Exprs /\ Operands(e)[k] = ExprItem(e.args[n + 1 - k])
      BY <1>3, <1>4, <2>1
    <2> QED BY <2>2 DEF IsItem, ExprItem
  <1> QED BY <1>2, <1>3, <1>4, <1>5, <1>6 DEF AreItems

LEMMA ItemsOnly ==
  ASSUME NEW a, IsSequence(a)
  PROVE  /\ IsSequence(<<>>) /\ Len(<<>>) = 0
         /\ Len(a) \in Nat /\ Len(a) + Len(<<>>) = Len(a)
         /\ \A k \in 1..Len(a) : PlanOf(a, <<>>)[k] = a[k]
  <1>1. <<>> \in Seq({}) /\ Len(<<>>) = 0
    OBVIOUS
  <1>2. Len(a) \in Nat
    BY DEF IsSequence
  <1>3. \A k \in 1..Len(a) : PlanOf(a, <<>>)[k] = a[k]
    BY <1>1, <1>2 DEF PlanOf
  <1>4. IsSequence(<<>>)
    BY <1>1, Sequences, Zenon
  <1> QED BY <1>1, <1>2, <1>3, <1>4

LEMMA OperandsLink ==
  ASSUME NEW e \in Exprs, e.form \in OperandForms, NEW lo, NEW hi
  PROVE  Linked(PlanOf(Operands(e), Own(e)), Len(Operands(e)) + Len(Own(e)), lo, hi)
  <1>1. PICK n \in Nat : n = Len(Operands(e)) /\ \A k \in 1..n : \E x \in Exprs : Operands(e)[k] = ExprItem(x)
    <2>1. \A k \in 1..Len(e.args) : e.args[Len(e.args) + 1 - k] \in Exprs
      BY OperandItems
    <2> QED BY <2>1, OperandItems
  <1>2. PICK m \in Nat : m = Len(Own(e)) /\ \A k \in 1..m : Straight(Own(e)[k])
    <2>1. IsSequence(Own(e)) /\ \A k \in 1..Len(Own(e)) : Straight(Own(e)[k])
      BY OwnIsStraight
    <2>2. Len(Own(e)) \in Nat
      BY <2>1 DEF IsSequence
    <2> HIDE DEF Straight
    <2> QED BY <2>1, <2>2
  <1> DEFINE N == PlanOf(Operands(e), Own(e))
  <1>3. N = [k \in 1..(n + m) |-> IF k <= n THEN Operands(e)[k] ELSE IrItem(Own(e)[n + m + 1 - k])]
    BY <1>1, <1>2 DEF PlanOf
  <1> HIDE DEF N
  <1>4. ASSUME NEW k \in 1..(n + m)
        PROVE  ~ HasLabel(N[k]) /\ ~ HasJump(N[k])
    <2>1. CASE k <= n
      <3>1. PICK x \in Exprs : N[k] = ExprItem(x)
        BY <1>1, <1>3, <2>1
      <3> QED BY <3>1 DEF HasLabel, HasJump, ExprItem
    <2>2. CASE k > n
      <3>1. n + m + 1 - k \in 1..m /\ N[k] = IrItem(Own(e)[n + m + 1 - k])
        BY <1>3, <2>2
      <3> QED BY <1>2, <3>1 DEF HasLabel, HasJump, IrItem, Straight, IsJump
    <2> QED BY <2>1, <2>2
  <1>5. n + m \in Nat
    OBVIOUS
  <1>6. Linked(N, n + m, lo, hi)
    BY <1>4, <1>5, NoLinks
  <1> QED BY <1>1, <1>2, <1>6 DEF N

LEMMA BlockItems ==
  ASSUME NEW e \in Exprs, NEW lo, NEW hi
  PROVE  /\ IsSequence(InOrder(e)) /\ AreItems(InOrder(e)) /\ Len(InOrder(e)) = Len(e.args)
         /\ \A k \in 1..Len(e.args) : InOrder(e)[k] = ExprItem(e.args[k])
         /\ Linked(PlanOf(InOrder(e), <<>>), Len(InOrder(e)) + Len(<<>>), lo, hi)
  <1>1. PICK n \in Nat : n = Len(e.args) /\ \A k \in 1..n : e.args[k] \in Exprs
    BY OperandItems
  <1>2. InOrder(e) = [k \in 1..n |-> ExprItem(e.args[k])]
    BY <1>1 DEF InOrder
  <1>3. IsSequence(InOrder(e)) /\ Len(InOrder(e)) = n
    BY <1>2, Listed
  <1>4. \A k \in 1..n : IsItem(InOrder(e)[k])
    BY <1>1, <1>2 DEF IsItem, ExprItem
  <1>5. \A k \in 1..n : ~ HasLabel(InOrder(e)[k]) /\ ~ HasJump(InOrder(e)[k])
    BY <1>2 DEF HasLabel, HasJump, ExprItem
  <1>6. Linked(PlanOf(InOrder(e), <<>>), n, lo, hi)
    BY <1>3, <1>5, ItemsOnly, NoLinks
  <1> QED BY <1>1, <1>2, <1>3, <1>4, <1>6, ItemsOnly DEF AreItems

LEMMA StandingItem ==
  ASSUME NEW e \in Exprs, e.form \in StandingForms, Standing(e) # NoExpr, NEW lo, NEW hi
  PROVE  LET a == <<ExprItem(Standing(e))>>
         IN  /\ IsSequence(a) /\ AreItems(a) /\ Len(a) = 1
             /\ Linked(PlanOf(a, <<>>), Len(a) + Len(<<>>), lo, hi)
  <1>1. PICK x \in Exprs : x = Standing(e)
    BY ExprsAssumption
  <1> DEFINE a == <<ExprItem(x)>>
  <1>2. a \in Seq({ExprItem(x)}) /\ Len(a) = 1 /\ \A k \in 1..Len(a) : a[k] = ExprItem(x)
    OBVIOUS
  <1> HIDE DEF a
  <1>3. IsSequence(a)
    BY <1>2, Sequences
  <1>4. AreItems(a)
    BY <1>2 DEF AreItems, IsItem, ExprItem
  <1>5. \A k \in 1..Len(a) : ~ HasLabel(a[k]) /\ ~ HasJump(a[k])
    BY <1>2 DEF HasLabel, HasJump, ExprItem
  <1>6. Linked(PlanOf(a, <<>>), Len(a) + Len(<<>>), lo, hi)
    BY <1>3, <1>5, ItemsOnly, NoLinks
  <1> QED BY <1>1, <1>2, <1>3, <1>4, <1>6 DEF a

LEMMA ExprAt ==
  ASSUME NEW x, \E e \in Exprs : x = ExprItem(e)
  PROVE  IsItem(x) /\ ~ HasLabel(x) /\ ~ HasJump(x)
  BY DEF IsItem, HasLabel, HasJump, ExprItem

LEMMA StraightAt ==
  ASSUME NEW x, \E i : x = IrItem(i) /\ Straight(i)
  PROVE  IsItem(x) /\ ~ HasLabel(x) /\ ~ HasJump(x)
  BY DEF IsItem, HasLabel, HasJump, IrItem, Straight, IsJump

LEMMA JumpAt ==
  ASSUME NEW x, NEW A, \E i : x = IrItem(i) /\ IsJump(i) /\ i.imm \in A
  PROVE  IsItem(x) /\ ~ HasLabel(x) /\ x.it.imm \in A
  BY DEF IsItem, HasLabel, IrItem, IsJump

LEMMA LabelAt ==
  ASSUME NEW x, \E l : x = IrItem(Label(l))
  PROVE  IsItem(x) /\ ~ HasJump(x)
  BY DEF IsItem, HasJump, IrItem, IsJump, Label, Ir

LEMMA ItemsLink ==
  ASSUME NEW a, IsSequence(a), NEW n \in Nat, Len(a) = n, NEW p \in 1..n, NEW q \in 1..n,
         NEW l \in Nat, TwoLabelled(a, n, p, l + 1, q, l + 2)
  PROVE  Linked(PlanOf(a, <<>>), Len(a) + Len(<<>>), l + 1, l + 2)
  <1> DEFINE N == PlanOf(a, <<>>)
  <1>1. Len(a) + Len(<<>>) = n /\ \A k \in 1..n : N[k] = a[k]
    BY ItemsOnly
  <1> HIDE DEF N
  <1>2. TwoLabelled(N, n, p, l + 1, q, l + 2)
    <2>1. \A j \in 1..n : HasLabel(N[j]) => j \in {p, q}
      BY <1>1 DEF TwoLabelled
    <2>2. \A j \in 1..n : HasJump(N[j]) => N[j].it.imm \in {l + 1, l + 2}
      BY <1>1 DEF TwoLabelled
    <2> QED BY <1>1, <2>1, <2>2 DEF TwoLabelled
  <1>3. Linked(N, n, l + 1, l + 2)
    BY <1>2, TwoLabels, Zenon
  <1> QED BY <1>1, <1>3 DEF N

LEMMA ChoiceItems ==
  ASSUME NEW e \in Exprs, e.form = "cond", NEW l \in Nat
  PROVE  LET a == Choice(e, l + 1, l + 2)
         IN  /\ IsSequence(a) /\ AreItems(a) /\ Len(a) = 7
             /\ Linked(PlanOf(a, <<>>), Len(a) + Len(<<>>), l + 1, l + 2)
  <1> DEFINE a == Choice(e, l + 1, l + 2)
  <1>1. a \in Seq({a[k] : k \in 1..7}) /\ Len(a) = 7
    BY DEF Choice
  <1>2. IsSequence(a)
    <2> HIDE DEF a
    <2> QED BY <1>1 DEF IsSequence
  <1>3. /\ a[1] = ExprItem(e.args[1]) /\ a[2] = IrItem(JumpIfFalse(l + 1)) /\ a[3] = ExprItem(e.args[2])
        /\ a[4] = IrItem(Jump(l + 2)) /\ a[5] = IrItem(Label(l + 1)) /\ a[6] = ExprItem(e.args[3])
        /\ a[7] = IrItem(Label(l + 2))
    BY DEF Choice
  <1>4. e.args[1] \in Exprs /\ e.args[2] \in Exprs /\ e.args[3] \in Exprs
    <2>1. Len(e.args) = 3
      BY ExprsAssumption DEF Formed, TwoOperands
    <2> QED BY <2>1, OperandItems
  <1> HIDE DEF a
  <1>5. ASSUME NEW k \in 1..7
        PROVE  k \in {1, 3, 6} \/ k \in {} \/ k \in {2, 4} \/ k \in {5, 7}
    OBVIOUS
  <1>6. \A k \in {1, 3, 6} : \E x \in Exprs : a[k] = ExprItem(x)
    BY <1>3, <1>4
  <1>7. \A k \in {} : \E i : a[k] = IrItem(i) /\ Straight(i)
    BY <1>3 DEF Straight, Plain, AssignVar, LoadVar, Ir
  <1>8. \A k \in {2, 4} : \E i : a[k] = IrItem(i) /\ IsJump(i) /\ i.imm \in {l + 1, l + 2}
    BY <1>3 DEF IsJump, Jump, JumpIfFalse, Ir
  <1>9. a[5] = IrItem(Label(l + 1)) /\ a[7] = IrItem(Label(l + 2))
    BY <1>3
    <1>10. ASSUME NEW k \in 1..7
         PROVE  /\ IsItem(a[k])
                /\ HasLabel(a[k]) => k \in {5, 7}
                /\ HasJump(a[k]) => a[k].it.imm \in {l + 1, l + 2}
    <2>1. CASE k \in {1, 3, 6}
      BY <1>6, <2>1, ExprAt, Zenon
    <2>2. CASE k \in {}
      BY <1>7, <2>2, StraightAt, Zenon
    <2>3. CASE k \in {2, 4}
      BY <1>8, <2>3, JumpAt, Zenon
    <2>4. CASE k \in {5, 7}
      <3>1. \E i : a[k] = IrItem(Label(i))
        BY <1>9, <2>4
      <3> QED BY <2>4, <3>1, LabelAt, Zenon
    <2> QED BY <1>5, <2>1, <2>2, <2>3, <2>4
  <1>11. AreItems(a) /\ TwoLabelled(a, 7, 5, l + 1, 7, l + 2)
    BY <1>1, <1>9, <1>10 DEF AreItems, TwoLabelled
  <1>12. Linked(PlanOf(a, <<>>), Len(a) + Len(<<>>), l + 1, l + 2)
    <2>1. 5 \in 1..7 /\ 7 \in 1..7 /\ 7 \in Nat
      OBVIOUS
    <2> QED BY <1>1, <1>2, <1>11, <2>1, ItemsLink, Zenon
  <1> QED BY <1>1, <1>2, <1>11, <1>12 DEF a

LEMMA ComprehensionItems ==
  ASSUME NEW e \in Exprs, e.form = "for", NEW l \in Nat
  PROVE  LET a == Comprehension(e, l + 1, l + 2)
         IN  /\ IsSequence(a) /\ AreItems(a) /\ Len(a) = 13
             /\ Linked(PlanOf(a, <<>>), Len(a) + Len(<<>>), l + 1, l + 2)
  <1> DEFINE a == Comprehension(e, l + 1, l + 2)
  <1>1. a \in Seq({a[k] : k \in 1..13}) /\ Len(a) = 13
    BY DEF Comprehension
  <1>2. IsSequence(a)
    <2> HIDE DEF a
    <2> QED BY <1>1 DEF IsSequence
  <1>3. /\ a[1] = ExprItem(e.args[1]) /\ a[2] = IrItem(Plain("to-iterator")) /\ a[3] = IrItem(Plain("create-sink"))
        /\ a[4] = IrItem(Label(l + 1)) /\ a[5] = IrItem(Plain("is-empty")) /\ a[6] = IrItem(JumpIfFalse(l + 2))
        /\ a[7] = IrItem(Plain("advance")) /\ a[8] = IrItem(AssignVar(e.tag)) /\ a[9] = ExprItem(e.args[2])
        /\ a[10] = IrItem(Plain("push-to-sink")) /\ a[11] = IrItem(Jump(l + 1)) /\ a[12] = IrItem(Label(l + 2))
        /\ a[13] = IrItem(Plain("sink-to-list"))
    BY DEF Comprehension
  <1>4. e.args[1] \in Exprs /\ e.args[2] \in Exprs
    <2>1. Len(e.args) = 2
      BY ExprsAssumption DEF Formed, TwoOperands
    <2> QED BY <2>1, OperandItems
  <1> HIDE DEF a
  <1>5. ASSUME NEW k \in 1..13
        PROVE  k \in {1, 9} \/ k \in {2, 3, 5, 7, 8, 10, 13} \/ k \in {6, 11} \/ k \in {4, 12}
    OBVIOUS
  <1>6. \A k \in {1, 9} : \E x \in Exprs : a[k] = ExprItem(x)
    BY <1>3, <1>4
  <1>7. \A k \in {2, 3, 5, 7, 8, 10, 13} : \E i : a[k] = IrItem(i) /\ Straight(i)
    BY <1>3 DEF Straight, Plain, AssignVar, LoadVar, Ir
  <1>8. \A k \in {6, 11} : \E i : a[k] = IrItem(i) /\ IsJump(i) /\ i.imm \in {l + 1, l + 2}
    BY <1>3 DEF IsJump, Jump, JumpIfFalse, Ir
  <1>9. a[4] = IrItem(Label(l + 1)) /\ a[12] = IrItem(Label(l + 2))
    BY <1>3
    <1>10. ASSUME NEW k \in 1..13
         PROVE  /\ IsItem(a[k])
                /\ HasLabel(a[k]) => k \in {4, 12}
                /\ HasJump(a[k]) => a[k].it.imm \in {l + 1, l + 2}
    <2>1. CASE k \in {1, 9}
      BY <1>6, <2>1, ExprAt, Zenon
    <2>2. CASE k \in {2, 3, 5, 7, 8, 10, 13}
      BY <1>7, <2>2, StraightAt, Zenon
    <2>3. CASE k \in {6, 11}
      BY <1>8, <2>3, JumpAt, Zenon
    <2>4. CASE k \in {4, 12}
      <3>1. \E i : a[k] = IrItem(Label(i))
        BY <1>9, <2>4
      <3> QED BY <2>4, <3>1, LabelAt, Zenon
    <2> QED BY <1>5, <2>1, <2>2, <2>3, <2>4
  <1>11. AreItems(a) /\ TwoLabelled(a, 13, 4, l + 1, 12, l + 2)
    BY <1>1, <1>9, <1>10 DEF AreItems, TwoLabelled
  <1>12. Linked(PlanOf(a, <<>>), Len(a) + Len(<<>>), l + 1, l + 2)
    <2>1. 4 \in 1..13 /\ 12 \in 1..13 /\ 13 \in Nat
      OBVIOUS
    <2> QED BY <1>1, <1>2, <1>11, <2>1, ItemsLink, Zenon
  <1> QED BY <1>1, <1>2, <1>11, <1>12 DEF a

LEMMA ReductionItems ==
  ASSUME NEW e \in Exprs, e.form = "reduce", NEW l \in Nat
  PROVE  LET a == Reduction(e, l + 1, l + 2)
         IN  /\ IsSequence(a) /\ AreItems(a) /\ Len(a) = 14
             /\ Linked(PlanOf(a, <<>>), Len(a) + Len(<<>>), l + 1, l + 2)
  <1> DEFINE a == Reduction(e, l + 1, l + 2)
  <1>1. a \in Seq({a[k] : k \in 1..14}) /\ Len(a) = 14
    BY DEF Reduction
  <1>2. IsSequence(a)
    <2> HIDE DEF a
    <2> QED BY <1>1 DEF IsSequence
  <1>3. /\ a[1] = ExprItem(e.args[1]) /\ a[2] = ExprItem(e.args[2]) /\ a[3] = IrItem(AssignVar(e.tag[1]))
        /\ a[4] = IrItem(Plain("to-iterator")) /\ a[5] = IrItem(Label(l + 1)) /\ a[6] = IrItem(Plain("is-empty"))
        /\ a[7] = IrItem(JumpIfFalse(l + 2)) /\ a[8] = IrItem(Plain("advance")) /\ a[9] = IrItem(AssignVar(e.tag[2]))
        /\ a[10] = ExprItem(e.args[3]) /\ a[11] = IrItem(AssignVar(e.tag[1])) /\ a[12] = IrItem(Jump(l + 1))
        /\ a[13] = IrItem(Label(l + 2)) /\ a[14] = IrItem(LoadVar(e.tag[1]))
    BY DEF Reduction
  <1>4. e.args[1] \in Exprs /\ e.args[2] \in Exprs /\ e.args[3] \in Exprs
    <2>1. Len(e.args) = 3
      BY ExprsAssumption DEF Formed, TwoOperands
    <2> QED BY <2>1, OperandItems
  <1> HIDE DEF a
  <1>5. ASSUME NEW k \in 1..14
        PROVE  k \in {1, 2, 10} \/ k \in {3, 4, 6, 8, 9, 11, 14} \/ k \in {7, 12} \/ k \in {5, 13}
    OBVIOUS
  <1>6. \A k \in {1, 2, 10} : \E x \in Exprs : a[k] = ExprItem(x)
    BY <1>3, <1>4
  <1>7. \A k \in {3, 4, 6, 8, 9, 11, 14} : \E i : a[k] = IrItem(i) /\ Straight(i)
    BY <1>3 DEF Straight, Plain, AssignVar, LoadVar, Ir
  <1>8. \A k \in {7, 12} : \E i : a[k] = IrItem(i) /\ IsJump(i) /\ i.imm \in {l + 1, l + 2}
    BY <1>3 DEF IsJump, Jump, JumpIfFalse, Ir
  <1>9. a[5] = IrItem(Label(l + 1)) /\ a[13] = IrItem(Label(l + 2))
    BY <1>3
    <1>10. ASSUME NEW k \in 1..14
         PROVE  /\ IsItem(a[k])
                /\ HasLabel(a[k]) => k \in {5, 13}
                /\ HasJump(a[k]) => a[k].it.imm \in {l + 1, l + 2}
    <2>1. CASE k \in {1, 2, 10}
      BY <1>6, <2>1, ExprAt, Zenon
    <2>2. CASE k \in {3, 4, 6, 8, 9, 11, 14}
      BY <1>7, <2>2, StraightAt, Zenon
    <2>3. CASE k \in {7, 12}
      BY <1>8, <2>3, JumpAt, Zenon
    <2>4. CASE k \in {5, 13}
      <3>1. \E i : a[k] = IrItem(Label(i))
        BY <1>9, <2>4
      <3> QED BY <2>4, <3>1, LabelAt, Zenon
    <2> QED BY <1>5, <2>1, <2>2, <2>3, <2>4
  <1>11. AreItems(a) /\ TwoLabelled(a, 14, 5, l + 1, 13, l + 2)
    BY <1>1, <1>9, <1>10 DEF AreItems, TwoLabelled
  <1>12. Linked(PlanOf(a, <<>>), Len(a) + Len(<<>>), l + 1, l + 2)
    <2>1. 5 \in 1..14 /\ 13 \in 1..14 /\ 14 \in Nat
      OBVIOUS
    <2> QED BY <1>1, <1>2, <1>11, <2>1, ItemsLink, Zenon
  <1> QED BY <1>1, <1>2, <1>11, <1>12 DEF a

LEMMA RangeItems ==
  ASSUME NEW e \in Exprs, e.form \in {"range", "range-from"}, NEW lo, NEW hi
  PROVE  /\ IsSequence(Bounds(e)) /\ IsSequence(RangeOwn(e)) /\ AreItems(Bounds(e))
         /\ Linked(PlanOf(Bounds(e), RangeOwn(e)), Len(Bounds(e)) + Len(RangeOwn(e)), lo, hi)
  <1>1. PICK n \in Nat : /\ n = Len(Append(Ends(e), "inclusive"))
                         /\ \A k \in 1..n : Straight(Ir("update-record", Append(Ends(e), "inclusive")[k]))
    BY DEF Ends, Straight, Ir
  <1> DEFINE u == [k \in 1..n |-> Ir("update-record", Append(Ends(e), "inclusive")[k])]
             c == Ir("create-record", Append(Ends(e), "inclusive"))
             b == RangeOwn(e)
  <1>2. b = u \o <<c>>
    BY <1>1 DEF RangeOwn
  <1>3. IsSequence(u) /\ Len(u) = n /\ \A k \in 1..n : Straight(u[k])
    <2>1. \A k \in 1..n : Straight(u[k])
      BY <1>1
    <2> QED BY <2>1, Listed
  <1>4. Straight(c)
    BY DEF Straight, Ir
  <1> HIDE DEF u, c, Straight
  <1>5. IsSequence(b) /\ Len(b) = n + 1 /\ \A k \in 1..(n + 1) : Straight(b[k])
    BY <1>2, <1>3, <1>4, OneMore
  <1> DEFINE a == Bounds(e)
             lit == PushLit(Boolean(e.tag))
  <1>6. e.args[1] \in Exprs /\ (e.form = "range" => e.args[2] \in Exprs)
    <2>1. Len(e.args) = IF e.form = "range" THEN 2 ELSE 1
      BY ExprsAssumption DEF Formed, OneOperand, TwoOperands
    <2> QED BY <2>1, OperandItems
  <1>7. Straight(lit)
    BY DEF Straight, PushLit, Ir
  <1>8. \/ a = <<ExprItem(e.args[1]), ExprItem(e.args[2]), IrItem(lit)>> /\ e.form = "range"
        \/ a = <<ExprItem(e.args[1]), IrItem(lit)>>
    BY DEF Bounds
  <1> HIDE DEF b, a, lit
  <1>9. PICK m \in Nat : m = Len(a) /\ a \in Seq({a[k] : k \in 1..m})
    <2>1. PICK p, q, r : a = <<p, q, r>> \/ a = <<p, q>>
      BY <1>8
    <2>2. CASE a = <<p, q, r>>
      <3>1. 3 = Len(a) /\ a \in Seq({a[k] : k \in 1..3})
        BY <2>2
      <3> QED BY <3>1
    <2>3. CASE a = <<p, q>>
      <3>1. 2 = Len(a) /\ a \in Seq({a[k] : k \in 1..2})
        BY <2>3
      <3> QED BY <3>1
    <2> QED BY <2>1, <2>2, <2>3
  <1>10. \A k \in 1..m : (\E x \in Exprs : a[k] = ExprItem(x)) \/ a[k] = IrItem(lit)
    BY <1>6, <1>8, <1>9
  <1>11. IsSequence(a)
    BY <1>9 DEF IsSequence
  <1>12. ASSUME NEW k \in 1..m
         PROVE  IsItem(a[k]) /\ ~ HasLabel(a[k]) /\ ~ HasJump(a[k])
    <2>1. CASE \E x \in Exprs : a[k] = ExprItem(x)
      BY <2>1, ExprAt, Zenon
    <2>2. CASE a[k] = IrItem(lit)
      BY <1>7, <2>2, StraightAt, Zenon
    <2> QED BY <1>10, <2>1, <2>2
  <1>13. AreItems(a)
    BY <1>9, <1>12 DEF AreItems
  <1>14. Linked(PlanOf(a, b), Len(a) + Len(b), lo, hi)
    <2> DEFINE N == PlanOf(a, b)
    <2>1. Len(a) + Len(b) = m + (n + 1)
      BY <1>5, <1>9
    <2>2. N = [k \in 1..(m + (n + 1)) |-> IF k <= m THEN a[k] ELSE IrItem(b[m + (n + 1) + 1 - k])]
      BY <1>5, <1>9 DEF PlanOf
    <2> HIDE DEF N
    <2>3. ASSUME NEW k \in 1..(m + (n + 1))
          PROVE  ~ HasLabel(N[k]) /\ ~ HasJump(N[k])
      <3>1. CASE k <= m
        BY <1>12, <2>2, <3>1
      <3>2. CASE k > m
        <4>1. m + (n + 1) + 1 - k \in 1..(n + 1) /\ N[k] = IrItem(b[m + (n + 1) + 1 - k])
          BY <2>2, <3>2
        <4>2. \E i : N[k] = IrItem(i) /\ Straight(i)
          BY <1>5, <4>1
        <4> QED BY <4>2, StraightAt, Zenon
      <3> QED BY <3>1, <3>2
    <2>4. m + (n + 1) \in Nat
      OBVIOUS
    <2> QED BY <2>1, <2>3, <2>4, NoLinks DEF N
  <1> QED BY <1>5, <1>11, <1>13, <1>14 DEF a, b

-----------------------------------------------------------------------------
(***************************************************************************)
(* A step that compiles an expression to a and b.                          *)
(***************************************************************************)
LEMMA OnTop ==
  ASSUME Linkage, NEW forms, Lowering(forms)
  PROVE  /\ verdict = "compiling" /\ work # <<>> /\ work[Len(work)].what = "expr"
         /\ Top \in Exprs /\ Top.form \in forms /\ work[Len(work)] = ExprItem(Top)
  <1>1. Len(work) \in 1..Len(work)
    BY DEF Linkage, IsSequence, Lowering
  <1>2. IsItem(work[Len(work)])
    BY <1>1 DEF Linkage, AreItems
  <1> QED BY <1>2 DEF Lowering, Top, IsItem, IrItem, ExprItem

\* The expression e on top becomes a and b, with m labels of its own.
Compiles(e, a, b, m) ==
  /\ verdict = "compiling" /\ verdict' = "compiling"
  /\ work # <<>> /\ work[Len(work)] = ExprItem(e)
  /\ IsSequence(a) /\ IsSequence(b) /\ Replaced(a, b)
  /\ labels' = labels + m

LEMMA CompilesLinks ==
  ASSUME Linkage, NEW e, NEW a, NEW b, NEW m \in Nat, Compiles(e, a, b, m),
         Linked(PlanOf(a, b), Len(a) + Len(b), labels + 1, labels + m)
  PROVE  Linkage'
  <1>1. work[Len(work)].what = "expr" /\ work # <<>>
    BY DEF Compiles, ExprItem
  <1>2. labels' \in Nat /\ labels <= labels' /\ labels' = labels + m
    BY DEF Linkage, Compiles
  <1>3. IsSequence(a) /\ IsSequence(b) /\ Replaced(a, b) /\ verdict' = "compiling"
    BY DEF Compiles
  <1>4. Linked(PlanOf(a, b), Len(a) + Len(b), labels + 1, labels')
    BY <1>2
  <1> QED BY <1>1, <1>2, <1>3, <1>4, LoweredLinks, Zenon

LEMMA OperandsCompile ==
  ASSUME Linkage, LowerOperands
  PROVE  Top \in Exprs /\ Top.form \in OperandForms /\ Compiles(Top, Operands(Top), Own(Top), 0)
  <1>1. Lowering(OperandForms) /\ work' = Pop \o Operands(Top) /\ out' = out \o Own(Top)
    BY DEF LowerOperands
  <1>2. Top \in Exprs /\ Top.form \in OperandForms /\ work # <<>>
    BY <1>1, OnTop
  <1>3. IsSequence(Operands(Top)) /\ AreItems(Operands(Top)) /\ IsSequence(Own(Top))
    BY <1>2, OperandItems, OwnIsStraight
  <1>4. Replaced(Operands(Top), Own(Top))
    BY <1>1, <1>2, <1>3, Lowered, Zenon
  <1>5. labels' = labels + 0
    BY DEF LowerOperands, Linkage
  <1> QED BY <1>1, <1>2, <1>3, <1>4, <1>5, OnTop DEF LowerOperands, Compiles

LEMMA NothingOut ==
  ASSUME Linkage, UNCHANGED out
  PROVE  IsSequence(<<>>) /\ out' = out \o <<>>
  BY ItemsOnly DEF Linkage, IsSequence

LEMMA BlockCompiles ==
  ASSUME Linkage, LowerBlock
  PROVE  Top \in Exprs /\ Top.form = "block" /\ Compiles(Top, InOrder(Top), <<>>, 0)
  <1>1. Lowering({"block"}) /\ work' = Pop \o InOrder(Top) /\ UNCHANGED out
    BY DEF LowerBlock
  <1>2. Top \in Exprs /\ Top.form \in {"block"} /\ work # <<>>
    BY <1>1, OnTop
  <1>3. IsSequence(InOrder(Top)) /\ AreItems(InOrder(Top))
    BY <1>2, BlockItems
  <1>4. IsSequence(<<>>) /\ out' = out \o <<>>
    BY <1>1, NothingOut
  <1>5. Replaced(InOrder(Top), <<>>)
    BY <1>1, <1>2, <1>3, <1>4, Lowered, Zenon
  <1>6. labels' = labels + 0
    BY DEF LowerBlock, Linkage
  <1> QED BY <1>1, <1>2, <1>3, <1>4, <1>5, <1>6, OnTop DEF LowerBlock, Compiles

LEMMA StandingCompiles ==
  ASSUME Linkage, LowerStanding
  PROVE  /\ Top \in Exprs /\ Top.form \in StandingForms /\ Standing(Top) # NoExpr
         /\ Compiles(Top, <<ExprItem(Standing(Top))>>, <<>>, 0)
  <1>1. Lowering(StandingForms) /\ work' = Pop \o <<ExprItem(Standing(Top))>> /\ UNCHANGED out
    BY DEF LowerStanding
  <1>2. Top \in Exprs /\ Top.form \in StandingForms /\ work # <<>> /\ Standing(Top) # NoExpr
    BY <1>1, OnTop DEF LowerStanding
  <1>3. IsSequence(<<ExprItem(Standing(Top))>>) /\ AreItems(<<ExprItem(Standing(Top))>>)
    BY <1>2, StandingItem
  <1>4. IsSequence(<<>>) /\ out' = out \o <<>>
    BY <1>1, NothingOut
  <1>5. Replaced(<<ExprItem(Standing(Top))>>, <<>>)
    BY <1>1, <1>2, <1>3, <1>4, Lowered, Zenon
  <1>6. labels' = labels + 0
    BY DEF LowerStanding, Linkage
  <1> QED BY <1>1, <1>2, <1>3, <1>4, <1>5, <1>6, OnTop DEF LowerStanding, Compiles

LEMMA RangeCompiles ==
  ASSUME Linkage, LowerRange
  PROVE  /\ Top \in Exprs /\ Top.form \in {"range", "range-from"}
         /\ Compiles(Top, Bounds(Top), RangeOwn(Top), 0)
  <1>1. /\ Lowering({"range", "range-from"})
        /\ work' = Pop \o Bounds(Top) /\ out' = out \o RangeOwn(Top)
    BY DEF LowerRange
  <1>2. Top \in Exprs /\ Top.form \in {"range", "range-from"} /\ work # <<>>
    BY <1>1, OnTop
  <1>3. IsSequence(Bounds(Top)) /\ AreItems(Bounds(Top)) /\ IsSequence(RangeOwn(Top))
    BY <1>2, RangeItems
  <1>4. Replaced(Bounds(Top), RangeOwn(Top))
    BY <1>1, <1>2, <1>3, Lowered, Zenon
  <1>5. labels' = labels + 0
    BY DEF LowerRange, Linkage
  <1> QED BY <1>1, <1>2, <1>3, <1>4, <1>5, OnTop DEF LowerRange, Compiles

LEMMA ChoiceCompiles ==
  ASSUME Linkage, LowerIf
  PROVE  /\ Top \in Exprs /\ Top.form = "cond" /\ labels \in Nat
         /\ Compiles(Top, Choice(Top, labels + 1, labels + 2), <<>>, 2)
  <1> DEFINE a == Choice(Top, labels + 1, labels + 2)
  <1>1. Lowering({"cond"}) /\ work' = Pop \o a /\ UNCHANGED out /\ labels' = labels + 2
    BY DEF LowerIf
  <1>2. Top \in Exprs /\ Top.form \in {"cond"} /\ work # <<>> /\ labels \in Nat
    BY <1>1, OnTop DEF Linkage
  <1>3. IsSequence(a) /\ AreItems(a)
    BY <1>2, ChoiceItems
  <1>4. IsSequence(<<>>) /\ out' = out \o <<>>
    BY <1>1, NothingOut
  <1> HIDE DEF a
  <1>5. Replaced(a, <<>>)
    BY <1>1, <1>2, <1>3, <1>4, Lowered, Zenon
  <1> QED BY <1>1, <1>2, <1>3, <1>4, <1>5, OnTop DEF LowerIf, Compiles, a

LEMMA ComprehensionCompiles ==
  ASSUME Linkage, LowerFor
  PROVE  /\ Top \in Exprs /\ Top.form = "for" /\ labels \in Nat
         /\ Compiles(Top, Comprehension(Top, labels + 1, labels + 2), <<>>, 2)
  <1> DEFINE a == Comprehension(Top, labels + 1, labels + 2)
  <1>1. Lowering({"for"}) /\ work' = Pop \o a /\ UNCHANGED out /\ labels' = labels + 2
    BY DEF LowerFor
  <1>2. Top \in Exprs /\ Top.form \in {"for"} /\ work # <<>> /\ labels \in Nat
    BY <1>1, OnTop DEF Linkage
  <1>3. IsSequence(a) /\ AreItems(a)
    BY <1>2, ComprehensionItems
  <1>4. IsSequence(<<>>) /\ out' = out \o <<>>
    BY <1>1, NothingOut
  <1> HIDE DEF a
  <1>5. Replaced(a, <<>>)
    BY <1>1, <1>2, <1>3, <1>4, Lowered, Zenon
  <1> QED BY <1>1, <1>2, <1>3, <1>4, <1>5, OnTop DEF LowerFor, Compiles, a

LEMMA ReductionCompiles ==
  ASSUME Linkage, LowerReduce
  PROVE  /\ Top \in Exprs /\ Top.form = "reduce" /\ labels \in Nat
         /\ Compiles(Top, Reduction(Top, labels + 1, labels + 2), <<>>, 2)
  <1> DEFINE a == Reduction(Top, labels + 1, labels + 2)
  <1>1. Lowering({"reduce"}) /\ work' = Pop \o a /\ UNCHANGED out /\ labels' = labels + 2
    BY DEF LowerReduce
  <1>2. Top \in Exprs /\ Top.form \in {"reduce"} /\ work # <<>> /\ labels \in Nat
    BY <1>1, OnTop DEF Linkage
  <1>3. IsSequence(a) /\ AreItems(a)
    BY <1>2, ReductionItems
  <1>4. IsSequence(<<>>) /\ out' = out \o <<>>
    BY <1>1, NothingOut
  <1> HIDE DEF a
  <1>5. Replaced(a, <<>>)
    BY <1>1, <1>2, <1>3, <1>4, Lowered, Zenon
  <1> QED BY <1>1, <1>2, <1>3, <1>4, <1>5, OnTop DEF LowerReduce, Compiles, a

LEMMA Writing ==
  ASSUME Linkage, WriteInstruction
  PROVE  /\ IsSequence(work') /\ IsSequence(out') /\ AreItems(work')
         /\ Extent' = Extent /\ Plan' = Plan
  <1> DEFINE T == {work[k] : k \in 1..Len(work)} \cup {out[k] : k \in 1..Len(out)}
  <1>1. work \in Seq(T) /\ out \in Seq(T) /\ work # <<>>
    BY DEF Linkage, IsSequence, WriteInstruction
  <1> HIDE DEF T
  <1>2. AreItems(work) /\ Len(work) \in 1..Len(work)
    BY <1>1 DEF Linkage
  <1>3. work[Len(work)] = IrItem(Top)
    <2>1. IsItem(work[Len(work)])
      BY <1>2 DEF AreItems
    <2> QED BY <2>1 DEF WriteInstruction, IsItem, IrItem, ExprItem, Top
  <1>4. work' \in Seq(T) /\ Extends(work', work, Len(work) - 1, <<>>)
    <2>1. Len(work) - 1 \in 0..Len(work) /\ work' = SubSeq(work, 1, Len(work) - 1)
      BY <1>1 DEF WriteInstruction, Pop
    <2>2. work' \in Seq(T) /\ Len(work') = Len(work) - 1 /\ \A k \in 1..(Len(work) - 1) : work'[k] = work[k]
      BY <1>1, <2>1, Shortened, Zenon
    <2>3. Len(<<>>) = 0 /\ Len(work) - 1 + 0 = Len(work) - 1
      BY <1>1
    <2>4. \A k \in Int : ~ (Len(work) - 1 < k /\ k <= Len(work) - 1 + 0)
      BY <1>1
    <2> QED BY <2>2, <2>3, <2>4 DEF Extends
  <1>5. out' \in Seq(T \cup {Top}) /\ Extends(out', out, Len(out), <<Top>>)
    <2>1. <<Top>> \in Seq({Top}) /\ out \o <<Top>> = Append(out, Top)
      BY <1>1
    <2>2. out \o <<Top>> \in Seq(T \cup {Top}) /\ Extends(out \o <<Top>>, out, Len(out), <<Top>>)
      BY <1>1, <2>1, Concatenated
    <2> QED BY <2>1, <2>2 DEF WriteInstruction
  <1>6. SamePlan(work, out, work', out')
    BY <1>1, <1>3, <1>4, <1>5, Written, Zenon
  <1>7. AreItems(work')
    <2>1. Len(work') = Len(work) - 1 /\ \A k \in 1..(Len(work) - 1) : work'[k] = work[k]
      BY <1>1, <1>4 DEF Extends
    <2>2. \A k \in 1..(Len(work) - 1) : k \in 1..Len(work)
      BY <1>1
    <2> QED BY <1>2, <2>1, <2>2 DEF AreItems
  <1> QED BY <1>4, <1>5, <1>6, <1>7, Sequences DEF Plan, Extent, SamePlan

-----------------------------------------------------------------------------
(***************************************************************************)
(* The invariant holds of a program before it is compiled, and each step   *)
(* of the compiler keeps it.                                               *)
(***************************************************************************)
LEMMA StartsLinked == CInit => Linkage
  <1> SUFFICES ASSUME CInit PROVE Linkage
    OBVIOUS
  <1> DEFINE item == ExprItem(source)
  <1>1. work = <<item>> /\ out = <<>> /\ labels = 0 /\ source \in Exprs /\ verdict = "compiling"
    BY ExprsAssumption DEF CInit, ExprItem
  <1>2. item.what = "expr" /\ IsItem(item)
    BY <1>1 DEF IsItem, ExprItem
  <1> HIDE DEF item
  <1>3. work \in Seq({item}) /\ out \in Seq({}) /\ Len(work) = 1 /\ Len(out) = 0 /\ work[1] = item /\ work # <<>>
    BY <1>1
  <1>4. IsSequence(work) /\ IsSequence(out)
    BY <1>3, Sequences, Zenon
  <1>5. Extent = 1 /\ Plan[1] = item
    BY <1>3 DEF Extent, Plan, PlanOf
  <1>6. Linked(Plan, Extent, 1, labels)
    <2>1. \A k \in 1..1 : ~ HasLabel(Plan[k]) /\ ~ HasJump(Plan[k])
      BY <1>2, <1>5 DEF HasLabel, HasJump
    <2> QED BY <1>5, <2>1, NoLinks
  <1>7. AreItems(work)
    BY <1>2, <1>3 DEF AreItems
  <1> QED BY <1>1, <1>3, <1>4, <1>6, <1>7 DEF Linkage

LEMMA StaysLinked == Linkage /\ [CNext]_cvars => Linkage'
  <1> SUFFICES ASSUME Linkage, [CNext]_cvars PROVE Linkage'
    OBVIOUS
  <1>0. labels \in Nat /\ 0 \in Nat /\ 2 \in Nat
    BY DEF Linkage
  <1>1. CASE WriteInstruction
    BY <1>1, Writing DEF Linkage, WriteInstruction
  <1>2. CASE LowerOperands
    <2>1. Linked(PlanOf(Operands(Top), Own(Top)), Len(Operands(Top)) + Len(Own(Top)), labels + 1, labels + 0)
      BY <1>2, OperandsCompile, OperandsLink
    <2> QED BY <1>0, <1>2, <2>1, OperandsCompile, CompilesLinks, Zenon
  <1>3. CASE LowerBlock
    <2>1. Linked(PlanOf(InOrder(Top), <<>>), Len(InOrder(Top)) + Len(<<>>), labels + 1, labels + 0)
      BY <1>3, BlockCompiles, BlockItems
    <2> QED BY <1>0, <1>3, <2>1, BlockCompiles, CompilesLinks, Zenon
  <1>4. CASE LowerStanding
    <2> DEFINE a == <<ExprItem(Standing(Top))>>
    <2>1. Linked(PlanOf(a, <<>>), Len(a) + Len(<<>>), labels + 1, labels + 0)
      BY <1>4, StandingCompiles, StandingItem
    <2> QED BY <1>0, <1>4, <2>1, StandingCompiles, CompilesLinks, Zenon
  <1>5. CASE Reject
    <2>1. work' = work /\ out' = out /\ labels' = labels /\ verdict' = "rejected"
      BY <1>5 DEF Reject
    <2>2. Plan' = Plan /\ Extent' = Extent
      BY <2>1 DEF Plan, Extent
    <2> QED BY <2>1, <2>2 DEF Linkage
  <1>6. CASE LowerIf
    <2>1. Linked(PlanOf(Choice(Top, labels + 1, labels + 2), <<>>), Len(Choice(Top, labels + 1, labels + 2)) + Len(<<>>), labels + 1, labels + 2)
      BY <1>6, ChoiceCompiles, ChoiceItems
    <2> QED BY <1>0, <1>6, <2>1, ChoiceCompiles, CompilesLinks, Zenon
  <1>7. CASE LowerRange
    <2>1. Linked(PlanOf(Bounds(Top), RangeOwn(Top)), Len(Bounds(Top)) + Len(RangeOwn(Top)), labels + 1, labels + 0)
      BY <1>7, RangeCompiles, RangeItems
    <2> QED BY <1>0, <1>7, <2>1, RangeCompiles, CompilesLinks, Zenon
  <1>8. CASE LowerFor
    <2>1. Linked(PlanOf(Comprehension(Top, labels + 1, labels + 2), <<>>), Len(Comprehension(Top, labels + 1, labels + 2)) + Len(<<>>), labels + 1, labels + 2)
      BY <1>8, ComprehensionCompiles, ComprehensionItems
    <2> QED BY <1>0, <1>8, <2>1, ComprehensionCompiles, CompilesLinks, Zenon
  <1>9. CASE LowerReduce
    <2>1. Linked(PlanOf(Reduction(Top, labels + 1, labels + 2), <<>>), Len(Reduction(Top, labels + 1, labels + 2)) + Len(<<>>), labels + 1, labels + 2)
      BY <1>9, ReductionCompiles, ReductionItems
    <2> QED BY <1>0, <1>9, <2>1, ReductionCompiles, CompilesLinks, Zenon
  <1>10. CASE Compiled
    <2>1. work' = work /\ out' = out /\ labels' = labels /\ verdict' = "compiled" /\ work' = <<>>
      BY <1>10 DEF Compiled
    <2>2. Plan' = Plan /\ Extent' = Extent
      BY <2>1 DEF Plan, Extent
    <2> QED BY <2>1, <2>2 DEF Linkage
  <1>11. CASE UNCHANGED cvars
    <2>1. work' = work /\ out' = out /\ labels' = labels /\ verdict' = verdict
      BY <1>11 DEF cvars
    <2>2. Plan' = Plan /\ Extent' = Extent
      BY <2>1 DEF Plan, Extent
    <2> QED BY <2>1, <2>2 DEF Linkage
  <1> QED
    BY <1>1, <1>2, <1>3, <1>4, <1>5, <1>6, <1>7, <1>8, <1>9, <1>10, <1>11 DEF CNext

(***************************************************************************)
(* Compiled code is the plan read forwards.                                *)
(***************************************************************************)
LEMMA CompiledPlan ==
  ASSUME Linkage, verdict = "compiled"
  PROVE  /\ Len(out) \in Nat /\ Extent = Len(out) /\ DOMAIN out = 1..Len(out)
         /\ Plan = [k \in 1..Len(out) |-> IrItem(out[Len(out) + 1 - k])]
  <1>1. work = <<>> /\ Len(out) \in Nat /\ DOMAIN out = 1..Len(out)
    BY DEF Linkage, IsSequence
  <1>2. Len(work) = 0
    BY <1>1
  <1>3. Extent = Len(out)
    BY <1>1, <1>2 DEF Extent
  <1>4. Len(work) + Len(out) = Len(out)
    BY <1>1, <1>2
  <1>5. Plan = [k \in 1..Len(out) |-> IF k <= 0 THEN work[k] ELSE IrItem(out[Len(out) + 1 - k])]
    BY <1>2, <1>4 DEF Plan, PlanOf
  <1> QED BY <1>1, <1>3, <1>5

LEMMA LinkedLands == Linkage => JumpsLand
  <1> SUFFICES ASSUME Linkage, verdict = "compiled", NEW p \in DOMAIN out, IsJump(out[p])
               PROVE  \E q \in DOMAIN out :
                        /\ IsLabel(out[q], out[p].imm)
                        /\ \A r \in DOMAIN out : IsLabel(out[r], out[p].imm) => r = q
    BY DEF JumpsLand
  <1>1. PICK n \in Nat : /\ n = Len(out) /\ Extent = n /\ DOMAIN out = 1..n
                         /\ Plan = [k \in 1..n |-> IrItem(out[n + 1 - k])]
    BY CompiledPlan
  <1>2. \A k \in 1..n : n + 1 - k \in 1..n /\ Plan[n + 1 - k] = IrItem(out[k])
    BY <1>1
  <1>3. /\ JumpsHaveLabels(Plan, n) /\ LabelledOnce(Plan, n)
    BY <1>1 DEF Linkage, Linked
  <1>4. HasJump(Plan[n + 1 - p]) /\ Plan[n + 1 - p].it = out[p] /\ p \in 1..n
    BY <1>1, <1>2 DEF HasJump, IrItem
  <1>5. PICK j \in 1..n : HasLabel(Plan[j]) /\ Plan[j].it.imm = out[p].imm
    BY <1>2, <1>3, <1>4 DEF JumpsHaveLabels
  <1>6. n + 1 - j \in 1..n /\ Plan[j] = IrItem(out[n + 1 - j])
    BY <1>1
  <1>7. IsLabel(out[n + 1 - j], out[p].imm)
    BY <1>5, <1>6 DEF HasLabel, IrItem, IsLabel
  <1>8. ASSUME NEW r \in 1..n, IsLabel(out[r], out[p].imm)
        PROVE  r = n + 1 - j
    <2>1. HasLabel(Plan[n + 1 - r]) /\ Plan[n + 1 - r].it.imm = Plan[j].it.imm
      <3>1. Plan[n + 1 - r] = IrItem(out[r])
        BY <1>2
      <3>2. HasLabel(Plan[n + 1 - r]) /\ Plan[n + 1 - r].it.imm = out[p].imm
        BY <1>8, <3>1 DEF HasLabel, IrItem, IsLabel
      <3> QED BY <1>5, <3>2
    <2>2. n + 1 - r = j
      BY <1>2, <1>3, <1>5, <2>1 DEF LabelledOnce
    <2> QED BY <2>2
  <1> QED BY <1>1, <1>6, <1>7, <1>8

(***************************************************************************)
(* The invariant of the compiler holds of every program, whatever its      *)
(* size: what is written and what is left name each label once, and none   *)
(* that is not there.                                                      *)
(***************************************************************************)
THEOREM CompilerLinks == CSpec => []Linkage
  BY StartsLinked, StaysLinked, PTL DEF CSpec

(***************************************************************************)
(* Every jump of compiled code lands: its label is there, and only once.   *)
(***************************************************************************)
THEOREM CodeLands == CSpec => []JumpsLand
  BY CompilerLinks, LinkedLands, PTL

=============================================================================
