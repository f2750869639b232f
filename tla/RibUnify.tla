------------------------------- MODULE RibUnify -------------------------------
(***************************************************************************)
(* Unification: one type out of all the alternatives inference collected,  *)
(* or a conflict.                                                          *)
(***************************************************************************)
EXTENDS RibTypes

Conflict == Type("conflict", <<>>)

Fails(t) == t = Conflict

\* The type of that kind and parts, unless a part has failed.
Checked(kind, parts) ==
  IF \E j \in DOMAIN parts : parts[j].t # <<>> /\ Fails(Only(parts[j])) THEN Conflict
  ELSE Type(kind, parts)

PartNamed(t, name) == Seqs!SelectInSeq(t.parts, LAMBDA p : p.n = name)
HasPart(t, name)   == PartNamed(t, name) # 0
TheirPart(t, name) == t.parts[PartNamed(t, name)]

Deep == {"option", "result", "record", "tuple", "list", "range", "variant"}

(***************************************************************************)
(* validate_unified_type.  A result may leave one of its sides open.       *)
(***************************************************************************)
RECURSIVE Valid(_)
Valid(t) ==
  LET good == {j \in DOMAIN t.parts : t.parts[j].t = <<>> \/ Valid(Only(t.parts[j]))}
      typed == {j \in DOMAIN t.parts : t.parts[j].t # <<>>}
  IN  CASE t.k \in {"all-of", "unknown", "conflict"} -> FALSE
        [] t.k = "result" -> typed = {} \/ typed \cap good # {}
        [] OTHER          -> good = DOMAIN t.parts

RECURSIVE TryUnify(_), TryParts(_), Unify2(_, _), UnifyFrom(_, _),
          UnifyRecords(_, _), UnifyPairs(_, _), UnifyCases(_, _)

UnifyAll(ts) == UnifyFrom(Unknown, ts)

\* The type validation returns: a settled number is no default any more.
RECURSIVE Settled(_)
Settled(t) ==
  CASE t.k \in {"list", "tuple", "option", "range"} ->
         [t EXCEPT !.parts = [j \in DOMAIN t.parts |->
           IF t.parts[j].t = <<>> THEN t.parts[j]
           ELSE Is(t.parts[j].n, Settled(Only(t.parts[j])))]]
    [] t.k \in {"record", "variant", "result"} -> t
    [] OTHER -> [t EXCEPT !.d = FALSE]

\* InferredType::unify, a conflict when the type is not settled.
Unify(t) ==
  LET u == TryUnify(t) IN IF ~ Fails(u) /\ Valid(u) THEN Settled(u) ELSE Conflict

(***************************************************************************)
(* try_unify_type: the alternatives within a type become one.              *)
(***************************************************************************)
TryUnify(t) ==
  CASE t.k = "all-of" -> UnifyAll(Flattened(TypesOf(t)))
    [] t.k \in Deep   -> Checked(t.k, TryParts(t.parts))
    [] OTHER          -> t

TryParts(ps) ==
  IF ps = <<>> THEN <<>>
  ELSE <<IF Head(ps).t = <<>> THEN Head(ps) ELSE Is(Head(ps).n, TryUnify(Only(Head(ps))))>>
       \o TryParts(Tail(ps))

\* unify_all_inferred_types: what cannot be unified by itself is taken as it is.
UnifyFrom(t, ts) ==
  IF Fails(t) \/ ts = <<>> THEN t
  ELSE LET u == TryUnify(Head(ts))
       IN  UnifyFrom(Unify2(t, IF Fails(u) THEN Head(ts) ELSE u), Tail(ts))

-----------------------------------------------------------------------------
(***************************************************************************)
(* unify_both_inferred_types.                                              *)
(***************************************************************************)
\* Fields of either record.
UnifyRecords(a, b) ==
  UnifyPairs(a.parts, b) \o SelectSeq(b.parts, LAMBDA p : ~ HasPart(a, p.n))

\* The parts ps of one type, each unified with the part of b so named.
UnifyPairs(ps, b) ==
  IF ps = <<>> THEN <<>>
  ELSE LET p == Head(ps)
           q == IF HasPart(b, p.n) THEN TheirPart(b, p.n) ELSE Bare(p.n)
       IN  <<IF q.t = <<>> THEN p
             ELSE IF p.t = <<>> THEN q
             ELSE Is(p.n, Unify2(Only(p), Only(q)))>> \o UnifyPairs(Tail(ps), b)

\* Cases of both variants; a case keeps its payload only if both give it one.
UnifyCases(ps, b) ==
  IF ps = <<>> THEN <<>>
  ELSE LET p == Head(ps)
           q == TheirPart(b, p.n)
       IN  (IF ~ HasPart(b, p.n) THEN <<>>
            ELSE IF p.t = <<>> \/ q.t = <<>> THEN <<Bare(p.n)>>
            ELSE <<Is(p.n, Unify2(Only(p), Only(q)))>>) \o UnifyCases(Tail(ps), b)

Names(t) == Seqs!ToSet(NamesOf(t))

UnifyFlags(a, b) ==
  LET longer  == IF Len(a.parts) >= Len(b.parts) THEN a ELSE b
      shorter == IF Len(a.parts) >= Len(b.parts) THEN b ELSE a
  IN  IF Names(shorter) \subseteq Names(longer) THEN longer ELSE Conflict

\* An optional use next to a plain one: both have to be settled by then.
UnifyOption(opt, plain) ==
  LET inner == Unify(Only(opt.parts[1]))
      other == Unify(plain)
      both  == IF Fails(inner) \/ Fails(other) THEN Conflict ELSE Unify2(inner, other)
  IN  IF Fails(both) THEN Conflict ELSE OptionT(both)

\* For the run that checks Agreement: the first of two numbers wins.
UnifyLeavesFirst(a, b) ==
  IF (IsNumber(a) /\ IsNumber(b) /\ a.d # b.d) \/ Same(a, b) THEN a ELSE Conflict

\* A number whose type is stated wins over one that only has the default.
UnifyLeaves(a, b) ==
  LET stated == {t \in {a, b} : ~ t.d}
  IN  IF IsNumber(a) /\ IsNumber(b) /\ a.d # b.d THEN CHOOSE t \in stated : TRUE
      ELSE IF Same(a, b) THEN a
      ELSE Conflict

UnifyKinds(a, b) ==
  CASE a.k = "record" /\ b.k = "record" -> Checked("record", UnifyRecords(a, b))
    [] a.k = "tuple" /\ b.k = "tuple" ->
         IF Len(a.parts) # Len(b.parts) THEN Conflict ELSE Checked("tuple", UnifyPairs(a.parts, b))
    [] a.k = b.k /\ a.k \in {"list", "option", "range", "result"} ->
         Checked(a.k, UnifyPairs(a.parts, b))
    [] a.k = "flags" /\ b.k = "flags" -> UnifyFlags(a, b)
    [] a.k = "enum" /\ b.k = "enum"   -> IF a.parts = b.parts THEN a ELSE Conflict
    [] a.k = "variant" /\ b.k = "variant" -> Checked("variant", UnifyCases(a.parts, b))
    [] a.k = "option" /\ b.k # "option" -> UnifyOption(a, b)
    [] a.k # "option" /\ b.k = "option" -> UnifyOption(b, a)
    [] OTHER -> UnifyLeaves(a, b)

Unify2(a, b) ==
  IF IsUnknown(b) THEN a
  ELSE IF IsUnknown(a) THEN b
  ELSE IF Same(a, b) THEN a
  ELSE LET l == TryUnify(a)
           r == TryUnify(b)
       IN  IF Fails(l) \/ Fails(r) THEN Conflict ELSE UnifyKinds(l, r)
===============================================================================
