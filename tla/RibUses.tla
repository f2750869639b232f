------------------------------- MODULE RibUses -------------------------------
(***************************************************************************)
(* How one expression gets its type.  Every pass of inference that learns  *)
(* something of an expression merges it into the type the expression has;  *)
(* in the end unification makes one type of it or reports a conflict.      *)
(* Which pass comes first depends on the program, so uses come in any      *)
(* order, one by one, and the arms of a match come all at once.            *)
(***************************************************************************)
EXTENDS RibUnify, FiniteSets

CONSTANTS Uses,      \* sets of types, the uses a run starts from
          Arms       \* BOOLEAN: whether the arms of a match also bring types

VARIABLES known,     \* the type the expression has so far
          left,      \* the uses nobody has met yet
          all,       \* all the uses (history)
          verdict    \* what unification returned, <<>> before

vars == <<known, left, all, verdict>>

Init == /\ all \in Uses
        /\ left = all
        /\ known = Unknown
        /\ verdict = <<>>

\* Expr::merge_inferred_type, from any pass.
Collect ==
  \E u \in left :
    /\ known' = Merge(known, u)
    /\ left' = left \ {u}
    /\ UNCHANGED <<all, verdict>>

\* A match takes the types of all of its arms together.
CollectArms ==
  /\ Arms
  /\ \E S \in SUBSET left :
       /\ Cardinality(S) > 1
       /\ \E q \in Seqs!SetToSeqs(S) : known' = Merge(known, AllOf(q))
       /\ left' = left \ S
  /\ UNCHANGED <<all, verdict>>

\* unify_types.
Decide ==
  /\ left = {}
  /\ verdict = <<>>
  /\ verdict' = <<Unify(known)>>
  /\ UNCHANGED <<known, left, all>>

Next == Collect \/ CollectArms \/ Decide

Spec == Init /\ [][Next]_vars

-----------------------------------------------------------------------------
(***************************************************************************)
(* What a type says, place by place: the kinds an expression of the type   *)
(* may have there.                                                         *)
(***************************************************************************)
RECURSIVE Says(_, _), SaysOfParts(_, _, _)
Says(t, path) ==
  CASE t.k = "all-of"  -> UNION {Says(Only(t.parts[j]), path) : j \in DOMAIN t.parts}
    [] t.k = "unknown" -> {}
    [] t.k \in {"enum", "flags"} -> {<<path, t.k, NamesOf(t)>>}
    [] t.k \in Deep -> {<<path, t.k, [j \in DOMAIN t.parts |-> <<t.parts[j].n, t.parts[j].t = <<>>>>]>>}
                       \cup SaysOfParts(t.parts, path, t.k)
    [] OTHER -> {<<path, t.k>>}

SaysOfParts(ps, path, kind) ==
  IF ps = <<>> THEN {}
  ELSE (IF Head(ps).t = <<>> THEN {}
        ELSE Says(Only(Head(ps)), Append(path, <<kind, Head(ps).n>>)))
       \cup SaysOfParts(Tail(ps), path, kind)

Sayings(S) == UNION {Says(u, <<>>) : u \in S}

-----------------------------------------------------------------------------
(***************************************************************************)
(* The type a set of uses agrees on, with no order in it: the reference.   *)
(***************************************************************************)
RECURSIVE Agreed(_)

\* The alternatives of t, t itself if it has none.
Plain(t) == Seqs!ToSet(Flattened(<<t>>))

PartsNamed(S, name) == {u \in S : HasPart(u, name)}
TypesAt(S, name) == {Only(TheirPart(u, name)) :
                       u \in {v \in PartsNamed(S, name) : TheirPart(v, name).t # <<>>}}

AgreedParts(S, names) ==
  [j \in DOMAIN names |->
     IF TypesAt(S, names[j]) = {} THEN Bare(names[j])
     ELSE Is(names[j], Agreed(TypesAt(S, names[j])))]

InOrder(names) == SelectSeq(PartNames, LAMBDA n : n \in names)
AllNames(S)    == InOrder(UNION {Names(u) : u \in S})
CommonNames(S) == InOrder({n \in UNION {Names(u) : u \in S} : \A u \in S : HasPart(u, n)})

\* A part keeps its payload in a variant only if every use gives it one.
AgreedCases(S) ==
  LET names == CommonNames(S)
      plain(n) == \E u \in S : TheirPart(u, n).t = <<>>
  IN  [j \in DOMAIN names |->
         IF plain(names[j]) THEN Bare(names[j]) ELSE Is(names[j], Agreed(TypesAt(S, names[j])))]

AgreedNumber(S) ==
  LET stated == {u \in S : ~ u.d}
      say    == IF stated = {} THEN S ELSE stated
  IN  IF \E k \in Numbers : \A u \in say : u.k = k THEN Number((CHOOSE u \in say : TRUE).k)
      ELSE Conflict

\* Optional uses beside plain ones: each kind has to be settled by itself, so
\* that a default counts as stated, and then they have to be the same.
AgreedOption(inner, plain) ==
  LET one(S) == IF Valid(Agreed(S)) THEN Settled(Agreed(S)) ELSE Conflict
  IN  OptionT(IF Conflict \in {one(inner), one(plain)} THEN Conflict
              ELSE Agreed({one(inner), one(plain)}))

Same1(S) == \E u \in S : \A v \in S : Same(u, v)

Agreed(S) ==
  LET T     == {u \in UNION {Plain(v) : v \in S} : ~ IsUnknown(u)}
      kinds == {u.k : u \in T}
      one   == CHOOSE u \in T : TRUE
  IN  CASE T = {} -> Unknown
        [] "option" \in kinds /\ kinds # {"option"} ->
             AgreedOption(TypesAt({u \in T : u.k = "option"}, "some"), {u \in T : u.k # "option"})
        [] kinds = {"record"} -> RecordT(AgreedParts(T, AllNames(T)))
        [] kinds = {"variant"} -> VariantT(AgreedCases(T))
        [] kinds \in {{"list"}, {"option"}, {"result"}, {"range"}} ->
             Type(one.k, AgreedParts(T, NamesOf(one)))
        [] kinds = {"tuple"} ->
             IF \E u \in T : Len(u.parts) # Len(one.parts) THEN Conflict
             ELSE Type("tuple", AgreedParts(T, NamesOf(one)))
        [] kinds = {"flags"} ->
             IF \E u \in T : AllNames(T) = InOrder(Names(u)) THEN FlagsT([j \in DOMAIN AllNames(T) |-> Bare(AllNames(T)[j])])
             ELSE Conflict
        [] kinds \subseteq Numbers /\ kinds # {} -> AgreedNumber(T)
        [] OTHER -> IF Same1(T) THEN one ELSE Conflict

RECURSIVE Broken(_)
Broken(t) == Fails(t) \/ \E j \in DOMAIN t.parts : t.parts[j].t # <<>> /\ Broken(Only(t.parts[j]))

Reference(S) == IF Broken(Agreed(S)) \/ ~ Valid(Agreed(S)) THEN Conflict ELSE Agreed(S)

\* Records are compared whatever the order of their fields.
Meaning(t) ==
  {<<s[1], s[2], IF Len(s) = 3 THEN Seqs!ToSet(s[3]) ELSE {}>> : s \in Says(t, <<>>)}

-----------------------------------------------------------------------------
\* Whatever the order uses come in, unification returns what they agree on, and
\* a conflict when they do not: no order of the passes decides a type.
Agreement == verdict # <<>> => Meaning(verdict[1]) = Meaning(Reference(all))

\* Merging is no more than bookkeeping: at every place, what the type collected
\* so far says is what the uses met so far say, nothing dropped or made up.
NothingLost == Says(known, <<>>) = Sayings(all \ left)

\* A number's type that some use states is never traded for another.
StatedKept ==
  verdict # <<>> /\ IsNumber(verdict[1])
    => \A u \in all : IsNumber(u) /\ ~ u.d => u.k = verdict[1].k
===============================================================================
