--------------------------- MODULE ReplEdit_proofs ---------------------------
(***************************************************************************)
(* What the prompt of the REPL keeps to, for every component and every     *)
(* host: theorems about the conversions between the values of the REPL and *)
(* those of the host, and about the session that uses them.                *)
(*                                                                         *)
(* The conversions go down a type.  That something is so of every type is  *)
(* shown from one level to the next: were it not, it would fail for a type *)
(* of least size, which is one whose parts all have it (SmallestType).     *)
(***************************************************************************)
EXTENDS ReplEdit, SequenceTheorems, WellFoundedInduction, TLAPS

LEMMA LeastNumber ==
  ASSUME NEW S \in SUBSET Nat, S # {}
  PROVE  \E n \in S : \A m \in S : n <= m
<1>1. IsWellFoundedOn(OpToRel(<, Nat), Nat)
  BY NatLessThanWellFounded
<1>2. PICK n \in S : \A m \in S : ~ (<<m, n>> \in OpToRel(<, Nat))
  BY <1>1, WFMin
<1>3. \A m \in S : ~ (m < n)
  BY <1>2 DEF OpToRel
<1> QED BY <1>3

LEMMA SmallestType ==
  ASSUME NEW B \in SUBSET WitTypes, B # {}
  PROVE  \E t \in B : \A j \in DOMAIN t.parts : t.parts[j].t # <<>> => Only(t.parts[j]) \notin B
<1> DEFINE sizes == {Size(t) : t \in B}
<1>1. sizes \in SUBSET Nat /\ sizes # {}
  BY TypesAssumption
<1>2. PICK n \in sizes : \A m \in sizes : n <= m
  <2> HIDE DEF sizes
  <2> QED BY <1>1, LeastNumber
<1>3. PICK t \in B : Size(t) = n
  OBVIOUS
<1>4. ASSUME NEW j \in DOMAIN t.parts, t.parts[j].t # <<>>, Only(t.parts[j]) \in B
      PROVE  FALSE
  <2>1. Size(Only(t.parts[j])) < Size(t)
    BY <1>4, TypesAssumption
  <2>2. n <= Size(Only(t.parts[j]))
    BY <1>2, <1>4
  <2>3. Size(t) \in Nat /\ Size(Only(t.parts[j])) \in Nat
    BY <1>4, TypesAssumption
  <2> QED BY <2>1, <2>2, <2>3, <1>3
<1> QED BY <1>4

LEMMA LengthOfDomain ==
  ASSUME NEW n \in Nat, NEW f, f = [i \in 1..n |-> f[i]]
  PROVE  Len(f) = n /\ f \in Seq({f[i] : i \in 1..n})
<1>1. f \in [1..n -> {f[i] : i \in 1..n}]
  OBVIOUS
<1> QED BY <1>1

LEMMA EmptyOfLength ==
  ASSUME NEW f, Len(f) \in Nat, f = [j \in 1..Len(f) |-> f[j]]
  PROVE  (Len(f) = 0 <=> f = <<>>) /\ DOMAIN f = 1..Len(f)
<1>1. CASE Len(f) = 0
  <2>1. f = [j \in {} |-> f[j]]
    BY <1>1
  <2> QED BY <1>1, <2>1
<1>2. CASE f = <<>>
  BY <1>2
<1> QED BY <1>1, <1>2

LEMMA AtMostOne ==
  ASSUME NEW S, NEW q \in Seq(S), Len(q) <= 1
  PROVE  Len(q) \in {0, 1} /\ (q # <<>> => q[1] \in S /\ Len(q) = 1)
<1>1. Len(q) \in Nat /\ q \in [1..Len(q) -> S]
  OBVIOUS
<1>2. Len(q) = 0 => q = <<>>
  OBVIOUS
<1>3. Len(q) = 1 => q[1] \in S
  <2>1. 1 \in 1..1
    OBVIOUS
  <2> QED BY <1>1, <2>1
<1>4. Len(q) \in {0, 1}
  BY <1>1
<1> QED BY <1>2, <1>3, <1>4

\* What a type has: its parts, and the types within it.
LEMMA PartsOfType ==
  ASSUME NEW t \in WitTypes
  PROVE  /\ Len(t.parts) \in Nat /\ DOMAIN t.parts = 1..Len(t.parts)
         /\ \A j \in DOMAIN t.parts :
              /\ t.parts[j].t \in Seq(WitTypes) /\ Len(t.parts[j].t) \in {0, 1}
              /\ t.parts[j].t # <<>> => Only(t.parts[j]) \in WitTypes /\ Len(t.parts[j].t) = 1
         /\ IsType(t)
<1>1. IsType(t)
  BY TypesAssumption
<1>2. ASSUME NEW j \in DOMAIN t.parts
      PROVE  /\ t.parts[j].t \in Seq(WitTypes) /\ Len(t.parts[j].t) \in {0, 1}
             /\ t.parts[j].t # <<>> => Only(t.parts[j]) \in WitTypes /\ Len(t.parts[j].t) = 1
  <2>1. t.parts[j] \in [n : STRING, t : Seq(WitTypes)]
    <3> DEFINE S == [n : STRING, t : Seq(WitTypes)]
    <3>1. t.parts \in Seq(S)
      BY <1>1 DEF IsType
    <3> HIDE DEF S
    <3>2. t.parts[j] \in S
      BY <3>1, <1>2
    <3> QED BY <3>2 DEF S
  <2>4. Len(t.parts[j].t) <= 1
    BY <1>1, <1>2 DEF IsType
  <2>3. t.parts[j].t \in Seq(WitTypes)
    BY <2>1
  <2>2. Len(t.parts[j].t) \in {0, 1} /\ (t.parts[j].t # <<>> => t.parts[j].t[1] \in WitTypes /\ Len(t.parts[j].t) = 1)
    BY <2>3, <2>4, AtMostOne
  <2> QED BY <2>2, <2>3, <2>4 DEF Only
<1>3. t.parts \in Seq([n : STRING, t : Seq(WitTypes)])
  BY <1>1 DEF IsType
<1>4. Len(t.parts) \in Nat /\ DOMAIN t.parts = 1..Len(t.parts)
  BY <1>3
<1> QED BY <1>1, <1>2, <1>4

\* What Put1 makes of parts that have all been converted.
LEMMA PutTogether ==
  ASSUME NEW kind, NEW at, NEW n \in Nat, NEW parts, DOMAIN parts = 1..n, Put1(kind, at, parts) # <<>>,
         NEW v, v = Put1(kind, at, parts)[1]
  PROVE  /\ Put1(kind, at, parts) = <<v>>
         /\ v = Val(kind, at, v.vs) /\ v.k = kind /\ v.at = at
         /\ v.vs = [j \in 1..n |-> parts[j][1]] /\ Len(v.vs) = n /\ DOMAIN v.vs = 1..n
         /\ \A j \in 1..n : parts[j] # <<>> /\ v.vs[j] = parts[j][1]
<1> DEFINE f == [j \in DOMAIN parts |-> parts[j][1]]
<1>1. Put1(kind, at, parts) = <<Val(kind, at, f)>> /\ \A j \in 1..n : parts[j] # <<>>
  BY DEF Put1
<1>2. f = [j \in 1..n |-> f[j]]
  OBVIOUS
<1>3. Len(f) = n
  <2> HIDE DEF f
  <2> QED BY <1>2, LengthOfDomain
<1>4. Put1(kind, at, parts)[1] = Val(kind, at, f)
  BY <1>1
<1>5. Val(kind, at, f).vs = f /\ Val(kind, at, f).k = kind /\ Val(kind, at, f).at = at
  BY DEF Val
<1> QED BY <1>1, <1>3, <1>4, <1>5

-----------------------------------------------------------------------------
(***************************************************************************)
(* What the host answers is let in only if it is of the type.              *)
(***************************************************************************)
LetsInOnly(t) ==
  \A w \in Outside : FromHost(w, t) # <<>> =>
    FromHost(w, t) = <<FromHost(w, t)[1]>> /\ IsOf(FromHost(w, t)[1], t)

\* Parts converted back, and along types of which this is so.
PartsBack(w, ts) == [j \in DOMAIN w.vs |-> FromHost(w.vs[j], ts[j])]

LetThemIn(w, ts) ==
  /\ Len(ts) \in Nat /\ Len(w.vs) <= Len(ts)
  /\ \A j \in 1..Len(ts) : ts[j] \in WitTypes /\ LetsInOnly(ts[j])

AreLetIn(w, ts, kind, at, v) ==
  /\ v = Val(kind, at, v.vs) /\ v.k = kind /\ v.at = at
  /\ Len(v.vs) = Len(w.vs) /\ DOMAIN v.vs = 1..Len(w.vs)
  /\ \A j \in 1..Len(w.vs) : IsOf(v.vs[j], ts[j])

LEMMA PartsLetIn ==
  ASSUME NEW w \in Outside, NEW ts, NEW kind, NEW at, LetThemIn(w, ts),
         Put1(kind, at, PartsBack(w, ts)) # <<>>,
         NEW v, v = Put1(kind, at, PartsBack(w, ts))[1]
  PROVE  Put1(kind, at, PartsBack(w, ts)) = <<v>> /\ AreLetIn(w, ts, kind, at, v)
<1> DEFINE parts == PartsBack(w, ts)
<1>1. Len(w.vs) \in Nat /\ DOMAIN w.vs = 1..Len(w.vs) /\ \A j \in DOMAIN w.vs : w.vs[j] \in Outside
  BY ValuesAssumption, EmptyOfLength DEF IsHostValue, IsValue
<1>2. DOMAIN parts = 1..Len(w.vs) /\ \A j \in 1..Len(w.vs) : parts[j] = FromHost(w.vs[j], ts[j])
  BY <1>1 DEF PartsBack
<1> HIDE DEF parts
<1>3. /\ Put1(kind, at, parts) = <<v>>
      /\ v = Val(kind, at, v.vs) /\ v.k = kind /\ v.at = at
      /\ Len(v.vs) = Len(w.vs) /\ DOMAIN v.vs = 1..Len(w.vs)
      /\ \A j \in 1..Len(w.vs) : parts[j] # <<>> /\ v.vs[j] = parts[j][1]
  <2>1. Len(w.vs) \in Nat /\ Put1(kind, at, parts) # <<>> /\ v = Put1(kind, at, parts)[1]
    BY <1>1 DEF parts
  <2> DEFINE n == Len(w.vs)
  <2>2. n \in Nat /\ DOMAIN parts = 1..n
    BY <1>2, <2>1
  <2> HIDE DEF n
  <2>3. /\ Put1(kind, at, parts) = <<v>>
        /\ v = Val(kind, at, v.vs) /\ v.k = kind /\ v.at = at
        /\ v.vs = [j \in 1..n |-> parts[j][1]] /\ Len(v.vs) = n /\ DOMAIN v.vs = 1..n
        /\ \A j \in 1..n : parts[j] # <<>> /\ v.vs[j] = parts[j][1]
    BY ONLY <2>1, <2>2, PutTogether
  <2> QED BY <2>3 DEF n
<1>4. ASSUME NEW j \in 1..Len(w.vs)
      PROVE  IsOf(v.vs[j], ts[j])
  <2>1. j \in 1..Len(ts) /\ w.vs[j] \in Outside /\ parts[j] = FromHost(w.vs[j], ts[j])
    BY <1>1, <1>2 DEF LetThemIn
  <2>2. parts[j] # <<>> /\ v.vs[j] = parts[j][1]
    BY <1>3
  <2> QED BY <2>1, <2>2 DEF LetsInOnly, LetThemIn
<1> QED BY <1>3, <1>4 DEF AreLetIn, parts

\* The types of a value's parts are those within the type.
LEMMA WithinIsPart ==
  ASSUME NEW t \in WitTypes, t.k \in {"list", "option", "record", "tuple"}, NEW n \in Nat
  PROVE  /\ Len(TypesWithin(t, n)) \in Nat
         /\ \A j \in 1..Len(TypesWithin(t, n)) : \E i \in DOMAIN t.parts :
              t.parts[i].t # <<>> /\ TypesWithin(t, n)[j] = Only(t.parts[i])
         /\ t.k \in {"list", "option"} => Len(TypesWithin(t, n)) = n
<1>1. \A i \in DOMAIN t.parts : t.parts[i].t # <<>>
  BY PartsOfType DEF IsType
<1>2. CASE t.k \in {"list", "option"}
  <2> DEFINE f == [j \in 1..n |-> Only(t.parts[1])]
  <2>1. TypesWithin(t, n) = f
    BY <1>2 DEF TypesWithin
  <2>2. f = [j \in 1..n |-> f[j]]
    OBVIOUS
  <2>3. Len(f) = n
    <3> HIDE DEF f
    <3> QED BY <2>2, LengthOfDomain
  <2>4. Len(t.parts) = 1
    BY <1>2, PartsOfType DEF IsType
  <2>5. 1 \in DOMAIN t.parts
    BY <2>4, PartsOfType
  <2> QED BY <2>1, <2>3, <2>5, <1>1
<1>3. CASE t.k \in {"record", "tuple"}
  <2> DEFINE f == [j \in 1..Len(t.parts) |-> Only(t.parts[j])]
  <2>1. TypesWithin(t, n) = f
    BY <1>3 DEF TypesWithin, TypesOf
  <2>2. f = [j \in 1..Len(t.parts) |-> f[j]] /\ Len(t.parts) \in Nat
    BY PartsOfType
  <2>3. Len(f) = Len(t.parts)
    <3> HIDE DEF f
    <3> QED BY <2>2, LengthOfDomain
  <2> QED BY <2>1, <2>2, <2>3, <1>1, <1>3, PartsOfType
<1> QED BY <1>2, <1>3

LEMMA PlaceOfName ==
  ASSUME NEW n \in Nat, NEW names, DOMAIN names = 1..n, NEW name
  PROVE  /\ PlaceIn(names, name) # 0 => PlaceIn(names, name) \in 1..n /\ names[PlaceIn(names, name)] = name
         /\ NamedApart(names) => \A k \in 1..n : names[k] = name => PlaceIn(names, name) = k
<1>1. CASE \E k \in DOMAIN names : names[k] = name
  <2> DEFINE S == {k \in 1..n : names[k] = name}
  <2>1. S \in SUBSET Nat /\ S # {}
    BY <1>1
  <2>2. PICK k \in S : \A j \in S : k <= j
    <3> HIDE DEF S
    <3> QED BY <2>1, LeastNumber
  <2>3. \A j \in 1..(k - 1) : names[j] # name
    BY <2>2
  <2>4. PlaceIn(names, name) \in 1..n /\ names[PlaceIn(names, name)] = name
    BY <1>1, <2>2, <2>3 DEF PlaceIn
  <2> QED BY <2>4 DEF NamedApart
<1>2. CASE ~ \E k \in DOMAIN names : names[k] = name
  BY <1>2 DEF PlaceIn
<1> QED BY <1>1, <1>2

LEMMA NamesOfType ==
  ASSUME NEW t \in WitTypes
  PROVE  /\ DOMAIN NamesOf(t) = DOMAIN t.parts /\ DOMAIN t.parts = 1..Len(t.parts) /\ Len(t.parts) \in Nat
         /\ \A j \in DOMAIN t.parts : NamesOf(t)[j] = t.parts[j].n
         /\ t.k \in {"variant", "enum", "flags"} => NamedApart(NamesOf(t))
         /\ Len(NamesOf(t)) = Len(t.parts)
<1>1. NamesOf(t) = [k \in 1..Len(t.parts) |-> NamesOf(t)[k]] /\ Len(t.parts) \in Nat
  BY PartsOfType DEF NamesOf
<1>2. Len(NamesOf(t)) = Len(t.parts)
  BY <1>1, LengthOfDomain
<1> QED BY <1>2, PartsOfType DEF NamesOf, IsType

\* One level of it, for each kind of type.
LEMMA LetsInStep ==
  ASSUME NEW t \in WitTypes,
         \A j \in DOMAIN t.parts : t.parts[j].t # <<>> => LetsInOnly(Only(t.parts[j]))
  PROVE  LetsInOnly(t)
<1> SUFFICES ASSUME NEW w \in Outside, FromHost(w, t) # <<>>
             PROVE  FromHost(w, t) = <<FromHost(w, t)[1]>> /\ IsOf(FromHost(w, t)[1], t)
  BY DEF LetsInOnly
<1> DEFINE v == FromHost(w, t)[1]
<1>1. FromHost(w, t) = RibValToValue(w, t) /\ v \in Inside(t) /\ IsOf(v, t) = IsOfType(v, t)
  BY ConversionsAssumption, ValuesAssumption, IsOfAssumption
<1>2. w.k = t.k
  BY <1>1 DEF RibValToValue
<1>3. IsHostValue(w) /\ Len(w.vs) \in Nat /\ DOMAIN w.vs = 1..Len(w.vs)
  BY ValuesAssumption, EmptyOfLength DEF IsHostValue, IsValue
<1>4. ASSUME NEW j \in DOMAIN t.parts, t.parts[j].t # <<>>
      PROVE  LetsInOnly(t.parts[j].t[1]) /\ t.parts[j].t[1] \in WitTypes /\ Len(t.parts[j].t) = 1
  BY <1>4, PartsOfType DEF Only
<1> HIDE DEF v
<1> SUFFICES FromHost(w, t) = <<v>> /\ IsOfType(v, t)
  BY <1>1 DEF v
<1>5. CASE t.k = "variant"
  <2> DEFINE k == PlaceIn(NamesOf(t), w.at[1])
             ts == t.parts[k].t
  <2>1. FromHost(w, t) = CaseFromHost(w, t)
    BY <1>1, <1>2, <1>5 DEF RibValToValue
  <2>2. k # 0 /\ Len(w.vs) = Len(t.parts[k].t) /\ FromHost(w, t) = Put1("variant", <<k>>, PartsBack(w, ts))
    BY <2>1 DEF CaseFromHost, PartsBack
  <2>3. k \in DOMAIN t.parts
    BY <2>2, NamesOfType, PlaceOfName
  <2>4. \A j \in 1..Len(t.parts[k].t) : t.parts[k].t[j] \in WitTypes /\ LetsInOnly(t.parts[k].t[j])
    <3>1. Len(t.parts[k].t) \in {0, 1} /\ (t.parts[k].t = <<>> => Len(t.parts[k].t) = 0)
      BY <2>3, PartsOfType
    <3> SUFFICES ASSUME NEW j \in 1..Len(t.parts[k].t)
                 PROVE  t.parts[k].t[j] \in WitTypes /\ LetsInOnly(t.parts[k].t[j])
      OBVIOUS
    <3> DEFINE n == Len(ts)
    <3>2. ts # <<>> /\ j = 1
      <4>1. n \in {0, 1} /\ (ts = <<>> => n = 0) /\ j \in 1..n
        BY <3>1
      <4> HIDE DEF n, ts
      <4> QED BY ONLY <4>1
    <3> QED BY ONLY <3>2, <2>3, <1>4
  <2>5. FromHost(w, t) = <<v>> /\ AreLetIn(w, ts, "variant", <<k>>, v)
    <3>1. LetThemIn(w, ts)
      <4>1. Len(w.vs) = Len(ts) /\ Len(w.vs) \in Nat
        BY <2>2, <1>3
      <4>2. \A j \in 1..Len(ts) : ts[j] \in WitTypes /\ LetsInOnly(ts[j])
        BY <2>4
      <4> HIDE DEF ts
      <4> QED BY <4>1, <4>2 DEF LetThemIn
    <3> DEFINE at == <<k>>
               kind == "variant"
    <3>2. FromHost(w, t) = Put1(kind, at, PartsBack(w, ts)) /\ FromHost(w, t) # <<>> /\ v = FromHost(w, t)[1]
      BY <2>2 DEF v
    <3> HIDE DEF ts, k, at, kind
    <3>3. FromHost(w, t) = <<v>> /\ AreLetIn(w, ts, kind, at, v)
      BY ONLY <3>1, <3>2, w \in Outside, PartsLetIn
    <3> QED BY <3>3 DEF at, kind
  <2>6. IsAt(v, t) /\ TypesOfParts(v, t) = t.parts[k].t
    BY <1>5, <2>3, <2>5 DEF IsAt, TypesOfParts, AreLetIn
  <2>7. v.k = t.k /\ Len(v.vs) = Len(ts) /\ \A j \in DOMAIN v.vs : IsOf(v.vs[j], ts[j])
    BY <1>5, <2>2, <2>5 DEF AreLetIn
  <2> QED BY ONLY <1>5, <2>5, <2>6, <2>7 DEF IsOfType
<1>6. CASE t.k = "result"
  <2> DEFINE p == SideOf(w, t)
             ts == p.t
  <2>1. FromHost(w, t) = ResultFromHost(w, t)
    BY <1>1, <1>2, <1>6 DEF RibValToValue
  <2>3. Len(w.vs) <= 1 /\ w.at \in {<<"ok">>, <<"err">>}
    BY <1>2, <1>3, <1>6 DEF IsHostValue
  <2>2. FromHost(w, t) = Put1("result", w.at, PartsBack(w, ts)) /\ ~ (w.vs # <<>> /\ p.t = <<>>)
    <3>1. PartsBack(w, ts) = [j \in DOMAIN w.vs |-> FromHost(w.vs[j], p.t[1])]
      <4>1. \A j \in DOMAIN w.vs : j = 1
        BY <1>3, <2>3
      <4> QED BY <4>1 DEF PartsBack
    <3> QED BY <2>1, <3>1 DEF ResultFromHost, Only
  <2>4. \E i \in DOMAIN t.parts : p = t.parts[i]
    <3>1. Len(t.parts) = 2 /\ DOMAIN t.parts = 1..2
      BY <1>6, PartsOfType DEF IsType
    <3> QED BY <3>1 DEF SideOf
  <2>5. FromHost(w, t) = <<v>> /\ AreLetIn(w, ts, "result", w.at, v)
    <3>1. LetThemIn(w, ts)
      <4>1. Len(ts) \in {0, 1} /\ (ts = <<>> => Len(ts) = 0) /\ (ts # <<>> => Len(ts) = 1 /\ ts[1] \in WitTypes /\ LetsInOnly(ts[1]))
        BY <2>4, <1>4, PartsOfType
      <4>2. w.vs = <<>> => Len(w.vs) = 0
        OBVIOUS
      <4>3. Len(w.vs) <= Len(ts) /\ Len(ts) \in Nat
        BY <4>1, <4>2, <2>2, <2>3, <1>3
      <4>4. \A j \in 1..Len(ts) : ts[j] \in WitTypes /\ LetsInOnly(ts[j])
        <5> HIDE DEF ts
        <5> QED BY ONLY <4>1
      <4> QED BY ONLY <4>3, <4>4 DEF LetThemIn
    <3> DEFINE kind == "result"
               at == w.at
    <3>2. FromHost(w, t) = Put1(kind, at, PartsBack(w, ts)) /\ FromHost(w, t) # <<>> /\ v = FromHost(w, t)[1]
      BY <2>2 DEF v
    <3> HIDE DEF ts, kind, at
    <3>3. FromHost(w, t) = <<v>> /\ AreLetIn(w, ts, kind, at, v)
      BY ONLY <3>1, <3>2, w \in Outside, PartsLetIn
    <3> QED BY <3>3 DEF kind, at
  <2>6. IsAt(v, t) /\ TypesOfParts(v, t) = p.t
    BY <1>6, <2>3, <2>5 DEF IsAt, TypesOfParts, SideOf, AreLetIn
  <2>7. Len(v.vs) = Len(p.t) \/ v.vs = <<>>
    <3>1. CASE w.vs = <<>>
      <4>1. Len(v.vs) = 0 /\ DOMAIN v.vs = {}
        BY <3>1, <2>5 DEF AreLetIn
      <4>2. IsValue(v)
        BY <1>1, ValuesAssumption
      <4> QED BY <4>1, <4>2, EmptyOfLength DEF IsValue
    <3>2. CASE w.vs # <<>>
      <4>1. Len(w.vs) # 0
        BY <3>2, <1>3, EmptyOfLength DEF IsHostValue, IsValue
      <4>2. Len(p.t) = 1
        BY <3>2, <2>2, <2>4, <1>4
      <4>3. Len(w.vs) = 1
        <5> DEFINE n == Len(w.vs)
        <5>1. n \in Nat /\ n # 0 /\ n <= 1
          BY <4>1, <2>3, <1>3
        <5> HIDE DEF n
        <5>2. n = 1
          BY <5>1
        <5> QED BY <5>2 DEF n
      <4> QED BY <4>2, <4>3, <2>5 DEF AreLetIn
    <3> QED BY <3>1, <3>2
  <2>8. v.k = t.k /\ \A j \in DOMAIN v.vs : IsOf(v.vs[j], ts[j])
    BY <1>6, <2>5 DEF AreLetIn
  <2> QED BY <1>6, <2>5, <2>6, <2>7, <2>8 DEF IsOfType
<1>7. CASE t.k = "enum"
  <2> DEFINE k == PlaceIn(NamesOf(t), w.at[1])
  <2>1. FromHost(w, t) = EnumFromHost(w, t)
    BY <1>1, <1>2, <1>7 DEF RibValToValue
  <2>2. k # 0 /\ FromHost(w, t) = <<Val("enum", <<k>>, <<>>)>>
    BY <2>1 DEF EnumFromHost
  <2>3. k \in DOMAIN t.parts
    BY <2>2, NamesOfType, PlaceOfName
  <2>4. v = Val("enum", <<k>>, <<>>)
    BY <2>2 DEF v
  <2> HIDE DEF k
  <2> QED BY <2>2, <2>3, <2>4, <1>7 DEF IsOfType, IsAt, TypesOfParts, Val
<1>8. CASE t.k = "flags"
  <2> DEFINE on == [j \in DOMAIN t.parts |-> t.parts[j].n \in w.at]
  <2>1. FromHost(w, t) = FlagsFromHost(w, t)
    BY <1>1, <1>2, <1>8 DEF RibValToValue
  <2>2. FromHost(w, t) = <<Val("flags", on, <<>>)>>
    BY <2>1 DEF FlagsFromHost
  <2>3. on \in [DOMAIN t.parts -> BOOLEAN]
    OBVIOUS
  <2>4. v = Val("flags", on, <<>>)
    BY <2>2 DEF v
  <2> HIDE DEF on
  <2> QED BY <2>2, <2>3, <2>4, <1>8 DEF IsOfType, IsAt, TypesOfParts, Val
<1>9. CASE t.k \in {"list", "option", "record", "tuple"}
  <2> DEFINE ts == TypesWithin(t, Len(w.vs))
  <2>1. FromHost(w, t) = PartsFromHost(w, t)
    BY <1>1, <1>2, <1>9 DEF RibValToValue
  <2>2. Len(ts) = Len(w.vs) /\ FromHost(w, t) = Put1(t.k, <<>>, PartsBack(w, ts))
    BY <2>1 DEF PartsFromHost, PartsBack
  <2>3. LetThemIn(w, ts)
    <3>1. \A j \in 1..Len(ts) : ts[j] \in WitTypes /\ LetsInOnly(ts[j])
      BY <1>3, <1>4, <1>9, WithinIsPart DEF Only
    <3>2. Len(w.vs) <= Len(ts) /\ Len(ts) \in Nat
      BY <2>2, <1>3
    <3> QED BY ONLY <3>1, <3>2 DEF LetThemIn
  <2>5. FromHost(w, t) = <<v>> /\ AreLetIn(w, ts, t.k, <<>>, v)
    <3> DEFINE kind == t.k
               at == <<>>
    <3>1. FromHost(w, t) = Put1(kind, at, PartsBack(w, ts)) /\ FromHost(w, t) # <<>> /\ v = FromHost(w, t)[1]
      BY <2>2 DEF v
    <3> HIDE DEF ts, kind, at
    <3>2. FromHost(w, t) = <<v>> /\ AreLetIn(w, ts, kind, at, v)
      BY ONLY <2>3, <3>1, w \in Outside, PartsLetIn
    <3> QED BY <3>2 DEF kind, at
  <2>6. IsAt(v, t) /\ TypesOfParts(v, t) = ts
    BY <1>9, <2>5 DEF IsAt, TypesOfParts, AreLetIn
  <2>7. t.k = "option" => Len(v.vs) <= 1
    BY <1>2, <1>3, <2>5 DEF IsHostValue, AreLetIn
  <2>8. v.k = t.k /\ Len(v.vs) = Len(ts) /\ \A j \in DOMAIN v.vs : IsOf(v.vs[j], ts[j])
    BY <2>2, <2>5 DEF AreLetIn
  <2> QED BY <1>9, <2>5, <2>6, <2>7, <2>8 DEF IsOfType
<1>10. CASE t.k \notin {"variant", "result", "enum", "flags", "list", "option", "record", "tuple"}
  <2>1. FromHost(w, t) = <<w>> /\ v = w
    BY <1>1, <1>2, <1>10 DEF RibValToValue, v
  <2>2. w.vs = <<>> \/ t.k \in {"enum", "flags"}
    BY <1>2, <1>3, <1>10 DEF IsHostValue
  <2> QED BY <2>1, <2>2, <1>2, <1>10 DEF IsOfType, IsAt, TypesOfParts
<1> QED BY <1>5, <1>6, <1>7, <1>8, <1>9, <1>10

\* Whatever the host answers, what is let in as a value of a type is one.
THEOREM HostLetIn ==
  \A t \in WitTypes : LetsInOnly(t)
<1> DEFINE B == {t \in WitTypes : ~ LetsInOnly(t)}
<1>1. ASSUME B # {}
      PROVE  FALSE
  <2>1. PICK t \in B : \A j \in DOMAIN t.parts : t.parts[j].t # <<>> => Only(t.parts[j]) \notin B
    BY <1>1, SmallestType
  <2>2. ASSUME NEW j \in DOMAIN t.parts, t.parts[j].t # <<>>
        PROVE  LetsInOnly(Only(t.parts[j]))
    BY <2>1, <2>2, PartsOfType
  <2> QED BY <2>1, <2>2, LetsInStep
<1> QED BY <1>1

-----------------------------------------------------------------------------
(***************************************************************************)
(* A value of a type reaches the host, and comes back as it was.           *)
(***************************************************************************)
Crosses(t) ==
  \A v \in Inside(t) : IsOf(v, t) =>
    /\ ToHost(v, t) = <<ToHost(v, t)[1]>>
    /\ FromHost(ToHost(v, t)[1], t) = <<v>>

\* Parts converted there.
PartsOut(v, ts) == [j \in DOMAIN v.vs |-> ToHost(v.vs[j], ts[j])]

\* A value's parts are of types of which this is so; they go there, and come back.
PartsFit(v, ts) ==
  IsValue(v) /\ \A j \in 1..Len(v.vs) :
    ts[j] \in WitTypes /\ Crosses(ts[j]) /\ v.vs[j] \in Inside(ts[j]) /\ IsOf(v.vs[j], ts[j])

GoesThere(v, ts, kind, at, out, w) ==
  /\ out = <<w>> /\ w.k = kind /\ w.at = at
  /\ Len(w.vs) = Len(v.vs) /\ (w.vs = <<>> <=> v.vs = <<>>) /\ DOMAIN w.vs = 1..Len(v.vs)

ComesBack(v, ts, kind, back, w) ==
  Put1(kind, back, PartsBack(w, ts)) = <<Val(kind, back, v.vs)>>

LEMMA PartsCross ==
  ASSUME NEW v, NEW ts, NEW kind, NEW at, NEW back, PartsFit(v, ts),
         NEW out, out = Put1(kind, at, PartsOut(v, ts)),
         NEW w, w = out[1]
  PROVE  GoesThere(v, ts, kind, at, out, w) /\ ComesBack(v, ts, kind, back, w)
<1> DEFINE n == Len(v.vs)
           parts == [j \in 1..n |-> ToHost(v.vs[j], ts[j])]
           ends == [j \in 1..n |-> FromHost(parts[j][1], ts[j])]
<1>1. n \in Nat /\ DOMAIN v.vs = 1..n /\ v.vs = [j \in 1..n |-> v.vs[j]] /\ (n = 0 <=> v.vs = <<>>)
  BY EmptyOfLength DEF PartsFit, IsValue
<1>2. ASSUME NEW j \in 1..n
      PROVE  parts[j] # <<>> /\ ends[j] = <<v.vs[j]>>
  <2>1. Crosses(ts[j]) /\ v.vs[j] \in Inside(ts[j]) /\ IsOf(v.vs[j], ts[j])
    BY DEF PartsFit
  <2>2. parts[j] = ToHost(v.vs[j], ts[j]) /\ ends[j] = FromHost(ToHost(v.vs[j], ts[j])[1], ts[j])
    OBVIOUS
  <2>3. ToHost(v.vs[j], ts[j]) = <<ToHost(v.vs[j], ts[j])[1]>> /\ FromHost(ToHost(v.vs[j], ts[j])[1], ts[j]) = <<v.vs[j]>>
    BY <2>1 DEF Crosses
  <2>4. ToHost(v.vs[j], ts[j]) # <<>>
    BY <2>3
  <2> QED BY <2>2, <2>3, <2>4
<1>3. out = Put1(kind, at, parts) /\ DOMAIN parts = 1..n
  BY <1>1 DEF PartsOut
<1>4. out # <<>>
  <2>1. \A j \in DOMAIN parts : parts[j] # <<>>
    BY <1>2, <1>3
  <2> HIDE DEF parts
  <2> DEFINE one == Val(kind, at, [j \in DOMAIN parts |-> parts[j][1]])
  <2>2. out = <<one>>
    BY <2>1, <1>3 DEF Put1
  <2> HIDE DEF one
  <2> QED BY <2>2
<1> HIDE DEF n
<1>5. /\ out = <<w>> /\ w.k = kind /\ w.at = at
      /\ Len(w.vs) = n /\ DOMAIN w.vs = 1..n /\ w.vs = [j \in 1..n |-> parts[j][1]]
  <2> HIDE DEF parts
  <2> QED BY <1>1, <1>3, <1>4, PutTogether
<1>6. w.vs = <<>> <=> v.vs = <<>>
  BY <1>1, <1>5, EmptyOfLength
<1>7. PartsBack(w, ts) = ends
  BY <1>5 DEF PartsBack
<1>8. Put1(kind, back, ends) = <<Val(kind, back, v.vs)>>
  <2>1. DOMAIN ends = 1..n /\ \A j \in 1..n : ends[j] = <<v.vs[j]>>
    BY <1>2 DEF n
  <2> HIDE DEF ends
  <2>2. \A j \in 1..n : ends[j] # <<>> /\ ends[j][1] = v.vs[j]
    BY <2>1
  <2>3. [j \in DOMAIN ends |-> ends[j][1]] = v.vs
    BY <1>1, <2>1, <2>2
  <2> QED BY <2>1, <2>2, <2>3 DEF Put1
<1> QED BY <1>5, <1>6, <1>7, <1>8 DEF n, GoesThere, ComesBack

LEMMA FlagsOfNames ==
  ASSUME NEW t \in WitTypes, t.k = "flags", NEW v, v.at \in [DOMAIN t.parts -> BOOLEAN]
  PROVE  /\ \A name \in NamesSet(v, t) : \E j \in DOMAIN t.parts : t.parts[j].n = name
         /\ [j \in DOMAIN t.parts |-> t.parts[j].n \in NamesSet(v, t)] = v.at
<1>1. \A i, j \in DOMAIN t.parts : t.parts[i].n = t.parts[j].n => i = j
  BY NamesOfType DEF NamedApart
<1>2. NamesSet(v, t) = {t.parts[j].n : j \in {i \in DOMAIN t.parts : v.at[i]}}
  BY DEF NamesSet
<1>3. ASSUME NEW j \in DOMAIN t.parts
      PROVE  (t.parts[j].n \in NamesSet(v, t)) = v.at[j]
  <2>1. v.at[j] \in BOOLEAN
    OBVIOUS
  <2>2. t.parts[j].n \in NamesSet(v, t) <=> v.at[j]
    BY <1>1, <1>2
  <2> QED BY <2>1, <2>2
<1>4. [j \in DOMAIN t.parts |-> t.parts[j].n \in NamesSet(v, t)] = [j \in DOMAIN t.parts |-> v.at[j]]
  BY <1>3
<1> QED BY <1>2, <1>4

\* One level of it, for each kind of type.
LEMMA CrossesStep ==
  ASSUME NEW t \in WitTypes,
         \A j \in DOMAIN t.parts : t.parts[j].t # <<>> => Crosses(Only(t.parts[j]))
  PROVE  Crosses(t)
<1> SUFFICES ASSUME NEW v \in Inside(t), IsOf(v, t)
             PROVE  ToHost(v, t) = <<ToHost(v, t)[1]>> /\ FromHost(ToHost(v, t)[1], t) = <<v>>
  BY DEF Crosses
<1> DEFINE out == ToHost(v, t)
           w == out[1]
<1>1. out = ValueToRibVal(v, t) /\ IsOfType(v, t)
  BY ConversionsAssumption, IsOfAssumption
<1>2. v.k = t.k /\ IsAt(v, t)
  BY <1>1 DEF IsOfType
<1>3. /\ IsValue(v) /\ v = Val(v.k, v.at, v.vs) /\ Len(v.vs) \in Nat /\ DOMAIN v.vs = 1..Len(v.vs)
      /\ (Len(v.vs) = 0 <=> v.vs = <<>>)
      /\ \A j \in DOMAIN v.vs : v.vs[j] \in Inside(TypesOfParts(v, t)[j])
  BY ValuesAssumption, EmptyOfLength DEF IsValue
<1>4. ASSUME NEW j \in DOMAIN t.parts, t.parts[j].t # <<>>
      PROVE  Crosses(t.parts[j].t[1]) /\ t.parts[j].t[1] \in WitTypes /\ Len(t.parts[j].t) = 1
  BY <1>4, PartsOfType DEF Only
<1>5. out = <<w>> => FromHost(w, t) = RibValToValue(w, t)
  <2>1. out # <<>> => w \in Outside
    BY ValuesAssumption
  <2> HIDE DEF w
  <2> QED BY <2>1, ConversionsAssumption
<1> HIDE DEF out
<1> SUFFICES out = <<w>> /\ FromHost(w, t) = <<v>>
  BY DEF out
<1> HIDE DEF w
<1>6. CASE t.k = "variant"
  <2> DEFINE k == v.at[1]
             ts == t.parts[k].t
             name == t.parts[k].n
  <2>1. k \in DOMAIN t.parts /\ v.at = <<k>>
    BY <1>2, <1>6 DEF IsAt
  <2>2. Len(v.vs) = Len(ts) /\ TypesOfParts(v, t) = ts /\ \A j \in DOMAIN v.vs : IsOf(v.vs[j], ts[j])
    BY <1>1, <1>6 DEF IsOfType, TypesOfParts
  <2>3. \A j \in 1..Len(v.vs) : ts[j] \in WitTypes /\ Crosses(ts[j]) /\ v.vs[j] \in Inside(ts[j]) /\ IsOf(v.vs[j], ts[j])
    <3>1. Len(ts) \in {0, 1} /\ (ts = <<>> => Len(ts) = 0)
      BY <2>1, PartsOfType
    <3> SUFFICES ASSUME NEW j \in 1..Len(v.vs)
                 PROVE  ts[j] \in WitTypes /\ Crosses(ts[j]) /\ v.vs[j] \in Inside(ts[j]) /\ IsOf(v.vs[j], ts[j])
      OBVIOUS
    <3>2. ts # <<>> /\ j = 1 /\ j \in DOMAIN v.vs
      <4> DEFINE n == Len(v.vs)
      <4>1. n \in {0, 1} /\ (ts = <<>> => n = 0) /\ j \in 1..n /\ DOMAIN v.vs = 1..n
        BY <3>1, <2>2, <1>3
      <4> HIDE DEF n, ts
      <4> QED BY ONLY <4>1
    <3>3. ts[j] \in WitTypes /\ Crosses(ts[j])
      BY <3>2, <2>1, <1>4
    <3>4. v.vs[j] \in Inside(ts[j])
      BY <3>2, <2>2, <1>3
    <3> QED BY ONLY <3>2, <3>3, <3>4, <2>2
  <2>4. out = Put1("variant", <<name>>, PartsOut(v, ts))
    BY <1>1, <1>2, <1>6, <2>1, <2>2 DEF ValueToRibVal, CaseToHost, PartsOut
  <2> DEFINE kind == "variant"
             at == <<name>>
             back == <<k>>
  <2> HIDE DEF ts, kind, at, back
  <2>5. GoesThere(v, ts, kind, at, out, w) /\ ComesBack(v, ts, kind, back, w)
    <3>1. out = Put1(kind, at, PartsOut(v, ts)) /\ w = out[1]
      BY <2>4 DEF kind, at, w
    <3>2. PartsFit(v, ts)
      BY <1>3, <2>3 DEF PartsFit
    <3> QED BY ONLY <3>1, <3>2, PartsCross
  <2>9. out = <<w>> /\ w.k = kind /\ w.at = at /\ Len(w.vs) = Len(v.vs)
    BY <2>5 DEF GoesThere
  <2>6. PlaceIn(NamesOf(t), w.at[1]) = k
    <3>1. w.at[1] = name
      BY <2>9 DEF at
    <3> QED BY <3>1, <2>1, <1>6, NamesOfType, PlaceOfName
  <2>7. k # 0
    BY <2>1, PartsOfType
  <2>8. FromHost(w, t) = Put1(kind, back, PartsBack(w, ts))
    BY <1>5, <1>6, <2>2, <2>9, <2>6, <2>7 DEF RibValToValue, CaseFromHost, PartsBack, kind, back, ts
  <2> QED BY <1>2, <1>3, <1>6, <2>1, <2>5, <2>8, <2>9 DEF kind, back, ComesBack
<1>7. CASE t.k = "result"
  <2> DEFINE p == SideOf(v, t)
             ts == p.t
  <2>1. v.at \in {<<"ok">>, <<"err">>}
    BY <1>2, <1>7 DEF IsAt
  <2>2. \E i \in DOMAIN t.parts : p = t.parts[i]
    <3>1. Len(t.parts) = 2 /\ DOMAIN t.parts = 1..2
      BY <1>7, PartsOfType DEF IsType
    <3> QED BY <3>1 DEF SideOf
  <2>3. Len(ts) \in {0, 1} /\ (ts = <<>> <=> Len(ts) = 0) /\ (ts # <<>> => Crosses(ts[1]) /\ ts[1] \in WitTypes)
    BY <2>2, <1>4, PartsOfType
  <2>4. v.vs # <<>> => Len(v.vs) = Len(ts) /\ \A j \in DOMAIN v.vs : IsOf(v.vs[j], ts[j])
    BY <1>1, <1>7 DEF IsOfType, TypesOfParts
  <2>5. \A j \in 1..Len(v.vs) : j = 1 /\ ts[j] \in WitTypes /\ Crosses(ts[j]) /\ v.vs[j] \in Inside(ts[j]) /\ IsOf(v.vs[j], ts[j])
    <3>1. TypesOfParts(v, t) = ts
      BY <1>7 DEF TypesOfParts
    <3> QED BY <3>1, <2>3, <2>4, <1>3
  <2>6. out = Put1("result", v.at, PartsOut(v, ts))
    <3>1. ~ (v.vs # <<>> /\ ts = <<>>)
      BY <2>3, <2>4, <1>3
    <3>2. [j \in DOMAIN v.vs |-> ToHost(v.vs[j], ts[j])] = [j \in DOMAIN v.vs |-> ToHost(v.vs[j], ts[1])]
      BY <2>5, <1>3
    <3> QED BY <1>1, <1>2, <1>7, <3>1, <3>2 DEF ValueToRibVal, ResultToHost, Only, PartsOut
  <2> DEFINE kind == "result"
             at == v.at
  <2> HIDE DEF ts, kind, at
  <2>7. GoesThere(v, ts, kind, at, out, w) /\ ComesBack(v, ts, kind, at, w)
    <3>1. out = Put1(kind, at, PartsOut(v, ts)) /\ w = out[1]
      BY <2>6 DEF kind, at, w
    <3>2. PartsFit(v, ts)
      BY <1>3, <2>5 DEF PartsFit
    <3> QED BY ONLY <3>1, <3>2, PartsCross
  <2>9. out = <<w>> /\ w.k = kind /\ w.at = at /\ (w.vs = <<>> <=> v.vs = <<>>) /\ DOMAIN w.vs = 1..Len(v.vs)
    BY <2>7 DEF GoesThere
  <2>8. FromHost(w, t) = Put1(kind, at, PartsBack(w, ts))
    <3>1. SideOf(w, t) = p
      BY <2>9 DEF SideOf, at
    <3>2. ~ (w.vs # <<>> /\ ts = <<>>)
      BY <2>3, <2>4, <2>9, <1>3
    <3>3. [j \in DOMAIN w.vs |-> FromHost(w.vs[j], ts[j])] = [j \in DOMAIN w.vs |-> FromHost(w.vs[j], ts[1])]
      BY <2>5, <2>9
    <3> QED BY <1>5, <1>7, <2>9, <3>1, <3>2, <3>3 DEF RibValToValue, ResultFromHost, PartsBack, Only, kind, at, ts
  <2> QED BY <1>2, <1>3, <1>7, <2>7, <2>8, <2>9 DEF kind, at, ComesBack
<1>8. CASE t.k = "enum"
  <2> DEFINE k == v.at[1]
  <2>1. k \in DOMAIN t.parts /\ v.at = <<k>> /\ v.vs = <<>>
    BY <1>1, <1>2, <1>3, <1>8 DEF IsAt, IsOfType, TypesOfParts
  <2>2. out = <<Val("enum", <<t.parts[k].n>>, <<>>)>>
    BY <1>1, <1>2, <1>8, <2>1 DEF ValueToRibVal
  <2>3. out = <<w>> /\ w = Val("enum", <<t.parts[k].n>>, <<>>)
    BY <2>2 DEF w
  <2>4. w.k = "enum" /\ w.at[1] = t.parts[k].n
    BY <2>3 DEF Val
  <2>5. PlaceIn(NamesOf(t), w.at[1]) = k /\ k # 0
    BY <2>1, <2>4, <1>8, NamesOfType, PlaceOfName
  <2>6. FromHost(w, t) = <<Val("enum", <<k>>, <<>>)>>
    BY <1>5, <1>8, <2>3, <2>4, <2>5 DEF RibValToValue, EnumFromHost
  <2> QED BY <1>2, <1>3, <1>8, <2>1, <2>3, <2>6
<1>9. CASE t.k = "flags"
  <2>1. v.at \in [DOMAIN t.parts -> BOOLEAN] /\ v.vs = <<>>
    BY <1>1, <1>2, <1>3, <1>9 DEF IsAt, IsOfType, TypesOfParts
  <2> DEFINE set == NamesSet(v, t)
  <2>2. out = <<Val("flags", set, <<>>)>>
    BY <1>1, <1>2, <1>9 DEF ValueToRibVal
  <2>3. (\A name \in set : \E j \in DOMAIN t.parts : t.parts[j].n = name) /\ [j \in DOMAIN t.parts |-> t.parts[j].n \in set] = v.at
    BY <1>9, <2>1, FlagsOfNames
  <2> HIDE DEF set
  <2>4. out = <<w>> /\ w = Val("flags", set, <<>>)
    BY <2>2 DEF w
  <2>5. w.k = "flags" /\ w.at = set
    BY <2>4 DEF Val
  <2>6. FromHost(w, t) = <<Val("flags", v.at, <<>>)>>
    BY <1>5, <1>9, <2>3, <2>4, <2>5 DEF RibValToValue, FlagsFromHost
  <2> QED BY <1>2, <1>3, <1>9, <2>1, <2>4, <2>6
<1>10. CASE t.k \in {"list", "option", "record", "tuple"}
  <2> DEFINE ts == TypesWithin(t, Len(v.vs))
             at == IF t.k = "record" THEN NamesOf(t) ELSE <<>>
             kind == t.k
             back == <<>>
  <2>1. Len(v.vs) = Len(ts) /\ TypesOfParts(v, t) = ts /\ v.at = back /\ \A j \in DOMAIN v.vs : IsOf(v.vs[j], ts[j])
    BY <1>1, <1>2, <1>10 DEF IsOfType, TypesOfParts, IsAt
  <2>2. \A j \in 1..Len(v.vs) : ts[j] \in WitTypes /\ Crosses(ts[j]) /\ v.vs[j] \in Inside(ts[j]) /\ IsOf(v.vs[j], ts[j])
    <3>1. \A j \in 1..Len(ts) : ts[j] \in WitTypes /\ Crosses(ts[j])
      BY <1>3, <1>4, <1>10, WithinIsPart DEF Only
    <3> HIDE DEF ts
    <3> QED BY <3>1, <2>1, <1>3
  <2>3. out = Put1(kind, at, PartsOut(v, ts))
    BY <1>1, <1>2, <1>10, <2>1 DEF ValueToRibVal, PartsToHost, PartsOut
  <2> HIDE DEF ts, kind, at, back
  <2>4. GoesThere(v, ts, kind, at, out, w) /\ ComesBack(v, ts, kind, back, w)
    <3>1. w = out[1]
      BY DEF w
    <3>2. PartsFit(v, ts)
      BY <1>3, <2>2 DEF PartsFit
    <3> QED BY ONLY <2>3, <3>1, <3>2, PartsCross
  <2>9. out = <<w>> /\ w.k = kind /\ w.at = at /\ Len(w.vs) = Len(v.vs)
    BY <2>4 DEF GoesThere
  <2>5. FromHost(w, t) = Put1(kind, back, PartsBack(w, ts))
    <3>1. w.k = t.k /\ (t.k = "record" => w.at = NamesOf(t)) /\ ts = TypesWithin(t, Len(w.vs)) /\ Len(ts) = Len(w.vs)
      BY <2>1, <2>9 DEF kind, at, ts
    <3>2. FromHost(w, t) = PartsFromHost(w, t)
      BY <1>5, <1>10, <2>9, <3>1 DEF RibValToValue
    <3> QED BY <3>1, <3>2 DEF PartsFromHost, PartsBack, kind, back
  <2> QED BY <1>2, <1>3, <2>1, <2>4, <2>5, <2>9 DEF kind, back, ComesBack
<1>11. CASE t.k \notin {"variant", "result", "enum", "flags", "list", "option", "record", "tuple"}
  <2>1. out = <<v>> /\ w = v
    BY <1>1, <1>2, <1>11 DEF ValueToRibVal, w
  <2>2. FromHost(w, t) = <<v>>
    BY <1>2, <1>5, <1>11, <2>1 DEF RibValToValue
  <2> QED BY <2>1, <2>2
<1> QED BY <1>6, <1>7, <1>8, <1>9, <1>10, <1>11

\* Every value of a type reaches the host, and a host that answers with what it got answers
\* with the same value: the conversions lose nothing.
THEOREM RoundTrip ==
  \A t \in WitTypes : Crosses(t)
<1> DEFINE B == {t \in WitTypes : ~ Crosses(t)}
<1>1. ASSUME B # {}
      PROVE  FALSE
  <2>1. PICK t \in B : \A j \in DOMAIN t.parts : t.parts[j].t # <<>> => Only(t.parts[j]) \notin B
    BY <1>1, SmallestType
  <2>2. ASSUME NEW j \in DOMAIN t.parts, t.parts[j].t # <<>>
        PROVE  Crosses(Only(t.parts[j]))
    BY <2>1, <2>2, PartsOfType
  <2> QED BY <2>1, <2>2, CrossesStep
<1> QED BY <1>1

-----------------------------------------------------------------------------
(***************************************************************************)
(* What completion makes up for a type is of the type.                     *)
(***************************************************************************)
GeneratesOf(t) == IsOf(Generated(t), t)

LEMMA GeneratesStep ==
  ASSUME NEW t \in WitTypes,
         \A j \in DOMAIN t.parts : t.parts[j].t # <<>> => GeneratesOf(Only(t.parts[j]))
  PROVE  GeneratesOf(t)
<1> DEFINE v == Generated(t)
<1>1. v = GenerateValue(t) /\ v \in Inside(t)
  BY GeneratedAssumption, ValuesAssumption
<1> SUFFICES IsOfType(v, t)
  BY <1>1, IsOfAssumption DEF GeneratesOf
<1>2. ASSUME NEW p, p \in {t.parts[j] : j \in DOMAIN t.parts}
      PROVE  Len(GeneratedIn(p)) = Len(p.t) /\ \A j \in DOMAIN GeneratedIn(p) : IsOf(GeneratedIn(p)[j], p.t[j])
  <2>1. CASE p.t = <<>>
    BY <2>1 DEF GeneratedIn
  <2>2. CASE p.t # <<>>
    <3> DEFINE g == Generated(p.t[1])
    <3>1. GeneratedIn(p) = <<g>>
      BY <2>2 DEF GeneratedIn, Only
    <3>2. Len(p.t) = 1 /\ IsOf(g, p.t[1])
      BY <1>2, <2>2, PartsOfType DEF GeneratesOf, Only
    <3> HIDE DEF g
    <3> QED BY <3>1, <3>2
  <2> QED BY <2>1, <2>2
<1> HIDE DEF v
<1>3. CASE t.k = "variant"
  <2> DEFINE p == t.parts[1]
             inner == GeneratedIn(p)
  <2>1. 1 \in DOMAIN t.parts
    BY <1>3, PartsOfType, EmptyOfLength DEF IsType
  <2>2. v = Val("variant", <<1>>, inner)
    BY <1>1, <1>3 DEF GenerateValue
  <2>3. Len(inner) = Len(p.t) /\ \A j \in DOMAIN inner : IsOf(inner[j], p.t[j])
    BY <1>2, <2>1
  <2> HIDE DEF inner
  <2>4. v.k = "variant" /\ v.at = <<1>> /\ v.vs = inner
    BY <2>2 DEF Val
  <2> QED BY <1>3, <2>1, <2>3, <2>4 DEF IsOfType, IsAt, TypesOfParts
<1>4. CASE t.k = "result"
  <2>1. DOMAIN t.parts = 1..2
    BY <1>4, PartsOfType DEF IsType
  <2>2. \E at \in {<<"ok">>, <<"err">>} :
          v = Val("result", at, GeneratedIn(t.parts[IF at = <<"ok">> THEN 1 ELSE 2]))
    BY <1>1, <1>4 DEF GenerateValue
  <2>3. PICK at \in {<<"ok">>, <<"err">>} :
          v = Val("result", at, GeneratedIn(t.parts[IF at = <<"ok">> THEN 1 ELSE 2]))
    BY <2>2
  <2> DEFINE p == t.parts[IF at = <<"ok">> THEN 1 ELSE 2]
             inner == GeneratedIn(p)
  <2>4. Len(inner) = Len(p.t) /\ \A j \in DOMAIN inner : IsOf(inner[j], p.t[j])
    BY <1>2, <2>1
  <2> HIDE DEF inner
  <2>5. v.k = "result" /\ v.at = at /\ v.vs = inner
    BY <2>3 DEF Val, inner
  <2>6. TypesOfParts(v, t) = p.t
    BY <1>4, <2>5 DEF TypesOfParts, SideOf
  <2> QED BY <1>4, <2>4, <2>5, <2>6 DEF IsOfType, IsAt
<1>5. CASE t.k = "enum"
  <2>1. 1 \in DOMAIN t.parts
    BY <1>5, PartsOfType, EmptyOfLength DEF IsType
  <2>2. v.k = "enum" /\ v.at = <<1>> /\ v.vs = <<>>
    BY <1>1, <1>5 DEF GenerateValue, Val
  <2> QED BY <1>5, <2>1, <2>2 DEF IsOfType, IsAt, TypesOfParts
<1>6. CASE t.k = "flags"
  <2>1. v.k = "flags" /\ v.at = [j \in DOMAIN t.parts |-> TRUE] /\ v.vs = <<>>
    BY <1>1, <1>6 DEF GenerateValue, Val
  <2> QED BY <1>6, <2>1 DEF IsOfType, IsAt, TypesOfParts
<1>7. CASE t.k \in {"list", "option"}
  <2> DEFINE n == IF t.k = "list" THEN 3 ELSE 1
             g == Generated(Only(t.parts[1]))
             inner == [j \in 1..n |-> g]
  <2>1. DOMAIN t.parts = 1..1 /\ 1 \in DOMAIN t.parts /\ t.parts[1].t # <<>>
    BY <1>7, PartsOfType DEF IsType
  <2>2. v = Val(t.k, <<>>, inner)
    <3>1. t.k = "option" => [j \in DOMAIN t.parts |-> Generated(Only(t.parts[j]))] = inner
      BY <2>1
    <3> QED BY <1>1, <1>7, <3>1 DEF GenerateValue
  <2>3. IsOf(g, Only(t.parts[1]))
    BY <2>1 DEF GeneratesOf
  <2>4. Len(inner) = n /\ DOMAIN inner = 1..n /\ \A j \in 1..n : inner[j] = g
    <3>1. inner = [j \in 1..n |-> inner[j]] /\ n \in Nat
      OBVIOUS
    <3> HIDE DEF inner
    <3>2. Len(inner) = n
      BY <3>1, LengthOfDomain
    <3> QED BY <3>2 DEF inner
  <2> HIDE DEF inner, g
  <2>5. v.k = t.k /\ v.at = <<>> /\ v.vs = inner
    BY <2>2 DEF Val
  <2>6. TypesOfParts(v, t) = [j \in 1..n |-> Only(t.parts[1])]
    BY <1>7, <2>4, <2>5 DEF TypesOfParts, TypesWithin
  <2>7. Len(TypesOfParts(v, t)) = n
    BY <1>7, <2>4, <2>5, WithinIsPart DEF TypesOfParts
  <2>8. \A j \in 1..n : TypesOfParts(v, t)[j] = Only(t.parts[1])
    BY <2>6
  <2> QED BY <1>7, <2>3, <2>4, <2>5, <2>7, <2>8 DEF IsOfType, IsAt
<1>8. CASE t.k \in {"record", "tuple"}
  <2> DEFINE n == Len(t.parts)
             inner == [j \in 1..n |-> Generated(Only(t.parts[j]))]
             ts == [j \in 1..n |-> Only(t.parts[j])]
  <2>1. n \in Nat /\ DOMAIN t.parts = 1..n /\ \A j \in 1..n : t.parts[j].t # <<>>
    BY <1>8, PartsOfType DEF IsType
  <2>2. v = Val(t.k, <<>>, inner)
    BY <1>1, <1>8, <2>1 DEF GenerateValue
  <2>3. \A j \in 1..n : IsOf(inner[j], ts[j])
    BY <2>1 DEF GeneratesOf
  <2>4. inner = [j \in 1..n |-> inner[j]] /\ ts = [j \in 1..n |-> ts[j]]
    OBVIOUS
  <2>5. v.k = t.k /\ v.at = <<>> /\ v.vs = inner
    BY <2>2 DEF Val
  <2>6. TypesOfParts(v, t) = ts
    BY <1>8 DEF TypesOfParts, TypesWithin, TypesOf
  <2> HIDE DEF inner, ts, n
  <2>7. Len(inner) = n /\ Len(ts) = n /\ DOMAIN inner = 1..n
    BY <2>1, <2>4, LengthOfDomain
  <2> QED BY <1>8, <2>3, <2>5, <2>6, <2>7 DEF IsOfType, IsAt
<1>9. CASE t.k \notin {"variant", "result", "enum", "flags", "list", "option", "record", "tuple"}
  <2>1. v = Scalar(t.k)
    BY <1>1, <1>9 DEF GenerateValue
  <2>2. v.k = t.k /\ v.vs = <<>>
    BY <2>1 DEF Scalar, Val
  <2> QED BY <1>9, <2>2 DEF IsOfType, IsAt, TypesOfParts
<1> QED BY <1>3, <1>4, <1>5, <1>6, <1>7, <1>8, <1>9

\* The value completion makes up for an argument is one of the argument's type, for every type.
THEOREM GeneratedIsOfType ==
  \A t \in WitTypes : GeneratesOf(t)
<1> DEFINE B == {t \in WitTypes : ~ GeneratesOf(t)}
<1>1. ASSUME B # {}
      PROVE  FALSE
  <2>1. PICK t \in B : \A j \in DOMAIN t.parts : t.parts[j].t # <<>> => Only(t.parts[j]) \notin B
    BY <1>1, SmallestType
  <2>2. ASSUME NEW j \in DOMAIN t.parts, t.parts[j].t # <<>>
        PROVE  GeneratesOf(Only(t.parts[j]))
    BY <2>1, <2>2, PartsOfType
  <2> QED BY <2>1, <2>2, GeneratesStep
<1> QED BY <1>1

-----------------------------------------------------------------------------
(***************************************************************************)
(* The session: what every step keeps.                                     *)
(***************************************************************************)
IsLines(q) == Len(q) \in Nat /\ q \in Seq({q[k] : k \in 1..Len(q)})

LEMMA LinesOfSeq ==
  ASSUME NEW S, NEW r \in Seq(S)
  PROVE  IsLines(r)
<1>1. r \in [1..Len(r) -> {r[k] : k \in 1..Len(r)}] /\ Len(r) \in Nat
  OBVIOUS
<1> QED BY <1>1 DEF IsLines

LEMMA LineAdded ==
  ASSUME NEW q, IsLines(q), NEW line
  PROVE  IsLines(Append(q, line)) /\ Append(q, line) # <<>> /\ Seqs!Front(Append(q, line)) = q
<1> DEFINE S == {q[k] : k \in 1..Len(q)} \cup {line}
           n == Len(q)
           r == Append(q, line)
<1>1. q \in Seq(S) /\ line \in S /\ n \in Nat
  <2>1. q \in [1..Len(q) -> S] /\ Len(q) \in Nat
    BY DEF IsLines
  <2> QED BY <2>1
<1> HIDE DEF S
<1>2. r \in Seq(S) /\ Len(r) = n + 1 /\ r # <<>>
  BY <1>1, AppendProperties
<1>3. SubSeq(r, 1, Len(r) - 1) = q
  <2>1. Len(r) - 1 = n
    BY <1>1, <1>2
  <2> QED BY <1>1, <2>1
<1> HIDE DEF r, n
<1>4. IsLines(r)
  BY <1>2, LinesOfSeq
<1>5. Seqs!Front(r) = q
  BY <1>3 DEF Seqs!Front
<1> QED BY <1>2, <1>4, <1>5 DEF r

LEMMA LinePopped ==
  ASSUME NEW q, IsLines(q), q # <<>>
  PROVE  /\ IsLines(Seqs!Front(q)) /\ Len(Seqs!Front(q)) = Len(q) - 1
         /\ \A k \in 1..Len(Seqs!Front(q)) : k \in 1..Len(q) /\ Seqs!Front(q)[k] = q[k]
<1> DEFINE r == Seqs!Front(q)
           S == {q[k] : k \in 1..Len(q)}
           n == Len(q)
<1>1. q \in Seq(S) /\ n \in Nat /\ n # 0
  BY DEF IsLines
<1>2. \A k \in 1..(n - 1) : q[k] \in S /\ k \in 1..n
  BY <1>1
<1>3. r = SubSeq(q, 1, n - 1)
  BY DEF Seqs!Front
<1> HIDE DEF S, n, r
<1>4. r \in Seq(S) /\ Len(r) = n - 1 /\ \A k \in 1..(n - 1) : r[k] = q[k]
  <2>1. /\ SubSeq(q, 1, n - 1) \in Seq(S)
        /\ Len(SubSeq(q, 1, n - 1)) = IF 1 <= n - 1 THEN (n - 1) - 1 + 1 ELSE 0
        /\ \A k \in 1..((n - 1) - 1 + 1) : SubSeq(q, 1, n - 1)[k] = q[1 + k - 1]
    <3>1. 1 \in Int /\ n - 1 \in Int
      BY <1>1
    <3> QED BY <1>2, <3>1, SubSeqProperties
  <2>2. (IF 1 <= n - 1 THEN (n - 1) - 1 + 1 ELSE 0) = n - 1 /\ (n - 1) - 1 + 1 = n - 1
    BY <1>1
  <2>3. \A k \in 1..(n - 1) : 1 + k - 1 = k
    OBVIOUS
  <2> QED BY <1>3, <2>1, <2>2, <2>3
<1>5. IsLines(r)
  BY <1>4, LinesOfSeq
<1> QED BY <1>2, <1>4, <1>5 DEF r, n

\* What is offered is callable, whatever is known.
LEMMA OnlyCallable ==
  ASSUME NEW known, NEW x, NEW o \in Offered(known, x)
  PROVE  /\ o[2] \in DOMAIN Functions
         /\ FunctionAt(o).key.kind \in {"function", "constructor", "method", "static"}
<1>1. PICK kind \in {"worker", "resource"} : o[2] \in OfferedBy(<<kind, x>>, known)
  BY DEF Offered
<1> DEFINE key == <<kind, x>>
<1>2. o[2] \in CallableOn(key, known.instances[key])
  BY <1>1 DEF OfferedBy
<1>3. o[2] \in DOMAIN Functions
  BY <1>2 DEF CallableOn
<1>4. FunctionAt(o).key.kind \in {"method", "static"} \/ FunctionAt(o).key.kind \notin {"method", "static", "variant", "enum"}
  BY <1>2 DEF CallableOn, FunctionAt
<1> QED BY <1>3, <1>4, FunctionsAssumption DEF FunctionAt

\* The lines that are let to stand are known to completion, while one is compiled and run as well.
LinesKnown(q) == q # <<>> => symbols # <<>> /\ LetsNamed(q, symbols[1])

EditInv ==
  /\ PromptTypeOK
  /\ IsLines(script)
  /\ phase = "prompt" => LinesKnown(script)
  /\ phase = "compiling" => LinesKnown(Seqs!Front(script))
  /\ phase = "running" => LinesKnown(script)
  /\ AnswersTyped

LEMMA EditInit == InitEdit => EditInv
<1> SUFFICES ASSUME InitEdit PROVE EditInv
  OBVIOUS
<1>1. PromptTypeOK
  BY HostValuesAssumption DEF InitEdit, PromptTypeOK
<1>2. IsLines(<<>>)
  BY DEF IsLines
<1>3. LinesKnown(script) /\ AnswersTyped
  BY DEF InitEdit, LinesKnown, AnswersTyped
<1> QED BY <1>1, <1>2, <1>3 DEF InitEdit, EditInv

\* A line joins the script: those before it are known as they were.
LEMMA SubmitKeeps ==
  ASSUME EditInv, NEW line, Submit(line),
         made' # <<>> => made'[2] \in Seqs!ToSet(Functions)
  PROVE  EditInv'
<1>1. script' = Append(script, line) /\ phase = "prompt" /\ phase' = "compiling"
  BY DEF Submit
<1>2. IsLines(script') /\ script' # <<>> /\ Seqs!Front(script') = script
  BY <1>1, LineAdded DEF EditInv
<1>3. typed' \in 0..MaxTyped
  BY HostValuesAssumption DEF Submit, EditInv, PromptTypeOK
<1>4. PromptTypeOK'
  BY <1>1, <1>2, <1>3 DEF Submit, EditInv, PromptTypeOK, IsKnowledge, Offered, OfferedBy
<1>5. LinesKnown(Seqs!Front(script))'
  BY <1>1, <1>2 DEF Submit, EditInv, LinesKnown, LetsNamed
<1>6. AnswersTyped'
  BY DEF Submit, AnswersTyped
<1> QED BY <1>1, <1>2, <1>4, <1>5, <1>6 DEF EditInv

LEMMA PopKeeps ==
  ASSUME NEW known, NEW q, IsLines(q), q # <<>>, LetsNamed(q, known)
  PROVE  LetsNamed(Seqs!Front(q), known)
<1>1. DOMAIN q = 1..Len(q) /\ DOMAIN Seqs!Front(q) = 1..Len(Seqs!Front(q))
  BY LinePopped DEF IsLines
<1> QED BY <1>1, LinePopped DEF LetsNamed

\* The line in hand stays or goes.
LEMMA EndsKeeps ==
  ASSUME EditInv, NEW kept \in BOOLEAN, NEW value, Ends(kept, value),
         value # <<>> => value[2] # <<>> /\ IsOf(value[1], value[2][1])
  PROVE  EditInv'
<1>1. phase = "running" /\ script # <<>> /\ symbols # <<>> /\ LetsNamed(script, symbols[1]) /\ IsLines(script)
  BY DEF Ends, EditInv, PromptTypeOK, LinesKnown
<1>2. IsLines(script') /\ LetsNamed(script', symbols[1])
  <2>1. CASE kept
    BY <1>1, <2>1 DEF Ends
  <2>2. CASE ~ kept
    BY <1>1, <2>2, LinePopped, PopKeeps DEF Ends, Popped
  <2> QED BY <2>1, <2>2
<1>3. PromptTypeOK'
  BY DEF Ends, EditInv, PromptTypeOK, IsKnowledge, Offered, OfferedBy
<1>4. LinesKnown(script)'
  BY <1>1, <1>2 DEF Ends, LinesKnown, LetsNamed
<1>5. AnswersTyped'
  BY DEF Ends, AnswersTyped
<1> QED BY <1>2, <1>3, <1>4, <1>5 DEF EditInv, Ends

\* What the host answers ends up as a value of the type that was expected.
LEMMA AnswersKeeps ==
  ASSUME EditInv, NEW w \in HostValues, NEW type \in Results, Answers(w, type, type)
  PROVE  EditInv'
<1> DEFINE v == Returned(<<w>>, type)
<1>1. CASE v = <<>>
  <2>1. Ends(FALSE, <<>>)
    BY <1>1 DEF Answers
  <2> QED BY <2>1, EndsKeeps
<1>2. CASE v # <<>>
  <2>1. Ends(TRUE, <<v[1][1], type>>)
    BY <1>2 DEF Answers
  <2>2. type # <<>> /\ FromHost(w, type[1]) # <<>> /\ v = <<FromHost(w, type[1])>>
    BY <1>2 DEF Returned
  <2>3. type[1] \in WitTypes
    BY <2>2, FunctionsAssumption DEF Results
  <2>4. IsOf(FromHost(w, type[1])[1], type[1])
    BY <2>2, <2>3, HostValuesAssumption, HostLetIn DEF LetsInOnly
  <2>5. v[1][1] = FromHost(w, type[1])[1]
    BY <2>2
  <2> DEFINE value == <<v[1][1], type>>
  <2>6. value[1] = v[1][1] /\ value[2] = type
    OBVIOUS
  <2>7. value[2] # <<>> /\ IsOf(value[1], value[2][1])
    BY <2>2, <2>4, <2>5, <2>6
  <2> HIDE DEF value
  <2>8. Ends(TRUE, value)
    BY <2>1 DEF value
  <2> QED BY <2>7, <2>8, EndsKeeps
<1> QED BY <1>1, <1>2

LEMMA EditStep == EditInv /\ [NextEdit]_promptVars => EditInv'
<1> SUFFICES ASSUME EditInv, [NextEdit]_promptVars PROVE EditInv'
  OBVIOUS
<1>1. CASE TypeLine
  BY <1>1, SubmitKeeps DEF TypeLine
<1>2. CASE Complete
  <2>1. PICK x \in KnownNames : \E entry \in CanFill(x) : Submit(FilledCall(x, entry)) /\ made' = <<x, entry>>
    BY <1>2 DEF Complete
  <2>2. PICK entry \in CanFill(x) : Submit(FilledCall(x, entry)) /\ made' = <<x, entry>>
    BY <2>1
  <2>3. PICK o \in Offered(symbols[1], x) : entry = FunctionAt(o)
    BY <2>2 DEF CanFill
  <2>4. made'[2] = Functions[o[2]] /\ o[2] \in DOMAIN Functions
    BY <2>2, <2>3, OnlyCallable DEF FunctionAt
  <2> QED BY <2>2, <2>4, SubmitKeeps DEF Seqs!ToSet
<1>3. CASE Compiles
  <2>1. /\ phase = "compiling" /\ phase' = "running" /\ symbols' = <<symbols'[1]>> /\ LetsNamed(script, symbols'[1])
        /\ UNCHANGED <<script, made, answer, typed>>
    BY <1>3 DEF Compiles, Learn
  <2>2. Len(symbols') = 1 /\ symbols' # <<>> /\ IsKnowledge(symbols'[1])
    <3>1. IsKnowledge(symbols'[1])
      BY OnlyCallable DEF IsKnowledge
    <3> QED BY <3>1, <1>3 DEF Compiles
  <2>3. PromptTypeOK'
    BY <2>1, <2>2 DEF EditInv, PromptTypeOK, IsKnowledge, Offered, OfferedBy
  <2>4. LinesKnown(script)'
    BY <2>1, <2>2 DEF LinesKnown, LetsNamed
  <2> QED BY <2>1, <2>3, <2>4 DEF EditInv, AnswersTyped
<1>4. ASSUME NEW panic \in BOOLEAN, Reject(panic)
      PROVE  EditInv'
  <2>1. phase = "compiling" /\ script # <<>> /\ IsLines(script) /\ LinesKnown(Seqs!Front(script)) /\ UNCHANGED <<symbols, answer, typed>>
    BY <1>4 DEF Reject, EditInv, PromptTypeOK
  <2>2. CASE panic
    BY <1>4, <2>1, <2>2 DEF Reject, EditInv, PromptTypeOK, IsKnowledge, Offered, OfferedBy, AnswersTyped
  <2>3. CASE ~ panic
    <3>1. phase' = "prompt" /\ script' = Seqs!Front(script) /\ made' = <<>>
      BY <1>4, <2>3 DEF Reject, Popped
    <3>2. IsLines(script')
      BY <2>1, <3>1, LinePopped
    <3>3. PromptTypeOK'
      BY <2>1, <3>1 DEF EditInv, PromptTypeOK, IsKnowledge, Offered, OfferedBy
    <3>4. LinesKnown(script)'
      BY <2>1, <3>1 DEF LinesKnown, LetsNamed
    <3> QED BY <2>1, <3>1, <3>2, <3>3, <3>4 DEF EditInv, AnswersTyped
  <2> QED BY <2>2, <2>3
<1>5. ASSUME NEW kept \in BOOLEAN, Ends(kept, <<>>)
      PROVE  EditInv'
  BY <1>5, EndsKeeps
<1>6. ASSUME NEW w \in HostValues, NEW type \in Results, Answers(w, type, type)
      PROVE  EditInv'
  BY <1>6, AnswersKeeps
<1>7. CASE Clear
  <2>1. phase = "prompt" /\ phase' = "prompt" /\ script' = <<>> /\ made' = <<>> /\ answer' = <<>> /\ symbols' = symbols
    BY <1>7 DEF Clear
  <2>2. typed' \in 0..MaxTyped
    BY <1>7, HostValuesAssumption DEF Clear, EditInv, PromptTypeOK
  <2>3. PromptTypeOK'
    BY <2>1, <2>2 DEF EditInv, PromptTypeOK, IsKnowledge, Offered, OfferedBy
  <2>4. IsLines(<<>>)
    BY DEF IsLines
  <2> QED BY <2>1, <2>3, <2>4 DEF EditInv, LinesKnown, AnswersTyped
<1>8. CASE UNCHANGED promptVars
  BY <1>8 DEF promptVars, EditInv, PromptTypeOK, LinesKnown, LetsNamed, AnswersTyped, IsKnowledge, Offered, OfferedBy
<1> QED BY <1>1, <1>2, <1>3, <1>4, <1>5, <1>6, <1>7, <1>8 DEF NextEdit

LEMMA EditSafe == SpecEdit => []EditInv
<1> QED BY EditInit, EditStep, PTL DEF SpecEdit

-----------------------------------------------------------------------------
\* A line in hand, a call filled in and what completion offers are what they should be, in every
\* state of the session: only functions of the component that can be called are ever offered.
THEOREM PromptCorrect == SpecEdit => []PromptTypeOK
<1>1. EditInv => PromptTypeOK
  BY DEF EditInv
<1> QED BY <1>1, EditSafe, PTL

\* Whatever lines have failed since and whatever was cleared, at the prompt every variable of the
\* lines kept is one that completion knows.
THEOREM KeptAreKnown == SpecEdit => []KeptOffered
<1>1. EditInv => KeptOffered
  BY DEF EditInv, KeptOffered, LinesKnown
<1> QED BY <1>1, EditSafe, PTL

\* Whatever the host answers, the value a line yields is of the type its signature declares.
THEOREM AnswersAreTyped == SpecEdit => []AnswersTyped
<1>1. EditInv => AnswersTyped
  BY DEF EditInv
<1> QED BY <1>1, EditSafe, PTL

\* The arguments of a call that was filled in reach the host, and come back from it as they were.
THEOREM FilledReachHost == SpecEdit => []FilledCross
<1>1. ASSUME EditInv, made # <<>>, NEW t \in Seqs!ToSet(Filled(made[2]))
      PROVE  ToHost(Generated(t), t) # <<>> /\ FromHost(ToHost(Generated(t), t)[1], t) = <<Generated(t)>>
  <2>1. PICK j \in DOMAIN Functions : made[2] = Functions[j]
    BY <1>1 DEF EditInv, PromptTypeOK, Seqs!ToSet
  <2> DEFINE params == Functions[j].params
  <2>2. params \in Seq(WitTypes)
    BY FunctionsAssumption
  <2>3. Filled(made[2]) \in Seq(WitTypes)
    <3>1. params # <<>> => Tail(params) \in Seq(WitTypes)
      BY <2>2
    <3> QED BY <2>1, <2>2, <3>1 DEF Filled
  <2>4. t \in WitTypes
    BY <1>1, <2>3 DEF Seqs!ToSet
  <2>5. Generated(t) \in Inside(t) /\ IsOf(Generated(t), t) /\ Crosses(t)
    BY <2>4, ValuesAssumption, GeneratedIsOfType, RoundTrip DEF GeneratesOf
  <2>6. ToHost(Generated(t), t) = <<ToHost(Generated(t), t)[1]>> /\ FromHost(ToHost(Generated(t), t)[1], t) = <<Generated(t)>>
    BY <2>5 DEF Crosses
  <2>7. ToHost(Generated(t), t) # <<>>
    BY <2>6
  <2> QED BY <2>6, <2>7
<1>2. EditInv => FilledCross
  BY <1>1 DEF FilledCross
<1> QED BY <1>2, EditSafe, PTL

===============================================================================
