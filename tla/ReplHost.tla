------------------------------- MODULE ReplHost -------------------------------
(***************************************************************************)
(* Values at the edge of the REPL: those it makes up to fill in for the    *)
(* arguments of a call, and their conversion to and from those of the      *)
(* host.  Inside, a value refers to the cases, fields and flags of its     *)
(* type by their place; outside, by their name.                            *)
(*                                                                         *)
(* The conversions go down a value along its type.  Each is a constant     *)
(* here, and the definition with the name it has in the code says what it  *)
(* is at one level, in terms of itself at the levels below; that it is so  *)
(* is assumed of a set of types and of values of theirs.                   *)
(***************************************************************************)
EXTENDS RibSignatures

CONSTANTS
  WitTypes,           \* the types that are met, with those within them
  Size(_),         \* how deep a type goes
  Inside(_),       \* the values of a kind of type that are met inside,
  Outside,         \*   and at the host's
  Generated(_),    \* generate_value
  ToHost(_, _),    \* try_value_to_rib_val: <<the value for the host>>, <<>> for an error
  FromHost(_, _),  \* rib_val_to_value_and_type, the way back
  IsOf(_, _)       \* being of a type, the reference

(***************************************************************************)
(* Value and RibVal: a kind; which case, fields or flags; and the parts.   *)
(* What a number or a text is does not matter here.  Of the flags of the   *)
(* host's, only the set of the names matters: neither order nor repetition.*)
(***************************************************************************)
Val(kind, at, parts) == [k |-> kind, at |-> at, vs |-> parts]
Scalar(kind) == Val(kind, <<>>, <<>>)

\* A value of parts that were converted one by one, <<>> if one of them was not.
Put1(kind, at, parts) ==
  IF \E j \in DOMAIN parts : parts[j] = <<>> THEN <<>>
  ELSE <<Val(kind, at, [j \in DOMAIN parts |-> parts[j][1]])>>

\* The first place of a name, 0 if it has none.
PlaceIn(names, name) ==
  IF \E k \in DOMAIN names : names[k] = name
  THEN CHOOSE k \in DOMAIN names : names[k] = name /\ \A j \in 1..(k - 1) : names[j] # name
  ELSE 0

\* The type of each of a value's n parts.
TypesWithin(t, n) ==
  IF t.k \in {"list", "option"} THEN [j \in 1..n |-> Only(t.parts[1])] ELSE TypesOf(t)

\* The side of a result's type that a value is on.
SideOf(v, t) == t.parts[IF v.at = <<"ok">> THEN 1 ELSE 2]

-----------------------------------------------------------------------------
(***************************************************************************)
(* generate_value: a value of a type, of its first case.                   *)
(***************************************************************************)
GeneratedIn(p) == IF p.t = <<>> THEN <<>> ELSE <<Generated(Only(p))>>

GenerateValue(t) ==
  CASE t.k = "variant" -> Val("variant", <<1>>, GeneratedIn(t.parts[1]))
    [] t.k = "result"  -> IF t.parts[1].t = <<>> /\ t.parts[2].t # <<>>
                          THEN Val("result", <<"err">>, GeneratedIn(t.parts[2]))
                          ELSE Val("result", <<"ok">>, GeneratedIn(t.parts[1]))
    [] t.k = "enum"    -> Val("enum", <<1>>, <<>>)
    [] t.k = "flags"   -> Val("flags", [j \in DOMAIN t.parts |-> TRUE], <<>>)
    [] t.k = "list"    -> Val("list", <<>>, [j \in 1..3 |-> Generated(Only(t.parts[1]))])
    [] t.k \in {"record", "tuple", "option"} ->
         Val(t.k, <<>>, [j \in DOMAIN t.parts |-> Generated(Only(t.parts[j]))])
    [] OTHER -> Scalar(t.k)

-----------------------------------------------------------------------------
(***************************************************************************)
(* try_value_to_rib_val.                                                   *)
(***************************************************************************)
\* A payload, and whether the type has one: both or neither.
CaseToHost(v, t) ==
  IF v.at[1] \notin DOMAIN t.parts \/ Len(v.vs) # Len(t.parts[v.at[1]].t) THEN <<>>
  ELSE Put1("variant", <<t.parts[v.at[1]].n>>, [j \in DOMAIN v.vs |-> ToHost(v.vs[j], t.parts[v.at[1]].t[j])])

\* What has no payload is not compared with the type.
ResultToHost(v, t) ==
  IF v.vs # <<>> /\ SideOf(v, t).t = <<>> THEN <<>>
  ELSE Put1("result", v.at, [j \in DOMAIN v.vs |-> ToHost(v.vs[j], Only(SideOf(v, t)))])

\* The flags that are set; what a flag's place has no bit for is not.
NamesSet(v, t) == {t.parts[j].n : j \in {i \in DOMAIN t.parts \cap DOMAIN v.at : v.at[i]}}

PartsToHost(v, t) ==
  LET ts == TypesWithin(t, Len(v.vs))
  IN  IF Len(ts) # Len(v.vs) THEN <<>>
      ELSE Put1(t.k, IF t.k = "record" THEN NamesOf(t) ELSE <<>>, [j \in DOMAIN v.vs |-> ToHost(v.vs[j], ts[j])])

ValueToRibVal(v, t) ==
  IF v.k # t.k THEN <<>>
  ELSE CASE t.k = "variant" -> CaseToHost(v, t)
         [] t.k = "result"  -> ResultToHost(v, t)
         [] t.k = "enum"    -> IF v.at[1] \in DOMAIN t.parts THEN <<Val("enum", <<t.parts[v.at[1]].n>>, <<>>)>> ELSE <<>>
         [] t.k = "flags"   -> <<Val("flags", NamesSet(v, t), <<>>)>>
         [] t.k \in {"list", "option", "record", "tuple"} -> PartsToHost(v, t)
         [] OTHER           -> <<v>>

-----------------------------------------------------------------------------
(***************************************************************************)
(* rib_val_to_value_and_type: by names.                                    *)
(***************************************************************************)
\* For the run that checks AnswersTyped: payloads are not compared with the case.
CaseFromHostUnchecked(w, t) ==
  LET k == PlaceIn(NamesOf(t), w.at[1])
  IN  IF k = 0 THEN <<>>
      ELSE Put1("variant", <<k>>, [j \in DOMAIN w.vs |-> FromHost(w.vs[j], t.parts[k].t[j])])

CaseFromHost(w, t) ==
  LET k == PlaceIn(NamesOf(t), w.at[1])
  IN  IF k = 0 \/ Len(w.vs) # Len(t.parts[k].t) THEN <<>>
      ELSE Put1("variant", <<k>>, [j \in DOMAIN w.vs |-> FromHost(w.vs[j], t.parts[k].t[j])])

ResultFromHost(w, t) ==
  IF w.vs # <<>> /\ SideOf(w, t).t = <<>> THEN <<>>
  ELSE Put1("result", w.at, [j \in DOMAIN w.vs |-> FromHost(w.vs[j], Only(SideOf(w, t)))])

\* For the run that checks FilledCross: only one flag is looked at.
FlagsFromHostOne(w, t) ==
  <<Val("flags", [j \in DOMAIN t.parts |-> w.at # {} /\ t.parts[j].n = CHOOSE name \in w.at : TRUE], <<>>)>>

FlagsFromHost(w, t) ==
  IF \A name \in w.at : \E j \in DOMAIN t.parts : t.parts[j].n = name
  THEN <<Val("flags", [j \in DOMAIN t.parts |-> t.parts[j].n \in w.at], <<>>)>>
  ELSE <<>>

EnumFromHost(w, t) ==
  LET k == PlaceIn(NamesOf(t), w.at[1])
  IN  IF k = 0 THEN <<>> ELSE <<Val("enum", <<k>>, <<>>)>>

PartsFromHost(w, t) ==
  LET ts == TypesWithin(t, Len(w.vs))
  IN  IF Len(ts) # Len(w.vs) \/ (t.k = "record" /\ w.at # NamesOf(t)) THEN <<>>
      ELSE Put1(t.k, <<>>, [j \in DOMAIN w.vs |-> FromHost(w.vs[j], ts[j])])

RibValToValue(w, t) ==
  IF w.k # t.k THEN <<>>
  ELSE CASE t.k = "variant" -> CaseFromHost(w, t)
         [] t.k = "result"  -> ResultFromHost(w, t)
         [] t.k = "enum"    -> EnumFromHost(w, t)
         [] t.k = "flags"   -> FlagsFromHost(w, t)
         [] t.k \in {"list", "option", "record", "tuple"} -> PartsFromHost(w, t)
         [] OTHER           -> <<w>>

-----------------------------------------------------------------------------
(***************************************************************************)
(* The end of invoke: <<what the call returns>>, itself <<>> or a value;   *)
(* <<>> if what the host returned is an error to the caller.               *)
(***************************************************************************)
Returned(returned, type) ==
  IF returned = <<>> THEN <<<<>>>>
  ELSE IF type = <<>> \/ FromHost(returned[1], type[1]) = <<>> THEN <<>>
  ELSE <<FromHost(returned[1], type[1])>>

(***************************************************************************)
(* Being of a type, the reference; a result may be without the payload its *)
(* type has, which the conversions let pass.                               *)
(***************************************************************************)
\* Which case, fields or flags: of the type, and nothing where there is no choice.
IsAt(v, t) ==
  CASE t.k \in {"variant", "enum"} -> v.at[1] \in DOMAIN t.parts /\ v.at = <<v.at[1]>>
    [] t.k = "flags"  -> v.at \in [DOMAIN t.parts -> BOOLEAN]
    [] t.k = "result" -> v.at \in {<<"ok">>, <<"err">>}
    [] t.k \in {"list", "option", "record", "tuple"} -> v.at = <<>>
    [] OTHER -> TRUE

\* The types that the parts of a value of a type have.
TypesOfParts(v, t) ==
  CASE t.k = "variant" -> t.parts[v.at[1]].t
    [] t.k = "result"  -> SideOf(v, t).t
    [] t.k \in {"list", "option", "record", "tuple"} -> TypesWithin(t, Len(v.vs))
    [] OTHER -> <<>>

IsOfType(v, t) ==
  /\ v.k = t.k /\ IsAt(v, t)
  /\ t.k = "option" => Len(v.vs) <= 1
  /\ \/ Len(v.vs) = Len(TypesOfParts(v, t)) /\ \A j \in DOMAIN v.vs : IsOf(v.vs[j], TypesOfParts(v, t)[j])
     \/ t.k = "result" /\ v.vs = <<>>

-----------------------------------------------------------------------------
(***************************************************************************)
(* The types: those within one are of the set as well, and not as deep;    *)
(* cases and flags have names of their own.                                *)
(***************************************************************************)
NamedApart(names) == \A i, j \in DOMAIN names : names[i] = names[j] => i = j

IsType(t) ==
  /\ t.parts \in Seq([n : STRING, t : Seq(WitTypes)])
  /\ \A j \in DOMAIN t.parts : Len(t.parts[j].t) <= 1
  /\ t.k \in {"list", "option", "record", "tuple"} => \A j \in DOMAIN t.parts : t.parts[j].t # <<>>
  /\ t.k \in {"list", "option"} => Len(t.parts) = 1
  /\ t.k = "result" => Len(t.parts) = 2
  /\ t.k \in {"variant", "enum"} => t.parts # <<>>
  /\ t.k \in {"variant", "enum", "flags"} => NamedApart(NamesOf(t))

ASSUME TypesAssumption ==
  \A t \in WitTypes :
    /\ IsType(t) /\ Size(t) \in Nat
    /\ \A j \in DOMAIN t.parts : t.parts[j].t # <<>> => Size(Only(t.parts[j])) < Size(t)

(***************************************************************************)
(* The values: what Rust's types ensure of them, their parts and what they *)
(* are converted to.                                                       *)
(***************************************************************************)
IsValue(v) ==
  v = Val(v.k, v.at, v.vs) /\ Len(v.vs) \in Nat /\ v.vs = [j \in 1..Len(v.vs) |-> v.vs[j]]

IsHostValue(w) ==
  /\ IsValue(w) /\ \A j \in DOMAIN w.vs : w.vs[j] \in Outside
  /\ w.k \in {"option", "result"} => Len(w.vs) <= 1
  /\ w.k = "result" => w.at \in {<<"ok">>, <<"err">>}
  /\ w.k \notin {"list", "option", "record", "tuple", "variant", "result"} => w.vs = <<>>

ASSUME ValuesAssumption ==
  /\ \A w \in Outside : IsHostValue(w)
  /\ \A t \in WitTypes :
       /\ Generated(t) \in Inside(t)
       /\ \A w \in Outside : FromHost(w, t) # <<>> => FromHost(w, t)[1] \in Inside(t)
       /\ \A v \in Inside(t) :
            /\ IsValue(v)
            /\ ToHost(v, t) # <<>> => ToHost(v, t)[1] \in Outside
            /\ IsOf(v, t) => \A j \in DOMAIN v.vs : v.vs[j] \in Inside(TypesOfParts(v, t)[j])

\* What the recursive ones are.
ASSUME GeneratedAssumption == \A t \in WitTypes : Generated(t) = GenerateValue(t)

ASSUME ConversionsAssumption ==
  \A t \in WitTypes :
    /\ \A v \in Inside(t) : ToHost(v, t) = ValueToRibVal(v, t)
    /\ \A w \in Outside : FromHost(w, t) = RibValToValue(w, t)

ASSUME IsOfAssumption == \A t \in WitTypes : \A v \in Inside(t) : IsOf(v, t) = IsOfType(v, t)

===============================================================================
