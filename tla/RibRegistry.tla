----------------------------- MODULE RibRegistry -----------------------------
(***************************************************************************)
(* What inference knows of the component a program is compiled against: a  *)
(* dictionary of its exported functions and of the constructors of the     *)
(* variants and enums their signatures mention, and the instances through  *)
(* which the functions are called.                                         *)
(***************************************************************************)
EXTENDS RibUnify

(***************************************************************************)
(* update_registry: the constructors a type in a signature brings along.   *)
(* Payloads of a variant and what enums have are not looked into.          *)
(***************************************************************************)
CaseEntry(t, p) == Entry(Key("variant", "", "", p.n), p.t, <<t>>)
EnumEntry(t, p) == Entry(Key("enum", "", "", p.n), <<>>, <<t>>)

RECURSIVE ConstructorsIn(_), ConstructorsInEach(_)
ConstructorsIn(t) ==
  CASE t.k = "variant" -> [j \in DOMAIN t.parts |-> CaseEntry(t, t.parts[j])]
    [] t.k = "enum"    -> [j \in DOMAIN t.parts |-> EnumEntry(t, t.parts[j])]
    [] t.k \in {"tuple", "list", "record", "result", "option"} ->
         ConstructorsInEach(TypesOf([t EXCEPT !.parts = Typed(t)]))
    [] OTHER -> <<>>

ConstructorsInEach(ts) ==
  IF ts = <<>> THEN <<>> ELSE ConstructorsIn(Head(ts)) \o ConstructorsInEach(Tail(ts))

RECURSIVE SignatureTypes(_)
SignatureTypes(exports) ==
  IF exports = <<>> THEN <<>>
  ELSE Head(exports).params \o Head(exports).result \o SignatureTypes(Tail(exports))

\* FunctionTypeRegistry and FunctionDictionary: exports first, as they come.
Dictionary(exports) == exports \o ConstructorsInEach(SignatureTypes(exports))

-----------------------------------------------------------------------------
(***************************************************************************)
(* get_function_type: the first entry of that name, <<>> if there is none. *)
(***************************************************************************)
TypeOfFunction(dict, key) ==
  LET k == Seqs!SelectInSeq(dict, LAMBDA e : e.key = key)
  IN  IF k = 0 THEN <<>> ELSE <<dict[k]>>

\* get_variant_info, get_enum_info: the types that have a constructor so named.
RECURSIVE ResultsOf(_)
ResultsOf(entries) ==
  IF entries = <<>> THEN <<>> ELSE Head(entries).result \o ResultsOf(Tail(entries))

VariantInfo(dict, name) ==
  ResultsOf(SelectSeq(dict, LAMBDA e : e.key.kind = "variant" /\ e.key.name = name))
EnumInfo(dict, name) ==
  ResultsOf(SelectSeq(dict, LAMBDA e : e.key.kind = "enum" /\ e.key.name = name))

-----------------------------------------------------------------------------
MethodsOf(dict, of, site) == SelectSeq(dict, LAMBDA e : IsMethodOf(e, of, site))
Reachable(dict, t) == SelectSeq(dict, LAMBDA e : Reaches(t, e))

(***************************************************************************)
(* search_function_in_instance: <<the entry>>, or <<>> if there is none or *)
(* it is exported at several places.                                       *)
(***************************************************************************)
FunctionIn(dict, t, name) ==
  LET found == SelectSeq(Reachable(dict, t), LAMBDA e : CalledAs(e.key) = name)
  IN  IF \E e \in Seqs!ToSet(found) : \A f \in Seqs!ToSet(found) : f.key.site = e.key.site
      THEN <<found[1]>> ELSE <<>>

\* get_resource_instance_type: <<>> for a resource without methods.
ResourceInstance(dict, t, of, site) ==
  IF MethodsOf(Reachable(dict, t), of, site) = <<>> THEN <<>> ELSE <<InstanceT(of, site)>>

===============================================================================
