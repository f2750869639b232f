---------------------------- MODULE RibSignatures ----------------------------
(***************************************************************************)
(* What a component states of itself, and the compiler and the REPL both   *)
(* look at: types, the functions that have them, and the instances through *)
(* which the functions are called.  A type (InferredType) is a kind, named *)
(* parts, and whether it is only the default of a number literal (the one  *)
(* origin that decides anything: the others word errors).                  *)
(***************************************************************************)
EXTENDS Integers, Sequences

Seqs == INSTANCE SequencesExt

(***************************************************************************)
(* A part: its name, and its type (<<>> for none).                         *)
(***************************************************************************)
Part(name, type) == [n |-> name, t |-> type]
Is(name, type)   == Part(name, <<type>>)
Bare(name)       == Part(name, <<>>)

Type(kind, parts) == [k |-> kind, parts |-> parts, d |-> FALSE]

Unknown    == Type("unknown", <<>>)
Bool       == Type("bool", <<>>)
Text       == Type("str", <<>>)
Number(k)  == Type(k, <<>>)
ListT(t)   == Type("list", <<Is("list", t)>>)
OptionT(t) == Type("option", <<Is("some", t)>>)
RecordT(ps) == Type("record", ps)
ResultT(ok, err) == Type("result", <<Part("ok", ok), Part("err", err)>>)
RangeT(from, to) == Type("range", <<Is("from", from), Part("to", to)>>)
VariantT(ps) == Type("variant", ps)
EnumT(ps)  == Type("enum", ps)
FlagsT(ps) == Type("flags", ps)

Positions == <<"#1", "#2", "#3", "#4">>
TupleT(ts) == Type("tuple", [k \in 1..Len(ts) |-> Is(Positions[k], ts[k])])
UnitT      == TupleT(<<>>)

\* Alternatives as they are, with no merging.
Alternatives(ts) == Type("all-of", [k \in 1..Len(ts) |-> Is("all-of", ts[k])])

AsDefault(t) == [t EXCEPT !.d = TRUE]

Only(p) == p.t[1]
TypesOf(t) == [k \in 1..Len(t.parts) |-> Only(t.parts[k])]
NamesOf(t) == [k \in 1..Len(t.parts) |-> t.parts[k].n]

Numbers == {"s8", "u8", "s16", "u16", "s32", "u32", "s64", "u64", "f32", "f64"}

IsNumber(t)  == t.k \in Numbers
IsUnknown(t) == t.k = "unknown"

-----------------------------------------------------------------------------
(***************************************************************************)
(* FunctionName: a kind, where it is exported (its package and interface,  *)
(* "" for the root), the resource it belongs to, and its name.  The kinds  *)
(* are "function", "constructor", "method", "static", "variant" and "enum".*)
(***************************************************************************)
Key(kind, site, of, name) == [kind |-> kind, site |-> site, of |-> of, name |-> name]

\* FunctionType: types of the parameters, and of the result (<<>> for none).
Entry(key, params, result) == [key |-> key, params |-> params, result |-> result]

HandleT(of, site) == Type("resource", <<Bare(of), Bare(site)>>)

-----------------------------------------------------------------------------
(***************************************************************************)
(* InstanceType: of the component, or of one of its resources.             *)
(***************************************************************************)
InstanceT(of, site) == Type("instance", <<Bare(of), Bare(site)>>)
WorkerT    == InstanceT("", "")
IsInstance(t) == t.k = "instance"
ResourceOf(t) == t.parts[1].n

IsMethodOf(entry, of, site) ==
  entry.key.kind \in {"method", "static"} /\ entry.key.of = of /\ entry.key.site = site

\* component_dependency: a resource has its methods only, the component has all.
Reaches(t, entry) == ResourceOf(t) = "" \/ IsMethodOf(entry, ResourceOf(t), t.parts[2].n)

\* What a call names: a constructor is called by the name of its resource.
CalledAs(key) == IF key.kind = "constructor" THEN key.of ELSE key.name

===============================================================================
