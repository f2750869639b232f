------------------------------- MODULE RibTypes -------------------------------
(***************************************************************************)
(* InferredType: what type inference knows of an expression.  A type is a  *)
(* kind, named parts, and whether it is only the default of a number       *)
(* literal (the one origin that decides anything: the others word errors). *)
(* Alternatives collected from several uses are an "all-of".               *)
(***************************************************************************)
EXTENDS RibSignatures

(***************************************************************************)
(* Equality looks at neither origins nor the order of alternatives.        *)
(***************************************************************************)
RECURSIVE Inner(_)
Inner(t) ==
  LET ps == [k \in 1..Len(t.parts) |->
               <<t.parts[k].n, IF t.parts[k].t = <<>> THEN <<>> ELSE <<Inner(t.parts[k].t[1])>>>>]
  IN  <<t.k, IF t.k = "all-of" THEN {ps[k] : k \in 1..Len(ps)} ELSE ps>>

Same(a, b) == Inner(a) = Inner(b)

(***************************************************************************)
(* The derived order of types, as the order of sequences of numbers.       *)
(***************************************************************************)
Kinds ==
  <<"bool", "s8", "u8", "s16", "u16", "s32", "u32", "s64", "u64", "f32", "f64", "chr",
    "str", "list", "tuple", "record", "flags", "enum", "option", "result", "variant",
    "resource", "range", "instance", "all-of", "unknown", "sequence">>

PartNames ==
  <<"", "#1", "#2", "#3", "#4", "a", "all-of", "api", "b", "c", "card", "cart", "cash", "err", "f",
    "from", "g", "green", "list", "ok", "p", "q", "red", "some", "to">>

Place(q, x) == IF \E k \in DOMAIN q : q[k] = x THEN CHOOSE k \in DOMAIN q : q[k] = x ELSE 0

RECURSIVE Ordinal(_), OrdinalParts(_)
Ordinal(t) == <<Place(Kinds, t.k)>> \o OrdinalParts(t.parts)

OrdinalParts(ps) ==
  IF ps = <<>> THEN <<0>>
  ELSE <<1, Place(PartNames, Head(ps).n)>>
       \o (IF Head(ps).t = <<>> THEN <<0>> ELSE <<1>> \o Ordinal(Head(ps).t[1]))
       \o OrdinalParts(Tail(ps))

Less(p, q) ==
  \E k \in 1..Len(q) :
    /\ k <= Len(p) => p[k] < q[k]
    /\ k <= Len(p) + 1
    /\ \A j \in 1..(k - 1) : p[j] = q[j]

Sorted(S) == Seqs!SetToSortSeq(S, LAMBDA a, b : Less(Ordinal(a), Ordinal(b)))

-----------------------------------------------------------------------------
(***************************************************************************)
(* flatten_all_of_list.                                                    *)
(***************************************************************************)
RECURSIVE Flattened(_)
Flattened(ts) ==
  IF ts = <<>> THEN <<>>
  ELSE (IF Head(ts).k = "all-of" THEN Flattened(TypesOf(Head(ts))) ELSE <<Head(ts)>>)
       \o Flattened(Tail(ts))

(***************************************************************************)
(* merge_types: equal types become one, the last of them with the origins  *)
(* of all; unknown is dropped; what is left is sorted.                     *)
(***************************************************************************)
LastSame(q, k)    == \A j \in (k + 1)..Len(q) : ~ Same(q[j], q[k])
AnyDefault(q, t)  == \E j \in 1..Len(q) : Same(q[j], t) /\ q[j].d
OneOfEach(q)      == {[q[k] EXCEPT !.d = AnyDefault(q, q[k])] : k \in {j \in 1..Len(q) : LastSame(q, j)}}

OneOrMore(S) ==
  IF S = {} THEN Unknown
  ELSE IF \E t \in S : S = {t} THEN CHOOSE t \in S : TRUE
  ELSE Alternatives(Sorted(S))

MergedTypes(ts) == OneOrMore(OneOfEach(SelectSeq(Flattened(ts), LAMBDA t : ~ IsUnknown(t))))

-----------------------------------------------------------------------------
(***************************************************************************)
(* InferredType::all_of.  The alternatives are merged structurally: those  *)
(* of one shape at one place become one type, whose parts have all the     *)
(* alternatives of theirs.  Tasks wait in a queue; the builders they find  *)
(* or make are kept in a table, where a part is the index of its task.     *)
(***************************************************************************)
Inspect(path, at, type, init) ==
  [what |-> "inspect", path |-> path, at |-> at, type |-> type, init |-> init]

Leaf(type) == [what |-> "leaf", type |-> type]
Choice(slots) == [what |-> "all-of", slots |-> slots]

\* What tells builders apart: kind and place, and the names of the parts.
Shape(t) ==
  CASE t.k = "variant" -> {<<t.parts[k].n, t.parts[k].t = <<>>>> : k \in 1..Len(t.parts)}
    [] t.k = "record"  -> NamesOf(t)
    [] OTHER           -> [k \in 1..Len(t.parts) |-> t.parts[k].t = <<>>]

Builder(path, t) ==
  [what |-> "builder", path |-> path, k |-> t.k, shape |-> Shape(t),
   parts |-> [j \in 1..Len(t.parts) |-> Bare(t.parts[j].n)],
   slots |-> [j \in 1..Len(t.parts) |-> <<>>]]

Composite == {"record", "tuple", "list", "option", "result", "variant"}

\* The step into a part, a name: parts of different kinds can have the same.
StepInto(t, p) ==
  CASE t.k \in {"record", "variant"} -> <<p.n>>
    [] t.k = "list"   -> <<"list">>
    [] t.k = "option" -> <<"std_option">>
    [] t.k = "result" -> <<"std_result", p.n>>
    [] t.k = "tuple"  -> <<Positions[Len(t.parts)], p.n>>

\* The parts of t that have a type, in order.
Typed(t) == SelectSeq(t.parts, LAMBDA p : p.t # <<>>)

(***************************************************************************)
(* The tasks for the parts of t, from index n on.                          *)
(***************************************************************************)
PartTasks(path, t, n) ==
  LET ps == Typed(t)
  IN  [k \in 1..Len(ps) |-> Inspect(path \o StepInto(t, ps[k]), n + k - 1, Only(ps[k]), FALSE)]

\* Part p of the builder b also stands for the task of the part of t so named.
Extended(b, t, n) ==
  LET ps == Typed(t)
      Slot(name) == n - 1 + CHOOSE k \in 1..Len(ps) : ps[k].n = name
      Grows(name) == \E k \in 1..Len(ps) : ps[k].n = name
  IN  [b EXCEPT !.slots = [j \in 1..Len(b.parts) |->
         IF Grows(b.parts[j].n) THEN Append(b.slots[j], Slot(b.parts[j].n)) ELSE b.slots[j]]]

BuilderFor(table, path, t) ==
  LET found == {k \in 1..Len(table) : /\ table[k].what = "builder"
                                      /\ table[k].k = t.k
                                      /\ table[k].path = path
                                      /\ table[k].shape = Shape(t)}
  IN  IF found = {} THEN 0 ELSE CHOOSE k \in found : \A j \in found : k <= j

Put(table, k, task) == IF k <= Len(table) THEN [table EXCEPT ![k] = task] ELSE Append(table, task)

\* For the run that checks NothingLost: forgets that a new task takes an index.
FirstPartEarly(table, at) == Len(table) + 1

\* Where the tasks for the parts begin when a task is put at index at.
FirstPart(table, at) == IF at > Len(table) THEN at + 1 ELSE Len(table) + 1

(***************************************************************************)
(* One task of the queue: <<the table after it, the tasks it adds>>.       *)
(***************************************************************************)
PlaceOf(table, task, found) ==
  IF found # 0 THEN found
  ELSE IF ~ task.init /\ task.at <= Len(table) /\ table[task.at] = task THEN task.at
  ELSE Len(table) + 1

\* The builder at an index: the one that was found there, or a new one.
BuilderAt(table, task, at) ==
  IF at <= Len(table) /\ table[at].what = "builder" THEN table[at] ELSE Builder(task.path, task.type)

WithTasks(table, at, task, tasks) == <<Put(table, at, task) \o tasks, tasks>>

PutBuilder(table, task, at) ==
  WithTasks(table, at, Extended(BuilderAt(table, task, at), task.type, FirstPart(table, at)),
            PartTasks(task.path, task.type, FirstPart(table, at)))

InspectComposite(table, task) ==
  PutBuilder(table, task, PlaceOf(table, task, BuilderFor(table, task.path, task.type)))

\* Alternatives take the place of whatever stands at their task's index.
PutChoice(table, at, path, ts, n) ==
  WithTasks(table, at, Choice([k \in 1..Len(ts) |-> n + k - 1]),
            [k \in 1..Len(ts) |-> Inspect(path, n + k - 1, ts[k], FALSE)])

InspectAlternatives(table, task) ==
  LET at == IF task.at <= Len(table) THEN task.at ELSE Len(table) + 1
  IN  PutChoice(table, at, task.path, TypesOf(task.type), FirstPart(table, at))

InspectLeaf(table, task) ==
  <<Put(table, IF task.init THEN Len(table) + 1 ELSE task.at, Leaf(task.type)), <<>>>>

InspectTask(table, task) ==
  CASE task.type.k \in Composite -> InspectComposite(table, task)
    [] task.type.k = "all-of"    -> InspectAlternatives(table, task)
    [] OTHER                     -> InspectLeaf(table, task)

RECURSIVE TaskTable(_, _)
TaskTable(queue, table) ==
  IF queue = <<>> THEN table
  ELSE LET step == InspectTask(table, Head(queue))
       IN  TaskTable(Tail(queue) \o step[2], step[1])

(***************************************************************************)
(* MergeTaskStack::complete.  The type of a task, and the tasks that no    *)
(* other one has used: their types are the result.                         *)
(***************************************************************************)
RECURSIVE TypeOfTask(_, _), TypesOfTasks(_, _), TypeOfSlots(_, _), PartsOf(_, _, _)
TypeOfTask(table, k) ==
  CASE table[k].what \in {"leaf", "inspect"} -> table[k].type
    [] table[k].what = "all-of"  -> TypeOfSlots(table, table[k].slots)
    [] table[k].what = "builder" -> Type(table[k].k, PartsOf(table, table[k], 1))

TypesOfTasks(table, slots) ==
  IF slots = <<>> THEN <<>>
  ELSE <<TypeOfTask(table, Head(slots))>> \o TypesOfTasks(table, Tail(slots))

TypeOfSlots(table, slots) == MergedTypes(TypesOfTasks(table, slots))

PartsOf(table, b, j) ==
  IF j > Len(b.parts) THEN <<>>
  ELSE <<IF b.slots[j] = <<>> THEN b.parts[j] ELSE Is(b.parts[j].n, TypeOfSlots(table, b.slots[j]))>>
       \o PartsOf(table, b, j + 1)

SlotsOf(task) ==
  CASE task.what = "all-of"  -> Seqs!ToSet(task.slots)
    [] task.what = "builder" -> UNION {Seqs!ToSet(task.slots[j]) : j \in DOMAIN task.slots}
    [] OTHER                 -> {}

\* The tasks that no other one has used.
Unused(table) ==
  Seqs!SetToSortSeq(
    {k \in DOMAIN table : table[k].what # "inspect"} \ UNION {SlotsOf(table[k]) : k \in DOMAIN table},
    LAMBDA a, b : a < b)

OnlyOrMerged(ts) == IF Len(ts) = 1 THEN ts[1] ELSE MergedTypes(ts)

Completed(table) == OnlyOrMerged(TypesOfTasks(table, Unused(table)))

AllOf(ts) ==
  Completed(TaskTable([k \in 1..Len(ts) |-> Inspect(<<>>, k, ts[k], TRUE)], <<>>))

(***************************************************************************)
(* InferredType::merge: a new use joins what is known.                     *)
(***************************************************************************)
WithOrigin(t, u) == [t EXCEPT !.d = t.d \/ u.d]

\* The alternatives of both, in the order merge puts them in.
Joined(old, new) ==
  CASE old.k = "all-of" /\ new.k = "all-of" -> TypesOf(new) \o TypesOf(old)
    [] old.k = "all-of" /\ new.k # "all-of" -> Append(TypesOf(old), new)
    [] old.k # "all-of" /\ new.k = "all-of" -> Append(TypesOf(new), old)
    [] OTHER -> <<old, new>>

Merge(old, new) ==
  IF IsUnknown(old) THEN WithOrigin(new, old)
  ELSE IF "all-of" \notin {old.k, new.k} /\ (Same(old, new) \/ IsUnknown(new)) THEN WithOrigin(old, new)
  ELSE AllOf(Joined(old, new))

===============================================================================
