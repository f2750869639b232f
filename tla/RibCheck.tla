------------------------------- MODULE RibCheck -------------------------------
(***************************************************************************)
(* type_check: what is refused although no pass of inference has failed;   *)
(* and unify_types, which gives every expression its one type.             *)
(***************************************************************************)
EXTENDS RibArms

Nodes(a, root) == [id \in Under(a.nodes, root) |-> a.nodes[id]]

-----------------------------------------------------------------------------
(***************************************************************************)
(* check_unresolved_types_lowered.  What is built of parts is not asked.   *)
(***************************************************************************)
MayBeUnknown == {"let", "block", "tuple", "match", "ok", "err", "throw", "worker-name"}

Unresolved(a, n, id) ==
  \/ IsUnknown(a.types[id]) /\ n.form \notin MayBeUnknown
  \/ n.form = "concat" /\ \E k \in DOMAIN n.args : IsUnknown(a.types[n.args[k]])

(***************************************************************************)
(* get_missing_record_keys_lowered: a record written as an argument has    *)
(* all the fields of the parameter.  A method's receiver is dropped here   *)
(* whether or not it is a handle: a method without parameters panics.      *)
(***************************************************************************)
RECURSIVE FieldsMissing(_, _, _)
FieldsMissing(a, id, param) ==
  /\ param.k = "record"
  /\ a.nodes[id].form = "record"
  /\ \E j \in DOMAIN param.parts :
       LET p == param.parts[j]
           k == Seqs!SelectInSeq(a.nodes[id].tag, LAMBDA name : name = p.n)
       IN  IF k = 0 THEN TRUE ELSE FieldsMissing(a, a.nodes[id].args[k], Only(p))

Drops(n) == n.tag.key.kind \in {"method", "static"}

ArgumentsRefused(dict, a, n) ==
  /\ n.form = "call" /\ n.tag.key.kind \notin {"worker", "resource"}
  /\ LET entry == EntryCalled(dict, n.tag.key)
         given == IF Drops(n) THEN Rest(entry[1].params) ELSE entry[1].params
     IN  \/ entry = <<>>
         \/ \E k \in 1..Len(n.args) : k <= Len(given) /\ FieldsMissing(a, n.args[k], given[k])

Panics(dict, n) ==
  /\ n.form = "call" /\ Drops(n)
  /\ EntryCalled(dict, n.tag.key) # <<>>
  /\ EntryCalled(dict, n.tag.key)[1].params = <<>>

\* try_invalid_worker_name_for_node, try_invalid_function_calls_for_node.
NameRefused(a, n) == CallOf(n, "worker") /\ ~ Refines(a.types[n.args[1]], "str")
Unbound(n) == CallOf(n, "function") /\ ~ n.tag.bound

(***************************************************************************)
(* type_check: the checks in their order, each over the whole tree.        *)
(***************************************************************************)
TypeCheck(dict, a, root) ==
  LET ns == Nodes(a, root)
      ids == DOMAIN ns
  IN  CASE \E id \in ids : Unresolved(a, ns[id], id)        -> Failing(a, "unresolved")
        [] \E id \in ids : Panics(dict, ns[id])             -> Failing(a, "panic")
        [] \E id \in ids : ArgumentsRefused(dict, a, ns[id]) -> Failing(a, "arguments")
        [] \E id \in ids : NameRefused(a, ns[id])           -> Failing(a, "worker name")
        [] \E id \in ids : ArmsRefused(dict, a, ns[id])     -> Failing(a, "arms")
        [] \E id \in ids : Unbound(ns[id])                  -> Failing(a, "unbound")
        [] OTHER -> a

-----------------------------------------------------------------------------
(***************************************************************************)
(* unify_types.  A let has no value, and the operands of what is always a  *)
(* boolean or a string do not make its type.                               *)
(***************************************************************************)
\* For the run that checks WellTyped: a condition's branches need not agree.
NotUnifiedOrCond == {"let", "boolean", "concat", "invoke", "cond"} \cup Comparisons \cup Conjunctions

NotUnified == {"let", "boolean", "concat", "invoke"} \cup Comparisons \cup Conjunctions

UnifyTypes(a, root) ==
  LET ids == {id \in Under(a.nodes, root) : a.nodes[id].form \notin NotUnified}
      one == [id \in ids |-> Unify(a.types[id])]
  IN  IF \E id \in ids : Fails(one[id]) THEN Failing(a, "unify")
      ELSE [a EXCEPT !.types = [id \in DOMAIN @ |-> IF id \in ids THEN one[id] ELSE @[id]]]

===============================================================================
