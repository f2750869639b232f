-------------------------------- MODULE RibVM --------------------------------
(***************************************************************************)
(* Interpreter::run: a stack machine for the bytecode.  Values, iterators  *)
(* and sinks share one stack; variables are in a flat environment.         *)
(***************************************************************************)
EXTENDS RibTerms

Seqs == INSTANCE SequencesExt

CONSTANTS
  Answer(_, _),   \* external: Answer(c, k), what c, call number k, returns
  NewName(_),     \* external: NewName(k), the k-th instance name generated
  HostMayFail     \* may a call end with an error of the host?

VARIABLES
  code,      \* the program, the empty sequence before it is loaded
  pc,        \* position of the cursor
  stack,     \* the stack, its top at the end
  env,       \* the variables assigned so far
  calls,     \* the calls made of the host, in order
  names,     \* number of instance names generated
  outcome    \* Running, <<"value", v>>, or <<"error", why>>

mvars == <<code, pc, stack, env, calls, names, outcome>>

Running == <<"running", 0>>

(***************************************************************************)
(* Before a program is loaded.                                             *)
(***************************************************************************)
MInit ==
  /\ code = <<>>
  /\ pc = 0
  /\ stack = <<>>
  /\ calls = <<>>
  /\ names = 0
  /\ outcome = Running

Start(program) ==
  /\ pc = 0
  /\ code' = program
  /\ pc' = 1
  /\ UNCHANGED <<stack, env, calls, names, outcome>>

-----------------------------------------------------------------------------
(***************************************************************************)
(* The stack: Peek(k) is the k-th element from the top.                    *)
(***************************************************************************)
Peek(k) == stack[Len(stack) + 1 - k]

Below(k) == SubSeq(stack, 1, Len(stack) - k)

Has(k) == Len(stack) >= k

IsKind(k, kinds) == Has(k) /\ Kind(Peek(k)) \in kinds

Values(n) == \A k \in 1..n : IsKind(k, ValueKinds)

Imm == code[pc].imm

(***************************************************************************)
(* What is compared of a value: a number, a string or a boolean is itself, *)
(* an enum and a case without payload are their name; two cases with a     *)
(* payload are compared by their names and then by their payloads, here    *)
(* one level deep.  Whatever the relation, flags are compared for equality.*)
(* Lists, tuples, records, options and results are not compared.           *)
(***************************************************************************)
Literals(v) ==
  CASE Kind(v) \in {"num", "str", "bool"} -> <<v>>
    [] Kind(v) = "enum" -> <<Str(Payload(v))>>
    [] Kind(v) = "variant" /\ Payload(v)[2] = <<>> -> <<Str(Payload(v)[1])>>
    [] OTHER -> <<>>

Related(r, a, b) ==
  CASE r = "==" -> a = b
    [] r = "<"  -> Payload(a) < Payload(b)
    [] r = "<=" -> Payload(a) <= Payload(b)
    [] r = ">"  -> Payload(a) > Payload(b)
    [] r = ">=" -> Payload(a) >= Payload(b)

Carried(v) == Payload(v)[2][1]

\* <<>> when the values cannot be compared, else <<result>>.
Compared(r, a, b) ==
  CASE Kind(a) = "unit" /\ Kind(b) = "unit" -> <<TRUE>>
    [] Literals(a) # <<>> /\ Literals(b) # <<>> -> <<Related(r, Literals(a)[1], Literals(b)[1])>>
    [] Kind(a) = "variant" /\ Kind(b) = "variant" /\ Payload(a)[1] # Payload(b)[1] -> <<FALSE>>
    [] Kind(a) = "variant" /\ Kind(b) = "variant" /\ <<>> \notin {Literals(Carried(a)), Literals(Carried(b))} ->
         <<Related(r, Literals(Carried(a))[1], Literals(Carried(b))[1])>>
    [] Kind(a) = "flags" /\ Kind(b) = "flags" -> <<Payload(a) = Payload(b)>>
    [] OTHER -> <<>>

\* What unwrap finds inside: an option, either side of a result, a payload.
Inside(v) ==
  CASE Kind(v) = "option"  -> Payload(v)
    [] Kind(v) = "result"  -> <<Payload(v)[2]>>
    [] Kind(v) = "variant" -> Payload(v)[2]
    [] OTHER               -> <<>>

Computed(f, a, b) ==
  CASE f = "+" -> a + b
    [] f = "-" -> a - b
    [] f = "*" -> a * b
    [] f = "/" -> a \div b

InBounds(q, n) == n < Len(q)

(***************************************************************************)
(* A range with both ends.                                                 *)
(***************************************************************************)
IsRange(v) == Kind(v) = "record" /\ DOMAIN Payload(v) = {"from", "to", "inclusive"}

(***************************************************************************)
(* The position from the top of the iterator that a loop is about: on top, *)
(* or under the sink on top; 0 when there is none.                         *)
(***************************************************************************)
Iterating ==
  IF IsKind(1, {"iterator"}) THEN 1
  ELSE IF IsKind(1, {"sink"}) /\ IsKind(2, {"iterator"}) THEN 2 ELSE 0

\* Mutant of TopSink: the first sink, that of the outermost loop.
TopSinkOutermost(q) ==
  IF \E k \in 1..Len(q) : Kind(q[k]) = "sink"
  THEN CHOOSE k \in 1..Len(q) : Kind(q[k]) = "sink" /\ \A j \in 1..(k - 1) : Kind(q[j]) # "sink"
  ELSE 0

\* The index of the last sink of q, 0 when there is none.
TopSink(q) ==
  IF \E k \in 1..Len(q) : Kind(q[k]) = "sink"
  THEN CHOOSE k \in 1..Len(q) : Kind(q[k]) = "sink" /\ \A j \in (k + 1)..Len(q) : Kind(q[j]) # "sink"
  ELSE 0

(***************************************************************************)
(* Who is called: the worker whose name the variable holds, the instance   *)
(* of the handle it holds, with the handle as first argument, or, for a    *)
(* resource that no variable holds, no instance at all.                    *)
(***************************************************************************)
Reached(on) ==
  on # Static =>
    /\ on[2] \in DOMAIN env
    /\ IF on[1] = "resource" THEN Kind(env[on[2]]) = "handle" ELSE Literals(env[on[2]]) # <<>>

Target(on) ==
  IF on = Static THEN [instance |-> "___STATIC_WIT_RESOURCE", handle |-> <<>>]
  ELSE IF on[1] = "resource"
  THEN [instance |-> Payload(env[on[2]])[1], handle |-> <<env[on[2]]>>]
  ELSE [instance |-> TextOf(Literals(env[on[2]])[1]), handle |-> <<>>]

Places(l) == {p \in DOMAIN code : code[p].op = "label" /\ code[p].imm = l}

-----------------------------------------------------------------------------
(***************************************************************************)
(* What the instruction at the cursor needs.  Without it the run ends with *)
(* an error; Throw always does.                                            *)
(***************************************************************************)
Ready ==
  LET op == code[pc].op IN
  CASE op \in {"sequence", "tuple", "concat"} -> Values(Imm)
    [] op \in {"some", "ok", "err", "get-tag"} -> Values(1)
    [] op = "variant"       -> Values(Imm[2])
    [] op = "update-record" -> IsKind(1, {"record"}) /\ Values(2) /\ Imm \in DOMAIN Payload(Peek(1))
    [] op = "select-field"  -> IsKind(1, {"record"}) /\ Imm \in DOMAIN Payload(Peek(1))
    [] op = "select-index"  -> /\ IsKind(1, {"list", "tuple"}) /\ IsKind(2, {"num"})
                               /\ InBounds(Payload(Peek(1)), Payload(Peek(2)))
    [] op = "unwrap"        -> Has(1) /\ Inside(Peek(1)) # <<>>
    [] op = "length"        -> IsKind(1, {"list", "iterator"})
    [] op = "not"           -> IsKind(1, {"bool"})
    [] op = "math"          -> /\ IsKind(1, {"num"}) /\ IsKind(2, {"num"})
                               /\ Imm = "-" => Payload(Peek(1)) >= Payload(Peek(2))
                               /\ Imm = "/" => Payload(Peek(2)) # 0
    [] op = "compare"       -> Has(2) /\ Compared(Imm, Peek(1), Peek(2)) # <<>>
    [] op = "jump"          -> Places(Imm) # {}
    [] op = "jump-if-false" -> IsKind(1, {"bool"}) /\ (Payload(Peek(1)) \/ Places(Imm) # {})
    [] op = "assign"        -> Has(1)
    [] op = "load"          -> Imm \in DOMAIN env /\ Kind(env[Imm]) \in ValueKinds \cup {"unit"}
    [] op = "invoke"        -> /\ IsKind(1, {"str"}) /\ \A k \in 2..(Imm.args + 1) : IsKind(k, ValueKinds)
                               /\ Reached(Imm.on)
    [] op = "to-iterator"   -> Has(1) /\ (Kind(Peek(1)) = "list" \/ IsRange(Peek(1)))
    [] op = "is-empty"      -> IsKind(1, {"list"}) \/ Iterating # 0
    [] op = "advance"       -> Iterating # 0 /\ Payload(Peek(Iterating)) # <<>>
    [] op = "push-to-sink"  -> Values(1) => TopSink(stack) # 0
    [] op = "sink-to-list"  -> TopSink(stack) # 0
    [] op = "throw"         -> FALSE
    [] OTHER                -> TRUE

At(op) ==
  /\ outcome = Running
  /\ pc \in DOMAIN code
  /\ code[pc].op = op
  /\ Ready

(***************************************************************************)
(* An instruction that pops n elements and pushes the elements of q.       *)
(***************************************************************************)
Replace(n, q) ==
  /\ stack' = Below(n) \o q
  /\ pc' = pc + 1
  /\ UNCHANGED <<code, env, calls, names, outcome>>

-----------------------------------------------------------------------------
(***************************************************************************)
(* Values.                                                                 *)
(***************************************************************************)
Literal == At("lit") /\ Replace(0, <<Imm>>)

Popped(n) == [k \in 1..n |-> Peek(k)]

Collection ==
  \/ At("sequence") /\ Replace(Imm, <<List(Popped(Imm))>>)
  \/ At("tuple") /\ Replace(Imm, <<Tuple(Popped(Imm))>>)

Join ==
  /\ At("concat")
  /\ Replace(Imm, <<Str(Seqs!FoldLeft(LAMBDA text, v : text \o TextOf(v), "", Popped(Imm)))>>)

Wrap ==
  \/ At("some") /\ Replace(1, <<Some(Peek(1))>>)
  \/ At("ok") /\ Replace(1, <<Ok(Peek(1))>>)
  \/ At("err") /\ Replace(1, <<Err(Peek(1))>>)

Construct == At("variant") /\ Replace(Imm[2], <<Variant(Imm[1], Popped(Imm[2]))>>)

PushEnum == At("enum") /\ Replace(0, <<Enum(Imm)>>)

\* Fields hold the empty tuple until they are updated.
CreateRecord ==
  At("create-record") /\ Replace(0, <<Rec([f \in {Imm[k] : k \in DOMAIN Imm} |-> Tuple(<<>>)])>>)

UpdateRecord ==
  At("update-record") /\ Replace(2, <<Rec([Payload(Peek(1)) EXCEPT ![Imm] = Peek(2)])>>)

SelectField == At("select-field") /\ Replace(1, <<Payload(Peek(1))[Imm]>>)

SelectIndex == At("select-index") /\ Replace(2, <<Payload(Peek(1))[Payload(Peek(2)) + 1]>>)

Deconstruct == At("unwrap") /\ Replace(1, <<Inside(Peek(1))[1]>>)

Tag(v) ==
  CASE Kind(v) = "variant" -> Payload(v)[1]
    [] Kind(v) = "option"  -> IF Payload(v) = <<>> THEN "none" ELSE "some"
    [] Kind(v) = "result"  -> Payload(v)[1]
    [] Kind(v) = "enum"    -> Payload(v)
    [] OTHER               -> "untagged"

GetTag == At("get-tag") /\ Replace(1, <<Str(Tag(Peek(1)))>>)

Size == At("length") /\ Replace(1, <<Num(Len(Payload(Peek(1))))>>)

Negate == At("not") /\ Replace(1, <<Boolean(~ Payload(Peek(1)))>>)

\* The left operand is on top.
Arithmetic ==
  At("math") /\ Replace(2, <<Num(Computed(Imm, Payload(Peek(1)), Payload(Peek(2))))>>)

Comparison ==
  At("compare") /\ Replace(2, <<Boolean(Compared(Imm, Peek(1), Peek(2))[1])>>)

-----------------------------------------------------------------------------
(***************************************************************************)
(* Control: the cursor moves behind the first label with the number.       *)
(***************************************************************************)
MoveTo(l) == pc' = 1 + CHOOSE p \in Places(l) : \A q \in Places(l) : p <= q

Skip == At("label") /\ Replace(0, <<>>)

Goto ==
  /\ At("jump")
  /\ MoveTo(Imm)
  /\ UNCHANGED <<code, stack, env, calls, names, outcome>>

JumpUnless ==
  /\ At("jump-if-false")
  /\ IF Payload(Peek(1)) THEN pc' = pc + 1 ELSE MoveTo(Imm)
  /\ stack' = Below(1)
  /\ UNCHANGED <<code, env, calls, names, outcome>>

(***************************************************************************)
(* Variables.  Anything can be assigned, an iterator or a sink not loaded. *)
(***************************************************************************)
Assign ==
  /\ At("assign")
  /\ env' = [x \in DOMAIN env \cup {Imm} |-> IF x = Imm THEN Peek(1) ELSE env[x]]
  /\ stack' = Below(1)
  /\ pc' = pc + 1
  /\ UNCHANGED <<code, calls, names, outcome>>

Load == At("load") /\ Replace(0, <<env[Imm]>>)

(***************************************************************************)
(* Calls.  The name is on top of the arguments; the call may fail.         *)
(***************************************************************************)
FunctionName == At("function-name") /\ Replace(0, <<Str(Imm)>>)

\* The call that the invocation at the cursor makes.
Calling ==
  [function |-> Payload(Peek(1)),
   instance |-> Target(Imm.on).instance,
   args     |-> Target(Imm.on).handle \o [k \in 1..Imm.args |-> Peek(k + 1)]]

Invoke ==
  /\ At("invoke")
  /\ calls' = Append(calls, Calling)
  /\ stack' = Append(Below(Imm.args + 1), Answer(Calling, Len(calls)))
  /\ pc' = pc + 1
  /\ UNCHANGED <<code, env, names, outcome>>

HostError ==
  /\ HostMayFail
  /\ At("invoke")
  /\ calls' = Append(calls, Calling)
  /\ outcome' = <<"error", "host">>
  /\ UNCHANGED <<code, pc, stack, env, names>>

(***************************************************************************)
(* instance() without a name: a new one from the host.                     *)
(***************************************************************************)
GenerateWorkerName ==
  /\ At("worker-name")
  /\ names' = names + 1
  /\ stack' = Append(stack, Str(NewName(names')))
  /\ pc' = pc + 1
  /\ UNCHANGED <<code, env, calls, outcome>>

-----------------------------------------------------------------------------
(***************************************************************************)
(* Loops.  An iterator, and over it the sink that collects, stay on the    *)
(* stack while the body runs.                                              *)
(***************************************************************************)
ToIterator ==
  /\ At("to-iterator")
  /\ LET v == Payload(Peek(1)) IN
     Replace(1, <<Iterator(IF IsRange(Peek(1))
                           THEN Span(Payload(v.from), Payload(v.to), Payload(v.inclusive))
                           ELSE v)>>)

CreateSink == At("create-sink") /\ Replace(0, <<Sink(<<>>)>>)

\* For an iterator the answer is whether it has MORE elements.
IsEmpty ==
  /\ At("is-empty")
  /\ IF Iterating = 0
     THEN Replace(1, <<Boolean(Payload(Peek(1)) = <<>>)>>)
     ELSE Replace(0, <<Boolean(Payload(Peek(Iterating)) # <<>>)>>)

Advance ==
  /\ At("advance")
  /\ LET q == Payload(Peek(Iterating))
         sink == IF Iterating = 1 THEN <<>> ELSE <<Peek(1)>>
     IN  Replace(Iterating, <<Iterator(Tail(q))>> \o sink \o <<Head(q)>>)

\* What is above the last sink is dropped; without a value nothing happens.
PushToSink ==
  /\ At("push-to-sink")
  /\ LET s == TopSink(stack) IN
     IF Values(1)
     THEN Replace(Len(stack) - s + 1, <<Sink(Append(Payload(stack[s]), Peek(1)))>>)
     ELSE Replace(IF Has(1) THEN 1 ELSE 0, <<>>)

SinkToList ==
  /\ At("sink-to-list")
  /\ LET s == TopSink(stack) IN Replace(Len(stack) - s + 1, <<List(Payload(stack[s]))>>)

-----------------------------------------------------------------------------
(***************************************************************************)
(* The end of the program: its value is on top of the stack.               *)
(***************************************************************************)
Final ==
  IF code[Len(code)].op = "assign" \/ stack = <<>> THEN Unit ELSE Peek(1)

End ==
  /\ outcome = Running
  /\ pc = Len(code) + 1
  /\ outcome' = IF Kind(Final) \in ValueKinds \cup {"unit"} THEN <<"value", Final>>
                ELSE <<"error", "no result">>
  /\ UNCHANGED <<code, pc, stack, env, calls, names>>

(***************************************************************************)
(* An instruction that cannot be executed ends the run: an error of the    *)
(* program (an index, a division, no match) or one of the interpreter's    *)
(* "corrupted state" errors.                                               *)
(***************************************************************************)
Fault ==
  /\ outcome = Running
  /\ pc \in DOMAIN code
  /\ ~ Ready
  /\ outcome' = <<"error", code[pc].op>>
  /\ UNCHANGED <<code, pc, stack, env, calls, names>>

Execute ==
  \/ Literal \/ Collection \/ Join \/ Wrap \/ Construct \/ PushEnum \/ CreateRecord \/ UpdateRecord
  \/ SelectField \/ SelectIndex \/ Deconstruct \/ GetTag \/ Size
  \/ Negate \/ Arithmetic \/ Comparison
  \/ Skip \/ Goto \/ JumpUnless \/ Assign \/ Load
  \/ FunctionName \/ Invoke \/ HostError \/ GenerateWorkerName
  \/ ToIterator \/ CreateSink \/ IsEmpty \/ Advance \/ PushToSink \/ SinkToList
  \/ Fault \/ End

===============================================================================
