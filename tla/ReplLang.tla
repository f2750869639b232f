------------------------------- MODULE ReplLang -------------------------------
(***************************************************************************)
(* The lines of a REPL session as programs: the values they bind, the      *)
(* instructions they compile to, and what an instruction does inside the   *)
(* interpreter.  The bytecode is abstracted to what the cache of the REPL  *)
(* can tell apart: a call, the generation of an instance name, a binding   *)
(* to a constant, branches, a counted loop that collects values into a     *)
(* list, and a run-time error.  The interpreter itself is module RibVM.    *)
(***************************************************************************)
EXTENDS Integers, Sequences

CONSTANTS
  Vars,   \* names bound by `let`
  NoVar   \* no variable (of an instruction that uses none)

(***************************************************************************)
(* Values.  An instance is the name of a worker: generated (the number     *)
(* stands for the uuid) or given by the user as instance("name").          *)
(***************************************************************************)
Number(n)   == <<"number", n>>
Anonymous(n)== <<"anonymous", n>>
Named(s)    == <<"named", s>>
Collected(q)== <<"list", q>>
Unbound     == <<"unbound", 0>>

(***************************************************************************)
(* Instructions.  Jump targets are relative to the jump.                   *)
(***************************************************************************)
Ops == {"call", "instance", "const", "unless", "goto",
        "iterate", "next", "push", "collect", "throw"}

Instr(op, dst, src, lit, to) ==
  [op |-> op, dst |-> dst, src |-> src, lit |-> lit, to |-> to]

Call(dst, inst)      == Instr("call", dst, inst, Unbound, 1)
Instance(dst)        == Instr("instance", dst, NoVar, Unbound, 1)
Const(dst, v)        == Instr("const", dst, NoVar, v, 1)
Unless(src, v, by)   == Instr("unless", NoVar, src, v, by)
Goto(by)             == Instr("goto", NoVar, NoVar, Unbound, by)
Iterate(n)           == Instr("iterate", NoVar, NoVar, Number(n), 1)
NextItem(by)         == Instr("next", NoVar, NoVar, Unbound, by)
PushItem(src)        == Instr("push", NoVar, src, Unbound, 1)
Collect(dst)         == Instr("collect", dst, NoVar, Unbound, 1)
Throw                == Instr("throw", NoVar, NoVar, Unbound, 1)

(***************************************************************************)
(* f with k mapped to v (HashMap::insert).                                 *)
(***************************************************************************)
Put(f, k, v) == [x \in DOMAIN f \cup {k} |-> IF x = k THEN v ELSE f[x]]

EmptyMap == [x \in {} |-> 0]

(***************************************************************************)
(* A new interpreter: first instruction, no bindings, empty stack.         *)
(***************************************************************************)
StartVM == [pc |-> 1, env |-> [v \in Vars |-> Unbound], left |-> 0, sink |-> <<>>]

(***************************************************************************)
(* A variable that is read must be bound, or the interpreter stops with    *)
(* input_not_found.                                                        *)
(***************************************************************************)
Readable(m, i) == i.src # NoVar => m.env[i.src] # Unbound

Assign(m, x, v) ==
  [pc |-> m.pc + 1, env |-> [m.env EXCEPT ![x] = v], left |-> m.left, sink |-> m.sink]

(***************************************************************************)
(* The instructions whose effect stays inside the interpreter: how far     *)
(* they move it, and what they do to the bindings, the open iterator and   *)
(* the sink.                                                               *)
(***************************************************************************)
Jumps(m, i) ==
  \/ i.op = "goto"
  \/ i.op = "unless" /\ m.env[i.src] # i.lit
  \/ i.op = "next" /\ m.left = 0

Local(m, i) ==
  [pc   |-> m.pc + (IF Jumps(m, i) THEN i.to ELSE 1),
   env  |-> CASE i.op = "const"   -> [m.env EXCEPT ![i.dst] = i.lit]
              [] i.op = "collect" -> [m.env EXCEPT ![i.dst] = Collected(m.sink)]
              [] OTHER            -> m.env,
   left |-> CASE i.op = "iterate" -> i.lit[2]
              [] i.op = "next"    -> IF m.left = 0 THEN 0 ELSE m.left - 1
              [] OTHER            -> m.left,
   sink |-> CASE i.op = "push"    -> Append(m.sink, m.env[i.src])
              [] i.op \in {"iterate", "collect"} -> <<>>
              [] OTHER            -> m.sink]

LocalOps == Ops \ {"call", "instance", "throw"}

===============================================================================
