----------------------------- MODULE RibPipeline -----------------------------
(***************************************************************************)
(* From an expression to its value: the compiler writes the bytecode, the  *)
(* interpreter loads it and runs it to the end.                            *)
(***************************************************************************)
EXTENDS RibCompile, RibVM

CONSTANT Inputs   \* the environments a program is run in

VARIABLE input    \* the environment of this run

vars == <<cvars, mvars, input>>

Init ==
  /\ CInit
  /\ MInit
  /\ input \in Inputs
  /\ env = input

Compile == CNext /\ UNCHANGED <<mvars, input>>

StartRun ==
  /\ verdict = "compiled"
  /\ Start(CodeOf(out))
  /\ UNCHANGED <<cvars, input>>

Run == Execute /\ UNCHANGED <<cvars, input>>

Next == Compile \/ StartRun \/ Run

(***************************************************************************)
(* Compiler and interpreter are loops that nothing blocks: the only thing  *)
(* waited for is the host, which answers or fails.                         *)
(***************************************************************************)
Spec == Init /\ [][Next]_vars /\ WF_vars(Next)

-----------------------------------------------------------------------------
(***************************************************************************)
(* How many elements of the stack the interpreter takes for an instruction *)
(* before it looks at what they are.                                       *)
(***************************************************************************)
Takes(i) ==
  CASE i.op \in {"sequence", "tuple", "concat"} -> i.imm
    [] i.op = "variant" -> i.imm[2]
    [] i.op = "invoke"  -> i.imm.args + 1
    [] i.op \in {"update-record", "select-index", "compare", "math"} -> 2
    [] i.op \in {"some", "ok", "err", "length", "unwrap", "get-tag", "not", "select-field",
                 "assign", "jump-if-false", "to-iterator", "is-empty", "advance", "push-to-sink"} -> 1
    [] OTHER -> 0

(***************************************************************************)
(* However the runs of a program branch and loop, the interpreter finds on *)
(* its stack all that an instruction takes, the sink that an element is    *)
(* collected into, and in the code the label a jump goes to: try_pop,      *)
(* try_pop_n, pop_sink and move_to never come back with nothing.           *)
(***************************************************************************)
NothingMissing ==
  outcome = Running /\ pc \in DOMAIN code =>
    /\ Len(stack) >= Takes(code[pc])
    /\ code[pc].op \in {"push-to-sink", "sink-to-list"} => TopSink(stack) # 0
    /\ IsJump(code[pc]) => Places(code[pc].imm) # {}

(***************************************************************************)
(* Every program is compiled, or rejected, and then runs to an end.        *)
(***************************************************************************)
Finishes == <>(outcome # Running \/ verdict = "rejected")

===============================================================================
