------------------------------ MODULE RibCompile ------------------------------
(***************************************************************************)
(* RibByteCode::from_expr: the compiler from expressions to bytecode.      *)
(* It keeps a stack of work (expressions to compile and instructions to    *)
(* put between them), and writes the code from its last instruction to its *)
(* first.                                                                  *)
(***************************************************************************)
EXTENDS RibTerms

CONSTANTS
  Programs,     \* the expressions compiled
  Exprs,        \* those, and all that compiling them comes upon
  Yielding,     \* the expressions of Exprs that leave a value on the stack
  Desugar(_),   \* the expression a match or a slice stands for (RibDesugar)
  NoExpr        \* what Desugar returns when there is none

VARIABLES
  source,   \* the expression being compiled
  work,     \* the stack of work, its top at the end
  out,      \* the instructions written so far, the last of the program first
  labels,   \* number of the last label made
  verdict   \* "compiling", "compiled" or "rejected"

cvars == <<source, work, out, labels, verdict>>

CInit ==
  /\ source \in Programs
  /\ work = <<[what |-> "expr", it |-> source]>>
  /\ out = <<>>
  /\ labels = 0
  /\ verdict = "compiling"

ExprItem(e) == [what |-> "expr", it |-> e]
IrItem(i)   == [what |-> "ir", it |-> i]

-----------------------------------------------------------------------------
\* The parts of a block; as a mutant of Operands: a missing reversal.
InOrder(e) == [k \in 1..Len(e.args) |-> ExprItem(e.args[k])]

(***************************************************************************)
(* An expression whose operands are compiled before the instructions of    *)
(* its own.  The operands are pushed last first, so the code of the last   *)
(* comes first: at run time the first operand ends on top of the stack.    *)
(***************************************************************************)
Operands(e) ==
  LET n == Len(e.args)
  IN  [k \in 1..n |-> ExprItem(e.args[n + 1 - k])]

Updates(fs) == [k \in 1..Len(fs) |-> Ir("update-record", fs[Len(fs) + 1 - k])]

(***************************************************************************)
(* A call, and the creation of a resource, which is the call of its        *)
(* constructor: the name goes on top of the arguments, then it is made.    *)
(***************************************************************************)
Invocation(e) ==
  <<Ir("invoke", [on |-> e.tag[2], args |-> Len(e.args)]), Ir("function-name", e.tag[1])>>

\* Flags: a Boolean for each of the type, in the order of the type.
Bitmap(e) == Flags([k \in DOMAIN e.tag[1] |-> e.tag[1][k] \in e.tag[2]])

(***************************************************************************)
(* The instructions of the expression itself, in the order they are        *)
(* written: the first is executed last.                                    *)
(***************************************************************************)
Own(e) ==
  CASE e.form = "literal"      -> <<PushLit(e.tag)>>
    [] e.form = "identifier"   -> <<LoadVar(e.tag)>>
    [] e.form = "let"          -> <<AssignVar(e.tag)>>
    [] e.form \in {"compare", "math", "select-field"} -> <<Ir(e.form, e.tag)>>
    [] e.form \in {"sequence", "tuple", "concat"} -> <<Ir(e.form, Len(e.args))>>
    [] e.form = "enum"         -> <<Ir("enum", e.tag)>>
    [] e.form = "flags"        -> <<PushLit(Bitmap(e))>>
    [] e.form = "instance"     -> <<>>
    [] e.form = "record"       -> Updates(e.tag) \o <<Ir("create-record", e.tag)>>
    [] e.form = "variant"      -> <<Ir("variant", <<e.tag, Len(e.args)>>)>>
    [] e.form = "call"         -> Invocation(e)
    [] OTHER                   -> <<Plain(e.form)>>

OperandForms ==
  {"literal", "identifier", "let", "compare", "math", "select-field",
   "sequence", "tuple", "record", "variant", "call", "not", "select-index",
   "some", "ok", "err", "length", "unwrap", "get-tag", "throw", "enum",
   "flags", "concat", "instance", "worker-name"}

\* A worker that no variable holds cannot be called.
Unresolved(e) == e.form = "call" /\ e.tag[2] = Unnamed

(***************************************************************************)
(* Forms that stand for another expression.                                *)
(***************************************************************************)
True == Lit(Boolean(TRUE))

Standing(e) ==
  CASE e.form = "and" -> If(Equal(e.args[1], True), Equal(e.args[2], True), Lit(Boolean(FALSE)))
    [] e.form = "or"  -> If(Equal(e.args[1], True), True, Equal(e.args[2], True))
    [] OTHER          -> Desugar(e)

StandingForms == {"and", "or", "match", "select-range"}

-----------------------------------------------------------------------------
(***************************************************************************)
(* The expressions there are.  The number of operands of a form is that of *)
(* the boxes of its variant in the enum Expr, and a record has a value for *)
(* each of its names.                                                      *)
(***************************************************************************)
Operandless == {"literal", "identifier", "throw", "enum", "flags", "worker-name"}

OneOperand ==
  {"let", "select-field", "not", "some", "ok", "err", "length", "unwrap",
   "get-tag", "instance", "range-from"}

TwoOperands ==
  {"compare", "math", "select-index", "and", "or", "select-range", "range", "for"}

Formed(e) ==
  /\ e.form \in Operandless => e.args = <<>>
  /\ e.form \in OneOperand => Len(e.args) = 1
  /\ e.form \in TwoOperands => Len(e.args) = 2
  /\ e.form \in {"cond", "reduce"} => Len(e.args) = 3
  /\ e.form = "record" => e.tag \in Seq(STRING) /\ Len(e.tag) = Len(e.args)

ASSUME ExprsAssumption ==
  /\ Programs \subseteq Exprs
  /\ {e.args : e \in Exprs} \subseteq Seq(Exprs)
  /\ {Standing(e) : e \in {f \in Exprs : f.form \in StandingForms}} \subseteq Exprs \cup {NoExpr}
  /\ \A e \in Exprs : Formed(e)

(***************************************************************************)
(* The expressions whose value is that of e, and those whose values e      *)
(* uses.  A let is a statement, which leaves nothing.                      *)
(***************************************************************************)
LeftBy(e) ==
  CASE e.form = "block" -> {e.args[Len(e.args)]}
    [] e.form = "cond"  -> {e.args[2], e.args[3]}
    [] e.form \in StandingForms -> {Standing(e)} \ {NoExpr}
    [] OTHER            -> {}

UsedBy(e) ==
  CASE e.form = "block" -> {}
    [] e.form = "cond"  -> {e.args[1]}
    [] e.form \in StandingForms -> {}
    [] OTHER            -> {e.args[k] : k \in DOMAIN e.args}

ASSUME YieldingAssumption ==
  /\ \A e \in Yielding : e.form # "let" /\ (e.form = "block" => e.args # <<>>)
  /\ UNION {LeftBy(e) : e \in Yielding} \subseteq Yielding
  /\ UNION {UsedBy(e) : e \in Exprs} \subseteq Yielding

-----------------------------------------------------------------------------
Pop == SubSeq(work, 1, Len(work) - 1)

Lowering(forms) ==
  /\ verdict = "compiling"
  /\ work # <<>>
  /\ work[Len(work)].what = "expr"
  /\ work[Len(work)].it.form \in forms

Top == work[Len(work)].it

(***************************************************************************)
(* An instruction that comes off the stack is written.                     *)
(***************************************************************************)
WriteInstruction ==
  /\ verdict = "compiling"
  /\ work # <<>>
  /\ work[Len(work)].what = "ir"
  /\ out' = Append(out, Top)
  /\ work' = Pop
  /\ UNCHANGED <<source, labels, verdict>>

LowerOperands ==
  /\ Lowering(OperandForms)
  /\ ~ Unresolved(Top)
  /\ out' = out \o Own(Top)
  /\ work' = Pop \o Operands(Top)
  /\ UNCHANGED <<source, labels, verdict>>

LowerBlock ==
  /\ Lowering({"block"})
  /\ work' = Pop \o InOrder(Top)
  /\ UNCHANGED <<source, out, labels, verdict>>

LowerStanding ==
  /\ Lowering(StandingForms)
  /\ Standing(Top) # NoExpr
  /\ work' = Pop \o <<ExprItem(Standing(Top))>>
  /\ UNCHANGED <<source, out, labels, verdict>>

(***************************************************************************)
(* No arm of a match has a condition (PatternMatchDesugarError), or a call *)
(* is sent to no variable (UnresolvedWorkerName).                          *)
(***************************************************************************)
Reject ==
  /\ \/ Lowering(StandingForms) /\ Standing(Top) = NoExpr
     \/ Lowering({"call"}) /\ Unresolved(Top)
  /\ verdict' = "rejected"
  /\ UNCHANGED <<source, work, out, labels>>

\* Mutant of Choice: a condition that does not hold jumps to the end.
ChoiceSkips(e, else, end) ==
  <<ExprItem(e.args[1]), IrItem(JumpIfFalse(end)), ExprItem(e.args[2]), IrItem(Jump(end)),
    IrItem(Label(else)), ExprItem(e.args[3]), IrItem(Label(end))>>

\* A condition: the labels of its second branch and of its end.
Choice(e, else, end) ==
  <<ExprItem(e.args[1]),
    IrItem(JumpIfFalse(else)),
    ExprItem(e.args[2]),
    IrItem(Jump(end)),
    IrItem(Label(else)),
    ExprItem(e.args[3]),
    IrItem(Label(end))>>

\* Mutant of LowerIf: one label for both.
LowerIfOneLabel ==
  /\ Lowering({"cond"})
  /\ labels' = labels + 1
  /\ work' = Pop \o Choice(Top, labels + 1, labels + 1)
  /\ UNCHANGED <<source, out, verdict>>

LowerIf ==
  /\ Lowering({"cond"})
  /\ labels' = labels + 2
  /\ work' = Pop \o Choice(Top, labels + 1, labels + 2)
  /\ UNCHANGED <<source, out, verdict>>

(***************************************************************************)
(* A range is a record of its ends; an open one has no field "to".         *)
(***************************************************************************)
Ends(e) == IF e.form = "range" THEN <<"from", "to">> ELSE <<"from">>

Bounds(e) ==
  LET inclusive == IrItem(PushLit(Boolean(e.tag)))
  IN  IF e.form = "range"
        THEN <<ExprItem(e.args[1]), ExprItem(e.args[2]), inclusive>>
        ELSE <<ExprItem(e.args[1]), inclusive>>

RangeOwn(e) ==
  LET fields == Append(Ends(e), "inclusive")
  IN  [k \in 1..Len(fields) |-> Ir("update-record", fields[k])] \o <<Ir("create-record", fields)>>

LowerRange ==
  /\ Lowering({"range", "range-from"})
  /\ out' = out \o RangeOwn(Top)
  /\ work' = Pop \o Bounds(Top)
  /\ UNCHANGED <<source, labels, verdict>>

\* Mutant of Comprehension: without an element left the loop begins again.
ComprehensionRestarts(e, start, exit) ==
  <<ExprItem(e.args[1]), IrItem(Plain("to-iterator")), IrItem(Plain("create-sink")), IrItem(Label(start)),
    IrItem(Plain("is-empty")), IrItem(JumpIfFalse(start)), IrItem(Plain("advance")), IrItem(AssignVar(e.tag)),
    ExprItem(e.args[2]), IrItem(Plain("push-to-sink")), IrItem(Jump(start)), IrItem(Label(exit)),
    IrItem(Plain("sink-to-list"))>>

\* A list comprehension: the labels of its start and of its exit.
Comprehension(e, start, exit) ==
  <<ExprItem(e.args[1]),
    IrItem(Plain("to-iterator")),
    IrItem(Plain("create-sink")),
    IrItem(Label(start)),
    IrItem(Plain("is-empty")),
    IrItem(JumpIfFalse(exit)),
    IrItem(Plain("advance")),
    IrItem(AssignVar(e.tag)),
    ExprItem(e.args[2]),
    IrItem(Plain("push-to-sink")),
    IrItem(Jump(start)),
    IrItem(Label(exit)),
    IrItem(Plain("sink-to-list"))>>

LowerFor ==
  /\ Lowering({"for"})
  /\ labels' = labels + 2
  /\ work' = Pop \o Comprehension(Top, labels + 1, labels + 2)
  /\ UNCHANGED <<source, out, verdict>>

\* A list reduction: the list, the first value, and the same two labels.
Reduction(e, start, exit) ==
  <<ExprItem(e.args[1]),
    ExprItem(e.args[2]),
    IrItem(AssignVar(e.tag[1])),
    IrItem(Plain("to-iterator")),
    IrItem(Label(start)),
    IrItem(Plain("is-empty")),
    IrItem(JumpIfFalse(exit)),
    IrItem(Plain("advance")),
    IrItem(AssignVar(e.tag[2])),
    ExprItem(e.args[3]),
    IrItem(AssignVar(e.tag[1])),
    IrItem(Jump(start)),
    IrItem(Label(exit)),
    IrItem(LoadVar(e.tag[1]))>>

LowerReduce ==
  /\ Lowering({"reduce"})
  /\ labels' = labels + 2
  /\ work' = Pop \o Reduction(Top, labels + 1, labels + 2)
  /\ UNCHANGED <<source, out, verdict>>

(***************************************************************************)
(* Nothing is left: the code is the output in reverse.                     *)
(***************************************************************************)
Compiled ==
  /\ verdict = "compiling"
  /\ work = <<>>
  /\ verdict' = "compiled"
  /\ UNCHANGED <<source, work, out, labels>>

CodeOf(o) == [k \in 1..Len(o) |-> o[Len(o) + 1 - k]]

CNext ==
  \/ WriteInstruction
  \/ LowerOperands
  \/ LowerBlock
  \/ LowerStanding
  \/ Reject
  \/ LowerIf
  \/ LowerRange
  \/ LowerFor
  \/ LowerReduce
  \/ Compiled

CSpec == CInit /\ [][CNext]_cvars

-----------------------------------------------------------------------------
(***************************************************************************)
(* The code of a compiled program jumps only to labels that it has, and    *)
(* has once: RibByteCodeCursor::move_to takes the first label with the     *)
(* number it looks for and fails when there is none.                       *)
(***************************************************************************)
IsJump(i) == i.op \in {"jump", "jump-if-false"}

IsLabel(i, l) == i.op = "label" /\ i.imm = l

JumpsLand ==
  verdict = "compiled" =>
    \A p \in DOMAIN out :
      IsJump(out[p]) =>
        \E q \in DOMAIN out :
          /\ IsLabel(out[q], out[p].imm)
          /\ \A r \in DOMAIN out : IsLabel(out[r], out[p].imm) => r = q

===============================================================================
