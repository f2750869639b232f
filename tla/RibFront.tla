------------------------------- MODULE RibFront -------------------------------
(***************************************************************************)
(* Expr::infer_types: a program and the component it calls go through the  *)
(* passes one after the other; the first error ends it.                    *)
(***************************************************************************)
EXTENDS RibCheck

CONSTANTS
  Programs,    \* the expressions that may be compiled
  Exports,     \* the functions of the component, in their order
  Specs        \* the types the host states of inputs, in their order

dict == Dictionary(Exports)

VARIABLES
  program,     \* the expression
  pass,        \* the pass that is next, or the outcome
  arena,       \* its nodes, their types, and the error if any
  root,        \* the index of its whole
  before,      \* the types as they were when the scan began
  scans        \* how many scans of the loop have changed some type (history)

vars == <<program, pass, arena, root, before, scans>>

Outcomes == {"accepted", "refused"}

Init ==
  /\ program \in Programs
  /\ pass = "lower"
  /\ arena = Empty
  /\ root = 0
  /\ before = <<>>
  /\ scans = 0

LowerProgram ==
  /\ pass = "lower"
  /\ arena' = Lower(Empty, program)[1]
  /\ root' = Len(arena'.nodes)
  /\ pass' = "specs"
  /\ UNCHANGED <<program, before, scans>>

\* One pass: its result, and which pass is next unless it has failed.
Does(this, next, result) ==
  /\ pass = this
  /\ arena' = result
  /\ pass' = IF Failed(arena') THEN "refused" ELSE next
  /\ UNCHANGED <<program, root>>

Pass(this, next, result) == Does(this, next, result) /\ UNCHANGED <<before, scans>>

\* The first pass of a scan, with a snapshot of the types before it.
FirstPass(this, next, result) ==
  Does(this, next, result) /\ before' = arena.types /\ UNCHANGED scans

\* The last one: the scan is done again unless it changed no type.
LastPass(this, first, next, result) ==
  /\ Does(this, IF Unchanged(before, arena'.types) THEN next ELSE first, result)
  /\ scans' = IF Unchanged(before, arena'.types) THEN 0 ELSE scans + 1
  /\ UNCHANGED before

-----------------------------------------------------------------------------
(***************************************************************************)
(* run_initial_binding_and_instance_phases.                                *)
(***************************************************************************)
BindSpecs    == Pass("specs", "annotations", BindGlobals(Specs, arena, root))
BindNotes    == Pass("annotations", "items", BindAnnotations(arena, root))
BindLoops    == Pass("items", "reductions", BindItems(arena, root))
BindFolds    == Pass("reductions", "matches", BindReductions(arena, root))
BindArmNames == Pass("matches", "lets", BindMatches(arena, root))
BindLetNames == Pass("lets", "instances", BindLets(arena, root))
FindInstances == Pass("instances", "stateful", IdentifyInstances(arena, root))
NameInstances == Pass("stateful", "variants", EnsureStateful(arena, root))

Initial ==
  BindSpecs \/ BindNotes \/ BindLoops \/ BindFolds \/ BindArmNames \/ BindLetNames
    \/ FindInstances \/ NameInstances

(***************************************************************************)
(* The rest of infer_types.  Two scans are repeated until types rest.      *)
(***************************************************************************)
FindVariants == Pass("variants", "enums", InferVariants(dict, arena, root))
FindEnums    == Pass("enums", "bindings", InferEnums(dict, arena, root))
FirstBinding == Pass("bindings", "scan calls", BindInstances(arena, root))

ScanBinding  == FirstPass("scan calls", "invokes", BindInstances(arena, root))
ScanInvokes  == LastPass("invokes", "scan calls", "signatures", InferInvokes(dict, arena, root))

Signatures   == Pass("signatures", "scan types", InferCallTypes(dict, arena, root))

ScanBack     == FirstPass("scan types", "forth", ShareBack(arena, root))
ScanForth    == Pass("forth", "arms", ShareForth(arena, root))
ScanArms     == Pass("arms", "down", ShareArms(arena, root))
ScanDown     == Pass("down", "back again", PushDown(arena, root))
AgainBack    == Pass("back again", "forth again", ShareBack(arena, root))
AgainForth   == Pass("forth again", "arms again", ShareForth(arena, root))
AgainArms    == Pass("arms again", "up", ShareArms(arena, root))
ScanUp       == Pass("up", "inputs", PullUp(dict, arena, root))
ScanInputs   == Pass("inputs", "calls", InferInputs(arena, root))
ScanCalls    == LastPass("calls", "scan types", "last binding", InferCallTypes(dict, arena, root))

LastBinding  == Pass("last binding", "check", BindInstances(arena, root))
Check        == Pass("check", "unify", TypeCheck(dict, arena, root))
UnifyAtLast  == Pass("unify", "accepted", UnifyTypes(arena, root))

Calls == FindVariants \/ FindEnums \/ FirstBinding \/ ScanBinding \/ ScanInvokes \/ Signatures

Sharing == ScanBack \/ ScanForth \/ ScanArms \/ AgainBack \/ AgainForth \/ AgainArms

Flow == Sharing \/ ScanDown \/ ScanUp \/ ScanInputs \/ ScanCalls

Next == LowerProgram \/ Initial \/ Calls \/ Flow \/ LastBinding \/ Check \/ UnifyAtLast

Spec == Init /\ [][Next]_vars

Passes ==
  {"lower", "specs", "annotations", "items", "reductions", "matches", "lets", "instances", "stateful",
   "variants", "enums", "bindings", "scan calls", "invokes", "signatures", "scan types", "forth", "arms",
   "down", "back again", "forth again", "arms again", "up", "inputs", "calls", "last binding", "check", "unify"}

\* Every node has a type and one place in the tree, whatever the passes have put there
\* (expr_arena.rs, type_inference); a pass that has failed is the last one.
TypeOK ==
  /\ pass \in Passes \cup Outcomes /\ scans \in Nat
  /\ DOMAIN arena.types = DOMAIN arena.nodes /\ root \in DOMAIN arena.nodes \cup {0}
  /\ pass = "refused" <=> Failed(arena)
  /\ root # 0 => LET ids == PreOrder(arena.nodes, root)
                 IN  Seqs!IsInjective(ids) /\ Seqs!ToSet(ids) \subseteq DOMAIN arena.nodes

IsAccepted == pass = "accepted"
Inferred == Rebuild(arena, root)
===============================================================================
