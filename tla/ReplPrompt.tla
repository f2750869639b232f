------------------------------ MODULE ReplPrompt ------------------------------
(***************************************************************************)
(* The prompt of the REPL: lines are typed, or filled in by completion     *)
(* from what the last line that compiled has left known; each is compiled  *)
(* together with the lines kept before it, by the passes of RibFront, and  *)
(* run, which ReplSession details: here only how the host answers the call *)
(* that the line is.                                                       *)
(***************************************************************************)
EXTENDS RibFront, ReplEdit

ASSUME FunctionsAreTheDictionary == Functions = dict

allVars == <<vars, promptVars>>

-----------------------------------------------------------------------------
(***************************************************************************)
(* What is known of a program that compiles: fetch_instance_variables, the *)
(* type of each variable that is let and an instance, workers and          *)
(* resources apart, the last let of a name; and get_identifiers.           *)
(***************************************************************************)
InstanceKey(x, t) == <<IF ResourceOf(t) = "" THEN "worker" ELSE "resource", x>>

RECURSIVE InstancesIn(_, _)
InstancesIn(order, known) ==
  IF order = <<>> THEN known
  ELSE LET n == arena.nodes[Head(order)]
       IN  InstancesIn(Tail(order),
             IF n.form = "let" /\ IsInstance(arena.types[n.args[1]])
             THEN (InstanceKey(n.tag.name, arena.types[n.args[1]]) :> arena.types[n.args[1]]) @@ known
             ELSE known)

\* For the run that checks KeptOffered: only variables that are used are remembered.
CompiledUsesOnly ==
  [instances |-> InstancesIn(PostOrder(arena.nodes, root), <<>>),
   names     |-> {NameAt(arena.nodes, id) : id \in {i \in Under(arena.nodes, root) : IsIdentifier(arena.nodes, i)}}]

Compiled ==
  [instances |-> InstancesIn(PostOrder(arena.nodes, root), <<>>),
   names     |-> {NameAt(arena.nodes, id) :
                    id \in {i \in Under(arena.nodes, root) : arena.nodes[i].form \in {"let", "identifier"}}}]

(***************************************************************************)
(* The expression that the text of a generated value is read as.  <<>> if  *)
(* it cannot be read: a handle, or a result without a payload.             *)
(***************************************************************************)
RECURSIVE HasHandle(_)
HasHandle(t) == t.k = "resource" \/ \E j \in DOMAIN t.parts : t.parts[j].t # <<>> /\ HasHandle(Only(t.parts[j]))

RECURSIVE IsReadable(_, _)
IsReadable(v, t) ==
  /\ ~ HasHandle(t) /\ t.k # "chr"
  /\ t.k = "result" => v.vs # <<>>
  /\ t.k \in {"list", "option", "record", "tuple"} =>
       \A j \in DOMAIN v.vs : IsReadable(v.vs[j], TypesWithin(t, Len(v.vs))[j])
  /\ t.k = "result" => IsReadable(v.vs[1], Only(t.parts[IF v.at = <<"ok">> THEN 1 ELSE 2]))
  /\ t.k = "variant" => \A j \in DOMAIN v.vs : IsReadable(v.vs[j], Only(t.parts[v.at[1]]))

RECURSIVE Shown(_, _)
ShownCase(name, parts) ==
  IF parts = <<>> THEN Identifier(Global(name)) ELSE Term("call", Function(name), parts)

Shown(v, t) ==
  LET within(ts) == [j \in DOMAIN v.vs |-> Shown(v.vs[j], ts[j])]
  IN  CASE IsNumber(t)     -> Term("number", "", <<>>)
        [] t.k = "str"     -> Term("literal", "", <<>>)
        [] t.k = "bool"    -> Term("boolean", "", <<>>)
        [] t.k = "variant" -> ShownCase(t.parts[v.at[1]].n, within(t.parts[v.at[1]].t))
        [] t.k = "enum"    -> ShownCase(t.parts[v.at[1]].n, <<>>)
        [] t.k = "flags"   -> Term("flags", SelectSeq(NamesOf(t), LAMBDA n : n \in NamesSet(v, t)), <<>>)
        [] t.k = "result"  -> Term(v.at[1], "", within(t.parts[IF v.at = <<"ok">> THEN 1 ELSE 2].t))
        [] t.k = "record"  -> Term("record", NamesOf(t), within(TypesOf(t)))
        [] OTHER           -> Term(t.k, "", within(TypesWithin(t, Len(v.vs))))

FilledLine(x, entry) ==
  Term("invoke", CalledAs(entry.key),
       <<Identifier(Global(x))>> \o [j \in DOMAIN Filled(entry) |-> Shown(Generated(Filled(entry)[j]), Filled(entry)[j])])

-----------------------------------------------------------------------------
NoProgram == Term("block", "", <<>>)

\* A program to be compiled; between lines nothing of one is kept.
Load(e, next) ==
  program' = e /\ pass' = next /\ arena' = Empty /\ root' = 0 /\ before' = <<>> /\ scans' = 0
Unload == Load(NoProgram, "accepted")

InitPrompt ==
  /\ program = NoProgram /\ pass = "accepted"
  /\ arena = Empty /\ root = 0 /\ before = <<>> /\ scans = 0
  /\ InitEdit

\* What the lines are read as, one after the other.
ProgramOf(lines) == IF Len(lines) = 1 THEN lines[1] ELSE Term("block", "", lines)

\* A line is typed or filled in, and the script is compiled from its text.
SubmitLine == (TypeLine \/ Complete) /\ Load(ProgramOf(script'), "lower")

Compile == phase = "compiling" /\ Next /\ UNCHANGED promptVars

Accept == IsAccepted /\ Learn(Compiled) /\ UNCHANGED vars

Refuse == pass = "refused" /\ Reject(arena.fault = "panic") /\ Unload

\* The line in hand, as inferred.
LineRun ==
  LET e == IF Len(script) = 1 THEN Inferred ELSE Seqs!Last(Inferred.args)
  IN  IF e.form = "let" THEN e.args[1] ELSE e

CallsHost == LineRun.form = "call" /\ LineRun.tag.key.kind \notin {"worker", "variant", "enum"}

\* WitTypeWithUnit of the type inferred for the call; what the signature says of it.
ReturnType ==
  LET t == LineRun.type
  IN  CASE t.k = "sequence" -> <<>>
        [] IsInstance(t)    -> <<HandleT(ResourceOf(t), t.parts[2].n)>>
        [] OTHER            -> <<t>>
Declared == EntryCalled(dict, LineRun.tag.key)[1].result

Run      == phase = "running" /\ ~ CallsHost /\ Ends(TRUE, <<>>) /\ Unload
FailRun  == Ends(FALSE, <<>>) /\ Unload
NoValue  == phase = "running" /\ CallsHost /\ Ends(TRUE, <<>>) /\ Unload
GetValue ==
  /\ phase = "running" /\ CallsHost
  /\ \E w \in HostValues : Answers(w, ReturnType, Declared)
  /\ Unload

ClearSession == Clear /\ UNCHANGED vars

NextPrompt ==
  \/ SubmitLine \/ Compile \/ Accept \/ Refuse
  \/ Run \/ FailRun \/ NoValue \/ GetValue \/ ClearSession

SpecPrompt == InitPrompt /\ [][NextPrompt]_allVars

-----------------------------------------------------------------------------
LineInHand == Seqs!Last(script)

\* The lines kept let x once, and completion has not met another x in a line that has failed.
LetOnceOnly(x) ==
  /\ Len(SelectSeq(Seqs!Front(script), LAMBDA e : e.form = "let" /\ e.tag.name = x)) = 1
  /\ ~ {<<"worker", x>>, <<"resource", x>>} \subseteq DOMAIN symbols[1].instances

\* A call that completion has filled in, on a variable the session still has, compiles: the
\* arguments made up have the types and the number the checker wants (rib_edit.rs).
CompletedAccepted ==
  phase = "compiling" /\ made # <<>> /\ LetOnceOnly(made[1]) /\ made[2].key.kind # "static" =>
    pass # "refused"

\* The same of every function, static ones included (README.md:9, language guide, section 1:
\* the stubs match the parameters).
FilledAccepted ==
  phase = "compiling" /\ made # <<>> /\ LetOnceOnly(made[1]) => pass # "refused"

\* A call on a variable completion knows of is offered by it, if it compiles, constructors
\* included (language guide, section 1); but not what takes a resource, on the worker itself.
OffersEveryCall ==
  LET e == IF LineInHand.form = "let" THEN LineInHand.args[1] ELSE LineInHand
      x == e.args[1].tag.name
  IN  phase = "compiling" /\ IsAccepted /\ e.form = "invoke" /\ x \in KnownNames =>
        \/ LineRun.tag.key.kind \in {"method", "static"} /\ <<"worker", x>> \in DOMAIN symbols[1].instances
        \/ e.tag \in {CalledAs(FunctionAt(o).key) : o \in Offered(symbols[1], x)}

===============================================================================
