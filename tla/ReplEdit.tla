------------------------------- MODULE ReplEdit -------------------------------
(***************************************************************************)
(* The prompt of the REPL without the compiler behind it: the lines kept,  *)
(* what completion knows since the last line that compiled, the calls it   *)
(* fills in and what the host answers.  Whether a line compiles, and what  *)
(* it then leaves known besides the names that are let, is left open; so   *)
(* is which lines call the host.  ReplPrompt adds the compiler.            *)
(***************************************************************************)
EXTENDS ReplHost

CONSTANTS
  Functions,         \* the dictionary: the component's functions, and constructors
  Lines,             \* the lines a user types, as the parser reads them
  HostValues,        \* what the host may answer a call with
  FilledCall(_, _),  \* the line that calls a function on a variable, filled in
  Readable(_, _),    \* whether the text of a value of a type can be read
  MaxTyped           \* bound on the lines and commands of a behaviour

ASSUME FunctionsAssumption ==
  \A j \in DOMAIN Functions :
    /\ Functions[j].key.kind \in {"function", "constructor", "method", "static", "variant", "enum"}
    /\ Functions[j].params \in Seq(WitTypes) /\ Functions[j].result \in Seq(WitTypes)

ASSUME HostValuesAssumption == HostValues \subseteq Outside /\ MaxTyped \in Nat

VARIABLES
  script,      \* rib_script: the lines kept, and the one in hand
  symbols,     \* compiler_output: <<what completion knows>>, <<>> at first
  phase,       \* "prompt", "compiling", "running" or "crashed"
  made,        \* <<variable, entry>> of the call filled in as the line in hand
  answer,      \* <<value, type>> of the line last run, if it is a call with a value
  typed        \* lines and commands so far (bounded by MaxTyped)

promptVars == <<script, symbols, phase, made, answer, typed>>

-----------------------------------------------------------------------------
(***************************************************************************)
(* resource_method_dictionary, function_dict_without_resource_methods: the *)
(* places of the functions offered for an instance.                        *)
(***************************************************************************)
\* For the runs that check OffersEveryCall and PromptTypeOK: constructors are left out; everything is in.
CallableOnFunctions(key, t) ==
  {j \in DOMAIN Functions : Reaches(t, Functions[j]) /\
     IF key[1] = "resource" THEN Functions[j].key.kind \in {"method", "static"} ELSE Functions[j].key.kind = "function"}
CallableOnAll(key, t) == {j \in DOMAIN Functions : Reaches(t, Functions[j])}

CallableOn(key, t) ==
  {j \in DOMAIN Functions : Reaches(t, Functions[j]) /\
     IF key[1] = "resource" THEN Functions[j].key.kind \in {"method", "static"}
     ELSE Functions[j].key.kind \notin {"method", "static", "variant", "enum"}}

(***************************************************************************)
(* complete_method_calls: the functions offered after `x.`, those of a     *)
(* worker of that name before those of a resource.                         *)
(***************************************************************************)
OfferedBy(key, known) ==
  IF key \in DOMAIN known.instances THEN CallableOn(key, known.instances[key]) ELSE {}

Offered(known, x) ==
  ({1} \X OfferedBy(<<"worker", x>>, known)) \cup ({2} \X OfferedBy(<<"resource", x>>, known))

FunctionAt(offer) == Functions[offer[2]]
Sooner(a, b) == a[1] < b[1] \/ (a[1] = b[1] /\ a[2] < b[2])

\* The names after which completion offers functions.
KnownNames == IF symbols = <<>> THEN {} ELSE {key[2] : key \in DOMAIN symbols[1].instances}

\* For the run that checks CompletedAccepted: the first one of anything is taken for a resource.
FilledRest(entry) == IF entry.params = <<>> THEN <<>> ELSE Tail(entry.params)

\* The arguments that are filled in: the first one of a method is its resource.
Filled(entry) ==
  IF entry.key.kind \in {"method", "static"} /\ entry.params # <<>> THEN Tail(entry.params) ELSE entry.params

\* What it can fill in: the first one of a name, if its arguments can be read.
CanFill(x) ==
  LET on == Offered(symbols[1], x)
  IN  {FunctionAt(o) : o \in {p \in on :
         /\ \A q \in on : Sooner(q, p) => CalledAs(FunctionAt(q).key) # CalledAs(FunctionAt(p).key)
         /\ \A t \in Seqs!ToSet(Filled(FunctionAt(p))) : Readable(Generated(t), t)}}

-----------------------------------------------------------------------------
InitEdit ==
  /\ script = <<>> /\ symbols = <<>> /\ phase = "prompt"
  /\ made = <<>> /\ answer = <<>> /\ typed = 0

(***************************************************************************)
(* execute: the line joins the script, which is compiled from its text.    *)
(***************************************************************************)
Submit(line) ==
  /\ phase = "prompt" /\ typed < MaxTyped
  /\ script' = Append(script, line)
  /\ phase' = "compiling"
  /\ typed' = typed + 1
  /\ answer' = <<>>
  /\ UNCHANGED symbols

TypeLine == \E line \in Lines : Submit(line) /\ made' = <<>>

Complete ==
  /\ phase = "prompt"
  /\ \E x \in KnownNames : \E entry \in CanFill(x) :
       Submit(FilledCall(x, entry)) /\ made' = <<x, entry>>

\* update_progression.
Learn(known) ==
  /\ phase = "compiling"
  /\ symbols' = <<known>>
  /\ phase' = "running"
  /\ UNCHANGED <<script, made, answer, typed>>

\* For the run that checks KeptOffered: the line that failed stays.
PoppedNot == script

\* remove_last_rib_expression.
Popped == Seqs!Front(script)

\* The script does not compile; nothing catches a panic.
Reject(panic) ==
  /\ phase = "compiling"
  /\ phase' = IF panic THEN "crashed" ELSE "prompt"
  /\ script' = IF panic THEN script ELSE Popped
  /\ made' = <<>>
  /\ UNCHANGED <<symbols, answer, typed>>

(***************************************************************************)
(* eval: the lines kept are replayed, and the call that the line in hand   *)
(* is, if it is one, is answered by the host.                              *)
(***************************************************************************)
Ends(kept, value) ==
  /\ phase = "running" /\ phase' = "prompt"
  /\ script' = IF kept THEN script ELSE Popped
  /\ answer' = value /\ made' = <<>>
  /\ UNCHANGED <<symbols, typed>>

\* The host answers with w, which is taken for a value of a type, <<>> if none was expected.
Answers(w, type, declared) ==
  /\ phase = "running"
  /\ LET v == Returned(<<w>>, type)
     IN  IF v = <<>> THEN Ends(FALSE, <<>>) ELSE Ends(TRUE, <<v[1][1], declared>>)

\* `:clear` empties the session; what completion knows stays.
Clear ==
  /\ phase = "prompt" /\ typed < MaxTyped /\ script # <<>>
  /\ script' = <<>>
  /\ typed' = typed + 1
  /\ made' = <<>> /\ answer' = <<>>
  /\ UNCHANGED <<symbols, phase>>

-----------------------------------------------------------------------------
(***************************************************************************)
(* What the compiler promises: the names that a script lets are known when *)
(* it has compiled, and a call is taken to return what its signature says. *)
(***************************************************************************)
NamesKnown(known) == known.names \cup {key[2] : key \in DOMAIN known.instances}

LetsNamed(lines, known) ==
  \A k \in DOMAIN lines : lines[k].form = "let" => lines[k].tag.name \in NamesKnown(known)

Compiles == Len(symbols') = 1 /\ LetsNamed(script, symbols'[1]) /\ Learn(symbols'[1])

Results == {<<>>} \cup {Functions[j].result : j \in DOMAIN Functions}

NextEdit ==
  \/ TypeLine \/ Complete
  \/ Compiles
  \/ \E panic \in BOOLEAN : Reject(panic)
  \/ \E kept \in BOOLEAN : Ends(kept, <<>>)
  \/ \E w \in HostValues, type \in Results : Answers(w, type, type)
  \/ Clear

\* The session with the compiler keeps to this one: what is let has become known when a script has
\* compiled, and the type a call's result is taken for is that of the signature (compiler.rs).
SpecEdit == InitEdit /\ [][NextEdit]_promptVars

-----------------------------------------------------------------------------
\* While a line is in hand there is one, a call that was filled in is of a function of the
\* component, and so is all that completion offers: constructors of cases it does not (rib_edit.rs).
IsKnowledge(known) ==
  \A x \in {key[2] : key \in DOMAIN known.instances} : \A o \in Offered(known, x) :
    FunctionAt(o).key.kind \in {"function", "constructor", "method", "static"}

PromptTypeOK ==
  /\ phase \in {"prompt", "compiling", "running", "crashed"} /\ typed \in 0..MaxTyped
  /\ phase # "prompt" => script # <<>>
  /\ symbols # <<>> => Len(symbols) = 1 /\ IsKnowledge(symbols[1])
  /\ phase = "running" => symbols # <<>>
  /\ made # <<>> => phase \in {"compiling", "running"} /\ made[2] \in Seqs!ToSet(Functions)

\* Every variable of the lines kept is offered at the prompt, whatever lines have failed since
\* and whatever was cleared (rib_edit.rs, rib_repl.rs).
KeptOffered ==
  phase = "prompt" /\ script # <<>> => symbols # <<>> /\ LetsNamed(script, symbols[1])

\* The value a call yields is of the type its signature declares, whatever the host answers; a
\* result that lacks its payload is let pass (rib_val.rs, invoke.rs).
AnswersTyped == answer # <<>> => answer[2] # <<>> /\ IsOf(answer[1], answer[2][1])

\* Arguments completion makes up reach the host, and a host that returns one returns the same
\* value (value_generator.rs, rib_val.rs).
FilledCross ==
  made # <<>> => \A t \in Seqs!ToSet(Filled(made[2])) :
    LET w == ToHost(Generated(t), t)
    IN  w # <<>> /\ FromHost(w[1], t) = <<Generated(t)>>

===============================================================================
