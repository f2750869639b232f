----------------------------- MODULE ReplSession -----------------------------
(***************************************************************************)
(* The session of the Rib REPL (rib-repl): the script typed so far, the    *)
(* cache of invocation results, the generator of instance names, and the   *)
(* evaluation of one more line.                                            *)
(*                                                                         *)
(* There is no incremental evaluation.  Every line is appended to the      *)
(* script, the WHOLE script is compiled again and interpreted again from   *)
(* its first instruction with an empty environment.  Calls whose           *)
(* instruction is not past the last one that was executed successfully are *)
(* answered from the cache, so the earlier lines are "replayed" rather     *)
(* than run; a line that fails is popped from the script.                  *)
(*                                                                         *)
(* The bytecode is abstracted to the instructions the cache can tell       *)
(* apart: a call, the generation of an instance name, a binding to a       *)
(* constant, branches, a counted loop that collects values, and a          *)
(* run-time error.  The compiler is a constant: it infers the types of the *)
(* whole script, and what a later line does with a variable types the let  *)
(* that bound it, so nothing is assumed of how the code of the lines       *)
(* already run, as part of a longer script, compares with what it was.     *)
(***************************************************************************)
EXTENDS ReplLang

CONSTANTS
  Lines,          \* the lines a user may type
  Compiled(_),    \* Compiled(s): <<the instructions of script s>>, <<>> when the
                  \*   inference of types or the generation of bytecode refuses it
  Commented,      \* lines whose text ends in a `//` comment
  Unparsable,     \* lines the parser refuses
  Cancellable,    \* may the embedder drop the future of `execute`?
  MaxSubmissions  \* bound on the number of lines typed in a behaviour

-----------------------------------------------------------------------------
(***************************************************************************)
(* Compilation.  The lines are joined by ";\n" into one text; a comment at *)
(* the end of a line swallows the separator after it.                      *)
(***************************************************************************)
Parses(s) ==
  /\ \A i \in DOMAIN s : s[i] \notin Unparsable
  /\ \A i \in DOMAIN s : i < Len(s) => s[i] \notin Commented

TypeChecks(s) == Compiled(s) # <<>>

Program(s) == Compiled(s)[1]

(***************************************************************************)
(* The scripts there can be, and the instructions their programs are of.   *)
(***************************************************************************)
Scripts == UNION {[1..n -> Lines] : n \in 0..MaxSubmissions}

Used == UNION {{Program(s)[k] : k \in DOMAIN Program(s)} : s \in {q \in Scripts : TypeChecks(q)}}

ASSUME SubmissionsAssumption == MaxSubmissions \in Nat

ASSUME CompiledAssumption ==
  \A s \in Scripts : TypeChecks(s) => Compiled(s) = <<Program(s)>> /\ Program(s) \in Seq(Used)

-----------------------------------------------------------------------------
VARIABLES
  script,     \* rib_script: the lines that are part of the session
  bytecode,   \* the program `execute` is interpreting, <<>> at the prompt
  results,    \* invocation_results: instruction -> result of its last call
  last,       \* last_executed_instruction, 0 when there is none
  count,      \* instance_count of the name generator
  names,      \* worker_name_cache: names[i] is the name of the i-th instance
  phase,      \* "idle" at the prompt, "running" inside `execute`
  reply,      \* how the last `execute` ended
  vm,         \* the interpreter: position, environment, open iterator, sink
  guest,      \* external: how many calls each worker has served
  submitted   \* number of lines typed (bounded by MaxSubmissions)

vars == <<script, bytecode, results, last, count, names, phase, reply, vm,
          guest, submitted>>

Init ==
  /\ script = <<>>
  /\ bytecode = <<>>
  /\ results = EmptyMap
  /\ last = 0
  /\ count = 0
  /\ names = <<>>
  /\ phase = "idle"
  /\ reply = "none"
  /\ vm = StartVM
  /\ guest = EmptyMap
  /\ submitted = 0

-----------------------------------------------------------------------------
(***************************************************************************)
(* `execute` on a line that does not compile: the line is pushed, the      *)
(* compiler fails, the line is popped.  The instance count is reset when   *)
(* the failure comes after parsing.                                        *)
(***************************************************************************)
Reject(l) ==
  /\ phase = "idle"
  /\ submitted < MaxSubmissions
  /\ LET s == Append(script, l)
     IN  /\ ~ (Parses(s) /\ TypeChecks(s))
         /\ count' = IF Parses(s) THEN 0 ELSE count
  /\ reply' = "compile_error"
  /\ submitted' = submitted + 1
  /\ UNCHANGED <<script, bytecode, results, last, names, phase, vm, guest>>

\* Mutant of Start: the count is not reset.
StartKeepsCount(l) ==
  /\ phase = "idle"
  /\ submitted < MaxSubmissions
  /\ LET s == Append(script, l)
     IN  /\ Parses(s) /\ TypeChecks(s)
         /\ script' = s
         /\ bytecode' = Program(s)
  /\ phase' = "running"
  /\ vm' = StartVM
  /\ submitted' = submitted + 1
  /\ UNCHANGED <<results, last, count, names, reply, guest>>

(***************************************************************************)
(* `execute` on a line that compiles: the script with the line, compiled   *)
(* as a whole, becomes the program, and a new interpreter starts at its    *)
(* first instruction.                                                      *)
(***************************************************************************)
Start(l) ==
  /\ phase = "idle"
  /\ submitted < MaxSubmissions
  /\ LET s == Append(script, l)
     IN  /\ Parses(s) /\ TypeChecks(s)
         /\ script' = s
         /\ bytecode' = Program(s)
  /\ count' = 0
  /\ phase' = "running"
  /\ vm' = StartVM
  /\ submitted' = submitted + 1
  /\ UNCHANGED <<results, last, names, reply, guest>>

-----------------------------------------------------------------------------
(***************************************************************************)
(* The interpreter                                                         *)
(***************************************************************************)
Executing(op) ==
  /\ phase = "running"
  /\ vm.pc \in DOMAIN bytecode
  /\ bytecode[vm.pc].op = op

Current == bytecode[vm.pc]

Compute ==
  /\ \E op \in LocalOps : Executing(op)
  /\ Readable(vm, Current)
  /\ vm' = Local(vm, Current)
  /\ UNCHANGED <<script, bytecode, results, last, count, names, phase, reply,
                 guest, submitted>>

\* Mutants of NameOf: the cache is never consulted; it is consulted before
\* the count is incremented.
NameUncached(c, known) == Anonymous(Len(known) + 1)
NameBeforeIncrement(c, known) ==
  IF c - 1 \in DOMAIN known THEN known[c - 1] ELSE Anonymous(Len(known) + 1)

(***************************************************************************)
(* GenerateWorkerName: the name of the count-th instance of the program,   *)
(* drawn the first time and remembered for the rest of the session.  The   *)
(* uuid is new: the cache never forgets a name, so its size names one.     *)
(***************************************************************************)
NameOf(c, known) == IF c \in DOMAIN known THEN known[c] ELSE Anonymous(Len(known) + 1)

GenerateName ==
  /\ Executing("instance")
  /\ Readable(vm, Current)
  /\ count' = count + 1
  /\ names' = IF count' \in DOMAIN names THEN names ELSE Append(names, NameOf(count', names))
  /\ vm' = Assign(vm, Current.dst, NameOf(count', names))
  /\ UNCHANGED <<script, bytecode, results, last, phase, reply, guest, submitted>>

\* Mutants of Cached: without the check of the last executed instruction; with
\* an off-by-one in it.
CachedAnywhere(pc) == pc \in DOMAIN results
CachedBeforeLast(pc) == pc < last /\ pc \in DOMAIN results

(***************************************************************************)
(* get_cached_result: nothing past the last executed instruction is        *)
(* answered from the cache.                                                *)
(***************************************************************************)
Cached(pc) == pc <= last /\ pc \in DOMAIN results

CachedCall ==
  /\ Executing("call")
  /\ Readable(vm, Current)
  /\ Cached(vm.pc)
  /\ vm' = Assign(vm, Current.dst, results[vm.pc])
  /\ UNCHANGED <<script, bytecode, results, last, count, names, phase, reply,
                 guest, submitted>>

(***************************************************************************)
(* The host (external): a worker counts the calls it serves and answers    *)
(* with the count, as the `increment-and-get` export of the docs does.     *)
(***************************************************************************)
Served(w) == IF w \in DOMAIN guest THEN guest[w] ELSE 0

Serve(w) == Put(guest, w, Served(w) + 1)

Calling ==
  /\ Executing("call")
  /\ Readable(vm, Current)
  /\ ~ Cached(vm.pc)

\* Mutant of HostCall: the cache is not updated.
HostCallNotCached ==
  /\ Calling
  /\ LET w == vm.env[Current.src]
     IN  /\ guest' = Serve(w)
         /\ vm' = Assign(vm, Current.dst, Number(Served(w) + 1))
  /\ UNCHANGED <<script, bytecode, results, last, count, names, phase, reply, submitted>>

HostCall ==
  /\ Calling
  /\ LET w == vm.env[Current.src]
         r == Number(Served(w) + 1)
     IN  /\ guest' = Serve(w)
         /\ results' = Put(results, vm.pc, r)
         /\ vm' = Assign(vm, Current.dst, r)
  /\ UNCHANGED <<script, bytecode, last, count, names, phase, reply, submitted>>

-----------------------------------------------------------------------------
(***************************************************************************)
(* How `execute` ends.                                                     *)
(***************************************************************************)
Pop == script' = SubSeq(script, 1, Len(script) - 1)

Fail ==
  /\ phase' = "idle"
  /\ bytecode' = <<>>
  /\ reply' = "runtime_error"
  /\ vm' = StartVM
  /\ Pop

\* Mutant of RuntimeError: reading an unbound variable is not an error.
RuntimeErrorOnThrow ==
  /\ Executing("throw")
  /\ Fail
  /\ UNCHANGED <<results, last, count, names, guest, submitted>>

(***************************************************************************)
(* An error of the interpreter itself.                                     *)
(***************************************************************************)
RuntimeError ==
  /\ \E op \in Ops : Executing(op)
  /\ Current.op = "throw" \/ ~ Readable(vm, Current)
  /\ Fail
  /\ UNCHANGED <<results, last, count, names, guest, submitted>>

(***************************************************************************)
(* A call the host answers with an error, or with a value that cannot be   *)
(* converted; the worker may have acted on it or not.                      *)
(***************************************************************************)
HostError ==
  /\ Calling
  /\ guest' \in {guest, Serve(vm.env[Current.src])}
  /\ Fail
  /\ UNCHANGED <<results, last, count, names, submitted>>

\* Mutant of Finish: the last instruction is one past the end.
FinishPastEnd ==
  /\ phase = "running"
  /\ vm.pc = Len(bytecode) + 1
  /\ last' = Len(bytecode) + 1
  /\ phase' = "idle"
  /\ bytecode' = <<>>
  /\ reply' = "ok"
  /\ vm' = StartVM
  /\ UNCHANGED <<script, results, count, names, guest, submitted>>

(***************************************************************************)
(* The end of the program.                                                 *)
(***************************************************************************)
Finish ==
  /\ phase = "running"
  /\ vm.pc = Len(bytecode) + 1
  /\ last' = Len(bytecode)
  /\ phase' = "idle"
  /\ bytecode' = <<>>
  /\ reply' = "ok"
  /\ vm' = StartVM
  /\ UNCHANGED <<script, results, count, names, guest, submitted>>

(***************************************************************************)
(* The embedder drops the future of `execute` while the host call is in    *)
(* flight: neither the pop nor the cache update happens.                   *)
(***************************************************************************)
Cancel ==
  /\ Cancellable
  /\ Calling
  /\ guest' \in {guest, Serve(vm.env[Current.src])}
  /\ phase' = "idle"
  /\ bytecode' = <<>>
  /\ reply' = "cancelled"
  /\ vm' = StartVM
  /\ UNCHANGED <<script, results, last, count, names, submitted>>

(***************************************************************************)
(* The command `:clear`.                                                   *)
(***************************************************************************)
Clear ==
  /\ phase = "idle"
  /\ script' = <<>>
  /\ results' = EmptyMap
  /\ last' = 0
  /\ UNCHANGED <<bytecode, count, names, phase, reply, vm, guest, submitted>>

-----------------------------------------------------------------------------
Step == Compute \/ GenerateName \/ CachedCall \/ HostCall
          \/ RuntimeError \/ HostError \/ Finish

Next ==
  \/ \E l \in Lines : Reject(l) \/ Start(l)
  \/ Step
  \/ Cancel
  \/ Clear

Spec == Init /\ [][Next]_vars

(***************************************************************************)
(* Once `execute` has started, the future is polled until it ends, and the *)
(* host answers.  Nothing obliges the user to type another line.           *)
(***************************************************************************)
FairSpec == Spec /\ WF_vars(Step)

=============================================================================
