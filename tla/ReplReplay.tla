------------------------------ MODULE ReplReplay ------------------------------
(***************************************************************************)
(* The session with history variables that remember how the committed      *)
(* lines were executed, the properties of the replay, and the mapping that *)
(* shows a session without loops to implement ReplPromise.                 *)
(*                                                                         *)
(* The replay interprets what the committed lines compile to now, as part  *)
(* of a longer script.  It is faithful as far as that is what they ran as: *)
(* PathKept.  A line that types an earlier let anew can make the replay    *)
(* bind other values, call workers and fail; ValuesKept, ReplayCallsNobody *)
(* and OwnFaultOnly are the properties without the condition.              *)
(***************************************************************************)
EXTENDS ReplSession

VARIABLES
  trace,  \* history: instruction -> the snapshot before it, in this execution
  ran,    \* history: the program of the last execution that ended well
  path    \* history: the trace of that execution

hvars == <<script, bytecode, results, last, count, names, phase, reply, vm,
           guest, submitted, trace, ran, path>>

Snapshot == [m |-> vm, n |-> count]

FirstSnapshot == [m |-> StartVM, n |-> 0]

Fresh == [p \in {1} |-> FirstSnapshot]

HInit == Init /\ trace = Fresh /\ ran = <<>> /\ path = Fresh

Record == trace' = Put(trace, vm'.pc, Snapshot') /\ UNCHANGED <<ran, path>>

Forget == trace' = Fresh /\ UNCHANGED <<ran, path>>

HReject(l)    == Reject(l) /\ UNCHANGED <<trace, ran, path>>
HStart(l)     == Start(l) /\ Forget
HCompute      == Compute /\ Record
HGenerateName == GenerateName /\ Record
HCachedCall   == CachedCall /\ Record
HHostCall     == HostCall /\ Record
HRuntimeError == RuntimeError /\ Forget
HHostError    == HostError /\ Forget
HFinish       == Finish /\ trace' = Fresh /\ ran' = bytecode /\ path' = trace
HCancel       == Cancel /\ Forget
HClear        == Clear /\ trace' = Fresh /\ ran' = <<>> /\ path' = Fresh

HStep == HCompute \/ HGenerateName \/ HCachedCall \/ HHostCall
           \/ HRuntimeError \/ HHostError \/ HFinish

HNext ==
  \/ \E l \in Lines : HReject(l) \/ HStart(l)
  \/ HStep
  \/ HCancel
  \/ HClear

HSpec == HInit /\ [][HNext]_hvars

HFairSpec == HSpec /\ WF_hvars(HStep)

-----------------------------------------------------------------------------
Running == phase = "running"

(***************************************************************************)
(* Types of the session.                                                   *)
(***************************************************************************)
IsVM(m) ==
  /\ m = [pc |-> m.pc, env |-> m.env, left |-> m.left, sink |-> m.sink]
  /\ m.pc \in Nat \ {0}

TypeOK ==
  /\ script \in Scripts /\ Len(script) <= submitted
  /\ bytecode \in Seq(Used)
  /\ ran \in Seq(Used) /\ last = Len(ran)
  /\ DOMAIN results \subseteq Nat
  /\ count \in 0..Len(names)
  /\ names \in Seq({"anonymous"} \X Nat)
  /\ \A i \in DOMAIN names : names[i] = Anonymous(i)
  /\ phase \in {"idle", "running"}
  /\ reply \in {"none", "ok", "compile_error", "runtime_error", "cancelled"}
  /\ IsVM(vm)
  /\ submitted \in 0..MaxSubmissions

(***************************************************************************)
(* The line in hand leaves what was run as it was: its compilation changed *)
(* no instruction that the execution of the committed lines went through.  *)
(***************************************************************************)
PathKept == \A p \in DOMAIN path : p <= last => p \in DOMAIN bytecode /\ bytecode[p] = ran[p]

(***************************************************************************)
(* The bindings a replay leaves behind are those the lines had when they   *)
(* were executed: same values, same instances, same counter of instances,  *)
(* whatever lines were dropped or failed in between.                       *)
(***************************************************************************)
ReplayRestores ==
  (Running /\ vm.pc = last + 1 /\ PathKept) => Snapshot = path[last + 1]

(***************************************************************************)
(* Executing the committed lines again never calls a worker: whatever      *)
(* happens to the state of the guests happens on behalf of the new line.   *)
(***************************************************************************)
ReplayIsPure == [][guest' # guest /\ PathKept => vm.pc > last]_vars

(***************************************************************************)
(* A replay cannot fail: when a line is refused at run time it is for what *)
(* the line itself does.                                                   *)
(***************************************************************************)
ReplayNeverFails ==
  [][Running /\ ~ Running' /\ reply' = "runtime_error" /\ PathKept => vm.pc > last]_vars

(***************************************************************************)
(* The same without the condition (rib-repl README: "the session keeps the *)
(* values you already defined"): a value is kept, no worker is called for  *)
(* a committed line, and no line is refused for another.                   *)
(***************************************************************************)
ValuesKept == (Running /\ vm.pc = last + 1) => vm.env = path[last + 1].m.env

ReplayCallsNobody == [][guest' # guest => vm.pc > last]_vars

OwnFaultOnly == [][Running /\ ~ Running' /\ reply' = "runtime_error" => vm.pc > last]_vars

(***************************************************************************)
(* Two bindings made by two bare instance() never share a worker, in one   *)
(* line or across lines, replayed or not.                                  *)
(***************************************************************************)
InstancesDistinct ==
  \A x, y \in Vars :
    x # y /\ vm.env[x] = vm.env[y] => vm.env[x][1] # "anonymous"

(***************************************************************************)
(* A worker made by a bare instance() in the line being run has served     *)
(* nobody yet (rib-repl README: "A bare instance() in source gets a fresh  *)
(* unique name each time").                                                *)
(***************************************************************************)
FreshWorker ==
  [][Executing("instance") /\ vm.pc > last /\ Running'
       => vm'.env[Current.dst] \notin DOMAIN guest]_vars

(***************************************************************************)
(* At the prompt, a line that parses on its own does so in the session     *)
(* (language guide, section 3: a `//` comment is a comment of its line;    *)
(* section 6: bindings from earlier lines stay in scope until cleared).    *)
(***************************************************************************)
GoodLinesAccepted ==
  ~ Running => \A l \in Lines : Parses(<<l>>) => Parses(Append(script, l))

(***************************************************************************)
(* Why the replay is faithful.  Replayed(code, s) is what the instruction  *)
(* of code at the snapshot s yields when calls are answered from the cache *)
(* and names from the generator; an instruction that a trace tr passes     *)
(* through is Repeatable when that is where the trace goes on.             *)
(***************************************************************************)
After(m, n, i, answer, name) ==
  [m |-> IF i.op = "call" THEN Assign(m, i.dst, answer)
         ELSE IF i.op = "instance" THEN Assign(m, i.dst, name)
         ELSE Local(m, i),
   n |-> IF i.op = "instance" THEN n + 1 ELSE n]

Replayed(code, s) ==
  After(s.m, s.n, code[s.m.pc], results[s.m.pc], names[s.n + 1])

Repeatable(code, tr, p) ==
  LET next == Replayed(code, tr[p]) IN
  /\ p \in DOMAIN code
  /\ tr[p].m.pc = p
  /\ Readable(tr[p].m, code[p])
  /\ code[p].op # "throw"
  /\ code[p].op = "call" => p \in DOMAIN results
  /\ code[p].op = "instance" => tr[p].n + 1 \in DOMAIN names
  /\ next.m.pc \in DOMAIN tr
  /\ tr[next.m.pc] = next

(***************************************************************************)
(* A trace leads from the first instruction of a program to another.       *)
(***************************************************************************)
LeadsTo(code, tr, end) ==
  /\ DOMAIN tr \subseteq 1..end
  /\ {1, end} \subseteq DOMAIN tr
  /\ tr[1] = FirstSnapshot
  /\ \A p \in DOMAIN tr : /\ IsVM(tr[p].m)
                          /\ tr[p].n \in Nat
  /\ \A p \in DOMAIN tr : p < end => Repeatable(code, tr, p)

(***************************************************************************)
(* The inductive invariant: what was run is repeatable from its first      *)
(* instruction to its end, so is an execution in progress up to where it   *)
(* is, and as long as it replays what was run it is on that path.          *)
(***************************************************************************)
OnPath ==
  /\ LeadsTo(bytecode, trace, vm.pc)
  /\ Snapshot = trace[vm.pc]
  /\ PathKept /\ vm.pc <= last + 1 => vm.pc \in DOMAIN path /\ Snapshot = path[vm.pc]

OnTrace ==
  /\ TypeOK
  /\ LeadsTo(ran, path, last + 1)
  /\ Running => OnPath

(***************************************************************************)
(* Programs without loops: every jump is forward.  The code is made of the *)
(* instructions of ReplLang.                                               *)
(***************************************************************************)
LoopFree == \A i \in Used : i.op \in Ops /\ i.to \in Nat \ {0}

(***************************************************************************)
(* Lines whose instances have names that are drawn: no constant is one.    *)
(***************************************************************************)
NamesDrawn == \A i \in Used : i.lit[1] # "anonymous"

(***************************************************************************)
(* The program is one of a script, and the names are drawn one after the   *)
(* other: the generator counts no further than they go.                    *)
(***************************************************************************)
NamesInOrder ==
  /\ script \in Scripts /\ Len(script) <= submitted
  /\ submitted \in 0..MaxSubmissions
  /\ bytecode \in Seq(Used)
  /\ count \in 0..Len(names)
  /\ names \in Seq({"anonymous"} \X Nat)
  /\ \A i \in DOMAIN names : names[i] = Anonymous(i)

(***************************************************************************)
(* What makes instances distinct: a bound one is among the first `count`   *)
(* names, which are drawn one after the other, and no call returns one.    *)
(***************************************************************************)
DrawnOnce ==
  /\ ~ Running => vm = StartVM
  /\ DOMAIN vm.env = Vars
  /\ \A x \in Vars : vm.env[x][1] = "anonymous" => \E i \in 1..count : vm.env[x] = Anonymous(i)
  /\ \A p \in DOMAIN results : results[p][1] # "anonymous"
  /\ InstancesDistinct

(***************************************************************************)
(* Programs without loops at all, and what the promise needs to know of    *)
(* the session with them: the snapshots of what was run have no iterator,  *)
(* instances have names, the program is that of the script, and what is    *)
(* cached was answered.                                                    *)
(***************************************************************************)
NoLoops ==
  /\ LoopFree
  /\ \A i \in Used : i.op \notin {"iterate", "next", "push", "collect"}

NothingOpen(tr) ==
  \A p \in DOMAIN tr : tr[p].m.left = 0 /\ tr[p].m.sink = <<>> /\ tr[p].n <= Len(names)

WasAnswered(r) == \E w \in DOMAIN guest : \E n \in 1..guest[w] : r = Number(n)

PromiseKept ==
  /\ NothingOpen(path)
  /\ Running => NothingOpen(trace) /\ script # <<>> /\ bytecode = Program(script)
  /\ \A w \in DOMAIN guest : guest[w] \in Nat
  /\ \A p \in DOMAIN results : WasAnswered(results[p])

(***************************************************************************)
(* A line that was accepted ends, and the user gets the prompt back.       *)
(***************************************************************************)
Answered == Running ~> ~ Running

(***************************************************************************)
(* The promise: the session keeps the bindings the last committed line     *)
(* left.  What is run is the part of the program past `last`, the lines    *)
(* that were dropped and then the line in hand; or all of it, when it is   *)
(* no longer what was run.                                                 *)
(***************************************************************************)
KeptBindings == path[last + 1].m.env

KeptNames(n) == {names[i] : i \in 1..n}

AsRun == \A p \in DOMAIN ran : p \in DOMAIN bytecode /\ bytecode[p] = ran[p]

Continued ==
  LET fresh == vm.pc <= last IN
  [code  |-> SubSeq(bytecode, last + 1, Len(bytecode)),
   m     |-> IF fresh THEN [StartVM EXCEPT !.env = KeptBindings]
                      ELSE [vm EXCEPT !.pc = @ - last],
   owned |-> KeptNames(IF fresh THEN path[last + 1].n ELSE count),
   busy  |-> TRUE, again |-> FALSE]

RunAgain == [code |-> bytecode, m |-> vm, owned |-> KeptNames(count), busy |-> TRUE, again |-> TRUE]

Task ==
  IF ~ Running THEN [code |-> <<>>, m |-> StartVM, owned |-> {}, busy |-> FALSE, again |-> FALSE]
  ELSE IF AsRun THEN Continued ELSE RunAgain

Promise == INSTANCE ReplPromise WITH
  bindings <- KeptBindings,
  owned    <- KeptNames(path[last + 1].n),
  task     <- Task

KeepsItsPromise == Promise!Spec

===============================================================================
