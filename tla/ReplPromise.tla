----------------------------- MODULE ReplPromise -----------------------------
(***************************************************************************)
(* What the REPL promises its user, without a cache and without a replay.  *)
(* The session keeps the values that were bound.  A line runs once, on     *)
(* those bindings; when it succeeds its bindings are kept, when it fails   *)
(* none is, and only what the workers did meanwhile remains.  A bare       *)
(* instance() is a worker no kept binding has.  A line whose future the    *)
(* embedder drops is not forgotten: it runs again before the next one.     *)
(*                                                                         *)
(* The promise is conditional.  A line whose use of a variable types an    *)
(* earlier let anew, so that the earlier lines compile to other            *)
(* instructions than they ran as, makes the whole script run again from    *)
(* nothing; there a call may be answered by what some worker answered      *)
(* before, as well as by its worker.                                       *)
(***************************************************************************)
EXTENDS ReplLang

CONSTANTS
  Lines,        \* the lines a user may type
  Compiled(_)   \* Compiled(s): <<the instructions of script s>>, <<>> if it is refused

VARIABLES
  script,    \* the lines of the session, the one in hand and those dropped included
  ran,       \* the instructions of the lines whose bindings are kept, as they ran
  bindings,  \* what the session keeps
  owned,     \* the names given to the instances of the session
  task,      \* the line being run, or Idle
  guest      \* external: how many calls each worker has served

pvars == <<script, ran, bindings, owned, task, guest>>

Idle == [code |-> <<>>, m |-> StartVM, owned |-> {}, busy |-> FALSE, again |-> FALSE]

Init ==
  /\ script = <<>>
  /\ ran = <<>>
  /\ bindings = StartVM.env
  /\ owned = {}
  /\ task = Idle
  /\ guest = EmptyMap

Compilation(s) == Compiled(s)[1]

(***************************************************************************)
(* What was run is part of the program as it was.                          *)
(***************************************************************************)
Unchanged(code) == \A p \in DOMAIN ran : p \in DOMAIN code /\ code[p] = ran[p]

(***************************************************************************)
(* A line begins on the bindings of the session, after those dropped, or   *)
(* the whole script begins anew.                                           *)
(***************************************************************************)
Continue(code) ==
  [code |-> SubSeq(code, Len(ran) + 1, Len(code)), m |-> [StartVM EXCEPT !.env = bindings],
   owned |-> owned, busy |-> TRUE, again |-> FALSE]

RunAgain(code) ==
  [code |-> code, m |-> StartVM, owned |-> {}, busy |-> TRUE, again |-> TRUE]

Begin(l) ==
  /\ ~ task.busy
  /\ Compiled(Append(script, l)) # <<>>
  /\ script' = Append(script, l)
  /\ LET code == Compilation(script')
     IN  task' = IF Unchanged(code) THEN Continue(code) ELSE RunAgain(code)
  /\ UNCHANGED <<ran, bindings, owned, guest>>

Doing(op) ==
  /\ task.busy
  /\ task.m.pc \in DOMAIN task.code
  /\ task.code[task.m.pc].op = op

Instruction == task.code[task.m.pc]

Compute ==
  /\ \E op \in LocalOps : Doing(op)
  /\ task' = [task EXCEPT !.m = Local(@, Instruction)]
  /\ UNCHANGED <<script, ran, bindings, owned, guest>>

(***************************************************************************)
(* A bare instance() is given a name nobody in the session has.            *)
(***************************************************************************)
NewInstance ==
  /\ Doing("instance")
  /\ \E w \in task'.owned \ task.owned :
       task' = [task EXCEPT !.m = Assign(@, Instruction.dst, w), !.owned = @ \cup {w}]
  /\ UNCHANGED <<script, ran, bindings, owned, guest>>

Served(w) == IF w \in DOMAIN guest THEN guest[w] ELSE 0

Serve(w) == Put(guest, w, Served(w) + 1)

(***************************************************************************)
(* A call reaches its worker, once.                                        *)
(***************************************************************************)
Invoke ==
  /\ Doing("call")
  /\ LET w == task.m.env[Instruction.src]
     IN  /\ guest' = Serve(w)
         /\ task' = [task EXCEPT !.m = Assign(@, Instruction.dst, Number(Served(w) + 1))]
  /\ UNCHANGED <<script, ran, bindings, owned>>

(***************************************************************************)
(* When everything runs again, a call may be answered without reaching its *)
(* worker, by an answer some worker gave.                                  *)
(***************************************************************************)
Recall ==
  /\ Doing("call")
  /\ task.again
  /\ \E w \in DOMAIN guest : \E n \in 1..guest[w] :
       task' = [task EXCEPT !.m = Assign(@, Instruction.dst, Number(n))]
  /\ UNCHANGED <<script, ran, bindings, owned, guest>>

(***************************************************************************)
(* The line fails: nothing is kept.  A failing call may have reached its   *)
(* worker.                                                                 *)
(***************************************************************************)
Abort ==
  /\ task.busy
  /\ \/ guest' = guest
     \/ Doing("call") /\ guest' = Serve(task.m.env[Instruction.src])
  /\ task' = Idle
  /\ script' = SubSeq(script, 1, Len(script) - 1)
  /\ UNCHANGED <<ran, bindings, owned>>

(***************************************************************************)
(* The embedder drops the line while a worker is called: nothing is kept,  *)
(* and its line stays in the script, to be run again with the next.        *)
(***************************************************************************)
Drop ==
  /\ Doing("call")
  /\ guest' \in {guest, Serve(task.m.env[Instruction.src])}
  /\ task' = Idle
  /\ UNCHANGED <<script, ran, bindings, owned>>

(***************************************************************************)
(* The line succeeds: its bindings and its instances are kept.             *)
(***************************************************************************)
Commit ==
  /\ task.busy
  /\ task.m.pc = Len(task.code) + 1
  /\ bindings' = task.m.env
  /\ owned' = task.owned
  /\ ran' = Compilation(script)
  /\ task' = Idle
  /\ UNCHANGED <<script, guest>>

Clear ==
  /\ ~ task.busy
  /\ script' = <<>>
  /\ ran' = <<>>
  /\ bindings' = StartVM.env
  /\ owned' = {}
  /\ UNCHANGED <<task, guest>>

Next ==
  \/ \E l \in Lines : Begin(l)
  \/ Compute
  \/ NewInstance
  \/ Invoke
  \/ Recall
  \/ Abort
  \/ Drop
  \/ Commit
  \/ Clear

Spec == Init /\ [][Next]_pvars

=============================================================================
