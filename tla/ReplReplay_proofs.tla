--------------------------- MODULE ReplReplay_proofs ---------------------------
(***************************************************************************)
(* Proofs about the REPL session: for every compiler of programs without   *)
(* loops, every number of lines and every behaviour of the host, the       *)
(* replay of the committed lines follows the execution they had for as     *)
(* long as it goes through instructions that are what they were, and so    *)
(* calls no worker, does not fail and restores the bindings.               *)
(***************************************************************************)
EXTENDS ReplReplay, SequenceTheorems, TLAPS

(***************************************************************************)
(* Every instruction of a loop-free program jumps forward.                 *)
(***************************************************************************)
LEMMA UsedForward ==
  ASSUME LoopFree, NEW i \in Used
  PROVE  i.op \in Ops /\ i.to \in Nat \ {0}
  BY DEF LoopFree

(***************************************************************************)
(* The two ways an instruction moves the interpreter, and what they keep.  *)
(***************************************************************************)
LEMMA AssignVM ==
  ASSUME NEW m, IsVM(m), NEW x, NEW v
  PROVE  IsVM(Assign(m, x, v)) /\ Assign(m, x, v).pc = m.pc + 1
  BY DEF IsVM, Assign

LEMMA LocalVM ==
  ASSUME NEW m, IsVM(m), NEW i, i.to \in Nat \ {0}
  PROVE  IsVM(Local(m, i)) /\ Local(m, i).pc > m.pc
  <1>1. LET l == Local(m, i) IN l = [pc |-> l.pc, env |-> l.env, left |-> l.left, sink |-> l.sink]
    BY DEF Local
  <1>2. Local(m, i).pc = m.pc + (IF Jumps(m, i) THEN i.to ELSE 1)
    BY DEF Local
  <1> QED BY <1>1, <1>2 DEF IsVM

LEMMA StartIsVM == IsVM(StartVM) /\ StartVM.pc = 1
  BY DEF IsVM, StartVM

LEMMA PutMap ==
  ASSUME NEW f, NEW k, NEW v
  PROVE  /\ DOMAIN Put(f, k, v) = DOMAIN f \cup {k}
         /\ Put(f, k, v)[k] = v
         /\ \A x \in DOMAIN f : x # k => Put(f, k, v)[x] = f[x]
  BY DEF Put

(***************************************************************************)
(* Scripts are the sequences of lines that are not too long.               *)
(***************************************************************************)
LEMMA ScriptsAreSeqs ==
  ASSUME NEW s
  PROVE  s \in Scripts <=> s \in Seq(Lines) /\ Len(s) <= MaxSubmissions
  <1>1. ASSUME s \in Scripts PROVE s \in Seq(Lines) /\ Len(s) <= MaxSubmissions
    <2>1. PICK n \in 0..MaxSubmissions : s \in [1..n -> Lines]
      BY <1>1 DEF Scripts
    <2>2. n \in Nat /\ n <= MaxSubmissions
      BY <2>1, SubmissionsAssumption
    <2> QED BY <2>1, <2>2
  <1>2. ASSUME s \in Seq(Lines), Len(s) <= MaxSubmissions PROVE s \in Scripts
    <2>1. Len(s) \in 0..MaxSubmissions /\ s \in [1..Len(s) -> Lines]
      BY <1>2, SubmissionsAssumption
    <2> QED BY <2>1, Zenon DEF Scripts
  <1> QED BY <1>1, <1>2

LEMMA OneLineMore ==
  ASSUME script \in Scripts, Len(script) <= submitted, submitted \in Nat,
         submitted < MaxSubmissions, NEW l \in Lines
  PROVE  /\ Append(script, l) \in Scripts
         /\ Len(Append(script, l)) <= submitted + 1
         /\ Append(script, l) # <<>>
  <1>1. script \in Seq(Lines)
    BY ScriptsAreSeqs
  <1>2. Append(script, l) \in Seq(Lines) /\ Len(Append(script, l)) = Len(script) + 1
    BY <1>1
  <1>3. Len(script) \in Nat /\ MaxSubmissions \in Nat
    BY <1>1, SubmissionsAssumption
  <1>4. Len(Append(script, l)) <= MaxSubmissions /\ Len(Append(script, l)) <= submitted + 1
    BY <1>2, <1>3
  <1>5. Append(script, l) # <<>>
    BY <1>2, <1>3
  <1>6. Append(script, l) \in Scripts
    BY <1>2, <1>4, ScriptsAreSeqs
  <1> QED BY <1>4, <1>5, <1>6

LEMMA PrefixOf ==
  ASSUME NEW S, NEW s \in Seq(S), NEW n \in 0..Len(s)
  PROVE  /\ SubSeq(s, 1, n) \in Seq(S)
         /\ Len(SubSeq(s, 1, n)) = n
         /\ \A i \in 1..n : SubSeq(s, 1, n)[i] = s[i]
  <1>1. \A i \in 1..n : s[i] \in S
    OBVIOUS
  <1> QED BY <1>1, SubSeqProperties

LEMMA OneLineLess ==
  ASSUME script \in Scripts, Pop
  PROVE  script' \in Scripts /\ Len(script') <= Len(script)
  <1>1. script \in Seq(Lines) /\ Len(script) <= MaxSubmissions
    BY ScriptsAreSeqs
  <1>2. CASE script = <<>>
    <2>1. Len(script) - 1 < 1 /\ script' = SubSeq(script, 1, Len(script) - 1)
      BY <1>2 DEF Pop
    <2>2. script' = <<>>
      BY <2>1
    <2> QED BY <1>1, <1>2, <2>2
  <1>3. CASE script # <<>>
    <2>1. PICK n \in 0..Len(script) : n = Len(script) - 1
      BY <1>1, <1>3
    <2>2. script' \in Seq(Lines) /\ Len(script') = n
      BY <1>1, <2>1, PrefixOf DEF Pop
    <2>3. Len(script') <= Len(script) /\ Len(script') <= MaxSubmissions
      BY <1>1, <2>1, <2>2, SubmissionsAssumption
    <2> QED BY <2>2, <2>3, ScriptsAreSeqs
  <1> QED BY <1>2, <1>3

(***************************************************************************)
(* What compiles to a program is in the set of instructions that are used. *)
(***************************************************************************)
LEMMA ProgramUsed ==
  ASSUME NEW s \in Scripts, TypeChecks(s)
  PROVE  Program(s) \in Seq(Used)
  BY CompiledAssumption, Zenon

(***************************************************************************)
(* An instruction of a trace is repeatable after a step that leaves what   *)
(* it was answered alone; and so is the whole trace.                       *)
(***************************************************************************)
LEMMA RepeatableSame ==
  ASSUME NEW code, NEW tr, NEW to, NEW p, Repeatable(code, tr, p),
         to[p] = tr[p],
         code[p].op = "call" => p \in DOMAIN results' /\ results'[p] = results[p],
         code[p].op = "instance" =>
           /\ tr[p].n + 1 \in DOMAIN names'
           /\ names'[tr[p].n + 1] = names[tr[p].n + 1],
         \A q \in DOMAIN tr : q \in DOMAIN to /\ to[q] = tr[q]
  PROVE  Repeatable(code, to, p)'
  <1>1. tr[p].m.pc = p
    BY DEF Repeatable
  <1>2. Replayed(code, tr[p])' = Replayed(code, tr[p])
    BY <1>1 DEF Replayed, After
  <1>3. /\ Replayed(code, tr[p]).m.pc \in DOMAIN to
        /\ to[Replayed(code, tr[p]).m.pc] = Replayed(code, tr[p])
    BY DEF Repeatable
  <1> QED BY <1>1, <1>2, <1>3 DEF Repeatable

LEMMA LeadsToSame ==
  ASSUME NEW code, NEW tr, NEW end, LeadsTo(code, tr, end),
         \A p \in DOMAIN results : p < end => p \in DOMAIN results' /\ results'[p] = results[p],
         \A c \in DOMAIN names : c \in DOMAIN names' /\ names'[c] = names[c]
  PROVE  LeadsTo(code, tr, end)'
  <1>1. ASSUME NEW p \in DOMAIN tr, p < end  PROVE Repeatable(code, tr, p)'
    <2>1. Repeatable(code, tr, p)
      BY <1>1 DEF LeadsTo
    <2>2. code[p].op = "call" => p \in DOMAIN results' /\ results'[p] = results[p]
      BY <1>1, <2>1 DEF Repeatable
    <2>3. code[p].op = "instance" =>
            tr[p].n + 1 \in DOMAIN names' /\ names'[tr[p].n + 1] = names[tr[p].n + 1]
      BY <2>1 DEF Repeatable
    <2> QED BY <2>1, <2>2, <2>3, RepeatableSame
  <1> QED BY <1>1 DEF LeadsTo, FirstSnapshot, StartVM

(***************************************************************************)
(* A step of the interpreter that does what Replayed says extends the      *)
(* trace of the execution by the snapshot it reaches.                      *)
(***************************************************************************)
LEMMA TraceExtends ==
  ASSUME TypeOK, LeadsTo(bytecode, trace, vm.pc), Snapshot = trace[vm.pc],
         vm.pc \in DOMAIN bytecode, bytecode' = bytecode,
         IsVM(vm'), vm'.pc > vm.pc, count' \in Nat,
         Readable(vm, Current), Current.op # "throw",
         \A q \in DOMAIN results : q # vm.pc => q \in DOMAIN results' /\ results'[q] = results[q],
         \A c \in DOMAIN names : c \in DOMAIN names' /\ names'[c] = names[c],
         Current.op = "call" => vm.pc \in DOMAIN results',
         Current.op = "instance" => count + 1 \in DOMAIN names',
         Snapshot' = After(vm, count, Current, results'[vm.pc], names'[count + 1]),
         trace' = Put(trace, vm'.pc, Snapshot')
  PROVE  LeadsTo(bytecode, trace, vm.pc)' /\ Snapshot' = trace'[vm'.pc]
  <1> PICK at : at = vm.pc
    OBVIOUS
  <1> PICK code : code = bytecode
    OBVIOUS
  <1> PICK to : to = trace'
    OBVIOUS
  <1>0. /\ at \in DOMAIN trace /\ trace[at].m = vm /\ trace[at].n = count
        /\ IsVM(vm) /\ at \in Nat /\ vm'.pc \in Nat
        /\ code[at] = Current
    BY DEF TypeOK, IsVM, LeadsTo, Snapshot, Current
  <1>1. /\ DOMAIN trace' = DOMAIN trace \cup {vm'.pc}
        /\ trace'[vm'.pc] = Snapshot'
        /\ \A p \in DOMAIN trace : p # vm'.pc => trace'[p] = trace[p]
    BY DEF Put
  <1>2. \A p \in DOMAIN trace : p \in 1..at /\ p # vm'.pc
    BY <1>0 DEF LeadsTo
  <1>3. \A p \in DOMAIN trace : p \in DOMAIN trace' /\ trace'[p] = trace[p]
    BY <1>1, <1>2
  <1>4. ASSUME NEW p \in DOMAIN trace, p < at  PROVE Repeatable(code, to, p)'
    <2>1. Repeatable(code, trace, p)
      BY <1>4 DEF LeadsTo
    <2>2. p # at
      BY <1>0, <1>2, <1>4
    <2>3. code[p].op = "call" => p \in DOMAIN results' /\ results'[p] = results[p]
      BY <2>1, <2>2 DEF Repeatable
    <2>4. code[p].op = "instance" =>
            trace[p].n + 1 \in DOMAIN names' /\ names'[trace[p].n + 1] = names[trace[p].n + 1]
      BY <2>1 DEF Repeatable
    <2> QED BY <1>3, <2>1, <2>3, <2>4, RepeatableSame
  <1>5. Repeatable(code, to, at)'
    <2>1. to[at] = trace[at]
      BY <1>0, <1>3
    <2>2. Replayed(code, to[at])' = Snapshot'
      BY <1>0, <2>1 DEF Replayed
    <2> QED BY <1>0, <1>1, <2>1, <2>2 DEF Repeatable, Snapshot
  <1>6. \A p \in DOMAIN to : p < vm'.pc => Repeatable(code, to, p)'
    BY <1>0, <1>1, <1>2, <1>4, <1>5
  <1>7. DOMAIN to \subseteq 1..vm'.pc /\ {1, vm'.pc} \subseteq DOMAIN to
    BY <1>0, <1>1, <1>2 DEF LeadsTo
  <1>8. to[1] = FirstSnapshot
    BY <1>3 DEF LeadsTo
  <1>9. \A p \in DOMAIN to : IsVM(to[p].m) /\ to[p].n \in Nat
    BY <1>1, <1>3 DEF LeadsTo, Snapshot
  <1>10. LeadsTo(code, to, vm.pc)'
    BY <1>6, <1>7, <1>8, <1>9 DEF LeadsTo, FirstSnapshot, StartVM
  <1> QED BY <1>1, <1>10

(***************************************************************************)
(* One more instance has the next name.                                    *)
(***************************************************************************)
LEMMA NamesGrow ==
  ASSUME GenerateName, count \in 0..Len(names), names \in Seq({"anonymous"} \X Nat),
         \A i \in DOMAIN names : names[i] = Anonymous(i)
  PROVE  /\ names' \in Seq({"anonymous"} \X Nat) /\ count' \in 0..Len(names')
         /\ \A i \in DOMAIN names' : names'[i] = Anonymous(i)
  <1>1. count \in Nat /\ count' = count + 1 /\ Len(names) \in Nat /\ DOMAIN names = 1..Len(names)
    BY DEF GenerateName
  <1>2. CASE count' \in DOMAIN names
    BY <1>1, <1>2 DEF GenerateName
  <1>3. CASE count' \notin DOMAIN names
    <2>1. names' = Append(names, Anonymous(Len(names) + 1))
      BY <1>3 DEF GenerateName, NameOf
    <2>2. Anonymous(Len(names) + 1) \in {"anonymous"} \X Nat
      BY <1>1 DEF Anonymous
    <2>3. names' \in Seq({"anonymous"} \X Nat) /\ Len(names') = Len(names) + 1
      BY <2>1, <2>2, AppendProperties
    <2>4. \A i \in DOMAIN names' : names'[i] = Anonymous(i)
      BY <1>1, <2>1, <2>2, AppendProperties
    <2> QED BY <1>1, <2>3, <2>4
  <1> QED BY <1>2, <1>3

(***************************************************************************)
(* Every step keeps the types.                                             *)
(***************************************************************************)
LEMMA StartTypes ==
  ASSUME script \in Scripts, Len(script) <= submitted, submitted \in 0..MaxSubmissions,
         NEW l \in Lines, Start(l)
  PROVE  /\ script' \in Scripts /\ Len(script') <= submitted'
         /\ submitted' \in 0..MaxSubmissions
         /\ bytecode' \in Seq(Used)
         /\ script' # <<>> /\ bytecode' = Program(script')
  <1>1. /\ script' = Append(script, l) /\ TypeChecks(script') /\ bytecode' = Program(script')
        /\ submitted < MaxSubmissions /\ submitted' = submitted + 1
    BY DEF Start
  <1>2. submitted \in Nat /\ submitted' \in 0..MaxSubmissions
    BY <1>1, SubmissionsAssumption
  <1>3. script' \in Scripts /\ Len(script') <= submitted' /\ script' # <<>>
    BY <1>1, <1>2, OneLineMore
  <1> QED BY <1>1, <1>2, <1>3, ProgramUsed

LEMMA EmptyIsSeq == <<>> \in Seq(Used) /\ Len(<<>>) = 0 /\ <<>> \in Scripts
  <1>1. <<>> \in Seq(Lines) /\ Len(<<>>) = 0 /\ <<>> \in Seq(Used)
    OBVIOUS
  <1>2. ASSUME NEW s \in Seq(Lines), Len(s) = 0  PROVE s \in Scripts
    <2>1. Len(s) <= MaxSubmissions
      BY <1>2, SubmissionsAssumption
    <2> QED BY <1>2, <2>1, ScriptsAreSeqs, Zenon
  <1>3. <<>> \in Scripts
    BY <1>1, <1>2, Zenon
  <1> QED BY <1>1, <1>3

LEMMA TypeStep ==
  ASSUME LoopFree, OnTrace, HNext
  PROVE  TypeOK'
  <1>0. TypeOK /\ IsVM(vm) /\ last \in Nat /\ bytecode \in Seq(Used) /\ submitted \in 0..MaxSubmissions
    BY DEF OnTrace, TypeOK
  <1>1. ASSUME NEW l \in Lines, HReject(l)  PROVE TypeOK'
    <2>1. submitted' \in 0..MaxSubmissions /\ Len(script') <= submitted'
      <3>1. submitted < MaxSubmissions /\ submitted' = submitted + 1 /\ script' = script
        BY <1>1 DEF HReject, Reject
      <3>2. Len(script) \in Nat
        BY <1>0, ScriptsAreSeqs DEF TypeOK
      <3> QED BY <1>0, <3>1, <3>2, SubmissionsAssumption DEF TypeOK
    <2>2. count' \in 0..Len(names')
      BY <1>0, <1>1 DEF HReject, Reject, TypeOK
    <2> QED BY <1>0, <1>1, <2>1, <2>2 DEF TypeOK, HReject, Reject
  <1>2. ASSUME NEW l \in Lines, HStart(l)  PROVE TypeOK'
    <2>1. /\ script' \in Scripts /\ Len(script') <= submitted'
          /\ submitted' \in 0..MaxSubmissions /\ bytecode' \in Seq(Used)
      BY <1>0, <1>2, StartTypes DEF HStart, TypeOK
    <2>2. count' = 0 /\ vm' = StartVM /\ phase' = "running"
          /\ UNCHANGED <<results, last, names, reply, ran>>
      BY <1>2 DEF HStart, Start, Forget
    <2>3. count' \in 0..Len(names')
      BY <1>0, <2>2 DEF TypeOK
    <2> QED BY <1>0, <2>1, <2>2, <2>3, StartIsVM DEF TypeOK
  <1>3. CASE HCompute
    <2>1. Current \in Used
      BY <1>0, <1>3 DEF HCompute, Compute, Executing, Current
    <2>2. IsVM(vm')
      BY <1>0, <1>3, <2>1, UsedForward, LocalVM DEF HCompute, Compute
    <2> QED BY <1>0, <1>3, <2>2 DEF HCompute, Compute, Record, TypeOK
  <1>4. CASE HGenerateName
    <2>1. /\ names' \in Seq({"anonymous"} \X Nat) /\ count' \in 0..Len(names')
          /\ \A i \in DOMAIN names' : names'[i] = Anonymous(i)
      BY <1>0, <1>4, NamesGrow DEF HGenerateName, TypeOK
    <2>2. IsVM(vm')
      BY <1>0, <1>4, AssignVM DEF HGenerateName, GenerateName
    <2> QED BY <1>0, <1>4, <2>1, <2>2 DEF HGenerateName, GenerateName, Record, TypeOK
  <1>5. CASE HCachedCall
    BY <1>0, <1>5, AssignVM DEF HCachedCall, CachedCall, Record, TypeOK
  <1>6. CASE HHostCall
    <2>1. IsVM(vm')
      BY <1>0, <1>6, AssignVM DEF HHostCall, HostCall
    <2>2. DOMAIN results' = DOMAIN results \cup {vm.pc}
      BY <1>6 DEF HHostCall, HostCall, Put
    <2>3. DOMAIN results' \subseteq Nat
      BY <1>0, <2>2 DEF TypeOK, IsVM
    <2> QED BY <1>0, <1>6, <2>1, <2>3 DEF HHostCall, HostCall, Record, TypeOK
  <1>7. CASE HRuntimeError \/ HHostError
    <2>1. Pop /\ bytecode' = <<>> /\ phase' = "idle" /\ reply' = "runtime_error" /\ vm' = StartVM
          /\ UNCHANGED <<results, last, count, names, submitted, ran>>
      BY <1>7 DEF HRuntimeError, HHostError, RuntimeError, HostError, Fail, Forget
    <2>2. script' \in Scripts /\ Len(script') <= submitted'
      <3>1. script' \in Scripts /\ Len(script') <= Len(script) /\ Len(script) <= submitted
        BY <1>0, <2>1, OneLineLess DEF TypeOK
      <3>2. Len(script') \in Nat /\ Len(script) \in Nat /\ submitted \in Nat
        BY <1>0, <3>1, ScriptsAreSeqs DEF TypeOK
      <3> QED BY <2>1, <3>1, <3>2
    <2> QED BY <1>0, <2>1, <2>2, StartIsVM, EmptyIsSeq DEF TypeOK
  <1>8. CASE HFinish
    <2>1. ran' = bytecode /\ last' = Len(bytecode) /\ bytecode' = <<>> /\ vm' = StartVM
      BY <1>8 DEF HFinish, Finish
    <2> QED BY <1>0, <1>8, <2>1, StartIsVM, EmptyIsSeq DEF HFinish, Finish, TypeOK
  <1>9. CASE HCancel
    BY <1>0, <1>9, StartIsVM, EmptyIsSeq DEF HCancel, Cancel, Forget, TypeOK
  <1>10. CASE HClear
    <2>1. script' = <<>> /\ ran' = <<>> /\ last' = 0 /\ results' = EmptyMap
      BY <1>10 DEF HClear, Clear
    <2>2. Len(script') <= submitted
      BY <1>0, <2>1, EmptyIsSeq
    <2>3. DOMAIN results' \subseteq Nat
      BY <2>1 DEF EmptyMap
    <2>4. UNCHANGED <<bytecode, count, names, phase, reply, vm, submitted>>
      BY <1>10 DEF HClear, Clear
    <2> QED BY <1>0, <2>1, <2>2, <2>3, <2>4, EmptyIsSeq DEF TypeOK, IsVM
  <1> QED BY <1>1, <1>2, <1>3, <1>4, <1>5, <1>6, <1>7, <1>8, <1>9, <1>10 DEF HNext, HStep

(***************************************************************************)
(* The initial state.                                                      *)
(***************************************************************************)
LEMMA FreshLeads == LeadsTo(<<>>, Fresh, 1) /\ Fresh[1] = FirstSnapshot
  <1>1. DOMAIN Fresh = {1} /\ Fresh[1] = FirstSnapshot
    BY DEF Fresh
  <1>2. IsVM(Fresh[1].m) /\ Fresh[1].n \in Nat
    BY <1>1, StartIsVM DEF FirstSnapshot
  <1> QED BY <1>1, <1>2 DEF LeadsTo

LEMMA InitOnTrace == HInit => OnTrace
  <1> SUFFICES ASSUME HInit PROVE OnTrace
    OBVIOUS
  <1>1. TypeOK
    <2>1. DOMAIN results = {} /\ Len(<<>>) <= submitted /\ submitted \in 0..MaxSubmissions
      BY EmptyIsSeq, SubmissionsAssumption DEF HInit, Init, EmptyMap
    <2> QED BY <2>1, StartIsVM, EmptyIsSeq DEF HInit, Init, TypeOK
  <1>2. ran = <<>> /\ path = Fresh /\ last + 1 = 1 /\ ~ Running
    BY DEF HInit, Init, Running
  <1> QED BY <1>1, <1>2, FreshLeads DEF OnTrace

(***************************************************************************)
(* Steps of the interpreter that go on: what they keep and what they do.   *)
(* A call that goes to its host is not one of those answered before.       *)
(***************************************************************************)
Kept ==
  /\ \A q \in DOMAIN results : q # vm.pc \/ q <= last => q \in DOMAIN results' /\ results'[q] = results[q]
  /\ \A c \in DOMAIN names : c \in DOMAIN names' /\ names'[c] = names[c]

Does ==
  /\ IsVM(vm') /\ vm'.pc > vm.pc
  /\ Current.op # "throw"
  /\ Current.op = "call" => vm.pc \in DOMAIN results'
  /\ Current.op = "instance" => count + 1 \in DOMAIN names'
  /\ Snapshot' = After(vm, count, Current, results'[vm.pc], names'[count + 1])

LEMMA GoesOn ==
  ASSUME LoopFree, TypeOK, Compute \/ GenerateName \/ CachedCall \/ HostCall
  PROVE  /\ Kept /\ Does /\ Running /\ Running' /\ UNCHANGED <<script, bytecode, last>>
         /\ vm.pc \in DOMAIN bytecode /\ Readable(vm, Current)
  <1>0. /\ IsVM(vm) /\ last \in Nat /\ vm.pc \in Nat /\ vm.pc + 1 > vm.pc
        /\ Running /\ Running'
        /\ vm.pc \in DOMAIN bytecode
        /\ Readable(vm, Current)
        /\ count \in Nat /\ count <= Len(names)
        /\ names \in Seq({"anonymous"} \X Nat)
        /\ UNCHANGED <<script, bytecode, last>>
    <2>1. /\ Running /\ Running' /\ UNCHANGED <<script, bytecode, last>>
          /\ vm.pc \in DOMAIN bytecode /\ Readable(vm, Current)
      BY DEF Compute, GenerateName, CachedCall, HostCall, Calling, Executing, Running
    <2> QED BY <2>1 DEF TypeOK, IsVM
  <1>2. Current.to \in Nat \ {0}
    BY <1>0, UsedForward DEF TypeOK, Current
  <1>3. ASSUME Compute PROVE Kept /\ Does
    <2>1. Current.op \in LocalOps /\ vm' = Local(vm, Current) /\ UNCHANGED <<results, names, count>>
      BY <1>3 DEF Compute, Executing, Current
    <2>2. IsVM(vm') /\ vm'.pc > vm.pc
      BY <1>0, <1>2, <2>1, LocalVM
    <2>3. Snapshot' = After(vm, count, Current, results'[vm.pc], names'[count + 1])
      BY <2>1 DEF Snapshot, After, LocalOps
    <2> QED BY <2>1, <2>2, <2>3 DEF LocalOps, Kept, Does
  <1>4. ASSUME GenerateName PROVE Kept /\ Does
    <2>1. /\ Current.op = "instance"
          /\ count' = count + 1
          /\ names' = IF count' \in DOMAIN names THEN names ELSE Append(names, NameOf(count', names))
          /\ vm' = Assign(vm, Current.dst, NameOf(count', names))
          /\ results' = results
      BY <1>4 DEF GenerateName, Executing, Current
    <2>2. IsVM(vm') /\ vm'.pc > vm.pc
      BY <1>0, <2>1, AssignVM
    <2>3. /\ count + 1 \in DOMAIN names' /\ names'[count + 1] = NameOf(count', names)
          /\ \A c \in DOMAIN names : c \in DOMAIN names' /\ names'[c] = names[c]
      <3>1. CASE count + 1 \in DOMAIN names
        BY <2>1, <3>1 DEF NameOf
      <3>2. CASE count + 1 \notin DOMAIN names
        <4>1. count = Len(names)
          BY <1>0, <3>2
        <4>2. NameOf(count', names) \in {"anonymous"} \X Nat
          BY <1>0, <2>1, <3>2 DEF NameOf, Anonymous
        <4>3. names' = Append(names, NameOf(count', names))
          BY <2>1, <3>2
        <4> QED BY <1>0, <4>1, <4>2, <4>3
      <3> QED BY <3>1, <3>2
    <2>4. Snapshot' = After(vm, count, Current, results'[vm.pc], names'[count + 1])
      BY <2>1, <2>3 DEF Snapshot, After
    <2> QED BY <2>1, <2>2, <2>3, <2>4 DEF Kept, Does
  <1>5. ASSUME CachedCall PROVE Kept /\ Does
    <2>1. /\ Current.op = "call" /\ vm.pc \in DOMAIN results
          /\ vm' = Assign(vm, Current.dst, results[vm.pc])
          /\ UNCHANGED <<results, names, count>>
      BY <1>5 DEF CachedCall, Executing, Current, Cached
    <2>2. IsVM(vm') /\ vm'.pc > vm.pc
      BY <1>0, <2>1, AssignVM
    <2>3. Snapshot' = After(vm, count, Current, results'[vm.pc], names'[count + 1])
      BY <2>1 DEF Snapshot, After
    <2> QED BY <2>1, <2>2, <2>3 DEF Kept, Does
  <1>6. ASSUME HostCall PROVE Kept /\ Does
    <2>1. /\ Current.op = "call" /\ ~ Cached(vm.pc)
          /\ UNCHANGED <<names, count>>
      BY <1>6 DEF HostCall, Calling, Executing, Current
    <2>2. PICK r : results' = Put(results, vm.pc, r) /\ vm' = Assign(vm, Current.dst, r)
      BY <1>6 DEF HostCall
    <2>3. /\ vm.pc \in DOMAIN results' /\ results'[vm.pc] = r
          /\ \A q \in DOMAIN results : q # vm.pc => q \in DOMAIN results' /\ results'[q] = results[q]
      BY <2>2 DEF Put
    <2>4. vm.pc \in DOMAIN results => ~ (vm.pc <= last)
      BY <2>1 DEF Cached
    <2>5. Kept
      BY <2>1, <2>3, <2>4 DEF Kept
    <2>6. IsVM(vm') /\ vm'.pc > vm.pc
      BY <1>0, <2>2, AssignVM
    <2>7. Snapshot' = After(vm, count, Current, results'[vm.pc], names'[count + 1])
      BY <2>1, <2>2, <2>3 DEF Snapshot, After
    <2> QED BY <2>1, <2>3, <2>5, <2>6, <2>7 DEF Does
  <1> QED BY <1>0, <1>3, <1>4, <1>5, <1>6

(***************************************************************************)
(* What was run stays repeatable, and an execution that replays it goes    *)
(* where it went.                                                          *)
(***************************************************************************)
LEMMA PathStays ==
  ASSUME TypeOK, LeadsTo(ran, path, last + 1), Kept, vm.pc \in Nat, UNCHANGED <<last, ran, path>>
  PROVE  LeadsTo(ran, path, last + 1)'
  <1>1. last \in Nat /\ DOMAIN results \subseteq Nat
    BY DEF TypeOK
  <1>2. \A p \in DOMAIN results : p < last + 1 => p \in DOMAIN results' /\ results'[p] = results[p]
    BY <1>1 DEF Kept
  <1>3. \A c \in DOMAIN names : c \in DOMAIN names' /\ names'[c] = names[c]
    BY DEF Kept
  <1> PICK code, tr, end : code = ran /\ tr = path /\ end = last + 1
    OBVIOUS
  <1>4. LeadsTo(code, tr, end)'
    BY <1>2, <1>3, LeadsToSame
  <1> QED BY <1>4

LEMMA OnThePath ==
  ASSUME TypeOK, LeadsTo(ran, path, last + 1), Running, OnPath, PathKept, vm.pc <= last
  PROVE  /\ vm.pc \in DOMAIN path /\ Snapshot = path[vm.pc] /\ Current = ran[vm.pc]
         /\ Repeatable(ran, path, vm.pc)
  <1>1. last \in Nat /\ vm.pc \in Nat
    BY DEF TypeOK, IsVM
  <1>2. vm.pc \in DOMAIN path /\ Snapshot = path[vm.pc]
    BY <1>1 DEF OnPath
  <1>3. Current = ran[vm.pc]
    BY <1>2 DEF PathKept, Current
  <1>4. Repeatable(ran, path, vm.pc)
    BY <1>1, <1>2 DEF LeadsTo
  <1> QED BY <1>2, <1>3, <1>4

LEMMA StaysOnPath ==
  ASSUME TypeOK, LeadsTo(ran, path, last + 1), Running, OnPath, Kept, Does, PathKept,
         UNCHANGED <<last, path>>, vm.pc <= last
  PROVE  vm'.pc \in DOMAIN path' /\ Snapshot' = path'[vm'.pc]
  <1> PICK at : at = vm.pc
    OBVIOUS
  <1>1. last \in Nat /\ at \in Nat /\ vm'.pc \in Nat /\ at <= last
    BY DEF TypeOK, IsVM, Does
  <1>2. /\ at \in DOMAIN path /\ Snapshot = path[at] /\ Current = ran[at]
        /\ Repeatable(ran, path, at)
    BY <1>1, OnThePath
  <1>3. path[at].m = vm /\ path[at].n = count
    BY <1>2 DEF Snapshot
  <1>4. Current.op = "call" => results'[at] = results[at]
    BY <1>1, <1>2 DEF Repeatable, Kept
  <1>5. Current.op = "instance" => names'[count + 1] = names[count + 1]
    BY <1>2, <1>3 DEF Repeatable, Kept
  <1>6. Snapshot' = Replayed(ran, path[at])
    BY <1>2, <1>3, <1>4, <1>5 DEF Does, Replayed, After
  <1>7. vm'.pc = Replayed(ran, path[at]).m.pc
    BY <1>6 DEF Snapshot
  <1> QED BY <1>2, <1>6, <1>7 DEF Repeatable

LEMMA GoOnTrace ==
  ASSUME LoopFree, OnTrace, Record, TypeOK',
         Compute \/ GenerateName \/ CachedCall \/ HostCall
  PROVE  OnTrace'
  <1>0. /\ TypeOK /\ LeadsTo(ran, path, last + 1)
        /\ Kept /\ Does /\ Running /\ Running' /\ UNCHANGED <<script, bytecode, last, ran, path>>
        /\ vm.pc \in DOMAIN bytecode /\ Readable(vm, Current)
        /\ OnPath /\ vm.pc \in Nat
    BY GoesOn DEF OnTrace, Record, TypeOK, IsVM
  <1>1. LeadsTo(ran, path, last + 1)'
    BY <1>0, PathStays
  <1>2. LeadsTo(bytecode, trace, vm.pc)' /\ Snapshot' = trace'[vm'.pc]
    <2>1. /\ LeadsTo(bytecode, trace, vm.pc) /\ Snapshot = trace[vm.pc]
          /\ count' \in Nat
          /\ trace' = Put(trace, vm'.pc, Snapshot')
      BY <1>0 DEF OnPath, Record, TypeOK
    <2>2. /\ IsVM(vm') /\ vm'.pc > vm.pc
          /\ Current.op # "throw"
          /\ \A q \in DOMAIN results : q # vm.pc => q \in DOMAIN results' /\ results'[q] = results[q]
          /\ \A c \in DOMAIN names : c \in DOMAIN names' /\ names'[c] = names[c]
          /\ Current.op = "call" => vm.pc \in DOMAIN results'
          /\ Current.op = "instance" => count + 1 \in DOMAIN names'
          /\ Snapshot' = After(vm, count, Current, results'[vm.pc], names'[count + 1])
      BY <1>0 DEF Kept, Does
    <2> QED BY <1>0, <2>1, <2>2, TraceExtends
  <1>3. PathKept' /\ vm'.pc <= last' + 1 => vm'.pc \in DOMAIN path' /\ Snapshot' = path'[vm'.pc]
    <2>1. PathKept' => PathKept
      BY <1>0 DEF PathKept
    <2>2. vm'.pc <= last' + 1 => vm.pc <= last
      BY <1>0 DEF TypeOK, IsVM, Does
    <2> QED BY <1>0, <2>1, <2>2, StaysOnPath
  <1> QED BY <1>1, <1>2, <1>3 DEF OnTrace, OnPath

(***************************************************************************)
(* Every step keeps the invariant, one action at a time.                   *)
(***************************************************************************)
LEMMA PathUntouched ==
  ASSUME LeadsTo(ran, path, last + 1), UNCHANGED <<results, names, last, ran, path>>
  PROVE  LeadsTo(ran, path, last + 1)'
  <1> PICK code, tr, end : code = ran /\ tr = path /\ end = last + 1
    OBVIOUS
  <1>1. LeadsTo(code, tr, end)'
    BY LeadsToSame
  <1> QED BY <1>1

LEMMA FreshLeadsNow ==
  ASSUME NEW code
  PROVE  LeadsTo(code, Fresh, 1)'
  <1>1. DOMAIN Fresh = {1} /\ Fresh[1] = FirstSnapshot
    BY DEF Fresh
  <1>2. IsVM(Fresh[1].m) /\ Fresh[1].n \in Nat
    BY <1>1, StartIsVM DEF FirstSnapshot
  <1> QED BY <1>1, <1>2 DEF LeadsTo, Fresh, FirstSnapshot, StartVM

LEMMA StartOnTrace ==
  ASSUME OnTrace, TypeOK', NEW l \in Lines, HStart(l)
  PROVE  OnTrace'
  <1>0. /\ trace' = Fresh /\ vm' = StartVM /\ count' = 0
        /\ UNCHANGED <<results, names, last, ran, path>>
        /\ LeadsTo(ran, path, last + 1)
    BY DEF HStart, Start, Forget, OnTrace
  <1>1. LeadsTo(ran, path, last + 1)'
    BY <1>0, PathUntouched
  <1>2. vm'.pc = 1 /\ Snapshot' = FirstSnapshot
    BY <1>0, StartIsVM DEF Snapshot, FirstSnapshot
  <1>3. LeadsTo(bytecode, trace, vm.pc)'
    <2> PICK code : code = bytecode'
      OBVIOUS
    <2>1. LeadsTo(code, Fresh, 1)'
      BY FreshLeadsNow
    <2>2. Fresh' = Fresh
      BY DEF Fresh, FirstSnapshot, StartVM
    <2> QED BY <1>0, <1>2, <2>1, <2>2
  <1>4. Snapshot' = trace'[vm'.pc]
    BY <1>0, <1>2, FreshLeads
  <1>5. 1 \in DOMAIN path' /\ path'[1] = FirstSnapshot
    BY <1>0 DEF LeadsTo
  <1>6. OnPath'
    BY <1>2, <1>3, <1>4, <1>5 DEF OnPath
  <1> QED BY <1>1, <1>6 DEF OnTrace

LEMMA StopOnTrace ==
  ASSUME OnTrace, TypeOK', HRuntimeError \/ HHostError \/ HCancel
  PROVE  OnTrace'
  <1>1. /\ ~ Running' /\ UNCHANGED <<results, names, last, ran, path>>
        /\ LeadsTo(ran, path, last + 1)
    BY DEF OnTrace, HRuntimeError, HHostError, HCancel, RuntimeError, HostError, Cancel, Fail,
           Forget, Running
  <1> QED BY <1>1, PathUntouched DEF OnTrace

(***************************************************************************)
(* The end of a program makes its trace that of the committed lines.       *)
(***************************************************************************)
LEMMA FinishOnTrace ==
  ASSUME OnTrace, TypeOK', HFinish
  PROVE  OnTrace'
  <1>1. /\ ~ Running' /\ ran' = bytecode /\ path' = trace /\ last' + 1 = vm.pc
        /\ UNCHANGED <<results, names>>
        /\ LeadsTo(bytecode, trace, vm.pc)
    BY DEF OnTrace, OnPath, HFinish, Finish, Running
  <1> PICK code, tr, end : code = bytecode /\ tr = trace /\ end = vm.pc
    OBVIOUS
  <1>2. LeadsTo(code, tr, end)'
    BY <1>1, LeadsToSame
  <1>3. LeadsTo(ran, path, last + 1)'
    BY <1>1, <1>2
  <1> QED BY <1>1, <1>3 DEF OnTrace

LEMMA ClearOnTrace ==
  ASSUME TypeOK', HClear
  PROVE  OnTrace'
  <1>1. ~ Running' /\ last' + 1 = 1 /\ ran' = <<>> /\ path' = Fresh
    BY DEF HClear, Clear, Running
  <1>2. LeadsTo(<<>>, Fresh, 1)' /\ Fresh' = Fresh
    BY FreshLeadsNow DEF Fresh, FirstSnapshot, StartVM
  <1> QED BY <1>1, <1>2 DEF OnTrace

(***************************************************************************)
(* A line that does not compile, and a stuttering step.                    *)
(***************************************************************************)
LEMMA StillOnTrace ==
  ASSUME OnTrace, TypeOK',
         UNCHANGED <<bytecode, results, last, names, phase, vm, trace, ran, path>>,
         count' = count \/ ~ Running
  PROVE  OnTrace'
  <1>1. Running' <=> Running
    BY DEF Running
  <1>2. LeadsTo(ran, path, last + 1)'
    BY PathUntouched DEF OnTrace
  <1>3. ASSUME Running PROVE OnPath'
    <2>1. OnPath /\ count' = count
      BY <1>3 DEF OnTrace
    <2> PICK code, tr, end : code = bytecode /\ tr = trace /\ end = vm.pc
      OBVIOUS
    <2>2. LeadsTo(code, tr, end)'
      BY <2>1, LeadsToSame DEF OnPath
    <2>3. LeadsTo(bytecode, trace, vm.pc)'
      BY <2>2
    <2> QED BY <2>1, <2>3 DEF OnPath, Snapshot, PathKept
  <1> QED BY <1>1, <1>2, <1>3 DEF OnTrace

LEMMA NextOnTrace ==
  ASSUME LoopFree, OnTrace, [HNext]_hvars
  PROVE  OnTrace'
  <1>1. CASE UNCHANGED hvars
    <2>1. TypeOK'
      BY <1>1 DEF OnTrace, TypeOK, IsVM, hvars
    <2> QED BY <1>1, <2>1, StillOnTrace DEF hvars
  <1>2. CASE HNext
    <2>0. TypeOK'
      BY <1>2, TypeStep
    <2>1. ASSUME NEW l \in Lines, HReject(l)  PROVE OnTrace'
      BY <2>0, <2>1, StillOnTrace DEF HReject, Reject, Running
    <2>2. ASSUME NEW l \in Lines, HStart(l)  PROVE OnTrace'
      BY <2>0, <2>2, StartOnTrace
    <2>3. CASE HCompute \/ HGenerateName \/ HCachedCall \/ HHostCall
      BY <2>0, <2>3, GoOnTrace DEF HCompute, HGenerateName, HCachedCall, HHostCall
    <2>4. CASE HRuntimeError \/ HHostError \/ HCancel
      BY <2>0, <2>4, StopOnTrace
    <2>5. CASE HFinish
      BY <2>0, <2>5, FinishOnTrace
    <2>7. CASE HClear
      BY <2>0, <2>7, ClearOnTrace
    <2> QED BY <1>2, <2>1, <2>2, <2>3, <2>4, <2>5, <2>7 DEF HNext, HStep
  <1> QED BY <1>1, <1>2

(***************************************************************************)
(* The session never leaves the recorded execution: what was run stays     *)
(* repeatable whatever lines are typed, fail, are dropped or run again     *)
(* with other types, and a replay of unchanged instructions repeats it.    *)
(***************************************************************************)
THEOREM SessionOnTrace ==
  ASSUME LoopFree
  PROVE  HSpec => []OnTrace
  <1>1. OnTrace /\ [HNext]_hvars => OnTrace'
    BY NextOnTrace
  <1> QED BY InitOnTrace, <1>1, PTL DEF HSpec

(***************************************************************************)
(* The session keeps its types.                                            *)
(***************************************************************************)
THEOREM SessionTypes ==
  ASSUME LoopFree
  PROVE  HSpec => []TypeOK
  <1>1. OnTrace => TypeOK
    BY DEF OnTrace
  <1> QED BY SessionOnTrace, <1>1, PTL

(***************************************************************************)
(* A replay of unchanged instructions leaves the bindings and the counter  *)
(* of instances they had when the committed lines were executed.           *)
(***************************************************************************)
THEOREM ReplayRestoresBindings ==
  ASSUME LoopFree
  PROVE  HSpec => []ReplayRestores
  <1>1. OnTrace => ReplayRestores
    BY DEF OnTrace, OnPath, ReplayRestores, TypeOK
  <1> QED BY SessionOnTrace, <1>1, PTL

\* A call that goes to a worker is past the committed lines.
LEMMA CallsPastLast ==
  ASSUME OnTrace, Calling, PathKept
  PROVE  vm.pc > last
  <1>1. /\ last \in Nat /\ vm.pc \in Nat /\ Running
        /\ Current.op = "call" /\ ~ Cached(vm.pc)
    BY DEF OnTrace, TypeOK, IsVM, Calling, Executing, Running, Current
  <1>2. ASSUME vm.pc <= last PROVE FALSE
    <2>1. Current = ran[vm.pc] /\ Repeatable(ran, path, vm.pc)
      BY <1>1, <1>2, OnThePath DEF OnTrace
    <2> QED BY <1>1, <1>2, <2>1 DEF Repeatable, Cached
  <1> QED BY <1>1, <1>2

(***************************************************************************)
(* A replay of unchanged instructions calls no worker.                     *)
(***************************************************************************)
THEOREM ReplayCallsNoWorker ==
  ASSUME LoopFree
  PROVE  HSpec => ReplayIsPure
  <1>1. OnTrace /\ [HNext]_hvars => [guest' # guest /\ PathKept => vm.pc > last]_vars
    <2> SUFFICES ASSUME OnTrace, HNext, guest' # guest, PathKept
                 PROVE  vm.pc > last
      BY DEF hvars
    <2>1. Calling
      BY DEF HNext, HStep, HReject, HStart, HCompute, HGenerateName, HCachedCall, HHostCall,
             HRuntimeError, HHostError, HFinish, HCancel, HClear, Reject, Start, Compute,
             GenerateName, CachedCall, HostCall, RuntimeError, HostError, Finish, Cancel, Clear
    <2> QED BY <2>1, CallsPastLast
  <1> QED BY SessionOnTrace, <1>1, PTL DEF HSpec, ReplayIsPure

(***************************************************************************)
(* A replay of unchanged instructions does not fail.                       *)
(***************************************************************************)
THEOREM ReplayDoesNotFail ==
  ASSUME LoopFree
  PROVE  HSpec => ReplayNeverFails
  <1>1. OnTrace /\ [HNext]_hvars
          => [Running /\ ~ Running' /\ reply' = "runtime_error" /\ PathKept => vm.pc > last]_vars
    <2> SUFFICES ASSUME OnTrace, HNext, Running, ~ Running', reply' = "runtime_error", PathKept
                 PROVE  vm.pc > last
      BY DEF hvars, Running
    <2>1. RuntimeError \/ HostError
      BY DEF HNext, HStep, HReject, HStart, HCompute, HGenerateName, HCachedCall, HHostCall,
             HRuntimeError, HHostError, HFinish, HCancel, HClear, Reject, Start, Compute,
             GenerateName, CachedCall, HostCall, Finish, Cancel, Clear, Running
    <2>2. CASE HostError
      BY <2>2, CallsPastLast DEF HostError
    <2>3. CASE RuntimeError
      <3>1. /\ last \in Nat /\ vm.pc \in Nat
            /\ Current.op = "throw" \/ ~ Readable(vm, Current)
        BY <2>3 DEF OnTrace, TypeOK, IsVM, RuntimeError
      <3>2. ASSUME vm.pc <= last PROVE FALSE
        <4>1. /\ Snapshot = path[vm.pc] /\ Current = ran[vm.pc]
              /\ Repeatable(ran, path, vm.pc)
          BY <3>1, <3>2, OnThePath DEF OnTrace
        <4>2. path[vm.pc].m = vm
          BY <4>1 DEF Snapshot
        <4> QED BY <3>1, <4>1, <4>2 DEF Repeatable
      <3> QED BY <3>1, <3>2
    <2> QED BY <2>1, <2>2, <2>3
  <1> QED BY SessionOnTrace, <1>1, PTL DEF HSpec, ReplayNeverFails

(***************************************************************************)
(* Binding one more name: to something that is no drawn instance, and to   *)
(* the next one that is drawn.                                             *)
(***************************************************************************)
LEMMA AnonymousOnce ==
  ASSUME NEW i, NEW j, Anonymous(i) = Anonymous(j)
  PROVE  i = j
  BY DEF Anonymous

LEMMA BindOther ==
  ASSUME DrawnOnce, count' = count, NEW x, NEW v, v[1] # "anonymous",
         vm'.env = [vm.env EXCEPT ![x] = v], Running', results' = results
  PROVE  DrawnOnce'
  <1>1. DOMAIN vm'.env = Vars /\ \A y \in Vars : vm'.env[y] = vm.env[y] \/ vm'.env[y] = v
    BY DEF DrawnOnce
  <1>2. \A y \in Vars : vm'.env[y][1] = "anonymous" => vm'.env[y] = vm.env[y]
    BY <1>1
  <1>3. InstancesDistinct'
    BY <1>2 DEF DrawnOnce, InstancesDistinct
  <1> QED BY <1>1, <1>2, <1>3 DEF DrawnOnce

LEMMA BindDrawn ==
  ASSUME DrawnOnce, count \in Nat, count' = count + 1, NEW x,
         vm'.env = [vm.env EXCEPT ![x] = Anonymous(count + 1)], Running', results' = results
  PROVE  DrawnOnce'
  <1>1. /\ DOMAIN vm'.env = Vars
        /\ \A y \in Vars : vm'.env[y] = IF y = x THEN Anonymous(count + 1) ELSE vm.env[y]
    BY DEF DrawnOnce
  <1>2. ASSUME NEW y \in Vars, vm.env[y][1] = "anonymous"
        PROVE  vm.env[y] # Anonymous(count + 1) /\ \E i \in 1..(count + 1) : vm.env[y] = Anonymous(i)
    <2>1. PICK i \in 1..count : vm.env[y] = Anonymous(i)
      BY <1>2 DEF DrawnOnce
    <2> QED BY <2>1, AnonymousOnce
  <1>3. count + 1 \in 1..(count + 1)
    OBVIOUS
  <1>4. \A y \in Vars : vm'.env[y][1] = "anonymous" => \E i \in 1..count' : vm'.env[y] = Anonymous(i)
    BY <1>1, <1>2, <1>3
  <1>5. ASSUME NEW y \in Vars, NEW z \in Vars, y # z, vm'.env[y] = vm'.env[z]
        PROVE  vm'.env[y][1] # "anonymous"
    <2>1. CASE y # x /\ z # x
      BY <1>1, <1>5, <2>1 DEF DrawnOnce, InstancesDistinct
    <2>2. CASE y = x \/ z = x
      BY <1>1, <1>2, <1>5, <2>2
    <2> QED BY <2>1, <2>2
  <1>6. InstancesDistinct'
    BY <1>5 DEF InstancesDistinct
  <1> QED BY <1>1, <1>4, <1>6 DEF DrawnOnce

LEMMA FreshVMDrawn ==
  ASSUME vm' = StartVM, \A p \in DOMAIN results' : results'[p][1] # "anonymous"
  PROVE  DrawnOnce'
  <1>1. DOMAIN vm'.env = Vars /\ \A x \in Vars : vm'.env[x] = Unbound
    BY DEF StartVM
  <1>2. Unbound[1] # "anonymous"
    BY DEF Unbound
  <1>3. \A x \in Vars : vm'.env[x][1] # "anonymous"
    BY <1>1, <1>2
  <1>4. InstancesDistinct'
    BY <1>3 DEF InstancesDistinct
  <1> QED BY <1>1, <1>3, <1>4 DEF DrawnOnce

LEMMA InitNamed == HInit => NamesInOrder
  <1>1. Len(<<>>) <= 0 /\ 0 \in 0..MaxSubmissions
    BY EmptyIsSeq, SubmissionsAssumption
  <1> QED BY <1>1, EmptyIsSeq DEF HInit, Init, NamesInOrder

LEMMA NextNamed ==
  ASSUME NamesInOrder, [HNext]_hvars
  PROVE  NamesInOrder'
  <1>0. script \in Scripts /\ Len(script) <= submitted /\ submitted \in 0..MaxSubmissions
    BY DEF NamesInOrder
  <1>1. CASE UNCHANGED hvars
    BY <1>1 DEF hvars, NamesInOrder
  <1>2. ASSUME NEW l \in Lines, Reject(l)  PROVE NamesInOrder'
    <2>1. submitted' \in 0..MaxSubmissions /\ Len(script') <= submitted'
      <3>1. submitted < MaxSubmissions /\ submitted' = submitted + 1 /\ script' = script
        BY <1>2 DEF Reject
      <3>2. Len(script) \in Nat
        BY <1>0, ScriptsAreSeqs
      <3> QED BY <1>0, <3>1, <3>2, SubmissionsAssumption
    <2>2. count' \in 0..Len(names')
      BY <1>2 DEF Reject, NamesInOrder
    <2> QED BY <1>2, <2>1, <2>2 DEF Reject, NamesInOrder
  <1>3. ASSUME NEW l \in Lines, Start(l)  PROVE NamesInOrder'
    <2>1. /\ script' \in Scripts /\ Len(script') <= submitted'
          /\ submitted' \in 0..MaxSubmissions /\ bytecode' \in Seq(Used)
      BY <1>0, <1>3, StartTypes
    <2>2. count' = 0 /\ names' = names
      BY <1>3 DEF Start
    <2> QED BY <2>1, <2>2 DEF NamesInOrder
  <1>4. CASE Compute \/ CachedCall \/ HostCall
    BY <1>4 DEF Compute, CachedCall, HostCall, NamesInOrder
  <1>5. CASE GenerateName
    <2>1. /\ names' \in Seq({"anonymous"} \X Nat) /\ count' \in 0..Len(names')
          /\ \A i \in DOMAIN names' : names'[i] = Anonymous(i)
      BY <1>5, NamesGrow DEF NamesInOrder
    <2> QED BY <1>5, <2>1 DEF GenerateName, NamesInOrder
  <1>6. CASE RuntimeError \/ HostError
    <2>1. Pop /\ bytecode' = <<>> /\ UNCHANGED <<count, names, submitted>>
      BY <1>6 DEF RuntimeError, HostError, Fail
    <2>2. script' \in Scripts /\ Len(script') <= submitted'
      <3>1. script' \in Scripts /\ Len(script') <= Len(script)
        BY <1>0, <2>1, OneLineLess
      <3>2. Len(script') \in Nat /\ Len(script) \in Nat /\ submitted \in Nat
        BY <1>0, <3>1, ScriptsAreSeqs
      <3> QED BY <1>0, <2>1, <3>1, <3>2
    <2> QED BY <2>1, <2>2, EmptyIsSeq DEF NamesInOrder
  <1>7. CASE Finish \/ Cancel
    BY <1>7, EmptyIsSeq DEF Finish, Cancel, NamesInOrder
  <1>8. CASE Clear
    <2>1. script' = <<>> /\ UNCHANGED <<bytecode, count, names, submitted>>
      BY <1>8 DEF Clear
    <2>2. Len(script') <= submitted'
      BY <1>0, <2>1, EmptyIsSeq
    <2> QED BY <2>1, <2>2, EmptyIsSeq DEF NamesInOrder
  <1> QED BY <1>1, <1>2, <1>3, <1>4, <1>5, <1>6, <1>7, <1>8
         DEF HNext, HStep, HReject, HStart, HCompute, HGenerateName, HCachedCall, HHostCall,
             HRuntimeError, HHostError, HFinish, HCancel, HClear

LEMMA InitDrawn == HInit => DrawnOnce
  <1> SUFFICES ASSUME HInit PROVE DrawnOnce
    OBVIOUS
  <1>1. vm = StartVM /\ DOMAIN results = {}
    BY DEF HInit, Init, EmptyMap
  <1>2. DOMAIN vm.env = Vars /\ \A x \in Vars : vm.env[x][1] # "anonymous"
    BY <1>1 DEF StartVM, Unbound
  <1> QED BY <1>1, <1>2 DEF DrawnOnce, InstancesDistinct

LEMMA NextDrawn ==
  ASSUME NamesDrawn, NamesInOrder, DrawnOnce, [HNext]_hvars
  PROVE  DrawnOnce'
  <1>1. CASE UNCHANGED hvars
    BY <1>1 DEF DrawnOnce, InstancesDistinct, Running, hvars
  <1>2. ASSUME NEW l \in Lines, Reject(l)  PROVE DrawnOnce'
    <2>1. vm' = StartVM /\ results' = results
      BY <1>2 DEF Reject, DrawnOnce, Running
    <2> QED BY <2>1, FreshVMDrawn DEF DrawnOnce
  <1>3. CASE (\E l \in Lines : Start(l)) \/ RuntimeError \/ HostError \/ Finish \/ Cancel
    <2>1. vm' = StartVM /\ results' = results
      BY <1>3 DEF Start, RuntimeError, HostError, Fail, Finish, Cancel
    <2> QED BY <2>1, FreshVMDrawn DEF DrawnOnce
  <1>4. CASE Clear
    <2>1. vm' = StartVM /\ DOMAIN results' = {}
      BY <1>4 DEF Clear, DrawnOnce, Running, EmptyMap
    <2> QED BY <2>1, FreshVMDrawn
  <1>5. CASE Compute
    <2>1. /\ Current \in Used /\ vm' = Local(vm, Current) /\ Running'
          /\ UNCHANGED <<count, results>>
      BY <1>5 DEF Compute, Executing, Current, NamesInOrder, Running
    <2>2. vm'.env = CASE Current.op = "const"   -> [vm.env EXCEPT ![Current.dst] = Current.lit]
                      [] Current.op = "collect" -> [vm.env EXCEPT ![Current.dst] = Collected(vm.sink)]
                      [] OTHER                  -> vm.env
      BY <2>1 DEF Local
    <2>3. Current.lit[1] # "anonymous"
      BY <2>1 DEF NamesDrawn
    <2>4. Collected(vm.sink)[1] # "anonymous"
      BY DEF Collected
    <2>5. CASE Current.op = "const"
      BY <2>1, <2>2, <2>3, <2>5, BindOther
    <2>6. CASE Current.op = "collect"
      BY <2>1, <2>2, <2>4, <2>6, BindOther
    <2>7. CASE Current.op \notin {"const", "collect"}
      <3>1. vm'.env = vm.env
        BY <2>2, <2>7
      <3> QED BY <2>1, <3>1 DEF DrawnOnce, InstancesDistinct
    <2> QED BY <2>5, <2>6, <2>7
  <1>6. CASE GenerateName
    <2>1. /\ count \in Nat /\ count <= Len(names) /\ count' = count + 1
          /\ \A i \in DOMAIN names : names[i] = Anonymous(i)
          /\ DOMAIN names = 1..Len(names) /\ Len(names) \in Nat
          /\ vm' = Assign(vm, Current.dst, NameOf(count + 1, names))
          /\ Running' /\ results' = results
      BY <1>6 DEF GenerateName, Executing, NamesInOrder, Running
    <2>2. NameOf(count + 1, names) = Anonymous(count + 1)
      BY <2>1 DEF NameOf
    <2> QED BY <2>1, <2>2, BindDrawn DEF Assign
  <1>7. CASE CachedCall
    <2>1. /\ vm' = Assign(vm, Current.dst, results[vm.pc]) /\ vm.pc \in DOMAIN results
          /\ Running' /\ UNCHANGED <<count, results>>
      BY <1>7 DEF CachedCall, Cached, Executing, Running
    <2>2. results[vm.pc][1] # "anonymous"
      BY <2>1 DEF DrawnOnce
    <2> QED BY <2>1, <2>2, BindOther DEF Assign
  <1>8. CASE HostCall
    <2>1. PICK r : /\ r[1] # "anonymous" /\ results' = Put(results, vm.pc, r)
                   /\ vm' = Assign(vm, Current.dst, r)
                   /\ Running' /\ count' = count
      BY <1>8 DEF HostCall, Calling, Executing, Running, Number
    <2>2. \A p \in DOMAIN results' : results'[p][1] # "anonymous"
      BY <2>1 DEF DrawnOnce, Put
    <2>3. DOMAIN vm'.env = Vars /\ \A y \in Vars : vm'.env[y] = vm.env[y] \/ vm'.env[y] = r
      BY <2>1 DEF Assign, DrawnOnce
    <2>4. \A y \in Vars : vm'.env[y][1] = "anonymous" => vm'.env[y] = vm.env[y]
      BY <2>1, <2>3
    <2>5. InstancesDistinct'
      BY <2>4 DEF DrawnOnce, InstancesDistinct
    <2> QED BY <2>1, <2>2, <2>3, <2>4, <2>5 DEF DrawnOnce
  <1> QED BY <1>1, <1>2, <1>3, <1>4, <1>5, <1>6, <1>7, <1>8
         DEF HNext, HStep, HReject, HStart, HCompute, HGenerateName, HCachedCall, HHostCall,
             HRuntimeError, HHostError, HFinish, HCancel, HClear

(***************************************************************************)
(* No two bindings share a worker that was drawn for one of them, in a     *)
(* session of any lines: with loops, dropped, or run again as other code.  *)
(***************************************************************************)
THEOREM InstancesStayDistinct ==
  ASSUME NamesDrawn
  PROVE  HSpec => []InstancesDistinct
  <1>1. NamesInOrder /\ [HNext]_hvars => NamesInOrder'
    BY NextNamed
  <1>2. NamesInOrder /\ DrawnOnce /\ [HNext]_hvars => DrawnOnce'
    BY NextDrawn
  <1>3. DrawnOnce => InstancesDistinct
    BY DEF DrawnOnce
  <1> QED BY InitNamed, InitDrawn, <1>1, <1>2, <1>3, PTL DEF HSpec

===============================================================================
