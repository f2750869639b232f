------------------------- MODULE ReplPromise_proofs -------------------------
(***************************************************************************)
(* The session implements its promise: for every compiler of lines without *)
(* loops, whether the embedder waits for a line to end or drops it, the    *)
(* session with its cache and its replay does what ReplPromise says of a   *)
(* session without them.  A replay of the lines as they ran is no step of  *)
(* the promise; an execution of lines that compile anew is one, step by    *)
(* step.                                                                   *)
(***************************************************************************)
EXTENDS ReplReplay_proofs

(***************************************************************************)
(* Lines without loops leave no iterator open and nothing collected.       *)
(***************************************************************************)
LEMMA LocalLeavesNothing ==
  ASSUME NEW m, NEW i, i.op \notin {"iterate", "next", "push", "collect"},
         m.left = 0, m.sink = <<>>
  PROVE  Local(m, i).left = 0 /\ Local(m, i).sink = <<>>
  BY DEF Local

LEMMA GoesOnBare ==
  ASSUME NoLoops, OnTrace, PromiseKept, Compute \/ GenerateName \/ CachedCall \/ HostCall
  PROVE  /\ Running /\ Running' /\ vm.pc \in DOMAIN bytecode
         /\ UNCHANGED <<script, bytecode, last>>
         /\ vm'.left = 0 /\ vm'.sink = <<>>
         /\ vm'.pc > vm.pc /\ IsVM(vm) /\ IsVM(vm')
         /\ Len(names) <= Len(names') /\ \A i \in 1..Len(names) : names'[i] = names[i]
  <1>0. LoopFree /\ TypeOK
    BY DEF NoLoops, OnTrace
  <1>1. /\ Kept /\ Does /\ Running /\ Running' /\ UNCHANGED <<script, bytecode, last>>
        /\ vm.pc \in DOMAIN bytecode
    BY <1>0, GoesOn
  <1>2. IsVM(vm) /\ Snapshot = trace[vm.pc] /\ vm.pc \in DOMAIN trace
    BY <1>0, <1>1 DEF OnTrace, OnPath, TypeOK, LeadsTo
  <1>3. vm.left = 0 /\ vm.sink = <<>>
    BY <1>1, <1>2 DEF PromiseKept, NothingOpen, Snapshot
  <1>4. Current \in Used /\ Current.op \notin {"iterate", "next", "push", "collect"}
    BY <1>0, <1>1 DEF TypeOK, Current, NoLoops
  <1>5. vm'.left = 0 /\ vm'.sink = <<>>
    <2>1. CASE Compute
      <3>1. vm' = Local(vm, Current)
        BY <2>1 DEF Compute
      <3> QED BY <1>3, <1>4, <3>1, LocalLeavesNothing
    <2>2. CASE GenerateName \/ CachedCall \/ HostCall
      <3>1. PICK x, v : vm' = Assign(vm, x, v)
        BY <2>2 DEF GenerateName, CachedCall, HostCall
      <3> QED BY <1>2, <1>3, <3>1 DEF Assign, IsVM
    <2> QED BY <2>1, <2>2
  <1>6. names \in Seq({"anonymous"} \X Nat) /\ count \in Nat
    BY <1>0 DEF TypeOK
  <1>7. names' = names \/ (names' = Append(names, NameOf(count', names)) /\ count' \notin DOMAIN names)
    BY DEF Compute, GenerateName, CachedCall, HostCall
  <1>8. Len(names) <= Len(names') /\ \A i \in 1..Len(names) : names'[i] = names[i]
    <2>1. CASE names' = names
      BY <1>6, <2>1
    <2>2. CASE names' = Append(names, NameOf(count', names)) /\ count' \notin DOMAIN names
      <3>1. NameOf(count', names) = Anonymous(Len(names) + 1)
        BY <2>2 DEF NameOf
      <3>2. NameOf(count', names) \in {"anonymous"} \X Nat
        BY <1>6, <3>1 DEF Anonymous
      <3> QED BY <1>6, <2>2, <3>2, AppendProperties
    <2> QED BY <1>7, <2>1, <2>2
  <1> QED BY <1>1, <1>2, <1>5, <1>8 DEF Does

(***************************************************************************)
(* What is kept stays while a line runs and when it does not end well.     *)
(***************************************************************************)
Held == KeptNames(path[last + 1].n)

LEMMA GoKeeps ==
  ASSUME NoLoops, OnTrace, PromiseKept, Record, Compute \/ GenerateName \/ CachedCall \/ HostCall
  PROVE  KeptBindings' = KeptBindings /\ Held' = Held
  <1>1. /\ UNCHANGED <<last, path>>
        /\ Len(names) <= Len(names') /\ \A i \in 1..Len(names) : names'[i] = names[i]
    BY GoesOnBare DEF Record
  <1>2. last + 1 \in DOMAIN path /\ path[last + 1].n \in Nat /\ Len(names) \in Nat
    BY DEF OnTrace, LeadsTo, TypeOK
  <1>3. path[last + 1].n <= Len(names)
    BY <1>2 DEF PromiseKept, NothingOpen
  <1>4. \A i \in 1..path[last + 1].n : names'[i] = names[i]
    BY <1>1, <1>2, <1>3
  <1> QED BY <1>1, <1>4 DEF KeptBindings, KeptNames, Held

LEMMA StillKeeps ==
  ASSUME UNCHANGED <<last, path, names>>
  PROVE  KeptBindings' = KeptBindings /\ Held' = Held
  BY DEF KeptBindings, KeptNames, Held

(***************************************************************************)
(* Workers only ever serve more calls, and what was answered stays so.     *)
(***************************************************************************)
AnsweredBy(g, r) == \E w \in DOMAIN g : \E n \in 1..g[w] : r = Number(n)

AllAnswered == \A p \in DOMAIN results : AnsweredBy(guest, results[p])

LEMMA GuestGrows ==
  ASSUME \A w \in DOMAIN guest : guest[w] \in Nat,
         NEW v, guest' \in {guest, Serve(v)}
  PROVE  /\ \A w \in DOMAIN guest' : guest'[w] \in Nat
         /\ \A r : AnsweredBy(guest, r) => AnsweredBy(guest', r)
         /\ guest' = Serve(v) => AnsweredBy(guest', Number(Served(v) + 1))
  <1>1. Served(v) \in Nat
    BY DEF Served
  <1>2. CASE guest' = Serve(v)
    <2>1. /\ DOMAIN guest' = DOMAIN guest \cup {v} /\ guest'[v] = Served(v) + 1
          /\ \A w \in DOMAIN guest : w # v => guest'[w] = guest[w]
      BY <1>2 DEF Serve, Put
    <2>2. \A w \in DOMAIN guest' : guest'[w] \in Nat
      BY <1>1, <2>1
    <2>3. \A w \in DOMAIN guest : guest[w] <= guest'[w]
      BY <1>1, <2>1 DEF Served
    <2>4. ASSUME NEW r, AnsweredBy(guest, r)  PROVE AnsweredBy(guest', r)
      <3>1. PICK w \in DOMAIN guest : \E n \in 1..guest[w] : r = Number(n)
        BY <2>4 DEF AnsweredBy
      <3>2. PICK n \in 1..guest[w] : r = Number(n)
        BY <3>1
      <3>3. w \in DOMAIN guest' /\ n \in 1..guest'[w]
        BY <2>1, <2>2, <2>3, <3>1, <3>2
      <3> QED BY <3>2, <3>3 DEF AnsweredBy
    <2>5. AnsweredBy(guest', Number(Served(v) + 1))
      <3>1. Served(v) + 1 \in 1..guest'[v] /\ v \in DOMAIN guest'
        BY <1>1, <2>1
      <3> QED BY <3>1, Zenon DEF AnsweredBy
    <2> QED BY <2>2, <2>4, <2>5
  <1>3. CASE guest' = guest /\ guest' # Serve(v)
    BY <1>3 DEF AnsweredBy
  <1> QED BY <1>2, <1>3

(***************************************************************************)
(* What the promise needs to know of the session holds of every state.     *)
(***************************************************************************)
LEMMA FreshIsBare == ASSUME Len(names') \in Nat PROVE NothingOpen(Fresh)'
  BY DEF NothingOpen, Fresh, FirstSnapshot, StartVM

LEMMA AnsweredIsAll == ASSUME PromiseKept PROVE AllAnswered
  BY DEF PromiseKept, WasAnswered, AllAnswered, AnsweredBy

LEMMA InitPromiseKept == HInit => PromiseKept
  <1> SUFFICES ASSUME HInit PROVE PromiseKept
    OBVIOUS
  <1>1. /\ path = Fresh /\ ~ Running /\ DOMAIN guest = {} /\ DOMAIN results = {} /\ names = <<>>
    BY DEF HInit, Init, Running, EmptyMap
  <1>2. NothingOpen(path)
    BY <1>1 DEF NothingOpen, Fresh, FirstSnapshot, StartVM
  <1> QED BY <1>1, <1>2 DEF PromiseKept

LEMMA BareStays ==
  ASSUME NEW code, NEW tr, NEW end, LeadsTo(code, tr, end), NothingOpen(tr), TypeOK, TypeOK',
         Len(names) <= Len(names')
  PROVE  NothingOpen(tr)'
  <1>1. Len(names) \in Nat /\ Len(names') \in Nat /\ \A p \in DOMAIN tr : tr[p].n \in Nat
    BY DEF TypeOK, LeadsTo
  <1> QED BY <1>1 DEF NothingOpen

LEMMA GoPromiseKept ==
  ASSUME NoLoops, OnTrace, OnTrace', PromiseKept, Record,
         Compute \/ GenerateName \/ CachedCall \/ HostCall
  PROVE  PromiseKept'
  <1>0. /\ TypeOK /\ TypeOK' /\ LeadsTo(ran, path, last + 1)
        /\ LeadsTo(bytecode, trace, vm.pc) /\ UNCHANGED <<path, script, bytecode>> /\ Running
        /\ NothingOpen(path) /\ NothingOpen(trace) /\ script # <<>> /\ bytecode = Program(script)
        /\ vm'.left = 0 /\ vm'.sink = <<>> /\ Len(names) <= Len(names')
    BY GoesOnBare DEF OnTrace, OnPath, Record, PromiseKept
  <1>1. NothingOpen(path)'
    <2> PICK code, tr, end : code = ran /\ tr = path /\ end = last + 1
      OBVIOUS
    <2>1. NothingOpen(tr)'
      BY <1>0, BareStays
    <2> QED BY <1>0, <2>1
  <1>2. NothingOpen(trace)'
    <2> PICK code, tr, end : code = bytecode /\ tr = trace /\ end = vm.pc
      OBVIOUS
    <2>1. NothingOpen(tr)'
      BY <1>0, BareStays
    <2> PICK new : new = Snapshot'
      OBVIOUS
    <2>2. new.m.left = 0 /\ new.m.sink = <<>> /\ new.n <= Len(names')
      BY <1>0 DEF TypeOK, Snapshot
    <2>3. \A p \in DOMAIN trace' : trace'[p] = new \/ (p \in DOMAIN tr /\ trace'[p] = tr[p])
      BY DEF Record, Put
    <2> QED BY <2>1, <2>2, <2>3 DEF NothingOpen
  <1>3. bytecode' = Program(script') /\ script' # <<>>
    BY <1>0 DEF Program
  <1>4. \A w \in DOMAIN guest : guest[w] \in Nat
    BY DEF PromiseKept
  <1>5. (\A w \in DOMAIN guest' : guest'[w] \in Nat) /\ AllAnswered'
    <2>1. CASE HostCall
      <3> PICK w : w = vm.env[Current.src]
        OBVIOUS
      <3> PICK r : r = Number(Served(w) + 1)
        OBVIOUS
      <3>1. guest' = Serve(w) /\ results' = Put(results, vm.pc, r)
        BY <2>1 DEF HostCall
      <3>2. /\ \A v \in DOMAIN guest' : guest'[v] \in Nat
            /\ \A q : AnsweredBy(guest, q) => AnsweredBy(guest', q)
            /\ AnsweredBy(guest', r)
        BY <1>4, <3>1, GuestGrows
      <3>3. \A p \in DOMAIN results' : results'[p] = r \/ (p \in DOMAIN results /\ results'[p] = results[p])
        BY <3>1 DEF Put
      <3>4. \A p \in DOMAIN results : AnsweredBy(guest, results[p])
        BY AnsweredIsAll DEF AllAnswered
      <3>5. \A p \in DOMAIN results' : AnsweredBy(guest', results'[p])
        BY <3>2, <3>3, <3>4, Zenon
      <3> QED BY <3>2, <3>5 DEF AllAnswered
    <2>2. CASE Compute \/ GenerateName \/ CachedCall
      <3>1. UNCHANGED <<guest, results>>
        BY <2>2 DEF Compute, GenerateName, CachedCall
      <3> QED BY <1>4, <3>1, AnsweredIsAll DEF AllAnswered
    <2> QED BY <2>1, <2>2
  <1> QED BY <1>1, <1>2, <1>3, <1>5 DEF PromiseKept, WasAnswered, AllAnswered, AnsweredBy

LEMMA NextPromiseKept ==
  ASSUME NoLoops, OnTrace, OnTrace', PromiseKept, [HNext]_hvars
  PROVE  PromiseKept'
  <1>0. TypeOK /\ TypeOK' /\ Len(names') \in Nat
    <2>1. TypeOK /\ TypeOK'
      BY DEF OnTrace
    <2>2. names' \in Seq({"anonymous"} \X Nat)
      BY <2>1 DEF TypeOK
    <2> QED BY <2>1, <2>2
  <1>1. CASE UNCHANGED hvars
    BY <1>1 DEF hvars, PromiseKept, NothingOpen, WasAnswered, Running, Program
  <1>2. ASSUME NEW l \in Lines, HReject(l)  PROVE PromiseKept'
    BY <1>2 DEF HReject, Reject, PromiseKept, NothingOpen, WasAnswered, Running
  <1>3. ASSUME NEW l \in Lines, HStart(l)  PROVE PromiseKept'
    <2>1. trace' = Fresh /\ UNCHANGED <<path, names, guest, results>>
      BY <1>3 DEF HStart, Start, Forget
    <2>2. script' # <<>> /\ bytecode' = Program(script')
      BY <1>0, <1>3, StartTypes DEF HStart, TypeOK
    <2>3. NothingOpen(trace)'
      BY <1>0, <2>1, FreshIsBare DEF NothingOpen, Fresh, FirstSnapshot, StartVM
    <2>4. NothingOpen(path)'
      BY <2>1 DEF PromiseKept, NothingOpen
    <2> QED BY <2>1, <2>2, <2>3, <2>4 DEF PromiseKept, WasAnswered
  <1>4. CASE HCompute \/ HGenerateName \/ HCachedCall \/ HHostCall
    BY <1>4, GoPromiseKept DEF HCompute, HGenerateName, HCachedCall, HHostCall
  <1>5. CASE HRuntimeError \/ HHostError \/ HCancel
    <2>1. /\ ~ Running' /\ UNCHANGED <<path, names, results>>
      BY <1>5 DEF HRuntimeError, HHostError, HCancel, RuntimeError, HostError, Cancel, Fail, Forget, Running
    <2>2. PICK w : guest' \in {guest, Serve(w)}
      BY <1>5 DEF HRuntimeError, HHostError, HCancel, RuntimeError, HostError, Cancel
    <2>3. /\ \A v \in DOMAIN guest' : guest'[v] \in Nat
          /\ \A q : AnsweredBy(guest, q) => AnsweredBy(guest', q)
      BY <2>2, GuestGrows DEF PromiseKept
    <2>4. AllAnswered'
      BY <2>1, <2>3, AnsweredIsAll DEF AllAnswered
    <2>5. NothingOpen(path)'
      BY <2>1 DEF PromiseKept, NothingOpen
    <2> QED BY <2>1, <2>3, <2>4, <2>5 DEF PromiseKept, WasAnswered, AllAnswered, AnsweredBy
  <1>6. CASE HFinish
    <2>1. Running /\ ~ Running' /\ path' = trace /\ UNCHANGED <<names, guest, results>>
      BY <1>6 DEF HFinish, Finish, Running
    <2> QED BY <2>1 DEF PromiseKept, NothingOpen, WasAnswered
  <1>7. CASE HClear
    <2>1. ~ Running' /\ path' = Fresh /\ DOMAIN results' = {} /\ guest' = guest
      BY <1>7 DEF HClear, Clear, Running, EmptyMap
    <2>2. NothingOpen(path)'
      BY <1>0, <2>1 DEF NothingOpen, Fresh, FirstSnapshot, StartVM
    <2> QED BY <2>1, <2>2 DEF PromiseKept, WasAnswered
  <1> QED BY <1>1, <1>2, <1>3, <1>4, <1>5, <1>6, <1>7 DEF HNext, HStep

(***************************************************************************)
(* The two modules mean the same by their instructions, wherever the       *)
(* interpreter is.                                                         *)
(***************************************************************************)
From(m, n) == [m EXCEPT !.pc = @ - n]

LEMMA SameStart == Promise!StartVM = StartVM
  BY DEF Promise!StartVM, StartVM, Promise!Unbound, Unbound

LEMMA SameAssign ==
  ASSUME NEW m, IsVM(m), NEW n \in Nat, NEW x, NEW v
  PROVE  Promise!Assign(From(m, n), x, v) = From(Assign(m, x, v), n)
  BY DEF Promise!Assign, Assign, From, IsVM

LEMMA SameLocal ==
  ASSUME NEW m, IsVM(m), NEW n \in Nat, NEW i, i.to \in Nat
  PROVE  Promise!Local(From(m, n), i) = From(Local(m, i), n)
  <1>1. /\ From(m, n).env = m.env /\ From(m, n).left = m.left /\ From(m, n).sink = m.sink
        /\ From(m, n).pc = m.pc - n
    BY DEF From, IsVM
  <1>2. Promise!Jumps(From(m, n), i) <=> Jumps(m, i)
    BY <1>1 DEF Promise!Jumps, Jumps
  <1> DEFINE L == Local(m, i)  P == Promise!Local(From(m, n), i)
  <1>3. P.pc = L.pc - n
    BY <1>1, <1>2 DEF Promise!Local, Local, IsVM
  <1>4. P.env = L.env /\ P.left = L.left /\ P.sink = L.sink
    BY <1>1 DEF Promise!Local, Local, Promise!Collected, Collected
  <1>5. P = [pc |-> P.pc, env |-> P.env, left |-> P.left, sink |-> P.sink]
    BY DEF Promise!Local
  <1>6. L = [pc |-> L.pc, env |-> L.env, left |-> L.left, sink |-> L.sink]
    BY DEF Local
  <1> HIDE DEF L, P
  <1>7. From(L, n) = [pc |-> L.pc - n, env |-> L.env, left |-> L.left, sink |-> L.sink]
    BY <1>6 DEF From
  <1>8. P = From(L, n)
    BY <1>3, <1>4, <1>5, <1>7
  <1> QED BY <1>8 DEF L, P

LEMMA SameServe ==
  ASSUME NEW w
  PROVE  Promise!Served(w) = Served(w) /\ Promise!Serve(w) = Serve(w)
  BY DEF Promise!Served, Served, Promise!Serve, Serve, Promise!Put, Put

(***************************************************************************)
(* Lines that compile to what they ran as are a path that is kept.         *)
(***************************************************************************)
LEMMA AsRunKept ==
  ASSUME OnTrace, AsRun
  PROVE  PathKept /\ last <= Len(bytecode) /\ last \in Nat /\ Len(bytecode) \in Nat
  <1>1. /\ last \in Nat /\ last = Len(ran) /\ ran \in Seq(Used) /\ bytecode \in Seq(Used)
        /\ DOMAIN path \subseteq 1..(last + 1)
    BY DEF OnTrace, TypeOK, LeadsTo
  <1>2. last <= Len(bytecode)
    <2>1. last = 0 \/ last \in DOMAIN ran
      BY <1>1
    <2> QED BY <1>1, <2>1 DEF AsRun
  <1>3. PathKept
    <2> SUFFICES ASSUME NEW p \in DOMAIN path, p <= last
                 PROVE  p \in DOMAIN bytecode /\ bytecode[p] = ran[p]
      BY DEF PathKept
    <2>1. p \in DOMAIN ran
      BY <1>1
    <2> QED BY <2>1 DEF AsRun
  <1> QED BY <1>1, <1>2, <1>3

(***************************************************************************)
(* What the promise runs: once a replay is over, the rest of the program;  *)
(* or all of it.                                                           *)
(***************************************************************************)
Skipped == IF AsRun THEN last ELSE 0

Rest == IF AsRun THEN SubSeq(bytecode, last + 1, Len(bytecode)) ELSE bytecode

Again == IF AsRun THEN FALSE ELSE TRUE

Going == Running /\ (AsRun => vm.pc > last)

LEMMA FromNothing == ASSUME NEW m, IsVM(m) PROVE From(m, 0) = m
  <1> PICK p, e, l, k : m = [pc |-> p, env |-> e, left |-> l, sink |-> k] /\ p \in Nat
    BY DEF IsVM
  <1>1. From(m, 0) = [pc |-> p - 0, env |-> e, left |-> l, sink |-> k]
    BY DEF From
  <1> QED BY <1>1

LEMMA TaskGoing ==
  ASSUME OnTrace, Going
  PROVE  /\ Task = [code |-> Rest, m |-> From(vm, Skipped), owned |-> KeptNames(count),
                    busy |-> TRUE, again |-> Again]
         /\ From(vm, Skipped).pc = vm.pc - Skipped /\ From(vm, Skipped).env = vm.env
         /\ Skipped \in Nat /\ IsVM(vm)
         /\ Len(Rest) = Len(bytecode) - Skipped
         /\ vm.pc \in DOMAIN bytecode =>
              vm.pc - Skipped \in DOMAIN Rest /\ Rest[vm.pc - Skipped] = Current
  <1>1. last \in Nat /\ bytecode \in Seq(Used) /\ IsVM(vm) /\ vm.pc \in Nat /\ Skipped \in Nat
    BY DEF OnTrace, TypeOK, IsVM, Skipped
  <1>2. From(vm, Skipped).pc = vm.pc - Skipped /\ From(vm, Skipped).env = vm.env
    BY <1>1 DEF From, IsVM
  <1>3. CASE AsRun
    <2>1. ~ (vm.pc <= last)
      BY <1>1, <1>3 DEF Going
    <2>2. Task = [code |-> Rest, m |-> From(vm, Skipped), owned |-> KeptNames(count),
                  busy |-> TRUE, again |-> Again]
      BY <1>3, <2>1, Zenon DEF Going, Task, Continued, From, Skipped, Rest, Again
    <2>3. last <= Len(bytecode)
      BY <1>3, AsRunKept
    <2>4. /\ Len(Rest) = Len(bytecode) - last
          /\ \A i \in 1..(Len(bytecode) - last) : Rest[i] = bytecode[last + i]
          /\ DOMAIN Rest = 1..(Len(bytecode) - last)
      BY <1>1, <1>3, <2>3 DEF Rest
    <2>5. vm.pc \in DOMAIN bytecode => vm.pc - last \in 1..(Len(bytecode) - last) /\ last + (vm.pc - last) = vm.pc
      BY <1>1, <1>3 DEF Going
    <2> QED BY <1>1, <1>2, <1>3, <2>2, <2>4, <2>5 DEF Current, Skipped
  <1>4. CASE ~ AsRun
    <2>1. From(vm, 0) = vm
      BY <1>1, FromNothing
    <2>2. Skipped = 0 /\ Rest = bytecode /\ Again = TRUE
      BY <1>4 DEF Skipped, Rest, Again
    <2>3. Task = RunAgain
      BY <1>4 DEF Going, Task
    <2>4. Task = [code |-> Rest, m |-> From(vm, Skipped), owned |-> KeptNames(count),
                  busy |-> TRUE, again |-> Again]
      BY <2>1, <2>2, <2>3 DEF RunAgain
    <2>5. vm.pc - Skipped = vm.pc /\ Len(Rest) = Len(bytecode) - Skipped
      BY <1>1, <2>2
    <2> QED BY <1>1, <1>2, <2>2, <2>4, <2>5 DEF Current
  <1> QED BY <1>1, <1>2, <1>3, <1>4

(***************************************************************************)
(* While the lines are replayed as they ran, what the promise runs waits.  *)
(***************************************************************************)
Waiting ==
  [code  |-> SubSeq(bytecode, last + 1, Len(bytecode)), m |-> [StartVM EXCEPT !.env = KeptBindings],
   owned |-> Held, busy |-> TRUE, again |-> FALSE]

LEMMA TaskInReplay ==
  ASSUME OnTrace, PromiseKept, Running, AsRun, vm.pc <= last + 1
  PROVE  Task = Waiting
  <1>0. last \in Nat /\ IsVM(vm) /\ vm.pc \in Nat /\ PathKept
    BY AsRunKept DEF OnTrace, TypeOK, IsVM
  <1>1. CASE vm.pc <= last
    BY <1>0, <1>1 DEF Task, Continued, Waiting, Held
  <1>2. CASE vm.pc = last + 1
    <2>1. /\ KeptBindings = vm.env /\ path[last + 1].n = count /\ vm.left = 0 /\ vm.sink = <<>>
      <3>1. Snapshot = path[last + 1] /\ last + 1 \in DOMAIN path
        BY <1>0, <1>2 DEF OnTrace, OnPath
      <3> QED BY <3>1 DEF Snapshot, PromiseKept, NothingOpen, KeptBindings
    <2>2. From(vm, last) = [StartVM EXCEPT !.env = vm.env]
      <3> PICK p, e, l, k : vm = [pc |-> p, env |-> e, left |-> l, sink |-> k]
        BY <1>0 DEF IsVM
      <3>1. From(vm, last) = [pc |-> p - last, env |-> e, left |-> l, sink |-> k]
        BY DEF From
      <3>2. p - last = 1 /\ l = 0 /\ k = <<>>
        BY <1>0, <1>2, <2>1
      <3>3. [StartVM EXCEPT !.env = vm.env] = [pc |-> 1, env |-> e, left |-> 0, sink |-> <<>>]
        BY DEF StartVM
      <3> QED BY <3>1, <3>2, <3>3
    <2>3. Going /\ Skipped = last /\ Again = FALSE /\ Rest = SubSeq(bytecode, last + 1, Len(bytecode))
      BY <1>0, <1>2 DEF Going, Skipped, Again, Rest
    <2> QED BY <2>1, <2>2, <2>3, TaskGoing DEF Waiting, Held
  <1> QED BY <1>0, <1>1, <1>2

(***************************************************************************)
(* What a step of the session is to the promise.  Between lines:           *)
(***************************************************************************)
NoTask == [code |-> <<>>, m |-> StartVM, owned |-> {}, busy |-> FALSE, again |-> FALSE]

LEMMA IdleTask == ASSUME ~ Running PROVE Task = NoTask /\ Task = Promise!Idle
  BY SameStart DEF Task, NoTask, Promise!Idle

LEMMA StartBegins ==
  ASSUME OnTrace, OnTrace', PromiseKept', NEW l \in Lines, HStart(l)
  PROVE  Promise!Begin(l)
  <1>1. /\ ~ Running /\ Running' /\ vm' = StartVM /\ count' = 0
        /\ UNCHANGED <<last, names, guest, ran, path>>
        /\ script' = Append(script, l) /\ TypeChecks(script') /\ bytecode' = Program(script')
    BY DEF HStart, Start, Forget, Running
  <1>2. KeptBindings' = KeptBindings /\ Held' = Held
    BY <1>1, StillKeeps
  <1>3. AsRun' <=> Promise!Unchanged(bytecode')
    BY <1>1 DEF AsRun, Promise!Unchanged
  <1>4. last \in Nat /\ last = Len(ran)
    BY DEF OnTrace, TypeOK
  <1>5. ASSUME AsRun' PROVE Task' = Promise!Continue(bytecode')
    <2>1. vm'.pc <= last' + 1
      BY <1>1, <1>4, StartIsVM
    <2>2. (OnTrace /\ PromiseKept /\ Running /\ AsRun /\ vm.pc <= last + 1 => Task = Waiting)'
      BY TaskInReplay, PTL
    <2>3. Task' = Waiting'
      BY <1>1, <1>5, <2>1, <2>2
    <2>4. Waiting' = [code  |-> SubSeq(bytecode', Len(ran) + 1, Len(bytecode')),
                      m |-> [StartVM EXCEPT !.env = KeptBindings], owned |-> Held,
                      busy |-> TRUE, again |-> FALSE]
      BY <1>1, <1>2, <1>4 DEF Waiting, StartVM
    <2> QED BY <2>3, <2>4, SameStart DEF Promise!Continue, Held
  <1>6. ASSUME ~ AsRun' PROVE Task' = Promise!RunAgain(bytecode')
    <2>1. Task' = [code |-> bytecode', m |-> StartVM, owned |-> KeptNames(count)',
                   busy |-> TRUE, again |-> TRUE]
      BY <1>1, <1>6 DEF Task, RunAgain
    <2>2. KeptNames(count)' = {}
      BY <1>1 DEF KeptNames
    <2> QED BY <2>1, <2>2, SameStart DEF Promise!RunAgain
  <1>7. ~ Task.busy
    BY <1>1, IdleTask DEF NoTask
  <1>8. Task' = IF Promise!Unchanged(bytecode') THEN Promise!Continue(bytecode') ELSE Promise!RunAgain(bytecode')
    BY <1>3, <1>5, <1>6
  <1>9. Promise!Compilation(script') = bytecode' /\ Compiled(Append(script, l)) # <<>>
    BY <1>1 DEF Promise!Compilation, Program, TypeChecks
  <1>10. UNCHANGED <<ran, KeptBindings, KeptNames(path[last + 1].n), guest>>
    BY <1>1, <1>2 DEF Held
  <1> QED BY <1>1, <1>7, <1>8, <1>9, <1>10 DEF Promise!Begin

(***************************************************************************)
(* A line that runs: the replay is no step of the promise, and what comes  *)
(* after it is.                                                            *)
(***************************************************************************)
LEMMA SameProgram ==
  ASSUME UNCHANGED <<bytecode, last, ran>>
  PROVE  AsRun' = AsRun /\ Skipped' = Skipped /\ Rest' = Rest /\ Again' = Again
  <1>1. AsRun' <=> AsRun
    BY DEF AsRun
  <1>2. AsRun' = AsRun
    BY <1>1 DEF AsRun
  <1> QED BY <1>1, <1>2 DEF Skipped, Rest, Again

LEMMA ReplayStutters ==
  ASSUME NoLoops, OnTrace, OnTrace', PromiseKept, PromiseKept', Record, AsRun, vm.pc <= last,
         Compute \/ GenerateName \/ CachedCall \/ HostCall
  PROVE  UNCHANGED <<script, ran, KeptBindings, Held, Task, guest>>
  <1>1. /\ Running /\ Running' /\ UNCHANGED <<script, bytecode, last, ran, path>>
        /\ KeptBindings' = KeptBindings /\ Held' = Held
        /\ last \in Nat /\ vm.pc \in Nat /\ PathKept /\ vm'.pc \in Nat
    BY GoesOnBare, GoKeeps, AsRunKept DEF Record, OnTrace, TypeOK, IsVM
  <1>2. vm'.pc <= last' + 1
    <2>1. TypeOK /\ LeadsTo(ran, path, last + 1) /\ OnPath /\ Kept /\ Does
      BY <1>1, GoesOn DEF OnTrace, NoLoops
    <2>2. vm'.pc \in DOMAIN path'
      BY <1>1, <2>1, StaysOnPath
    <2> QED BY <1>1, <2>1, <2>2 DEF LeadsTo
  <1>3. AsRun'
    BY <1>1, SameProgram
  <1>4. Task = Waiting
    BY <1>1, TaskInReplay
  <1>5. Task' = Waiting'
    <2>1. (OnTrace /\ PromiseKept /\ Running /\ AsRun /\ vm.pc <= last + 1 => Task = Waiting)'
      BY TaskInReplay, PTL
    <2> QED BY <1>1, <1>2, <1>3, <2>1
  <1>6. Waiting' = Waiting
    BY <1>1 DEF Waiting, StartVM
  <1>7. guest' = guest
    BY <1>1, CallsPastLast DEF Compute, GenerateName, CachedCall, HostCall
  <1> QED BY <1>1, <1>4, <1>5, <1>6, <1>7

LEMMA SameFunction ==
  ASSUME NEW F, NEW f, NEW g, f = [x \in F |-> f[x]], g = [x \in F |-> g[x]],
         \A x \in F : f[x] = g[x]
  PROVE  f = g
  OBVIOUS

\* How the promise writes a step of the line in hand.
IsTask(t) == \E c, m, o, a : t = [code |-> c, m |-> m, owned |-> o, busy |-> TRUE, again |-> a]

LEMMA MoveTask ==
  ASSUME NEW t, IsTask(t), NEW t1, IsTask(t1), t1.code = t.code, t1.again = t.again
  PROVE  /\ t1 = [t EXCEPT !.m = t1.m, !.owned = t1.owned]
         /\ t1.owned = t.owned => t1 = [t EXCEPT !.m = t1.m]
  <1> DEFINE F == {"code", "m", "owned", "busy", "again"}
             u == [t EXCEPT !.m = t1.m, !.owned = t1.owned]
             v == [t EXCEPT !.m = t1.m]
  <1>1. DOMAIN t = F /\ t.busy = TRUE
    BY DEF IsTask
  <1>2. t1.busy = TRUE /\ t1 = [x \in F |-> t1[x]]
    BY DEF IsTask
  <1>3. /\ u = [x \in F |-> u[x]] /\ u.code = t.code /\ u.m = t1.m /\ u.owned = t1.owned
        /\ u.busy = TRUE /\ u.again = t.again
    BY <1>1
  <1>4. /\ v = [x \in F |-> v[x]] /\ v.code = t.code /\ v.m = t1.m /\ v.owned = t.owned
        /\ v.busy = TRUE /\ v.again = t.again
    BY <1>1
  <1> HIDE DEF u, v
  <1>5. t1 = u
    <2>1. \A x \in F : t1[x] = u[x]
      BY <1>2, <1>3
    <2> HIDE DEF F
    <2> QED BY <1>2, <1>3, <2>1, SameFunction
  <1>6. ASSUME t1.owned = t.owned  PROVE t1 = v
    <2>1. \A x \in F : t1[x] = v[x]
      BY <1>2, <1>4, <1>6
    <2> HIDE DEF F
    <2> QED BY <1>2, <1>4, <2>1, SameFunction
  <1> QED BY <1>5, <1>6 DEF u, v

LEMMA TaskGoesOn ==
  ASSUME NoLoops, OnTrace, OnTrace', PromiseKept, Record, Going,
         Compute \/ GenerateName \/ CachedCall \/ HostCall
  PROVE  /\ Task.busy /\ Task.m = From(vm, Skipped) /\ Task.owned = KeptNames(count)
         /\ Task'.owned = KeptNames(count)' /\ Task.again = Again
         /\ Task.m.pc \in DOMAIN Task.code /\ Task.code[Task.m.pc] = Current
         /\ Task.m.env = vm.env
         /\ Task' = [Task EXCEPT !.m = From(vm', Skipped), !.owned = KeptNames(count)']
         /\ KeptNames(count)' = KeptNames(count) => Task' = [Task EXCEPT !.m = From(vm', Skipped)]
         /\ IsVM(vm) /\ Skipped \in Nat
         /\ UNCHANGED <<script, ran, KeptBindings, KeptNames(path[last + 1].n)>>
  <1>1. /\ Running /\ Running' /\ vm.pc \in DOMAIN bytecode
        /\ UNCHANGED <<script, bytecode, last, ran>> /\ KeptBindings' = KeptBindings /\ Held' = Held
        /\ vm'.pc > vm.pc /\ last \in Nat /\ vm.pc \in Nat /\ vm'.pc \in Nat
    <2>1. TypeOK
      BY DEF OnTrace
    <2>2. last \in Nat
      BY <2>1 DEF TypeOK
    <2>3. vm.pc \in Nat /\ vm'.pc \in Nat
      BY GoesOnBare DEF IsVM
    <2>4. ran' = ran
      BY DEF Record
    <2> QED BY <2>2, <2>3, <2>4, GoesOnBare, GoKeeps
  <1>2. Skipped' = Skipped /\ Rest' = Rest /\ Again' = Again /\ Going'
    BY <1>1, SameProgram DEF Going
  <1>3. /\ Task = [code |-> Rest, m |-> From(vm, Skipped), owned |-> KeptNames(count),
                   busy |-> TRUE, again |-> Again]
        /\ From(vm, Skipped).pc = vm.pc - Skipped /\ From(vm, Skipped).env = vm.env
        /\ Skipped \in Nat /\ IsVM(vm)
        /\ vm.pc - Skipped \in DOMAIN Rest /\ Rest[vm.pc - Skipped] = Current
    BY <1>1, TaskGoing
  <1>4. Task' = [code |-> Rest, m |-> From(vm', Skipped), owned |-> KeptNames(count)',
                 busy |-> TRUE, again |-> Again]
    <2>1. (OnTrace /\ Going
            => Task = [code |-> Rest, m |-> From(vm, Skipped), owned |-> KeptNames(count),
                       busy |-> TRUE, again |-> Again])'
      BY TaskGoing, PTL
    <2> QED BY <1>2, <2>1 DEF From
  <1>5. /\ Task'.code = Task.code /\ Task'.again = Task.again
        /\ Task'.m = From(vm', Skipped) /\ Task'.owned = KeptNames(count)'
        /\ Task.owned = KeptNames(count)
    BY <1>3, <1>4
  <1>6. IsTask(Task) /\ IsTask(Task')
    BY <1>3, <1>4 DEF IsTask
  <1>7. /\ Task' = [Task EXCEPT !.m = Task'.m, !.owned = Task'.owned]
        /\ Task'.owned = Task.owned => Task' = [Task EXCEPT !.m = Task'.m]
    BY <1>5, <1>6, MoveTask, Zenon
  <1> QED BY <1>1, <1>3, <1>5, <1>7 DEF Held

LEMMA ComputeKeepsPromise ==
  ASSUME NoLoops, OnTrace, OnTrace', PromiseKept, HCompute, Going
  PROVE  Promise!Compute
  <1>1. Compute /\ Record
    BY DEF HCompute
  <1>2. /\ \E op \in LocalOps : Current.op = op
        /\ Current \in Used /\ vm' = Local(vm, Current) /\ count' = count /\ names' = names /\ guest' = guest
    BY <1>1 DEF Compute, Executing, Current, OnTrace, TypeOK
  <1>3. Current.to \in Nat
    BY <1>2, UsedForward DEF NoLoops
  <1>4. /\ Task.busy /\ Task.m = From(vm, Skipped)
        /\ Task.m.pc \in DOMAIN Task.code /\ Task.code[Task.m.pc] = Current
        /\ IsVM(vm) /\ Skipped \in Nat
        /\ UNCHANGED <<script, ran, KeptBindings, KeptNames(path[last + 1].n)>>
    BY <1>1, TaskGoesOn
  <1>5. Promise!Instruction = Current /\ \A op : Promise!Doing(op) <=> Current.op = op
    BY <1>4 DEF Promise!Instruction, Promise!Doing
  <1>6. Task' = [Task EXCEPT !.m = Promise!Local(Task.m, Current)]
    <2>1. KeptNames(count)' = KeptNames(count)
      BY <1>2 DEF KeptNames
    <2>2. Promise!Local(Task.m, Current) = From(vm', Skipped)
      BY <1>2, <1>3, <1>4, SameLocal
    <2> QED BY <1>1, <2>1, <2>2, TaskGoesOn
  <1>7. Promise!LocalOps = LocalOps
    BY DEF Promise!LocalOps, LocalOps, Promise!Ops, Ops
  <1> QED BY <1>2, <1>4, <1>5, <1>6, <1>7 DEF Promise!Compute

LEMMA NameKeepsPromise ==
  ASSUME NoLoops, OnTrace, OnTrace', PromiseKept, HGenerateName, Going
  PROVE  Promise!NewInstance
  <1>1. GenerateName /\ Record
    BY DEF HGenerateName
  <1> DEFINE w == Anonymous(count + 1)
  <1>2. /\ Current.op = "instance" /\ count' = count + 1 /\ guest' = guest
        /\ vm' = Assign(vm, Current.dst, NameOf(count + 1, names))
        /\ names' = IF count + 1 \in DOMAIN names THEN names ELSE Append(names, NameOf(count + 1, names))
    BY <1>1 DEF GenerateName, Executing, Current
  <1>3. /\ count \in Nat /\ count <= Len(names) /\ names \in Seq({"anonymous"} \X Nat)
        /\ \A i \in DOMAIN names : names[i] = Anonymous(i)
        /\ names' \in Seq({"anonymous"} \X Nat)
        /\ \A i \in DOMAIN names' : names'[i] = Anonymous(i)
        /\ count + 1 <= Len(names')
    <2>1. TypeOK /\ TypeOK'
      BY DEF OnTrace
    <2>2. count \in 0..Len(names) /\ count' \in 0..Len(names')
      BY <2>1 DEF TypeOK
    <2>3. /\ names \in Seq({"anonymous"} \X Nat) /\ names' \in Seq({"anonymous"} \X Nat)
          /\ \A i \in DOMAIN names : names[i] = Anonymous(i)
          /\ \A i \in DOMAIN names' : names'[i] = Anonymous(i)
      BY <2>1 DEF TypeOK
    <2> QED BY <1>2, <2>2, <2>3
  <1>4. NameOf(count + 1, names) = w
    BY <1>3 DEF NameOf
  <1>5. KeptNames(count)' = KeptNames(count) \cup {w} /\ w \notin KeptNames(count)
    <2>1. \A x : x \in KeptNames(count) <=> \E i \in 1..count : x = Anonymous(i)
      <3>1. \A i \in 1..count : names[i] = Anonymous(i)
        BY <1>3
      <3> QED BY <3>1, Zenon DEF KeptNames
    <2>2. \A x : x \in KeptNames(count)' <=> \E i \in 1..count' : x = Anonymous(i)
      <3>1. \A i \in 1..count' : names'[i] = Anonymous(i)
        BY <1>2, <1>3
      <3> QED BY <3>1, Zenon DEF KeptNames
    <2>3. \A i : i \in 1..count' <=> i \in 1..count \/ i = count + 1
      BY <1>2, <1>3
    <2>4. \A x : x \in KeptNames(count)' <=> x \in KeptNames(count) \/ x = w
      BY <2>1, <2>2, <2>3, Zenon
    <2>5. w \notin KeptNames(count)
      <3> SUFFICES ASSUME NEW i \in 1..count, w = Anonymous(i) PROVE FALSE
        BY <2>1
      <3> QED BY <1>3, AnonymousOnce
    <2> QED BY <2>4, <2>5
  <1> HIDE DEF w
  <1>6. /\ Task.busy /\ Task.m = From(vm, Skipped) /\ Task.owned = KeptNames(count)
        /\ Task'.owned = KeptNames(count)'
        /\ Task.m.pc \in DOMAIN Task.code /\ Task.code[Task.m.pc] = Current
        /\ IsVM(vm) /\ Skipped \in Nat
        /\ UNCHANGED <<script, ran, KeptBindings, KeptNames(path[last + 1].n)>>
    BY <1>1, TaskGoesOn
  <1>7. Promise!Instruction = Current /\ Promise!Doing("instance")
    BY <1>2, <1>6 DEF Promise!Instruction, Promise!Doing
  <1>8. Task' = [Task EXCEPT !.m = Promise!Assign(Task.m, Current.dst, w), !.owned = Task.owned \cup {w}]
    <2>1. Promise!Assign(Task.m, Current.dst, w) = From(vm', Skipped)
      BY <1>2, <1>4, <1>6, SameAssign
    <2> QED BY <1>1, <1>5, <1>6, <2>1, TaskGoesOn
  <1>9. w \in Task'.owned \ Task.owned
    BY <1>5, <1>6
  <1>10. \E v \in Task'.owned \ Task.owned :
           Task' = [Task EXCEPT !.m = Promise!Assign(Task.m, Promise!Instruction.dst, v), !.owned = Task.owned \cup {v}]
    <2>1. Task' = [Task EXCEPT !.m = Promise!Assign(Task.m, Promise!Instruction.dst, w), !.owned = Task.owned \cup {w}]
      BY <1>7, <1>8
    <2> QED BY <1>9, <2>1, Zenon
  <1>11. UNCHANGED <<script, ran, KeptBindings, KeptNames(path[last + 1].n), guest>>
    BY <1>2, <1>6
  <1> QED BY <1>7, <1>10, <1>11, Zenon DEF Promise!NewInstance

\* A call reaches its worker after the replay only.
LEMMA CallIsGoing ==
  ASSUME OnTrace, Calling
  PROVE  Going /\ vm.pc \in DOMAIN bytecode /\ Current.op = "call"
  BY CallsPastLast, AsRunKept DEF Calling, Executing, Current, Going, Running

LEMMA CallKeepsPromise ==
  ASSUME NoLoops, OnTrace, OnTrace', PromiseKept, HHostCall
  PROVE  Promise!Invoke
  <1>1. HostCall /\ Record /\ Going
    BY CallIsGoing DEF HHostCall, HostCall
  <1> DEFINE w == vm.env[Current.src]  r == Number(Served(w) + 1)
  <1>2. /\ Current.op = "call" /\ guest' = Serve(w) /\ vm' = Assign(vm, Current.dst, r)
        /\ count' = count /\ names' = names
    BY <1>1 DEF HostCall, Calling, Executing, Current
  <1>3. /\ Task.busy /\ Task.m = From(vm, Skipped) /\ Task.m.env = vm.env
        /\ Task.m.pc \in DOMAIN Task.code /\ Task.code[Task.m.pc] = Current
        /\ IsVM(vm) /\ Skipped \in Nat
        /\ UNCHANGED <<script, ran, KeptBindings, KeptNames(path[last + 1].n)>>
    BY <1>1, TaskGoesOn
  <1>4. Promise!Instruction = Current /\ Promise!Doing("call")
    BY <1>2, <1>3 DEF Promise!Instruction, Promise!Doing
  <1>5. Promise!Served(w) = Served(w) /\ Promise!Serve(w) = Serve(w)
    BY SameServe
  <1>6. Task' = [Task EXCEPT !.m = Promise!Assign(Task.m, Current.dst, r)]
    <2>1. KeptNames(count)' = KeptNames(count)
      BY <1>2 DEF KeptNames
    <2>2. Promise!Assign(Task.m, Current.dst, r) = From(vm', Skipped)
      BY <1>2, <1>3, SameAssign
    <2> QED BY <1>1, <2>1, <2>2, TaskGoesOn
  <1>7. Promise!Number(Promise!Served(w) + 1) = r
    BY <1>5 DEF Promise!Number, Number
  <1>8. Task.m.env[Promise!Instruction.src] = w
    BY <1>3, <1>4
  <1> HIDE DEF w, r
  <1> QED BY <1>2, <1>3, <1>4, <1>5, <1>6, <1>7, <1>8 DEF Promise!Invoke

(***************************************************************************)
(* A call answered from the cache, when everything runs again.             *)
(***************************************************************************)
LEMMA CacheKeepsPromise ==
  ASSUME NoLoops, OnTrace, OnTrace', PromiseKept, HCachedCall, Going
  PROVE  Promise!Recall
  <1>1. CachedCall /\ Record
    BY DEF HCachedCall
  <1> PICK at : at = vm.pc
    OBVIOUS
  <1>2. /\ Current.op = "call" /\ at \in DOMAIN results /\ at <= last
        /\ vm' = Assign(vm, Current.dst, results[at])
        /\ count' = count /\ names' = names /\ guest' = guest
    BY <1>1 DEF CachedCall, Cached, Executing, Current
  <1>3. /\ Task.busy /\ Task.m = From(vm, Skipped) /\ Task.again = Again
        /\ Task.m.pc \in DOMAIN Task.code /\ Task.code[Task.m.pc] = Current
        /\ IsVM(vm) /\ Skipped \in Nat
        /\ UNCHANGED <<script, ran, KeptBindings, KeptNames(path[last + 1].n)>>
    BY <1>1, TaskGoesOn
  <1>4. Promise!Instruction = Current /\ Promise!Doing("call")
    BY <1>2, <1>3 DEF Promise!Instruction, Promise!Doing
  <1>5. Task.again = TRUE
    <2>1. last \in Nat /\ at \in Nat
      BY <1>3 DEF OnTrace, TypeOK, IsVM
    <2>2. ~ AsRun
      BY <1>2, <2>1 DEF Going
    <2> QED BY <1>3, <2>2 DEF Again
  <1>6. Task' = [Task EXCEPT !.m = Promise!Assign(Task.m, Current.dst, results[at])]
    <2>1. KeptNames(count)' = KeptNames(count)
      BY <1>2 DEF KeptNames
    <2>2. Promise!Assign(Task.m, Current.dst, results[at]) = From(vm', Skipped)
      BY <1>2, <1>3, SameAssign
    <2> QED BY <1>1, <2>1, <2>2, TaskGoesOn
  <1>7. PICK w \in DOMAIN guest : \E n \in 1..guest[w] : results[at] = Number(n)
    BY <1>2 DEF PromiseKept, WasAnswered
  <1>8. PICK n \in 1..guest[w] : results[at] = Number(n)
    BY <1>7
  <1>9. Promise!Number(n) = Number(n)
    BY DEF Promise!Number, Number
  <1>10. Task' = [Task EXCEPT !.m = Promise!Assign(Task.m, Promise!Instruction.dst, Promise!Number(n))]
    BY <1>4, <1>6, <1>8, <1>9
  <1>11. UNCHANGED <<script, ran, KeptBindings, KeptNames(path[last + 1].n), guest>>
    BY <1>2, <1>3
  <1> QED BY <1>4, <1>5, <1>7, <1>8, <1>10, <1>11, Zenon DEF Promise!Recall

(***************************************************************************)
(* How a line ends.                                                        *)
(***************************************************************************)
LEMMA IdleNext == ASSUME ~ Running' PROVE Task' = NoTask /\ Task' = Promise!Idle
  <1>1. (~ Running => Task = NoTask /\ Task = Promise!Idle)'
    BY IdleTask, PTL
  <1>2. NoTask' = NoTask /\ (Promise!Idle)' = Promise!Idle
    BY DEF NoTask, Promise!Idle, StartVM, Promise!StartVM
  <1> QED BY <1>1, <1>2

\* The call of the promise is that of the session.
LEMMA CallInHand ==
  ASSUME OnTrace, Calling
  PROVE  /\ Promise!Doing("call") /\ Promise!Instruction = Current /\ Task.m.env = vm.env
         /\ \A w : Promise!Serve(w) = Serve(w)
  <1>1. Going /\ vm.pc \in DOMAIN bytecode /\ Current.op = "call"
    BY CallIsGoing
  <1>2. /\ Task = [code |-> Rest, m |-> From(vm, Skipped), owned |-> KeptNames(count),
                   busy |-> TRUE, again |-> Again]
        /\ From(vm, Skipped).pc = vm.pc - Skipped /\ From(vm, Skipped).env = vm.env
        /\ vm.pc - Skipped \in DOMAIN Rest /\ Rest[vm.pc - Skipped] = Current
    BY <1>1, TaskGoing
  <1>3. Task.m.pc \in DOMAIN Task.code /\ Task.code[Task.m.pc] = Current /\ Task.m.env = vm.env /\ Task.busy
    BY <1>2
  <1> QED BY <1>1, <1>3, SameServe DEF Promise!Doing, Promise!Instruction

LEMMA ErrorAborts ==
  ASSUME OnTrace, HRuntimeError \/ HHostError
  PROVE  Promise!Abort
  <1>1. /\ Running /\ ~ Running' /\ UNCHANGED <<last, names, ran, path>>
        /\ script' = SubSeq(script, 1, Len(script) - 1)
    BY DEF HRuntimeError, HHostError, RuntimeError, HostError, Calling, Executing, Fail, Pop,
           Forget, Running
  <1>2. Task.busy /\ Task' = Promise!Idle
    BY <1>1, IdleNext DEF Task, Continued, RunAgain
  <1>3. guest' = guest \/ (Promise!Doing("call") /\ guest' = Promise!Serve(Task.m.env[Promise!Instruction.src]))
    <2>1. CASE HRuntimeError
      BY <2>1 DEF HRuntimeError, RuntimeError
    <2>2. CASE HHostError
      <3>1. Calling /\ guest' \in {guest, Serve(vm.env[Current.src])}
        BY <2>2 DEF HHostError, HostError
      <3> QED BY <3>1, CallInHand
    <2> QED BY <2>1, <2>2
  <1>4. KeptBindings' = KeptBindings /\ KeptNames(path[last + 1].n)' = KeptNames(path[last + 1].n)
    BY <1>1, StillKeeps DEF Held
  <1> QED BY <1>1, <1>2, <1>3, <1>4 DEF Promise!Abort

(***************************************************************************)
(* A line that is dropped stays at the end of the script.                  *)
(***************************************************************************)
LEMMA CancelDrops ==
  ASSUME OnTrace, HCancel
  PROVE  Promise!Drop
  <1>1. /\ ~ Running' /\ UNCHANGED <<script, last, names, ran, path>>
        /\ Calling /\ guest' \in {guest, Serve(vm.env[Current.src])}
    BY DEF HCancel, Cancel, Forget, Running
  <1>2. KeptBindings' = KeptBindings /\ KeptNames(path[last + 1].n)' = KeptNames(path[last + 1].n)
    BY <1>1, StillKeeps DEF Held
  <1>3. Promise!Doing("call") /\ guest' \in {guest, Promise!Serve(Task.m.env[Promise!Instruction.src])}
    BY <1>1, CallInHand
  <1> QED BY <1>1, <1>2, <1>3, IdleNext DEF Promise!Drop

LEMMA FinishCommits ==
  ASSUME OnTrace, PromiseKept, HFinish
  PROVE  Promise!Commit
  <1>1. /\ Running /\ ~ Running' /\ vm.pc = Len(bytecode) + 1 /\ last' = Len(bytecode)
        /\ UNCHANGED <<script, names, guest>> /\ ran' = bytecode /\ path' = trace
    BY DEF HFinish, Finish, Running
  <1>2. Len(bytecode) \in Nat /\ Snapshot = trace[vm.pc] /\ bytecode = Program(script)
    BY <1>1 DEF OnTrace, OnPath, TypeOK, PromiseKept
  <1>3. Going
    <2>1. AsRun => last <= Len(bytecode) /\ last \in Nat
      BY AsRunKept
    <2> QED BY <1>1, <1>2, <2>1 DEF Going
  <1>4. /\ Task = [code |-> Rest, m |-> From(vm, Skipped), owned |-> KeptNames(count),
                   busy |-> TRUE, again |-> Again]
        /\ From(vm, Skipped).pc = vm.pc - Skipped /\ From(vm, Skipped).env = vm.env
        /\ Len(Rest) = Len(bytecode) - Skipped /\ Skipped \in Nat
    BY <1>3, TaskGoing
  <1>5. Task.busy /\ Task.m.pc = Len(Task.code) + 1 /\ Task.m.env = vm.env /\ Task.owned = KeptNames(count)
    BY <1>1, <1>2, <1>4
  <1>6. path'[last' + 1].m = vm /\ path'[last' + 1].n = count
    BY <1>1, <1>2 DEF Snapshot
  <1>7. KeptBindings' = vm.env /\ KeptNames(path[last + 1].n)' = KeptNames(count)
    BY <1>1, <1>6 DEF KeptBindings, KeptNames
  <1>8. ran' = Promise!Compilation(script)
    BY <1>1, <1>2 DEF Promise!Compilation, Program
  <1>9. Task' = Promise!Idle
    BY <1>1, IdleNext
  <1> QED BY <1>1, <1>5, <1>7, <1>8, <1>9 DEF Promise!Commit

LEMMA ClearClears ==
  ASSUME HClear
  PROVE  Promise!Clear
  <1>1. /\ ~ Running /\ ~ Running' /\ last' = 0 /\ path' = Fresh /\ ran' = <<>>
        /\ script' = <<>> /\ guest' = guest
    BY DEF HClear, Clear, Running
  <1>2. Task = NoTask /\ Task' = NoTask /\ ~ Task.busy
    BY <1>1, IdleTask, IdleNext DEF NoTask
  <1>3. path'[last' + 1].m = StartVM /\ path'[last' + 1].n = 0
    BY <1>1 DEF Fresh, FirstSnapshot
  <1>4. KeptBindings' = StartVM.env /\ KeptNames(path[last + 1].n)' = {}
    BY <1>3 DEF KeptBindings, KeptNames
  <1> QED BY <1>1, <1>2, <1>4, SameStart DEF Promise!Clear

LEMMA InitPromised == HInit => Promise!Init
  <1> SUFFICES ASSUME HInit PROVE Promise!Init
    OBVIOUS
  <1>1. /\ path[last + 1].m = StartVM /\ path[last + 1].n = 0 /\ ~ Running /\ guest = EmptyMap
        /\ script = <<>> /\ ran = <<>>
    BY DEF HInit, Init, Fresh, FirstSnapshot, Running
  <1>2. KeptBindings = Promise!StartVM.env /\ KeptNames(path[last + 1].n) = {}
    BY <1>1, SameStart DEF KeptBindings, KeptNames
  <1>3. Task = Promise!Idle
    BY <1>1, IdleTask
  <1>4. Promise!EmptyMap = EmptyMap
    BY DEF Promise!EmptyMap, EmptyMap
  <1> QED BY <1>1, <1>2, <1>3, <1>4 DEF Promise!Init

LEMMA StepPromised ==
  ASSUME NoLoops, OnTrace, OnTrace', PromiseKept, PromiseKept', [HNext]_hvars
  PROVE  [Promise!Next]_(Promise!pvars)
  <1> DEFINE Same == UNCHANGED <<script, ran, KeptBindings, Held, Task, guest>>
  <1>0. Same => UNCHANGED Promise!pvars
    BY DEF Promise!pvars, Held
  <1>1. ASSUME UNCHANGED <<script, bytecode, last, names, phase, vm, guest, ran, path>>,
               count' = count \/ ~ Running
        PROVE  Same
    BY <1>1 DEF Held, KeptNames, Task, Continued, RunAgain, AsRun, KeptBindings, Running, StartVM
  <1>2. CASE UNCHANGED hvars
    BY <1>0, <1>1, <1>2 DEF hvars
  <1>3. ASSUME NEW l \in Lines, HReject(l)  PROVE Same
    BY <1>1, <1>3 DEF HReject, Reject, Running
  <1>4. ASSUME NEW l \in Lines, HStart(l)  PROVE Promise!Next
    BY <1>4, StartBegins DEF Promise!Next
  <1>5. ASSUME HCompute \/ HGenerateName \/ HCachedCall \/ HHostCall  PROVE Promise!Next \/ Same
    <2>1. vm.pc \in Nat /\ last \in Nat
      <3>1. TypeOK
        BY DEF OnTrace
      <3> QED BY <3>1 DEF TypeOK, IsVM
    <2> (Compute \/ GenerateName \/ CachedCall \/ HostCall) /\ Record
      BY <1>5 DEF HCompute, HGenerateName, HCachedCall, HHostCall
    <2>4. Running
      BY GoesOnBare
    <2>2. CASE AsRun /\ vm.pc <= last
      BY <2>2, ReplayStutters
    <2>3. CASE ~ (AsRun /\ vm.pc <= last)
      <3>1. Going
        BY <2>1, <2>3, <2>4 DEF Going
      <3> QED BY <1>5, <3>1, ComputeKeepsPromise, NameKeepsPromise, CallKeepsPromise,
                 CacheKeepsPromise DEF Promise!Next
    <2> QED BY <2>2, <2>3
  <1>6. CASE HRuntimeError \/ HHostError
    BY <1>6, ErrorAborts DEF Promise!Next
  <1>7. CASE HFinish
    BY <1>7, FinishCommits DEF Promise!Next
  <1>8. CASE HClear
    BY <1>8, ClearClears DEF Promise!Next
  <1>9. CASE HCancel
    BY <1>9, CancelDrops DEF Promise!Next
  <1> QED BY <1>0, <1>2, <1>3, <1>4, <1>5, <1>6, <1>7, <1>8, <1>9 DEF HNext, HStep

(***************************************************************************)
(* The session keeps its promise: whatever lines without loops are typed,  *)
(* refused, committed, failed, dropped or cleared, and whatever code the   *)
(* compiler makes of them.  As long as the lines compile to what they ran  *)
(* as, replaying them from the cache is, for the user and for the workers, *)
(* keeping what they bound, and the dropped ones, which are not in the     *)
(* cache, run again before the next line; when they do not, everything     *)
(* runs again, and no call is answered by what no worker answered.         *)
(***************************************************************************)
THEOREM SessionKeepsItsPromise ==
  ASSUME NoLoops
  PROVE  HSpec => KeepsItsPromise
  <1>1. LoopFree
    BY DEF NoLoops
  <1>2. OnTrace /\ OnTrace' /\ PromiseKept /\ [HNext]_hvars => PromiseKept'
    BY NextPromiseKept
  <1>3. OnTrace /\ OnTrace' /\ PromiseKept /\ PromiseKept' /\ [HNext]_hvars
          => [Promise!Next]_(Promise!pvars)
    BY StepPromised
  <1> QED BY SessionOnTrace, InitPromiseKept, InitPromised, <1>1, <1>2, <1>3, PTL
         DEF HSpec, KeepsItsPromise, Promise!Spec

=============================================================================
