-------------------------------- MODULE MCRepl --------------------------------
(***************************************************************************)
(* Instances of the REPL session for TLC.  The lines are named by strings: *)
(*   "x", "y"  let x = instance() / let y = instance()                     *)
(*   "s"       let x = instance("shared")                                  *)
(*   "a", "b"  let a = x.increment-and-get() / let b = y.increment-and-get()    *)
(*   "n"       let a = 3 / 2                                               *)
(*   "big"     let a = 200 + 100                                           *)
(*   "if"      let b = if a == 1 then 7 else x.increment-and-get()         *)
(*   "f64"     let b = x.scale(a), whose parameter is an f64               *)
(*   "u8"      let b = x.count(a), whose parameter is a u8                 *)
(*   "bad"     { let y = instance(); let b = y.increment-and-get(); ... }  *)
(*             where what follows fails at run time                        *)
(*   "for"     let b = for i in 0..2 { let a = x.increment-and-get();      *)
(*                                     yield a }                           *)
(*   "loop"    let b = for i in 0..2 { let b = 7; yield b }                *)
(*   "c"       let a = 1 // one                                            *)
(*   "typo"    does not parse;  "ill" does not type check                  *)
(***************************************************************************)
EXTENDS ReplReplay, SequencesExt

MCVars == {"x", "y", "a", "b"}

(***************************************************************************)
(* The type of a let is that which the calls state that use its variable,  *)
(* up to the next let of the same name; numbers are s32 if none states     *)
(* any.  Two types that are stated of one let contradict each other.       *)
(***************************************************************************)
LetsOfA == {"a", "n", "big", "c"}

\* The free uses of a, before its first let, are those of a let 0.
Lets(s) == {0} \cup {i \in DOMAIN s : s[i] \in LetsOfA}

Scope(s, i) == {j \in (i + 1)..Len(s) : \A k \in (i + 1)..(j - 1) : s[k] \notin LetsOfA}

TypesOf(s, i) ==
  {s[j] : j \in {k \in Scope(s, i) : s[k] \in {"f64", "u8"}}}
    \cup (IF i \in DOMAIN s /\ s[i] = "a" THEN {"u64"} ELSE {})

TypeOf(s, i) == IF TypesOf(s, i) = {} THEN "s32" ELSE CHOOSE t \in TypesOf(s, i) : TRUE

LetOf(s, j) == CHOOSE i \in Lets(s) : j \in Scope(s, i)

(***************************************************************************)
(* A method is called on a variable that an earlier line binds to an       *)
(* instance.                                                               *)
(***************************************************************************)
CallsX == {"a", "if", "for", "f64", "u8"}

HasInstance(s, j) ==
  /\ s[j] \in CallsX => \E i \in 1..(j - 1) : s[i] \in {"x", "s"}
  /\ s[j] = "b" => \E i \in 1..(j - 1) : s[i] = "y"

Refused(s) ==
  \/ \E j \in DOMAIN s : s[j] = "ill" \/ ~ HasInstance(s, j)
  \/ \E i \in Lets(s) : \E t, u \in TypesOf(s, i) : t # u

(***************************************************************************)
(* The code of a line within a script.  A number that is not the result of *)
(* a call is of the type of its let, and counted in halves: 3 / 2 is 1 as  *)
(* an integer and 1.5 as an f64.  The sum of 200 and 100 is no u8.         *)
(***************************************************************************)
Halves(t, n) == IF t = "u64" THEN Number(n \div 2) ELSE <<t, n>>

CodeOf(s, i) ==
  CASE s[i] = "x"    -> <<Instance("x")>>
    [] s[i] = "y"    -> <<Instance("y")>>
    [] s[i] = "s"    -> <<Const("x", Named("shared"))>>
    [] s[i] = "a"    -> <<Call("a", "x")>>
    [] s[i] = "b"    -> <<Call("b", "y")>>
    [] s[i] = "n"    -> <<Const("a", Halves(TypeOf(s, i), IF TypeOf(s, i) = "f64" THEN 3 ELSE 2))>>
    [] s[i] = "big"  -> IF TypeOf(s, i) = "u8" THEN <<Throw>> ELSE <<Const("a", Halves(TypeOf(s, i), 600))>>
    [] s[i] = "c"    -> <<Const("a", Halves(TypeOf(s, i), 2))>>
    [] s[i] = "if"   -> <<Unless("a", Halves(TypeOf(s, LetOf(s, i)), 2), 3), Const("b", Number(7)), Goto(2),
                          Call("b", "x")>>
    [] s[i] \in {"f64", "u8"} -> <<Unless("a", Unbound, 1), Call("b", "x")>>
    [] s[i] = "bad"  -> <<Instance("y"), Call("b", "y"), Throw>>
    [] s[i] = "for"  -> <<Iterate(2), NextItem(4), Call("a", "x"), PushItem("a"), Goto(-3), Collect("b")>>
    [] s[i] = "loop" -> <<Iterate(2), NextItem(4), Const("b", Number(7)), PushItem("b"), Goto(-3), Collect("b")>>
    [] OTHER         -> <<>>

MCCompiled(s) == IF Refused(s) THEN <<>> ELSE <<FlattenSeq([i \in DOMAIN s |-> CodeOf(s, i)])>>

=============================================================================
