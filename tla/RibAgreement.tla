---------------------------- MODULE RibAgreement ----------------------------
(***************************************************************************)
(* What a program does, against the meaning of its expression in the       *)
(* language guide.                                                         *)
(***************************************************************************)
EXTENDS RibPipeline

Guide == INSTANCE RibMeaning WITH Value <- Answer, Name <- NewName

HostFailed == outcome = <<"error", "host">>

\* The run agrees with m, what the guide makes of the program.
AgreesWith(m) ==
  IF HostFailed
  THEN Len(calls) <= Len(m.calls) /\ calls = SubSeq(m.calls, 1, Len(calls))
  ELSE /\ outcome = IF m.err = <<>> THEN <<"value", m.v>> ELSE <<"error", m.err[1]>>
       /\ calls = m.calls

(***************************************************************************)
(* A program that runs to the end has the value the guide gives it, or the *)
(* error, and has made the calls the guide makes, in that order and no     *)
(* other; one that the host stopped has made the first of them.            *)
(***************************************************************************)
AgreesWithGuide ==
  outcome # Running => AgreesWith(Guide!Eval(source, Guide!Given(input)))

===============================================================================
