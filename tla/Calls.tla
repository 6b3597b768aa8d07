------------------------------- MODULE Calls -------------------------------
(* A call of a function without state and its answer: a behaviour makes one  *)
(* call.  Modules that check such functions share the two variables; the     *)
(* field "of" of a call says whose it is.                                    *)
CONSTANT Pending
VARIABLES call, result
callVars == <<call, result>>

\* The calls of one function, from the set of its arguments.
Calling(of, arguments) == call \in [of : {of}, with : arguments] /\ result = Pending
Answering(of, answer) == result = Pending /\ call.of = of /\ result' = answer /\ UNCHANGED call
Answered(of) == result # Pending /\ call.of = of
=============================================================================
