----------------------------- MODULE MCStartup -----------------------------
(* A machine with one device of three modes.                               *)
EXTENDS Startup

OneDevice == [d \in {0} |-> 3]
One1024 == [d \in {0} |-> {}]
LastMode == {[d \in {0} |-> 2]}

\* 's', which no menu offers, and a mode that is not the default.
SomeKeys == {LetterS, 1}
=============================================================================
