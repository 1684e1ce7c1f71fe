-------------------------- MODULE MCGraphicsSetup --------------------------
(* Small machines for the graphics set-up.                                 *)
EXTENDS GraphicsSetup

\* Three devices: one with two modes, one with a single mode, one with three.
ThreeMaxModes == <<2, 1, 3>>
ThreeDevices == [d \in Device |-> ThreeMaxModes[d + 1]]
Three1024 == [d \in Device |-> IF d = 2 THEN {1, 2} ELSE {}]
OneDevice == [d \in Device |-> 3]
One1024 == [d \in Device |-> {}]
LastModes == {[d \in Device |-> MaxMode[d] - 1]}

\* An arrow, the dot, and one digit more than any menu of modes offers.
SomeKeys == {NoKey, Dot, 0, 1, 2, 3}
=============================================================================
