---------------------------- MODULE MCSerialLink ----------------------------
(* SerialLink for TLC.  The two games start transfers, A's with its own     *)
(* clock and B's with the other's; on a lossy network they leave SC alone,  *)
(* for nothing said of it depends on SC.  The consoles begin with equal     *)
(* numbers or, where nothing is lost, with numbers two apart.               *)
EXTENDS SerialLink

StartSC == [n \in Node |-> {[clock |-> n = A, start |-> TRUE]}]

Networks == {FALSE, TRUE}
Writes   == [l \in Networks |-> IF l THEN [n \in Node |-> {}] ELSE StartSC]
RoundsOf == [l \in Networks |-> IF l THEN 2 ELSE 3]

Equal == [n \in Node |-> 3]
Far   == [n \in Node |-> IF n = A THEN 3 ELSE 0]
StartsOf == [l \in Networks |-> {Equal} \cup (IF l THEN {} ELSE {Far})]

Lossless       == {FALSE}
LosslessWrites == [l \in Lossless |-> StartSC]
LosslessStarts == [l \in Lossless |-> {Equal}]
LosslessRounds == [l \in Lossless |-> 2]
=============================================================================
