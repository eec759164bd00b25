------------------------------ MODULE MCScanner ------------------------------
(***************************************************************************)
(* The motions for model checking the Scanner and its application: the     *)
(* symmetries of a triangle, the smallest group in which the order of two  *)
(* motions matters.                                                        *)
(***************************************************************************)
EXTENDS ScannerApp

Corners == 1 .. 3

Motions == {f \in [Corners -> Corners] :
              \A i, j \in Corners : i # j => f[i] # f[j]}

Compose(p, q) == [i \in Corners |-> p[q[i]]]
Back(p)       == [i \in Corners |-> CHOOSE j \in Corners : p[j] = i]
Rest          == [i \in Corners |-> i]

\* A camera that does not move is tracked, but not integrated.
AtRest == {Rest}

\* Three levels, of which the coarsest has no iterations, as in the defaults.
Iterations == <<2, 1>>
=============================================================================
