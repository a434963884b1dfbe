--------------------------- MODULE MCOmniSessions ---------------------------
(* Instances of OmniSessions for TLC: connections t1 and t2 are turn-based, *)
(* d1 and d2 full duplex.                                                   *)
EXTENDS OmniSessions, TLC

CONSTANTS t1, t2, d1, d2, c1, c2

ModeOf == [h \in Handlers |-> IF h \in {t1, t2} THEN "turn_based" ELSE "full_duplex"]

\* Nothing tells two requests apart.
CloserSymmetry == Permutations(Closers)

=============================================================================
