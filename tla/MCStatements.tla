----------------------------- MODULE MCStatements -----------------------------
(* Types for model-checking Statements: a composite whose field is of a type of *)
(* its own, and callers that are alike.                                         *)
EXTENDS Statements, TLC

MCOids == {"pair", "num"}
MCKind == [o \in MCOids |-> IF o = "pair" THEN "composite" ELSE "simple"]
MCParts == [o \in MCOids |-> IF o = "pair" THEN <<"num">> ELSE <<>>]
MCColumns == {<<"pair">>}
NoColumns == {<<>>}
MCSymmetry == Permutations(Callers)
=============================================================================
