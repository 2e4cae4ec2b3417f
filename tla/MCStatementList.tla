--------------------------- MODULE MCStatementList --------------------------
(***************************************************************************)
(* Instances of StatementList: an if-else statement with two bodies, a     *)
(* loop with one, plain statements and a StatementReference.               *)
(***************************************************************************)
EXTENDS StatementList, TLC

CONSTANTS ifElse, loop, Plain,                      \* statements
          ifBody, elseBody, loopBody, reference     \* lists

MCStatement == {ifElse, loop} \cup Plain
MCList == {ifBody, elseBody, loopBody, reference}
MCOwner == ifBody :> ifElse @@ elseBody :> ifElse @@ loopBody :> loop @@ reference :> None
=============================================================================
