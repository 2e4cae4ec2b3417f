---------------------------- MODULE MCRemoveUndef ---------------------------
(***************************************************************************)
(* Instances of RemoveUndef: statements that assign, from undef or from a  *)
(* value, and the AstContext's reference to undef.                         *)
(***************************************************************************)
EXTENDS RemoveUndef

CONSTANTS value, reference

MCExpr == Assignment \cup {undef, value}
MCHolder == Statement \cup {reference}
MCSlot == (Assignment \X {"target", "source"}) \cup (MCHolder \X {"use"})
MCUserOf == [u \in MCSlot |-> u[1]]
MCSource == [a \in Assignment |-> <<a, "source">>]

MCContext == <<reference, "use">>

\* The context refers to undef, the statements to assignments, and these to
\* undef or a value.
MCFits ==
    [u \in MCSlot |-> CASE u[1] = reference -> {undef}
                        [] u[1] \in Statement -> Assignment
                        [] u[1] \in Assignment -> {undef, value}]

=============================================================================
