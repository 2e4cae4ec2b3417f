------------------------------ MODULE MCLifter ------------------------------
(***************************************************************************)
(* Instances of Lifter: every program over a few addresses.  Instructions  *)
(* are one address long and the address after the last one is not mapped.  *)
(***************************************************************************)
EXTENDS Lifter

CONSTANTS Last,        \* the last mapped address
          Simple,      \* categories without an operand
          Targeted,    \* categories with a target address
          Symbols,     \* addresses that may have a symbol
          UserEntries, \* addresses that may be given with --other_entry...
          MaxUser,     \* ...and at most how many of them
          Modes        \* the modes of the run

MCAddress == 1 .. Last + 1
MCMapped == 1 .. Last

\* The targets of instructions without an operand do not matter.
InstructionsAt(a, simple, targeted) ==
    [category : simple, branch_taken_pc : {a}, next_pc : {a + 1}]
        \cup [category : targeted, branch_taken_pc : MCAddress, next_pc : {a + 1}]

Images(instructions(_)) ==
    {image \in [MCMapped -> UNION {instructions(a) : a \in MCMapped}] :
        \A a \in MCMapped : image[a] \in instructions(a)}

UserLists(entries, n) == UNION {[1 .. i -> entries] : i \in 0 .. n}

\* All programs of the categories of the run.
AllInputs ==
    [image   : Images(LAMBDA a : InstructionsAt(a, Simple, Targeted)),
     visible : SUBSET Symbols, mode : Modes, user : UserLists(UserEntries, MaxUser)]

\* All categories, before a return at the last address, and two user entry
\* points, which may be the same.
KindInputs ==
    [image   : Images(LAMBDA a : IF a = Last THEN InstructionsAt(a, {"return"}, {})
                                 ELSE InstructionsAt(a, Category \ Targeted, Targeted)),
     visible : SUBSET Symbols, mode : Modes, user : UserLists(MCMapped, 2)]

BothInputs == AllInputs \cup KindInputs
=============================================================================
