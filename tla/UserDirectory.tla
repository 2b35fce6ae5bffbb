--------------------------- MODULE UserDirectory ---------------------------
(***************************************************************************)
(* What the users table of database/db.c is for: a name is given a number  *)
(* once, nobody else ever has that number, and it is told to whoever asks. *)
(***************************************************************************)
EXTENDS Naturals

CONSTANT Names

VARIABLES
    directory,  \* the rows: names with their numbers
    granted     \* the pairs that were told to somebody

Init ==
    /\ directory = {}
    /\ granted = {}

Register ==
    \E new \in directory' \ directory :
        /\ new.name \in Names /\ new.id \in Nat
        /\ \A row \in directory : row.name # new.name /\ row.id # new.id
        /\ directory' = directory \cup {new}
        /\ UNCHANGED granted

Grant ==
    \E row \in directory :
        /\ granted' = granted \cup {row}
        /\ UNCHANGED directory

Next == Register \/ Grant

Spec == Init /\ [][Next]_<<directory, granted>>
=============================================================================
