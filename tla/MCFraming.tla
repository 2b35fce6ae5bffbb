----------------------------- MODULE MCFraming -----------------------------
(***************************************************************************)
(* Framing for TLC, with three values of a byte.                           *)
(***************************************************************************)
EXTENDS Framing

MCTypes == {1, 2}

Sent(version, type, len) ==
    [version |-> version, type |-> type, sender_id |-> 80 - len, timestamp |-> 28 + len,
     body_len |-> len]

\* What this program sends: no body, and the longest.
MCLegal == {Sent(1, 1, 0), Sent(1, 2, 2)}

\* And what it would not: a wrong version, an unknown type, and a body too
\* long by one.
MCHeaders == MCLegal \cup {Sent(2, 1, 2), Sent(1, 0, 0), Sent(1, 1, 3)}
=============================================================================
