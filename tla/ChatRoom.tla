------------------------------ MODULE ChatRoom ------------------------------
(***************************************************************************)
(* What server/server.c is for: one room, in which everyone hears all that *)
(* happens while they are there, each thing once and everyone in the same  *)
(* order.  There are no slots, sockets, rings or events here: a member is  *)
(* a connection with an id, a name and the packets it was sent.            *)
(*                                                                         *)
(* In every step members may fall out without a word, as the server may    *)
(* lose anybody; whoever is not in the room any more never returns on the  *)
(* same connection.                                                        *)
(***************************************************************************)
EXTENDS Naturals, Sequences

VARIABLES
    room,       \* connection in the room -> id, name, and packets heard
    messages,   \* the ids of the authors of all messages, in order
    gone        \* connections that cannot come back

Members == DOMAIN room

Packet(t, id, n) == [type |-> t, sender |-> id, row |-> n]

\* Member c once it heard p.
Hears(c, p) == [room[c] EXCEPT !.heard = Append(@, p)]

\* Of those who stay, the members A heard p and the others nothing.
Told(A, p) == [c \in Members' |-> IF c \in A THEN Hears(c, p) ELSE room[c]]

Init ==
    /\ room = <<>>
    /\ messages = <<>>
    /\ gone = {}

\* Some are told of an error of theirs, which is nobody else's business.
Complain ==
    /\ Members' \subseteq Members
    /\ \E A \in SUBSET Members : room' = Told(A, Packet("ERROR", 0, 0))
    /\ UNCHANGED messages

Say ==
    \E c \in Members :
        /\ messages' = Append(messages, room[c].id)
        /\ Members' \subseteq Members
        /\ room' = Told(Members, Packet("TEXT", room[c].id, Len(messages')))

Leave ==
    \E c \in Members :
        /\ Members' \subseteq Members \ {c}
        /\ room' = Told(Members, Packet("LEAVE", room[c].id, 0))
        /\ UNCHANGED messages

\* The newcomer has a name and an id that no member has.
Enter ==
    \E c \in Members' \ (Members \cup gone) :
        LET id   == room'[c].id
            name == room'[c].name
            join == Packet("JOIN", id, 0)
        IN  /\ \A d \in Members : room[d].name # name /\ room[d].id # id
            /\ Members' \subseteq Members \cup {c}
            /\ room' = [d \in Members' |->
                           IF d = c THEN [id |-> id, name |-> name,
                                          heard |-> <<Packet("ACK", id, 0), join>>]
                           ELSE Hears(d, join)]
            /\ UNCHANGED messages

NoReturn == gone \cup (Members \ Members') \subseteq gone'

Next == (Complain \/ Say \/ Leave \/ Enter) /\ NoReturn

Spec == Init /\ [][Next]_<<room, messages, gone>>
=============================================================================
