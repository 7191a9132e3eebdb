------------------------------ MODULE MCRooms ------------------------------
(* An instance of Rooms: interchangeable requests and passwords.  Where      *)
(* clients join or time passes there are two REST requests; where no time    *)
(* passes nobody joins late.                                                 *)
EXTENDS Rooms, TLC

Symmetry == Permutations(Requests) \cup Permutations(Passwords)

Begins(r) == th[r] = Home /\ th'[r] # Home
Joins(c) == joining[c] = Home /\ joining'[c] # Home

Within ==
  /\ {"join", "time"} \cap scenario # {} =>
       rooms' <= 2 /\ \A r \in Requests : Begins(r) => requests < 2
  /\ "time" \notin scenario => \A c \in Clients : Joins(c) => requests < 3

EntrySpec == Init /\ [][Next /\ Within]_vars
=============================================================================
