------------------------------- MODULE MCNames -------------------------------
(* An instance of Names: a lamp in a socket, a child device of a board.        *)
EXTENDS Names, TLC

MCContents ==
    (Entities :> {("lamp" :> [name |-> "Lamp", device |-> "socket", area |-> area]) : area \in {"", "attic"}}) @@
    (Devices :> {("socket" :> [name |-> "Socket", byUser |-> user, area |-> "", parent |-> "board"]) @@
                 ("board" :> [name |-> "Board", byUser |-> "", area |-> "hall", parent |-> ""]) :
                     user \in {"", "Plug"}}) @@
    (Areas :> {("hall" :> "Hall") @@ ("attic" :> name) : name \in {"Attic", "Loft"}})

=============================================================================
