------------------------------ MODULE MCChannels ------------------------------
(* Channels with games that each use some modules of one channel.          *)
EXTENDS Channels

Game(number, colour, parts) == [channel |-> number, cgb |-> colour, uses |-> parts]

AllGames ==
  {Game(n, FALSE, {"length", "power"}) : n \in 1 .. 4}
  \cup {Game(4, TRUE, {"length", "power"}),
        Game(1, TRUE, {"sweep"}), Game(1, TRUE, {"envelope"}),
        Game(2, TRUE, {"envelope", "power"}), Game(4, FALSE, {"envelope"})}
=============================================================================
