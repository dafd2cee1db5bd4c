-------------------------------- MODULE MCMmu --------------------------------
(* Mmu on cartridges of each controller, each game using a part of them.   *)
EXTENDS Mmu

Game(type, ramcode, romcode, colour, parts) ==
  [mbc |-> type, ram |-> ramcode, rom |-> romcode, cgb |-> colour, uses |-> parts]

AllGames ==
  {Game(type, 0, code, FALSE, {"rom"}) : type \in {1, 5, 25}, code \in {0, 1, 4, 5}}
  \cup {Game(19, 2, code, FALSE, {"rom"}) : code \in {0, 1, 4}}
  \cup {Game(17, 0, 1, FALSE, {"rom"}), Game(0, 0, 0, FALSE, {"rom"})}
  \cup {Game(type, code, 0, TRUE, {"ram", "power"}) :
          type \in {2, 3, 19, 26, 27, 30}, code \in {2, 3}}
  \cup {Game(type, ramcode, 0, TRUE, {"ram", "state"}) :
          type \in {3, 19, 27}, ramcode \in {2, 3}}
  \cup {Game(6, 0, 0, TRUE, {"ram", "power", "state"}),
        Game(3, 2, 0, TRUE, {"ram", "power", "state"}),
        Game(16, 2, 0, TRUE, {"ram", "power", "state"})}
  \cup {Game(19, 2, 0, FALSE, {"ram", "clock"}),
        Game(19, 2, 0, TRUE, {"ram", "clock"}),
        Game(16, 3, 0, TRUE, {"clock", "latch"}),
        Game(16, 3, 0, TRUE, {"clock", "power"}),
        Game(16, 2, 0, TRUE, {"clock", "latch", "power"})}
  \cup {Game(0, 0, 0, TRUE, {"work", "state", "power"})}
=============================================================================
