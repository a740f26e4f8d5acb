----------------------------- MODULE MCJourney -----------------------------
(* Two clients, one of them silent; the bear as strong as in the code. *)
EXTENDS Journey

MCRandomValues == {-1, 7, 11}
MCHp == [mage |-> 10, spirit |-> 16, fighter |-> 8, brawler |-> 12, hero |-> 14,
         bear |-> 120, healed |-> 100]
============================================================================
