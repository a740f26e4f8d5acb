---------------------------- MODULE MCCauldron ----------------------------
(* Codes that are right up to some rune, or from one on, codes that are no *)
(* mixture, and the recipe itself, also behind a line too long, or with a  *)
(* \r or a NUL in it.                                                      *)
EXTENDS Cauldron

z == 122
MCLines ==
    { Recipe, <<98, 52, 108, 97, 110, z>>, <<98, 52, 108, z, z, z>>, <<z, z, z, 97, 110, 99>>,
      <<97, 52, 108, 97, 110, 99>>, <<z, z, z, z, z, 99>>, <<z, z, z, z, z, z>>,
      <<>>, <<98, 52, 108, 97, 110>>, <<98, 52, 108, 97, 110, 67>>,
      Recipe \o <<13, z>>, <<98, 13>> \o Recipe, <<98, 52, 0, 97, 110, 99>>,
      [i \in 1 .. Room |-> z], [i \in 1 .. Room |-> z] \o Recipe }
===========================================================================
