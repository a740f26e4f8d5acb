--------------------------- MODULE JourneyProofs ---------------------------
(***************************************************************************)
(* Theorems about Journey: for any number of clients, any random words and *)
(* any hit points to begin with, a bear of more than 42 excepted.          *)
(***************************************************************************)
EXTENDS Journey, TLAPS

(* Blows *)

\* The n values of the damage begin at base, for negative random words too.
LEMMA DamageBounds ==
    ASSUME NEW r \in Int, NEW n \in {8, 10, 11, 12}, NEW base \in {3, 5}
    PROVE  Damage(r, n, base) \in base .. (base + n - 1)
<1>1. CASE n = 8  BY <1>1 DEF Damage
<1>2. CASE n = 10  BY <1>2 DEF Damage
<1>3. CASE n = 11  BY <1>3 DEF Damage
<1>4. CASE n = 12  BY <1>4 DEF Damage
<1>. QED  BY <1>1, <1>2, <1>3, <1>4

\* A blow takes less than base + n hit points, and none if it misses.
LEMMA BlowBounds ==
    ASSUME NEW h \in Int, NEW n \in {8, 10, 11, 12}, NEW base \in {3, 5},
           NEW v \in Blow(h, n, base)
    PROVE  v \in Int /\ v <= h /\ v > h - (base + n)
BY DamageBounds, RandomAssumption DEF Blow

(* What the operators the scenes are made of do. *)

LEMMA Types ==
    ASSUME TypeOK
    PROVE  /\ at \in [Clients -> Scenes]
           /\ hp \in [Clients -> Int] /\ ehp \in [Clients -> Int] /\ turns \in [Clients -> Nat]
           /\ shown \in [Clients -> SUBSET TextNames] /\ said \in [Clients -> Answers \cup {""}]
BY DEF TypeOK

LEMMA GotoEffect ==
    ASSUME TypeOK, NEW c \in Clients, NEW s \in Scenes, Goto(c, s)
    PROVE  /\ at' \in [Clients -> Scenes] /\ at'[c] = s
           /\ \A d \in Clients \ {c} : at'[d] = at[d]
BY DEF TypeOK, Goto

Among(options, otherwise, S) ==
    otherwise \in S /\ \A n \in DOMAIN options : options[n] \in S

LEMMA ChooseEffect ==
    \A c, options, otherwise, S :
        Among(options, otherwise, S) /\ Choose(c, options, otherwise) => \E s \in S : Goto(c, s)
BY DEF Among, Choose

LEMMA ShowEffect ==
    ASSUME TypeOK, NEW c \in Clients, NEW t \in TextNames, Show(c, t)
    PROVE  /\ shown' \in [Clients -> SUBSET TextNames] /\ shown'[c] = shown[c] \cup {t}
           /\ \A d \in Clients \ {c} : shown'[d] = shown[d]
BY DEF TypeOK, Show

LEMMA EnterEffect ==
    ASSUME TypeOK, NEW c \in Clients, NEW s, NEW mine \in Int, NEW theirs \in Int,
           EnterFight(c, s, mine, theirs)
    PROVE  /\ Goto(c, s)
           /\ hp' \in [Clients -> Int] /\ hp'[c] = mine
           /\ ehp' \in [Clients -> Int] /\ ehp'[c] = theirs
           /\ \A d \in Clients \ {c} : hp'[d] = hp[d] /\ ehp'[d] = ehp[d]
<1>1. hp \in [Clients -> Int] /\ ehp \in [Clients -> Int]
  BY Types
<1>. QED
  BY <1>1 DEF EnterFight

LEMMA StrikeEffect ==
    ASSUME TypeOK, NEW c \in Clients, NEW s, NEW n \in {8, 10, 11, 12}, NEW base \in {3, 5},
           Strike(c, n, base, s)
    PROVE  /\ Goto(c, s)
           /\ ehp' \in [Clients -> Int]
           /\ ehp'[c] <= ehp[c] /\ ehp'[c] > ehp[c] - (base + n)
           /\ \A d \in Clients \ {c} : ehp'[d] = ehp[d]
<1>1. PICK h \in Blow(ehp[c], n, base) : ehp' = [ehp EXCEPT ![c] = h]
  BY DEF Strike
<1>2. ehp[c] \in Int
  BY DEF TypeOK
<1>3. h \in Int /\ h <= ehp[c] /\ h > ehp[c] - (base + n)
  BY <1>2, BlowBounds
<1>. QED
  BY <1>1, <1>3 DEF TypeOK, Strike

LEMMA StruckBackEffect ==
    ASSUME TypeOK, NEW c \in Clients, NEW s, NEW n \in {8, 10, 11, 12}, NEW base \in {3, 5},
           StruckBack(c, n, base, s)
    PROVE  /\ Goto(c, s)
           /\ hp' \in [Clients -> Int]
           /\ hp'[c] <= hp[c] /\ hp'[c] > hp[c] - (base + n)
           /\ \A d \in Clients \ {c} : hp'[d] = hp[d]
<1>1. PICK h \in Blow(hp[c], n, base) : hp' = [hp EXCEPT ![c] = h]
  BY DEF StruckBack
<1>2. hp[c] \in Int
  BY DEF TypeOK
<1>3. h \in Int /\ h <= hp[c] /\ h > hp[c] - (base + n)
  BY <1>2, BlowBounds
<1>. QED
  BY <1>1, <1>3 DEF TypeOK, StruckBack

LEMMA CountEffect ==
    ASSUME TypeOK, NEW c \in Clients, CountTurn(c)
    PROVE  /\ turns' \in [Clients -> Nat] /\ turns'[c] = turns[c] + 1
           /\ \A d \in Clients \ {c} : turns'[d] = turns[d]
<1>1. turns \in [Clients -> Nat]
  BY Types
<1>. QED
  BY <1>1 DEF CountTurn

LEMMA RiddleEffect ==
    ASSUME TypeOK, NEW c \in Clients, NEW right, NEW correct, NEW wrong,
           Riddle(c, right, correct, wrong)
    PROVE  /\ said' \in [Clients -> Answers \cup {""}]
           /\ \A d \in Clients \ {c} : said'[d] = said[d]
           /\ \/ said'[c] = right /\ Goto(c, correct)
              \/ Goto(c, wrong)
<1>1. PICK t \in Texts(c) : /\ said' = [said EXCEPT ![c] = t]
                            /\ Goto(c, IF t = right THEN correct ELSE wrong)
  BY DEF Riddle
<1>2. t \in Answers \cup {""}
  BY DEF Texts
<1>3. (t = right /\ Goto(c, correct)) \/ Goto(c, wrong)
  BY <1>1
<1>. QED
  BY <1>1, <1>2, <1>3 DEF TypeOK

(* Where the choices lead. *)

MenuTargets == MenuScenes \cup
    {"mage_ruins", "mage_study", "warrior_fight", "warrior_forest", "warrior_rest",
     "artificer_riddle", "artificer_tavern", "artificer_city", "bard_lord", "bard_tavern",
     "bard_dawn"}

LEMMA MenuLeads ==
    ASSUME NEW c \in Clients, menu(c)
    PROVE  \E s \in MenuTargets : Goto(c, s)
<1>1. CASE MainMenu(c)
  <2>1. Among(<<"mage_choice", "warrior_choice", "artificer_choice", "bard_choice">>, "main",
              MenuTargets)
    BY DEF Among, MenuTargets, MenuScenes
  <2>. QED  BY ChooseEffect, <1>1, <2>1 DEF MainMenu, Menu
<1>2. CASE MageMenus(c)
  <2>1. /\ Among(<<"mage_ruins", "mage_study", "mage_tavern">>, "mage_choice", MenuTargets)
        /\ Among(<<"mage_study", "mage_ruins">>, "mage_tavern", MenuTargets)
    BY DEF Among, MenuTargets, MenuScenes
  <2>. QED  BY ChooseEffect, <1>2, <2>1 DEF MageMenus, Menu
<1>3. CASE WarriorMenu(c)
  <2>1. Among(<<"warrior_fight", "warrior_peace_choice">>, "warrior_choice", MenuTargets)
    BY DEF Among, MenuTargets, MenuScenes
  <2>. QED  BY ChooseEffect, <1>3, <2>1 DEF WarriorMenu, Menu
<1>4. CASE PeaceMenu(c)
  <2>1. Among(<<"warrior_forest", "warrior_rest">>, "warrior_peace_choice", MenuTargets)
    BY DEF Among, MenuTargets, MenuScenes
  <2>. QED  BY ChooseEffect, <1>4, <2>1 DEF PeaceMenu, Menu
<1>5. CASE ArtificerMenu(c)
  <2>1. Among(<<"artificer_riddle", "artificer_tavern", "artificer_city">>, "artificer_choice",
              MenuTargets)
    BY DEF Among, MenuTargets, MenuScenes
  <2>. QED  BY ChooseEffect, <1>5, <2>1 DEF ArtificerMenu, Menu
<1>6. CASE BardMenus(c)
  <2>1. /\ Among(<<"bard_serenade", "bard_lord", "bard_tavern">>, "bard_choice", MenuTargets)
        /\ Among(<<"bard_lord", "bard_tavern", "bard_dawn">>, "bard_serenade", MenuTargets)
    BY DEF Among, MenuTargets, MenuScenes
  <2>. QED  BY ChooseEffect, <1>6, <2>1 DEF BardMenus, Menu
<1>. QED
  BY <1>1, <1>2, <1>3, <1>4, <1>5, <1>6 DEF menu

LEMMA FightLeads ==
    ASSUME NEW c \in Clients
    PROVE  /\ mage_combat(c) => \/ Goto(c, "mage_spirit_dead") \/ Goto(c, "mage_player_dead")
                                \/ hp[c] > 0 /\ ehp[c] > 0 /\ Goto(c, "mage_spell")
                                \/ Goto(c, "mage_combat")
           /\ warrior_bar_combat(c) => \/ Goto(c, "warrior_bar_win")
                                       \/ Goto(c, "warrior_bar_lose")
                                       \/ hp[c] > 0 /\ ehp[c] > 0 /\ Goto(c, "warrior_attack")
                                       \/ Goto(c, "warrior_bar_combat")
           /\ warrior_bear_combat(c) =>
                  \/ Goto(c, "warrior_bear_die")
                  \/ hp[c] > 0 /\ Goto(c, "warrior_bear_regen")
                  \/ /\ hp[c] > 0 /\ turns[c] < 3
                     /\ \E s \in {"warrior_b_attack", "warrior_b_dodge", "warrior_b_flee"} :
                           Goto(c, s)
                  \/ Goto(c, "warrior_bear_combat")
<1>1. Choose(c, <<"mage_spell", "mage_spell", "mage_spell">>, "mage_combat")
         => \E s \in {"mage_spell", "mage_combat"} : Goto(c, s)
  <2>1. Among(<<"mage_spell", "mage_spell", "mage_spell">>, "mage_combat",
              {"mage_spell", "mage_combat"})
    BY DEF Among
  <2>. QED  BY <2>1, ChooseEffect
<1>2. Choose(c, <<"warrior_attack", "warrior_attack", "warrior_attack">>, "warrior_bar_combat")
         => \E s \in {"warrior_attack", "warrior_bar_combat"} : Goto(c, s)
  <2>1. Among(<<"warrior_attack", "warrior_attack", "warrior_attack">>, "warrior_bar_combat",
              {"warrior_attack", "warrior_bar_combat"})
    BY DEF Among
  <2>. QED  BY <2>1, ChooseEffect
<1>3. Choose(c, <<"warrior_b_attack", "warrior_b_dodge", "warrior_b_attack",
                  "warrior_b_flee">>, "warrior_bear_combat")
         => \E s \in {"warrior_b_attack", "warrior_b_dodge", "warrior_b_flee",
                      "warrior_bear_combat"} : Goto(c, s)
  <2>1. Among(<<"warrior_b_attack", "warrior_b_dodge", "warrior_b_attack",
                "warrior_b_flee">>, "warrior_bear_combat",
              {"warrior_b_attack", "warrior_b_dodge", "warrior_b_flee",
                      "warrior_bear_combat"})
    BY DEF Among
  <2>. QED  BY <2>1, ChooseEffect
<1>. QED
  BY <1>1, <1>2, <1>3 DEF mage_combat, warrior_bar_combat, warrior_bear_combat

LEMMA OtherLeads ==
    ASSUME NEW c \in Clients
    PROVE  /\ mage_correct(c) => \E s \in {"mage_light_end", "mage_dark_end"} : Goto(c, s)
           /\ artificer_tavern(c) => \E s \in {"artificer_riddle", "artificer_rest"} : Goto(c, s)
           /\ artificer_city(c) => \E s \in {"artificer_riddle", "artificer_mug_lose"} : Goto(c, s)
           /\ warrior_b_flee(c) => \E s \in {"warrior_flee_ok", "warrior_bear_turn"} : Goto(c, s)
<1>1. mage_correct(c) => \E s \in {"mage_light_end", "mage_dark_end"} : Goto(c, s)
  <2>1. Among(<<"mage_light_end">>, "mage_dark_end", {"mage_light_end", "mage_dark_end"})
    BY DEF Among
  <2>. QED  BY <2>1, ChooseEffect DEF mage_correct
<1>2. artificer_tavern(c) => \E s \in {"artificer_riddle", "artificer_rest"} : Goto(c, s)
  <2>1. Among(<<"artificer_riddle">>, "artificer_rest",
              {"artificer_riddle", "artificer_rest"})
    BY DEF Among
  <2>. QED  BY <2>1, ChooseEffect DEF artificer_tavern
<1>3. artificer_city(c) => \E s \in {"artificer_riddle", "artificer_mug_lose"} : Goto(c, s)
  BY DEF artificer_city
<1>4. warrior_b_flee(c) => \E s \in {"warrior_flee_ok", "warrior_bear_turn"} : Goto(c, s)
  BY DEF warrior_b_flee
<1>. QED
  BY <1>1, <1>2, <1>3, <1>4

(* Types *)

\* Every scene that a step leads to was written.
LEMMA ScenesKnown ==
    /\ MenuTargets \subseteq Scenes
    /\ {"mage_combat", "mage_spirit_dead", "mage_player_dead", "mage_spell",
        "mage_spirit_turn", "mage_scroll_riddle", "mage_correct", "mage_wrong",
        "mage_light_end", "mage_dark_end"} \subseteq Scenes
    /\ {"warrior_bar_combat", "warrior_bar_win", "warrior_bar_lose", "warrior_attack",
        "warrior_enemy_turn"} \subseteq Scenes
    /\ {"warrior_bear_combat", "warrior_bear_die", "warrior_bear_regen",
        "warrior_b_attack", "warrior_b_dodge", "warrior_b_flee", "warrior_flee_ok",
        "warrior_bear_turn"} \subseteq Scenes
    /\ {"artificer_riddle", "artificer_correct", "artificer_wrong", "artificer_rest",
        "artificer_mug_lose"} \subseteq Scenes
BY DEF MenuTargets, Scenes, MenuScenes, EndingScenes, OtherScenes, MageFight, BarFight,
   BearFight

LEMMA TextsKnown ==
    "s_m_spiritdie" \in TextNames /\ "s_m_correct" \in TextNames
BY DEF TextNames

LEMMA HpTypes ==
    /\ Hp.mage \in Int /\ Hp.spirit \in Int /\ Hp.fighter \in Int /\ Hp.brawler \in Int
    /\ Hp.hero \in Int /\ Hp.bear \in Int /\ Hp.healed \in Int
BY HpAssumption

\* No other client's game is touched.
OthersStay(c) ==
    \A d \in Clients \ {c} :
        /\ at'[d] = at[d] /\ hp'[d] = hp[d] /\ ehp'[d] = ehp[d] /\ turns'[d] = turns[d]
        /\ shown'[d] = shown[d] /\ said'[d] = said[d]

\* A step of the program keeps the types and touches one game.
LEMMA SceneType ==
    ASSUME TypeOK, NEW c \in Clients, play(c)
    PROVE  TypeOK' /\ OthersStay(c)
<1>. SUFFICES ASSUME scene(c)
              PROVE  /\ at' \in [Clients -> Scenes]
                     /\ hp' \in [Clients -> Int] /\ ehp' \in [Clients -> Int]
                     /\ turns' \in [Clients -> Nat]
                     /\ shown' \in [Clients -> SUBSET TextNames]
                     /\ said' \in [Clients -> Answers \cup {""}]
                     /\ OthersStay(c)
  BY DEF play, TypeOK
<1>1. CASE menu(c)
  <2>1. at' \in [Clients -> Scenes] /\ \A d \in Clients \ {c} : at'[d] = at[d]
    BY <1>1, GotoEffect, ScenesKnown, MenuLeads
  <2>. QED
    BY <1>1, <2>1, Types DEF menu, fight, OthersStay
<1>2. CASE mage_ruins(c)
  <2>1. at' \in [Clients -> Scenes] /\ \A d \in Clients \ {c} : at'[d] = at[d]
    BY <1>2, GotoEffect, ScenesKnown, EnterEffect, HpTypes DEF mage_ruins
  <2>2. /\ hp' \in [Clients -> Int]
        /\ \A d \in Clients \ {c} : hp'[d] = hp[d]
        /\ ehp' \in [Clients -> Int]
        /\ \A d \in Clients \ {c} : ehp'[d] = ehp[d]
    BY <1>2, EnterEffect, HpTypes DEF mage_ruins
  <2>. QED
    BY <1>2, <2>1, <2>2, Types DEF mage_ruins, fight, OthersStay
<1>3. CASE mage_combat(c)
  <2>1. at' \in [Clients -> Scenes] /\ \A d \in Clients \ {c} : at'[d] = at[d]
    BY <1>3, GotoEffect, ScenesKnown, FightLeads
  <2>. QED
    BY <1>3, <2>1, Types DEF mage_combat, fight, OthersStay
<1>4. CASE mage_spell(c)
  BY <1>4, Types, GotoEffect, ScenesKnown, StrikeEffect DEF mage_spell, fight, OthersStay
<1>5. CASE mage_spirit_turn(c)
  BY <1>5, Types, GotoEffect, ScenesKnown, StruckBackEffect DEF mage_spirit_turn, fight,
     OthersStay
<1>6. CASE mage_spirit_dead(c)
  <2>1. at' \in [Clients -> Scenes] /\ \A d \in Clients \ {c} : at'[d] = at[d]
    BY <1>6, GotoEffect, ScenesKnown DEF mage_spirit_dead
  <2>2. /\ shown' \in [Clients -> SUBSET TextNames]
        /\ \A d \in Clients \ {c} : shown'[d] = shown[d]
    BY <1>6, ShowEffect, TextsKnown DEF mage_spirit_dead
  <2>. QED
    BY <1>6, <2>1, <2>2, Types DEF mage_spirit_dead, fight, OthersStay
<1>7. CASE mage_scroll_riddle(c)
  <2>0. Goto(c, "mage_correct") \/ Goto(c, "mage_wrong")
    BY <1>7, RiddleEffect DEF mage_scroll_riddle
  <2>1. at' \in [Clients -> Scenes] /\ \A d \in Clients \ {c} : at'[d] = at[d]
    BY <2>0, GotoEffect, ScenesKnown
  <2>2. /\ said' \in [Clients -> Answers \cup {""}]
        /\ \A d \in Clients \ {c} : said'[d] = said[d]
    BY <1>7, RiddleEffect DEF mage_scroll_riddle
  <2>. QED
    BY <1>7, <2>1, <2>2, Types DEF mage_scroll_riddle, fight, OthersStay
<1>8. CASE mage_correct(c)
  <2>1. at' \in [Clients -> Scenes] /\ \A d \in Clients \ {c} : at'[d] = at[d]
    BY <1>8, GotoEffect, ScenesKnown, OtherLeads DEF mage_correct
  <2>2. /\ shown' \in [Clients -> SUBSET TextNames]
        /\ \A d \in Clients \ {c} : shown'[d] = shown[d]
    BY <1>8, ShowEffect, TextsKnown DEF mage_correct
  <2>. QED
    BY <1>8, <2>1, <2>2, Types DEF mage_correct, fight, OthersStay
<1>9. CASE warrior_fight(c)
  <2>1. at' \in [Clients -> Scenes] /\ \A d \in Clients \ {c} : at'[d] = at[d]
    BY <1>9, GotoEffect, ScenesKnown, EnterEffect, HpTypes DEF warrior_fight
  <2>2. /\ hp' \in [Clients -> Int]
        /\ \A d \in Clients \ {c} : hp'[d] = hp[d]
        /\ ehp' \in [Clients -> Int]
        /\ \A d \in Clients \ {c} : ehp'[d] = ehp[d]
    BY <1>9, EnterEffect, HpTypes DEF warrior_fight
  <2>. QED
    BY <1>9, <2>1, <2>2, Types DEF warrior_fight, fight, OthersStay
<1>10. CASE warrior_bar_combat(c)
  <2>1. at' \in [Clients -> Scenes] /\ \A d \in Clients \ {c} : at'[d] = at[d]
    BY <1>10, GotoEffect, ScenesKnown, FightLeads
  <2>. QED
    BY <1>10, <2>1, Types DEF warrior_bar_combat, fight, OthersStay
<1>11. CASE warrior_attack(c)
  BY <1>11, Types, GotoEffect, ScenesKnown, StrikeEffect DEF warrior_attack, fight,
     OthersStay
<1>12. CASE warrior_enemy_turn(c)
  BY <1>12, Types, GotoEffect, ScenesKnown, StruckBackEffect DEF warrior_enemy_turn,
     fight, OthersStay
<1>13. CASE warrior_forest(c)
  <2>1. at' \in [Clients -> Scenes] /\ \A d \in Clients \ {c} : at'[d] = at[d]
    BY <1>13, GotoEffect, ScenesKnown, EnterEffect, HpTypes DEF warrior_forest
  <2>2. /\ hp' \in [Clients -> Int]
        /\ \A d \in Clients \ {c} : hp'[d] = hp[d]
        /\ ehp' \in [Clients -> Int]
        /\ \A d \in Clients \ {c} : ehp'[d] = ehp[d]
    BY <1>13, EnterEffect, HpTypes DEF warrior_forest
  <2>3. turns' \in [Clients -> Nat] /\ \A d \in Clients \ {c} : turns'[d] = turns[d]
    BY <1>13, Types DEF warrior_forest
  <2>. QED
    BY <1>13, <2>1, <2>2, <2>3, Types DEF warrior_forest, fight, OthersStay
<1>14. CASE warrior_bear_combat(c)
  <2>1. at' \in [Clients -> Scenes] /\ \A d \in Clients \ {c} : at'[d] = at[d]
    BY <1>14, GotoEffect, ScenesKnown, FightLeads
  <2>. QED
    BY <1>14, <2>1, Types DEF warrior_bear_combat, fight, OthersStay
<1>15. CASE warrior_b_attack(c)
  BY <1>15, Types, GotoEffect, ScenesKnown, StrikeEffect, CountEffect DEF
     warrior_b_attack, fight, OthersStay
<1>16. CASE warrior_b_dodge(c)
  BY <1>16, Types, GotoEffect, ScenesKnown, CountEffect DEF warrior_b_dodge, fight,
     OthersStay
<1>17. CASE warrior_b_flee(c)
  <2>1. at' \in [Clients -> Scenes] /\ \A d \in Clients \ {c} : at'[d] = at[d]
    BY <1>17, GotoEffect, ScenesKnown, OtherLeads
  <2>. QED
    BY <1>17, <2>1, Types DEF warrior_b_flee, fight, OthersStay
<1>18. CASE warrior_bear_turn(c)
  BY <1>18, Types, GotoEffect, ScenesKnown, StruckBackEffect DEF warrior_bear_turn, fight,
     OthersStay
<1>19. CASE warrior_bear_regen(c)
  <2>1. at' \in [Clients -> Scenes] /\ \A d \in Clients \ {c} : at'[d] = at[d]
    BY <1>19, GotoEffect, ScenesKnown DEF warrior_bear_regen
  <2>2. /\ ehp' \in [Clients -> Int] /\ \A d \in Clients \ {c} : ehp'[d] = ehp[d]
        /\ turns' \in [Clients -> Nat] /\ \A d \in Clients \ {c} : turns'[d] = turns[d]
    BY <1>19, Types, HpTypes DEF warrior_bear_regen
  <2>. QED
    BY <1>19, <2>1, <2>2, Types DEF warrior_bear_regen, fight, OthersStay
<1>20. CASE artificer_riddle(c)
  <2>0. Goto(c, "artificer_correct") \/ Goto(c, "artificer_wrong")
    BY <1>20, RiddleEffect DEF artificer_riddle
  <2>1. at' \in [Clients -> Scenes] /\ \A d \in Clients \ {c} : at'[d] = at[d]
    BY <2>0, GotoEffect, ScenesKnown
  <2>2. /\ said' \in [Clients -> Answers \cup {""}]
        /\ \A d \in Clients \ {c} : said'[d] = said[d]
    BY <1>20, RiddleEffect DEF artificer_riddle
  <2>. QED
    BY <1>20, <2>1, <2>2, Types DEF artificer_riddle, fight, OthersStay
<1>21. CASE artificer_tavern(c)
  <2>1. at' \in [Clients -> Scenes] /\ \A d \in Clients \ {c} : at'[d] = at[d]
    BY <1>21, GotoEffect, ScenesKnown, OtherLeads
  <2>. QED
    BY <1>21, <2>1, Types DEF artificer_tavern, fight, OthersStay
<1>22. CASE artificer_city(c)
  <2>1. at' \in [Clients -> Scenes] /\ \A d \in Clients \ {c} : at'[d] = at[d]
    BY <1>22, GotoEffect, ScenesKnown, OtherLeads
  <2>. QED
    BY <1>22, <2>1, Types DEF artificer_city, fight, OthersStay
<1>. QED
  BY <1>1, <1>2, <1>3, <1>4, <1>5, <1>6, <1>7, <1>8, <1>9, <1>10, <1>11, <1>12, <1>13,
     <1>14, <1>15, <1>16, <1>17, <1>18, <1>19, <1>20, <1>21, <1>22 DEF scene

(* How a game ends. *)

LEMMA CloseEffect ==
    ASSUME TypeOK, NEW c \in Clients, close(c)
    PROVE  /\ conn' \in [Clients -> {"none", "pending", "open", "closed"}]
           /\ at' \in [Clients -> Scenes]
           /\ hp' \in [Clients -> Int] /\ ehp' \in [Clients -> Int] /\ turns' \in [Clients -> Nat]
           /\ conn'[c] = "closed" /\ at'[c] = "main"
           /\ \A d \in Clients \ {c} :
                 /\ conn'[d] = conn[d] /\ at'[d] = at[d]
                 /\ hp'[d] = hp[d] /\ ehp'[d] = ehp[d] /\ turns'[d] = turns[d]
<1>1. /\ conn' \in [Clients -> {"none", "pending", "open", "closed"}] /\ conn'[c] = "closed"
      /\ \A d \in Clients \ {c} : conn'[d] = conn[d]
  BY DEF TypeOK, close
<1>2. "main" \in Scenes
  BY DEF Scenes, MenuScenes
<1>3. at' \in [Clients -> Scenes] /\ at'[c] = "main" /\ \A d \in Clients \ {c} : at'[d] = at[d]
  BY <1>2, GotoEffect DEF close
<1>4. hp' \in [Clients -> Int] /\ \A d \in Clients \ {c} : hp'[d] = hp[d]
  <2>1. hp \in [Clients -> Int] /\ hp' = [hp EXCEPT ![c] = 0]
    BY Types DEF close
  <2>. QED  BY <2>1
<1>5. ehp' \in [Clients -> Int] /\ \A d \in Clients \ {c} : ehp'[d] = ehp[d]
  <2>1. ehp \in [Clients -> Int] /\ ehp' = [ehp EXCEPT ![c] = 0]
    BY Types DEF close
  <2>. QED  BY <2>1
<1>6. turns' \in [Clients -> Nat] /\ \A d \in Clients \ {c} : turns'[d] = turns[d]
  <2>1. turns \in [Clients -> Nat] /\ turns' = [turns EXCEPT ![c] = 0]
    BY Types DEF close
  <2>. QED  BY <2>1
<1>. QED
  BY <1>1, <1>3, <1>4, <1>5, <1>6

\* The texts with which a client's game ends from the scene it is in.
Closing(c, texts) ==
    /\ texts \subseteq TextNames
    /\ shown' = [shown EXCEPT ![c] = @ \cup texts]
    /\ "s_m_flag" \in texts => at[c] = "mage_dark_end" /\ "s_m_light_end" \notin texts
    /\ "s_a_fame" \in texts => at[c] = "artificer_correct"

\* Only two endings show what must be earned.
LEMMA EndingEffect ==
    ASSUME NEW c \in Clients, ending(c)
    PROVE  \E texts : Closing(c, texts)
<1>1. \A s, texts : /\ End(c, s, texts) /\ texts \subseteq TextNames
                    /\ texts \cap {"s_m_flag", "s_a_fame"} = {}
                    => Closing(c, texts)
  BY DEF End, Closing
<1>2. CASE StudyEnding(c)
  BY <1>1, <1>2 DEF StudyEnding, TextNames
<1>3. CASE DeathEnding(c)
  BY <1>1, <1>3 DEF DeathEnding, TextNames
<1>4. CASE MageEndings(c)
  <2>1. CASE End(c, "mage_wrong", {"s_m_wrong"})
    BY <1>1, <2>1 DEF TextNames
  <2>2. CASE End(c, "mage_dark_end", {"s_m_dark_end", "s_m_flag"})
    <3>1. Closing(c, {"s_m_dark_end", "s_m_flag"})
      BY <2>2 DEF End, In, Closing, TextNames
    <3>. QED  BY <3>1
  <2>3. CASE End(c, "mage_light_end", {"s_m_light_end"})
    BY <1>1, <2>3 DEF TextNames
  <2>. QED  BY <1>4, <2>1, <2>2, <2>3 DEF MageEndings
<1>5. CASE BarEndings(c)
  BY <1>1, <1>5 DEF BarEndings, TextNames
<1>6. CASE RestEnding(c)
  BY <1>1, <1>6 DEF RestEnding, TextNames
<1>7. CASE FleeEnding(c)
  BY <1>1, <1>7 DEF FleeEnding, TextNames
<1>8. CASE BearEnding(c)
  BY <1>1, <1>8 DEF BearEnding, TextNames
<1>9. CASE ArtificerEndings(c)
  <2>1. CASE End(c, "artificer_correct", {"s_a_correct", "s_a_fame"})
    <3>1. Closing(c, {"s_a_correct", "s_a_fame"})
      BY <2>1 DEF End, In, Closing, TextNames
    <3>. QED  BY <3>1
  <2>2. CASE End(c, "artificer_wrong", {"s_a_wrong"})
    BY <1>1, <2>2 DEF TextNames
  <2>3. CASE End(c, "artificer_rest", {"s_a_rest"})
    BY <1>1, <2>3 DEF TextNames
  <2>4. CASE End(c, "artificer_mug_lose", {"s_a_muglose"})
    BY <1>1, <2>4 DEF TextNames
  <2>. QED  BY <1>9, <2>1, <2>2, <2>3, <2>4 DEF ArtificerEndings
<1>10. CASE BardEndings(c)
  BY <1>1, <1>10 DEF BardEndings, TextNames
<1>. QED
  BY <1>2, <1>3, <1>4, <1>5, <1>6, <1>7, <1>8, <1>9, <1>10 DEF ending

LEMMA ClosingEffect ==
    ASSUME TypeOK, NEW c \in Clients, NEW texts, Closing(c, texts)
    PROVE  /\ shown' \in [Clients -> SUBSET TextNames] /\ shown'[c] = shown[c] \cup texts
           /\ \A d \in Clients \ {c} : shown'[d] = shown[d]
<1>1. shown \in [Clients -> SUBSET TextNames]
  BY Types
<1>. QED
  BY <1>1 DEF Closing

LEMMA AcceptEffect ==
    ASSUME TypeOK, NEW c \in Clients, accept(c)
    PROVE  /\ conn' \in [Clients -> {"none", "pending", "open", "closed"}]
           /\ shown' \in [Clients -> SUBSET TextNames] /\ said' \in [Clients -> Answers \cup {""}]
           /\ conn'[c] = "open" /\ shown'[c] = {}
           /\ \A d \in Clients \ {c} :
                 conn'[d] = conn[d] /\ shown'[d] = shown[d] /\ said'[d] = said[d]
<1>1. /\ conn' \in [Clients -> {"none", "pending", "open", "closed"}] /\ conn'[c] = "open"
      /\ \A d \in Clients \ {c} : conn'[d] = conn[d]
  BY DEF TypeOK, accept
<1>2. /\ shown' \in [Clients -> SUBSET TextNames] /\ shown'[c] = {}
      /\ \A d \in Clients \ {c} : shown'[d] = shown[d]
  BY Types DEF accept
<1>3. /\ said' \in [Clients -> Answers \cup {""}]
      /\ \A d \in Clients \ {c} : said'[d] = said[d]
  BY Types DEF accept
<1>. QED
  BY <1>1, <1>2, <1>3

LEMMA TypeStep == TypeOK /\ [Next]_vars => TypeOK'
<1>. SUFFICES ASSUME TypeOK, [Next]_vars PROVE TypeOK'
  OBVIOUS
<1>1. CASE UNCHANGED vars
  BY <1>1 DEF TypeOK, vars
<1>2. ASSUME NEW c \in Clients, play(c) PROVE TypeOK'
  BY <1>2, SceneType
<1>3. ASSUME NEW c \in Clients, exit(c) PROVE TypeOK'
  <2>1. shown' \in [Clients -> SUBSET TextNames]
    BY <1>3, EndingEffect, ClosingEffect DEF exit
  <2>2. close(c) /\ UNCHANGED <<ended, said>>
    BY <1>3 DEF exit
  <2>. QED
    BY <2>1, <2>2, CloseEffect DEF TypeOK
<1>4. ASSUME NEW c \in Clients, limit(c) \/ disconnected(c) PROVE TypeOK'
  <2>1. close(c) /\ UNCHANGED <<ended, shown, said>>
    BY <1>4 DEF limit, disconnected
  <2>. QED
    BY <2>1, CloseEffect DEF TypeOK
<1>5. ASSUME NEW c \in Clients, accept(c) PROVE TypeOK'
  <2>1. UNCHANGED <<ended, at, hp, ehp, turns>>
    BY <1>5 DEF accept, fight
  <2>. QED
    BY <1>5, <2>1, AcceptEffect DEF TypeOK
<1>6. ASSUME NEW c \in Clients, Connect(c) PROVE TypeOK'
  <2>1. conn' \in [Clients -> {"none", "pending", "open", "closed"}]
    BY <1>6 DEF Connect, TypeOK
  <2>2. ended' \in [Clients -> BOOLEAN]
    BY <1>6 DEF Connect, TypeOK
  <2>. QED
    BY <1>6, <2>1, <2>2 DEF Connect, TypeOK, fight
<1>7. ASSUME NEW c \in Clients, Hangup(c) PROVE TypeOK'
  <2>1. ended' \in [Clients -> BOOLEAN]
    BY <1>7 DEF Hangup, TypeOK
  <2>. QED
    BY <1>7, <2>1 DEF Hangup, TypeOK, fight
<1>. QED
  BY <1>1, <1>2, <1>3, <1>4, <1>5, <1>6, <1>7 DEF Next, Step

\* Every variable keeps its type, and the scene is always one that was written.
THEOREM TypeCorrect == Spec => []TypeOK
<1>1. Init => TypeOK
  <2>1. "main" \in Scenes
    BY DEF Scenes, MenuScenes
  <2>. SUFFICES ASSUME Init PROVE TypeOK
    OBVIOUS
  <2>2. /\ conn \in [Clients -> {"none", "pending", "open", "closed"}]
        /\ ended \in [Clients -> BOOLEAN]
    BY DEF Init
  <2>3. at \in [Clients -> Scenes]
    BY <2>1 DEF Init
  <2>4. /\ hp = [c \in Clients |-> 0] /\ ehp = [c \in Clients |-> 0]
        /\ turns = [c \in Clients |-> 0]
    BY DEF Init
  <2>5. shown \in [Clients -> SUBSET TextNames] /\ said \in [Clients -> Answers \cup {""}]
    BY DEF Init
  <2>6. hp \in [Clients -> Int] /\ ehp \in [Clients -> Int] /\ turns \in [Clients -> Nat]
    BY <2>4
  <2>. QED
    BY <2>2, <2>3, <2>5, <2>6 DEF TypeOK
<1>. QED
  BY <1>1, TypeStep, PTL DEF Spec

(* Fights: the hit points each scene of a fight can begin with. *)

FightOf(c) ==
    /\ at[c] \in {"mage_spell", "warrior_attack"} => hp[c] > 0 /\ ehp[c] > 0
    /\ at[c] \in {"mage_spirit_turn", "warrior_enemy_turn"} => hp[c] > 0 /\ ehp[c] > -15
    /\ at[c] \in {"mage_combat", "warrior_bar_combat"} => hp[c] > -10 /\ ehp[c] > -15
    /\ at[c] \in BearFight => turns[c] <= 3 /\ ehp[c] > 42 - 14 * turns[c] /\ hp[c] > -14
    /\ at[c] \in BearFight \ {"warrior_bear_combat"} => hp[c] > 0
    /\ at[c] \in {"warrior_b_attack", "warrior_b_dodge", "warrior_b_flee"} => turns[c] < 3
FightInv == \A c \in Clients : FightOf(c)

Fights == MageFight \cup BarFight \cup BearFight

\* FightOf says nothing outside of fights.
LEMMA NoFight == \A c : at'[c] \notin Fights => FightOf(c)'
BY DEF FightOf, Fights, MageFight, BarFight, BearFight

LEMMA Peaceful ==
    /\ MenuTargets \cap Fights = {}
    /\ {"mage_spirit_dead", "mage_scroll_riddle", "mage_correct", "mage_wrong", "mage_light_end",
        "mage_dark_end", "mage_player_dead", "warrior_bar_win", "warrior_bar_lose",
        "warrior_bear_die", "warrior_flee_ok", "artificer_riddle", "artificer_correct",
        "artificer_wrong", "artificer_rest", "artificer_mug_lose"} \cap Fights = {}
BY DEF MenuTargets, MenuScenes, Fights, MageFight, BarFight, BearFight

\* A step of the program keeps the bounds of the fight it is in.
LEMMA SceneFight ==
    ASSUME TypeOK, FightInv, NEW c \in Clients, play(c)
    PROVE  FightOf(c)'
<1>. SUFFICES ASSUME scene(c) PROVE FightOf(c)'
  BY DEF play
<1>1. /\ hp[c] \in Int /\ ehp[c] \in Int /\ turns[c] \in Nat
      /\ hp'[c] \in Int /\ ehp'[c] \in Int /\ turns'[c] \in Nat
  BY SceneType DEF TypeOK
<1>2. FightOf(c)
  BY DEF FightInv
<1>3. CASE menu(c)
  BY <1>3, GotoEffect, ScenesKnown, Peaceful, NoFight, MenuLeads
<1>4. CASE mage_ruins(c)
  BY <1>4, <1>1, <1>2, GotoEffect, ScenesKnown, EnterEffect, HpTypes, HpAssumption DEF
     mage_ruins, In, fight, FightOf, BearFight
<1>5. CASE mage_combat(c)
  BY <1>5, <1>1, <1>2, GotoEffect, ScenesKnown, FightLeads DEF mage_combat, In, fight,
     FightOf, BearFight
<1>6. CASE mage_spell(c)
  BY <1>6, <1>1, <1>2, GotoEffect, ScenesKnown, StrikeEffect DEF mage_spell, In, fight,
     FightOf, BearFight
<1>7. CASE mage_spirit_turn(c)
  BY <1>7, <1>1, <1>2, GotoEffect, ScenesKnown, StruckBackEffect DEF mage_spirit_turn, In,
     fight, FightOf, BearFight
<1>8. CASE mage_spirit_dead(c)
  BY <1>8, GotoEffect, ScenesKnown, Peaceful, NoFight DEF mage_spirit_dead
<1>9. CASE mage_scroll_riddle(c)
  <2>1. Goto(c, "mage_correct") \/ Goto(c, "mage_wrong")
    BY <1>9, RiddleEffect DEF mage_scroll_riddle
  <2>. QED
    BY <2>1, GotoEffect, ScenesKnown, Peaceful, NoFight
<1>10. CASE mage_correct(c)
  BY <1>10, GotoEffect, ScenesKnown, Peaceful, NoFight, OtherLeads
<1>11. CASE warrior_fight(c)
  BY <1>11, <1>1, <1>2, GotoEffect, ScenesKnown, EnterEffect, HpTypes, HpAssumption DEF
     warrior_fight, In, fight, FightOf, BearFight
<1>12. CASE warrior_bar_combat(c)
  BY <1>12, <1>1, <1>2, GotoEffect, ScenesKnown, FightLeads DEF warrior_bar_combat, In,
     fight, FightOf, BearFight
<1>13. CASE warrior_attack(c)
  BY <1>13, <1>1, <1>2, GotoEffect, ScenesKnown, StrikeEffect DEF warrior_attack, In,
     fight, FightOf, BearFight
<1>14. CASE warrior_enemy_turn(c)
  BY <1>14, <1>1, <1>2, GotoEffect, ScenesKnown, StruckBackEffect DEF warrior_enemy_turn,
     In, fight, FightOf, BearFight
<1>15. CASE warrior_forest(c)
  <2>1. at'[c] = "warrior_bear_combat"
    BY <1>15, GotoEffect, ScenesKnown, EnterEffect, HpTypes DEF warrior_forest
  <2>2. hp'[c] = Hp.hero /\ ehp'[c] = Hp.bear
    BY <1>15, EnterEffect, HpTypes DEF warrior_forest
  <2>3. turns'[c] = 0
    BY <1>15, Types DEF warrior_forest
  <2>4. hp'[c] > -14 /\ ehp'[c] > 42
    BY <2>2, HpAssumption
  <2>. QED
    BY <1>1, <2>1, <2>3, <2>4 DEF FightOf, BearFight
<1>16. CASE warrior_bear_combat(c)
  BY <1>16, <1>1, <1>2, GotoEffect, ScenesKnown, FightLeads DEF warrior_bear_combat, In,
     fight, FightOf, BearFight
<1>17. CASE warrior_b_attack(c)
  BY <1>17, <1>1, <1>2, GotoEffect, ScenesKnown, StrikeEffect, CountEffect DEF
     warrior_b_attack, In, fight, FightOf, BearFight
<1>18. CASE warrior_b_dodge(c)
  BY <1>18, <1>1, <1>2, GotoEffect, ScenesKnown, CountEffect DEF warrior_b_dodge, In,
     fight, FightOf, BearFight
<1>19. CASE warrior_b_flee(c)
  BY <1>19, <1>1, <1>2, GotoEffect, ScenesKnown, OtherLeads DEF warrior_b_flee, In, fight,
     FightOf, BearFight
<1>20. CASE warrior_bear_turn(c)
  BY <1>20, <1>1, <1>2, GotoEffect, ScenesKnown, StruckBackEffect DEF warrior_bear_turn,
     In, fight, FightOf, BearFight
<1>21. CASE warrior_bear_regen(c)
  <2>1. at'[c] = "warrior_bear_combat"
    BY <1>21, GotoEffect, ScenesKnown DEF warrior_bear_regen
  <2>2. hp'[c] = hp[c] /\ ehp'[c] = Hp.healed
    BY <1>21, Types DEF warrior_bear_regen
  <2>3. turns'[c] = 0
    BY <1>21, Types DEF warrior_bear_regen
  <2>4. hp'[c] > 0 /\ ehp'[c] > 42
    BY <1>21, <1>1, <1>2, <2>2, HpAssumption DEF warrior_bear_regen, In, FightOf,
       BearFight
  <2>. QED
    BY <1>1, <2>1, <2>3, <2>4 DEF FightOf, BearFight
<1>22. CASE artificer_riddle(c)
  <2>1. Goto(c, "artificer_correct") \/ Goto(c, "artificer_wrong")
    BY <1>22, RiddleEffect DEF artificer_riddle
  <2>. QED
    BY <2>1, GotoEffect, ScenesKnown, Peaceful, NoFight
<1>23. CASE artificer_tavern(c)
  BY <1>23, GotoEffect, ScenesKnown, Peaceful, NoFight, OtherLeads
<1>24. CASE artificer_city(c)
  BY <1>24, GotoEffect, ScenesKnown, Peaceful, NoFight, OtherLeads
<1>. QED
  BY <1>3, <1>4, <1>5, <1>6, <1>7, <1>8, <1>9, <1>10, <1>11, <1>12, <1>13, <1>14, <1>15,
     <1>16, <1>17, <1>18, <1>19, <1>20, <1>21, <1>22, <1>23, <1>24 DEF scene

\* Every step of a client but play leaves it in no fight, or where it was.
LEMMA FightStep == TypeOK /\ FightInv /\ [Next]_vars => FightInv'
<1>. SUFFICES ASSUME TypeOK, FightInv, [Next]_vars PROVE FightInv'
  OBVIOUS
<1>. DEFINE Kept(d) == at'[d] = at[d] /\ hp'[d] = hp[d] /\ ehp'[d] = ehp[d] /\ turns'[d] = turns[d]
<1>1. \A d \in Clients : Kept(d) => FightOf(d)'
  BY DEF FightInv, FightOf
<1>2. CASE UNCHANGED vars
  BY <1>1, <1>2 DEF vars, FightInv
<1>3. ASSUME NEW c \in Clients, play(c) PROVE FightInv'
  <2>1. \A d \in Clients \ {c} : Kept(d)
    BY <1>3, SceneType DEF OthersStay
  <2>2. FightOf(c)'
    BY <1>3, SceneFight
  <2>. QED
    BY <1>1, <2>1, <2>2 DEF FightInv
<1>4. ASSUME NEW c \in Clients, close(c) PROVE FightInv'
  <2>1. \A d \in Clients \ {c} : Kept(d)
    BY <1>4, CloseEffect
  <2>2. "main" \notin Fights
    BY DEF Fights, MageFight, BarFight, BearFight
  <2>3. FightOf(c)'
    BY <1>4, <2>2, CloseEffect, NoFight
  <2>. QED
    BY <1>1, <2>1, <2>3 DEF FightInv
<1>5. ASSUME NEW c \in Clients, accept(c) \/ Connect(c) \/ Hangup(c) PROVE FightInv'
  <2>1. \A d \in Clients : Kept(d)
    BY <1>5 DEF accept, Connect, Hangup, fight
  <2>. QED
    BY <1>1, <2>1 DEF FightInv
<1>. QED
  BY <1>2, <1>3, <1>4, <1>5 DEF Next, Step, exit, limit, disconnected

LEMMA FightInit == Init => FightInv
<1>. SUFFICES ASSUME Init, NEW c \in Clients PROVE FightOf(c)
  BY DEF FightInv
<1>1. at[c] = "main"
  BY DEF Init
<1>. QED
  BY <1>1 DEF FightOf, BearFight

\* Both facts about fights rest on the hit points each scene of a fight can
\* begin with.
THEOREM FightsCorrect == Spec => [](TypeOK /\ FightInv)
BY TypeCorrect, FightInit, FightStep, PTL DEF Spec

\* The bear always has hit points left: after t turns since it last healed it
\* has more than 42 - 14 t, and it heals after the third.
THEOREM BearCorrect == Spec => []BearNeverDies
<1>1. TypeOK /\ FightInv => BearNeverDies
  <2>. SUFFICES ASSUME TypeOK, FightInv, NEW c \in Clients, at[c] \in BearFight
                PROVE  ehp[c] > 0
    BY DEF BearNeverDies
  <2>1. turns[c] <= 3 /\ ehp[c] > 42 - 14 * turns[c]
    BY DEF FightInv, FightOf
  <2>2. turns[c] \in Nat /\ ehp[c] \in Int
    BY Types
  <2>. QED
    BY <2>1, <2>2
<1>. QED
  BY <1>1, FightsCorrect, PTL

\* No fight deals a blow to one who was dead when the round began, so both
\* sides stop less than one blow below zero.
THEOREM BlowsCorrect == Spec => []OneBlowPastDeath
<1>1. TypeOK /\ FightInv => OneBlowPastDeath
  <2>. SUFFICES ASSUME TypeOK, FightInv, NEW c \in Clients
                PROVE  /\ at[c] \in MageFight \cup BarFight => hp[c] > -10 /\ ehp[c] > -15
                       /\ at[c] \in BearFight => hp[c] > -14
    BY DEF OneBlowPastDeath
  <2>1. FightOf(c) /\ hp[c] \in Int /\ ehp[c] \in Int
    BY Types DEF FightInv
  <2>. QED
    BY <2>1 DEF FightOf, MageFight, BarFight
<1>. QED
  BY <1>1, FightsCorrect, PTL

(* The story: what has been shown and said by the scenes before an ending. *)

AfterAnswer == {"mage_correct", "mage_dark_end"}
Told == {"mage_scroll_riddle", "artificer_correct"} \cup AfterAnswer

StoryOf(c) ==
    /\ conn[c] # "open" => at[c] = "main"
    /\ conn[c] = "open" => shown[c] \subseteq {"s_m_spiritdie", "s_m_correct"}
    /\ at[c] \in {"mage_scroll_riddle"} \cup AfterAnswer => "s_m_spiritdie" \in shown[c]
    /\ at[c] \in AfterAnswer => said[c] = "MAGE_ANS"
    /\ at[c] = "mage_dark_end" => "s_m_correct" \in shown[c]
    /\ at[c] = "artificer_correct" => said[c] = "ART_ANS"
Earned(c) ==
    /\ "s_m_flag" \in shown[c] => /\ {"s_m_spiritdie", "s_m_correct"} \subseteq shown[c]
                                  /\ said[c] = "MAGE_ANS"
                                  /\ "s_m_light_end" \notin shown[c]
    /\ "s_a_fame" \in shown[c] => said[c] = "ART_ANS"
StoryInv == \A c \in Clients : StoryOf(c) /\ Earned(c)

LEMMA Untold ==
    /\ MenuTargets \cap Told = {}
    /\ {"mage_combat", "mage_spirit_dead", "mage_player_dead", "mage_spell", "mage_spirit_turn",
        "mage_wrong", "mage_light_end", "warrior_bar_combat", "warrior_bar_win",
        "warrior_bar_lose", "warrior_attack", "warrior_enemy_turn", "warrior_bear_combat",
        "warrior_bear_die", "warrior_bear_regen", "warrior_b_attack", "warrior_b_dodge",
        "warrior_b_flee", "warrior_flee_ok", "warrior_bear_turn", "artificer_riddle",
        "artificer_wrong", "artificer_rest", "artificer_mug_lose"} \cap Told = {}
BY DEF MenuTargets, MenuScenes, Told, AfterAnswer

\* A step of the program shows and remembers what its next scene relies on.
LEMMA SceneStory ==
    ASSUME TypeOK, StoryInv, NEW c \in Clients, play(c)
    PROVE  StoryOf(c)' /\ Earned(c)'
<1>1. scene(c) /\ conn[c] = "open" /\ conn'[c] = "open"
  BY DEF play
<1>2. StoryOf(c) /\ shown[c] \subseteq {"s_m_spiritdie", "s_m_correct"}
  BY <1>1 DEF StoryInv, StoryOf
<1>3. shown'[c] \subseteq {"s_m_spiritdie", "s_m_correct"} => Earned(c)'
  BY DEF Earned
<1>. SUFFICES /\ shown'[c] \subseteq {"s_m_spiritdie", "s_m_correct"}
              /\ StoryOf(c)'
  BY <1>3
<1>4. shown'[c] = shown[c] /\ at'[c] \notin Told
         => shown'[c] \subseteq {"s_m_spiritdie", "s_m_correct"} /\ StoryOf(c)'
  BY <1>1, <1>2 DEF StoryOf, Told, AfterAnswer
<1>5. CASE menu(c)
  <2>1. at'[c] \notin Told
    BY <1>5, GotoEffect, ScenesKnown, Untold, MenuLeads
  <2>. QED
    BY <1>4, <1>5, <2>1 DEF menu
<1>6. CASE mage_ruins(c)
  <2>1. at'[c] \notin Told
    BY <1>6, GotoEffect, ScenesKnown, Untold DEF mage_ruins, EnterFight
  <2>. QED
    BY <1>4, <1>6, <2>1 DEF mage_ruins
<1>7. CASE mage_combat(c)
  <2>1. at'[c] \notin Told
    BY <1>7, GotoEffect, ScenesKnown, Untold, FightLeads
  <2>. QED
    BY <1>4, <1>7, <2>1 DEF mage_combat
<1>8. CASE mage_spell(c)
  <2>1. at'[c] \notin Told
    BY <1>8, GotoEffect, ScenesKnown, Untold DEF mage_spell, Strike
  <2>. QED
    BY <1>4, <1>8, <2>1 DEF mage_spell
<1>9. CASE mage_spirit_turn(c)
  <2>1. at'[c] \notin Told
    BY <1>9, GotoEffect, ScenesKnown, Untold DEF mage_spirit_turn, StruckBack
  <2>. QED
    BY <1>4, <1>9, <2>1 DEF mage_spirit_turn
<1>10. CASE mage_spirit_dead(c)
  <2>1. at'[c] = "mage_scroll_riddle"
    BY <1>10, GotoEffect, ScenesKnown DEF mage_spirit_dead
  <2>2. shown'[c] = shown[c] \cup {"s_m_spiritdie"}
    BY <1>10, ShowEffect, TextsKnown DEF mage_spirit_dead
  <2>. QED
    BY <1>1, <1>2, <2>1, <2>2 DEF StoryOf, AfterAnswer
<1>11. CASE mage_scroll_riddle(c)
  <2>1. (said'[c] = "MAGE_ANS" /\ Goto(c, "mage_correct")) \/ Goto(c, "mage_wrong")
    BY <1>11, RiddleEffect DEF mage_scroll_riddle
  <2>2. at[c] = "mage_scroll_riddle" /\ shown' = shown
    BY <1>11 DEF mage_scroll_riddle, In
  <2>3. CASE said'[c] = "MAGE_ANS" /\ Goto(c, "mage_correct")
    <3>1. at'[c] = "mage_correct"
      BY <2>3, GotoEffect, ScenesKnown
    <3>. QED
      BY <1>1, <1>2, <2>2, <2>3, <3>1 DEF StoryOf, AfterAnswer
  <2>4. CASE Goto(c, "mage_wrong")
    BY <1>4, <2>2, <2>4, GotoEffect, ScenesKnown, Untold
  <2>. QED
    BY <2>1, <2>3, <2>4
<1>12. CASE mage_correct(c)
  <2>1. at'[c] \in {"mage_light_end", "mage_dark_end"}
    BY <1>12, OtherLeads, GotoEffect, ScenesKnown
  <2>2. shown'[c] = shown[c] \cup {"s_m_correct"}
    BY <1>12, ShowEffect, TextsKnown DEF mage_correct
  <2>3. at[c] = "mage_correct" /\ said' = said
    BY <1>12 DEF mage_correct, In
  <2>. QED
    BY <1>1, <1>2, <2>1, <2>2, <2>3 DEF StoryOf, AfterAnswer
<1>13. CASE warrior_fight(c)
  <2>1. at'[c] \notin Told
    BY <1>13, GotoEffect, ScenesKnown, Untold DEF warrior_fight, EnterFight
  <2>. QED
    BY <1>4, <1>13, <2>1 DEF warrior_fight
<1>14. CASE warrior_bar_combat(c)
  <2>1. at'[c] \notin Told
    BY <1>14, GotoEffect, ScenesKnown, Untold, FightLeads
  <2>. QED
    BY <1>4, <1>14, <2>1 DEF warrior_bar_combat
<1>15. CASE warrior_attack(c)
  <2>1. at'[c] \notin Told
    BY <1>15, GotoEffect, ScenesKnown, Untold DEF warrior_attack, Strike
  <2>. QED
    BY <1>4, <1>15, <2>1 DEF warrior_attack
<1>16. CASE warrior_enemy_turn(c)
  <2>1. at'[c] \notin Told
    BY <1>16, GotoEffect, ScenesKnown, Untold DEF warrior_enemy_turn, StruckBack
  <2>. QED
    BY <1>4, <1>16, <2>1 DEF warrior_enemy_turn
<1>17. CASE warrior_forest(c)
  <2>1. at'[c] \notin Told
    BY <1>17, GotoEffect, ScenesKnown, Untold DEF warrior_forest, EnterFight
  <2>. QED
    BY <1>4, <1>17, <2>1 DEF warrior_forest
<1>18. CASE warrior_bear_combat(c)
  <2>1. at'[c] \notin Told
    BY <1>18, GotoEffect, ScenesKnown, Untold, FightLeads
  <2>. QED
    BY <1>4, <1>18, <2>1 DEF warrior_bear_combat
<1>19. CASE warrior_b_attack(c)
  <2>1. at'[c] \notin Told
    BY <1>19, GotoEffect, ScenesKnown, Untold DEF warrior_b_attack, Strike
  <2>. QED
    BY <1>4, <1>19, <2>1 DEF warrior_b_attack
<1>20. CASE warrior_b_dodge(c)
  <2>1. at'[c] \notin Told
    BY <1>20, GotoEffect, ScenesKnown, Untold DEF warrior_b_dodge
  <2>. QED
    BY <1>4, <1>20, <2>1 DEF warrior_b_dodge
<1>21. CASE warrior_b_flee(c)
  <2>1. at'[c] \notin Told
    BY <1>21, GotoEffect, ScenesKnown, Untold, OtherLeads
  <2>. QED
    BY <1>4, <1>21, <2>1 DEF warrior_b_flee
<1>22. CASE warrior_bear_turn(c)
  <2>1. at'[c] \notin Told
    BY <1>22, GotoEffect, ScenesKnown, Untold DEF warrior_bear_turn, StruckBack
  <2>. QED
    BY <1>4, <1>22, <2>1 DEF warrior_bear_turn
<1>23. CASE warrior_bear_regen(c)
  <2>1. at'[c] \notin Told
    BY <1>23, GotoEffect, ScenesKnown, Untold DEF warrior_bear_regen
  <2>. QED
    BY <1>4, <1>23, <2>1 DEF warrior_bear_regen
<1>24. CASE artificer_riddle(c)
  <2>1. (said'[c] = "ART_ANS" /\ Goto(c, "artificer_correct")) \/ Goto(c, "artificer_wrong")
    BY <1>24, RiddleEffect DEF artificer_riddle
  <2>2. shown' = shown
    BY <1>24 DEF artificer_riddle
  <2>3. CASE said'[c] = "ART_ANS" /\ Goto(c, "artificer_correct")
    <3>1. at'[c] = "artificer_correct"
      BY <2>3, GotoEffect, ScenesKnown
    <3>. QED
      BY <1>1, <1>2, <2>2, <2>3, <3>1 DEF StoryOf, AfterAnswer
  <2>4. CASE Goto(c, "artificer_wrong")
    BY <1>4, <2>2, <2>4, GotoEffect, ScenesKnown, Untold
  <2>. QED
    BY <2>1, <2>3, <2>4
<1>25. CASE artificer_tavern(c)
  <2>1. at'[c] \notin Told
    BY <1>25, GotoEffect, ScenesKnown, Untold, OtherLeads
  <2>. QED
    BY <1>4, <1>25, <2>1 DEF artificer_tavern
<1>26. CASE artificer_city(c)
  <2>1. at'[c] \notin Told
    BY <1>26, GotoEffect, ScenesKnown, Untold, OtherLeads
  <2>. QED
    BY <1>4, <1>26, <2>1 DEF artificer_city
<1>. QED
  BY <1>1, <1>5, <1>6, <1>7, <1>8, <1>9, <1>10, <1>11, <1>12, <1>13, <1>14, <1>15, <1>16,
     <1>17, <1>18, <1>19, <1>20, <1>21, <1>22, <1>23, <1>24, <1>25, <1>26 DEF scene

LEMMA StoryStep == TypeOK /\ StoryInv /\ [Next]_vars => StoryInv'
<1>. SUFFICES ASSUME TypeOK, StoryInv, [Next]_vars PROVE StoryInv'
  OBVIOUS
<1>. DEFINE Kept(d) == /\ conn'[d] = conn[d] /\ at'[d] = at[d]
                       /\ shown'[d] = shown[d] /\ said'[d] = said[d]
<1>1. \A d \in Clients : Kept(d) => StoryOf(d)' /\ Earned(d)'
  BY DEF StoryInv, StoryOf, Earned
<1>2. CASE UNCHANGED vars
  BY <1>1, <1>2 DEF vars, StoryInv
<1>3. ASSUME NEW c \in Clients, play(c) PROVE StoryInv'
  <2>1. \A d \in Clients \ {c} : Kept(d)
    BY <1>3, SceneType DEF OthersStay, play
  <2>. QED
    BY <1>1, <1>3, <2>1, SceneStory DEF StoryInv
<1>4. ASSUME NEW c \in Clients, exit(c) PROVE StoryInv'
  <2>1. PICK texts : Closing(c, texts)
    BY <1>4, EndingEffect DEF exit
  <2>2. close(c) /\ said' = said /\ conn[c] = "open"
    BY <1>4 DEF exit
  <2>3. \A d \in Clients \ {c} : Kept(d)
    BY <2>1, <2>2, ClosingEffect, CloseEffect
  <2>4. StoryOf(c)'
    BY <2>2, CloseEffect DEF StoryOf, AfterAnswer
  <2>5. Earned(c)'
    <3>1. StoryOf(c) /\ shown'[c] = shown[c] \cup texts
      BY <2>1, ClosingEffect DEF StoryInv
    <3>2. shown[c] \subseteq {"s_m_spiritdie", "s_m_correct"}
      BY <2>2, <3>1 DEF StoryOf
    <3>. QED
      BY <2>1, <2>2, <3>1, <3>2 DEF Closing, StoryOf, Earned, AfterAnswer
  <2>. QED
    BY <1>1, <2>3, <2>4, <2>5 DEF StoryInv
<1>5. ASSUME NEW c \in Clients, limit(c) \/ disconnected(c) PROVE StoryInv'
  <2>1. close(c) /\ said' = said /\ shown' = shown
    BY <1>5 DEF limit, disconnected
  <2>2. \A d \in Clients \ {c} : Kept(d)
    BY <2>1, CloseEffect
  <2>3. StoryOf(c)'
    BY <2>1, CloseEffect DEF StoryOf, AfterAnswer
  <2>4. Earned(c)'
    BY <2>1 DEF StoryInv, Earned
  <2>. QED
    BY <1>1, <2>2, <2>3, <2>4 DEF StoryInv
<1>6. ASSUME NEW c \in Clients, accept(c) PROVE StoryInv'
  <2>1. conn[c] = "pending" /\ at' = at
    BY <1>6 DEF accept
  <2>2. \A d \in Clients \ {c} : Kept(d)
    BY <1>6, <2>1, AcceptEffect
  <2>3. at'[c] = "main"
    BY <2>1 DEF StoryInv, StoryOf
  <2>4. StoryOf(c)' /\ Earned(c)'
    BY <1>6, <2>3, AcceptEffect DEF StoryOf, Earned, AfterAnswer
  <2>. QED
    BY <1>1, <2>2, <2>4 DEF StoryInv
<1>7. ASSUME NEW c \in Clients, Connect(c) PROVE StoryInv'
  <2>1. conn[c] # "open" /\ UNCHANGED <<at, shown, said>>
    BY <1>7 DEF Connect
  <2>2. conn'[c] = "pending" /\ \A d \in Clients \ {c} : conn'[d] = conn[d]
    BY <1>7 DEF Connect, TypeOK
  <2>3. StoryOf(c)' /\ Earned(c)'
    BY <2>1, <2>2 DEF StoryInv, StoryOf, Earned, AfterAnswer
  <2>. QED
    BY <1>1, <2>1, <2>2, <2>3 DEF StoryInv
<1>8. ASSUME NEW c \in Clients, Hangup(c) PROVE StoryInv'
  BY <1>1, <1>8 DEF Hangup, StoryInv
<1>. QED
  BY <1>2, <1>3, <1>4, <1>5, <1>6, <1>7, <1>8 DEF Next, Step

LEMMA StoryInit == Init => StoryInv
<1>. SUFFICES ASSUME Init, NEW c \in Clients PROVE StoryOf(c) /\ Earned(c)
  BY DEF StoryInv
<1>1. conn[c] = "none" /\ at[c] = "main" /\ shown[c] = {}
  BY DEF Init
<1>. QED
  BY <1>1 DEF StoryOf, Earned, AfterAnswer

\* A flag or the artificer's fame is shown only to one who has earned it,
\* wherever the input ends and whatever is typed.
THEOREM FlagCorrect == Spec => []FlagNeedsAnswer
<1>1. StoryInv => FlagNeedsAnswer
  BY DEF StoryInv, Earned, FlagNeedsAnswer
<1>. QED
  BY <1>1, TypeCorrect, StoryInit, StoryStep, PTL DEF Spec
============================================================================
