------------------------------ MODULE Journey ------------------------------
(***************************************************************************)
(* The journey game, served to several clients at once: the graph of its   *)
(* scenes as REV/UnknownRunes/Source/genJourney.py writes them, and the    *)
(* life of a connection in REV/UnknownRunes/Server/server.py, a thread and *)
(* a machine of its own for each.                                          *)
(*                                                                         *)
(* A scene is a label of the program.  Texts are kept by name, and of them *)
(* only those that tell endings apart.  The machine's other memory and the *)
(* decryption of texts are in RuneToolchain.                               *)
(***************************************************************************)
EXTENDS Integers, Sequences

CONSTANTS Clients,
          Silent,         \* the clients that connect and send nothing
          RandomValues,   \* the words RANDOM may return
          Hp              \* [mage, spirit, fighter, brawler, hero, bear, healed]: the
                          \* hit points the fights begin with, and of the bear healed

\* In the code 50, 100, 60, 80, 60, 120 and 100.  The bear must outlast three
\* blows of 14.
ASSUME HpAssumption ==
    /\ Hp \in [{"mage", "spirit", "fighter", "brawler", "hero", "bear", "healed"} -> Nat]
    /\ Hp.bear > 42 /\ Hp.healed > 42
ASSUME RandomAssumption == RandomValues \subseteq Int

VARIABLES conn,      \* "none", "pending", "open", "closed"
          ended,     \* the client has closed its side: reads find the end of input
          at,        \* the scene
          hp, ehp,   \* 0x100000 and 0x100003: the player and the enemy
          turns,     \* 0x100006
          shown,     \* names of the texts printed
          said       \* the answer given to the riddle, "" before

fight == <<hp, ehp, turns>>
vars == <<conn, ended, at, hp, ehp, turns, shown, said>>

----------------------------------------------------------------------------
(* Input.  READ_INT is 0 for what is no number and at the end of the input. *)

Answers == {"MAGE_ANS", "ART_ANS", "other"}
Numbers(c) == IF ended[c] THEN {0} ELSE IF c \in Silent THEN {} ELSE 0 .. 5
Texts(c) == IF ended[c] THEN {""} ELSE IF c \in Silent THEN {} ELSE Answers

In(c, scene) == at[c] = scene
Goto(c, scene) == at' = [at EXCEPT ![c] = scene]
Choose(c, options, otherwise) ==
    \E n \in Numbers(c) : Goto(c, IF n \in DOMAIN options THEN options[n] ELSE otherwise)
Show(c, text) == shown' = [shown EXCEPT ![c] = @ \cup {text}]

----------------------------------------------------------------------------
(* Menus: where each number leads.  Any other number leads back. *)

Menu(c, scene, options) == In(c, scene) /\ Choose(c, options, scene)

MainMenu(c) ==
    Menu(c, "main", <<"mage_choice", "warrior_choice", "artificer_choice", "bard_choice">>)
MageMenus(c) ==
    \/ Menu(c, "mage_choice", <<"mage_ruins", "mage_study", "mage_tavern">>)
    \/ Menu(c, "mage_tavern", <<"mage_study", "mage_ruins">>)
WarriorMenu(c) == Menu(c, "warrior_choice", <<"warrior_fight", "warrior_peace_choice">>)
PeaceMenu(c) == Menu(c, "warrior_peace_choice", <<"warrior_forest", "warrior_rest">>)
ArtificerMenu(c) ==
    Menu(c, "artificer_choice", <<"artificer_riddle", "artificer_tavern", "artificer_city">>)
BardMenus(c) ==
    \/ Menu(c, "bard_choice", <<"bard_serenade", "bard_lord", "bard_tavern">>)
    \/ Menu(c, "bard_serenade", <<"bard_lord", "bard_tavern", "bard_dawn">>)

menu(c) ==
    /\ \/ MainMenu(c) \/ MageMenus(c) \/ WarriorMenu(c) \/ PeaceMenu(c)
       \/ ArtificerMenu(c) \/ BardMenus(c)
    /\ UNCHANGED <<fight, shown, said>>

(* Endings: the texts with which a scene ends the game. *)

End(c, scene, texts) == In(c, scene) /\ shown' = [shown EXCEPT ![c] = @ \cup texts]
StudyEnding(c) == End(c, "mage_study", {"s_m_study"})
DeathEnding(c) == End(c, "mage_player_dead", {"s_m_youdie"})
MageEndings(c) ==
    \/ End(c, "mage_wrong", {"s_m_wrong"})
    \/ End(c, "mage_dark_end", {"s_m_dark_end", "s_m_flag"})
    \/ End(c, "mage_light_end", {"s_m_light_end"})
BarEndings(c) ==
    \/ End(c, "warrior_bar_win", {"s_w_barwin"})
    \/ End(c, "warrior_bar_lose", {"s_w_barlose"})
RestEnding(c) == End(c, "warrior_rest", {"s_w_rest"})
FleeEnding(c) == End(c, "warrior_flee_ok", {"s_w_flee_ok", "s_w_rest"})
BearEnding(c) == End(c, "warrior_bear_die", {"s_w_wdie"})
ArtificerEndings(c) ==
    \/ End(c, "artificer_wrong", {"s_a_wrong"})
    \/ End(c, "artificer_correct", {"s_a_correct", "s_a_fame"})
    \/ End(c, "artificer_rest", {"s_a_rest"})
    \/ End(c, "artificer_mug_lose", {"s_a_muglose"})
BardEndings(c) ==
    \/ End(c, "bard_lord", {"s_b_leave"})
    \/ End(c, "bard_tavern", {"s_b_tavern"})
    \/ End(c, "bard_dawn", {"s_b_dawn"})
ending(c) ==
    \/ StudyEnding(c) \/ DeathEnding(c) \/ MageEndings(c) \/ BarEndings(c) \/ RestEnding(c)
    \/ FleeEnding(c) \/ BearEnding(c) \/ ArtificerEndings(c) \/ BardEndings(c)

----------------------------------------------------------------------------
(* Fights.  A first random word decides whether a blow falls, a second how *)
(* hard; NOT and INC make a negative one 1 - r on this machine.            *)

Damage(r, n, base) == ((IF r >= 0 THEN r ELSE 1 - r) % n) + base
Blow(h, n, base) == {h} \cup {h - Damage(r, n, base) : r \in RandomValues}
EnterFight(c, scene, mine, theirs) ==
    /\ hp' = [hp EXCEPT ![c] = mine] /\ ehp' = [ehp EXCEPT ![c] = theirs]
    /\ Goto(c, scene)
Strike(c, n, base, next) ==
    /\ \E h \in Blow(ehp[c], n, base) : ehp' = [ehp EXCEPT ![c] = h]
    /\ Goto(c, next)
StruckBack(c, n, base, next) ==
    /\ \E h \in Blow(hp[c], n, base) : hp' = [hp EXCEPT ![c] = h]
    /\ Goto(c, next)

\* A riddle: any text but the right one ends the game.
Riddle(c, right, correct, wrong) ==
    \E t \in Texts(c) : /\ said' = [said EXCEPT ![c] = t]
                        /\ Goto(c, IF t = right THEN correct ELSE wrong)

(* The mage *)

mage_ruins(c) ==
    /\ In(c, "mage_ruins")
    /\ EnterFight(c, "mage_combat", Hp.mage, Hp.spirit)
    /\ UNCHANGED <<turns, shown, said>>

\* Slip: the mage can cast spells with no hit points left.
mage_combat_Slip(c) ==
    /\ In(c, "mage_combat")
    /\ \/ ehp[c] <= 0 /\ Goto(c, "mage_spirit_dead")
       \/ ehp[c] > 0 /\ hp[c] < 0 /\ Goto(c, "mage_player_dead")
       \/ ehp[c] > 0 /\ hp[c] >= 0
            /\ Choose(c, <<"mage_spell", "mage_spell", "mage_spell">>, "mage_combat")
    /\ UNCHANGED <<fight, shown, said>>
mage_combat(c) ==
    /\ In(c, "mage_combat")
    /\ \/ ehp[c] <= 0 /\ Goto(c, "mage_spirit_dead")
       \/ ehp[c] > 0 /\ hp[c] <= 0 /\ Goto(c, "mage_player_dead")
       \/ ehp[c] > 0 /\ hp[c] > 0
            /\ Choose(c, <<"mage_spell", "mage_spell", "mage_spell">>, "mage_combat")
    /\ UNCHANGED <<fight, shown, said>>

mage_spell(c) ==
    /\ In(c, "mage_spell")
    /\ Strike(c, 11, 5, "mage_spirit_turn")
    /\ UNCHANGED <<hp, turns, shown, said>>

mage_spirit_turn(c) ==
    /\ In(c, "mage_spirit_turn")
    /\ StruckBack(c, 8, 3, "mage_combat")
    /\ UNCHANGED <<ehp, turns, shown, said>>

mage_spirit_dead(c) ==
    /\ In(c, "mage_spirit_dead")
    /\ Show(c, "s_m_spiritdie") /\ Goto(c, "mage_scroll_riddle")
    /\ UNCHANGED <<fight, said>>

\* Slip: a wrong answer is told so, but the game goes on to the next scene.
mage_scroll_riddle_Slip(c) ==
    /\ In(c, "mage_scroll_riddle")
    /\ Riddle(c, "MAGE_ANS", "mage_correct", "mage_correct")
    /\ UNCHANGED <<fight, shown>>
mage_scroll_riddle(c) ==
    /\ In(c, "mage_scroll_riddle")
    /\ Riddle(c, "MAGE_ANS", "mage_correct", "mage_wrong")
    /\ UNCHANGED <<fight, shown>>

mage_correct(c) ==
    /\ In(c, "mage_correct")
    /\ Show(c, "s_m_correct") /\ Choose(c, <<"mage_light_end">>, "mage_dark_end")
    /\ UNCHANGED <<fight, said>>

(* The warrior *)

warrior_fight(c) ==
    /\ In(c, "warrior_fight")
    /\ EnterFight(c, "warrior_bar_combat", Hp.fighter, Hp.brawler)
    /\ UNCHANGED <<turns, shown, said>>

warrior_bar_combat(c) ==
    /\ In(c, "warrior_bar_combat")
    /\ \/ ehp[c] <= 0 /\ Goto(c, "warrior_bar_win")
       \/ ehp[c] > 0 /\ hp[c] <= 0 /\ Goto(c, "warrior_bar_lose")
       \/ ehp[c] > 0 /\ hp[c] > 0
            /\ Choose(c, <<"warrior_attack", "warrior_attack", "warrior_attack">>,
                      "warrior_bar_combat")
    /\ UNCHANGED <<fight, shown, said>>

warrior_attack(c) ==
    /\ In(c, "warrior_attack")
    /\ Strike(c, 10, 5, "warrior_enemy_turn")
    /\ UNCHANGED <<hp, turns, shown, said>>

warrior_enemy_turn(c) ==
    /\ In(c, "warrior_enemy_turn")
    /\ StruckBack(c, 8, 3, "warrior_bar_combat")
    /\ UNCHANGED <<ehp, turns, shown, said>>

warrior_forest(c) ==
    /\ In(c, "warrior_forest")
    /\ EnterFight(c, "warrior_bear_combat", Hp.hero, Hp.bear)
    /\ turns' = [turns EXCEPT ![c] = 0]
    /\ UNCHANGED <<shown, said>>

\* The bear heals after three turns; whether it has hit points left is never
\* asked.
warrior_bear_combat(c) ==
    /\ In(c, "warrior_bear_combat")
    /\ \/ hp[c] <= 0 /\ Goto(c, "warrior_bear_die")
       \/ hp[c] > 0 /\ turns[c] >= 3 /\ Goto(c, "warrior_bear_regen")
       \/ hp[c] > 0 /\ turns[c] < 3
            /\ Choose(c, <<"warrior_b_attack", "warrior_b_dodge", "warrior_b_attack",
                           "warrior_b_flee">>, "warrior_bear_combat")
    /\ UNCHANGED <<fight, shown, said>>

CountTurn(c) == turns' = [turns EXCEPT ![c] = @ + 1]
\* Slip: only a blow that falls is a turn.
warrior_b_attack_Slip(c) ==
    /\ In(c, "warrior_b_attack")
    /\ Strike(c, 12, 3, "warrior_bear_turn")
    /\ UNCHANGED <<hp, turns, shown, said>>
warrior_b_attack(c) ==
    /\ In(c, "warrior_b_attack")
    /\ Strike(c, 12, 3, "warrior_bear_turn") /\ CountTurn(c)
    /\ UNCHANGED <<hp, shown, said>>

warrior_b_dodge(c) ==
    /\ In(c, "warrior_b_dodge")
    /\ CountTurn(c) /\ Goto(c, "warrior_bear_turn")
    /\ UNCHANGED <<hp, ehp, shown, said>>

\* A flight that fails is not counted.
warrior_b_flee(c) ==
    /\ In(c, "warrior_b_flee")
    /\ \E r \in RandomValues :
          Goto(c, IF r >= 0 THEN "warrior_flee_ok" ELSE "warrior_bear_turn")
    /\ UNCHANGED <<fight, shown, said>>

warrior_bear_turn(c) ==
    /\ In(c, "warrior_bear_turn")
    /\ StruckBack(c, 10, 5, "warrior_bear_combat")
    /\ UNCHANGED <<ehp, turns, shown, said>>

warrior_bear_regen(c) ==
    /\ In(c, "warrior_bear_regen")
    /\ ehp' = [ehp EXCEPT ![c] = Hp.healed] /\ turns' = [turns EXCEPT ![c] = 0]
    /\ Goto(c, "warrior_bear_combat")
    /\ UNCHANGED <<hp, shown, said>>

(* The artificer *)

artificer_riddle(c) ==
    /\ In(c, "artificer_riddle")
    /\ Riddle(c, "ART_ANS", "artificer_correct", "artificer_wrong")
    /\ UNCHANGED <<fight, shown>>

artificer_tavern(c) ==
    /\ In(c, "artificer_tavern")
    /\ Choose(c, <<"artificer_riddle">>, "artificer_rest")
    /\ UNCHANGED <<fight, shown, said>>

artificer_city(c) ==
    /\ In(c, "artificer_city")
    /\ \E r \in RandomValues :
          Goto(c, IF r >= 0 THEN "artificer_riddle" ELSE "artificer_mug_lose")
    /\ UNCHANGED <<fight, shown, said>>

----------------------------------------------------------------------------
(* Connections *)

\* The program runs on to the next read, or to its end.
scene(c) ==
    \/ menu(c)
    \/ mage_ruins(c) \/ mage_combat(c) \/ mage_spell(c) \/ mage_spirit_turn(c)
    \/ mage_spirit_dead(c) \/ mage_scroll_riddle(c) \/ mage_correct(c)
    \/ warrior_fight(c) \/ warrior_bar_combat(c) \/ warrior_attack(c) \/ warrior_enemy_turn(c)
    \/ warrior_forest(c) \/ warrior_bear_combat(c) \/ warrior_b_attack(c) \/ warrior_b_dodge(c)
    \/ warrior_b_flee(c) \/ warrior_bear_turn(c) \/ warrior_bear_regen(c)
    \/ artificer_riddle(c) \/ artificer_tavern(c) \/ artificer_city(c)
play(c) == conn[c] = "open" /\ scene(c) /\ UNCHANGED <<conn, ended>>

\* handle_client closes the connection however the machine has stopped, and
\* the machine and its memory go with the thread.
close(c) ==
    /\ conn' = [conn EXCEPT ![c] = "closed"]
    /\ Goto(c, "main")
    /\ hp' = [hp EXCEPT ![c] = 0] /\ ehp' = [ehp EXCEPT ![c] = 0]
    /\ turns' = [turns EXCEPT ![c] = 0]

\* game_over: EXIT, after the texts of an ending.
exit(c) ==
    /\ conn[c] = "open" /\ ending(c)
    /\ close(c)
    /\ UNCHANGED <<ended, said>>

\* run stops at the limit of instructions, which can fall between any two.
limit(c) ==
    /\ conn[c] = "open"
    /\ close(c)
    /\ UNCHANGED <<ended, shown, said>>

\* A write to a client that is gone raises an exception.
disconnected(c) ==
    /\ conn[c] = "open" /\ ended[c]
    /\ close(c)
    /\ UNCHANGED <<ended, shown, said>>

\* The loop of main: a connection gets a thread and a machine of its own.
\* Slip: the loop plays one game before it accepts the next.
accept_Slip(c) ==
    /\ conn[c] = "pending" /\ \A d \in Clients : conn[d] # "open"
    /\ conn' = [conn EXCEPT ![c] = "open"]
    /\ shown' = [shown EXCEPT ![c] = {}] /\ said' = [said EXCEPT ![c] = ""]
    /\ UNCHANGED <<ended, at, fight>>
accept(c) ==
    /\ conn[c] = "pending"
    /\ conn' = [conn EXCEPT ![c] = "open"]
    /\ shown' = [shown EXCEPT ![c] = {}] /\ said' = [said EXCEPT ![c] = ""]
    /\ UNCHANGED <<ended, at, fight>>

Connect(c) ==
    /\ conn[c] \in {"none", "closed"}
    /\ conn' = [conn EXCEPT ![c] = "pending"] /\ ended' = [ended EXCEPT ![c] = FALSE]
    /\ UNCHANGED <<at, fight, shown, said>>

Hangup(c) ==
    /\ conn[c] \in {"pending", "open"} /\ ~ended[c]
    /\ ended' = [ended EXCEPT ![c] = TRUE]
    /\ UNCHANGED <<conn, at, fight, shown, said>>

----------------------------------------------------------------------------
Init ==
    /\ conn = [c \in Clients |-> "none"] /\ ended = [c \in Clients |-> FALSE]
    /\ at = [c \in Clients |-> "main"]
    /\ hp = [c \in Clients |-> 0] /\ ehp = [c \in Clients |-> 0]
    /\ turns = [c \in Clients |-> 0]
    /\ shown = [c \in Clients |-> {}] /\ said = [c \in Clients |-> ""]

Step(c) == play(c) \/ exit(c) \/ limit(c) \/ disconnected(c) \/ accept(c)
Next == \E c \in Clients : Step(c) \/ Connect(c) \/ Hangup(c)

\* The accept loop and every thread go on.  A thread is waiting when no input
\* is there to read.
Fairness == \A c \in Clients : WF_vars(accept(c)) /\ WF_vars(play(c)) /\ WF_vars(exit(c))

Spec == Init /\ [][Next]_vars /\ Fairness

----------------------------------------------------------------------------
(* Properties *)

BarFight == {"warrior_bar_combat", "warrior_attack", "warrior_enemy_turn"}
MageFight == {"mage_combat", "mage_spell", "mage_spirit_turn"}
BearFight == {"warrior_bear_combat", "warrior_b_attack", "warrior_b_dodge", "warrior_b_flee",
              "warrior_bear_turn", "warrior_bear_regen"}
MenuScenes == {"main", "mage_choice", "mage_tavern", "warrior_choice", "warrior_peace_choice",
               "artificer_choice", "bard_choice", "bard_serenade"}
EndingScenes == {"mage_study", "mage_player_dead", "mage_wrong", "mage_dark_end",
                 "mage_light_end", "warrior_bar_win", "warrior_bar_lose", "warrior_rest",
                 "warrior_flee_ok", "warrior_bear_die", "artificer_wrong",
                 "artificer_correct", "artificer_rest", "artificer_mug_lose", "bard_lord",
                 "bard_tavern", "bard_dawn"}
OtherScenes == {"mage_ruins", "mage_spirit_dead", "mage_scroll_riddle", "mage_correct",
                "warrior_fight", "warrior_forest", "artificer_riddle", "artificer_tavern",
                "artificer_city"}
Scenes == MenuScenes \cup EndingScenes \cup BarFight \cup MageFight \cup BearFight
          \cup OtherScenes
TextNames == {"s_m_study", "s_m_youdie", "s_m_spiritdie", "s_m_correct", "s_m_wrong",
              "s_m_dark_end", "s_m_flag", "s_m_light_end", "s_w_barwin", "s_w_barlose",
              "s_w_rest", "s_w_flee_ok", "s_w_wdie", "s_a_wrong", "s_a_correct", "s_a_fame",
              "s_a_rest", "s_a_muglose", "s_b_leave", "s_b_tavern", "s_b_dawn"}

TypeOK ==
    /\ conn \in [Clients -> {"none", "pending", "open", "closed"}]
    /\ ended \in [Clients -> BOOLEAN]
    /\ at \in [Clients -> Scenes]
    /\ hp \in [Clients -> Int] /\ ehp \in [Clients -> Int] /\ turns \in [Clients -> Nat]
    /\ shown \in [Clients -> SUBSET TextNames] /\ said \in [Clients -> Answers \cup {""}]

\* The bear cannot be killed, which the game relies on: it has no scene for
\* a dead bear.  It always has hit points left, because it heals before the
\* fourth blow (warrior_bear_combat, which counts misses and dodges as turns
\* but not failed flights).
BearNeverDies == \A c \in Clients : at[c] \in BearFight => ehp[c] > 0

\* Whoever is dead is dealt no further blow, though each fight looks at the
\* two sides' hit points only once a round, after both have struck: they go
\* below zero by less than one blow of the other side.
OneBlowPastDeath ==
    \A c \in Clients :
        /\ at[c] \in MageFight \cup BarFight => hp[c] > -10 /\ ehp[c] > -15
        /\ at[c] \in BearFight => hp[c] > -14

\* The mage's flag is shown only to one who has defeated the spirit, given
\* the right answer and not embraced the light; the artificer's fame only to
\* one who has given the other answer.
FlagNeedsAnswer ==
    \A c \in Clients :
        /\ "s_m_flag" \in shown[c] => /\ {"s_m_spiritdie", "s_m_correct"} \subseteq shown[c]
                                      /\ said[c] = "MAGE_ANS"
                                      /\ "s_m_light_end" \notin shown[c]
        /\ "s_a_fame" \in shown[c] => said[c] = "ART_ANS"

\* A connection is accepted even when another client says nothing: a read
\* that waits for ever holds its own thread only (handle_client).
ServedDespiteSilence ==
    \A c \in Clients : conn[c] = "pending" ~> conn[c] # "pending"
============================================================================
