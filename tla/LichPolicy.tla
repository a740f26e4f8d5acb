----------------------------- MODULE LichPolicy -----------------------------
(***************************************************************************)
(* What the Lich server promises about sessions and configuration, without *)
(* slots, tokens, handshakes or frames: a register of at most one session  *)
(* per user and a configuration the sessions read and write.               *)
(*                                                                         *)
(* LichServer implements it: the register holds, for each user, the active *)
(* session found in the session table.                                     *)
(***************************************************************************)
EXTENDS Integers, FiniteSets

CONSTANTS
  Users,
  Keys,
  OpenKeys,          \* keys a session without privilege may write
  MaxAge,            \* ages stop growing here
  None,              \* no session
  Limit,             \* sessions a value of maxSess allows
  Expiry,            \* idle time a value of tknExpire allows
  Initial            \* the configuration at the start

VARIABLES
  reg,      \* reg[u]: the session of user u, or None
  config    \* the value of each key

pvars == <<reg, config>>

Entry == [level : {"UNPRIVILEGED", "ADMIN"}, idle : 0 .. MaxAge]

Fresh == [level |-> "UNPRIVILEGED", idle |-> 0]

Open(r) == {u \in Users : r[u] # None}
Live(u) == reg[u] # None /\ reg[u].idle <= Expiry[config["tknExpire"]]

PolicyInit ==
  /\ reg = [u \in Users |-> None]
  /\ config = Initial

\* Every expired session, and the session of u, are gone.
Cleared(u) == [w \in Users |-> IF Live(w) /\ w # u THEN reg[w] ELSE None]

\* A login is granted if there is room once the register has been cleared.
Login(u) ==
  /\ Cardinality(Open(Cleared(u))) < Limit[config["maxSess"]]
  /\ reg' = [Cleared(u) EXCEPT ![u] = Fresh]
  /\ UNCHANGED config

\* A login that finds no room still clears the register.
LoginRefused(u) ==
  /\ Cardinality(Open(Cleared(u))) >= Limit[config["maxSess"]]
  /\ reg' = Cleared(u)
  /\ UNCHANGED config

\* An expired session is noticed when its token is used.
Expire(u) ==
  /\ reg[u] # None
  /\ ~Live(u)
  /\ reg' = [reg EXCEPT ![u] = None]
  /\ UNCHANGED config

\* A live session is used, possibly to write a key it is allowed to write.
Use(u) ==
  /\ Live(u)
  /\ reg' = [reg EXCEPT ![u].idle = 0]
  /\ \/ UNCHANGED config
     \/ \E k \in Keys :
          /\ reg[u].level = "ADMIN" \/ k \in OpenKeys
          /\ config' = [config EXCEPT ![k] = config'[k]]

Elevate(u) ==
  /\ Live(u)
  /\ config["EleEnabled"] = "True"
  /\ reg' = [reg EXCEPT ![u] = [level |-> "ADMIN", idle |-> 0]]
  /\ UNCHANGED config

Goodbye(u) ==
  /\ Live(u)
  /\ reg' = [reg EXCEPT ![u] = None]
  /\ UNCHANGED config

Pass ==
  /\ reg' = [u \in Users |->
               IF reg[u] = None THEN None
               ELSE [reg[u] EXCEPT !.idle = IF @ < MaxAge THEN @ + 1 ELSE @]]
  /\ UNCHANGED config

PolicyNext ==
  \/ \E u \in Users :
       \/ Login(u) \/ LoginRefused(u) \/ Expire(u)
       \/ Use(u) \/ Elevate(u) \/ Goodbye(u)
  \/ Pass

PolicySpec == PolicyInit /\ [][PolicyNext]_pvars
=============================================================================
