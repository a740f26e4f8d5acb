--------------------------- MODULE LichRefinement ---------------------------
(***************************************************************************)
(* The server's session table and configuration implement LichPolicy: slot *)
(* reuse, first-match lookup by token, shared tokens and the handshake     *)
(* cache never show in the register of the users' sessions.                *)
(***************************************************************************)
EXTENDS LichServer

\* An inactive slot is not taken for an entry of the register.
ASSUME RegisterAssumption == Free \notin [level : Levels, idle : Ages]

\* Slot i holds the active session of user u.
HeldBy(i, u) == sess[i] # Free /\ sess[i].user = u

SessionOf(u) ==
  IF \E i \in Slots : HeldBy(i, u)
  THEN LET i == CHOOSE i \in Slots : HeldBy(i, u)
       IN  [level |-> sess[i].level, idle |-> sess[i].idle]
  ELSE Free

register == [u \in Users |-> SessionOf(u)]

LimitOf  == [v \in Int |-> MaxSessOf(v)]
ExpiryOf == [v \in Int |-> TknExpOf(v)]

Policy == INSTANCE LichPolicy
            WITH OpenKeys <- Keys \ AdminKeys,
                 None     <- Free,
                 Limit    <- LimitOf,
                 Expiry   <- ExpiryOf,
                 Initial  <- CfgDefault,
                 reg      <- register,
                 config   <- cfg

\* Every step of the server is a step of the policy or leaves the register and
\* the configuration alone: at most one session per user, sessions that end
\* only by goodbye, expiry, or their user's next login, privilege only through
\* an enabled elevation, configuration written only by sessions allowed to.
ImplementsPolicy == Policy!PolicySpec
=============================================================================
