----------------------------- MODULE LichClaims -----------------------------
(***************************************************************************)
(* What the repository's documents and comments say of the Lich server and *)
(* its code does not do: a short behaviour of LichServer violates it.      *)
(***************************************************************************)
EXTENDS LichServer

\* Logins are accepted "after a successful handshake from the same client IP
\* within a short window" (PROTOspec.md:81), kept in a cache for many addresses
\* with "an empty/old slot to use" for a new one (handlers.c:83): while there
\* are no more addresses than entries, a recent handshake is remembered.
\* markHs takes slot 0 for every new address, so the next one overwrites it.
HandshakeRemembered ==
  Cardinality(Ips) <= HsCacheSize =>
    \A p \in Ips : shake[p] <= HsTtlSec => hasRecentHs(p)
=============================================================================
