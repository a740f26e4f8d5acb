---------------------------- MODULE MCLichServer ----------------------------
(* Small instances of LichServer for TLC.                                  *)
EXTENDS LichServer, TLC

\* Names of 6 letters.
SixLetters == [u \in Users |-> 6]

\* The configuration cfgInit stores, with the counts and times scaled down.
Defaults(sessions, expire) ==
  [timeout |-> 10, maxChunkSize |-> 256, serverPort |-> 9001,
   tknExpire |-> expire, maxSess |-> sessions, maxPayload |-> 256,
   CmdSize |-> 256, EleEnabled |-> "False", EnCmdExec |-> "False"]
Default2x1 == Defaults(2, 1)
Default3x1 == Defaults(3, 1)

\* What clients write to each key: nothing but to the keys named.
NoWrites == [k \in Keys |-> {}]

\* A limit of -1 and frames of at most 1 byte are beyond the edges of the
\* ranges the settings are kept in.
LimitWrites == [NoWrites EXCEPT !["EleEnabled"] = {"True"},
                                !["maxSess"]    = {-1, 1, 2},
                                !["maxPayload"] = {1}]

PolicyWrites == [NoWrites EXCEPT !["EleEnabled"] = {"True", "other"},
                                 !["maxSess"]    = {1},
                                 !["tknExpire"]  = {2}]

\* Nobody writes EleEnabled = True.
ClosedWrites == [NoWrites EXCEPT !["EleEnabled"] = {"False", "other"},
                                 !["EnCmdExec"]  = {"True"},
                                 !["tknExpire"]  = {1},
                                 !["maxSess"]    = {1}]

\* No action reads last, and no property reads it unprimed: states that differ
\* in it alone have the same successors.
StateView == <<sess, stCnt, cfg, hs, rng, shake>>

UserSymmetry == Permutations(Users)
IpSymmetry   == Permutations(Ips)
=============================================================================
