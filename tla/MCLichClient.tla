---------------------------- MODULE MCLichClient ----------------------------
(* A console and a flow at one address. *)
EXTENDS LichClient, TLC

CONSTANTS p1, u1

Letters == [u \in Users |-> 6]
Defaults == [timeout |-> 10, maxChunkSize |-> 256, serverPort |-> 9001,
             tknExpire |-> 1, maxSess |-> 2, maxPayload |-> 256,
             CmdSize |-> 256, EleEnabled |-> "False", EnCmdExec |-> "False"]
Writes == [[k \in Keys |-> {}] EXCEPT !["EleEnabled"] = {"False", "True"},
                                    !["maxPayload"] = {512}, !["EnCmdExec"] = {"True"}]
OneAddress == [c \in Clients |-> p1] @@ <<>>
FlowsUser == [c \in Flows |-> u1] @@ <<>>
SlowRequests == {<<"flow","SB_ELEVATE">>}

\* No action reads last or shake, and no property of the run does.
ClientView == <<sess, stCnt, cfg, hs, rng, clientVars>>
=============================================================================
