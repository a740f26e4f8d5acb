----------------------------- MODULE LichClient -----------------------------
(***************************************************************************)
(* The clients of the Lich server (client.py) together with the server:    *)
(* one connection per request, a queue of connections before a server of   *)
(* one thread that receives, answers and closes them one at a time, and    *)
(* clients that give up on an answer while the request is still queued.    *)
(*                                                                         *)
(* A client runs runSession, where the user types any command at any time, *)
(* or runFlow, the fixed sequence of requests.  What the server does with  *)
(* a request is LichServer's.                                              *)
(***************************************************************************)
EXTENDS LichServer, Sequences

CONSTANTS
  Sessions,     \* the clients that run runSession
  Flows,        \* the clients that run runFlow
  FlowUser,     \* --user of each flow
  IpOf,         \* the address of each client
  Commands,     \* the kinds of command with a token that users type
  Typed,        \* what users write to EleEnabled
  NoToken,      \* sess["token"] = None
  Idle,         \* no request is under way, or no answer is there
  Backlog,      \* bound: connections that wait or are served
  Slow,         \* <<client, kind>>: the requests whose frames arrive in pieces
  MaxPieces     \* bound: pieces of a frame still to arrive

Clients == Sessions \cup Flows

ASSUME ClientsAssumption ==
  /\ Sessions \cap Flows = {}
  /\ FlowUser \in [Flows -> Users] /\ IpOf \in [Clients -> Ips]
  /\ Backlog \in Nat \ {0} /\ MaxPieces \in Nat
  /\ NoToken \notin Tokens

VARIABLES
  token,    \* token[c]: what the client would send
  login,    \* history: user and token of the last login answered to c
  step,     \* step[c]: the request runFlow has come to, Failed or Returned at its end
  open,     \* open[c]: the request c waits for the answer of, or Idle
  queue,    \* connections in the order they were made, the first one being served
  answer    \* answer[c]: the answer on its way to c, or Idle

clientVars == <<token, login, step, open, queue, answer>>
allVars == <<vars, clientVars>>

Request(kind, tok, user, key, value) ==
  [kind |-> kind, token |-> tok, user |-> user, key |-> key, value |-> value]
NoUser  == "-"
NoLogin == [user |-> NoUser, token |-> NoToken]

\* The requests of runFlow are numbered; it ends by returning 1 or 0.
Steps    == 1 .. 8
Failed   == 0
Returned == 9

-----------------------------------------------------------------------------
(* Requests (the do... functions of client.py).                            *)

doHandshake == Request("AR", NoToken, NoUser, "", "")
doLogin(u)  == Request("SB_REQ", NoToken, u, "", "")
doSetCfg(t, key, value) == Request("NW_SETCFG", t, NoUser, key, value)
doElevate(t) == Request("SB_ELEVATE", t, NoUser, "", "")
doExec(t)   == Request("UW_EXEC", t, NoUser, "", "")
doLogout(t) == Request("ER_REQ", t, NoUser, "", "")

RequestsWith(t) ==
  {doElevate(t), doExec(t), doLogout(t)}
  \cup UNION {{doSetCfg(t, key, value) : value \in CfgVals[key]} : key \in Keys}
Requests ==
  {doHandshake} \cup {doLogin(u) : u \in Users}
  \cup UNION {RequestsWith(t) : t \in Tokens \cup {NoToken}}

\* What clients write is among what LichServer's clients write.
ASSUME RequestsAssumption ==
  /\ Idle \notin Requests
  /\ Typed \cup {"True"} \subseteq CfgVals["EleEnabled"]
  /\ 512 \in CfgVals["maxPayload"] /\ "True" \in CfgVals["EnCmdExec"]

\* Bound: no more logins under way than tokens can be drawn.
MayLogIn ==
  rng.drawn + Cardinality({k \in DOMAIN queue : queue[k].req.kind = "SB_REQ"}) < MaxDraws

\* requestFrame: connect and send.  A full backlog refuses the connection,
\* which changes nothing.
requestFrame(c, req) ==
  /\ open[c] = Idle /\ Len(queue) < Backlog
  /\ req.kind = "SB_REQ" => MayLogIn
  /\ open' = [open EXCEPT ![c] = req]
  /\ \E pieces \in 0 .. (IF <<c, req.kind>> \in Slow THEN MaxPieces ELSE 0) :
       queue' = Append(queue, [by |-> c, req |-> req, open |-> TRUE, missing |-> pieces])
  /\ UNCHANGED <<vars, token, login, step, answer>>

\* runSession: a command that needs a token is not sent without one.  Reading a
\* setting refreshes the session as a command that is denied does; BoneCourier
\* reseeds the generator, after which tokens repeat (LichServer), and is left
\* out, as is a token that is typed in.
WithToken(t) ==
  {doSetCfg(t, "EleEnabled", value) : value \in Typed}
  \cup {doElevate(t), doExec(t), doLogout(t)}
command(c) ==
  /\ c \in Sessions
  /\ \/ requestFrame(c, doHandshake)
     \/ \E u \in Users : requestFrame(c, doLogin(u))
     \/ token[c] # NoToken /\ \E req \in WithToken(token[c]) : req.kind \in Commands /\ requestFrame(c, req)

\* runFlow: its requests in order.
FlowRequests(u, t) ==
  << doHandshake, doLogin(u), doSetCfg(t, "EleEnabled", "True"), doElevate(t),
     doSetCfg(t, "maxPayload", 512), doSetCfg(t, "EnCmdExec", "True"), doExec(t),
     doLogout(t) >>
flow(c) ==
  /\ c \in Flows /\ step[c] \in Steps
  /\ requestFrame(c, FlowRequests(FlowUser[c], token[c])[step[c]])

-----------------------------------------------------------------------------
(* Answers.                                                                *)

\* The token the client takes from an answer: a granted login or elevation
\* names one, and a console forgets its token when a logout is answered.
\* Slip: the token of an elevation's answer is lost.
TokenAfter_Lost(c) ==
  CASE answer[c].code = "SB_RESP" /\ open[c].kind = "SB_REQ" -> answer[c].token
    [] answer[c].code = "SB_RESP" -> NoToken
    [] open[c].kind = "ER_REQ" /\ c \in Sessions -> NoToken
    [] OTHER -> token[c]
TokenAfter(c) ==
  CASE answer[c].code = "SB_RESP" -> answer[c].token
    [] open[c].kind = "ER_REQ" /\ c \in Sessions -> NoToken
    [] OTHER -> token[c]
LoginAfter(c) ==
  CASE answer[c].code = "SB_RESP" /\ open[c].kind = "SB_REQ" ->
         [user |-> open[c].user, token |-> answer[c].token]
    [] open[c].kind = "ER_REQ" /\ c \in Sessions -> NoLogin
    [] OTHER -> login[c]

\* runFlow stops when the handshake, the login or the elevation fails, and
\* does not look at the other answers.
\* Slip: nor at that of the elevation.
StepAfter_Blind(c) ==
  CASE c \in Sessions -> step[c]
    [] step[c] = 1 /\ answer[c].code # "ARISE_RESP" -> Failed
    [] step[c] = 2 /\ answer[c].code # "SB_RESP" -> Failed
    [] OTHER -> step[c] + 1
StepAfter(c) ==
  CASE c \in Sessions -> step[c]
    [] step[c] = 1 /\ answer[c].code # "ARISE_RESP" -> Failed
    [] step[c] \in {2, 4} /\ answer[c].code # "SB_RESP" -> Failed
    [] OTHER -> step[c] + 1

receive(c) ==
  /\ open[c] # Idle /\ answer[c] # Idle /\ answer[c].code # "closed"
  /\ open' = [open EXCEPT ![c] = Idle] /\ answer' = [answer EXCEPT ![c] = Idle]
  /\ token' = [token EXCEPT ![c] = TokenAfter(c)]
  /\ login' = [login EXCEPT ![c] = LoginAfter(c)]
  /\ step' = [step EXCEPT ![c] = StepAfter(c)]
  /\ UNCHANGED <<vars, queue>>

\* The connection times out, or is closed without an answer: an exception,
\* which ends a flow and leaves a session's token as it is.  The socket is
\* closed; the request stays where it is.
\* Slip: the socket is kept, and what it receives answers the next request.
giveUp_Kept(c) ==
  /\ open[c] # Idle
  /\ step' = [step EXCEPT ![c] = IF c \in Flows THEN Failed ELSE @]
  /\ open' = [open EXCEPT ![c] = Idle]
  /\ UNCHANGED <<vars, token, login, queue, answer>>
giveUp(c) ==
  /\ open[c] # Idle
  /\ step' = [step EXCEPT ![c] = IF c \in Flows THEN Failed ELSE @]
  /\ open' = [open EXCEPT ![c] = Idle] /\ answer' = [answer EXCEPT ![c] = Idle]
  /\ queue' = [k \in DOMAIN queue |-> [queue[k] EXCEPT !.open = @ /\ queue[k].by # c]]
  /\ UNCHANGED <<vars, token, login>>

-----------------------------------------------------------------------------
(* The server's loop.                                                      *)

Reply(conn, code, tok) ==
  answer' = IF conn.open THEN [answer EXCEPT ![conn.by] = [code |-> code, token |-> tok]]
            ELSE answer

\* A piece of a frame arrives.
arrive ==
  \E k \in DOMAIN queue :
    /\ queue[k].missing > 0
    /\ queue' = [queue EXCEPT ![k].missing = @ - 1]
    /\ UNCHANGED <<vars, token, login, step, open, answer>>

\* nRec waits for each piece for some time only.  Without the whole header
\* the connection is closed, without the whole payload it is answered.
\* Slip: select waits without a limit.
nRecFails_Waits == /\ queue # <<>> /\ Head(queue).missing > 0
                   /\ UNCHANGED allVars
nRecFails ==
  /\ queue # <<>> /\ Head(queue).missing > 0
  /\ queue' = Tail(queue)
  /\ \E code \in {"closed", "MALFORMED"} : Reply(Head(queue), code, NoToken)
  /\ UNCHANGED <<vars, token, login, step, open>>

\* What the server does with a whole request from address p.
Known(tok) == {i \in Slots : FirstWithToken(i) /\ sess[i].token = tok}
refuse(tok) ==
  /\ refuseToken
  /\ sess' = [i \in Slots |-> IF i \in Known(tok) /\ Stale(i) THEN Free ELSE sess[i]]
withSession(i, req) ==
  \/ req.kind = "SB_ELEVATE" /\ handleSBEle(i, "elevateRequest")
  \/ req.kind = "NW_SETCFG" /\ handleNecroSet(i, req.key, req.value)
  \/ req.kind = "UW_EXEC" /\ \E n \in CmdLens : handleUW(i, n, TRUE)
  \/ req.kind = "ER_REQ" /\ handleER(i)
dispatch(p, req) ==
  \/ req.kind = "AR" /\ handleAR(p, TRUE)
  \/ req.kind = "SB_REQ" /\ (handleSBReq(p, req.user) \/ loginRefused(p))
  \/ /\ req.kind \in TokenKinds
     /\ \/ \E i \in Known(req.token) : ~stTE(i) /\ withSession(i, req)
        \/ (\A i \in Known(req.token) : stTE(i)) /\ refuse(req.token)

\* The token a SoulBind answer carries.
Granted(req) == IF req.kind = "SB_REQ" THEN NextToken ELSE req.token

serve ==
  /\ queue # <<>> /\ Head(queue).missing = 0
  /\ queue' = Tail(queue)
  /\ \E conn \in {Head(queue)} :
       /\ dispatch(IpOf[conn.by], conn.req)
       /\ Reply(conn, last'.code, Granted(conn.req))
  /\ UNCHANGED <<token, login, step, open>>

-----------------------------------------------------------------------------
ClientInit ==
  /\ Init
  /\ token = [c \in Clients |-> NoToken] /\ login = [c \in Clients |-> NoLogin]
  /\ step = [c \in Clients |-> IF c \in Flows THEN 1 ELSE Failed]
  /\ open = [c \in Clients |-> Idle] /\ answer = [c \in Clients |-> Idle]
  /\ queue = <<>>

Second == Tick /\ UNCHANGED clientVars

ClientNext ==
  \/ \E c \in Clients :
       command(c) \/ flow(c) \/ receive(c) \/ giveUp(c)
  \/ arrive \/ nRecFails \/ serve
  \/ Second

\* The server's thread goes on, and a client takes what it is sent, an answer
\* or the end of the connection.  Nothing is assumed of pieces under way, nor
\* of the users.
nextConnection == nRecFails \/ serve
takeAnswer(c)  == receive(c) \/ (answer[c] # Idle /\ giveUp(c))
ClientSpec ==
  /\ ClientInit /\ [][ClientNext]_allVars
  /\ WF_queue(nextConnection) /\ \A c \in Clients : WF_open(takeAnswer(c))

-----------------------------------------------------------------------------
(* Properties.                                                             *)

ClientTypeOK ==
  /\ TypeOK
  /\ token \in [Clients -> Tokens \cup {NoToken}]
  /\ login \in [Clients -> [user : Users, token : Tokens] \cup {NoLogin}]
  /\ step \in [Clients -> Steps \cup {Failed, Returned}]
  /\ Len(queue) <= Backlog
  /\ \A c \in Clients : answer[c] # Idle => open[c] # Idle

\* The token a client holds never names another user's session than that of
\* the login it saw answered, though answers come late, requests are executed
\* after they were given up, and the console changes its user before the
\* login (client.py, runSession).
HeldTokenIsOwn ==
  \A c \in Clients, i \in Slots :
    sess[i] # Free /\ sess[i].token = token[c] => sess[i].user = login[c].user

\* A flow that returned 0, and whose logout arrived whole, has left no session
\* of its login behind, although it looks at neither the answer to its
\* logout nor the time since its last request (runFlow).
CompletedFlowLoggedOut ==
  \A c \in Flows, i \in Slots :
    <<c, "ER_REQ">> \notin Slow /\ step[c] = Returned /\ sess[i] # Free => sess[i].token # login[c].token

\* Past the elevation a flow's session is ADMIN or gone, whoever logs in as
\* the same user, or turns elevation off, meanwhile.
FlowActsElevated ==
  \A c \in Flows, i \in Slots :
    step[c] \in 5 .. 8 /\ sess[i] # Free /\ sess[i].token = login[c].token
      => sess[i].level = "ADMIN"

\* Every request is answered or its connection closed, even when the frame
\* before it never arrives in full: a client need not give up by itself.
QueuedIsServed == \A c \in Clients : open[c] # Idle ~> open[c] = Idle
=============================================================================
