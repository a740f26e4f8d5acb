-------------------------- MODULE LichClientProofs --------------------------
(***************************************************************************)
(* The clients and the server together, for any number of clients and      *)
(* users, any backlog, and any requests whose frames arrive in pieces.     *)
(***************************************************************************)
EXTENDS LichClient, LichServerProofs, SequenceTheorems

\* What the requests that carry a token are made of.
LEMMA TokenRequests ==
  ASSUME NEW t \in Tokens \cup {NoToken}, NEW req \in RequestsWith(t)
  PROVE  /\ req \in Requests
         /\ req.kind \in {"SB_ELEVATE", "NW_SETCFG", "UW_EXEC", "ER_REQ"}
         /\ req.token = t
         /\ req.kind = "NW_SETCFG" => req.key \in Keys /\ req.value \in CfgVals[req.key]
<1>1. CASE req = doElevate(t)
  BY <1>1 DEF doElevate, Request, Requests
<1>2. CASE req = doExec(t)
  BY <1>2 DEF doExec, Request, Requests
<1>3. CASE req = doLogout(t)
  BY <1>3 DEF doLogout, Request, Requests
<1>4. ASSUME NEW key \in Keys, NEW value \in CfgVals[key], req = doSetCfg(t, key, value)
      PROVE  req.kind = "NW_SETCFG" /\ req.token = t /\ req.key = key /\ req.value = value
  BY <1>4 DEF doSetCfg, Request
<1>5. req \in Requests
  BY DEF Requests
<1> QED
  BY <1>1, <1>2, <1>3, <1>4, <1>5 DEF RequestsWith

\* What all requests are made of.
LEMMA RequestFields ==
  ASSUME NEW req \in Requests
  PROVE  /\ req.kind \in {"AR", "SB_REQ", "SB_ELEVATE", "NW_SETCFG", "UW_EXEC", "ER_REQ"}
         /\ req.token \in Tokens \cup {NoToken}
         /\ req.kind = "SB_REQ" => req.user \in Users
         /\ req.kind = "NW_SETCFG" => req.key \in Keys /\ req.value \in CfgVals[req.key]
<1>1. CASE req = doHandshake
  BY <1>1 DEF doHandshake, Request
<1>2. ASSUME NEW u \in Users, req = doLogin(u)
      PROVE  req.kind = "SB_REQ" /\ req.user = u /\ req.token = NoToken
  BY <1>2 DEF doLogin, Request
<1>3. ASSUME NEW t \in Tokens \cup {NoToken}, req \in RequestsWith(t)
      PROVE  /\ req.kind \in {"SB_ELEVATE", "NW_SETCFG", "UW_EXEC", "ER_REQ"}
             /\ req.token = t
             /\ req.kind = "NW_SETCFG" => req.key \in Keys /\ req.value \in CfgVals[req.key]
  BY <1>3, TokenRequests
<1>4. \/ req = doHandshake
      \/ \E u \in Users : req = doLogin(u)
      \/ \E t \in Tokens \cup {NoToken} : req \in RequestsWith(t)
  BY DEF Requests
<1> QED
  BY <1>1, <1>2, <1>3, <1>4

-----------------------------------------------------------------------------
(* What the server does with a request.                                    *)

\* What is known of the server whatever requests it has served.
ServerInv ==
  /\ TypeOK /\ CountCoversActive /\ OneSessionPerUser /\ DrawnBefore
  /\ rng.seed = "boot"

\* A token that was drawn.
Past(t) == t \in Tokens /\ t[1] = "boot" /\ t[2] <= rng.drawn

\* A session goes on.
Continues(i) ==
  /\ sess[i] # Free
  /\ sess'[i].user = sess[i].user /\ sess'[i].token = sess[i].token
  /\ sess[i].level = "ADMIN" => sess'[i].level = "ADMIN"

\* Sessions go on, end, or begin with the next token.
ServerEffect ==
  /\ rng'.seed = "boot" /\ rng'.drawn \in Nat /\ rng.drawn <= rng'.drawn
  /\ \A i \in Slots : sess'[i] # Free =>
       Continues(i) \/ (sess'[i].token = NextToken /\ rng'.drawn = rng.drawn + 1)

\* Time, and the steps of the clients, end no session and begin none.
LEMMA QuietEffect ==
  ASSUME ServerInv, Tick \/ UNCHANGED vars
  PROVE  ServerEffect
<1>. rng.drawn \in Nat /\ rng.seed = "boot"
  BY BoundsAssumption DEF ServerInv, TypeOK
<1>1. CASE UNCHANGED vars
  BY <1>1 DEF vars, ServerEffect, Continues
<1>2. CASE Tick
  <2>1. \A i \in Slots : sess'[i] # Free => Continues(i)
    BY <1>2 DEF Tick, Continues, ServerInv, TypeOK, Session
  <2> QED
    BY <1>2, <2>1 DEF Tick, ServerEffect
<1> QED
  BY <1>1, <1>2

\* Every request the clients send is one LichServer's clients send.
LEMMA DispatchIsNext ==
  ASSUME NEW p \in Ips, NEW req \in Requests, dispatch(p, req)
  PROVE  Next
<1>1. CASE req.kind = "AR" /\ handleAR(p, TRUE)
  BY <1>1 DEF Next, SessionlessRequests
<1>2. CASE req.kind = "SB_REQ" /\ (handleSBReq(p, req.user) \/ loginRefused(p))
  BY <1>2, RequestFields DEF Next, SessionlessRequests
<1>3. CASE refuse(req.token)
  BY <1>3 DEF Next, Refusals, refuse
<1>4. ASSUME NEW i \in Known(req.token), withSession(i, req)
      PROVE  Next
  <2>1. i \in Slots
    BY DEF Known
  <2> QED
    BY <1>4, <2>1, RequestFields DEF withSession, Next, SessionRequests
<1> QED
  BY <1>1, <1>2, <1>3, <1>4 DEF dispatch

\* No two sessions share a token, so the first one with it is any.
LEMMA KnownIsAll ==
  ASSUME ServerInv, NEW i \in Slots, sess[i] # Free
  PROVE  i \in Known(sess[i].token) /\ FirstWithToken(i)
         /\ \A j \in Slots : sess[j] # Free /\ sess[j].token = sess[i].token => j = i
<1>1. \A j \in Slots : sess[j] # Free /\ sess[j].token = sess[i].token => j = i
  BY DEF ServerInv, DrawnBefore
<1>2. i \in Active(sess) /\ Active(sess) \subseteq {j \in Slots : sess[j] # Free}
  BY DEF Active, Used, ServerInv, CountCoversActive
<1>3. FirstWithToken(i)
  <2>1. \A j \in Active(sess) : j < i => sess[j].token # sess[i].token
    BY <1>1, <1>2 DEF Slots
  <2> QED
    BY <1>2, <2>1 DEF FirstWithToken
<1> QED
  BY <1>1, <1>3 DEF Known

\* A login: the sessions that were there go on or end, and the new one has the
\* next token and the user who asked.
LEMMA LoginServed ==
  ASSUME ServerInv, NEW p \in Ips, NEW u \in Users, handleSBReq(p, u)
  PROVE  /\ rng'.drawn = rng.drawn + 1 /\ rng'.seed = "boot" /\ NextToken \in Tokens
         /\ \A i \in Slots : sess'[i] # Free =>
              Continues(i) \/ (sess'[i].token = NextToken /\ sess'[i].user = u)
<1>1. /\ rng'.drawn = rng.drawn + 1 /\ rng'.seed = "boot" /\ NextToken \in Tokens
  BY BoundsAssumption DEF handleSBReq, gT, ServerInv, TypeOK, NextToken, Tokens
<1>2. ASSUME NEW i \in Slots, sess'[i] # Free
      PROVE  Continues(i) \/ (sess'[i].token = NextToken /\ sess'[i].user = u)
  <2>1. sess'[i] = NewSession(u, NextToken) \/ sess'[i] = sess[i]
    BY <1>2, LoginEffect DEF ServerInv
  <2> QED
    BY <1>2, <2>1 DEF NewSession, Continues
<1> QED
  BY <1>1, <1>2

\* Every other request leaves the sessions' users and tokens.
LEMMA OtherServed ==
  ASSUME ServerInv, Next, UNCHANGED rng
  PROVE  \A i \in Slots : sess'[i] # Free => Continues(i)
<1>1. KeepsSessions
  <2>1. ~ \E p \in Ips, u \in Users : handleSBReq(p, u)
    BY BoundsAssumption DEF handleSBReq, gT, ServerInv, TypeOK
  <2> QED
    BY <2>1, TableEffect DEF ServerInv
<1> QED
  BY <1>1 DEF KeepsSessions, Continues

\* The codes a request can be answered with.
LEMMA DispatchCodes ==
  ASSUME NEW p \in Ips, NEW req \in Requests, dispatch(p, req),
         last'.code = "SB_RESP"
  PROVE  \/ req.kind = "SB_REQ" /\ handleSBReq(p, req.user)
         \/ /\ req.kind = "SB_ELEVATE"
            /\ \E i \in Known(req.token) : sess' = [Touched(i) EXCEPT ![i].level = "ADMIN"]
<1>1. ~ handleAR(p, TRUE) /\ ~ loginRefused(p) /\ ~ refuse(req.token)
  BY DEF handleAR, loginRefused, refuse, refuseToken, Answer
<1>2. ASSUME NEW i \in Known(req.token), withSession(i, req)
      PROVE  req.kind = "SB_ELEVATE" /\ sess' = [Touched(i) EXCEPT ![i].level = "ADMIN"]
  <2>1. ~ (\E n \in CmdLens : handleUW(i, n, TRUE)) /\ ~ handleER(i)
    BY DEF handleUW, handleER, Answer
  <2>2. ~ handleNecroSet(i, req.key, req.value)
    BY DEF handleNecroSet, Answer
  <2>3. req.kind = "SB_ELEVATE" /\ handleSBEle(i, "elevateRequest")
    BY <1>2, <2>1, <2>2 DEF withSession
  <2> QED
    BY <2>3 DEF handleSBEle, Answer
<1> QED
  BY <1>1, <1>2 DEF dispatch

\* Only a login draws a token.
LEMMA DispatchDraws ==
  ASSUME NEW p \in Ips, NEW req \in Requests, dispatch(p, req)
  PROVE  \/ req.kind = "SB_REQ" /\ handleSBReq(p, req.user)
         \/ UNCHANGED rng
<1>1. ASSUME NEW i \in Slots, withSession(i, req)
      PROVE  UNCHANGED rng
  BY <1>1 DEF withSession, handleSBEle, handleNecroSet, handleUW, handleER
<1>2. Known(req.token) \subseteq Slots
  BY DEF Known
<1> QED
  BY <1>1, <1>2 DEF dispatch, handleAR, loginRefused, refuse, refuseToken

\* A served request: sessions go on, end, or begin with the next token.
LEMMA DispatchEffect ==
  ASSUME ServerInv, NEW p \in Ips, NEW req \in Requests, dispatch(p, req)
  PROVE  ServerEffect
<1>. rng.drawn \in Nat /\ rng.seed = "boot"
  BY BoundsAssumption DEF ServerInv, TypeOK
<1>1. CASE req.kind = "SB_REQ" /\ handleSBReq(p, req.user)
  BY <1>1, LoginServed, RequestFields DEF ServerEffect
<1>2. CASE UNCHANGED rng
  BY <1>2, DispatchIsNext, OtherServed DEF ServerEffect
<1> QED
  BY <1>1, <1>2, DispatchDraws

-----------------------------------------------------------------------------
(* What stays true of a token that was drawn.                              *)

\* Sessions with the token are the user's.
Owned(u, t) == \A i \in Slots : sess[i] # Free /\ sess[i].token = t => sess[i].user = u
\* They are elevated.
Elevated(t) == \A i \in Slots : sess[i] # Free /\ sess[i].token = t => sess[i].level = "ADMIN"
\* There is none.
LoggedOut(t) == \A i \in Slots : sess[i] # Free => sess[i].token # t

\* A token that was drawn is not drawn again, so what its sessions are, they
\* remain.
LEMMA PastStays ==
  ASSUME ServerInv, ServerEffect, NEW t, Past(t)
  PROVE  /\ Past(t)'
         /\ \A u : Owned(u, t) => Owned(u, t)'
         /\ Elevated(t) => Elevated(t)'
         /\ LoggedOut(t) => LoggedOut(t)'
<1>1. Past(t)'
  <2>1. rng.drawn \in Nat /\ rng'.drawn \in Nat /\ rng.drawn <= rng'.drawn
    BY BoundsAssumption DEF ServerInv, TypeOK, ServerEffect
  <2>2. t \in Tokens /\ t[1] = "boot" /\ t[2] \in Nat /\ t[2] <= rng.drawn
    BY DEF Past, Tokens
  <2>3. t[2] <= rng'.drawn
    BY <2>1, <2>2
  <2> QED
    BY <2>2, <2>3 DEF Past
<1>2. NextToken # t
  BY DEF NextToken, Past, Tokens, ServerInv, TypeOK
<1>3. \A i \in Slots : sess'[i] # Free /\ sess'[i].token = t => Continues(i)
  BY <1>2 DEF ServerEffect
<1> QED
  BY <1>1, <1>3 DEF Continues, Owned, Elevated, LoggedOut

\* A granted login names a session of its user, if any.
LEMMA LoginGranted ==
  ASSUME ServerInv, NEW p \in Ips, NEW u \in Users, handleSBReq(p, u), NEW t, t = NextToken
  PROVE  Past(t)' /\ Owned(u, t)'
<1>1. /\ rng'.drawn = rng.drawn + 1 /\ rng'.seed = "boot" /\ t \in Tokens
      /\ \A i \in Slots : sess'[i] # Free =>
           Continues(i) \/ (sess'[i].token = t /\ sess'[i].user = u)
  BY LoginServed
<1>2. t[1] = "boot" /\ t[2] = rng.drawn + 1 /\ rng.drawn \in Nat
  BY BoundsAssumption DEF NextToken, ServerInv, TypeOK
<1>3. Past(t)'
  BY <1>1, <1>2 DEF Past
<1>4. \A i \in Slots : sess[i] # Free => sess[i].token # t
  <2>1. \A i \in Slots : sess[i] # Free => sess[i].token[2] <= rng.drawn
    BY DEF ServerInv, DrawnBefore
  <2> QED
    BY <1>2, <2>1
<1>. QED
  BY <1>1, <1>3, <1>4 DEF Owned, Continues

-----------------------------------------------------------------------------
(* Connections.                                                            *)

Connections == [by : Clients, req : Requests, open : BOOLEAN, missing : Nat]

ConnInv ==
  /\ queue \in Seq(Connections) /\ Len(queue) <= Backlog
  /\ open \in [Clients -> Requests \cup {Idle}]
  /\ answer = [c \in Clients |-> answer[c]]
  /\ \A c \in Clients : answer[c] # Idle => open[c] # Idle
  /\ \A k \in 1 .. Len(queue) :
       /\ <<queue[k].by, queue[k].req.kind>> \notin Slow => queue[k].missing = 0
       /\ queue[k].open => /\ open[queue[k].by] = queue[k].req
                          /\ answer[queue[k].by] = Idle
  /\ \A k, l \in 1 .. Len(queue) :
       queue[k].open /\ queue[l].open /\ queue[k].by = queue[l].by => k = l

\* The queue goes on, without its first d connections.
Shifted(d) ==
  /\ queue' \in Seq(Connections) /\ Len(queue') = Len(queue) - d
  /\ \A k \in 1 .. Len(queue') :
       /\ queue'[k].by = queue[k + d].by /\ queue'[k].req = queue[k + d].req
       /\ queue'[k].open => queue[k + d].open
       /\ queue[k + d].missing = 0 => queue'[k].missing = 0

\* The invariant of the connections survives the loss of the first ones, and
\* connections that are closed or lose a piece.
LEMMA ShiftKeeps ==
  ASSUME ConnInv, NEW d \in {0, 1}, Shifted(d),
         open' \in [Clients -> Requests \cup {Idle}],
         answer' = [c \in Clients |-> answer'[c]],
         \A c \in Clients : answer'[c] # Idle => open'[c] # Idle,
         \A k \in 1 .. Len(queue') :
           queue'[k].open => /\ open'[queue'[k].by] = open[queue'[k].by]
                             /\ answer'[queue'[k].by] = answer[queue'[k].by]
  PROVE  ConnInv'
<1>1. Len(queue) \in Nat /\ Len(queue') = Len(queue) - d /\ Backlog \in Nat
  BY LenProperties, ClientsAssumption DEF ConnInv, Shifted
<1>2. \A k \in 1 .. Len(queue') : k + d \in 1 .. Len(queue)
  BY <1>1
<1>3. Len(queue') <= Backlog
  BY <1>1 DEF ConnInv
<1>4. ASSUME NEW k \in 1 .. Len(queue')
      PROVE  /\ <<queue'[k].by, queue'[k].req.kind>> \notin Slow => queue'[k].missing = 0
             /\ queue'[k].open => /\ open'[queue'[k].by] = queue'[k].req
                                 /\ answer'[queue'[k].by] = Idle
  <2>1. k + d \in 1 .. Len(queue)
    BY <1>2
  <2>2. /\ <<queue[k + d].by, queue[k + d].req.kind>> \notin Slow => queue[k + d].missing = 0
        /\ queue[k + d].open => /\ open[queue[k + d].by] = queue[k + d].req
                               /\ answer[queue[k + d].by] = Idle
    BY <2>1 DEF ConnInv
  <2>3. /\ queue'[k].by = queue[k + d].by /\ queue'[k].req = queue[k + d].req
        /\ queue'[k].open => queue[k + d].open
        /\ queue[k + d].missing = 0 => queue'[k].missing = 0
    BY DEF Shifted
  <2> QED
    BY <2>2, <2>3
<1>5. ASSUME NEW k \in 1 .. Len(queue'), NEW l \in 1 .. Len(queue'),
             queue'[k].open, queue'[l].open, queue'[k].by = queue'[l].by
      PROVE  k = l
  <2>1. k + d = l + d
    BY <1>2, <1>5 DEF ConnInv, Shifted
  <2> QED
    BY <1>1, <2>1
<1> QED
  BY <1>3, <1>4, <1>5 DEF ConnInv, Shifted

\* The server answers the first connection and closes it.
LEMMA FirstLeaves ==
  ASSUME ConnInv, queue # <<>>, queue' = Tail(queue), UNCHANGED open,
         NEW code, NEW tok, Reply(Head(queue), code, tok)
  PROVE  /\ ConnInv'
         /\ Head(queue) \in Connections /\ Head(queue) = queue[1] /\ 1 \in 1 .. Len(queue)
         /\ Head(queue).open => open[Head(queue).by] = Head(queue).req
         /\ \A c \in Clients :
              \/ answer'[c] = answer[c]
              \/ /\ c = Head(queue).by /\ Head(queue).open
                 /\ answer'[c] = [code |-> code, token |-> tok]
<1>1. /\ Head(queue) \in Connections /\ Tail(queue) \in Seq(Connections)
      /\ Len(Tail(queue)) = Len(queue) - 1
      /\ \A k \in 1 .. Len(Tail(queue)) : Tail(queue)[k] = queue[k + 1]
  BY HeadTailProperties DEF ConnInv
<1>2. Len(queue) \in Nat \ {0} /\ Head(queue) = queue[1]
  BY EmptySeq, LenProperties DEF ConnInv
<1>3. Shifted(1)
  BY <1>1 DEF Shifted
<1>4. /\ Head(queue).by \in Clients /\ Head(queue).req \in Requests
      /\ 1 \in 1 .. Len(queue)
  BY <1>1, <1>2 DEF Connections
<1>5. Head(queue).open => open[Head(queue).by] = Head(queue).req
  BY <1>2, <1>4 DEF ConnInv
<1>6. \A c \in Clients :
        \/ answer'[c] = answer[c]
        \/ /\ c = Head(queue).by /\ Head(queue).open
           /\ answer'[c] = [code |-> code, token |-> tok]
  BY DEF Reply, ConnInv
<1>7. answer' = [c \in Clients |-> answer'[c]]
  BY DEF Reply, ConnInv
<1>8. \A c \in Clients : answer'[c] # Idle => open'[c] # Idle
  BY <1>4, <1>5, <1>6, RequestsAssumption DEF ConnInv
<1>9. ASSUME NEW k \in 1 .. Len(queue'), queue'[k].open
      PROVE  answer'[queue'[k].by] = answer[queue'[k].by]
  <2>1. /\ k + 1 \in 1 .. Len(queue) /\ k + 1 # 1
        /\ queue'[k] = queue[k + 1] /\ queue'[k] \in Connections
    BY <1>1, <1>2, ElementOfSeq
  <2>2. queue[k + 1].open /\ queue[1].open /\ queue[k + 1].by = queue[1].by => k + 1 = 1
    BY <1>4, <2>1 DEF ConnInv
  <2>3. ~ (queue'[k].by = Head(queue).by /\ Head(queue).open)
    BY <1>2, <1>9, <2>1, <2>2
  <2> QED
    BY <1>6, <2>1, <2>3 DEF Connections
<1> QED
  BY <1>1, <1>2, <1>3, <1>4, <1>5, <1>6, <1>7, <1>8, <1>9, ShiftKeeps DEF ConnInv

\* A connection that is open is that of a client who waits for its answer.
LEMMA OpenWaits ==
  ASSUME ConnInv, NEW k \in 1 .. Len(queue), queue[k].open
  PROVE  /\ queue[k].by \in Clients /\ queue[k].req \in Requests
         /\ open[queue[k].by] = queue[k].req /\ open[queue[k].by] # Idle
         /\ answer[queue[k].by] = Idle
<1>1. queue[k] \in Connections
  BY ElementOfSeq DEF ConnInv
<1>2. open[queue[k].by] = queue[k].req /\ answer[queue[k].by] = Idle
  BY DEF ConnInv
<1> QED
  BY <1>1, <1>2, RequestsAssumption DEF Connections

\* A client connects and sends.
LEMMA SendKeeps ==
  ASSUME ConnInv, NEW c \in Clients, NEW req \in Requests, requestFrame(c, req)
  PROVE  ConnInv'
<1>1. PICK pieces \in Nat :
        /\ queue' = Append(queue, [by |-> c, req |-> req, open |-> TRUE, missing |-> pieces])
        /\ <<c, req.kind>> \notin Slow => pieces = 0
  <2>1. PICK pieces \in 0 .. (IF <<c, req.kind>> \in Slow THEN MaxPieces ELSE 0) :
          queue' = Append(queue, [by |-> c, req |-> req, open |-> TRUE, missing |-> pieces])
    BY DEF requestFrame
  <2>2. pieces \in Nat /\ (<<c, req.kind>> \notin Slow => pieces = 0)
    BY ClientsAssumption
  <2> QED
    BY <2>1, <2>2
<1>. DEFINE conn == [by |-> c, req |-> req, open |-> TRUE, missing |-> pieces]
<1>2. /\ conn \in Connections /\ conn.by = c /\ conn.req = req /\ conn.missing = pieces
  BY DEF Connections
<1>3. /\ open[c] = Idle /\ Len(queue) < Backlog /\ UNCHANGED answer
      /\ open' = [open EXCEPT ![c] = req] /\ answer[c] = Idle
  BY DEF requestFrame, ConnInv
<1>4. Len(queue) \in Nat /\ Backlog \in Nat /\ queue \in Seq(Connections)
  BY LenProperties, ClientsAssumption DEF ConnInv
<1>5. queue' = Append(queue, conn)
  BY <1>1
<1>. HIDE DEF conn
<1>6. /\ queue' \in Seq(Connections) /\ Len(queue') = Len(queue) + 1
      /\ queue'[Len(queue) + 1] = conn
      /\ \A k \in 1 .. Len(queue) : queue'[k] = queue[k]
  BY <1>2, <1>4, <1>5, AppendProperties
<1>7. \A k \in 1 .. Len(queue) : queue[k].open => queue[k].by # c
  BY <1>3, OpenWaits
<1>8. Len(queue') <= Backlog
  BY <1>3, <1>4, <1>6
<1>9. open' \in [Clients -> Requests \cup {Idle}]
  BY <1>3 DEF ConnInv
<1>10. \A d \in Clients : answer'[d] # Idle => open'[d] # Idle
  BY <1>3 DEF ConnInv
<1>11. ASSUME NEW k \in 1 .. Len(queue')
       PROVE  /\ <<queue'[k].by, queue'[k].req.kind>> \notin Slow => queue'[k].missing = 0
              /\ queue'[k].open => /\ open'[queue'[k].by] = queue'[k].req
                                  /\ answer'[queue'[k].by] = Idle
  <2>1. CASE k = Len(queue) + 1
    BY <1>1, <1>2, <1>3, <1>6, <2>1 DEF ConnInv
  <2>2. CASE k \in 1 .. Len(queue)
    <3>1. queue[k].open => open[queue[k].by] = queue[k].req /\ answer[queue[k].by] = Idle
      BY <2>2 DEF ConnInv
    <3>2. <<queue[k].by, queue[k].req.kind>> \notin Slow => queue[k].missing = 0
      BY <2>2 DEF ConnInv
    <3>3. queue'[k] = queue[k] /\ queue[k] \in Connections
      BY <1>4, <1>6, <2>2, ElementOfSeq
    <3>4. queue[k].by \in Clients
      BY <3>3 DEF Connections
    <3>5. queue[k].open => open'[queue[k].by] = open[queue[k].by]
      BY <1>3, <1>7, <2>2, <3>4 DEF ConnInv
    <3> QED
      BY <1>3, <3>1, <3>2, <3>3, <3>5
  <2> QED
    BY <1>4, <1>6, <2>1, <2>2
<1>12. ASSUME NEW k \in 1 .. Len(queue'), NEW l \in 1 .. Len(queue'),
              queue'[k].open, queue'[l].open, queue'[k].by = queue'[l].by
       PROVE  k = l
  <2>1. CASE k \in 1 .. Len(queue) /\ l \in 1 .. Len(queue)
    BY <1>6, <1>12, <2>1 DEF ConnInv
  <2>2. CASE k = Len(queue) + 1 \/ l = Len(queue) + 1
    BY <1>2, <1>4, <1>6, <1>7, <1>12, <2>2
  <2> QED
    BY <1>4, <1>6, <2>1, <2>2
<1>13. answer' = [d \in Clients |-> answer'[d]]
  BY <1>3 DEF ConnInv
<1> QED
  BY <1>6, <1>8, <1>9, <1>10, <1>11, <1>12, <1>13 DEF ConnInv

\* A client takes its answer.
LEMMA ReceiveKeeps ==
  ASSUME ConnInv, NEW c \in Clients, receive(c)
  PROVE  ConnInv'
<1>1. /\ open[c] # Idle /\ answer[c] # Idle /\ queue' = queue
      /\ open' = [open EXCEPT ![c] = Idle] /\ answer' = [answer EXCEPT ![c] = Idle]
  BY DEF receive
<1>2. /\ open' \in [Clients -> Requests \cup {Idle}]
      /\ answer' = [d \in Clients |-> answer'[d]]
      /\ \A d \in Clients : answer'[d] # Idle => open'[d] # Idle
  BY <1>1 DEF ConnInv
<1>3. Shifted(0)
  BY <1>1, LenProperties DEF ConnInv, Shifted
<1>4. ASSUME NEW k \in 1 .. Len(queue), queue[k].open
      PROVE  queue[k].by \in Clients \ {c}
  BY <1>1, <1>4, OpenWaits
<1>5. \A k \in 1 .. Len(queue') :
        queue'[k].open => /\ open'[queue'[k].by] = open[queue'[k].by]
                          /\ answer'[queue'[k].by] = answer[queue'[k].by]
  BY <1>1, <1>4 DEF ConnInv
<1> QED
  BY <1>2, <1>3, <1>5, ShiftKeeps

\* A client gives up: what it sent stays where it is.
LEMMA GiveUpKeeps ==
  ASSUME ConnInv, NEW c \in Clients, giveUp(c)
  PROVE  ConnInv'
<1>1. /\ queue' = [k \in DOMAIN queue |-> [queue[k] EXCEPT !.open = @ /\ queue[k].by # c]]
      /\ open' = [open EXCEPT ![c] = Idle] /\ answer' = [answer EXCEPT ![c] = Idle]
  BY DEF giveUp
<1>2. /\ open' \in [Clients -> Requests \cup {Idle}]
      /\ answer' = [d \in Clients |-> answer'[d]]
      /\ \A d \in Clients : answer'[d] # Idle => open'[d] # Idle
  BY <1>1 DEF ConnInv
<1>3. Len(queue) \in Nat /\ DOMAIN queue = 1 .. Len(queue)
      /\ \A k \in 1 .. Len(queue) : queue[k] \in Connections
  BY LenProperties, ElementOfSeq DEF ConnInv
<1>4. ASSUME NEW k \in 1 .. Len(queue)
      PROVE  /\ queue'[k] \in Connections
             /\ queue'[k].by = queue[k].by /\ queue'[k].req = queue[k].req
             /\ queue'[k].missing = queue[k].missing
             /\ queue'[k].open => queue[k].open /\ queue[k].by # c
  BY <1>1, <1>3 DEF Connections
<1>5. queue' \in Seq(Connections) /\ Len(queue') = Len(queue)
  <2>1. queue' \in [1 .. Len(queue) -> Connections]
    BY <1>1, <1>3, <1>4
  <2> QED
    BY <1>3, <2>1
<1>6. Shifted(0)
  BY <1>3, <1>4, <1>5 DEF Shifted
<1>7. \A k \in 1 .. Len(queue') :
        queue'[k].open => /\ open'[queue'[k].by] = open[queue'[k].by]
                          /\ answer'[queue'[k].by] = answer[queue'[k].by]
  <2> SUFFICES ASSUME NEW k \in 1 .. Len(queue), queue'[k].open
               PROVE  /\ open'[queue'[k].by] = open[queue'[k].by]
                      /\ answer'[queue'[k].by] = answer[queue'[k].by]
    BY <1>5
  <2>1. queue'[k].by \in Clients \ {c}
    BY <1>4, OpenWaits
  <2> QED
    BY <1>1, <2>1 DEF ConnInv
<1> QED
  BY <1>2, <1>6, <1>7, ShiftKeeps

\* A piece of a frame arrives.
LEMMA ArriveKeeps ==
  ASSUME ConnInv, arrive
  PROVE  ConnInv'
<1>1. PICK j \in DOMAIN queue :
        queue[j].missing > 0 /\ queue' = [queue EXCEPT ![j].missing = @ - 1]
  BY DEF arrive
<1>2. UNCHANGED <<open, answer>>
  BY DEF arrive
<1>3. Len(queue) \in Nat /\ DOMAIN queue = 1 .. Len(queue)
      /\ \A k \in 1 .. Len(queue) : queue[k] \in Connections
  BY LenProperties, ElementOfSeq DEF ConnInv
<1>4. ASSUME NEW k \in 1 .. Len(queue)
      PROVE  /\ queue'[k] \in Connections
             /\ queue'[k].by = queue[k].by /\ queue'[k].req = queue[k].req
             /\ queue'[k].open = queue[k].open
             /\ queue[k].missing = 0 => queue'[k].missing = 0
  <2>1. CASE k = j
    BY <1>1, <1>3, <2>1 DEF Connections
  <2>2. CASE k # j
    BY <1>1, <1>3, <2>2
  <2> QED
    BY <2>1, <2>2
<1>5. queue' \in Seq(Connections) /\ Len(queue') = Len(queue)
  <2>1. queue' \in [1 .. Len(queue) -> Connections]
    BY <1>1, <1>3, <1>4
  <2> QED
    BY <1>3, <2>1
<1>6. Shifted(0)
  BY <1>3, <1>4, <1>5 DEF Shifted
<1> QED
  BY <1>2, <1>6, ShiftKeeps DEF ConnInv

-----------------------------------------------------------------------------
(* Every step of the composition is one of the server, or none.            *)

\* A connection that is served is one of a client with an address.
LEMMA ServeStep ==
  ASSUME ConnInv, serve
  PROVE  \E p \in Ips : dispatch(p, Head(queue).req)
<1>1. Head(queue) \in Connections
  BY HeadTailProperties DEF serve, ConnInv
<1>2. IpOf[Head(queue).by] \in Ips
  BY <1>1, ClientsAssumption DEF Connections, Clients
<1> QED
  BY <1>2 DEF serve

\* Every step of the composition is one the server takes or none.
LEMMA ServerStep ==
  ASSUME ConnInv, ServerInv, [ClientNext]_allVars
  PROVE  [Next]_vars /\ ServerEffect
<1>1. CASE serve
  <2>1. PICK p \in Ips : dispatch(p, Head(queue).req)
    BY <1>1, ServeStep
  <2>2. Head(queue).req \in Requests
    <3>1. Head(queue) \in Connections
      BY <1>1, HeadTailProperties DEF serve, ConnInv
    <3> QED
      BY <3>1 DEF Connections
  <2> QED
    BY <2>1, <2>2, DispatchIsNext, DispatchEffect
<1>2. CASE Tick
  BY <1>2, QuietEffect DEF Next
<1>3. CASE UNCHANGED vars
  BY <1>3, QuietEffect
<1>4. serve \/ Tick \/ UNCHANGED vars
  <2>1. ASSUME NEW c \in Clients, command(c) \/ flow(c) \/ receive(c) \/ giveUp(c)
        PROVE  UNCHANGED vars
    <3>1. ASSUME NEW req, requestFrame(c, req)
          PROVE  UNCHANGED vars
      BY <3>1 DEF requestFrame
    <3> QED
      BY <2>1, <3>1 DEF command, flow, receive, giveUp
  <2>2. arrive \/ nRecFails => UNCHANGED vars
    BY DEF arrive, nRecFails
  <2>3. UNCHANGED allVars => UNCHANGED vars
    BY DEF allVars
  <2> QED
    BY <2>1, <2>2, <2>3 DEF ClientNext, Second
<1> QED
  BY <1>1, <1>2, <1>3, <1>4

\* What is known of the server stays true.
LEMMA ServerStays ==
  ASSUME ServerInv, [Next]_vars, ServerEffect
  PROVE  ServerInv'
<1>1. SessionsInv'
  BY SessionsStep DEF ServerInv, SessionsInv
<1>2. DrawnBefore'
  BY DrawnStep DEF ServerInv
<1> QED
  BY <1>1, <1>2 DEF ServerInv, SessionsInv, ServerEffect

-----------------------------------------------------------------------------
(* What a client holds, and what is on its way to it.                      *)

ClientTypes ==
  /\ token \in [Clients -> Tokens \cup {NoToken}]
  /\ login \in [Clients -> [user : Users, token : Tokens] \cup {NoLogin}]
  /\ step \in [Clients -> Steps \cup {Failed, Returned}]

\* The token a client holds was drawn and names its own login, and so does
\* that of the request it waits for.
HoldInv(c) ==
  /\ login[c].token = token[c]
  /\ token[c] # NoToken => Past(token[c]) /\ Owned(login[c].user, token[c])
  /\ open[c] # Idle /\ open[c].kind \notin {"AR", "SB_REQ"} =>
       token[c] # NoToken /\ open[c].token = token[c]

AnswerInv(c) ==
  answer[c] # Idle =>
    /\ answer[c].code = "SB_RESP" =>
         \/ /\ open[c].kind = "SB_REQ"
            /\ Past(answer[c].token) /\ Owned(open[c].user, answer[c].token)
         \/ /\ open[c].kind = "SB_ELEVATE"
            /\ answer[c].token = token[c] /\ Elevated(token[c])
    /\ open[c].kind = "ER_REQ" /\ <<c, "ER_REQ">> \notin Slow => LoggedOut(token[c])

\* A flow waits for the answer its step asks for.
FlowInv(c) ==
  /\ c \in Sessions => step[c] = Failed
  /\ c \in Flows =>
       /\ open[c] # Idle =>
            step[c] \in Steps /\ open[c] = FlowRequests(FlowUser[c], token[c])[step[c]]
       /\ step[c] \in 3 .. 9 => token[c] # NoToken
       /\ step[c] \in 5 .. 9 => Elevated(token[c])
       /\ step[c] = Returned /\ <<c, "ER_REQ">> \notin Slow => LoggedOut(token[c])

\* Whatever the server does, a token that is held stays what it is.
LEMMA TokenStays ==
  ASSUME ServerInv, ServerEffect, NEW c \in Clients, HoldInv(c), token[c] # NoToken,
         token'[c] = token[c], login'[c] = login[c]
  PROVE  /\ Past(token[c])' /\ Owned(login[c].user, token[c])'
         /\ Elevated(token[c]) => Elevated(token[c])'
         /\ LoggedOut(token[c]) => LoggedOut(token[c])'
<1> SUFFICES ASSUME NEW tok, tok = token[c], NEW user, user = login[c].user
             PROVE  /\ Past(token[c])' /\ Owned(login[c].user, token[c])'
                    /\ Elevated(token[c]) => Elevated(token[c])'
                    /\ LoggedOut(token[c]) => LoggedOut(token[c])'
  OBVIOUS
<1>1. Past(tok) /\ Owned(user, tok)
  BY DEF HoldInv
<1>2. /\ Past(tok)' /\ Owned(user, tok)'
      /\ Elevated(tok) => Elevated(tok)'
      /\ LoggedOut(tok) => LoggedOut(tok)'
  BY <1>1, PastStays
<1> QED
  BY <1>2 DEF Past, Owned, Elevated, LoggedOut

\* So does all a client holds while it neither sends nor receives.
LEMMA HolderStays ==
  ASSUME ServerInv, ServerEffect, NEW c \in Clients, HoldInv(c), FlowInv(c),
         token'[c] = token[c], login'[c] = login[c], step'[c] = step[c],
         open'[c] = open[c]
  PROVE  HoldInv(c)' /\ FlowInv(c)'
<1>1. HoldInv(c)'
  BY TokenStays DEF HoldInv
<1>2. FlowInv(c)'
  BY TokenStays DEF FlowInv, FlowRequests, Returned
<1> QED
  BY <1>1, <1>2

\* A client is not disturbed by the steps of the others.
LEMMA BystanderStays ==
  ASSUME ServerInv, ServerEffect, ConnInv, NEW c \in Clients,
         HoldInv(c), AnswerInv(c), FlowInv(c),
         token'[c] = token[c], login'[c] = login[c], step'[c] = step[c],
         open'[c] = open[c], answer'[c] = answer[c]
  PROVE  HoldInv(c)' /\ FlowInv(c)' /\ AnswerInv(c)'
<1>1. AnswerInv(c)'
  <2> SUFFICES ASSUME answer'[c] # Idle
               PROVE  AnswerInv(c)'
    BY DEF AnswerInv
  <2>1. answer[c] # Idle /\ open[c] # Idle
    BY DEF ConnInv
  <2>2. ASSUME answer[c].code = "SB_RESP", open[c].kind = "SB_REQ",
               Past(answer[c].token), Owned(open[c].user, answer[c].token)
        PROVE  Past(answer[c].token)' /\ Owned(open[c].user, answer[c].token)'
    <3> SUFFICES ASSUME NEW tok, tok = answer[c].token, NEW user, user = open[c].user
                 PROVE  Past(answer[c].token)' /\ Owned(open[c].user, answer[c].token)'
      OBVIOUS
    <3>1. Past(tok)' /\ Owned(user, tok)'
      BY <2>2, PastStays
    <3> QED
      BY <2>1, <3>1 DEF Past, Owned
  <2>3. token[c] # NoToken =>
          /\ Elevated(token[c]) => Elevated(token[c])'
          /\ LoggedOut(token[c]) => LoggedOut(token[c])'
    BY TokenStays
  <2>4. ASSUME answer[c].code = "SB_RESP"
        PROVE  \/ /\ open[c].kind = "SB_REQ"
                  /\ Past(answer[c].token)' /\ Owned(open[c].user, answer[c].token)'
               \/ /\ open[c].kind = "SB_ELEVATE"
                  /\ answer[c].token = token[c] /\ Elevated(token[c])'
    BY <2>1, <2>2, <2>3, <2>4 DEF AnswerInv, HoldInv
  <2>5. ASSUME open[c].kind = "ER_REQ", <<c, "ER_REQ">> \notin Slow
        PROVE  LoggedOut(token[c])'
    BY <2>1, <2>3, <2>5 DEF AnswerInv, HoldInv
  <2> QED
    BY <2>4, <2>5 DEF AnswerInv
<1> QED
  BY <1>1, HolderStays

\* What the clients send is theirs to send.
Proper(c, req) ==
  /\ req \in Requests
  /\ req.kind \notin {"AR", "SB_REQ"} => token[c] # NoToken /\ req.token = token[c]
  /\ c \in Flows => step[c] \in Steps /\ req = FlowRequests(FlowUser[c], token[c])[step[c]]

\* The kinds of the requests of a flow.
LEMMA KindsSent ==
  ASSUME NEW req, NEW u, NEW t
  PROVE  /\ req = doHandshake => req.kind = "AR"
         /\ req = doLogin(u) => req.kind = "SB_REQ" /\ req.user = u
         /\ req = doElevate(t) => req.kind = "SB_ELEVATE"
         /\ req = doExec(t) => req.kind = "UW_EXEC"
         /\ req = doLogout(t) => req.kind = "ER_REQ"
<1>1. ASSUME req = doHandshake PROVE req.kind = "AR"
  BY <1>1 DEF doHandshake, Request
<1>2. ASSUME req = doLogin(u) PROVE req.kind = "SB_REQ" /\ req.user = u
  BY <1>2 DEF doLogin, Request
<1>3. ASSUME req = doElevate(t) PROVE req.kind = "SB_ELEVATE"
  BY <1>3 DEF doElevate, Request
<1>4. ASSUME req = doExec(t) PROVE req.kind = "UW_EXEC"
  BY <1>4 DEF doExec, Request
<1>5. ASSUME req = doLogout(t) PROVE req.kind = "ER_REQ"
  BY <1>5 DEF doLogout, Request
<1> QED
  BY <1>1, <1>2, <1>3, <1>4, <1>5

\* Which request a flow sends at which step.
LEMMA FlowSends ==
  ASSUME NEW u \in Users, NEW t \in Tokens \cup {NoToken}, NEW k \in Steps
  PROVE  /\ FlowRequests(u, t)[k] \in Requests
         /\ k = 1 => FlowRequests(u, t)[k].kind = "AR"
         /\ k = 2 => FlowRequests(u, t)[k].kind = "SB_REQ" /\ FlowRequests(u, t)[k].user = u
         /\ k \in 3 .. 8 => FlowRequests(u, t)[k].token = t
         /\ k = 4 => FlowRequests(u, t)[k].kind = "SB_ELEVATE"
         /\ k = 8 => FlowRequests(u, t)[k].kind = "ER_REQ"
         /\ k # 8 => FlowRequests(u, t)[k].kind # "ER_REQ"
         /\ k # 4 => FlowRequests(u, t)[k].kind # "SB_ELEVATE"
         /\ k # 2 => FlowRequests(u, t)[k].kind # "SB_REQ"
<1>1. "EleEnabled" \in Keys /\ "maxPayload" \in Keys /\ "EnCmdExec" \in Keys
  BY DEF Keys, NumKeys, TextKeys
<1>2. /\ doSetCfg(t, "EleEnabled", "True") \in RequestsWith(t)
      /\ doSetCfg(t, "maxPayload", 512) \in RequestsWith(t)
      /\ doSetCfg(t, "EnCmdExec", "True") \in RequestsWith(t)
      /\ doElevate(t) \in RequestsWith(t)
      /\ doExec(t) \in RequestsWith(t)
      /\ doLogout(t) \in RequestsWith(t)
  BY <1>1, RequestsAssumption DEF RequestsWith
<1>3. doHandshake \in Requests /\ doLogin(u) \in Requests
  BY DEF Requests
<1>4. FlowRequests(u, t)[k] \in Requests /\ (k \in 3 .. 8 => FlowRequests(u, t)[k].token = t)
  <2>1. CASE k \in {1, 2}
    BY <1>3, <2>1 DEF FlowRequests
  <2>2. CASE k \in 3 .. 8
    <3>1. FlowRequests(u, t)[k] \in RequestsWith(t)
      BY <1>2, <2>2 DEF FlowRequests
    <3> QED
      BY <2>2, <3>1, TokenRequests
  <2> QED
    BY <2>1, <2>2 DEF Steps
<1>5. /\ k = 1 => FlowRequests(u, t)[k] = doHandshake
      /\ k = 2 => FlowRequests(u, t)[k] = doLogin(u)
      /\ k = 4 => FlowRequests(u, t)[k] = doElevate(t)
      /\ k = 7 => FlowRequests(u, t)[k] = doExec(t)
      /\ k = 8 => FlowRequests(u, t)[k] = doLogout(t)
  BY DEF FlowRequests
<1>6. CASE k = 1
  <2>1. FlowRequests(u, t)[k] = doHandshake
    BY <1>5, <1>6
  <2>2. FlowRequests(u, t)[k].kind = "AR"
    BY <2>1, KindsSent
  <2> QED
    BY <1>4, <1>6, <2>2
<1>7. CASE k = 2
  <2>1. FlowRequests(u, t)[k] = doLogin(u)
    BY <1>5, <1>7
  <2>2. FlowRequests(u, t)[k].kind = "SB_REQ" /\ FlowRequests(u, t)[k].user = u
    BY <2>1, KindsSent
  <2> QED
    BY <1>4, <1>7, <2>2
<1>8. CASE k \in {3, 5, 6}
  BY <1>4, <1>8 DEF FlowRequests, doSetCfg, Request
<1>9. CASE k = 4
  <2>1. FlowRequests(u, t)[k] = doElevate(t)
    BY <1>5, <1>9
  <2>2. FlowRequests(u, t)[k].kind = "SB_ELEVATE"
    BY <2>1, KindsSent
  <2> QED
    BY <1>4, <1>9, <2>2
<1>10. CASE k = 7
  <2>1. FlowRequests(u, t)[k] = doExec(t)
    BY <1>5, <1>10
  <2>2. FlowRequests(u, t)[k].kind = "UW_EXEC"
    BY <2>1, KindsSent
  <2> QED
    BY <1>4, <1>10, <2>2
<1>11. CASE k = 8
  <2>1. FlowRequests(u, t)[k] = doLogout(t)
    BY <1>5, <1>11
  <2>2. FlowRequests(u, t)[k].kind = "ER_REQ"
    BY <2>1, KindsSent
  <2> QED
    BY <1>4, <1>11, <2>2
<1> QED
  BY <1>6, <1>7, <1>8, <1>9, <1>10, <1>11 DEF Steps

\* A command or a flow sends nothing that is not the client's to send.
LEMMA SendsProper ==
  ASSUME ClientTypes, NEW c \in Clients, FlowInv(c), command(c) \/ flow(c)
  PROVE  \E req : requestFrame(c, req) /\ Proper(c, req)
<1>. token[c] \in Tokens \cup {NoToken}
  BY DEF ClientTypes
<1>1. CASE flow(c)
  <2>1. /\ c \in Flows /\ step[c] \in Steps /\ FlowUser[c] \in Users
        /\ requestFrame(c, FlowRequests(FlowUser[c], token[c])[step[c]])
    BY <1>1, ClientsAssumption DEF flow
  <2>. DEFINE req == FlowRequests(FlowUser[c], token[c])[step[c]]
  <2>2. req \in Requests
    BY <2>1, FlowSends
  <2>3. step[c] \in {1, 2} \/ step[c] \in 3 .. 8
    BY <2>1 DEF Steps
  <2>4. step[c] \in {1, 2} => req.kind \in {"AR", "SB_REQ"}
    BY <2>1, FlowSends
  <2>5. step[c] \in 3 .. 8 => token[c] # NoToken /\ req.token = token[c]
    BY <2>1, FlowSends DEF FlowInv
  <2> QED
    BY <2>1, <2>2, <2>3, <2>4, <2>5 DEF Proper
<1>2. CASE command(c)
  <2>1. c \notin Flows
    BY <1>2, ClientsAssumption DEF command
  <2>2. CASE requestFrame(c, doHandshake)
    BY <2>1, <2>2 DEF Proper, Requests, doHandshake, Request
  <2>3. ASSUME NEW u \in Users, requestFrame(c, doLogin(u))
        PROVE  \E req : requestFrame(c, req) /\ Proper(c, req)
    <3>1. doLogin(u) \in Requests /\ doLogin(u).kind = "SB_REQ"
      BY DEF Requests, doLogin, Request
    <3> QED
      BY <2>1, <2>3, <3>1 DEF Proper
  <2>4. ASSUME token[c] # NoToken, NEW req \in WithToken(token[c]), requestFrame(c, req)
        PROVE  Proper(c, req)
    <3>1. req \in RequestsWith(token[c])
      BY RequestsAssumption DEF WithToken, RequestsWith, Keys, TextKeys
    <3> QED
      BY <2>1, <2>4, <3>1, TokenRequests DEF Proper
  <2> QED
    BY <1>2, <2>2, <2>3, <2>4 DEF command
<1> QED
  BY <1>1, <1>2

\* The client that sends has no answer coming.
LEMMA SenderStays ==
  ASSUME ServerInv, ClientTypes, ConnInv, NEW c \in Clients, NEW req,
         HoldInv(c), FlowInv(c), requestFrame(c, req), Proper(c, req)
  PROVE  HoldInv(c)' /\ FlowInv(c)' /\ AnswerInv(c)'
<1>1. /\ UNCHANGED <<vars, token, login, step, answer>>
      /\ open'[c] = req /\ open[c] = Idle /\ answer[c] = Idle
  BY DEF requestFrame, ConnInv
<1>2. UNCHANGED <<sess, rng>>
  BY <1>1 DEF vars
<1>3. AnswerInv(c)'
  BY <1>1 DEF AnswerInv
<1>4. HoldInv(c)'
  BY <1>1, <1>2 DEF HoldInv, Proper, Past, Owned
<1>5. FlowInv(c)'
  BY <1>1, <1>2 DEF FlowInv, Proper, Elevated, LoggedOut, FlowRequests
<1> QED
  BY <1>3, <1>4, <1>5

\* The client that takes its answer.
LEMMA TakerStays ==
  ASSUME ServerInv, ClientTypes, ConnInv, NEW c \in Clients,
         HoldInv(c), FlowInv(c), AnswerInv(c), receive(c)
  PROVE  /\ HoldInv(c)' /\ FlowInv(c)' /\ AnswerInv(c)'
         /\ TokenAfter(c) \in Tokens \cup {NoToken}
         /\ LoginAfter(c) \in [user : Users, token : Tokens] \cup {NoLogin}
         /\ StepAfter(c) \in Steps \cup {Failed, Returned}
<1>1. /\ UNCHANGED <<sess, rng>> /\ open[c] # Idle /\ answer[c] # Idle
      /\ open'[c] = Idle /\ answer'[c] = Idle
      /\ token'[c] = TokenAfter(c) /\ login'[c] = LoginAfter(c) /\ step'[c] = StepAfter(c)
  BY DEF receive, vars, ConnInv, ClientTypes
<1>2. /\ open[c] \in Requests
      /\ token[c] \in Tokens \cup {NoToken}
      /\ login[c] \in [user : Users, token : Tokens] \cup {NoLogin}
      /\ step[c] \in Steps \cup {Failed, Returned}
      /\ c \in Sessions \/ c \in Flows
  BY <1>1 DEF ConnInv, ClientTypes, Clients
<1>3. open[c].kind = "SB_REQ" => open[c].user \in Users
  BY <1>2, RequestFields
<1>4. NoLogin.token = NoToken
  BY DEF NoLogin
<1>5. AnswerInv(c)'
  BY <1>1 DEF AnswerInv
<1>6. CASE answer[c].code = "SB_RESP" /\ open[c].kind = "SB_REQ"
  <2>1. Past(answer[c].token) /\ Owned(open[c].user, answer[c].token)
    BY <1>1, <1>6 DEF AnswerInv
  <2>2. TokenAfter(c) = answer[c].token /\ LoginAfter(c) = [user |-> open[c].user, token |-> answer[c].token]
    BY <1>6 DEF TokenAfter, LoginAfter
  <2>3. TokenAfter(c) \in Tokens
    BY <2>1, <2>2 DEF Past
  <2>4. HoldInv(c)'
    BY <1>1, <2>1, <2>2 DEF HoldInv, Past, Owned
  <2>5. c \in Flows => step[c] = 2
    BY <1>1, <1>2, <1>6, ClientsAssumption, FlowSends DEF FlowInv
  <2>6. c \in Flows => StepAfter(c) = 3
    BY <1>6, <2>5, ClientsAssumption DEF StepAfter
  <2>7. c \in Sessions => StepAfter(c) = step[c] /\ StepAfter(c) = Failed
    BY DEF StepAfter, FlowInv, Failed
  <2>8. FlowInv(c)'
    BY <1>1, <2>2, <2>3, <2>6, <2>7, ClientsAssumption DEF FlowInv, Returned
  <2> QED
    <3>1. LoginAfter(c) \in [user : Users, token : Tokens]
      BY <1>3, <1>6, <2>2, <2>3
    <3>2. StepAfter(c) \in Steps \cup {Failed, Returned}
      BY <1>2, <2>6, <2>7 DEF Steps
    <3> QED
      BY <1>5, <2>3, <2>4, <2>8, <3>1, <3>2
<1>7. CASE answer[c].code = "SB_RESP" /\ open[c].kind # "SB_REQ"
  <2>1. /\ open[c].kind = "SB_ELEVATE" /\ answer[c].token = token[c] /\ Elevated(token[c])
        /\ token[c] # NoToken
    BY <1>1, <1>7 DEF AnswerInv, HoldInv
  <2>2. TokenAfter(c) = token[c] /\ LoginAfter(c) = login[c]
    BY <1>7, <2>1 DEF TokenAfter, LoginAfter
  <2>3. HoldInv(c)'
    BY <1>1, <2>2 DEF HoldInv, Past, Owned
  <2>4. c \in Flows => step[c] = 4
    BY <1>1, <1>2, <2>1, ClientsAssumption, FlowSends DEF FlowInv
  <2>5. c \in Flows => StepAfter(c) = 5
    BY <1>7, <2>4, ClientsAssumption DEF StepAfter
  <2>6. c \in Sessions => StepAfter(c) = step[c] /\ StepAfter(c) = Failed
    BY DEF StepAfter, FlowInv, Failed
  <2>7. FlowInv(c)'
    BY <1>1, <2>1, <2>2, <2>5, <2>6, ClientsAssumption DEF FlowInv, Returned, Elevated
  <2> QED
    BY <1>2, <1>5, <2>2, <2>3, <2>5, <2>6, <2>7 DEF Steps
<1>8. CASE answer[c].code # "SB_RESP" /\ open[c].kind = "ER_REQ" /\ c \in Sessions
  <2>1. TokenAfter(c) = NoToken /\ LoginAfter(c) = NoLogin /\ StepAfter(c) = step[c]
    BY <1>8 DEF TokenAfter, LoginAfter, StepAfter, FlowInv, Failed
  <2>2. HoldInv(c)'
    BY <1>1, <1>4, <2>1 DEF HoldInv
  <2>3. FlowInv(c)'
    BY <1>1, <1>8, <2>1, ClientsAssumption DEF FlowInv
  <2> QED
    BY <1>2, <1>5, <2>1, <2>2, <2>3
<1>9. CASE answer[c].code # "SB_RESP" /\ ~(open[c].kind = "ER_REQ" /\ c \in Sessions)
  <2>1. TokenAfter(c) = token[c] /\ LoginAfter(c) = login[c]
    BY <1>9 DEF TokenAfter, LoginAfter
  <2>2. HoldInv(c)'
    BY <1>1, <2>1 DEF HoldInv, Past, Owned
  <2>3. CASE c \in Sessions
    <3>1. StepAfter(c) = step[c] /\ FlowInv(c)'
      BY <1>1, <2>3, ClientsAssumption DEF StepAfter, FlowInv, Failed
    <3> QED
      BY <1>2, <1>5, <2>1, <2>2, <3>1
  <2>4. CASE c \in Flows
    <3>1. /\ step[c] \in Steps /\ c \notin Sessions
          /\ step[c] = 8 => open[c].kind = "ER_REQ"
      BY <1>1, <1>2, <2>4, ClientsAssumption, FlowSends DEF FlowInv
    <3>2. /\ step[c] \in {2, 4} => StepAfter(c) = Failed
          /\ StepAfter(c) = Failed \/ StepAfter(c) = step[c] + 1
      BY <1>9, <3>1 DEF StepAfter
    <3>3. StepAfter(c) \in Steps \cup {Failed, Returned}
      BY <3>1, <3>2 DEF Steps, Failed, Returned
    <3>4. /\ StepAfter(c) \in 3 .. 9 => step[c] \in 3 .. 9
          /\ StepAfter(c) \in 5 .. 9 => step[c] \in 5 .. 9
          /\ StepAfter(c) = Returned => step[c] = 8
      BY <3>1, <3>2 DEF Steps, Failed, Returned
    <3>5. FlowInv(c)'
      BY <1>1, <2>1, <2>4, <3>1, <3>4 DEF FlowInv, AnswerInv, Elevated, LoggedOut
    <3> QED
      BY <1>2, <1>5, <2>1, <2>2, <3>3, <3>5
  <2> QED
    BY <1>2, <2>3, <2>4
<1> QED
  BY <1>6, <1>7, <1>8, <1>9

\* The client that gives up.
LEMMA GiverStays ==
  ASSUME ServerInv, ClientTypes, ConnInv, NEW c \in Clients,
         HoldInv(c), FlowInv(c), giveUp(c)
  PROVE  HoldInv(c)' /\ FlowInv(c)' /\ AnswerInv(c)'
<1>1. /\ UNCHANGED <<sess, rng, token, login>>
      /\ open'[c] = Idle /\ answer'[c] = Idle
      /\ step'[c] = IF c \in Flows THEN Failed ELSE step[c]
  BY DEF giveUp, vars, ConnInv, ClientTypes
<1>2. HoldInv(c)' /\ AnswerInv(c)'
  BY <1>1 DEF HoldInv, AnswerInv, Past, Owned
<1>3. FlowInv(c)'
  BY <1>1, ClientsAssumption DEF FlowInv, Failed, Returned
<1> QED
  BY <1>2, <1>3

\* A logout that was served leaves no session with its token.
LEMMA LogoutServed ==
  ASSUME ServerInv, NEW p \in Ips, NEW req \in Requests, dispatch(p, req),
         req.kind = "ER_REQ", NEW t, t = req.token
  PROVE  LoggedOut(t)'
<1>1. \A i \in Slots : sess[i] # Free /\ sess[i].token = t => i \in Known(t)
  BY KnownIsAll
<1>2. Known(t) \subseteq Slots
  BY DEF Known
<1>3. ASSUME NEW i \in Known(t), withSession(i, req)
      PROVE  LoggedOut(t)'
  <2>1. handleER(i)
    BY <1>3 DEF withSession
  <2>2. sess' = [sess EXCEPT ![i] = Free] /\ i \in Slots
    BY <1>2, <2>1 DEF handleER
  <2>3. \A j \in Slots : sess[j] # Free /\ sess[j].token = t => j = i
    BY <1>3, KnownIsAll DEF Known, FirstWithToken, Active
  <2>4. \A j \in Slots : sess'[j] # Free => sess'[j] = sess[j] /\ j # i
    BY <2>2 DEF ServerInv, TypeOK
  <2> QED
    BY <2>3, <2>4 DEF LoggedOut
<1>4. ASSUME \A i \in Known(t) : stTE(i), refuse(t)
      PROVE  LoggedOut(t)'
  <2>1. sess' = [i \in Slots |-> IF i \in Known(t) /\ Stale(i) THEN Free ELSE sess[i]]
    BY <1>4 DEF refuse
  <2>2. ASSUME NEW i \in Slots, sess[i] # Free, sess[i].token = t
        PROVE  sess'[i] = Free
    <3>1. i \in Known(t) /\ stTE(i)
      BY <1>1, <1>4, <2>2
    <3>2. Stale(i)
      BY <2>2, <3>1, KnownIsAll DEF Stale, stTE, Active, FirstWithToken
    <3> QED
      BY <2>1, <3>1, <3>2
  <2>3. \A i \in Slots : sess'[i] # Free => sess'[i] = sess[i]
    BY <2>1
  <2> QED
    BY <2>2, <2>3 DEF LoggedOut
<1>5. \/ \E i \in Known(t) : withSession(i, req)
      \/ (\A i \in Known(t) : stTE(i)) /\ refuse(t)
  BY DEF dispatch
<1> QED
  BY <1>3, <1>4, <1>5

\* An elevation that was granted leaves the session with its token elevated.
LEMMA ElevationServed ==
  ASSUME ServerInv, NEW t, NEW i \in Known(t),
         sess' = [Touched(i) EXCEPT ![i].level = "ADMIN"]
  PROVE  t \in Tokens /\ Elevated(t)'
<1>1. i \in Slots /\ sess[i] # Free /\ sess[i].token = t
  BY DEF Known, FirstWithToken, Active
<1>2. \A j \in Slots : sess[j] # Free /\ sess[j].token = t => j = i
  BY <1>1, KnownIsAll
<1>3. sess[i] \in Session /\ sess \in [Slots -> Session \cup {Free}]
  BY <1>1 DEF ServerInv, TypeOK
<1>4. t \in Tokens
  BY <1>1, <1>3 DEF Session
<1>5. \A j \in Slots : j # i => sess'[j] = sess[j]
  BY <1>1, <1>3 DEF Touched
<1>6. sess'[i].level = "ADMIN"
  BY <1>1, <1>3 DEF Touched, Session
<1> QED
  BY <1>2, <1>4, <1>5, <1>6 DEF Elevated

\* The client the server answers.
LEMMA ServedStays ==
  ASSUME ServerInv, ServerEffect, ConnInv, NEW c \in Clients,
         HoldInv(c), FlowInv(c), UNCHANGED <<token, login, step, open>>,
         NEW p \in Ips, NEW req \in Requests, dispatch(p, req), open[c] = req,
         answer'[c] = [code |-> last'.code, token |-> Granted(req)]
  PROVE  HoldInv(c)' /\ FlowInv(c)' /\ AnswerInv(c)'
<1>1. HoldInv(c)' /\ FlowInv(c)'
  BY HolderStays
<1>2. /\ answer'[c].code = last'.code /\ answer'[c].token = Granted(req)
      /\ open'[c] = req /\ token'[c] = token[c] /\ req # Idle
  BY RequestsAssumption
<1>3. ASSUME req.kind = "ER_REQ"
      PROVE  LoggedOut(token[c])'
  <2> SUFFICES ASSUME NEW t, t = token[c]
               PROVE  LoggedOut(token[c])'
    OBVIOUS
  <2>1. req.token = t
    BY <1>2, <1>3 DEF HoldInv
  <2>2. LoggedOut(t)'
    BY <1>3, <2>1, LogoutServed
  <2> QED
    BY <1>2, <2>2 DEF LoggedOut
<1>4. ASSUME last'.code = "SB_RESP"
      PROVE  \/ /\ req.kind = "SB_REQ"
                /\ Past(answer[c].token)' /\ Owned(open[c].user, answer[c].token)'
             \/ /\ req.kind = "SB_ELEVATE"
                /\ answer'[c].token = token'[c] /\ Elevated(token[c])'
  <2> SUFFICES ASSUME NEW t, t = Granted(req), NEW u, u = req.user
               PROVE  \/ /\ req.kind = "SB_REQ"
                         /\ Past(answer[c].token)' /\ Owned(open[c].user, answer[c].token)'
                      \/ /\ req.kind = "SB_ELEVATE"
                         /\ answer'[c].token = token'[c] /\ Elevated(token[c])'
    OBVIOUS
  <2>1. CASE req.kind = "SB_REQ" /\ handleSBReq(p, req.user)
    <3>1. t = NextToken /\ u \in Users /\ handleSBReq(p, u)
      BY <2>1, RequestFields DEF Granted
    <3>2. Past(t)' /\ Owned(u, t)'
      BY <3>1, LoginGranted
    <3> QED
      BY <1>2, <2>1, <3>2 DEF Past, Owned
  <2>2. ASSUME req.kind = "SB_ELEVATE", NEW i \in Known(req.token),
               sess' = [Touched(i) EXCEPT ![i].level = "ADMIN"]
        PROVE  req.kind = "SB_ELEVATE" /\ answer'[c].token = token'[c] /\ Elevated(token[c])'
    <3>1. t = req.token /\ req.token = token[c]
      BY <1>2, <2>2 DEF Granted, HoldInv
    <3>2. Elevated(t)'
      BY <2>2, <3>1, ElevationServed
    <3> QED
      BY <1>2, <2>2, <3>1, <3>2 DEF Elevated
  <2> QED
    BY <1>4, <2>1, <2>2, DispatchCodes
<1>5. AnswerInv(c)'
  BY <1>2, <1>3, <1>4 DEF AnswerInv
<1> QED
  BY <1>1, <1>5

\* The client whose frame does not arrive in full.
LEMMA UnservedStays ==
  ASSUME ServerInv, ServerEffect, NEW c \in Clients,
         HoldInv(c), FlowInv(c), UNCHANGED <<token, login, step, open>>,
         <<c, open[c].kind>> \in Slow,
         NEW code \in {"closed", "MALFORMED"},
         answer'[c] = [code |-> code, token |-> NoToken]
  PROVE  HoldInv(c)' /\ FlowInv(c)' /\ AnswerInv(c)'
<1>1. HoldInv(c)' /\ FlowInv(c)'
  BY HolderStays
<1>2. AnswerInv(c)'
  BY DEF AnswerInv
<1> QED
  BY <1>1, <1>2

-----------------------------------------------------------------------------
(* The invariant.                                                          *)

ClientInv == \A c \in Clients : HoldInv(c) /\ FlowInv(c) /\ AnswerInv(c)
AllInv == ServerInv /\ ConnInv /\ ClientTypes /\ ClientInv

\* It holds at the start.
LEMMA AllInvInit == ClientInit => AllInv
<1> SUFFICES ASSUME ClientInit
             PROVE  AllInv
  OBVIOUS
<1>1. SessionsInv /\ DrawnBefore /\ rng.seed = "boot"
  BY InitTyped DEF ClientInit, Init, SessionsInv, DrawnBefore, CountCoversActive, OneSessionPerUser
<1>2. ConnInv
  <2>1. queue = <<>> /\ queue \in Seq(Connections) /\ Len(queue) = 0
    BY EmptySeq DEF ClientInit
  <2>2. Len(queue) <= Backlog
    BY <2>1, ClientsAssumption
  <2> QED
    BY <2>1, <2>2 DEF ClientInit, ConnInv
<1>3. ClientTypes
  BY DEF ClientInit, ClientTypes, Steps, Failed
<1>4. ClientInv
  <2> SUFFICES ASSUME NEW c \in Clients
               PROVE  HoldInv(c) /\ FlowInv(c) /\ AnswerInv(c)
    BY DEF ClientInv
  <2>1. /\ token[c] = NoToken /\ login[c].token = NoToken
        /\ open[c] = Idle /\ answer[c] = Idle
        /\ step[c] = IF c \in Flows THEN 1 ELSE Failed
    BY DEF ClientInit, NoLogin
  <2> QED
    BY <2>1, ClientsAssumption DEF HoldInv, FlowInv, AnswerInv, Failed, Returned
<1> QED
  BY <1>1, <1>2, <1>3, <1>4 DEF AllInv, ServerInv, SessionsInv

\* A step of one client leaves the others what they are.
LEMMA OthersStay ==
  ASSUME AllInv, ServerEffect, NEW c \in Clients, NEW d \in Clients, d # c,
         \/ \E req : requestFrame(c, req)
         \/ receive(c)
         \/ giveUp(c)
  PROVE  HoldInv(d)' /\ FlowInv(d)' /\ AnswerInv(d)'
<1>1. /\ token'[d] = token[d] /\ login'[d] = login[d] /\ step'[d] = step[d]
      /\ open'[d] = open[d] /\ answer'[d] = answer[d]
  BY DEF requestFrame, receive, giveUp, AllInv, ClientTypes, ConnInv
<1> QED
  BY <1>1, BystanderStays DEF AllInv, ClientInv

\* No step of a client breaks it.
LEMMA ClientsStay ==
  ASSUME AllInv, ServerEffect, NEW c \in Clients,
         command(c) \/ flow(c) \/ receive(c) \/ giveUp(c)
  PROVE  ConnInv' /\ ClientTypes' /\ ClientInv'
<1> USE DEF AllInv
<1>1. ASSUME NEW req, requestFrame(c, req), Proper(c, req)
      PROVE  ConnInv' /\ ClientTypes' /\ ClientInv'
  <2>1. ConnInv'
    BY <1>1, SendKeeps DEF Proper
  <2>2. ClientTypes'
    BY <1>1 DEF requestFrame, ClientTypes
  <2>3. HoldInv(c)' /\ FlowInv(c)' /\ AnswerInv(c)'
    BY <1>1, SenderStays DEF ClientInv
  <2> QED
    BY <1>1, <2>1, <2>2, <2>3, OthersStay DEF ClientInv
<1>2. CASE receive(c)
  <2>1. ConnInv'
    BY <1>2, ReceiveKeeps
  <2>2. /\ HoldInv(c)' /\ FlowInv(c)' /\ AnswerInv(c)'
        /\ TokenAfter(c) \in Tokens \cup {NoToken}
        /\ LoginAfter(c) \in [user : Users, token : Tokens] \cup {NoLogin}
        /\ StepAfter(c) \in Steps \cup {Failed, Returned}
    BY <1>2, TakerStays DEF ClientInv
  <2>3. ClientTypes'
    BY <1>2, <2>2 DEF receive, ClientTypes
  <2> QED
    BY <1>2, <2>1, <2>2, <2>3, OthersStay DEF ClientInv
<1>3. CASE giveUp(c)
  <2>1. ConnInv'
    BY <1>3, GiveUpKeeps
  <2>2. ClientTypes'
    BY <1>3 DEF giveUp, ClientTypes
  <2>3. HoldInv(c)' /\ FlowInv(c)' /\ AnswerInv(c)'
    BY <1>3, GiverStays DEF ClientInv
  <2> QED
    BY <1>3, <2>1, <2>2, <2>3, OthersStay DEF ClientInv
<1>4. command(c) \/ flow(c) => \E req : requestFrame(c, req) /\ Proper(c, req)
  BY SendsProper DEF ClientInv
<1> QED
  BY <1>1, <1>2, <1>3, <1>4

\* Nor does a connection the server closes.
LEMMA CloseStays ==
  ASSUME AllInv, ServerEffect, nRecFails \/ serve
  PROVE  ConnInv' /\ ClientTypes' /\ ClientInv'
<1> USE DEF AllInv
<1>. DEFINE conn == Head(queue)
<1>1. /\ queue # <<>> /\ queue' = Tail(queue) /\ UNCHANGED <<token, login, step, open>>
  BY DEF nRecFails, serve
<1>2. PICK code, tok :
        /\ Reply(conn, code, tok)
        /\ \/ /\ conn.missing > 0 /\ code \in {"closed", "MALFORMED"} /\ tok = NoToken
           \/ /\ code = last'.code /\ tok = Granted(conn.req)
              /\ dispatch(IpOf[conn.by], conn.req)
  BY DEF nRecFails, serve
<1>3. /\ ConnInv'
      /\ conn \in Connections /\ conn = queue[1] /\ 1 \in 1 .. Len(queue)
      /\ conn.open => open[conn.by] = conn.req
      /\ \A c \in Clients :
           \/ answer'[c] = answer[c]
           \/ c = conn.by /\ conn.open /\ answer'[c] = [code |-> code, token |-> tok]
  BY <1>1, <1>2, FirstLeaves
<1>4. /\ conn.by \in Clients /\ conn.req \in Requests /\ IpOf[conn.by] \in Ips
      /\ conn.missing \in Nat
  BY <1>3, ClientsAssumption DEF Connections
<1>5. conn.missing > 0 => <<conn.by, conn.req.kind>> \in Slow
  <2>1. <<queue[1].by, queue[1].req.kind>> \notin Slow => queue[1].missing = 0
    BY <1>3 DEF ConnInv
  <2> QED
    BY <1>3, <2>1
<1>. HIDE DEF conn
<1>6. ASSUME NEW c \in Clients
      PROVE  HoldInv(c)' /\ FlowInv(c)' /\ AnswerInv(c)'
  <2>1. CASE answer'[c] = answer[c]
    BY <1>1, <2>1, BystanderStays DEF ClientInv
  <2>2. CASE c = conn.by /\ conn.open /\ answer'[c] = [code |-> code, token |-> tok]
    <3>1. open[c] = conn.req
      BY <1>3, <2>2
    <3>2. CASE conn.missing > 0 /\ code \in {"closed", "MALFORMED"} /\ tok = NoToken
      BY <1>1, <1>5, <2>2, <3>1, <3>2, UnservedStays DEF ClientInv
    <3>3. CASE code = last'.code /\ tok = Granted(conn.req) /\ dispatch(IpOf[conn.by], conn.req)
      BY <1>1, <1>4, <2>2, <3>1, <3>3, ServedStays DEF ClientInv
    <3> QED
      BY <1>2, <3>2, <3>3
  <2> QED
    BY <1>3, <2>1, <2>2
<1>7. ClientTypes'
  BY <1>1 DEF ClientTypes
<1> QED
  BY <1>3, <1>6, <1>7 DEF ClientInv

\* No step breaks it.
LEMMA AllInvStep ==
  ASSUME AllInv, [ClientNext]_allVars
  PROVE  AllInv' /\ [Next]_vars
<1> USE DEF AllInv
<1>1. [Next]_vars /\ ServerEffect /\ ServerInv'
  BY ServerStep, ServerStays
<1>2. ASSUME UNCHANGED <<token, login, step, open, answer>>
      PROVE  ClientTypes' /\ ClientInv'
  <2>1. ClientTypes'
    BY <1>2 DEF ClientTypes
  <2> QED
    BY <1>1, <1>2, <2>1, BystanderStays DEF ClientInv
<1>3. CASE UNCHANGED clientVars
  BY <1>1, <1>2, <1>3 DEF clientVars, ConnInv
<1>4. CASE arrive
  BY <1>1, <1>2, <1>4, ArriveKeeps DEF arrive
<1>5. CASE nRecFails \/ serve
  BY <1>1, <1>5, CloseStays
<1>6. ASSUME NEW c \in Clients, command(c) \/ flow(c) \/ receive(c) \/ giveUp(c)
      PROVE  AllInv'
  BY <1>1, <1>6, ClientsStay
<1> QED
  BY <1>1, <1>3, <1>4, <1>5, <1>6 DEF ClientNext, Second, allVars

\* It holds throughout.
LEMMA AllInvCorrect == ClientSpec => []AllInv
<1>1. AllInv /\ [ClientNext]_allVars => AllInv'
  BY AllInvStep
<1> QED
  BY <1>1, AllInvInit, PTL DEF ClientSpec

\* The server of the composition is LichServer: what is proved of its requests
\* in any order holds for those that clients make, queue and give up.
THEOREM ServerCorrect == ClientSpec => Spec
<1>1. ClientInit => Init
  BY DEF ClientInit
<1>2. AllInv /\ [ClientNext]_allVars => [Next]_vars
  BY AllInvStep
<1> QED
  BY <1>1, <1>2, AllInvCorrect, PTL DEF ClientSpec, Spec

\* Every variable of the composition has its type.
THEOREM ClientTypeCorrect == ClientSpec => []ClientTypeOK
<1>1. AllInv => ClientTypeOK
  BY DEF AllInv, ServerInv, ConnInv, ClientTypes, ClientTypeOK
<1> QED
  BY <1>1, AllInvCorrect, PTL

\* The token a client holds never names another user's session.
THEOREM HeldCorrect == ClientSpec => []HeldTokenIsOwn
<1>1. AllInv => HeldTokenIsOwn
  <2> SUFFICES ASSUME AllInv, NEW c \in Clients, NEW i \in Slots,
                      sess[i] # Free, sess[i].token = token[c]
               PROVE  sess[i].user = login[c].user
    BY DEF HeldTokenIsOwn
  <2>1. token[c] # NoToken
    BY ClientsAssumption DEF AllInv, ServerInv, TypeOK, Session
  <2> QED
    BY <2>1 DEF AllInv, ClientInv, HoldInv, Owned
<1> QED
  BY <1>1, AllInvCorrect, PTL

\* Past its elevation a flow acts with an ADMIN session or with none.
THEOREM FlowElevatedCorrect == ClientSpec => []FlowActsElevated
<1>1. AllInv => FlowActsElevated
  <2> SUFFICES ASSUME AllInv, NEW c \in Flows, NEW i \in Slots, step[c] \in 5 .. 8,
                      sess[i] # Free, sess[i].token = login[c].token
               PROVE  sess[i].level = "ADMIN"
    BY DEF FlowActsElevated
  <2>1. HoldInv(c) /\ FlowInv(c)
    BY DEF AllInv, ClientInv, Clients
  <2>2. step[c] \in 5 .. 9
    OBVIOUS
  <2> QED
    BY <2>1, <2>2 DEF HoldInv, FlowInv, Elevated
<1> QED
  BY <1>1, AllInvCorrect, PTL

\* A flow that returned 0 leaves no session of its login behind.
THEOREM FlowLogoutCorrect == ClientSpec => []CompletedFlowLoggedOut
<1>1. AllInv => CompletedFlowLoggedOut
  BY DEF CompletedFlowLoggedOut, AllInv, ClientInv, HoldInv, FlowInv, LoggedOut, Clients
<1> QED
  BY <1>1, AllInvCorrect, PTL
=============================================================================
