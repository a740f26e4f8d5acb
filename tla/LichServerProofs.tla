-------------------------- MODULE LichServerProofs --------------------------
(***************************************************************************)
(* Machine-checked proofs about LichServer, for every number of users,     *)
(* addresses, slots and cache entries: its invariants and action           *)
(* properties, and that it implements LichPolicy; and about LichFrames,    *)
(* that its two readings of a token agree.                                 *)
(***************************************************************************)
EXTENDS LichRefinement, LichFrames, FiniteSetTheorems, FunctionTheorems, WellFoundedInduction,
        TLAPS

\* The kinds of the requests that carry a token are those of TokenPayload.
LEMMA KindNames ==
  TokenKinds = {"SB_ELEVATE", "BC_RTS", "NW_GETCFG", "NW_SETCFG", "UW_EXEC", "ER_REQ"}
  BY DEF TokenKinds, TokenPayload

\* What the table operators return.
LEMMA TableTypes ==
  ASSUME TypeOK
  PROVE  /\ \A i \in Slots : sess[i] # Free => sess[i] \in Session
         /\ Reaped \in [Slots -> Session \cup {Free}]
         /\ \A u \in Users : WithoutUser(Reaped, u) \in [Slots -> Session \cup {Free}]
  BY DEF TypeOK, Reaped, WithoutUser

\* Every value the clients write to a key has the type of that key.
LEMMA WritesTyped ==
  ASSUME TypeOK, NEW key \in Keys, NEW value \in CfgVals[key],
         cfg' = [cfg EXCEPT ![key] = value]
  PROVE  /\ DOMAIN cfg' = Keys
         /\ \A k \in NumKeys : cfg'[k] \in Int
         /\ \A k \in TextKeys : cfg'[k] \in STRING
<1>1. \A k \in NumKeys \cup TextKeys : cfg'[k] = IF k = key THEN value ELSE cfg[k]
  BY DEF TypeOK, Keys
<1>2. NumKeys \cap TextKeys = {}
  BY DEF NumKeys, TextKeys
<1>3. key \in NumKeys => value \in Int
  BY InputsAssumption
<1>4. key \in TextKeys => value \in STRING
  BY InputsAssumption
<1> QED
  BY <1>1, <1>2, <1>3, <1>4 DEF TypeOK, Keys

\* Types hold at the start.
LEMMA InitTyped == Init => TypeOK
  BY BoundsAssumption, InputsAssumption
     DEF Init, TypeOK, Quiet, Ages, Seeds, NoOne

\* No step breaks them.
LEMMA StepTyped ==
  ASSUME TypeOK, [Next]_vars
  PROVE  TypeOK'
<1> USE DEF TypeOK
<1>1. ASSUME NEW code \in {"none", "MAGIC_VER", "HASH_FAIL", "MALFORMED"},
             refuseFrame(code)
      PROVE  TypeOK'
  BY <1>1 DEF refuseFrame, Answer, Kinds, Errors
<1>2. CASE refuseToken
  BY <1>2 DEF refuseToken, Answer, Kinds, Errors
<1>3. ASSUME NEW p \in Ips, NEW blake3 \in BOOLEAN, handleAR(p, blake3)
      PROVE  TypeOK'
  BY <1>3, BoundsAssumption
     DEF handleAR, markHs, Answer, Kinds, Errors, Answers, HsEntry, Ages
<1>4. ASSUME NEW p \in Ips, loginRefused(p)
      PROVE  TypeOK'
  BY <1>4 DEF loginRefused, HsAfterCheck, Answer, Kinds, Errors
<1>5. ASSUME NEW p \in Ips, NEW u \in Users, handleSBReq(p, u)
      PROVE  TypeOK'
  <2> DEFINE table == WithoutUser(Reaped, u)
  <2>1. table \in [Slots -> Session \cup {Free}]
    BY TableTypes
  <2>2. rng.drawn < MaxDraws /\ rng' = [rng EXCEPT !.drawn = @ + 1]
    BY <1>5 DEF handleSBReq, gT
  <2>3. NewSession(u, NextToken) \in Session
    BY <2>2, BoundsAssumption
       DEF NewSession, NextToken, Session, Tokens, Levels, Ages
  <2>4. sess' \in [Slots -> Session \cup {Free}] /\ stCnt' \in 0 .. MaxSessions
    BY <1>5, <2>1, <2>3 DEF handleSBReq, CountWith, Slots
  <2>5. rng' \in [seed : Seeds, drawn : 0 .. MaxDraws]
    BY <2>2, BoundsAssumption
  <2>6. last'.kind = "SB_REQ" /\ last'.code \in {"MALFORMED", "SB_RESP"}
    BY <1>5 DEF handleSBReq, Answer
  <2>7. UNCHANGED <<cfg, hs, shake>>
    BY <1>5 DEF handleSBReq
  <2> QED
    BY <2>4, <2>5, <2>6, <2>7 DEF Kinds, Errors, Answers
<1>6. ASSUME NEW i \in Slots, sess[i] # Free
       PROVE  Touched(i) \in [Slots -> Session \cup {Free}] /\ Touched(i)[i] \in Session
  BY <1>6, BoundsAssumption DEF Touched, Session, Ages
<1>7. ASSUME NEW i \in Slots, NEW request \in {"", "elevateRequest", "other"},
             handleSBEle(i, request)
      PROVE  TypeOK'
  <2>1. sess[i] # Free
    BY <1>7 DEF handleSBEle, Resolves, FirstWithToken, Active
  <2>2. [Touched(i) EXCEPT ![i].level = "ADMIN"] \in [Slots -> Session \cup {Free}]
    BY ZenonT(60), <1>6, <2>1 DEF Session, Levels
  <2>3. sess' \in [Slots -> Session \cup {Free}]
    BY <1>7, <2>2 DEF handleSBEle
  <2>4. UNCHANGED <<stCnt, cfg, hs, rng, shake>>
    BY <1>7 DEF handleSBEle
  <2>5. PICK code \in {"MALFORMED", "UNAUTHORIZED", "SB_RESP"} :
          Answer("SB_ELEVATE", i, code)
    BY <1>7 DEF handleSBEle
  <2>6. last'.kind \in Kinds /\ last'.code \in Errors \cup Answers
    BY <2>5, KindNames DEF Answer, Kinds, Errors, Answers
  <2> QED
    BY <2>3, <2>4, <2>6
<1>8. ASSUME NEW i \in Slots, NEW size \in Sizes, handleBC(i, size)
      PROVE  TypeOK'
  <2>1. sess[i] \in Session
    BY <1>8 DEF handleBC, Resolves, FirstWithToken, Active
  <2> QED
    BY <1>8, <2>1, BoundsAssumption
       DEF handleBC, eBCCts, Touched, Answer, Kinds, TokenKinds, TokenPayload,
           Errors, Answers, Session, Ages, Seeds
<1>9. ASSUME NEW i \in Slots, NEW key \in Keys \cup {"", "unknown"},
             handleNecroGet(i, key)
      PROVE  TypeOK'
  BY <1>9, <1>6
     DEF handleNecroGet, Resolves, FirstWithToken, Active, Answer, KeyError,
         Kinds, TokenKinds, TokenPayload, Errors, Answers
<1>10. ASSUME NEW i \in Slots, NEW key \in Keys, NEW value \in CfgVals[key],
              handleNecroSet(i, key, value)
       PROVE  TypeOK'
  <2>1. /\ sess' \in [Slots -> Session \cup {Free}]
        /\ UNCHANGED <<stCnt, hs, rng, shake>>
        /\ last'.kind = "NW_SETCFG"
        /\ last'.code \in {"deny", "approve", "CONFIG_NOTFOUND"}
    BY <1>10, <1>6 DEF handleNecroSet, Resolves, FirstWithToken, Active, Answer
  <2>2. cfg' = cfg \/ cfg' = [cfg EXCEPT ![key] = value]
    BY <1>10 DEF handleNecroSet
  <2>3. /\ DOMAIN cfg' = Keys
        /\ \A k \in NumKeys : cfg'[k] \in Int
        /\ \A k \in TextKeys : cfg'[k] \in STRING
    BY <2>2, WritesTyped
  <2> QED
    BY <2>1, <2>3 DEF Kinds, TokenKinds, TokenPayload, Errors, Answers
<1>11. ASSUME NEW i \in Slots, NEW key \in {"", "unknown"}, refuseKey(i, key)
       PROVE  TypeOK'
  BY <1>11, <1>6
     DEF refuseKey, Resolves, FirstWithToken, Active, Answer, KeyError,
         Kinds, TokenKinds, TokenPayload, Errors
<1>12. ASSUME NEW i \in Slots, NEW cmdLen \in CmdLens, NEW atEnd \in BOOLEAN,
              handleUW(i, cmdLen, atEnd)
       PROVE  TypeOK'
  BY <1>12, <1>6
     DEF handleUW, Resolves, FirstWithToken, Active, Answer,
         Kinds, TokenKinds, TokenPayload, Errors, Answers
<1>13. ASSUME NEW i \in Slots, handleER(i)
       PROVE  TypeOK'
  BY <1>13 DEF handleER, Answer, Kinds, TokenKinds, TokenPayload, Answers
<1>14. ASSUME NEW i \in Slots,
              NEW kind \in {"NW_SETCFG", "UW_EXEC", "ER_REQ"}, refuseType(i, kind)
       PROVE  TypeOK'
  BY <1>14, <1>6
     DEF refuseType, Resolves, FirstWithToken, Active, Answer,
         Kinds, TokenKinds, TokenPayload, Errors
<1>15. ASSUME NEW i \in Slots, NEW size \in Sizes, refuseData(i, size)
       PROVE  TypeOK'
  BY <1>15 DEF refuseData, Answer, Kinds, Errors
<1>16. CASE Tick
  BY <1>16, BoundsAssumption
     DEF Tick, Least, Session, HsEntry, Ages, Quiet
<1>17. CASE UNCHANGED vars
  BY <1>17 DEF vars
<1> QED
  BY ZenonT(60), <1>1, <1>2, <1>3, <1>4, <1>5, <1>7, <1>8, <1>9, <1>10, <1>11, <1>12,
     <1>13, <1>14, <1>15, <1>16, <1>17
     DEF Next, Refusals, SessionlessRequests, SessionRequests

\* Every variable always has its type.
THEOREM TypeCorrect == Spec => []TypeOK
<1>1. TypeOK /\ [Next]_vars => TypeOK'
  BY StepTyped
<1> QED
  BY <1>1, InitTyped, PTL DEF Spec

-----------------------------------------------------------------------------
(* Sessions.                                                               *)

\* What every request but a login with good credentials does to the table: it
\* adds no session, and a session it leaves keeps its user and its token, and
\* its level unless it is made ADMIN while elevation is enabled.
KeepsSessions ==
  /\ stCnt' = stCnt
  /\ \A i \in Slots : sess'[i] # Free =>
       /\ sess[i] # Free
       /\ sess'[i].user = sess[i].user
       /\ sess'[i].token = sess[i].token
       /\ \/ sess'[i].level = sess[i].level
          \/ sess'[i].level = "ADMIN" /\ cfg["EleEnabled"] = "True"

\* Refreshing a session changes no other part of the table.
LEMMA TouchedKeeps ==
  ASSUME TypeOK, NEW i \in Slots, sess[i] # Free,
         NEW j \in Slots
  PROVE  /\ Touched(i)[j] # Free => sess[j] # Free
         /\ sess[j] # Free =>
              /\ Touched(i)[j].user = sess[j].user
              /\ Touched(i)[j].token = sess[j].token
              /\ Touched(i)[j].level = sess[j].level
  BY DEF TypeOK, Touched, Session

\* Every step but a login with good credentials keeps the sessions, and the
\* generator or its fixed seed.
LEMMA TableEffect ==
  ASSUME TypeOK, [Next]_vars
  PROVE  \/ KeepsSessions /\ (rng' = rng \/ rng'.seed = "fixed")
         \/ \E p \in Ips, u \in Users : handleSBReq(p, u)
<1> USE DEF KeepsSessions
<1>1. ASSUME UNCHANGED <<sess, stCnt, rng>>
      PROVE  KeepsSessions /\ rng' = rng
  BY <1>1
<1>2. ASSUME NEW i \in Slots, sess[i] # Free, sess' = Touched(i),
             UNCHANGED <<stCnt, rng>>
      PROVE  KeepsSessions /\ rng' = rng
  BY <1>2, TouchedKeeps
<1>3. ASSUME NEW i \in Slots, sess' = [sess EXCEPT ![i] = Free],
             UNCHANGED <<stCnt, rng>>
      PROVE  KeepsSessions /\ rng' = rng
  BY <1>3 DEF TypeOK
<1>4. ASSUME NEW i \in Slots, Resolves(i)
      PROVE  sess[i] # Free
  BY <1>4 DEF Resolves, FirstWithToken, Active
<1>5. CASE Refusals
  BY <1>1, <1>3, <1>5 DEF Refusals, refuseFrame, refuseToken
<1>6. ASSUME NEW i \in Slots, NEW request \in {"", "elevateRequest", "other"},
             handleSBEle(i, request)
      PROVE  KeepsSessions /\ rng' = rng
  <2>1. CASE UNCHANGED sess
    BY <1>6, <2>1, <1>1 DEF handleSBEle
  <2>2. CASE sess' = [Touched(i) EXCEPT ![i].level = "ADMIN"]
             /\ cfg["EleEnabled"] = "True"
    <3>1. sess[i] # Free
      BY <1>4, <1>6 DEF handleSBEle
    <3>2. \A j \in Slots : sess'[j] # Free =>
            /\ sess[j] # Free
            /\ sess'[j].user = sess[j].user
            /\ sess'[j].token = sess[j].token
            /\ sess'[j].level \in {sess[j].level, "ADMIN"}
      BY ZenonT(60), <2>2, <3>1 DEF Touched, TypeOK, Session
    <3> QED
      BY <1>6, <2>2, <3>2 DEF handleSBEle
  <2> QED
    BY <1>6, <2>1, <2>2 DEF handleSBEle, ElevationOn
<1>7. ASSUME NEW i \in Slots, NEW size \in Sizes, handleBC(i, size)
      PROVE  KeepsSessions /\ (rng' = rng \/ rng'.seed = "fixed")
  <2>1. sess[i] # Free /\ UNCHANGED stCnt
    BY <1>4, <1>7 DEF handleBC
  <2>2. rng' = rng \/ rng'.seed = "fixed"
    BY <1>7 DEF handleBC, eBCCts
  <2>3. CASE sess' = Touched(i)
    BY <2>1, <2>2, <2>3, TouchedKeeps
  <2>4. CASE sess' = [Touched(i) EXCEPT ![i].grant = size]
    <3>1. \A j \in Slots : sess'[j] # Free =>
            /\ sess[j] # Free
            /\ sess'[j].user = sess[j].user
            /\ sess'[j].token = sess[j].token
            /\ sess'[j].level = sess[j].level
      BY <2>1, <2>4 DEF Touched, TypeOK, Session
    <3> QED
      BY <2>1, <2>2, <3>1
  <2> QED
    BY <1>7, <2>3, <2>4 DEF handleBC
<1>8. ASSUME NEW i \in Slots,
             \/ \E key \in Keys \cup {"", "unknown"} : handleNecroGet(i, key)
             \/ \E key \in Keys : \E value \in CfgVals[key] :
                  handleNecroSet(i, key, value)
             \/ \E key \in {"", "unknown"} : refuseKey(i, key)
             \/ \E cmdLen \in CmdLens, atEnd \in BOOLEAN : handleUW(i, cmdLen, atEnd)
             \/ \E kind \in {"NW_SETCFG", "UW_EXEC", "ER_REQ"} : refuseType(i, kind)
      PROVE  KeepsSessions /\ rng' = rng
  <2>1. Resolves(i) /\ sess' = Touched(i) /\ UNCHANGED <<stCnt, rng>>
    BY <1>8 DEF handleNecroGet, handleNecroSet, refuseKey, handleUW, refuseType
  <2> QED
    BY <2>1, <1>2, <1>4
<1>9. ASSUME NEW i \in Slots, handleER(i) \/ \E size \in Sizes : refuseData(i, size)
      PROVE  KeepsSessions /\ rng' = rng
  BY <1>1, <1>3, <1>9 DEF handleER, refuseData
<1>10. CASE Tick
  BY <1>10 DEF Tick, TypeOK, Session
<1>11. CASE UNCHANGED vars
  BY <1>1, <1>11 DEF vars
<1>12. ASSUME NEW p \in Ips, loginRefused(p) \/ \E blake3 \in BOOLEAN : handleAR(p, blake3)
       PROVE  KeepsSessions /\ rng' = rng
  BY <1>1, <1>12 DEF loginRefused, handleAR
<1> QED
  BY <1>5, <1>6, <1>7, <1>8, <1>9, <1>10, <1>11, <1>12
     DEF Next, SessionlessRequests, SessionRequests, Refusals

\* What stCS does before it looks for room: sessions only go, and the new
\* session's user has none left.
LEMMA ClearedTable ==
  ASSUME TypeOK, CountCoversActive, NEW u \in Users, NEW i \in Slots,
         WithoutUser(Reaped, u)[i] # Free
  PROVE  /\ WithoutUser(Reaped, u)[i] = sess[i]
         /\ sess[i] # Free
         /\ sess[i].user # u
         /\ i <= stCnt
  BY DEF WithoutUser, Reaped, Active, Used, CountCoversActive

\* What a login does to the table: sessions go, and at most one is added, in
\* a slot that had none.
LEMMA LoginEffect ==
  ASSUME TypeOK, CountCoversActive, NEW p \in Ips, NEW u \in Users,
         handleSBReq(p, u)
  PROVE  \E n \in Slots :
           /\ stCnt' >= stCnt
           /\ \A i \in Slots : sess'[i] # Free =>
                \/ i = n /\ n <= stCnt' /\ sess'[i] = NewSession(u, NextToken)
                \/ sess'[i] = sess[i] /\ sess[i].user # u /\ i <= stCnt
<1> DEFINE table == WithoutUser(Reaped, u)
<1>1. \A i \in Slots : table[i] # Free =>
        table[i] = sess[i] /\ sess[i].user # u /\ i <= stCnt
  BY ClearedTable
<1>2. CASE sess' = table /\ stCnt' = stCnt
  <2>1. 1 \in Slots
    BY BoundsAssumption DEF Slots
  <2> QED
    BY <1>1, <1>2, <2>1 DEF TypeOK
<1>3. CASE \E n \in Slots :
             /\ sess' = [table EXCEPT ![n] = NewSession(u, NextToken)]
             /\ stCnt' = IF n > stCnt THEN n ELSE stCnt
  <2>1. PICK n \in Slots :
             /\ sess' = [table EXCEPT ![n] = NewSession(u, NextToken)]
             /\ stCnt' = IF n > stCnt THEN n ELSE stCnt
    BY <1>3
  <2>2. stCnt' >= stCnt /\ n <= stCnt'
    BY <2>1, BoundsAssumption DEF TypeOK, Slots
  <2>3. \A i \in Slots : i # n => sess'[i] = table[i]
    BY <2>1
  <2>4. sess'[n] = NewSession(u, NextToken)
    BY <2>1 DEF WithoutUser
  <2> HIDE DEF table
  <2> QED
    BY <1>1, <2>2, <2>3, <2>4
<1> QED
  BY <1>2, <1>3 DEF handleSBReq, CountWith

\* The search for a user's old session stops at stCnt, so that every active
\* session lies below it is part of the inductive invariant.
SessionsInv == TypeOK /\ CountCoversActive /\ OneSessionPerUser

\* No step breaks it.
LEMMA SessionsStep ==
  ASSUME SessionsInv, [Next]_vars
  PROVE  SessionsInv'
<1> USE DEF SessionsInv
<1>1. TypeOK'
  BY StepTyped
<1>2. CASE KeepsSessions
  <2>1. CountCoversActive'
    BY <1>2 DEF KeepsSessions, CountCoversActive
  <2>2. OneSessionPerUser'
    BY <1>2 DEF KeepsSessions, OneSessionPerUser
  <2> QED
    BY <1>1, <2>1, <2>2
<1>3. ASSUME NEW p \in Ips, NEW u \in Users, handleSBReq(p, u)
      PROVE  SessionsInv'
  <2>1. PICK n \in Slots :
           /\ stCnt' >= stCnt
           /\ \A i \in Slots : sess'[i] # Free =>
                \/ i = n /\ n <= stCnt' /\ sess'[i] = NewSession(u, NextToken)
                \/ sess'[i] = sess[i] /\ sess[i].user # u /\ i <= stCnt
    BY <1>3, LoginEffect
  <2>2. CountCoversActive'
    BY <1>1, <2>1 DEF CountCoversActive, TypeOK, Slots
  <2>3. NewSession(u, NextToken).user = u
    BY DEF NewSession
  <2>4. OneSessionPerUser'
    <3> SUFFICES ASSUME NEW i \in Slots, NEW j \in Slots,
                        sess'[i] # Free, sess'[j] # Free, sess'[i].user = sess'[j].user
                 PROVE  i = j
      BY DEF OneSessionPerUser
    <3>1. CASE sess'[i] = sess[i] /\ sess[i].user # u
      BY <2>1, <2>3, <3>1 DEF OneSessionPerUser
    <3>2. CASE i = n /\ sess'[i] = NewSession(u, NextToken)
      BY <2>1, <2>3, <3>2
    <3> QED
      BY <2>1, <3>1, <3>2
  <2> QED
    BY <1>1, <2>2, <2>4
<1> QED
  BY <1>2, <1>3, TableEffect

\* One user has at most one active session, whatever the numbers of users and
\* slots.
THEOREM SessionsCorrect == Spec => [](CountCoversActive /\ OneSessionPerUser)
<1>1. Init => SessionsInv
  <2>1. Init => TypeOK
    BY InitTyped
  <2> QED
    BY <2>1 DEF Init, SessionsInv, CountCoversActive, OneSessionPerUser
<1>2. SessionsInv /\ [Next]_vars => SessionsInv'
  BY SessionsStep
<1>3. SessionsInv => CountCoversActive /\ OneSessionPerUser
  BY DEF SessionsInv
<1> QED
  BY <1>1, <1>2, <1>3, PTL DEF Spec

\* Every active session lies below stCnt, where the searches of state.c stop.
THEOREM CountCorrect == Spec => []CountCoversActive
BY SessionsCorrect, PTL

-----------------------------------------------------------------------------
(* Tokens.                                                                 *)

\* While the generator has not been reseeded, every active session's token was
\* drawn before, and no two are the same.
DrawnBefore ==
  rng.seed = "boot" =>
    /\ \A i \in Slots : sess[i] # Free =>
         sess[i].token[1] = "boot" /\ sess[i].token[2] <= rng.drawn
    /\ \A i, j \in Slots :
         sess[i] # Free /\ sess[j] # Free /\ sess[i].token = sess[j].token => i = j

\* No step breaks it.
LEMMA DrawnStep ==
  ASSUME TypeOK, CountCoversActive, DrawnBefore, [Next]_vars
  PROVE  DrawnBefore'
<1>1. CASE KeepsSessions /\ rng'.seed = "fixed"
  BY <1>1 DEF DrawnBefore
<1>2. CASE KeepsSessions /\ rng' = rng
  BY <1>2 DEF KeepsSessions, DrawnBefore
<1>3. ASSUME NEW p \in Ips, NEW u \in Users, handleSBReq(p, u)
      PROVE  DrawnBefore'
  <2>1. PICK n \in Slots :
           \A i \in Slots : sess'[i] # Free =>
             \/ i = n /\ sess'[i] = NewSession(u, NextToken)
             \/ sess'[i] = sess[i]
    BY <1>3, LoginEffect
  <2>2. /\ rng'.seed = rng.seed
        /\ rng'.drawn = rng.drawn + 1
        /\ rng.drawn \in Nat
    BY <1>3 DEF handleSBReq, gT, TypeOK
  <2>3. /\ NewSession(u, NextToken).token[1] = rng.seed
        /\ NewSession(u, NextToken).token[2] = rng.drawn + 1
    BY DEF NewSession, NextToken
  <2>4. ASSUME rng.seed = "boot"
        PROVE  /\ \A i \in Slots : sess[i] # Free =>
                    /\ sess[i].token[1] = "boot"
                    /\ sess[i].token[2] <= rng.drawn
                    /\ sess[i].token[2] \in Nat
               /\ \A i, j \in Slots : sess[i] # Free /\ sess[j] # Free
                    /\ sess[i].token = sess[j].token => i = j
    BY <2>4, BoundsAssumption DEF DrawnBefore, TypeOK, Session, Tokens
  <2>5. DrawnBefore'
    <3> SUFFICES ASSUME rng.seed = "boot"
                 PROVE  /\ \A i \in Slots : sess'[i] # Free =>
                             /\ sess'[i].token[1] = "boot"
                             /\ sess'[i].token[2] <= rng'.drawn
                        /\ \A i, j \in Slots : sess'[i] # Free /\ sess'[j] # Free
                             /\ sess'[i].token = sess'[j].token => i = j
      BY <2>2 DEF DrawnBefore
    <3>1. ASSUME NEW i \in Slots, sess'[i] # Free
          PROVE  sess'[i].token[1] = "boot" /\ sess'[i].token[2] <= rng'.drawn
      <4>1. CASE sess'[i] = NewSession(u, NextToken)
        BY <2>2, <2>3, <4>1
      <4>2. CASE sess'[i] = sess[i]
        BY <2>2, <2>4, <3>1, <4>2
      <4> QED
        BY <2>1, <3>1, <4>1, <4>2
    <3>2. ASSUME NEW i \in Slots, NEW j \in Slots,
                 sess'[i] # Free, sess'[j] # Free, sess'[i].token = sess'[j].token
          PROVE  i = j
      <4>1. CASE sess'[i] = sess[i] /\ sess'[j] = sess[j]
        BY <2>4, <3>2, <4>1
      <4>2. CASE i = n /\ j = n
        BY <4>2
      <4>3. CASE sess'[i] = sess[i] /\ sess'[j] = NewSession(u, NextToken)
        BY <2>2, <2>3, <2>4, <3>2, <4>3
      <4>4. CASE sess'[j] = sess[j] /\ sess'[i] = NewSession(u, NextToken)
        BY <2>2, <2>3, <2>4, <3>2, <4>4
      <4> QED
        BY <2>1, <3>2, <4>1, <4>2, <4>3, <4>4
    <3> QED
      BY <3>1, <3>2
  <2> QED
    BY <2>5
<1> QED
  BY <1>1, <1>2, <1>3, TableEffect

\* Tokens are drawn once and in order, while the generator is in its first
\* seeding.
LEMMA DrawnCorrect == Spec => []DrawnBefore
<1>1. Init => DrawnBefore
  BY DEF Init, DrawnBefore
<1>2. TypeOK /\ CountCoversActive /\ DrawnBefore /\ [Next]_vars => DrawnBefore'
  BY DrawnStep
<1> QED
  BY <1>1, <1>2, TypeCorrect, SessionsCorrect, PTL DEF Spec

\* Two active sessions share a token only after a BoneCourier request reseeded
\* the generator, however many tokens were drawn and slots reused before.
THEOREM TokensCorrect == Spec => []SharedTokenNeedsReseed
<1>1. TypeOK /\ DrawnBefore => SharedTokenNeedsReseed
  BY DEF DrawnBefore, SharedTokenNeedsReseed, TypeOK, Seeds
<1> QED
  BY <1>1, TypeCorrect, DrawnCorrect, PTL

-----------------------------------------------------------------------------
(* Settings and privilege.                                                 *)

\* Whatever clients write, the settings stay in the range the server works in.
THEOREM SettingsCorrect == Spec => []SettingsStayUsable
<1>1. TypeOK => SettingsStayUsable
  <2> SUFFICES ASSUME TypeOK
               PROVE  SettingsStayUsable
    OBVIOUS
  <2>1. /\ cfg["maxSess"] \in Int
        /\ cfg["tknExpire"] \in Int
        /\ cfg["maxPayload"] \in Int
    BY DEF TypeOK, NumKeys
  <2>2. gtMaxSess \in Slots
    BY <2>1, BoundsAssumption DEF gtMaxSess, MaxSessOf, Clamped, Slots
  <2>3. gtTknExp > 0
    BY <2>1, BoundsAssumption DEF gtTknExp, TknExpOf, Clamped
  <2>4. gtMaxPayload \in 16 .. 256
    BY <2>1 DEF gtMaxPayload, Clamped
  <2>5. TokenPayload["ER_REQ"] = 16
    BY DEF TokenPayload
  <2>6. ASSUME NEW u \in Users, NameLen[u] <= 6
        PROVE  Fits(LoginPayload(u))
    BY <2>4, <2>6, InputsAssumption DEF Fits, LoginPayload
  <2> QED
    BY <2>2, <2>3, <2>4, <2>5, <2>6 DEF SettingsStayUsable, Fits
<1> QED
  BY <1>1, TypeCorrect, PTL

\* No step makes a session ADMIN but an elevation while elevation is enabled.
THEOREM PrivilegeCorrect == Spec => PrivilegeIsEarned
<1>1. TypeOK /\ CountCoversActive /\ [Next]_vars =>
        \A i \in Slots :
          sess'[i] # Free /\ sess'[i].level = "ADMIN"
            => /\ sess[i] # Free
               /\ sess[i].user = sess'[i].user
               /\ sess[i].token = sess'[i].token
               /\ sess[i].level = "ADMIN" \/ cfg["EleEnabled"] = "True"
  <2> SUFFICES ASSUME TypeOK, CountCoversActive, [Next]_vars, NEW i \in Slots,
                      sess'[i] # Free, sess'[i].level = "ADMIN"
               PROVE  /\ sess[i] # Free
                      /\ sess[i].user = sess'[i].user
                      /\ sess[i].token = sess'[i].token
                      /\ sess[i].level = "ADMIN" \/ cfg["EleEnabled"] = "True"
    OBVIOUS
  <2>1. CASE KeepsSessions
    BY <2>1 DEF KeepsSessions
  <2>2. ASSUME NEW p \in Ips, NEW u \in Users, handleSBReq(p, u)
        PROVE  sess'[i] = sess[i]
    <3>1. NewSession(u, NextToken).level # "ADMIN"
      BY DEF NewSession
    <3> QED
      BY <2>2, <3>1, LoginEffect
  <2> QED
    BY <2>1, <2>2, TableEffect
<1> QED
  BY <1>1, TypeCorrect, SessionsCorrect, PTL DEF Spec, PrivilegeIsEarned

\* Only a NecroticWeave write changes the configuration, and only at keys the
\* session's level allows.
LEMMA ConfigEffect ==
  ASSUME TypeOK, [Next]_vars
  PROVE  \/ cfg' = cfg
         \/ \E i \in Slots, key \in Keys : \E value \in CfgVals[key] :
              /\ handleNecroSet(i, key, value)
              /\ cfg' = [cfg EXCEPT ![key] = value]
              /\ sess[i].level = "ADMIN" \/ key \notin AdminKeys
<1>1. ASSUME NEW i \in Slots, NEW key \in Keys, NEW value \in CfgVals[key],
             handleNecroSet(i, key, value)
      PROVE  \/ cfg' = cfg
             \/ /\ cfg' = [cfg EXCEPT ![key] = value]
                /\ sess[i].level = "ADMIN" \/ key \notin AdminKeys
  BY <1>1 DEF handleNecroSet, cfgSAllows
<1>2. CASE ~ \E i \in Slots, key \in Keys : \E value \in CfgVals[key] :
               handleNecroSet(i, key, value)
  <2>1. CASE Next
    BY <1>2, <2>1
       DEF Next, Refusals, SessionlessRequests, SessionRequests, refuseFrame,
           refuseToken, refuseData, handleAR, loginRefused, handleSBReq, handleSBEle,
           handleBC, handleNecroGet, refuseKey, handleUW, handleER, refuseType, Tick
  <2> QED
    BY <2>1 DEF vars
<1> QED
  BY <1>1, <1>2

\* The configuration changes only at the request of a live session, and every
\* key but EleEnabled only at the request of an ADMIN one.
THEOREM ConfigCorrect == Spec => ConfigChangeIsAuthorised
<1>1. TypeOK /\ [Next]_vars =>
        \A k \in Keys : cfg'[k] # cfg[k] =>
          \E i \in Slots :
            /\ last'.by = i
            /\ sess[i] # Free
            /\ ~stTE(i)
            /\ k # "EleEnabled" => sess[i].level = "ADMIN"
  <2> SUFFICES ASSUME TypeOK, [Next]_vars, NEW k \in Keys, cfg'[k] # cfg[k]
               PROVE  \E i \in Slots :
                        /\ last'.by = i
                        /\ sess[i] # Free
                        /\ ~stTE(i)
                        /\ k # "EleEnabled" => sess[i].level = "ADMIN"
    OBVIOUS
  <2>1. PICK i \in Slots, key \in Keys : \E value \in CfgVals[key] :
              /\ handleNecroSet(i, key, value)
              /\ cfg' = [cfg EXCEPT ![key] = value]
              /\ sess[i].level = "ADMIN" \/ key \notin AdminKeys
    BY ConfigEffect
  <2>2. k = key
    BY <2>1 DEF TypeOK
  <2>3. last'.by = i /\ Resolves(i)
    BY <2>1 DEF handleNecroSet, Answer
  <2>4. k # "EleEnabled" => sess[i].level = "ADMIN"
    BY <2>1, <2>2 DEF AdminKeys
  <2> QED
    BY <2>3, <2>4 DEF Resolves, FirstWithToken, Active
<1> QED
  BY <1>1, TypeCorrect, PTL DEF Spec, ConfigChangeIsAuthorised

\* While EleEnabled cannot become True, all sessions are unprivileged and the
\* administrator's settings keep their values: each of the two holds because
\* the other does.
Closed == "True" \notin CfgVals["EleEnabled"] \cup {CfgDefault["EleEnabled"]}

ClosedInv ==
  Closed =>
    /\ cfg["EleEnabled"] # "True"
    /\ \A i \in Slots : sess[i] # Free => sess[i].level = "UNPRIVILEGED"
    /\ \A k \in AdminKeys : cfg[k] = CfgDefault[k]

THEOREM ClosedCorrect == Spec => []ClosedWithoutElevation
<1>1. Init => ClosedInv
  BY DEF Init, ClosedInv, Closed
<1>2. TypeOK /\ CountCoversActive /\ ClosedInv /\ [Next]_vars => ClosedInv'
  <2> SUFFICES ASSUME TypeOK, CountCoversActive, ClosedInv, [Next]_vars
               PROVE  ClosedInv'
    OBVIOUS
  <2> USE DEF ClosedInv
  <2>1. ASSUME Closed
        PROVE  \A i \in Slots : sess'[i] # Free => sess'[i].level = "UNPRIVILEGED"
    <3>1. CASE KeepsSessions
      BY <2>1, <3>1 DEF KeepsSessions
    <3>2. ASSUME NEW p \in Ips, NEW u \in Users, handleSBReq(p, u),
                 NEW i \in Slots, sess'[i] # Free
          PROVE  sess'[i].level = "UNPRIVILEGED"
      <4>1. NewSession(u, NextToken).level = "UNPRIVILEGED"
        BY DEF NewSession
      <4>2. sess'[i] = NewSession(u, NextToken) \/ sess'[i] = sess[i]
        BY <3>2, LoginEffect
      <4> QED
        BY <2>1, <3>2, <4>1, <4>2
    <3> QED
      BY <3>1, <3>2, TableEffect
  <2>2. ASSUME Closed
        PROVE  cfg'["EleEnabled"] # "True" /\ \A k \in AdminKeys : cfg'[k] = CfgDefault[k]
    <3>1. CASE cfg' = cfg
      BY <2>2, <3>1
    <3>2. ASSUME NEW i \in Slots, NEW key \in Keys, NEW value \in CfgVals[key],
                 handleNecroSet(i, key, value),
                 cfg' = [cfg EXCEPT ![key] = value],
                 sess[i].level = "ADMIN" \/ key \notin AdminKeys
          PROVE  cfg'["EleEnabled"] # "True" /\ \A k \in AdminKeys : cfg'[k] = CfgDefault[k]
      <4>1. sess[i] # Free
        BY <3>2 DEF handleNecroSet, Resolves, FirstWithToken, Active
      <4>2. key = "EleEnabled"
        BY <2>2, <3>2, <4>1 DEF AdminKeys
      <4>3. value # "True"
        BY <2>2, <3>2, <4>2 DEF Closed
      <4> QED
        BY <2>2, <3>2, <4>2, <4>3 DEF AdminKeys, TypeOK
    <3> QED
      BY <3>1, <3>2, ConfigEffect
  <2> QED
    BY <2>1, <2>2 DEF Closed
<1>3. ClosedInv => ClosedWithoutElevation
  BY DEF ClosedInv, Closed, ClosedWithoutElevation
<1> QED
  BY <1>1, <1>2, <1>3, TypeCorrect, SessionsCorrect, PTL DEF Spec

-----------------------------------------------------------------------------
(* The handshake cache.                                                    *)

\* The requests that carry a token leave the cache alone.
LEMMA SessionRequestEffect ==
  ASSUME SessionRequests
  PROVE  UNCHANGED <<hs, shake>> /\ last'.kind # "SB_REQ"
<1>1. PICK i \in Slots :
        \/ \E request \in {"", "elevateRequest", "other"} : handleSBEle(i, request)
        \/ \E size \in Sizes : handleBC(i, size)
        \/ \E key \in Keys \cup {"", "unknown"} : handleNecroGet(i, key)
        \/ \E key \in Keys : \E value \in CfgVals[key] : handleNecroSet(i, key, value)
        \/ \E key \in {"", "unknown"} : refuseKey(i, key)
        \/ \E cmdLen \in CmdLens, atEnd \in BOOLEAN : handleUW(i, cmdLen, atEnd)
        \/ handleER(i)
        \/ \E kind \in {"NW_SETCFG", "UW_EXEC", "ER_REQ"} : refuseType(i, kind)
        \/ \E size \in Sizes : refuseData(i, size)
  BY DEF SessionRequests
<1> DEFINE Elsewhere ==
      /\ UNCHANGED <<hs, shake>>
      /\ \E kind \in {"SB_ELEVATE", "BC_RTS", "NW_GETCFG", "NW_SETCFG", "UW_EXEC",
                      "ER_REQ", "BC_DATA"} : \E code : Answer(kind, i, code)
<1>2. ASSUME NEW request, handleSBEle(i, request)
      PROVE  Elsewhere
  BY <1>2 DEF handleSBEle
<1>3. ASSUME NEW size, handleBC(i, size)
      PROVE  Elsewhere
  BY <1>3 DEF handleBC
<1>4. ASSUME NEW key, handleNecroGet(i, key)
      PROVE  Elsewhere
  BY <1>4 DEF handleNecroGet
<1>5. ASSUME NEW key, NEW value, handleNecroSet(i, key, value)
      PROVE  Elsewhere
  BY <1>5 DEF handleNecroSet
<1>6. ASSUME NEW key, refuseKey(i, key)
      PROVE  Elsewhere
  BY <1>6 DEF refuseKey
<1>7. ASSUME NEW cmdLen, NEW atEnd, handleUW(i, cmdLen, atEnd)
      PROVE  Elsewhere
  BY <1>7 DEF handleUW
<1>8. ASSUME handleER(i)
      PROVE  Elsewhere
  BY <1>8 DEF handleER
<1>9. ASSUME NEW kind \in {"NW_SETCFG", "UW_EXEC", "ER_REQ"}, refuseType(i, kind)
      PROVE  Elsewhere
  BY <1>9 DEF refuseType
<1>10. ASSUME NEW size, refuseData(i, size)
       PROVE  Elsewhere
  BY <1>10 DEF refuseData
<1>11. Elsewhere
  <2> HIDE DEF Elsewhere
  <2> QED
    BY <1>1, <1>2, <1>3, <1>4, <1>5, <1>6, <1>7, <1>8, <1>9, <1>10
<1> QED
  BY <1>11 DEF Answer

\* An accepted handshake leaves one entry for its address, and the entries of
\* the others as they were or gone.
LEMMA HandshakeEffect ==
  ASSUME TypeOK, NEW p \in Ips, markHs(p)
  PROVE  \E n \in HsSlots :
           /\ hs'[n] = [ip |-> p, age |-> 0]
           /\ \A k \in HsSlots \ {n} : hs'[k] = hs[k]
           /\ CacheIsTrue => \A k \in HsSlots \ {n} : hs[k] # Empty => hs[k].ip # p
<1>1. PICK n \in HsSlots : HsSlotFor(n, p) /\ hs' = [hs EXCEPT ![n] = [ip |-> p, age |-> 0]]
  BY DEF markHs
<1>2. ASSUME CacheIsTrue, NEW k \in HsSlots \ {n}, hs[k] # Empty
      PROVE  hs[k].ip # p
  BY <1>1, <1>2 DEF HsSlotFor, FirstHolder, Holds, CacheIsTrue
<1> QED
  BY <1>1, <1>2 DEF TypeOK

\* Every entry tells when its address last shook hands, and an address has at
\* most one, for every size of the cache and any number of addresses.
THEOREM CacheCorrect == Spec => []CacheIsTrue
<1>1. Init => CacheIsTrue
  BY DEF Init, CacheIsTrue
<1>2. TypeOK /\ CacheIsTrue /\ [Next]_vars => CacheIsTrue'
  <2> SUFFICES ASSUME TypeOK, CacheIsTrue, [Next]_vars
               PROVE  CacheIsTrue'
    OBVIOUS
  <2>1. CASE UNCHANGED <<hs, shake>>
    BY <2>1 DEF CacheIsTrue
  <2>2. ASSUME NEW p \in Ips, markHs(p), shake' = [shake EXCEPT ![p] = 0]
        PROVE  CacheIsTrue'
    <3>1. PICK n \in HsSlots :
            /\ hs'[n] = [ip |-> p, age |-> 0]
            /\ \A k \in HsSlots \ {n} : hs'[k] = hs[k]
            /\ \A k \in HsSlots \ {n} : hs[k] # Empty => hs[k].ip # p
      BY <2>2, HandshakeEffect
    <3>2. hs'[n].ip = p /\ hs'[n].age = 0 /\ shake'[p] = 0
      BY <2>2, <3>1 DEF TypeOK
    <3>3. \A k \in HsSlots \ {n} : hs[k] # Empty =>
            hs[k].ip \in Ips /\ shake'[hs[k].ip] = shake[hs[k].ip]
      BY <2>2, <3>1 DEF TypeOK, HsEntry
    <3> QED
      BY <3>1, <3>2, <3>3 DEF CacheIsTrue
  <2>3. ASSUME NEW p \in Ips, hs' = HsAfterCheck(p), UNCHANGED shake
        PROVE  CacheIsTrue'
    <3>1. \A j \in HsSlots : hs'[j] # Empty => hs'[j] = hs[j]
      BY <2>3 DEF HsAfterCheck
    <3> QED
      BY <2>3, <3>1 DEF CacheIsTrue
  <2>4. CASE Tick
    <3>1. \A j \in HsSlots : hs'[j] # Empty =>
            /\ hs[j] # Empty
            /\ hs'[j].ip = hs[j].ip
            /\ hs'[j].age = Least(hs[j].age + 1, MaxAge)
            /\ hs[j].ip \in Ips
      BY <2>4 DEF Tick, TypeOK, HsEntry
    <3>2. \A p \in Ips : shake'[p] = Least(shake[p] + 1, MaxAge)
      BY <2>4 DEF Tick
    <3> QED
      BY <3>1, <3>2 DEF CacheIsTrue
  <2>5. CASE ~ (UNCHANGED <<hs, shake>> \/ Tick)
    <3>1. \E p \in Ips :
            \/ \E blake3 \in BOOLEAN : handleAR(p, blake3)
            \/ loginRefused(p)
      BY <2>5, SessionRequestEffect
         DEF Next, Refusals, SessionlessRequests, refuseFrame, refuseToken,
             handleSBReq, vars
    <3> QED
      BY <2>2, <2>3, <2>5, <3>1 DEF handleAR, loginRefused
  <2> QED
    BY <2>1, <2>4, <2>5
<1> QED
  BY <1>1, <1>2, TypeCorrect, PTL DEF Spec

\* Only handleSBReq grants a login, and to the address that asked.
LEMMA GrantedIsLogin ==
  ASSUME Next, last'.kind = "SB_REQ", last'.code = "SB_RESP"
  PROVE  \E p \in Ips, u \in Users : handleSBReq(p, u) /\ last'.by = p
<1>1. ~ Refusals /\ ~ Tick
  BY DEF Refusals, refuseFrame, refuseToken, Tick, Quiet, Answer
<1>2. ~ SessionRequests
  BY SessionRequestEffect
<1>3. PICK p \in Ips :
        \/ \E blake3 \in BOOLEAN : handleAR(p, blake3)
        \/ loginRefused(p)
        \/ \E u \in Users : handleSBReq(p, u)
  BY <1>1, <1>2 DEF Next, SessionlessRequests
<1>4. ~ (\E blake3 \in BOOLEAN : handleAR(p, blake3)) /\ ~ loginRefused(p)
  BY DEF handleAR, loginRefused, Answer
<1>5. PICK u \in Users : handleSBReq(p, u)
  BY <1>3, <1>4
<1>6. last'.by = p
  BY <1>5 DEF handleSBReq, Answer
<1> QED
  BY <1>5, <1>6

\* A login is granted only after a recent handshake from its address.
THEOREM HandshakeCorrect == Spec => LoginAfterHandshake
<1>1. TypeOK /\ CacheIsTrue /\ [Next]_vars =>
        \/ UNCHANGED vars
        \/ \A p \in Ips :
             last'.kind = "SB_REQ" /\ last'.by = p /\ last'.code = "SB_RESP"
               => shake[p] <= HsTtlSec
  <2> SUFFICES ASSUME TypeOK, CacheIsTrue, Next, NEW p \in Ips,
                      last'.kind = "SB_REQ", last'.by = p, last'.code = "SB_RESP"
               PROVE  shake[p] <= HsTtlSec
    OBVIOUS
  <2>1. PICK u \in Users : handleSBReq(p, u)
    BY GrantedIsLogin
  <2>2. hasRecentHs(p)
    BY <2>1 DEF handleSBReq
  <2> QED
    BY <2>2 DEF hasRecentHs, FirstHolder, Holds, CacheIsTrue
<1> QED
  BY <1>1, TypeCorrect, CacheCorrect, PTL DEF Spec, LoginAfterHandshake

-----------------------------------------------------------------------------
(* The limit on sessions, and who loses one.                               *)

Occupied == {i \in Slots : sess[i] # Free}

\* Sets of slots are finite, and a larger one has no fewer elements.
LEMMA SlotSets ==
  ASSUME NEW A, NEW B, A \subseteq B, B \subseteq Slots
  PROVE  /\ IsFiniteSet(A) /\ IsFiniteSet(B)
         /\ Cardinality(A) \in Nat /\ Cardinality(B) \in Nat
         /\ Cardinality(A) <= Cardinality(B)
<1>1. IsFiniteSet(Slots)
  BY BoundsAssumption, FS_Interval DEF Slots
<1>2. IsFiniteSet(B)
  BY <1>1, FS_Subset
<1>3. IsFiniteSet(A) /\ Cardinality(A) <= Cardinality(B)
  BY <1>2, FS_Subset
<1> QED
  BY <1>2, <1>3, FS_CardinalityType

\* After a login is granted no more sessions are active than maxSess allows.
THEOREM LimitCorrect == Spec => LoginWithinLimit
<1>1. TypeOK /\ CountCoversActive /\ [Next]_vars =>
        \/ UNCHANGED vars
        \/ last'.kind = "SB_REQ" /\ last'.code = "SB_RESP"
             => Cardinality({i \in Slots : sess'[i] # Free}) <= gtMaxSess
  <2> SUFFICES ASSUME TypeOK, CountCoversActive, Next,
                      last'.kind = "SB_REQ", last'.code = "SB_RESP"
               PROVE  Cardinality({i \in Slots : sess'[i] # Free}) <= gtMaxSess
    OBVIOUS
  <2> DEFINE after == {i \in Slots : sess'[i] # Free}
  <2>1. PICK p \in Ips, u \in Users : handleSBReq(p, u)
    BY GrantedIsLogin
  <2> DEFINE table == WithoutUser(Reaped, u)
  <2>2. Cardinality(Active(table)) < gtMaxSess
    BY <2>1 DEF handleSBReq, Answer
  <2>3. PICK n \in Slots : /\ SlotFor(table, n)
                          /\ sess' = [table EXCEPT ![n] = NewSession(u, NextToken)]
    BY <2>1, <2>2 DEF handleSBReq, Answer
  <2>4. gtMaxSess \in Int
    BY BoundsAssumption DEF gtMaxSess, MaxSessOf, Clamped, TypeOK, NumKeys
  <2>5. \A i \in Slots : i # n => sess'[i] = table[i]
    BY <2>3
  <2>6. after \subseteq Active(table) \cup {n}
    <3>1. \A i \in Slots : table[i] # Free => i \in Active(table)
      BY ClearedTable DEF Active, Used
    <3> HIDE DEF table
    <3> QED
      BY <2>5, <3>1
  <2>7. Active(table) \subseteq Slots
    BY DEF Active, Used
  <2>8. IsFiniteSet(Active(table)) /\ Cardinality(Active(table)) \in Nat
    BY <2>7, SlotSets
  <2>9. Cardinality(Active(table) \cup {n}) =
          IF n \in Active(table) THEN Cardinality(Active(table))
          ELSE Cardinality(Active(table)) + 1
    <3> DEFINE A == Active(table)
    <3> HIDE DEF A
    <3>1. IsFiniteSet(A)
      BY <2>8 DEF A
    <3>2. Cardinality(A \cup {n}) = IF n \in A THEN Cardinality(A) ELSE Cardinality(A) + 1
      BY <3>1, FS_AddElement
    <3> QED
      BY <3>2 DEF A
  <2>10. Cardinality(Active(table) \cup {n}) \in Nat /\ Cardinality(after) \in Nat
         /\ Cardinality(after) <= Cardinality(Active(table) \cup {n})
    BY <2>6, <2>7, SlotSets
  <2> HIDE DEF table, after
  <2>11. Cardinality(after) <= gtMaxSess
    BY <2>2, <2>4, <2>8, <2>9, <2>10
  <2> QED
    BY <2>11 DEF after
<1> QED
  BY <1>1, TypeCorrect, SessionsCorrect, PTL DEF Spec, LoginWithinLimit

\* A refreshed session stays, and so do the others.
LEMMA TouchedStays ==
  ASSUME TypeOK, NEW i \in Slots, NEW j \in Slots, sess[i] # Free, sess[j] # Free
  PROVE  /\ Touched(j) \in [Slots -> Session \cup {Free}]
         /\ Touched(j)[i] \in Session
         /\ Touched(j)[i] # Free
<1>1. Touched(j) \in [Slots -> Session \cup {Free}] /\ Touched(j)[j] \in Session
  BY BoundsAssumption DEF TypeOK, Touched, Session, Ages
<1>2. i # j => Touched(j)[i] = sess[i]
  BY DEF Touched
<1>3. Touched(j)[i] \in Session
  BY <1>1, <1>2 DEF TypeOK
<1> QED
  BY <1>1, <1>3, SentinelAssumption

\* Every step leaves a live session active, but its goodbye and the logins
\* with good credentials.
LEMMA LiveStays ==
  ASSUME TypeOK, [Next]_vars, NEW i \in Slots, sess[i] # Free, ~stTE(i)
  PROVE  \/ sess'[i] # Free
         \/ handleER(i)
         \/ \E p \in Ips, u \in Users : handleSBReq(p, u)
<1>1. ASSUME NEW j \in Slots, Resolves(j)
      PROVE  /\ sess[j] # Free
             /\ Touched(j) \in [Slots -> Session \cup {Free}]
             /\ Touched(j)[i] \in Session
             /\ Touched(j)[i] # Free
  BY <1>1, TouchedStays DEF Resolves, FirstWithToken, Active
<1>2. CASE Refusals
  BY <1>2 DEF Refusals, refuseFrame, refuseToken, Stale, TypeOK
<1>3. ASSUME NEW p \in Ips,
             loginRefused(p) \/ \E blake3 \in BOOLEAN : handleAR(p, blake3)
      PROVE  sess'[i] # Free
  BY <1>3 DEF loginRefused, handleAR
<1>4. ASSUME NEW j \in Slots, NEW request \in {"", "elevateRequest", "other"},
             handleSBEle(j, request)
      PROVE  sess'[i] # Free
  <2>1. Touched(j) \in [Slots -> Session \cup {Free}] /\ Touched(j)[i] \in Session
    BY <1>1, <1>4 DEF handleSBEle
  <2>2. [Touched(j) EXCEPT ![j].level = "ADMIN"][i] \in Session
    BY <2>1 DEF Session, Levels
  <2> QED
    BY <1>4, <2>2, SentinelAssumption DEF handleSBEle
<1>5. ASSUME NEW j \in Slots, NEW size \in Sizes, handleBC(j, size)
      PROVE  sess'[i] # Free
  <2>1. /\ Touched(j) \in [Slots -> Session \cup {Free}]
        /\ Touched(j)[i] \in Session
        /\ Touched(j)[i] # Free
    BY <1>1, <1>5 DEF handleBC
  <2>2. [Touched(j) EXCEPT ![j].grant = size][i] \in Session
    BY <2>1 DEF Session
  <2> QED
    BY <1>5, <2>1, <2>2, SentinelAssumption DEF handleBC
<1>6. ASSUME NEW j \in Slots,
             \/ \E key \in Keys \cup {"", "unknown"} : handleNecroGet(j, key)
             \/ \E key \in Keys : \E value \in CfgVals[key] :
                  handleNecroSet(j, key, value)
             \/ \E key \in {"", "unknown"} : refuseKey(j, key)
             \/ \E cmdLen \in CmdLens, atEnd \in BOOLEAN : handleUW(j, cmdLen, atEnd)
             \/ \E kind \in {"NW_SETCFG", "UW_EXEC", "ER_REQ"} : refuseType(j, kind)
      PROVE  sess'[i] # Free
  <2>1. Resolves(j) /\ sess' = Touched(j)
    BY <1>6 DEF handleNecroGet, handleNecroSet, refuseKey, handleUW, refuseType
  <2> QED
    BY <2>1, <1>1
<1>7. ASSUME NEW j \in Slots, handleER(j) \/ \E size \in Sizes : refuseData(j, size)
      PROVE  sess'[i] # Free \/ handleER(i)
  BY <1>7 DEF handleER, refuseData, TypeOK
<1>8. CASE Tick
  <2>1. sess'[i] = [sess[i] EXCEPT !.idle = Least(sess[i].idle + 1, MaxAge)]
    BY <1>8 DEF Tick
  <2>2. Least(sess[i].idle + 1, MaxAge) \in Ages
    BY BoundsAssumption DEF TypeOK, Session, Least, Ages
  <2>3. sess'[i] \in Session
    BY <2>1, <2>2 DEF TypeOK, Session
  <2> QED
    BY <2>3, SentinelAssumption
<1>9. CASE UNCHANGED vars
  BY <1>9 DEF vars
<1> QED
  BY <1>2, <1>3, <1>4, <1>5, <1>6, <1>7, <1>8, <1>9
     DEF Next, SessionlessRequests, SessionRequests

\* What a login does to the user of a live session: another user's session
\* stays; the user's own is replaced, or lost for want of room.
LEMMA LoginSpares ==
  ASSUME TypeOK, CountCoversActive, NEW p \in Ips, NEW u \in Users,
         handleSBReq(p, u), NEW i \in Slots, sess[i] # Free, ~stTE(i)
  PROVE  \/ \E j \in Slots : sess'[j] # Free /\ sess'[j].user = sess[i].user
         \/ /\ sess[i].user = u /\ last'.code = "MALFORMED"
            /\ Cardinality(Occupied) > gtMaxSess
<1> DEFINE table == WithoutUser(Reaped, u)
<1>1. i <= stCnt
  BY DEF CountCoversActive
<1>2. \A j \in Slots : table[j] # Free => sess[j] # Free /\ sess[j].user # u
  BY ClearedTable
<1>3. CASE /\ Cardinality(Active(table)) >= gtMaxSess
           /\ sess' = table
           /\ Answer("SB_REQ", p, "MALFORMED")
  <2>1. CASE sess[i].user = u
    <3> DEFINE rest == Occupied \ {i}
    <3>1. Active(table) \subseteq rest
      BY <1>2, <2>1 DEF Active, Used, Occupied
    <3>2. rest \subseteq Slots /\ Occupied \subseteq Slots /\ i \in Occupied
      BY DEF Occupied
    <3>3. /\ IsFiniteSet(Occupied) /\ Cardinality(Occupied) \in Nat
          /\ Cardinality(Active(table)) \in Nat /\ Cardinality(rest) \in Nat
          /\ Cardinality(Active(table)) <= Cardinality(rest)
      BY <3>1, <3>2, SlotSets
    <3>4. Cardinality(rest) = Cardinality(Occupied) - 1
      BY <3>2, <3>3, FS_RemoveElement
    <3>5. gtMaxSess \in Int
      BY BoundsAssumption DEF gtMaxSess, MaxSessOf, Clamped, TypeOK, NumKeys
    <3>6. last'.code = "MALFORMED"
      BY <1>3 DEF Answer
    <3> HIDE DEF table, rest
    <3> QED
      BY <1>3, <2>1, <3>3, <3>4, <3>5, <3>6
  <2>2. CASE sess[i].user # u
    <3>1. table[i] = sess[i]
      BY <2>2 DEF WithoutUser, Reaped
    <3> QED
      BY <1>3, <3>1
  <2> QED
    BY <2>1, <2>2
<1>4. CASE \E n \in Slots : /\ SlotFor(table, n)
                           /\ sess' = [table EXCEPT ![n] = NewSession(u, NextToken)]
  <2>1. PICK n \in Slots : /\ SlotFor(table, n)
                          /\ sess' = [table EXCEPT ![n] = NewSession(u, NextToken)]
    BY <1>4
  <2>2. CASE sess[i].user = u
    <3>1. sess'[n] = NewSession(u, NextToken)
      BY <2>1 DEF WithoutUser
    <3>2. NewSession(u, NextToken) \in Session
      <4>1. rng.drawn < MaxDraws
        BY DEF handleSBReq, gT
      <4> QED
        BY <4>1, BoundsAssumption
           DEF NewSession, NextToken, Session, Tokens, Levels, Ages, TypeOK
    <3>3. sess'[n] # Free
      BY <3>1, <3>2, SentinelAssumption
    <3>4. sess'[n].user = u
      BY <3>1 DEF NewSession
    <3> QED
      BY <2>2, <3>3, <3>4
  <2>3. CASE sess[i].user # u
    <3>1. table[i] = sess[i]
      BY <2>3 DEF WithoutUser, Reaped
    <3>2. n # i
      BY <1>1, <2>1, <3>1 DEF SlotFor, TypeOK, Slots
    <3>3. sess'[i] = sess[i]
      BY <2>1, <3>1, <3>2
    <3> QED
      BY <3>3
  <2> QED
    BY <2>2, <2>3
<1> QED
  BY <1>3, <1>4 DEF handleSBReq

\* A user loses a live session only by a goodbye with its token, no other
\* session's until the generator was reseeded, or by its own login, refused
\* for want of room.
THEOREM LiveSessionsCorrect == Spec => LiveSessionEndsForCause
<1> DEFINE Bye(i) ==
             /\ last'.kind = "ER_REQ" /\ last'.by = i
             /\ \A j \in Slots \ {i} :
                  sess[j] # Free /\ sess[j].token = sess[i].token
                    => rng.seed = "fixed"
           Crowded(i) ==
             /\ \E p \in Ips : handleSBReq(p, sess[i].user)
             /\ last'.code = "MALFORMED"
             /\ Cardinality({j \in Slots : sess[j] # Free}) > gtMaxSess
           Cause ==
             \A i \in Slots :
               /\ sess[i] # Free
               /\ ~stTE(i)
               /\ \A j \in Slots : sess'[j] # Free => sess'[j].user # sess[i].user
               => \/ Bye(i)
                  \/ Crowded(i)
<1>1. TypeOK /\ CountCoversActive /\ SharedTokenNeedsReseed /\ [Next]_vars => Cause
  <2> SUFFICES ASSUME TypeOK, CountCoversActive, SharedTokenNeedsReseed,
                      [Next]_vars, NEW i \in Slots, sess[i] # Free, ~stTE(i),
                      \A j \in Slots : sess'[j] # Free => sess'[j].user # sess[i].user
               PROVE  Bye(i) \/ Crowded(i)
    OBVIOUS
  <2>1. ASSUME NEW p \in Ips, NEW u \in Users, handleSBReq(p, u)
        PROVE  Crowded(i)
    <3>1. /\ sess[i].user = u /\ last'.code = "MALFORMED"
          /\ Cardinality(Occupied) > gtMaxSess
      BY <2>1, LoginSpares
    <3> QED
      BY <2>1, <3>1 DEF Occupied
  <2>2. CASE handleER(i)
    <3>1. last'.kind = "ER_REQ" /\ last'.by = i
      BY <2>2 DEF handleER, Answer
    <3> QED
      BY <3>1 DEF SharedTokenNeedsReseed
  <2>3. CASE sess'[i] # Free
    <3>1. sess'[i].user = sess[i].user \/ \E p \in Ips, u \in Users : handleSBReq(p, u)
      BY <2>3, TableEffect DEF KeepsSessions
    <3> QED
      BY <2>1, <2>3, <3>1
  <2> QED
    BY <2>1, <2>2, <2>3, LiveStays
<1> QED
  BY <1>1, TypeCorrect, SessionsCorrect, TokensCorrect, PTL
     DEF Spec, LiveSessionEndsForCause

-----------------------------------------------------------------------------
(* The refinement of LichPolicy *)

-----------------------------------------------------------------------------
(* A register and the table of sessions it is read from.                   *)

EntryOf(s) == [level |-> s.level, idle |-> s.idle]

IsRegister(table, reg) ==
  /\ reg = [u \in Users |-> reg[u]]
  /\ \A i \in Slots : table[i] # Free => reg[table[i].user] = EntryOf(table[i])
  /\ \A u \in Users :
       (\A i \in Slots : table[i] # Free => table[i].user # u) => reg[u] = Free

\* The register is what the table says, before a step and after it.
LEMMA RegisterRead == TypeOK /\ OneSessionPerUser => IsRegister(sess, register)
<1> SUFFICES ASSUME TypeOK, OneSessionPerUser PROVE IsRegister(sess, register)
  OBVIOUS
<1>1. ASSUME NEW i \in Slots, sess[i] # Free
      PROVE  sess[i].user \in Users /\ SessionOf(sess[i].user) = EntryOf(sess[i])
  <2>1. sess[i].user \in Users
    BY <1>1 DEF TypeOK, Session
  <2>2. HeldBy(i, sess[i].user)
    BY <1>1 DEF HeldBy
  <2>3. \A j \in Slots : HeldBy(j, sess[i].user) => j = i
    BY <1>1 DEF HeldBy, OneSessionPerUser
  <2>4. (CHOOSE j \in Slots : HeldBy(j, sess[i].user)) = i
    BY <2>2, <2>3
  <2> QED
    BY <2>1, <2>2, <2>4 DEF SessionOf, EntryOf
<1>2. ASSUME NEW u \in Users, \A i \in Slots : sess[i] # Free => sess[i].user # u
      PROVE  SessionOf(u) = Free
  BY <1>2 DEF SessionOf, HeldBy
<1>3. register = [u \in Users |-> SessionOf(u)]
  BY DEF register
<1>4. \A u \in Users : register[u] = SessionOf(u)
  BY <1>3
<1>5. register = [u \in Users |-> register[u]]
  BY <1>3
<1>6. \A i \in Slots : sess[i] # Free => register[sess[i].user] = EntryOf(sess[i])
  BY <1>1, <1>4
<1>7. \A u \in Users :
        (\A i \in Slots : sess[i] # Free => sess[i].user # u) => register[u] = Free
  BY <1>2, <1>4
<1> QED
  BY <1>5, <1>6, <1>7 DEF IsRegister

\* The same of the next state.
LEMMA RegisterReadNext == TypeOK' /\ OneSessionPerUser' => IsRegister(sess', register')
<1>. DEFINE Read == IsRegister(sess, register)
<1>1. TypeOK /\ OneSessionPerUser => Read
  BY RegisterRead
<1> HIDE DEF Read
<1>2. TypeOK' /\ OneSessionPerUser' => Read'
  BY <1>1, PTL
<1> QED
  BY <1>2 DEF Read

\* A table has one register.
LEMMA RegisterUnique ==
  ASSUME NEW table, NEW r, NEW s, IsRegister(table, r), IsRegister(table, s)
  PROVE  r = s
<1>1. ASSUME NEW u \in Users
      PROVE  r[u] = s[u]
  <2>1. CASE \A i \in Slots : table[i] # Free => table[i].user # u
    BY <2>1 DEF IsRegister
  <2>2. CASE \E i \in Slots : table[i] # Free /\ table[i].user = u
    BY <2>2 DEF IsRegister
  <2> QED
    BY <2>1, <2>2
<1> QED
  BY <1>1 DEF IsRegister

\* When one session changes, and not its user, one entry does.
LEMMA RegisterChange ==
  ASSUME NEW table \in [Slots -> Session \cup {Free}], NEW r, IsRegister(table, r),
         \A j, k \in Slots : table[j] # Free /\ table[k] # Free /\ table[j].user = table[k].user => j = k,
         NEW i \in Slots, table[i] # Free,
         NEW s, s # Free => s.user = table[i].user
  PROVE  IsRegister([table EXCEPT ![i] = s],
                    [r EXCEPT ![table[i].user] = IF s = Free THEN Free ELSE EntryOf(s)])
<1> DEFINE u == table[i].user
           after == [table EXCEPT ![i] = s]
           next == [r EXCEPT ![u] = IF s = Free THEN Free ELSE EntryOf(s)]
<1>1. u \in Users
  BY DEF Session
<1>2. next = [w \in Users |-> next[w]]
  BY DEF IsRegister
<1>3. next[u] = (IF s = Free THEN Free ELSE EntryOf(s)) /\ \A w \in Users : w # u => next[w] = r[w]
  BY <1>1 DEF IsRegister
<1>4. after[i] = s /\ \A j \in Slots : j # i => after[j] = table[j]
  OBVIOUS
<1> HIDE DEF after, next
<1>5. ASSUME NEW j \in Slots, after[j] # Free
      PROVE  next[after[j].user] = EntryOf(after[j])
  <2>1. CASE j = i
    BY <1>3, <1>4, <1>5, <2>1
  <2>2. CASE j # i
    <3>1. table[j] # Free /\ after[j] = table[j] /\ table[j].user # u /\ table[j].user \in Users
      BY <1>4, <1>5, <2>2 DEF Session
    <3> QED
      BY <1>3, <3>1 DEF IsRegister
  <2> QED
    BY <2>1, <2>2
<1>6. ASSUME NEW w \in Users, \A j \in Slots : after[j] # Free => after[j].user # w
      PROVE  next[w] = Free
  <2>1. CASE w = u
    BY <1>3, <1>4, <1>6, <2>1
  <2>2. CASE w # u
    <3>1. \A j \in Slots : table[j] # Free => table[j].user # w
      BY <1>4, <1>6, <2>2
    <3> QED
      BY <1>3, <2>2, <3>1 DEF IsRegister
  <2> QED
    BY <2>1, <2>2
<1>7. IsRegister(after, next)
  BY <1>2, <1>5, <1>6 DEF IsRegister
<1> QED
  BY <1>7 DEF after, next

-----------------------------------------------------------------------------
(* Steps of one session.                                                   *)

\* What the register says of a user with a session.
LEMMA Registered ==
  ASSUME TypeOK, OneSessionPerUser, NEW i \in Slots, sess[i] # Free
  PROVE  /\ sess[i].user \in Users
         /\ register[sess[i].user] = EntryOf(sess[i])
         /\ register[sess[i].user] # Free
         /\ Policy!Live(sess[i].user) <=> ~stTE(i)
<1>1. sess[i].user \in Users /\ EntryOf(sess[i]) \in [level : Levels, idle : Ages]
  BY DEF TypeOK, Session, EntryOf
<1>2. register[sess[i].user] = EntryOf(sess[i])
  BY RegisterRead DEF IsRegister
<1>3. register[sess[i].user] # Free
  BY <1>1, <1>2, RegisterAssumption
<1>4. ExpiryOf[cfg["tknExpire"]] = gtTknExp /\ gtTknExp \in Int
  BY BoundsAssumption DEF ExpiryOf, gtTknExp, TknExpOf, Clamped, TypeOK, NumKeys
<1>5. sess[i].idle \in Int /\ EntryOf(sess[i]).idle = sess[i].idle
  BY BoundsAssumption DEF TypeOK, Session, EntryOf, Ages
<1>6. Policy!Live(sess[i].user) <=> sess[i].idle <= gtTknExp
  BY <1>2, <1>3, <1>4, <1>5 DEF Policy!Live
<1>7. stTE(i) <=> sess[i].idle > gtTknExp
  BY DEF stTE
<1> QED
  BY <1>1, <1>2, <1>3, <1>4, <1>5, <1>6, <1>7

\* A step that leaves the table alone leaves the register alone.
LEMMA SameRegister ==
  ASSUME sess' = sess
  PROVE  register' = register
  BY DEF register, SessionOf, HeldBy

\* A step that changes one session changes the entry of its user.
LEMMA SlotStep ==
  ASSUME SessionsInv, SessionsInv', NEW i \in Slots, sess[i] # Free,
         NEW s, s # Free => s.user = sess[i].user, sess' = [sess EXCEPT ![i] = s]
  PROVE  register' = [register EXCEPT ![sess[i].user] = IF s = Free THEN Free ELSE EntryOf(s)]
<1> DEFINE next == [register EXCEPT ![sess[i].user] = IF s = Free THEN Free ELSE EntryOf(s)]
<1>1. sess \in [Slots -> Session \cup {Free}] /\ IsRegister(sess, register)
  BY RegisterRead DEF SessionsInv, TypeOK
<1>2. \A j, k \in Slots : sess[j] # Free /\ sess[k] # Free /\ sess[j].user = sess[k].user => j = k
  BY DEF SessionsInv, OneSessionPerUser
<1>3. IsRegister([sess EXCEPT ![i] = s], next)
  BY <1>1, <1>2, RegisterChange
<1> HIDE DEF next
<1>4. IsRegister(sess', next)
  BY <1>3
<1>5. IsRegister(sess', register')
  BY RegisterReadNext DEF SessionsInv
<1>6. register' = next
  BY <1>4, <1>5, RegisterUnique
<1> QED
  BY <1>6 DEF next

\* A request that refreshes its session is a use of it.
LEMMA UseStep ==
  ASSUME SessionsInv, SessionsInv', NEW i \in Slots, Resolves(i),
         NEW s \in Session, s.user = sess[i].user, s.level = sess[i].level, s.idle = 0,
         sess' = [sess EXCEPT ![i] = s]
  PROVE  /\ Policy!Live(sess[i].user)
         /\ register' = [register EXCEPT ![sess[i].user].idle = 0]
<1>1. sess[i] # Free /\ ~stTE(i)
  BY DEF Resolves, FirstWithToken, Active
<1>2. /\ sess[i].user \in Users /\ Policy!Live(sess[i].user)
      /\ register[sess[i].user] = EntryOf(sess[i])
  BY <1>1, Registered DEF SessionsInv
<1>3. s # Free
  BY SentinelAssumption
<1>4. register' = [register EXCEPT ![sess[i].user] = EntryOf(s)]
  BY <1>1, <1>3, SlotStep
<1>5. EntryOf(s) = [EntryOf(sess[i]) EXCEPT !.idle = 0]
  BY DEF EntryOf
<1> QED
  BY <1>2, <1>4, <1>5

\* A key that cfgCA and cfgS let a session write is one the policy lets it
\* write.
LEMMA SetStep ==
  ASSUME SessionsInv, NEW i \in Slots, sess[i] # Free,
         NEW key \in Keys, NEW value, handleNecroSet(i, key, value)
  PROVE  \/ UNCHANGED cfg
         \/ \E k \in Keys :
              /\ register[sess[i].user].level = "ADMIN" \/ k \in Keys \ AdminKeys
              /\ cfg' = [cfg EXCEPT ![k] = cfg'[k]]
<1>1. register[sess[i].user].level = sess[i].level
  <2>1. register[sess[i].user] = EntryOf(sess[i])
    BY Registered DEF SessionsInv
  <2> QED
    BY <2>1 DEF EntryOf
<1>2. CASE cfg' = cfg
  BY <1>2
<1>3. CASE cfgCA(sess[i].level, key) /\ cfg' = [cfg EXCEPT ![key] = value]
  <2>1. cfg' = [cfg EXCEPT ![key] = cfg'[key]]
    BY <1>3
  <2>2. sess[i].level = "ADMIN" \/ key \in Keys \ AdminKeys
    BY <1>3 DEF cfgCA
  <2> QED
    BY <1>1, <2>1, <2>2
<1> QED
  BY <1>2, <1>3 DEF handleNecroSet

\* What a session that is refreshed looks like.
LEMMA Refreshed ==
  ASSUME NEW s \in Session
  PROVE  /\ \A grant \in Sizes \cup {NoGrant} :
              LET t == [s EXCEPT !.idle = 0, !.grant = grant]
              IN  t \in Session /\ t.user = s.user /\ t.level = s.level /\ t.idle = 0
         /\ LET t == [s EXCEPT !.idle = 0, !.level = "ADMIN"]
            IN  t \in Session /\ t.user = s.user /\ t.level = "ADMIN" /\ t.idle = 0
<1>1. 0 \in Ages /\ "ADMIN" \in Levels
  BY BoundsAssumption DEF Ages, Levels
<1> QED
  BY <1>1 DEF Session

\* Every request of a session is a step of the policy.
LEMMA SessionRequestStep ==
  ASSUME SessionsInv, SessionsInv', SessionRequests
  PROVE  Policy!PolicyNext \/ UNCHANGED Policy!pvars
<1>1. PICK i \in Slots :
        \/ \E request \in {"", "elevateRequest", "other"} : handleSBEle(i, request)
        \/ \E size \in Sizes : handleBC(i, size)
        \/ \E key \in Keys \cup {"", "unknown"} : handleNecroGet(i, key)
        \/ \E key \in Keys : \E value \in CfgVals[key] : handleNecroSet(i, key, value)
        \/ \E key \in {"", "unknown"} : refuseKey(i, key)
        \/ \E cmdLen \in CmdLens, atEnd \in BOOLEAN : handleUW(i, cmdLen, atEnd)
        \/ handleER(i)
        \/ \E kind \in {"NW_SETCFG", "UW_EXEC", "ER_REQ"} : refuseType(i, kind)
        \/ \E size \in Sizes : refuseData(i, size)
  BY DEF SessionRequests
<1> DEFINE u == sess[i].user
<1>2. ASSUME sess' = sess, cfg' = cfg
      PROVE  UNCHANGED Policy!pvars
  BY <1>2, SameRegister DEF Policy!pvars
<1>3. ASSUME Resolves(i)
      PROVE  /\ sess[i] # Free /\ sess[i] \in Session /\ u \in Users /\ Policy!Live(u)
             /\ register[u] = EntryOf(sess[i])
  <2>1. sess[i] # Free /\ ~stTE(i)
    BY <1>3 DEF Resolves, FirstWithToken, Active
  <2> QED
    BY <2>1, Registered DEF SessionsInv, TypeOK
<1>4. ASSUME Resolves(i), NEW grant \in Sizes \cup {NoGrant},
             sess' = [sess EXCEPT ![i] = [sess[i] EXCEPT !.idle = 0, !.grant = grant]],
             \/ UNCHANGED cfg
             \/ \E k \in Keys : /\ register[u].level = "ADMIN" \/ k \in Keys \ AdminKeys
                                /\ cfg' = [cfg EXCEPT ![k] = cfg'[k]]
      PROVE  Policy!PolicyNext
  <2> DEFINE s == [sess[i] EXCEPT !.idle = 0, !.grant = grant]
  <2>1. /\ s \in Session /\ s.user = sess[i].user /\ s.level = sess[i].level /\ s.idle = 0
    BY <1>3, <1>4, Refreshed
  <2> HIDE DEF s
  <2>2. sess' = [sess EXCEPT ![i] = s]
    BY <1>4 DEF s
  <2>3. Policy!Live(u) /\ register' = [register EXCEPT ![u].idle = 0]
    BY <1>4, <2>1, <2>2, UseStep
  <2>4. Policy!Use(u)
    BY <1>4, <2>3 DEF Policy!Use
  <2> QED
    BY <1>3, <1>4, <2>4 DEF Policy!PolicyNext
<1>5. ASSUME Resolves(i), sess' = Touched(i),
             \/ UNCHANGED cfg
             \/ \E k \in Keys : /\ register[u].level = "ADMIN" \/ k \in Keys \ AdminKeys
                                /\ cfg' = [cfg EXCEPT ![k] = cfg'[k]]
      PROVE  Policy!PolicyNext
  <2>1. sess[i].grant \in Sizes \cup {NoGrant}
    BY <1>3, <1>5 DEF Session
  <2>2. [sess[i] EXCEPT !.idle = 0] = [sess[i] EXCEPT !.idle = 0, !.grant = sess[i].grant]
    BY <1>3, <1>5 DEF Session
  <2>3. sess' = [sess EXCEPT ![i] = [sess[i] EXCEPT !.idle = 0, !.grant = sess[i].grant]]
    BY <1>5, <2>2 DEF Touched
  <2> QED
    BY <1>4, <1>5, <2>1, <2>3
<1>6. ASSUME NEW request \in {"", "elevateRequest", "other"}, handleSBEle(i, request)
      PROVE  Policy!PolicyNext \/ UNCHANGED Policy!pvars
  <2>1. CASE UNCHANGED sess
    BY <1>2, <1>6, <2>1 DEF handleSBEle
  <2>2. CASE sess' = [Touched(i) EXCEPT ![i].level = "ADMIN"] /\ ElevationOn
    <3>1. Resolves(i) /\ UNCHANGED cfg
      BY <1>6 DEF handleSBEle
    <3> DEFINE s == [sess[i] EXCEPT !.idle = 0, !.level = "ADMIN"]
    <3>2. sess' = [sess EXCEPT ![i] = s]
      BY <2>2, <1>3, <3>1 DEF Touched, SessionsInv, TypeOK
    <3>3. s \in Session /\ s.user = u /\ EntryOf(s) = [level |-> "ADMIN", idle |-> 0]
      <4>1. s \in Session /\ s.user = u /\ s.level = "ADMIN" /\ s.idle = 0
        BY <1>3, <3>1, Refreshed
      <4> QED
        BY <4>1 DEF EntryOf
    <3> HIDE DEF s
    <3>4. register' = [register EXCEPT ![u] = EntryOf(s)]
      BY <1>3, <3>1, <3>2, <3>3, SlotStep, SentinelAssumption
    <3>5. Policy!Elevate(u)
      BY <1>3, <2>2, <3>1, <3>3, <3>4 DEF Policy!Elevate, ElevationOn
    <3> QED
      BY <1>3, <3>1, <3>5 DEF Policy!PolicyNext
  <2> QED
    BY <1>6, <2>1, <2>2 DEF handleSBEle
<1>7. ASSUME NEW size \in Sizes, handleBC(i, size)
      PROVE  Policy!PolicyNext
  <2>1. Resolves(i) /\ UNCHANGED cfg
    BY <1>7 DEF handleBC
  <2>2. CASE sess' = Touched(i)
    BY <1>5, <2>1, <2>2
  <2>3. CASE sess' = [Touched(i) EXCEPT ![i].grant = size]
    <3>1. sess' = [sess EXCEPT ![i] = [sess[i] EXCEPT !.idle = 0, !.grant = size]]
      BY <1>3, <2>1, <2>3 DEF Touched, SessionsInv, TypeOK
    <3> QED
      BY <1>4, <2>1, <3>1
  <2> QED
    BY <1>7, <2>2, <2>3 DEF handleBC
<1>8. ASSUME NEW key \in Keys, NEW value \in CfgVals[key], handleNecroSet(i, key, value)
      PROVE  Policy!PolicyNext
  <2>1. Resolves(i) /\ sess' = Touched(i)
    BY <1>8 DEF handleNecroSet
  <2> QED
    BY <1>3, <1>5, <1>8, <2>1, SetStep
<1>9. ASSUME \/ \E key \in Keys \cup {"", "unknown"} : handleNecroGet(i, key)
             \/ \E key \in {"", "unknown"} : refuseKey(i, key)
             \/ \E cmdLen \in CmdLens, atEnd \in BOOLEAN : handleUW(i, cmdLen, atEnd)
             \/ \E kind \in {"NW_SETCFG", "UW_EXEC", "ER_REQ"} : refuseType(i, kind)
      PROVE  Policy!PolicyNext
  <2>1. Resolves(i) /\ sess' = Touched(i) /\ UNCHANGED cfg
    BY <1>9 DEF handleNecroGet, refuseKey, handleUW, refuseType
  <2> QED
    BY <1>5, <2>1
<1>10. ASSUME handleER(i)
       PROVE  Policy!PolicyNext
  <2>1. Resolves(i) /\ sess' = [sess EXCEPT ![i] = Free] /\ UNCHANGED cfg
    BY <1>10 DEF handleER
  <2>2. register' = [register EXCEPT ![u] = Free]
    BY <1>3, <2>1, SlotStep
  <2>3. Policy!Goodbye(u)
    BY <1>3, <2>1, <2>2 DEF Policy!Goodbye
  <2> QED
    BY <1>3, <2>1, <2>3 DEF Policy!PolicyNext
<1>11. ASSUME NEW size \in Sizes, refuseData(i, size)
       PROVE  UNCHANGED Policy!pvars
  BY <1>2, <1>11 DEF refuseData
<1> QED
  BY <1>1, <1>6, <1>7, <1>8, <1>9, <1>10, <1>11

\* A token that names an expired session makes the register forget it.
LEMMA RefusalStep ==
  ASSUME SessionsInv, SessionsInv', Refusals
  PROVE  Policy!PolicyNext \/ UNCHANGED Policy!pvars
<1>1. CASE sess' = sess /\ cfg' = cfg
  BY <1>1, SameRegister DEF Policy!pvars
<1>2. ASSUME NEW i \in Slots, Stale(i), sess' = [sess EXCEPT ![i] = Free], cfg' = cfg
      PROVE  Policy!PolicyNext
  <2>1. sess[i] # Free /\ stTE(i)
    BY <1>2 DEF Stale, FirstWithToken, Active
  <2>2. /\ sess[i].user \in Users /\ register[sess[i].user] # Free
        /\ ~Policy!Live(sess[i].user)
    BY <2>1, Registered DEF SessionsInv
  <2>3. register' = [register EXCEPT ![sess[i].user] = Free]
    BY <1>2, <2>1, SlotStep
  <2>4. Policy!Expire(sess[i].user)
    BY <1>2, <2>2, <2>3 DEF Policy!Expire
  <2> QED
    BY <2>2, <2>4 DEF Policy!PolicyNext
<1> QED
  BY <1>1, <1>2 DEF Refusals, refuseFrame, refuseToken

\* A second that passes for the sessions passes for the register.
LEMMA TickStep ==
  ASSUME SessionsInv, SessionsInv', Tick
  PROVE  Policy!Pass
<1> DEFINE Older(age) == IF age < MaxAge THEN age + 1 ELSE age
           next == [u \in Users |-> IF register[u] = Free THEN Free
                                    ELSE [register[u] EXCEPT !.idle = Older(@)]]
<1>1. ASSUME NEW i \in Slots
      PROVE  /\ sess'[i] # Free <=> sess[i] # Free
             /\ sess[i] # Free => /\ sess'[i].user = sess[i].user
                                  /\ sess'[i].level = sess[i].level
                                  /\ sess'[i].idle = Older(sess[i].idle)
  <2>1. CASE sess[i] = Free
    BY <2>1 DEF Tick
  <2>2. CASE sess[i] # Free
    <3>1. sess[i] \in Session /\ sess[i].idle \in 0 .. MaxAge
      BY <2>2 DEF SessionsInv, TypeOK, Session, Ages
    <3>2. Least(sess[i].idle + 1, MaxAge) = Older(sess[i].idle)
      BY <3>1, BoundsAssumption DEF Least
    <3> HIDE DEF Older
    <3>3. sess'[i] = [sess[i] EXCEPT !.idle = Older(sess[i].idle)]
      BY <2>2, <3>2 DEF Tick
    <3>4. sess'[i] # Free
      <4>1. DOMAIN sess[i] = {"user", "token", "level", "idle", "grant"}
        BY <3>1 DEF Session
      <4>2. Older(sess[i].idle) \in Ages
        BY <3>1, BoundsAssumption DEF Older, Ages
      <4>3. sess'[i] \in Session
        BY <3>1, <3>3, <4>2 DEF Session
      <4> QED
        BY <4>3, SentinelAssumption
    <3> QED
      BY <2>2, <3>1, <3>3, <3>4 DEF Session
  <2> QED
    BY <2>1, <2>2
<1> HIDE DEF Older
<1>2. IsRegister(sess', next)
  <2>1. \A u \in Users : next[u] = IF register[u] = Free THEN Free
                                   ELSE [register[u] EXCEPT !.idle = Older(@)]
    OBVIOUS
  <2>2. next = [u \in Users |-> next[u]]
    OBVIOUS
  <2> HIDE DEF next
  <2>3. ASSUME NEW i \in Slots, sess'[i] # Free
        PROVE  next[sess'[i].user] = EntryOf(sess'[i])
    <3>1. /\ sess[i] # Free /\ sess[i].user \in Users
          /\ register[sess[i].user] = EntryOf(sess[i]) /\ register[sess[i].user] # Free
      BY <1>1, <2>3, Registered DEF SessionsInv
    <3>2. next[sess[i].user] = [EntryOf(sess[i]) EXCEPT !.idle = Older(@)]
      BY <2>1, <3>1
    <3>3. next[sess[i].user] = [level |-> sess[i].level, idle |-> Older(sess[i].idle)]
      BY <3>2 DEF EntryOf
    <3> QED
      BY <1>1, <3>1, <3>3 DEF EntryOf
  <2>4. ASSUME NEW u \in Users, \A i \in Slots : sess'[i] # Free => sess'[i].user # u
        PROVE  next[u] = Free
    <3>1. register[u] = Free
      BY <1>1, <2>4, RegisterRead DEF IsRegister, SessionsInv
    <3> QED
      BY <2>1, <3>1
  <2> QED
    BY <2>2, <2>3, <2>4 DEF IsRegister
<1>3. IsRegister(sess', register')
  BY RegisterReadNext DEF SessionsInv
<1> HIDE DEF next
<1>4. register' = next
  BY <1>2, <1>3, RegisterUnique
<1>5. UNCHANGED cfg
  BY DEF Tick
<1> QED
  BY <1>4, <1>5 DEF next, Older, Policy!Pass

-----------------------------------------------------------------------------
(* Logins.                                                                 *)

\* What stCS has done to the table before it looks for room is what the policy
\* does to the register.
LEMMA ClearedRegister ==
  ASSUME SessionsInv, NEW u \in Users
  PROVE  IsRegister(WithoutUser(Reaped, u), Policy!Cleared(u))
<1> DEFINE table == WithoutUser(Reaped, u)
           clear == Policy!Cleared(u)
<1>1. \A w \in Users :
        clear[w] = IF Policy!Live(w) /\ w # u THEN register[w] ELSE Free
  BY DEF Policy!Cleared
<1>2. clear = [w \in Users |-> clear[w]]
  BY DEF Policy!Cleared
<1>3. ASSUME NEW i \in Slots
      PROVE  IF sess[i] # Free /\ ~stTE(i) /\ sess[i].user # u
             THEN table[i] = sess[i] ELSE table[i] = Free
  BY DEF WithoutUser, Reaped, Active, Used, SessionsInv, CountCoversActive
<1> HIDE DEF table, clear
<1>4. ASSUME NEW i \in Slots, table[i] # Free
      PROVE  clear[table[i].user] = EntryOf(table[i])
  <2>1. sess[i] # Free /\ ~stTE(i) /\ sess[i].user # u /\ table[i] = sess[i]
    BY <1>3, <1>4
  <2>2. /\ sess[i].user \in Users /\ register[sess[i].user] = EntryOf(sess[i])
        /\ Policy!Live(sess[i].user)
    BY <2>1, Registered DEF SessionsInv
  <2> QED
    BY <1>1, <2>1, <2>2
<1>5. ASSUME NEW w \in Users, \A i \in Slots : table[i] # Free => table[i].user # w
      PROVE  clear[w] = Free
  <2>1. CASE w = u \/ ~Policy!Live(w)
    BY <1>1, <2>1
  <2>2. CASE w # u /\ Policy!Live(w)
    <3>1. register[w] # Free
      BY <2>2 DEF Policy!Live
    <3>2. PICK i \in Slots : sess[i] # Free /\ sess[i].user = w
      BY <3>1, RegisterRead DEF IsRegister, SessionsInv
    <3>3. ~stTE(i)
      BY <2>2, <3>2, Registered DEF SessionsInv
    <3> QED
      BY <1>3, <1>5, <2>2, <3>2, <3>3
  <2> QED
    BY <2>1, <2>2
<1>6. IsRegister(table, clear)
  BY <1>2, <1>4, <1>5 DEF IsRegister
<1> QED
  BY <1>6 DEF table, clear

\* The policy counts as the server does.
LEMMA SameCount == ASSUME NEW S PROVE Policy!Cardinality(S) = Cardinality(S)
  BY DEF Policy!Cardinality, Cardinality

\* There are as many users in the register as active sessions in the table.
LEMMA SameNumber ==
  ASSUME SessionsInv, NEW u \in Users
  PROVE  /\ Cardinality(Policy!Open(Policy!Cleared(u)))
              = Cardinality(Active(WithoutUser(Reaped, u)))
         /\ Cardinality(Active(WithoutUser(Reaped, u))) \in Nat
<1> DEFINE table == WithoutUser(Reaped, u)
           clear == Policy!Cleared(u)
           A == Active(table)
           O == Policy!Open(clear)
           f == [i \in A |-> table[i].user]
<1>1. IsRegister(table, clear)
  BY ClearedRegister
<1>2. A = {i \in Slots : table[i] # Free}
  BY ClearedTable DEF Active, Used, SessionsInv
<1>3. \A i \in A : /\ table[i] = sess[i] /\ sess[i] # Free /\ sess[i] \in Session
                   /\ sess[i].user \in Users
  <2>1. \A i \in A : table[i] = sess[i] /\ sess[i] # Free
    BY <1>2, ClearedTable DEF SessionsInv
  <2> QED
    BY <1>2, <2>1 DEF SessionsInv, TypeOK, Session
<1>4. O = {w \in Users : clear[w] # Free}
  BY DEF Policy!Open
<1>5. A \subseteq Slots
  BY <1>2
<1> HIDE DEF table, clear, A, O
<1>6. \A i \in A : f[i] \in O
  <2> SUFFICES ASSUME NEW i \in A PROVE table[i].user \in O
    OBVIOUS
  <2>1. clear[table[i].user] = EntryOf(table[i])
    BY <1>1, <1>2 DEF IsRegister
  <2>2. EntryOf(table[i]) \in [level : Levels, idle : Ages]
    BY <1>3 DEF EntryOf, Session
  <2> QED
    BY <1>3, <1>4, <2>1, <2>2, RegisterAssumption
<1>7. \A w \in O : \E i \in A : f[i] = w
  BY <1>1, <1>2, <1>4 DEF IsRegister
<1>8. \A i, j \in A : f[i] = f[j] => i = j
  BY <1>2, <1>3 DEF SessionsInv, OneSessionPerUser
<1> HIDE DEF f
<1>9. f \in [A -> O]
  BY <1>6 DEF f
<1>10. f \in Bijection(A, O)
  BY <1>7, <1>8, <1>9, Fun_IsBij
<1>11. IsFiniteSet(A) /\ Cardinality(A) \in Nat
  BY <1>5, SlotSets
<1>12. Cardinality(O) = Cardinality(A)
  BY <1>10, <1>11, FS_Bijection DEF ExistsBijection
<1> QED
  BY <1>11, <1>12 DEF A, O, table, clear

\* A login, granted or refused, is one of the policy.
LEMMA LoginStep ==
  ASSUME SessionsInv, SessionsInv', NEW p \in Ips, NEW u \in Users, handleSBReq(p, u)
  PROVE  Policy!Login(u) \/ Policy!LoginRefused(u)
<1> DEFINE table == WithoutUser(Reaped, u)
           clear == Policy!Cleared(u)
<1>1. IsRegister(table, clear) /\ IsRegister(sess', register')
  BY ClearedRegister, RegisterReadNext DEF SessionsInv
<1>2. LimitOf[cfg["maxSess"]] = gtMaxSess
  BY DEF LimitOf, gtMaxSess, SessionsInv, TypeOK, NumKeys
<1>3. Policy!Cardinality(Policy!Open(clear)) = Cardinality(Active(table))
  BY SameNumber, SameCount
<1>4. UNCHANGED cfg
  BY DEF handleSBReq
<1>5. CASE Cardinality(Active(table)) >= gtMaxSess /\ sess' = table
  <2>1. register' = clear
    <3> HIDE DEF table, clear
    <3> QED
      BY <1>1, <1>5, RegisterUnique
  <2> QED
    BY <1>2, <1>3, <1>4, <1>5, <2>1 DEF Policy!LoginRefused
<1>6. ASSUME Cardinality(Active(table)) < gtMaxSess,
             NEW n \in Slots, SlotFor(table, n), sess' = [table EXCEPT ![n] = NewSession(u, NextToken)]
      PROVE  Policy!Login(u)
  <2> DEFINE next == [clear EXCEPT ![u] = Policy!Fresh]
  <2>1. \A i \in Slots : table[i] # Free => table[i] = sess[i] /\ sess[i].user # u /\ i <= stCnt
    BY ClearedTable DEF SessionsInv
  <2>2. table[n] = Free
    BY <1>6, <2>1, BoundsAssumption DEF SlotFor, SessionsInv, TypeOK, Slots
  <2>3. table \in [Slots -> Session \cup {Free}]
    BY TableTypes DEF SessionsInv
  <2>4. /\ sess'[n] = NewSession(u, NextToken)
        /\ \A i \in Slots : i # n => sess'[i] = table[i]
    BY <1>6, <2>3
  <2>5. NewSession(u, NextToken).user = u /\ EntryOf(NewSession(u, NextToken)) = Policy!Fresh
    BY DEF NewSession, EntryOf, Policy!Fresh
  <2>6. next = [w \in Users |-> next[w]]
    BY DEF Policy!Cleared
  <2>7. next[u] = Policy!Fresh /\ \A w \in Users : w # u => next[w] = clear[w]
    BY DEF Policy!Cleared
  <2>8. \A i \in Slots : table[i] # Free => table[i].user \in Users
    BY <2>3 DEF Session
  <2> HIDE DEF table, clear, next
  <2>9. ASSUME NEW i \in Slots, sess'[i] # Free
        PROVE  next[sess'[i].user] = EntryOf(sess'[i])
    <3>1. CASE i = n
      BY <2>4, <2>5, <2>7, <3>1
    <3>2. CASE i # n
      <4>1. sess'[i] = table[i] /\ table[i] # Free /\ table[i].user # u /\ table[i].user \in Users
        BY <2>1, <2>4, <2>8, <2>9, <3>2
      <4> QED
        BY ZenonT(60), <1>1, <2>7, <4>1 DEF IsRegister
    <3> QED
      BY <3>1, <3>2
  <2>10. ASSUME NEW w \in Users, \A i \in Slots : sess'[i] # Free => sess'[i].user # w
         PROVE  next[w] = Free
    <3>1. sess'[n] # Free
      <4>1. sess' \in [Slots -> Session \cup {Free}]
        BY DEF SessionsInv, TypeOK
      <4>2. NewSession(u, NextToken) \in Session
        BY BoundsAssumption
           DEF handleSBReq, gT, SessionsInv, TypeOK, NewSession, NextToken, Session, Tokens,
               Levels, Ages
      <4> QED
        BY <2>4, <4>2, SentinelAssumption
    <3>2. w # u
      BY <2>4, <2>5, <2>10, <3>1
    <3>3. \A i \in Slots : table[i] # Free => table[i].user # w
      BY <2>2, <2>4, <2>10
    <3> QED
      BY <1>1, <2>7, <3>2, <3>3 DEF IsRegister
  <2>11. IsRegister(sess', next)
    BY <2>6, <2>9, <2>10 DEF IsRegister
  <2>12. register' = next
    BY <1>1, <2>11, RegisterUnique
  <2> QED
    BY <1>2, <1>3, <1>4, <1>6, <2>12 DEF Policy!Login, next, table, clear
<1> QED
  BY <1>5, <1>6 DEF handleSBReq

-----------------------------------------------------------------------------
\* The server implements its policy, whatever the numbers of users, slots,
\* addresses and cache entries, and the settings and values clients write:
\* slots, tokens, handshakes and lazy expiry never show in who is logged in,
\* with what privilege and since when idle, nor in the configuration.
THEOREM PolicyCorrect == Spec => ImplementsPolicy
<1>1. Init => Policy!PolicyInit
  <2> SUFFICES ASSUME Init PROVE Policy!PolicyInit
    OBVIOUS
  <2>1. \A u \in Users : SessionOf(u) = Free
    BY DEF Init, SessionOf, HeldBy
  <2> QED
    BY <2>1 DEF Init, Policy!PolicyInit, register
<1>2. Init => SessionsInv
  <2>1. Init => TypeOK
    BY InitTyped
  <2> QED
    BY <2>1 DEF Init, SessionsInv, CountCoversActive, OneSessionPerUser
<1>3. SessionsInv /\ [Next]_vars => SessionsInv'
  BY SessionsStep
<1>4. SessionsInv /\ SessionsInv' /\ [Next]_vars => [Policy!PolicyNext]_(Policy!pvars)
  <2> SUFFICES ASSUME SessionsInv, SessionsInv', [Next]_vars
               PROVE  Policy!PolicyNext \/ UNCHANGED Policy!pvars
    OBVIOUS
  <2>1. CASE sess' = sess /\ cfg' = cfg
    BY <2>1, SameRegister DEF Policy!pvars
  <2>2. ASSUME NEW p \in Ips, NEW u \in Users, handleSBReq(p, u)
        PROVE  Policy!PolicyNext
    BY <2>2, LoginStep DEF Policy!PolicyNext
  <2>3. CASE SessionlessRequests
    BY <2>1, <2>2, <2>3 DEF SessionlessRequests, handleAR, loginRefused
  <2>4. CASE Tick
    BY <2>4, TickStep DEF Policy!PolicyNext
  <2>5. CASE UNCHANGED vars
    BY <2>1, <2>5 DEF vars
  <2> QED
    BY <2>3, <2>4, <2>5, SessionRequestStep, RefusalStep DEF Next
<1> QED
  BY <1>1, <1>2, <1>3, <1>4, PTL DEF Spec, ImplementsPolicy, Policy!PolicySpec

----------------------------------------------------------------------------
(* Where the token of a payload is *)

LEMMA FirstOf ==
  ASSUME NEW S \in SUBSET Nat, S # {}
  PROVE  First(S) \in S /\ \A m \in S : First(S) <= m
<1> DEFINE R == OpToRel(<, Nat)
<1>1. IsWellFoundedOn(R, Nat)
  BY NatLessThanWellFounded
<1>2. PICK x \in S : \A y \in S : ~ (<<y, x>> \in R)
  <2> HIDE DEF R
  <2> QED
    BY <1>1, WFMin
<1>3. \A y \in S : x <= y
  <2> SUFFICES ASSUME NEW y \in S, ~ (x <= y) PROVE FALSE
    OBVIOUS
  <2>1. y < x /\ y \in Nat /\ x \in Nat
    OBVIOUS
  <2> QED
    BY <1>2, <2>1 DEF OpToRel
<1> QED
  BY <1>3 DEF First

LEMMA StrnlenIs ==
  ASSUME NEW p \in Seq(Byte), NEW from \in 0 .. Len(p)
  PROVE  /\ strnlen(p, from) \in 0 .. Len(p) - from
         /\ Ends(p, from) => After(p, from) \in 1 .. Len(p) /\ p[After(p, from)] = 0
         /\ \A n \in 0 .. Len(p) - from - 1 : p[from + n + 1] = 0 => strnlen(p, from) <= n
<1> DEFINE S == {n \in 0 .. Len(p) - from : n = Len(p) - from \/ p[from + n + 1] = 0}
<1>1. Len(p) \in Nat /\ S \in SUBSET Nat /\ Len(p) - from \in S
  OBVIOUS
<1>2. First(S) \in S /\ \A m \in S : First(S) <= m
  <2> HIDE DEF S
  <2> QED
    BY <1>1, FirstOf
<1>3. strnlen(p, from) = First(S)
  BY DEF strnlen
<1>4. strnlen(p, from) \in S /\ \A m \in S : strnlen(p, from) <= m
  BY <1>2, <1>3
<1> HIDE <1>2, <1>3
<1>5. \A n \in 0 .. Len(p) - from - 1 : p[from + n + 1] = 0 => n \in S
  BY <1>1
<1> QED
  BY <1>1, <1>4, <1>5 DEF Ends, After

\* A text that is known to be followed by a zero.
LEMMA TextEnds ==
  ASSUME NEW p \in Seq(Byte), NEW from \in Nat, NEW n \in Nat, from + n < Len(p),
         p[from + n + 1] = 0, \A i \in 1 .. n : p[from + i] # 0
  PROVE  strnlen(p, from) = n /\ Ends(p, from) /\ After(p, from) = from + n + 1
<1>1. from \in 0 .. Len(p) /\ n \in 0 .. Len(p) - from - 1
  OBVIOUS
<1>2. strnlen(p, from) <= n /\ strnlen(p, from) \in Nat
  BY <1>1, StrnlenIs
<1>3. Ends(p, from)
  BY <1>2 DEF Ends
<1>4. p[from + strnlen(p, from) + 1] = 0
  BY <1>1, <1>3, StrnlenIs DEF After
<1>5. ~ (strnlen(p, from) < n)
  <2> SUFFICES ASSUME strnlen(p, from) < n PROVE FALSE
    OBVIOUS
  <2>1. strnlen(p, from) + 1 \in 1 .. n /\ from + (strnlen(p, from) + 1) = from + strnlen(p, from) + 1
    BY <1>2
  <2> QED
    BY <1>4, <2>1
<1> QED
  BY <1>2, <1>3, <1>5 DEF After

\* A text that is not empty does not begin with a zero.
LEMMA NoText ==
  ASSUME NEW p \in Seq(Byte), strnlen(p, 0) # 0
  PROVE  p[1] # 0
<1>1. Len(p) \in Nat /\ strnlen(p, 0) \in 0 .. Len(p) - 0
  BY StrnlenIs
<1>2. 0 \in 0 .. Len(p) - 0 - 1 /\ strnlen(p, 0) > 0
  BY <1>1
<1>3. p[0 + 0 + 1] # 0
  BY <1>2, StrnlenIs
<1> QED
  BY <1>3

LEMMA BytesAre ==
  ASSUME NEW p, NEW from, NEW t \in LiveTokens, \A i \in 1 .. TokenSize : p[from + i] = t[i]
  PROVE  BytesAt(p, from) = t
  BY FrameAssumption DEF BytesAt

\* A place that exTok finds is one whose bytes are within the payload.
LEMMA PlaceInside ==
  ASSUME NEW kind \in FrameKinds \ {"SB_ELEVATE"}, NEW p \in Seq(Byte)
  PROVE  exTok(kind, p) = Nowhere \/ (exTok(kind, p) \in Nat /\ HoldsToken(p, exTok(kind, p)))
<1> TokenSize \in Nat \ {0} /\ HashSize \in Nat /\ SizeBytes \in Nat /\ Len(p) \in Nat
  BY FrameAssumption
<1>1. \A from \in Nat : Found(p, from) = Nowhere \/ (Found(p, from) \in Nat /\ HoldsToken(p, Found(p, from)))
  BY DEF Found
<1>2. Ends(p, 0) => After(p, 0) \in 1 .. Len(p)
  BY StrnlenIs
<1>3. Ends(p, 0) /\ Ends(p, After(p, 0)) => After(p, After(p, 0)) \in Nat
  BY <1>2, StrnlenIs
<1>4. CASE kind \in {"NW_GETCFG", "UW_EXEC"}
  BY <1>1, <1>2, <1>4 DEF exTok, TokenAfterOne
<1>5. CASE kind = "NW_SETCFG"
  BY <1>1, <1>3, <1>5 DEF exTok, TokenAfterTwo
<1>6. CASE kind = "BC_DATA"
  BY <1>6 DEF exTok
<1>7. CASE kind \in {"BC_RTS", "ER_REQ"}
  BY <1>1, <1>7 DEF exTok
<1> QED
  BY <1>4, <1>5, <1>6, <1>7 DEF FrameKinds

\* The second reading of a payload in which the first has found the token.
LEMMA SecondReading ==
  ASSUME NEW kind \in FrameKinds \ {"SB_ELEVATE"}, NEW p \in Seq(Byte),
         exTok(kind, p) # Nowhere, sessTok = BytesAt(p, exTok(kind, p))
  PROVE  /\ ReplyTo(kind, p) = "MALFORMED" => kind \in {"NW_GETCFG", "NW_SETCFG"} /\ p[1] = 0
         /\ ReplyTo(kind, p) = "UNAUTHORIZED" =>
              kind = "UW_EXEC" /\ exTok(kind, p) + TokenSize < Len(p)
<1> TokenSize \in Nat \ {0} /\ HashSize \in Nat /\ SizeBytes \in Nat /\ Len(p) \in Nat
  BY FrameAssumption
<1>1. strnlen(p, 0) \in 0 .. Len(p)
  BY StrnlenIs
<1>2. Ends(p, 0) /\ strnlen(p, 0) = 0 => p[1] = 0
  <2>1. Ends(p, 0) => p[After(p, 0)] = 0
    BY StrnlenIs
  <2>2. strnlen(p, 0) = 0 => After(p, 0) = 1
    BY DEF After
  <2> QED
    BY <2>1, <2>2
<1>3. CASE kind = "BC_RTS"
  <2>1. HoldsToken(p, SizeBytes) /\ exTok(kind, p) = SizeBytes
    BY <1>3 DEF exTok, Found
  <2> QED
    BY <1>3, <2>1 DEF ReplyTo, bcReply, Compared
<1>4. CASE kind = "BC_DATA"
  BY <1>4 DEF exTok
<1>5. CASE kind = "NW_GETCFG"
  <2>1. Ends(p, 0) /\ HoldsToken(p, After(p, 0)) /\ exTok(kind, p) = After(p, 0)
    BY <1>5 DEF exTok, TokenAfterOne, Found
  <2>2. strnlen(p, 0) # 0 => ReplyTo(kind, p) = "served"
    BY <1>5, <2>1 DEF ReplyTo, necroGetReply, Compared
  <2>3. strnlen(p, 0) = 0 => ReplyTo(kind, p) = "MALFORMED"
    BY <1>5 DEF ReplyTo, necroGetReply
  <2> QED
    BY <1>2, <1>5, <2>1, <2>2, <2>3
<1>6. CASE kind = "NW_SETCFG"
  <2> DEFINE next == After(p, 0)
  <2>1. /\ Ends(p, 0) /\ Ends(p, next) /\ HoldsToken(p, After(p, next))
        /\ exTok(kind, p) = After(p, next)
    BY <1>6 DEF exTok, TokenAfterTwo, Found
  <2>2. strnlen(p, 0) # 0 => ReplyTo(kind, p) = "served"
    BY <1>6, <2>1 DEF ReplyTo, necroSetReply, Compared
  <2>3. strnlen(p, 0) = 0 => ReplyTo(kind, p) = "MALFORMED"
    BY <1>6 DEF ReplyTo, necroSetReply
  <2> QED
    BY <1>2, <1>6, <2>1, <2>2, <2>3
<1>7. CASE kind = "UW_EXEC"
  <2> DEFINE from == After(p, 0)
  <2>1. Ends(p, 0) /\ HoldsToken(p, from) /\ exTok(kind, p) = from
    BY <1>7 DEF exTok, TokenAfterOne, Found
  <2>2. from \in 1 .. Len(p) /\ from + TokenSize <= Len(p)
    BY <2>1, StrnlenIs DEF HoldsToken
  <2>3. Len(p) >= TokenSize + 1
    BY <2>2
  <2>4. ReplyTo(kind, p) = Compared(p, Len(p) - TokenSize)
    BY <1>7, <2>3 DEF ReplyTo, uwReply
  <2>5. CASE from + TokenSize = Len(p)
    <3>1. Len(p) - TokenSize = from
      BY <2>2, <2>5
    <3> QED
      BY <2>1, <2>4, <3>1 DEF Compared
  <2>6. CASE from + TokenSize # Len(p)
    <3>1. exTok(kind, p) + TokenSize < Len(p)
      BY <2>1, <2>2, <2>6
    <3>2. ReplyTo(kind, p) # "MALFORMED"
      BY <2>4 DEF Compared
    <3> QED
      BY <1>7, <3>1, <3>2
  <2> QED
    BY <2>5, <2>6
<1>8. CASE kind = "ER_REQ"
  BY <1>8 DEF ReplyTo
<1> QED
  BY <1>3, <1>4, <1>5, <1>6, <1>7, <1>8 DEF FrameKinds

----------------------------------------------------------------------------
(* What the client sends *)

LEMMA Pieces ==
  ASSUME NEW s \in Seq(Byte), NEW t \in LiveTokens
  PROVE  /\ Len(t) = TokenSize /\ t \in Seq(Byte) /\ s \o t \in Seq(Byte)
         /\ Len(s \o t) = Len(s) + TokenSize
         /\ \A i \in 1 .. Len(s) : (s \o t)[i] = s[i]
         /\ \A i \in 1 .. TokenSize : (s \o t)[Len(s) + i] = t[i]
         /\ BytesAt(s \o t, Len(s)) = t
<1>1. t \in [1 .. TokenSize -> Byte] /\ TokenSize \in Nat /\ 0 \in Byte
  BY FrameAssumption
<1>2. t \in Seq(Byte) /\ Len(t) = TokenSize
  BY <1>1
<1>3. \A i \in 1 .. TokenSize : (s \o t)[Len(s) + i] = t[i]
  BY <1>1, <1>2
<1>4. BytesAt(s \o t, Len(s)) = t
  BY <1>3, BytesAre
<1> QED
  BY <1>1, <1>2, <1>3, <1>4, SMTT(40)

LEMMA TextsAre ==
  ASSUME NEW c \in Text
  PROVE  c \in Seq(Byte) /\ \A i \in 1 .. Len(c) : c[i] # 0
<1>1. PICK n \in 0 .. PayloadLimit : c \in [1 .. n -> Byte \ {0}]
  BY DEF Text
<1> QED
  BY <1>1, FrameAssumption

\* A text, its zero and a token.
LEMMA OneText ==
  ASSUME NEW c \in Text, NEW t \in LiveTokens, NEW p, p = TextThen(c, t)
  PROVE  /\ p \in Seq(Byte) /\ Len(p) = Len(c) + 1 + TokenSize
         /\ strnlen(p, 0) = Len(c) /\ Ends(p, 0) /\ After(p, 0) = Len(c) + 1
         /\ BytesAt(p, Len(c) + 1) = t
<1> TokenSize \in Nat \ {0} /\ 0 \in Byte
  BY FrameAssumption
<1> DEFINE s == c \o <<0>>
<1>1. c \in Seq(Byte) /\ \A i \in 1 .. Len(c) : c[i] # 0
  BY TextsAre
<1>2. s \in Seq(Byte) /\ Len(s) = Len(c) + 1 /\ s[Len(c) + 1] = 0 /\ \A i \in 1 .. Len(c) : s[i] # 0
  BY <1>1
<1>3. p = s \o t
  BY DEF TextThen
<1> HIDE DEF s
<1>4. /\ p \in Seq(Byte) /\ Len(p) = Len(s) + TokenSize
      /\ \A i \in 1 .. Len(s) : p[i] = s[i]
      /\ BytesAt(p, Len(s)) = t
  <2>1. s \in Seq(Byte)
    BY <1>2
  <2>2. /\ s \o t \in Seq(Byte) /\ Len(s \o t) = Len(s) + TokenSize
        /\ \A i \in 1 .. Len(s) : (s \o t)[i] = s[i]
        /\ BytesAt(s \o t, Len(s)) = t
    BY <2>1, Pieces
  <2> QED
    BY <1>3, <2>2
<1>6. Len(c) \in Nat /\ 0 + Len(c) < Len(p) /\ p[0 + Len(c) + 1] = 0 /\ \A i \in 1 .. Len(c) : p[0 + i] # 0
  BY <1>1, <1>2, <1>4
<1>7. strnlen(p, 0) = Len(c) /\ Ends(p, 0) /\ After(p, 0) = 0 + Len(c) + 1
  <2> DEFINE n == Len(c)
  <2>1. p \in Seq(Byte) /\ 0 \in Nat
    BY <1>4
  <2>2. n \in Nat /\ 0 + n < Len(p) /\ p[0 + n + 1] = 0 /\ \A i \in 1 .. n : p[0 + i] # 0
    BY <1>6
  <2> HIDE DEF n
  <2>3. strnlen(p, 0) = n /\ Ends(p, 0) /\ After(p, 0) = 0 + n + 1
    BY <2>1, <2>2, TextEnds
  <2> QED
    BY <2>3 DEF n
<1>8. BytesAt(p, Len(c) + 1) = t
  BY <1>2, <1>4
<1> QED
  BY <1>2, <1>4, <1>7, <1>8

LEMMA TwoTexts ==
  ASSUME NEW k \in Text, NEW v \in Text, NEW t \in LiveTokens, NEW p,
         p = TwoTextsThen(k, v, t)
  PROVE  /\ p \in Seq(Byte) /\ Len(p) = Len(k) + 1 + Len(v) + 1 + TokenSize
         /\ strnlen(p, 0) = Len(k) /\ Ends(p, 0) /\ After(p, 0) = Len(k) + 1
         /\ Ends(p, Len(k) + 1) /\ After(p, Len(k) + 1) = Len(k) + 1 + Len(v) + 1
         /\ BytesAt(p, Len(k) + 1 + Len(v) + 1) = t
<1> TokenSize \in Nat \ {0} /\ 0 \in Byte
  BY FrameAssumption
<1> DEFINE first == k \o <<0>>
           s == first \o v \o <<0>>
<1>1. /\ k \in Seq(Byte) /\ \A i \in 1 .. Len(k) : k[i] # 0
      /\ v \in Seq(Byte) /\ \A i \in 1 .. Len(v) : v[i] # 0
  BY TextsAre
<1>2. /\ first \in Seq(Byte) /\ Len(first) = Len(k) + 1 /\ first[Len(k) + 1] = 0
      /\ \A i \in 1 .. Len(k) : first[i] # 0
  BY <1>1
<1>3. p = s \o t
  BY DEF TwoTextsThen
<1>4. /\ s \in Seq(Byte) /\ Len(s) = Len(first) + Len(v) + 1
      /\ s[Len(first) + Len(v) + 1] = 0
      /\ \A i \in 1 .. Len(first) : s[i] = first[i]
      /\ \A i \in 1 .. Len(v) : s[Len(first) + i] = v[i]
  <2> DEFINE mid == first \o v
  <2> HIDE DEF first
  <2>1. /\ mid \in Seq(Byte) /\ Len(mid) = Len(first) + Len(v)
        /\ \A i \in 1 .. Len(first) : mid[i] = first[i]
        /\ \A i \in 1 .. Len(v) : mid[Len(first) + i] = v[i]
    BY <1>1, <1>2, SMTT(40)
  <2> HIDE DEF mid
  <2> DEFINE whole == mid \o <<0>>
  <2>2. /\ whole \in Seq(Byte) /\ Len(whole) = Len(mid) + 1 /\ whole[Len(mid) + 1] = 0
        /\ \A i \in 1 .. Len(mid) : whole[i] = mid[i]
    BY <2>1
  <2>3. s = whole
    BY DEF mid
  <2> HIDE DEF whole, s
  <2>4. Len(first) \in Nat /\ Len(v) \in Nat
    BY <1>1, <1>2
  <2>5. \A i \in 1 .. Len(v) : Len(first) + i \in 1 .. Len(mid)
    BY <2>1, <2>4
  <2>6. \A i \in 1 .. Len(first) : i \in 1 .. Len(mid)
    BY <2>1, <2>4
  <2> QED
    BY <2>1, <2>2, <2>3, <2>5, <2>6
<1> HIDE DEF s, first
<1>5. /\ p \in Seq(Byte) /\ Len(p) = Len(s) + TokenSize
      /\ \A i \in 1 .. Len(s) : p[i] = s[i]
      /\ BytesAt(p, Len(s)) = t
  <2>1. s \in Seq(Byte)
    BY <1>4
  <2>2. /\ s \o t \in Seq(Byte) /\ Len(s \o t) = Len(s) + TokenSize
        /\ \A i \in 1 .. Len(s) : (s \o t)[i] = s[i]
        /\ BytesAt(s \o t, Len(s)) = t
    BY <2>1, Pieces
  <2> QED
    BY <1>3, <2>2
<1>7. Len(k) \in Nat /\ Len(v) \in Nat
  BY <1>1
<1>8. /\ \A i \in 1 .. Len(k) : p[i] # 0
      /\ p[Len(k) + 1] = 0
      /\ \A i \in 1 .. Len(v) : p[Len(k) + 1 + i] # 0
      /\ p[Len(k) + 1 + Len(v) + 1] = 0
  <2>1. ASSUME NEW i \in 1 .. Len(k) + 1 PROVE p[i] = first[i]
    BY <1>2, <1>4, <1>5, <1>7
  <2>2. ASSUME NEW i \in 1 .. Len(v) PROVE p[Len(k) + 1 + i] = v[i]
    BY <1>2, <1>4, <1>5, <1>7
  <2>3. p[Len(k) + 1 + Len(v) + 1] = 0
    BY <1>2, <1>4, <1>5, <1>7
  <2>4. ASSUME NEW i \in 1 .. Len(k) PROVE p[i] # 0
    <3>1. i \in 1 .. Len(k) + 1
      BY <1>7
    <3> QED
      BY <1>2, <2>1, <3>1
  <2>5. p[Len(k) + 1] = 0
    <3>1. Len(k) + 1 \in 1 .. Len(k) + 1
      BY <1>7
    <3> QED
      BY <1>2, <2>1, <3>1
  <2>6. ASSUME NEW i \in 1 .. Len(v) PROVE p[Len(k) + 1 + i] # 0
    BY <1>1, <2>2
  <2> QED
    BY <2>3, <2>4, <2>5, <2>6
<1>9. strnlen(p, 0) = Len(k) /\ Ends(p, 0) /\ After(p, 0) = 0 + Len(k) + 1
  <2>1. 0 + Len(k) < Len(p) /\ p[0 + Len(k) + 1] = 0 /\ \A i \in 1 .. Len(k) : p[0 + i] # 0
    BY <1>2, <1>4, <1>5, <1>7, <1>8
  <2>2. p \in Seq(Byte)
    BY <1>5
  <2> QED
    BY <1>7, <2>1, <2>2, TextEnds
<1>10. Ends(p, Len(k) + 1) /\ After(p, Len(k) + 1) = Len(k) + 1 + Len(v) + 1
  <2>1. Len(k) + 1 + Len(v) < Len(p)
    BY <1>2, <1>4, <1>5, <1>7
  <2>2. Len(k) + 1 \in Nat /\ p[Len(k) + 1 + Len(v) + 1] = 0
    BY <1>7, <1>8
  <2>3. \A i \in 1 .. Len(v) : p[Len(k) + 1 + i] # 0
    BY <1>8
  <2> DEFINE from == Len(k) + 1
  <2>4. from \in Nat /\ from + Len(v) < Len(p) /\ p[from + Len(v) + 1] = 0
        /\ \A i \in 1 .. Len(v) : p[from + i] # 0
    BY <2>1, <2>2, <2>3
  <2> HIDE DEF from
  <2>5. Ends(p, from) /\ After(p, from) = from + Len(v) + 1
    BY <1>5, <1>7, <2>4, TextEnds
  <2> QED
    BY <2>5 DEF from
<1>11. BytesAt(p, Len(k) + 1 + Len(v) + 1) = t
  <2>1. Len(s) = Len(k) + 1 + Len(v) + 1
    BY <1>2, <1>4, <1>7
  <2> QED
    BY <1>5, <2>1
<1> QED
  BY <1>2, <1>4, <1>5, <1>7, <1>9, <1>10, <1>11

\* exTok finds the token of what the client sends, whatever bytes it has.
LEMMA SentIsFound ==
  ASSUME NEW kind \in FrameKinds \ {"SB_ELEVATE", "BC_DATA"}, NEW p \in Seq(Byte), NEW t \in LiveTokens,
         Sends(kind, p, t)
  PROVE  exTok(kind, p) # Nowhere /\ BytesAt(p, exTok(kind, p)) = t
<1> TokenSize \in Nat \ {0} /\ SizeBytes \in Nat /\ 0 \in Byte /\ t \in [1 .. TokenSize -> Byte]
  BY FrameAssumption
<1>1. CASE kind = "BC_RTS"
  <2>1. PICK size \in [1 .. SizeBytes -> Byte] : p = size \o t
    BY <1>1 DEF Sends
  <2>2. size \in Seq(Byte) /\ Len(size) = SizeBytes
    OBVIOUS
  <2>3. Len(p) = SizeBytes + TokenSize /\ \A i \in 1 .. TokenSize : p[SizeBytes + i] = t[i]
    BY <2>1, <2>2, Pieces
  <2>4. BytesAt(p, SizeBytes) = t
    BY <2>3, BytesAre
  <2>5. exTok(kind, p) = SizeBytes
    BY <1>1, <2>3 DEF exTok, Found, HoldsToken
  <2> QED
    BY <2>4, <2>5 DEF Nowhere
<1>2. CASE kind \in {"NW_GETCFG", "UW_EXEC"}
  <2>1. PICK c \in Text : p = TextThen(c, t)
    BY <1>2 DEF Sends
  <2>2. /\ Len(p) = Len(c) + 1 + TokenSize /\ Ends(p, 0) /\ After(p, 0) = Len(c) + 1
        /\ BytesAt(p, Len(c) + 1) = t /\ Len(c) \in Nat
    BY <2>1, OneText, TextsAre
  <2>3. exTok(kind, p) = Len(c) + 1
    BY <1>2, <2>2 DEF exTok, TokenAfterOne, Found, HoldsToken
  <2> QED
    BY <2>2, <2>3 DEF Nowhere
<1>3. CASE kind = "NW_SETCFG"
  <2>1. PICK k \in Text, v \in Text : p = TwoTextsThen(k, v, t)
    BY <1>3 DEF Sends
  <2> DEFINE end == Len(k) + 1 + Len(v) + 1
  <2>2. /\ Len(p) = end + TokenSize /\ Ends(p, 0) /\ After(p, 0) = Len(k) + 1
        /\ Ends(p, Len(k) + 1) /\ After(p, Len(k) + 1) = end /\ BytesAt(p, end) = t
    BY <2>1, TwoTexts
  <2>3. end \in Nat
    <3>1. Len(k) \in Nat /\ Len(v) \in Nat
      BY TextsAre
    <3> QED
      BY <3>1
  <2>4. exTok(kind, p) = end
    <3>1. exTok(kind, p) = Found(p, end)
      BY <1>3, <2>2 DEF exTok, TokenAfterTwo
    <3>2. HoldsToken(p, end)
      BY <2>2, <2>3 DEF HoldsToken
    <3> QED
      BY <3>1, <3>2 DEF Found
  <2> QED
    BY <2>2, <2>3, <2>4 DEF Nowhere
<1>4. CASE kind = "ER_REQ"
  <2>1. p = t /\ Len(t) = TokenSize
    BY <1>4, Pieces DEF Sends
  <2>2. exTok(kind, p) = 0
    BY <1>4, <2>1 DEF exTok, Found, HoldsToken
  <2>3. BytesAt(p, 0) = t
    BY <2>1, BytesAre
  <2> QED
    BY <2>2, <2>3 DEF Nowhere
<1> QED
  BY <1>1, <1>2, <1>3, <1>4 DEF FrameKinds

\* The handler then takes it, as does that of an elevation.
LEMMA SentIsTaken ==
  ASSUME NEW kind \in FrameKinds \ {"BC_DATA"}, NEW p \in Seq(Byte), NEW t \in LiveTokens,
         Sends(kind, p, t), kind # "SB_ELEVATE" => sessTok = t
  PROVE  ReplyTo(kind, p) = "served"
<1> TokenSize \in Nat \ {0} /\ SizeBytes \in Nat /\ 0 \in Byte /\ t \in [1 .. TokenSize -> Byte]
  BY FrameAssumption
<1>1. CASE kind = "SB_ELEVATE"
  <2>1. PICK r \in Text \ {<<>>} : p = t \o r \o <<0>>
    BY <1>1 DEF Sends
  <2>2. r \in Seq(Byte) /\ (\A i \in 1 .. Len(r) : r[i] # 0) /\ Len(r) \in Nat \ {0}
    BY TextsAre
  <2>3. t \in Seq(Byte) /\ Len(t) = TokenSize
    OBVIOUS
  <2>4. /\ Len(p) = TokenSize + Len(r) + 1
        /\ \A i \in 1 .. TokenSize : p[i] = t[i]
        /\ \A i \in 1 .. Len(r) : p[TokenSize + i] = r[i]
        /\ p[TokenSize + Len(r) + 1] = 0
    <3> DEFINE head == t \o r
    <3>1. /\ head \in Seq(Byte) /\ Len(head) = TokenSize + Len(r)
          /\ \A i \in 1 .. TokenSize : head[i] = t[i]
          /\ \A i \in 1 .. Len(r) : head[TokenSize + i] = r[i]
      <4>1. /\ head \in Seq(Byte) /\ Len(head) = Len(t) + Len(r)
            /\ \A i \in 1 .. Len(t) : head[i] = t[i]
            /\ \A i \in 1 .. Len(r) : head[Len(t) + i] = r[i]
        <5> HIDE <2>1
        <5>1. r \in Seq(Byte) /\ t \in Seq(Byte)
          BY <2>2, <2>3
        <5> QED
          BY <5>1
      <4> HIDE DEF head
      <4> QED
        BY <2>3, <4>1
    <3>2. p = head \o <<0>>
      BY <2>1
    <3> HIDE DEF head
    <3>3. /\ Len(p) = Len(head) + 1 /\ p[Len(head) + 1] = 0
          /\ \A i \in 1 .. Len(head) : p[i] = head[i]
      BY <3>1, <3>2
    <3>4. \A i \in 1 .. TokenSize : i \in 1 .. Len(head)
      BY <2>2, <3>1
    <3>5. \A i \in 1 .. Len(r) : TokenSize + i \in 1 .. Len(head)
      BY <2>2, <3>1
    <3> QED
      BY <3>1, <3>3, <3>4, <3>5
  <2>5. BytesAt(p, 0) = t
    <3>1. \A i \in 1 .. TokenSize : p[0 + i] = t[i]
      BY <2>4
    <3> QED
      BY <3>1, BytesAre
  <2>6. strnlen(p, TokenSize) = Len(r) /\ Ends(p, TokenSize)
    <3>1. /\ Len(r) \in Nat /\ TokenSize + Len(r) < Len(p) /\ p[TokenSize + Len(r) + 1] = 0
          /\ \A i \in 1 .. Len(r) : p[TokenSize + i] # 0
      BY <2>2, <2>4
    <3> QED
      BY <3>1, TextEnds
  <2>7. ReplyTo(kind, p) = elevateReply(p)
    BY <1>1 DEF ReplyTo
  <2>8. ~ (Len(p) < TokenSize + 2) /\ strnlen(p, TokenSize) # 0
    BY <2>2, <2>4, <2>6
  <2> QED
    BY <2>5, <2>6, <2>7, <2>8 DEF elevateReply
<1>2. CASE kind = "UW_EXEC"
  <2>1. PICK c \in Text : p = TextThen(c, t)
    BY <1>2 DEF Sends
  <2>2. Len(p) = Len(c) + 1 + TokenSize /\ BytesAt(p, Len(c) + 1) = t /\ Len(c) \in Nat
    BY <2>1, OneText, TextsAre
  <2>3. Len(p) - TokenSize = Len(c) + 1 /\ Len(p) >= TokenSize + 1
    BY <2>2
  <2> QED
    BY <1>2, <2>2, <2>3 DEF ReplyTo, uwReply, Compared
<1>3. CASE kind \in {"NW_GETCFG", "NW_SETCFG"}
  <2>1. p[1] # 0
    <3>1. CASE kind = "NW_GETCFG"
      <4>1. PICK k \in Text \ {<<>>} : p = TextThen(k, t)
        BY <1>3, <3>1 DEF Sends
      <4>2. strnlen(p, 0) = Len(k) /\ k \in Seq(Byte) /\ Len(k) \in Nat \ {0}
        BY <4>1, OneText, TextsAre
      <4> QED
        BY <4>2, NoText
    <3>2. CASE kind = "NW_SETCFG"
      <4>1. PICK k \in Text \ {<<>>}, v \in Text : p = TwoTextsThen(k, v, t)
        BY <1>3, <3>2 DEF Sends
      <4>2. strnlen(p, 0) = Len(k) /\ k \in Seq(Byte) /\ Len(k) \in Nat \ {0}
        BY <4>1, TwoTexts, TextsAre
      <4> QED
        BY <4>2, NoText
    <3> QED
      BY <1>3, <3>1, <3>2
  <2>2. exTok(kind, p) # Nowhere /\ sessTok = BytesAt(p, exTok(kind, p))
    BY <1>3, SentIsFound
  <2>3. ReplyTo(kind, p) # "MALFORMED" /\ ReplyTo(kind, p) # "UNAUTHORIZED"
    BY <1>3, <2>1, <2>2, SecondReading
  <2> QED
    BY <1>3, <2>3 DEF ReplyTo, necroGetReply, necroSetReply, Compared
<1>4. CASE kind = "BC_RTS"
  <2>1. exTok(kind, p) # Nowhere /\ sessTok = BytesAt(p, exTok(kind, p))
    BY <1>4, SentIsFound
  <2>2. ReplyTo(kind, p) # "MALFORMED" /\ ReplyTo(kind, p) # "UNAUTHORIZED"
    BY <1>4, <2>1, SecondReading
  <2> QED
    BY <1>4, <2>2 DEF ReplyTo, bcReply, Compared
<1>5. CASE kind = "ER_REQ"
  BY <1>5 DEF ReplyTo
<1> QED
  BY <1>1, <1>2, <1>3, <1>4, <1>5 DEF FrameKinds

----------------------------------------------------------------------------
(* What has been found out about a request *)

\* A session was found by the token at the place that exTok found.
ByItsToken ==
    LET p == message.payload
    IN /\ message.kind # "SB_ELEVATE" /\ place = exTok(message.kind, p) /\ place # Nowhere
       /\ sessTok = BytesAt(p, place) /\ sessTok # <<>>

\* Or none was, and the request has been refused; an elevation has no place.
WithoutSession ==
    LET p == message.payload
    IN /\ sessTok = <<>>
       /\ \/ message.kind = "SB_ELEVATE" /\ reply = ReplyTo(message.kind, p)
          \/ /\ message.kind # "SB_ELEVATE" /\ exTok(message.kind, p) = Nowhere
             /\ reply = "MALFORMED"
          \/ /\ message.kind # "SB_ELEVATE" /\ exTok(message.kind, p) # Nowhere
             /\ BytesAt(p, exTok(message.kind, p)) \notin LiveTokens

FrameInv ==
    /\ FrameTypeOK
    /\ stage \in {"received", "placed"} => sessTok = <<>>
    /\ stage = "placed" =>
          message.kind # "SB_ELEVATE" /\ place = exTok(message.kind, message.payload) /\ place # Nowhere
    /\ stage = "resolved" => ByItsToken
    /\ stage = "replied" =>
          (ByItsToken /\ reply = ReplyTo(message.kind, message.payload)) \/ WithoutSession

LEMMA RepliesTyped ==
  ASSUME NEW kind \in FrameKinds, NEW p
  PROVE  ReplyTo(kind, p) \in {"served", "MALFORMED", "UNAUTHORIZED"}
<1>1. \A from : Compared(p, from) \in {"served", "MALFORMED", "UNAUTHORIZED"}
  BY DEF Compared
<1>2. necroGetReply(p) \in {"served", "MALFORMED", "UNAUTHORIZED"}
  BY <1>1 DEF necroGetReply
<1>3. necroSetReply(p) \in {"served", "MALFORMED", "UNAUTHORIZED"}
  BY <1>1 DEF necroSetReply
<1>4. elevateReply(p) \in {"served", "MALFORMED", "UNAUTHORIZED"}
  BY DEF elevateReply
<1>5. bcReply(p) \in {"served", "MALFORMED", "UNAUTHORIZED"}
  BY <1>1 DEF bcReply
<1>6. bcDataReply(p) \in {"served", "MALFORMED", "UNAUTHORIZED"}
  BY <1>1 DEF bcDataReply
<1>7. uwReply(p) \in {"served", "MALFORMED", "UNAUTHORIZED"}
  BY <1>1 DEF uwReply
<1> QED
  BY <1>2, <1>3, <1>4, <1>5, <1>6, <1>7 DEF ReplyTo, FrameKinds

LEMMA FrameInitInv == FrameInit => FrameInv
<1> SUFFICES ASSUME FrameInit PROVE FrameInv
  OBVIOUS
<1>1. message.kind \in FrameKinds /\ message.payload \in UNION {[1 .. n -> Byte] : n \in 0 .. PayloadLimit}
  BY DEF FrameInit
<1>2. message.payload \in Seq(Byte)
  BY <1>1, FrameAssumption
<1> QED
  BY <1>1, <1>2 DEF FrameInit, FrameInv, FrameTypeOK

LEMMA FrameStep == FrameInv /\ [FrameNext]_frameVars => FrameInv'
<1> SUFFICES ASSUME FrameInv, [FrameNext]_frameVars PROVE FrameInv'
  OBVIOUS
<1> DEFINE p == message.payload
<1> FrameTypeOK /\ message.kind \in FrameKinds /\ p \in Seq(Byte)
  BY DEF FrameInv, FrameTypeOK
<1>1. CASE placeToken
  <2>1. /\ stage = "received" /\ message.kind # "SB_ELEVATE" /\ sessTok = <<>>
        /\ place' = exTok(message.kind, p) /\ message' = message /\ sessTok' = <<>>
    BY <1>1 DEF placeToken, FrameInv
  <2>2. place' = Nowhere \/ (place' \in Nat /\ HoldsToken(p, place'))
    BY <2>1, PlaceInside
  <2>3. CASE place' = Nowhere
    <3>1. stage' = "replied" /\ reply' = "MALFORMED"
      BY <1>1, <2>3 DEF placeToken
    <3>2. WithoutSession'
      BY <2>1, <2>3, <3>1 DEF WithoutSession
    <3> QED
      BY <2>1, <2>2, <3>1, <3>2 DEF FrameInv, FrameTypeOK
  <2>4. CASE place' # Nowhere
    <3>1. stage' = "placed" /\ reply' = reply
      BY <1>1, <2>4 DEF placeToken
    <3>2. FrameTypeOK'
      BY <2>1, <2>2, <3>1 DEF FrameTypeOK
    <3> QED
      BY <2>1, <2>4, <3>1, <3>2 DEF FrameInv
  <2> QED
    BY <2>3, <2>4
<1>2. CASE findSession
  <2>1. /\ stage = "placed" /\ message.kind # "SB_ELEVATE" /\ sessTok = <<>>
        /\ place = exTok(message.kind, p) /\ place # Nowhere /\ message' = message /\ place' = place
    BY <1>2 DEF findSession, FrameInv
  <2>2. CASE BytesAt(p, place) \in LiveTokens
    <3>1. stage' = "resolved" /\ sessTok' = BytesAt(p, place) /\ reply' = reply
      BY <1>2, <2>2 DEF findSession
    <3>2. sessTok' # <<>>
      <4>1. 1 \in 1 .. TokenSize /\ 1 \notin DOMAIN <<>>
        BY FrameAssumption
      <4>2. DOMAIN BytesAt(p, place) = 1 .. TokenSize
        BY DEF BytesAt
      <4> QED
        BY <3>1, <4>1, <4>2
    <3>3. ByItsToken'
      BY <2>1, <3>1, <3>2 DEF ByItsToken
    <3>4. FrameTypeOK'
      BY <2>1, <2>2, <3>1 DEF FrameTypeOK
    <3> QED
      BY <3>1, <3>3, <3>4 DEF FrameInv
  <2>3. CASE BytesAt(p, place) \notin LiveTokens
    <3>1. stage' = "replied" /\ sessTok' = <<>> /\ reply' = "UNAUTHORIZED"
      BY <1>2, <2>1, <2>3 DEF findSession
    <3>2. WithoutSession'
      BY <2>1, <2>3, <3>1 DEF WithoutSession
    <3>3. FrameTypeOK'
      BY <2>1, <3>1 DEF FrameTypeOK
    <3> QED
      BY <3>1, <3>2, <3>3 DEF FrameInv
  <2> QED
    BY <2>2, <2>3
<1>3. CASE handle
  <2>1. /\ stage' = "replied" /\ reply' = ReplyTo(message.kind, p)
        /\ message' = message /\ place' = place /\ sessTok' = sessTok
    BY <1>3 DEF handle
  <2>2. FrameTypeOK'
    BY <2>1, RepliesTyped DEF FrameTypeOK
  <2>3. ReplyTo(message.kind, p)' = ReplyTo(message.kind, p)
    BY <2>1 DEF ReplyTo, elevateReply, bcReply, bcDataReply, necroGetReply, necroSetReply, uwReply,
                Compared
  <2>4. CASE stage = "resolved"
    <3>1. ByItsToken'
      BY <2>1, <2>4 DEF FrameInv, ByItsToken
    <3> QED
      BY <2>1, <2>2, <2>3, <3>1 DEF FrameInv
  <2>5. CASE stage = "received" /\ message.kind = "SB_ELEVATE"
    <3>1. WithoutSession'
      BY <2>1, <2>3, <2>5 DEF FrameInv, WithoutSession
    <3> QED
      BY <2>1, <2>2, <3>1 DEF FrameInv
  <2> QED
    BY <1>3, <2>4, <2>5 DEF handle
<1>4. CASE UNCHANGED frameVars
  <2>1. ReplyTo(message.kind, p)' = ReplyTo(message.kind, p)
    BY <1>4 DEF ReplyTo, elevateReply, bcReply, bcDataReply, necroGetReply, necroSetReply, uwReply,
                Compared, frameVars
  <2>2. FrameTypeOK'
    BY <1>4 DEF frameVars, FrameTypeOK
  <2>3. (ByItsToken => ByItsToken') /\ (WithoutSession => WithoutSession')
    BY <1>4, <2>1 DEF frameVars, ByItsToken, WithoutSession
  <2> QED
    BY <1>4, <2>1, <2>2, <2>3 DEF frameVars, FrameInv
<1> QED
  BY <1>1, <1>2, <1>3, <1>4 DEF FrameNext

\* A data frame's token is found nowhere.
LEMMA DataIsNowhere ==
  ASSUME NEW p \in Seq(Byte)
  PROVE  exTok("BC_DATA", p) = Nowhere
<1>1. HashSize \in Nat /\ TokenSize \in Nat \ {0} /\ Len(p) \in Nat
  BY FrameAssumption
<1> QED
  BY <1>1 DEF exTok

LEMMA FrameInvMeans == FrameInv => ReadingsAgree /\ SentIsServedButData
<1> SUFFICES ASSUME FrameInv, stage = "replied"
             PROVE  ReadingsAgree /\ SentIsServedButData
  BY DEF ReadingsAgree, SentIsServedButData
<1> DEFINE p == message.payload
<1> message.kind \in FrameKinds /\ p \in Seq(Byte)
  BY DEF FrameInv, FrameTypeOK
<1> DEFINE Answered == IF message.kind = "BC_DATA" THEN "MALFORMED" ELSE "served"
<1>0. message.kind = "BC_DATA" => exTok(message.kind, p) = Nowhere
  BY DataIsNowhere
<1>1. CASE ByItsToken /\ reply = ReplyTo(message.kind, p)
  <2>1. /\ message.kind \in FrameKinds \ {"SB_ELEVATE"} /\ place = exTok(message.kind, p)
        /\ exTok(message.kind, p) # Nowhere /\ sessTok = BytesAt(p, exTok(message.kind, p))
    BY <1>1 DEF ByItsToken
  <2>2. ReadingsAgree
    BY <1>1, <2>1, SecondReading DEF ReadingsAgree
  <2>3. ASSUME NEW t \in LiveTokens, Sends(message.kind, p, t) PROVE reply = Answered
    <3>1. message.kind # "BC_DATA"
      BY <1>0, <2>1
    <3>2. sessTok = t
      BY <2>1, <2>3, <3>1, SentIsFound
    <3> QED
      BY <1>1, <2>3, <3>1, <3>2, SentIsTaken
  <2> QED
    BY <2>2, <2>3 DEF SentIsServedButData
<1>2. CASE WithoutSession
  <2>1. ReadingsAgree
    BY <1>2 DEF WithoutSession, ReadingsAgree
  <2>2. ASSUME NEW t \in LiveTokens, Sends(message.kind, p, t) PROVE reply = Answered
    <3>1. CASE message.kind = "SB_ELEVATE"
      <4>1. reply = ReplyTo(message.kind, p)
        BY <1>2, <3>1 DEF WithoutSession
      <4>2. ReplyTo(message.kind, p) = "served"
        BY <2>2, <3>1, SentIsTaken
      <4> QED
        BY <3>1, <4>1, <4>2
    <3>2. CASE message.kind \notin {"SB_ELEVATE", "BC_DATA"}
      <4>1. exTok(message.kind, p) # Nowhere /\ BytesAt(p, exTok(message.kind, p)) \in LiveTokens
        BY <2>2, <3>2, SentIsFound
      <4> QED
        BY <1>2, <3>2, <4>1 DEF WithoutSession
    <3>3. CASE message.kind = "BC_DATA"
      BY <1>0, <1>2, <3>3 DEF WithoutSession, Nowhere
    <3> QED
      BY <3>1, <3>2, <3>3
  <2> QED
    BY <2>1, <2>2 DEF SentIsServedButData
<1> QED
  BY <1>1, <1>2 DEF FrameInv

----------------------------------------------------------------------------
LEMMA FramesCorrect == FrameSpec => []FrameInv
<1> QED
  BY FrameInitInv, FrameStep, PTL DEF FrameSpec

\* A token that exTok finds lies within the payload, whatever its bytes.
THEOREM FrameTypeCorrect == FrameSpec => []FrameTypeOK
<1>1. FrameInv => FrameTypeOK
  BY DEF FrameInv
<1> QED
  BY <1>1, FramesCorrect, PTL

\* The handler of a request reads the token by which its session was found,
\* for payloads and tokens of any bytes and any length: it refuses the request
\* for an empty key or for what follows the token of a command only.
THEOREM ReadingsCorrect == FrameSpec => []ReadingsAgree
  BY FrameInvMeans, FramesCorrect, PTL

\* Every request of the client that carries a live token passes both
\* readings, whatever bytes the token has, but for its data, which none does.
THEOREM SentCorrect == FrameSpec => []SentIsServedButData
  BY FrameInvMeans, FramesCorrect, PTL
=============================================================================
