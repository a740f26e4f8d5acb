----------------------------- MODULE LichServer -----------------------------
(***************************************************************************)
(* The request handlers of the Lich server: the session table (state.c),   *)
(* the global configuration (config.c), the handshake cache (handlers.c),  *)
(* the pseudo-random generator the tokens come from (crypto.c, proto.c)    *)
(* and the dispatch of one request per connection (main.c).                *)
(*                                                                         *)
(* The server is one thread that serves one connection at a time, so a     *)
(* request is one atomic step.  What interleaves is the order of the       *)
(* clients' requests and the passage of time between them.                 *)
(*                                                                         *)
(* Timestamps are kept as ages, now - timestamp, which is the only form    *)
(* the code reads them in; an age stops growing at MaxAge, beyond which no *)
(* comparison of the code can tell two ages apart.                         *)
(***************************************************************************)
EXTENDS Integers, FiniteSets

CONSTANTS
  Users,          \* usernames that log in
  NameLen,        \* the length of each
  Ips,            \* peer addresses
  MaxSessions,    \* MAX_SESSIONS, the size of stTbl
  HsCacheSize,    \* HS_CACHE_SIZE, the size of hsTbl
  HsTtlSec,       \* HS_TTL_SEC
  TokenExpireSec, \* TOKEN_EXPIRE_SEC, used when tknExpire is not a number > 0
  CfgDefault,     \* the values cfgInit stores
  CfgVals,        \* for each key, the values clients write (atoi of the text)
  Sizes,          \* data sizes clients announce
  CmdLens,        \* command lengths clients send
  Seed42Even,     \* does the C library's rand() start even after srand(42)?
  MaxDraws,       \* bound: tokens drawn from one seeding of the generator
  MaxAge,         \* bound: ages stop growing here
  Free,           \* an inactive slot of stTbl
  Empty           \* an invalid entry of hsTbl

VARIABLES
  sess,   \* stTbl: sess[i] is a session, or Free when isActive = 0
  stCnt,  \* stCnt: slots of stTbl ever used
  cfg,    \* cfgTbl: the value of each key
  hs,     \* hsTbl
  rng,    \* the generator: how it was seeded, tokens drawn since
  shake,  \* history: age of each address's last successful handshake
  last    \* the last request: its kind, who made it, the answer

vars == <<sess, stCnt, cfg, hs, rng, shake, last>>

Slots   == 1 .. MaxSessions
HsSlots == 1 .. HsCacheSize
Ages    == 0 .. MaxAge

NumKeys  == {"timeout", "maxChunkSize", "serverPort", "tknExpire",
             "maxSess", "maxPayload", "CmdSize"}
TextKeys == {"EleEnabled", "EnCmdExec"}
Keys     == NumKeys \cup TextKeys

\* Slip: tknExpire is added with requiresAdmin = 0.
AdminKeys_OpenExpiry == Keys \ {"EleEnabled", "tknExpire"}

\* The keys cfgInit adds with requiresAdmin = 1.
AdminKeys == Keys \ {"EleEnabled"}

Levels == {"UNPRIVILEGED", "ADMIN"}

\* A token is named by the seeding it was drawn under and its rank since.
Seeds  == {"boot", "fixed"}
Tokens == Seeds \X (1 .. MaxDraws)

\* No transfer was granted: inDataTransfer = 0.
NoGrant == -1

\* idle is the age of lastActivity; grant is expectedDataSize while
\* inDataTransfer is 1.
Session == [user : Users, token : Tokens, level : Levels, idle : Ages,
            grant : Sizes \cup {NoGrant}]

HsEntry == [ip : Ips, age : Ages]

\* The requests that carry a token, and the shortest payload the token is
\* read from: an empty key, value or command.
TokenPayload == [SB_ELEVATE |-> 18, BC_RTS |-> 20, NW_GETCFG |-> 17,
                 NW_SETCFG |-> 18, UW_EXEC |-> 17, ER_REQ |-> 16]
TokenKinds   == DOMAIN TokenPayload
\* FRAME and TOKEN stand for a request of any kind that main refuses.
Kinds        == TokenKinds \cup {"AR", "SB_REQ", "BC_DATA", "FRAME", "TOKEN"}

Errors  == {"MAGIC_VER", "HASH_FAIL", "UNAUTHORIZED", "CMD_DENIED",
            "MALFORMED", "CONFIG_NOTFOUND", "TRANSFER_DENY"}
Answers == {"ARISE_RESP", "SB_RESP", "BC_CTS", "NW_GETCFG", "approve", "deny",
            "UW_RESULT", "ER_RESP"}
NoOne   == 0
Quiet   == [kind |-> "none", by |-> NoOne, code |-> "none"]

ASSUME BoundsAssumption ==
  /\ MaxSessions \in Nat \ {0}
  /\ HsCacheSize \in Nat \ {0}
  /\ MaxDraws \in Nat
  /\ HsTtlSec \in Nat
  /\ TokenExpireSec \in Nat \ {0}
  /\ MaxAge \in Nat
  /\ HsTtlSec < MaxAge

ASSUME InputsAssumption ==
  /\ NameLen \in [Users -> 0 .. 8]
  /\ Seed42Even \in BOOLEAN
  /\ Sizes \subseteq Nat
  /\ CmdLens \subseteq Nat
  /\ CfgDefault = [k \in Keys |-> CfgDefault[k]]
  /\ \A k \in NumKeys : CfgVals[k] \subseteq Int /\ CfgDefault[k] \in Int
  /\ \A k \in TextKeys : CfgVals[k] \subseteq STRING /\ CfgDefault[k] \in STRING

ASSUME SentinelAssumption ==
  /\ Free \notin Session
  /\ Empty \notin HsEntry
  /\ \A p \in Ips : p \notin Slots \cup {NoOne}

-----------------------------------------------------------------------------
(* Configuration reads.                                                    *)

Least(a, b) == IF a < b THEN a ELSE b

\* Variants of a definition, named after it with a suffix, stand for slips in
\* the code that the properties have to notice; no action uses them.

\* Slip: the floor of the range is forgotten.
Clamped_NoFloor(v, default, lo, hi) ==
  IF v > hi THEN hi ELSE IF v > 0 THEN v ELSE default

\* A numeric setting: a value that is not above 0 counts as the default, and
\* the result is kept within [lo, hi].
Clamped(v, default, lo, hi) ==
  LET n == IF v > 0 THEN v ELSE default
  IN  IF n < lo THEN lo ELSE IF n > hi THEN hi ELSE n

MaxSessOf(v)  == Clamped(v, MaxSessions, 1, MaxSessions)
TknExpOf(v)   == Clamped(v, TokenExpireSec, 1, 86400)
gtMaxSess     == MaxSessOf(cfg["maxSess"])
gtTknExp      == TknExpOf(cfg["tknExpire"])
gtMaxPayload  == Clamped(cfg["maxPayload"], 256, 16, 256)

\* main: a payload longer than maxPayload is refused before it is read.
\* Handshakes and goodbyes always fit, for maxPayload is at least 16.
Fits(length) == length <= gtMaxPayload

\* pSReq: the name and the passphrase of 8 bytes, each with its terminator.
LoginPayload(u) == NameLen[u] + 1 + 8 + 1

ElevatePayload == TokenPayload["SB_ELEVATE"] + 13
KeyLen == [timeout |-> 7, maxChunkSize |-> 12, EleEnabled |-> 10,
           serverPort |-> 10, tknExpire |-> 9, maxSess |-> 7,
           maxPayload |-> 10, EnCmdExec |-> 9, CmdSize |-> 7]
GetPayload(key) == TokenPayload["NW_GETCFG"] + KeyLen[key]
\* A number counts as one digit.
SetPayload(key, value) ==
  TokenPayload["NW_SETCFG"] + KeyLen[key]
    + (IF key \in TextKeys /\ value = "True" THEN 4 ELSE 1)

\* MaxAge is beyond every expiry the run can configure.
ASSUME AgesSuffice ==
  \A v \in CfgVals["tknExpire"] \cup {CfgDefault["tknExpire"]} :
    TknExpOf(v) < MaxAge

cfgCA(level, key) == level = "ADMIN" \/ key \in Keys \ AdminKeys

\* cfgS refuses an admin key once more.
cfgSAllows(level, key) == level = "ADMIN" \/ key \notin AdminKeys

-----------------------------------------------------------------------------
(* The session table.                                                      *)

\* Slip: the loops stop one slot early.
Used_OneShort == {i \in Slots : i < stCnt}

\* The slots the loops of state.c look at: those in use so far.
Used == {i \in Slots : i <= stCnt}

Active(table) == {i \in Used : table[i] # Free}

\* Slip: a session expires one second early.
stTE_Early(i) == sess[i].idle >= gtTknExp

\* stTE: has the session in slot i been idle for too long?
stTE(i) == sess[i].idle > gtTknExp

\* stLT: slot i is the first active slot with its token.
FirstWithToken(i) ==
  /\ i \in Active(sess)
  /\ \A j \in Active(sess) : j < i => sess[j].token # sess[i].token

\* stLT returns slot i, or finds it expired.
Resolves(i) == FirstWithToken(i) /\ ~stTE(i)
Stale(i)    == FirstWithToken(i) /\ stTE(i)

\* stUA, with the other fields a handler sets.
Touched(i) == [sess EXCEPT ![i].idle = 0]

\* stCS, first loop: expired sessions become inactive.
Reaped ==
  [i \in Slots |-> IF i \in Active(sess) /\ stTE(i) THEN Free ELSE sess[i]]

\* Slip: the user's old session stays.
WithoutUser_Kept(table, u) == table

\* stCS, second loop: so does the session of the same user.
WithoutUser(table, u) ==
  [i \in Slots |->
     IF i \in Active(table) /\ table[i].user = u THEN Free ELSE table[i]]

\* Slip: the scan for a slot does not look at isActive.
SlotFor_First(table, i) == i = 1

\* stCS, last loop: the first inactive used slot, else the next unused one.
SlotFor(table, i) ==
  \/ /\ i \in Used
     /\ table[i] = Free
     /\ \A j \in Used : j < i => table[j] # Free
  \/ /\ i = stCnt + 1
     /\ \A j \in Used : table[j] # Free

\* Slip: a slot taken at the end of the table is not counted.
CountWith_Same(i) == stCnt

\* stCnt once slot i is in use.
CountWith(i) == IF i > stCnt THEN i ELSE stCnt

\* Slip: the level is left at AUTH_NONE.
NewSession_None(u, t) == [user |-> u, token |-> t, level |-> "NONE",
                          idle |-> 0, grant |-> NoGrant]

NewSession(u, t) == [user |-> u, token |-> t, level |-> "UNPRIVILEGED",
                     idle |-> 0, grant |-> NoGrant]

-----------------------------------------------------------------------------
(* The generator and the handshake cache.                                  *)

\* gT: the next token, and the generator after it was drawn.
NextToken == <<rng.seed, rng.drawn + 1>>
\* Slip: the generator is seeded again for every token.
gT_Reseeded == rng.drawn < MaxDraws /\ UNCHANGED rng

gT == /\ rng.drawn < MaxDraws
      /\ rng' = [rng EXCEPT !.drawn = @ + 1]

\* eBCCts: srand(42), then one rand() decides.
eBCCts == rng' = [seed |-> "fixed", drawn |-> 0]

Holds(j, p)   == hs[j] # Empty /\ hs[j].ip = p
FirstHolder(j, p) == Holds(j, p) /\ \A k \in HsSlots : k < j => ~Holds(k, p)

\* markHs: a slot the loop takes when it has none yet.  oldest starts as now,
\* so an entry of any age satisfies ts <= oldest.
Takes(j) == hs[j] # Empty => hs[j].age >= 0

\* markHs: the entry of this address, else the first slot the loop takes.
HsSlotFor(j, p) ==
  \/ FirstHolder(j, p)
  \/ /\ \A k \in HsSlots : ~Holds(k, p)
     /\ Takes(j)
     /\ \A k \in HsSlots : k < j => ~Takes(k)

\* Slip: the entry of an address that is known keeps its time.
markHs_KeepsTime(p) ==
  \E j \in HsSlots :
    /\ HsSlotFor(j, p)
    /\ hs' = [hs EXCEPT ![j] = [ip |-> p, age |-> IF Holds(j, p) THEN @.age ELSE 0]]

markHs(p) ==
  \E j \in HsSlots : /\ HsSlotFor(j, p)
                     /\ hs' = [hs EXCEPT ![j] = [ip |-> p, age |-> 0]]

\* Slip: the age of the entry is not looked at.
hasRecentHs_AnyAge(p) == \E j \in HsSlots : FirstHolder(j, p)

\* hasRecentHs: the address's entry is young enough.
hasRecentHs(p) == \E j \in HsSlots : FirstHolder(j, p) /\ hs[j].age <= HsTtlSec

\* hasRecentHs also invalidates an entry it finds too old.
HsAfterCheck(p) ==
  [j \in HsSlots |->
     IF FirstHolder(j, p) /\ hs[j].age > HsTtlSec THEN Empty ELSE hs[j]]

-----------------------------------------------------------------------------
Init ==
  /\ sess = [i \in Slots |-> Free]
  /\ stCnt = 0
  /\ cfg = CfgDefault
  /\ hs = [j \in HsSlots |-> Empty]
  /\ rng = [seed |-> "boot", drawn |-> 0]
  /\ shake = [p \in Ips |-> MaxAge]
  /\ last = Quiet

Answer(kind, by, code) == last' = [kind |-> kind, by |-> by, code |-> code]

-----------------------------------------------------------------------------
(* Frames main refuses before any handler runs: a bad header, a payload    *)
(* that is too long or does not arrive, a wrong magic, version or hash, or *)
(* no token where exTok looks for one; and types disMes does not know.     *)

refuseFrame(code) ==
  /\ Answer("FRAME", NoOne, code)
  /\ UNCHANGED <<sess, stCnt, cfg, hs, rng, shake>>

\* A frame whose token names no session that is still alive.  A session found
\* expired by stLT becomes inactive; slots after the first one with the token
\* are not looked at.
refuseToken ==
  /\ \/ UNCHANGED sess
     \/ \E i \in Slots : Stale(i) /\ sess' = [sess EXCEPT ![i] = Free]
  /\ Answer("TOKEN", NoOne, "UNAUTHORIZED")
  /\ UNCHANGED <<stCnt, cfg, hs, rng, shake>>

\* exTok, for BC_DATA: the length test compares payloadLen with itself plus 32.
exTokData(payloadLen) == payloadLen >= payloadLen + 16 + 16

\* A whole BC_DATA frame, data, hash and token, of a session to which a
\* transfer was granted.  No length passes exTok: the frame ends in main, and
\* handleBCData never runs.
refuseData(i, size) ==
  /\ sess[i] # Free
  /\ sess[i].grant # NoGrant
  /\ Fits(size + 16 + 16)
  /\ ~exTokData(size + 16 + 16)
  /\ Answer("BC_DATA", i, "MALFORMED")
  /\ UNCHANGED <<sess, stCnt, cfg, hs, rng, shake>>

-----------------------------------------------------------------------------
(* Arise and SoulBind: the two protocols main dispatches without a session.*)

handleAR(p, blake3) ==
  /\ \/ /\ ~blake3
        /\ Answer("AR", p, "MALFORMED")
        /\ UNCHANGED <<hs, shake>>
     \/ /\ blake3
        /\ markHs(p)
        /\ shake' = [shake EXCEPT ![p] = 0]
        /\ Answer("AR", p, "ARISE_RESP")
  /\ UNCHANGED <<sess, stCnt, cfg, rng>>

\* handleSBReq up to the password check.
loginRefused(p) ==
  /\ hs' = HsAfterCheck(p)
  /\ \/ /\ ~hasRecentHs(p)
        /\ Answer("SB_REQ", p, "UNAUTHORIZED")
     \/ /\ hasRecentHs(p)
        /\ \E code \in {"MALFORMED", "UNAUTHORIZED"} : Answer("SB_REQ", p, code)
  /\ UNCHANGED <<sess, stCnt, cfg, rng, shake>>

\* handleSBReq with good credentials: the token is drawn and the user's old
\* session ends whether or not there is room for the new one.
handleSBReq(p, u) ==
  LET table == WithoutUser(Reaped, u)
  IN  /\ Fits(LoginPayload(u))
      /\ hasRecentHs(p)
      /\ gT
      /\ \/ /\ Cardinality(Active(table)) >= gtMaxSess
            /\ sess' = table
            /\ Answer("SB_REQ", p, "MALFORMED")
            /\ UNCHANGED stCnt
         \/ /\ Cardinality(Active(table)) < gtMaxSess
            /\ \E i \in Slots :
                 /\ SlotFor(table, i)
                 /\ sess' = [table EXCEPT ![i] = NewSession(u, NextToken)]
                 /\ stCnt' = CountWith(i)
            /\ Answer("SB_REQ", p, "SB_RESP")
      /\ UNCHANGED <<cfg, hs, shake>>

\* Slip: everything but False enables elevation.
ElevationOn_NotFalse == cfg["EleEnabled"] # "False"

\* handleSBEle's reading of EleEnabled.
ElevationOn == cfg["EleEnabled"] = "True"

\* handleSBEle: only a granted elevation refreshes the session.
handleSBEle(i, request) ==
  /\ Fits(TokenPayload["SB_ELEVATE"])
  /\ Resolves(i)
  /\ \/ /\ request = ""
        /\ Answer("SB_ELEVATE", i, "MALFORMED")
        /\ UNCHANGED sess
     \/ /\ request # ""
        /\ ~ElevationOn \/ request # "elevateRequest"
        /\ Answer("SB_ELEVATE", i, "UNAUTHORIZED")
        /\ UNCHANGED sess
     \/ /\ request = "elevateRequest"
        /\ Fits(ElevatePayload)
        /\ ElevationOn
        /\ sess' = [Touched(i) EXCEPT ![i].level = "ADMIN"]
        /\ Answer("SB_ELEVATE", i, "SB_RESP")
  /\ UNCHANGED <<stCnt, cfg, hs, rng, shake>>

-----------------------------------------------------------------------------
(* The protocols main resolves a session for: it is refreshed before the   *)
(* handler runs, whatever the handler answers.                             *)

TooLarge(size) == cfg["maxChunkSize"] < 0 \/ size > cfg["maxChunkSize"]

handleBC(i, size) ==
  /\ Fits(TokenPayload["BC_RTS"])
  /\ Resolves(i)
  /\ \/ /\ TooLarge(size)
        /\ sess' = Touched(i)
        /\ Answer("BC_RTS", i, "TRANSFER_DENY")
        /\ UNCHANGED rng
     \/ /\ ~TooLarge(size)
        /\ eBCCts
        /\ \/ /\ Seed42Even
              /\ sess' = [Touched(i) EXCEPT ![i].grant = size]
              /\ Answer("BC_RTS", i, "BC_CTS")
           \/ /\ ~Seed42Even
              /\ sess' = Touched(i)
              /\ Answer("BC_RTS", i, "TRANSFER_DENY")
  /\ UNCHANGED <<stCnt, cfg, hs, shake>>

\* The key as the frame carries it: known, unknown or empty.
KeyError(key) == IF key = "" THEN "MALFORMED" ELSE "CONFIG_NOTFOUND"

handleNecroGet(i, key) ==
  /\ Fits(IF key \in Keys THEN GetPayload(key) ELSE TokenPayload["NW_GETCFG"])
  /\ Resolves(i)
  /\ sess' = Touched(i)
  /\ Answer("NW_GETCFG", i, IF key \in Keys THEN "NW_GETCFG" ELSE KeyError(key))
  /\ UNCHANGED <<stCnt, cfg, hs, rng, shake>>

handleNecroSet(i, key, value) ==
  /\ Fits(SetPayload(key, value))
  /\ Resolves(i)
  /\ sess' = Touched(i)
  /\ \/ /\ ~cfgCA(sess[i].level, key)
        /\ Answer("NW_SETCFG", i, "deny")
        /\ UNCHANGED cfg
     \/ /\ cfgCA(sess[i].level, key)
        /\ LET allowed == cfgSAllows(sess[i].level, key)
           IN  /\ cfg' = IF allowed THEN [cfg EXCEPT ![key] = value] ELSE cfg
               /\ Answer("NW_SETCFG", i,
                         IF allowed THEN "approve" ELSE "CONFIG_NOTFOUND")
  /\ UNCHANGED <<stCnt, hs, rng, shake>>

\* handleNecroSet's refusal of a key that does not exist.
refuseKey(i, key) ==
  /\ Fits(TokenPayload["NW_SETCFG"])
  /\ Resolves(i)
  /\ sess' = Touched(i)
  /\ Answer("NW_SETCFG", i, KeyError(key))
  /\ UNCHANGED <<stCnt, cfg, hs, rng, shake>>

\* handleUW reads the token in the last bytes of the payload, exTok after the
\* command: atEnd says whether these are the same bytes.
handleUW(i, cmdLen, atEnd) ==
  LET cmdMax == IF cfg["CmdSize"] > 0 THEN cfg["CmdSize"] ELSE 256
      denied == \/ sess[i].level # "ADMIN"
                \/ cfg["EnCmdExec"] # "True"
                \/ cmdLen > cmdMax
  IN  /\ Fits(TokenPayload["UW_EXEC"] + cmdLen + IF atEnd THEN 0 ELSE 1)
      /\ Resolves(i)
      /\ sess' = Touched(i)
      /\ \/ ~atEnd /\ Answer("UW_EXEC", i, "UNAUTHORIZED")
         \/ atEnd /\ denied /\ Answer("UW_EXEC", i, "CMD_DENIED")
         \/ atEnd /\ ~denied /\ Answer("UW_EXEC", i, "UW_RESULT")
      /\ UNCHANGED <<stCnt, cfg, hs, rng, shake>>

handleER(i) ==
  /\ Resolves(i)
  /\ sess' = [sess EXCEPT ![i] = Free]
  /\ Answer("ER_REQ", i, "ER_RESP")
  /\ UNCHANGED <<stCnt, cfg, hs, rng, shake>>

\* disMes: exTok finds the token of these frames whatever their message type
\* says (the type of an approval, for NecroticWeave), and the dispatcher then
\* refuses the type: the session has been refreshed.
refuseType(i, kind) ==
  /\ Fits(TokenPayload[kind])
  /\ Resolves(i)
  /\ sess' = Touched(i)
  /\ Answer(kind, i, "MALFORMED")
  /\ UNCHANGED <<stCnt, cfg, hs, rng, shake>>

-----------------------------------------------------------------------------
\* A second passes between two requests.
Tick ==
  LET Older(age) == Least(age + 1, MaxAge)
  IN  /\ sess' = [i \in Slots |->
                    IF sess[i] = Free THEN Free
                    ELSE [sess[i] EXCEPT !.idle = Older(@)]]
      /\ hs' = [j \in HsSlots |->
                  IF hs[j] = Empty THEN Empty
                  ELSE [hs[j] EXCEPT !.age = Older(@)]]
      /\ shake' = [p \in Ips |-> Older(shake[p])]
      /\ last' = Quiet
      /\ UNCHANGED <<stCnt, cfg, rng>>

Refusals ==
  \/ \E code \in {"none", "MAGIC_VER", "HASH_FAIL", "MALFORMED"} : refuseFrame(code)
  \/ refuseToken

SessionlessRequests ==
  \E p \in Ips :
    \/ \E blake3 \in BOOLEAN : handleAR(p, blake3)
    \/ loginRefused(p)
    \/ \E u \in Users : handleSBReq(p, u)

SessionRequests ==
  \E i \in Slots :
    \/ \E request \in {"", "elevateRequest", "other"} : handleSBEle(i, request)
    \/ \E size \in Sizes : handleBC(i, size)
    \/ \E key \in Keys \cup {"", "unknown"} : handleNecroGet(i, key)
    \/ \E key \in Keys : \E value \in CfgVals[key] : handleNecroSet(i, key, value)
    \/ \E key \in {"", "unknown"} : refuseKey(i, key)
    \/ \E cmdLen \in CmdLens, atEnd \in BOOLEAN : handleUW(i, cmdLen, atEnd)
    \/ handleER(i)
    \/ \E kind \in {"NW_SETCFG", "UW_EXEC", "ER_REQ"} : refuseType(i, kind)
    \/ \E size \in Sizes : refuseData(i, size)

Next == Refusals \/ SessionlessRequests \/ SessionRequests \/ Tick

Spec == Init /\ [][Next]_vars

-----------------------------------------------------------------------------
(* Invariants.                                                             *)

\* Every variable has its type.
TypeOK ==
  /\ sess \in [Slots -> Session \cup {Free}]
  /\ stCnt \in 0 .. MaxSessions
  /\ DOMAIN cfg = Keys
  /\ \A k \in NumKeys : cfg[k] \in Int
  /\ \A k \in TextKeys : cfg[k] \in STRING
  /\ hs \in [HsSlots -> HsEntry \cup {Empty}]
  /\ rng \in [seed : Seeds, drawn : 0 .. MaxDraws]
  /\ shake \in [Ips -> Ages]
  /\ last.kind \in Kinds \cup {"none"}
  /\ last.code \in Errors \cup Answers \cup {"none"}

\* Active sessions live in the slots counted by stCnt, which is where stCS,
\* stLT and the reaping loop look for them.
CountCoversActive == \A i \in Slots : sess[i] # Free => i <= stCnt

\* One user has at most one active session (PROTOspec.md:106), however
\* logins, expiries and slot reuse follow each other.
OneSessionPerUser ==
  \A i, j \in Slots :
    sess[i] # Free /\ sess[j] # Free /\ sess[i].user = sess[j].user => i = j

\* Two active sessions share a token only if the generator was reseeded by a
\* BoneCourier request; until then every session drew its own.
SharedTokenNeedsReseed ==
  \A i, j \in Slots :
    sess[i] # Free /\ sess[j] # Free /\ sess[i].token = sess[j].token
      => i = j \/ rng.seed = "fixed"

\* The handshake cache tells the truth: an address has at most one entry, and
\* its age is the time since that address's last accepted handshake.
CacheIsTrue ==
  /\ \A j, k \in HsSlots :
       hs[j] # Empty /\ hs[k] # Empty /\ hs[j].ip = hs[k].ip => j = k
  /\ \A j \in HsSlots : hs[j] # Empty => hs[j].age = shake[hs[j].ip]

\* While nobody can write EleEnabled = True, no sequence of requests makes a
\* session ADMIN or changes a setting that needs one.
ClosedWithoutElevation ==
  "True" \notin CfgVals["EleEnabled"] \cup {CfgDefault["EleEnabled"]} =>
    /\ \A i \in Slots : sess[i] # Free => sess[i].level = "UNPRIVILEGED"
    /\ \A k \in AdminKeys : cfg[k] = CfgDefault[k]

\* Whatever numbers are written, at least one session is allowed, sessions
\* outlive the second they were made in, a frame fits main's buffer, and
\* goodbyes and the logins of names of up to 6 letters are accepted ("Keep
\* protocol usable", main.c:36; names may have 8).
SettingsStayUsable ==
  /\ gtMaxSess \in Slots
  /\ gtTknExp > 0
  /\ gtMaxPayload <= 256
  /\ Fits(TokenPayload["ER_REQ"])
  /\ \A u \in Users : NameLen[u] <= 6 => Fits(LoginPayload(u))

-----------------------------------------------------------------------------
(* Action properties.                                                      *)

\* A login that is granted leaves no more active sessions than maxSess allows
\* at that moment, even after maxSess was lowered below the number of active
\* sessions; sessions past their expiry do not count against it.
LoginWithinLimit ==
  [][last'.kind = "SB_REQ" /\ last'.code = "SB_RESP"
       => Cardinality({i \in Slots : sess'[i] # Free}) <= gtMaxSess]_vars

\* A live session ends, and leaves its user without one, only through that
\* user: by a goodbye with its token, which until the generator is reseeded is
\* no other session's, or by the user's own login, refused while more sessions
\* are active than maxSess allows.  After a reseed another user may hold the
\* same token, and a goodbye ends the first session stLT finds it in.
LiveSessionEndsForCause ==
  [][\A i \in Slots :
       /\ sess[i] # Free
       /\ ~stTE(i)
       /\ \A j \in Slots : sess'[j] # Free => sess'[j].user # sess[i].user
       => \/ /\ last'.kind = "ER_REQ" /\ last'.by = i
             /\ \A j \in Slots \ {i} :
                  sess[j] # Free /\ sess[j].token = sess[i].token
                    => rng.seed = "fixed"
          \/ /\ \E p \in Ips : handleSBReq(p, sess[i].user)
             /\ last'.code = "MALFORMED"
             /\ Cardinality({j \in Slots : sess[j] # Free}) > gtMaxSess]_vars

\* A login is granted only to an address whose last handshake is recent
\* (PROTOspec.md:52).
LoginAfterHandshake ==
  [][\A p \in Ips :
       last'.kind = "SB_REQ" /\ last'.by = p /\ last'.code = "SB_RESP"
         => shake[p] <= HsTtlSec]_vars

\* A session is ADMIN only because that very session was: privilege comes from
\* an elevation while EleEnabled is True, and a login, also one that reuses
\* the slot of an ADMIN session, starts without it.
PrivilegeIsEarned ==
  [][\A i \in Slots :
       sess'[i] # Free /\ sess'[i].level = "ADMIN"
         => /\ sess[i] # Free
            /\ sess[i].user = sess'[i].user
            /\ sess[i].token = sess'[i].token
            /\ sess[i].level = "ADMIN" \/ cfg["EleEnabled"] = "True"]_vars

\* The configuration changes only at the request of a live session, and every
\* key but EleEnabled only at the request of an ADMIN one.
ConfigChangeIsAuthorised ==
  [][\A k \in Keys : cfg'[k] # cfg[k] =>
       \E i \in Slots :
         /\ last'.by = i
         /\ sess[i] # Free
         /\ ~stTE(i)
         /\ k # "EleEnabled" => sess[i].level = "ADMIN"]_vars
=============================================================================
