----------------------------- MODULE LichFrames -----------------------------
(***************************************************************************)
(* Where the server of LichServer finds the token in a payload: exTok of   *)
(* main.c reads it to look up the session, and the handler reads it once   *)
(* more to compare it with the session's.  The two readings are different  *)
(* code for every kind of request.                                         *)
(*                                                                         *)
(* One request is followed, from its payload to the handler's checks.      *)
(* Places are counted from 0 as in the code, bytes of a payload from 1.    *)
(***************************************************************************)
EXTENDS Integers, Sequences

CONSTANTS Byte,
          TokenSize, HashSize, SizeBytes,  \* 16, 16 and 4 in the code
          PayloadLimit,                    \* MAX_PAYLOAD_LEN, 256
          LiveTokens                       \* the tokens of the sessions

ASSUME FrameAssumption ==
    /\ 0 \in Byte
    /\ TokenSize \in Nat \ {0} /\ HashSize \in Nat /\ SizeBytes \in Nat /\ PayloadLimit \in Nat
    /\ LiveTokens \subseteq [1 .. TokenSize -> Byte]

FrameKinds == {"SB_ELEVATE", "BC_RTS", "BC_DATA", "NW_GETCFG", "NW_SETCFG", "UW_EXEC", "ER_REQ"}
Nowhere == -1

VARIABLES message,  \* the kind and the payload of the request
          stage,    \* "received", "placed", "resolved", "replied"
          place,    \* where exTok found a token
          sessTok,  \* the token of the session
          reply     \* "", "served", "MALFORMED", "UNAUTHORIZED"

frameVars == <<message, stage, place, sessTok, reply>>

----------------------------------------------------------------------------
(* Texts in a payload *)

First(S) == CHOOSE n \in S : \A m \in S : n <= m

\* How many bytes of p from a place on come before a zero, or are left.
strnlen(p, from) ==
    First({n \in 0 .. Len(p) - from : n = Len(p) - from \/ p[from + n + 1] = 0})

\* Whether the text at a place ends within p, and where the next field begins.
Ends(p, from) == strnlen(p, from) < Len(p) - from
After(p, from) == from + strnlen(p, from) + 1

BytesAt(p, from) == [i \in 1 .. TokenSize |-> p[from + i]]
HoldsToken(p, from) == from + TokenSize <= Len(p)

----------------------------------------------------------------------------
(* exTok *)

Found(p, from) == IF HoldsToken(p, from) THEN from ELSE Nowhere

\* Slip: an approval's or a setting's token is looked for after the key.
TokenAfterTwo_Key(p) == IF Ends(p, 0) THEN Found(p, After(p, 0)) ELSE Nowhere
TokenAfterOne(p) == IF Ends(p, 0) THEN Found(p, After(p, 0)) ELSE Nowhere
TokenAfterTwo(p) ==
    IF Ends(p, 0) /\ Ends(p, After(p, 0)) THEN Found(p, After(p, After(p, 0))) ELSE Nowhere

\* A data frame is asked to be longer than it is.
exTok(kind, p) ==
    CASE kind = "BC_RTS" -> Found(p, SizeBytes)
      [] kind = "BC_DATA" -> IF Len(p) < Len(p) + HashSize + TokenSize THEN Nowhere
                             ELSE Len(p) - TokenSize
      [] kind = "NW_SETCFG" -> TokenAfterTwo(p)
      [] kind \in {"NW_GETCFG", "UW_EXEC"} -> TokenAfterOne(p)
      [] kind = "ER_REQ" -> Found(p, 0)

----------------------------------------------------------------------------
(* The handlers: what they answer to a payload, given the session's token *)

Compared(p, from) == IF BytesAt(p, from) = sessTok THEN "served" ELSE "UNAUTHORIZED"

\* It looks up the session itself; the configuration and the request's text
\* are looked at after these checks.
elevateReply(p) ==
    IF Len(p) < TokenSize + 2 THEN "MALFORMED"
    ELSE IF BytesAt(p, 0) \notin LiveTokens THEN "UNAUTHORIZED"
    ELSE IF strnlen(p, TokenSize) = 0 \/ ~Ends(p, TokenSize) THEN "MALFORMED"
    ELSE "served"

bcReply(p) == IF HoldsToken(p, SizeBytes) THEN Compared(p, SizeBytes) ELSE "MALFORMED"

\* MAX_CHUNK_SIZE is MAX_PAYLOAD_LEN, so no frame holds too long a chunk.
bcDataReply(p) ==
    IF Len(p) < HashSize + TokenSize THEN "MALFORMED" ELSE Compared(p, Len(p) - TokenSize)

necroGetReply(p) ==
    IF strnlen(p, 0) = 0 \/ ~Ends(p, 0) \/ ~HoldsToken(p, After(p, 0)) THEN "MALFORMED"
    ELSE Compared(p, After(p, 0))

necroSetReply(p) ==
    LET pos == After(p, 0)
    IN IF strnlen(p, 0) = 0 \/ ~Ends(p, 0) THEN "MALFORMED"
       ELSE IF ~Ends(p, pos) \/ ~HoldsToken(p, After(p, pos)) THEN "MALFORMED"
       ELSE Compared(p, After(p, pos))

\* Slip: an empty command is refused.
uwReply_NotEmpty(p) ==
    IF Len(p) > TokenSize + 1 THEN Compared(p, Len(p) - TokenSize) ELSE "MALFORMED"
\* The token is the end of the payload.
uwReply(p) == IF Len(p) >= TokenSize + 1 THEN Compared(p, Len(p) - TokenSize) ELSE "MALFORMED"

ReplyTo(kind, p) ==
    CASE kind = "SB_ELEVATE" -> elevateReply(p)
      [] kind = "BC_RTS" -> bcReply(p)
      [] kind = "BC_DATA" -> bcDataReply(p)
      [] kind = "NW_GETCFG" -> necroGetReply(p)
      [] kind = "NW_SETCFG" -> necroSetReply(p)
      [] kind = "UW_EXEC" -> uwReply(p)
      [] kind = "ER_REQ" -> "served"

----------------------------------------------------------------------------
(* One request *)

FrameInit ==
    /\ message \in [kind : FrameKinds, payload : UNION {[1 .. n -> Byte] : n \in 0 .. PayloadLimit}]
    /\ stage = "received" /\ place = Nowhere /\ sessTok = <<>> /\ reply = ""

placeToken ==
    /\ stage = "received" /\ message.kind # "SB_ELEVATE"
    /\ place' = exTok(message.kind, message.payload)
    /\ IF place' = Nowhere THEN stage' = "replied" /\ reply' = "MALFORMED"
       ELSE stage' = "placed" /\ UNCHANGED reply
    /\ UNCHANGED <<message, sessTok>>

findSession ==
    /\ stage = "placed"
    /\ LET tok == BytesAt(message.payload, place)
       IN \/ /\ tok \in LiveTokens
             /\ stage' = "resolved" /\ sessTok' = tok /\ UNCHANGED reply
          \/ /\ tok \notin LiveTokens
             /\ stage' = "replied" /\ reply' = "UNAUTHORIZED" /\ UNCHANGED sessTok
    /\ UNCHANGED <<message, place>>

handle ==
    /\ stage = "resolved" \/ (stage = "received" /\ message.kind = "SB_ELEVATE")
    /\ stage' = "replied"
    /\ reply' = ReplyTo(message.kind, message.payload)
    /\ UNCHANGED <<message, place, sessTok>>

FrameNext == placeToken \/ findSession \/ handle \/ (stage = "replied" /\ UNCHANGED frameVars)

FrameSpec == FrameInit /\ [][FrameNext]_frameVars

----------------------------------------------------------------------------
(* Properties *)

\* What client.py sends for a request: its texts are without a zero, and the
\* key and the request for elevation are not empty.  A chunk is any bytes; its
\* hash is as long as HashSize and not looked at before the token is found.
Text == UNION {[1 .. n -> Byte \ {0}] : n \in 0 .. PayloadLimit}
Chunk == UNION {[1 .. n -> Byte] : n \in 0 .. PayloadLimit}
TextThen(c, t) == c \o <<0>> \o t
TwoTextsThen(k, v, t) == k \o <<0>> \o v \o <<0>> \o t
Sends(kind, p, t) ==
    \/ kind = "SB_ELEVATE" /\ \E r \in Text \ {<<>>} : p = t \o r \o <<0>>
    \/ kind = "BC_RTS" /\ \E size \in [1 .. SizeBytes -> Byte] : p = size \o t
    \/ kind = "BC_DATA" /\ \E chunk \in Chunk, hash \in [1 .. HashSize -> Byte] :
                              p = chunk \o hash \o t
    \/ kind = "NW_GETCFG" /\ \E k \in Text \ {<<>>} : p = TextThen(k, t)
    \/ kind = "NW_SETCFG" /\ \E k \in Text \ {<<>>}, v \in Text : p = TwoTextsThen(k, v, t)
    \/ kind = "UW_EXEC" /\ \E c \in Text : p = TextThen(c, t)
    \/ kind = "ER_REQ" /\ p = t

\* A token that is found lies within the payload.
FrameTypeOK ==
    /\ message.kind \in FrameKinds /\ message.payload \in Seq(Byte)
    /\ stage \in {"received", "placed", "resolved", "replied"}
    /\ place = Nowhere \/ (place \in Nat /\ HoldsToken(message.payload, place))
    /\ sessTok = <<>> \/ sessTok \in LiveTokens
    /\ reply \in {"", "served", "MALFORMED", "UNAUTHORIZED"}

\* Once a session was found by the token of a request, its handler reads the
\* same token: it refuses the request for an empty key, or when something
\* follows the token of a command, and for nothing else.
ReadingsAgree ==
    (stage = "replied" /\ sessTok # <<>>) =>
        /\ reply = "MALFORMED" =>
               message.kind \in {"NW_GETCFG", "NW_SETCFG"} /\ message.payload[1] = 0
        /\ reply = "UNAUTHORIZED" =>
               message.kind = "UW_EXEC" /\ place + TokenSize < Len(message.payload)

\* What the client sends with a live token reaches the work of its handler,
\* whatever bytes the token has: all but its data (doBcData), which exTok
\* refuses for want of length (main.c:69), against PROTOspec.md:58.
SentIsServedButData ==
    stage = "replied" =>
        ((\E t \in LiveTokens : Sends(message.kind, message.payload, t))
            => reply = IF message.kind = "BC_DATA" THEN "MALFORMED" ELSE "served")
============================================================================
