# Verification of the CTF26 programs

TLA+ models, TLC runs and TLAPS proofs for the programs of this repository.
Three systems are modelled: the Lich server with its clients (`PWN/The Lich's
Token`), the RuneISA toolchain, which assembles and runs programs (`RuneISA`,
with the machines of `PWN/DarkLegacy` and `REV/UnknownRunes`), and the journey
game with the server that plays it with many clients at once
(`REV/UnknownRunes`); and two programs that stand alone, the Ashen Choir and the
Cauldron of Balance (`REV`). Section 6 says what is not modelled, and why.

## 1. Inventory

### Lich server (C, `PWN/The Lich's Token/`)

One process, one thread. `main` accepts a connection, reads one frame, checks
it, dispatches it to one handler and closes the connection.

| Part | State | Operations |
| --- | --- | --- |
| session table, `state.c` | `stTbl[100]`, `stCnt` | `stCS` (reap, end the user's session, limit, slot), `stLT`/`stTE` (lookup, expiry), `stUA` (refresh), `stIS` (end), `stCA` |
| configuration, `config.c` | `cfgTbl` | `cfgInit`, `cfgG`, `cfgS`, `cfgCA` |
| handlers, `handlers.c` | handshake cache `hsTbl[32]` | `handleAR`, `handleSBReq`, `handleSBEle`, `handleBC`, `handleBCData`, `handleNecroGet`, `handleNecroSet`, `handleUW`, `handleER`, `disMes` |
| main loop, `main.c` | `srvRun` | frame checks, `exTok`, session lookup and refresh before dispatch |
| frames, `proto.c`; tokens, `crypto.c` | the C library's generator | `gT`, `eBCCts` (reseeds), parsers and builders |
| network, `net.c` | sockets | `nAcc`, `nRec` (timeout per chunk), `nSA`, `nC` |

The parts interact by calls within one request, and between requests through
the tables: the handlers read the configuration, the session table reads
`maxSess` and `tknExpire` from it at every use, and BoneCourier requests reseed
the generator the login tokens come from. Nothing is persisted: a restart is a
new beginning. What is hard is the order of requests of several clients and
the passing of time between them: sessions that expire but are noticed only
when something looks at them, a login that changes the table before it is
refused, settings that change under live sessions, slots that are used again.

### Lich client (Python, `PWN/The Lich's Token/client.py`)

Every request is a connection of its own: connect, send one frame, wait for
the answer with a timeout, close. `runSession` is a console that keeps the
token and the user's name between the commands a user types; `runFlow` is a
script of eight requests (handshake, login, three settings, elevation,
execution, logout). Hard: a client that gives up does not take its request
back, so the server executes requests nobody waits for, in the order the
connections were made; the answers to several requests are not looked at.

### RuneISA (Python, `RuneISA/`, `PWN/DarkLegacy/`, `REV/UnknownRunes/`)

| Part | State | Operations |
| --- | --- | --- |
| assembler, `asmISA.py` | the lines, the labels, the errors, the code emitted | `pass1`, `lineSize`, `pass2`, `encInstr` |
| machine, `customISA.py`, three copies that differ | memory, registers, stack pointer, program counter, instruction count | `loadProg`, `decodeInstr`, `execInstr`, `handleSyscall`, `run` |
| servers, `server.py` | a thread and a machine per connection | accept, `handle_client` |
| journey game, `genJourney.py` | hit points and turns in memory; texts encrypted in place | 46 scenes, three routines they all call |

The assembler is correct when its two passes agree on every address, the
machine when it does what the text of the program says, the arithmetic stays
in 24 bits and the stack in its region, and every run ends; the servers when
clients do not hold each other up. The game's fights, riddles and menus are a
graph whose paths a player, the end of the input and the limit on instructions
choose.

### Single-shot programs (C, `REV/`)

| Program | State | Operations |
| --- | --- | --- |
| Ashen Choir, `choir.c` | cursors and used voices; four words, a trace and a pass mark per voice | `parseToken`, `initState`, `dispatchVoices` with 24 voices, seven gates, `chooseOutcome` |
| Cauldron of Balance, `cauldron.c` | the attempt; heat, stability and failures of a brew | `main`'s loop, `validateMixture` with ten checks, `animateMeters` |
| `crown.c`, `guard.c`, `rune.c` | none that lasts | a sequence of checks of one input |

Sequential, without shared state. Hard: the voices of the choir sing in an order
that the earlier ones decide, through words in which each bit depends on how
the sums before it wrap, and gates at the end rely on all of them having sung;
the cauldron keeps its meters in step with its checks through animations that
clamp them, over attempts that a long line may use up unseen. The last three
programs are not modelled.

## 2. The modules

The Lich server and its clients:

| Module | What it is |
| --- | --- |
| `LichServer` | the server: tables, generator, one action per request handler, the passage of time |
| `LichPolicy` | what the server promises: a register of at most one session per user, and a configuration |
| `LichRefinement` | the mapping under which `LichServer` implements `LichPolicy` |
| `LichClaims` | what documents and comments say of the handshake cache and the code does not do |
| `LichClient` | the clients composed with `LichServer`: a queue of connections, frames in pieces, answers, clients that give up |
| `LichFrames` | one request from its payload to the handler's checks: the two readings of its token |
| `LichServerProofs` | theorems about the server, that it implements its policy, and about the two readings |
| `LichClientProofs` | theorems about the composition |
| `MCLichServer`, `MCLichRefinement`, `MCLichClaims`, `MCLichClient`, `MCLichFrames` | instances for TLC |

RuneISA:

| Module | What it is |
| --- | --- |
| `RuneISA` | words, mnemonics, encoding and decoding, arithmetic: what assembler and machine share |
| `RuneAsm` | the assembler, a step for each line of each pass |
| `RuneVM` | the machine in its three dialects, a step for each instruction |
| `RuneToolchain` | a text on its way: assembled, loaded, run |
| `RuneText`, `RuneSource` | the abstract specification: what a text means, read at once, without passes, encodings or a byte stack |
| `JourneyRoutines` | the routines of the game, `fn_print`, `fn_read_str` and `fn_check_answer`, as lines of assembly |
| `RuneLemmas` | what the operators of `RuneISA` compute, for every input: powers, bytes, words, decoding after encoding |
| `RuneProofs` | theorems about the assembler (labels, and the bytes it emits) and about the machine's types and stack |
| `RuneRefinementProofs` | the theorem that what runs does what the text says |
| `MCRuneToolchain` | the texts that are run, and the sizes they are run at |

The journey game and its server:

| Module | What it is |
| --- | --- |
| `Journey` | the scenes, for several clients at once, and the life of a connection |
| `JourneyProofs` | theorems about it |
| `MCJourney` | instances for TLC |

The two programs of `REV`:

| Module | What it is |
| --- | --- |
| `Choir` | the ritual for any classes drawn: the dispatcher, and the gates with what they compute left open |
| `ChoirWords` | the ritual at its full size with the words that are mixed, as `choir.c` and as `solve.py` compute them |
| `Cauldron` | lines, attempts, checks, and the meters frame by frame |
| `ChoirProofs`, `CauldronProofs` | theorems about `Choir`, and about `Cauldron` |
| `MCChoir`, `MCChoirWords`, `MCCauldron` | instances for TLC |

### How LichServer corresponds to the code

*A request is one step.* One thread serves one connection, reads one frame
and closes it, so nothing of another client's request happens within it. The
frame's bytes are read before anything is changed.

| Variable | Code |
| --- | --- |
| `sess` | `stTbl`; an inactive entry is `Free`, because every reader tests `isActive` first |
| `stCnt` | `stCnt`; every loop of `state.c` is bounded by it (`Used`) |
| `cfg` | `cfgTbl`, numeric settings as the number `atoi` makes of them |
| `hs` | `hsTbl`; an invalid entry is `Empty` |
| `rng` | the generator: seeded at the start or by `srand(42)`, and the tokens drawn since |
| `shake` | history: the time since each address's last accepted handshake |
| `last` | history: the last request and its answer; no action reads it |

*Tokens* are named by the seeding and their rank in it: two tokens are the
same exactly when the generator was in the same state. The 16 bytes
themselves, and the chance that two different ones collide, are left out.

*Time.* `time()` is a second counter that does not go back; every timestamp
is read only as `now - timestamp`, so it is kept as an age that `Tick`
increases. Ages stop at `MaxAge`, above every limit they are compared with
(`BoundsAssumption`, `AgesSuffice`), so that stopping changes no comparison.

*Lazy expiry.* `stTE` clears `isActive` when it looks at a session: in `stCS`
for all of them (`Reaped`), in `stLT` only for the first session with the
token (`Stale`, `refuseToken`). Until then an expired session keeps its slot.

*Refusals.* `refuseFrame` stands for everything `main` and `disMes` refuse
without touching state, `refuseToken` for a token without a live session.
`stUA` runs before the handler, so `handleBC`, `handleNecroGet`,
`handleNecroSet`, `handleUW` and requests of an unknown type refresh the
session whatever the answer (`refuseType`, `refuseKey`); elevation refreshes
it only when it is granted.

*Lengths.* `maxPayload` bounds the frames `main` accepts. Handlers have the
guard `Fits(n)` with the shortest payload that reaches them, so that a small
`maxPayload` disables exactly the requests it disables in the code. A login
carries the name (`NameLen`, at most 8 letters) and the passphrase: at the
smallest `maxPayload`, 16, names of 7 and 8 letters cannot log in. A number
written to a setting counts as one digit.

*The C library.* `srand(42); rand() % 2` is a constant of the library,
`Seed42Even`; both values are run.

*Two readings of a token.* `handleUW` compares the last 16 bytes of the
payload with the session's token, `exTok` found it after the command: `atEnd`
says whether they are the same bytes. `LichFrames` has the bytes, and shows that
no other handler reads another token than `exTok` did.

Left out of `LichServer`: the bytes of answers, `sbRes.flag`, which
`handleSBReq` leaves unset and `eSBRes` copies (only the length and content of
the answer depend on it), the copy of the command in `handleUW` (a command
`exTok` accepts ends within the buffer), `srvRun` and `stCA`, and the
connection itself, which `LichClient` has.

### How LichFrames corresponds to the code

A payload is a sequence of bytes. `placeToken` is `exTok`, `findSession` is
`stLT` by the bytes found, `handle` what the handler checks before it works:
its own reading of the payload and `stVT`. `strnlen` is the function of the C
library with the length that is left. `stage` is how far the request has come,
`sessTok` the token of the session that was found. An elevation is not read by
`exTok`; `handleSBEle` looks up the session itself. The configuration, the level
and the command are `LichServer`'s, and a request of another type, which `disMes`
refuses, is its `refuseType`. `Sends` is what `client.py` builds, with data frames
left out: `exTok` finds no token in any
(`main.c:69`).

### How LichClient corresponds to the code

`LichClient` extends `LichServer`: every step of the server is an action of
`LichServer` taken for the request at the head of the queue, so its handlers,
its time and its properties are those of the composition.

| Variable | Code |
| --- | --- |
| `token` | `sess["token"]` of the console, `token` of `runFlow` |
| `step` | the request `runFlow` has come to, or how it returned |
| `open` | the socket of `requestFrame` while the client waits |
| `queue` | connections in the order `accept` will return them, the first being served; each with its request, whether its client still waits, and the pieces of its frame that have not arrived |
| `answer` | what was sent to a client and not yet read |
| `login` | history: user and token of the last login whose answer the client saw |

`command` is a line typed at the console, `flow` the next request of the
script. `receive` is the end of `requestFrame` and what the caller does with
the answer; `giveUp` is a timeout or a connection closed without an answer: an
exception, which ends a flow and leaves the console as it is. A request given
up stays in the queue and is executed. `arrive` and `nRecFails` are the pieces
of a frame and `nRec`'s timer, which starts again with every piece; `serve` is
the rest of the loop of `main`. `nRecFails` answers `ERR_MALFORMED_PAYLOAD` or
nothing, depending on the part of the frame that is missing. `Slow` names the
requests whose frames come in pieces; all others arrive whole.

The console sets the user's name before the login is answered and keeps the
old token if it fails; the name is used for nothing but the next login, so only
the token is kept. `Typed` is what users write to `EleEnabled`; any command
may be typed at any moment when no other is under way. Left out: `get`, which
refreshes the session as a denied command does; the three BoneCourier
commands, since after them tokens repeat, which `LichServer`'s runs show;
`setToken`, with which a user may hold anybody's token; the one-shot commands
of `main`, which are a flow of one request; and the decoding for display.

### How the RuneISA modules correspond to the code

*The assembler.* `assemble` is one turn of a pass's loop: `cur` the line,
`pos` the address, `labels` and `errs` what the code calls the same. Lines are
given split into label, mnemonic, operands and literal; stripping comments and
resolving escapes come before the passes and are left out. `Upper` and
`Numeral` are the tables of what `str.upper` and `int` make of the tokens that
occur, so that a name that is a numeral too is treated as in the code.

*The machine.* `execInstr` is one turn of `run`; `Instructions` has an action
per kind of instruction, `handleSyscall` one per system call, `Crash` is any
exception, `Limit` the limit on instructions. `dialect` distinguishes
`RuneISA/Source` ("isa"), `PWN/DarkLegacy` ("legacy") and `REV/UnknownRunes`
("runes"): `NOT` and `NEG` are exchanged in the two servers' machines (`Unary`),
the stack is smaller, and system calls differ in which numbers exist, which
operands they check and whether a read is cut to its length. Words have
`WordBytes` bytes and addresses and cells `CellBytes`; in the code 3 and 8, in
the runs 2 and 3, which keeps the relation that matters: a cell is wider than
a word, so a negative word and a cell differ, and an address wraps later than
a word.

A line that is read is a sequence of characters, any numbers; `LowBytes` is what
READ_STR stores of it. An instruction is counted after it was executed, so
`EXIT` and errors are not (`CountAfter`).

*The composition.* `RuneToolchain` chooses a text, a dialect and the lines of
input (`given`), and runs them through `Assemble`, `Start` and `Execute`.
`strayed` records that the program did what its text leaves undefined. The
refinement mapping has a name for each part: `AtLine` is the line whose
instruction is at `pc`, `CellStack` the cells from the base down to `sp`, and
`PlainData` the bytes below the stack that are not code.

*The abstract specification.* In `RuneSource` a program runs from line to
line, a label is the place of its line, the stack is a sequence and data are
bytes apart from the code. `RuneText` computes places and means of the labels
from the whole text at once. `Undefined` says where the language ends: popping
more than was pushed, using the bytes of code or stack as data, and going
where no instruction was written.

### How Journey corresponds to the code

A scene is a label that `genJourney.py` writes and an action of its name;
menus are one action each, with the scene each number leads to.

| Variable | Code |
| --- | --- |
| `conn`, `ended` | the connection in `server.py`; whether the client has closed its side |
| `at` | the program counter, to the label |
| `hp`, `ehp`, `turns` | the words at 0x100000, 0x100003 and 0x100006 |
| `shown`, `said` | the texts printed that tell endings apart, and the answer given to a riddle |

`READ_INT` returns 0 at the end of the input and for what is no number, so
`Numbers` of a client that has hung up is `{0}`, which most menus lead back
from. On this machine `NOT` negates, and with `INC` it makes a negative random
word r into 1 - r: `Damage` keeps it. `mage_correct` sends every number but
1 to the dark end, so hanging up there shows the flag one has earned. In each
fight the win is looked at first: who kills the enemy and is killed in the same
round wins. The scroll's number shares 0x100006 with the bear's turns; it only
selects a text and is left out.

`accept`, `exit`, `limit` and `disconnected` are the server: a thread and a
machine per connection, both gone when it closes, however the run ended. The
reads have no timeout. (`server.py` imports `UnknownRunesVM` from a module
whose class is called `RuneVM`; the model is of the server as it is meant to
start.)

### How Choir and ChoirWords correspond to the code

`dispatchVoice(cls)` is a turn of the loop of `dispatchVoices` with the class
that the selector draws as its parameter; `Choir` lets it be any class. `cursor`,
`used`, `voiceOrder` and `classHist` are the variables and fields of these
names, `passMask` the set of the voices whose mark is 1. Whether a voice passes
depends on the token only (`voiceCore` tests `lhs`, which is of `in`), so a
token is the set of the voices that pass over it. `Passed` is where the inner
`while` leaves a cursor, `Offs` which buckets have a voice left, `Least` of it
where the `for` breaks. `chooseOutcome` draws what the gates compute from the
words, and the conditions of `Outcome` are those of the code in their order.

`ChoirWords` extends it with the words. A `uint32_t` is a pair of 16-bit halves
(`Plus`, `Times` and `rotl32` wrap as it does), a byte a number below 256 with
its `%`; the tables that the code keeps in two halves are combined. `Carry`
chooses between the two programs: `solve.py` repeats `choir.c` but for one sum
that it does not mask before rotating (`RotatedSum`). `s3` only reaches the text
that is printed and is left out, like the decryption of that text.

### How Cauldron corresponds to the code

`readLine` is `fgets` and what `main` does with the code: `unread` is the rest of
a line that did not fit, `brew` the start of `validateMixture`. `frame` is a turn
of the loop of `animateMeters`, `goal` its clamped targets; `applyCheckResult`,
`judge` and `finish` are what comes between, and can only happen when the meters
have arrived (`AtGoal`). `Results` are the ten conditions in the order of the
code; the two with `^` follow from the others, which the proof of `OneRecipe`
shows by not using them. `Cut` is `strcspn`, which also ends a code at a carriage
return. `tried` is history: the codes read so far.
`endOfInput` may come before any line.

In every module, a definition with a suffix after an underscore
(`Clamped_NoFloor`, `giveUp_Kept`, `accept_Slip`, ...) is a variant with a
plausible slip. No action uses it; each was put in the place of the definition
it is named after to see that the property it is meant for notices.

## 3. The runs

`StateView` leaves `last` out of the fingerprint, and `ClientView` also
`shake`: no action reads them, and the properties that mention them are about
steps, which TLC examines all. Every passing run but `lich_client` checks
deadlock; there everybody may stop, the users by typing nothing and the flow by
returning, so a state without successors is no error.

| Run | Question | Instance |
| --- | --- | --- |
| `sessions` | Is the table consistent and the limit kept, whatever is written to the settings? What ends a live session? | 4 users for 3 slots; `maxSess` written to -1, 1, 2 and `maxPayload` to 1; commands empty or too long |
| `policies` | Does the server implement `LichPolicy`? Is privilege earned and configuration authorised? | 2 users, 2 slots, `EleEnabled`, `maxSess` and `tknExpire` written |
| `closed` | What holds while nobody can enable elevation? Do handshakes gate logins, when are tokens shared, and what does sharing end? | 2 users, 2 addresses, cache of 2; transfers granted and too large, and the generator reseeded |
| `lich_client` | Do clients that give up, are cut off or look at nothing still act for themselves only, and are they served? | a console for 2 users and a flow, 2 slots, backlog 2, 2 tokens |
| `rune_toolchain` | Does what runs do what the text says? | 43 texts, 41 of them on all three dialects; 16-bit words |
| `lich_frames` | Do the two readings of a token agree? | every payload of up to 7 bytes over {0, 1}; tokens of 2 bytes, one with a zero |
| `choir` | Does every voice sing once, in order, whatever is drawn? | 3 buckets of 3 voices, every class at each of 9 steps, 2 tokens |
| `cauldron` | Do the meters, the verdict and the count of attempts tell the truth? | 12 lines, 3 attempts, every check and frame |
| `journey` | Do the fights, riddles and connections end as they should? | 2 clients, one of them silent |

and three that end in a counterexample: `claim_handshake`, on a server with two
addresses and a cache of two; `choir_ritual`, the full ritual of 24 voices
over the four tokens of `Solution.txt`; and `rune_negation`, the instance of
`rune_toolchain` with a property of the machine in place of the others.

The type invariants of `LichServer`, `LichClient` and `RuneToolchain` are among
the invariants of their runs; those of `LichFrames`, `Choir`, `Cauldron` and
`Journey` are theorems (section 4) and no run repeats them.

The properties, in the words of the code:

* `OneSessionPerUser`, `CountCoversActive`: logins, expiries and slot reuse in
  any order leave a user at most one session, and no active session above
  `stCnt`, where no loop would find it.
* `LoginWithinLimit`: after a granted login at most `maxSess` sessions are
  active, also when `maxSess` was lowered below their number before.
* `LiveSessionEndsForCause`: a user with a live session is left without one
  only by a goodbye with that session's token, or by a login of its own refused
  while more sessions were active than `maxSess` allows. The second is a
  consequence of `stCS` ending the user's old session before it checks the limit
  (`state.c:59-70`). The goodbye is the user's own as long as no other session
  has the token, which the property asks for until a BoneCourier request has
  reseeded the generator. After one, another user may hold the same token, and
  its goodbye ends the first session `stLT` finds, whoever's that is: no more
  can be promised then. `closed` has such shared tokens, `sessions` the table
  that is full.
* `ImplementsPolicy`: every step is one of the policy's: `Login`,
  `LoginRefused`, `Expire`, `Use`, `Elevate`, `Goodbye`, `Pass`.
* `SharedTokenNeedsReseed`: two sessions share a token only after a
  BoneCourier request. When they do, `stLT` finds the first; the refinement
  still holds, because the policy does not say whose session a token names.
* `CacheIsTrue`, `LoginAfterHandshake`: a cache entry tells the truth about its
  address, and a granted login had a handshake within `HS_TTL_SEC`.
* `ClosedWithoutElevation`, `PrivilegeIsEarned`, `ConfigChangeIsAuthorised`:
  the rules of privilege.
* `SettingsStayUsable`: whatever is written, the readers of numeric settings
  leave room for a session, a time to use it and a frame to log in with.

Of the clients:

* `HeldTokenIsOwn`: the token a client would send names no session but one of
  the user whose login it last saw answered, whatever was executed after it
  was given up. The slip that breaks it is a socket kept after a timeout.
* `FlowActsElevated`: past the elevation the flow's session is `ADMIN` or gone,
  whoever logs in as its user or turns elevation off meanwhile.
* `CompletedFlowLoggedOut`: a flow that returned 0 has left no session of its
  login, although it does not look at the answer to its logout. This is claimed
  of flows whose logout arrives whole: `runFlow` returns 0 as well when it was
  cut (and when the command was not executed), and then the session stays until
  it expires.
* `QueuedIsServed`: every request is answered or its connection closed.

Of the frames:

* `ReadingsAgree`: the handler of a request compares the very token by which its
  session was found. It refuses a request whose session was found for one of two
  reasons only: an empty key, and bytes behind the token of a command.
* `SentIsServedButData`: what the client builds for a live token gets past both
  readings and every length check, whatever zeros the token holds, except the
  data of a transfer (`doBcData`, `client.py:351-358`), which is always
  answered as malformed. The exception is the code's (`main.c:69`), not the
  protocol's (`PROTOspec.md:58`).

Of the toolchain:

* `LabelsAgree`: when the second pass comes to a label's line, it is at the
  address the first pass gave the label, as long as it has met no empty string
  literal: the passes count that one differently, as told below. The texts of `rune_toolchain` have none (`NoEmptyTexts`).
* `ImplementsSource`: a step of the machine is a step of `RuneSource`, unless
  the program strayed into what the language leaves undefined. With it the
  passes, the encoding, the decoding, the stack of bytes and the faults all
  amount to what the text says, in each dialect.
* `StackStaysInRegion`: the stack pointer of a machine that goes on stays
  within the stack or one cell past its base, also for programs that strayed.
* `TextIsRestored`, `AnswerCheckIsExact`: `fn_print` shows a text in clear and
  leaves it encrypted as it was. The riddle takes the answer and nothing shorter
  or longer, judged by what READ_STR stores: the low byte of each character.
  `server.py:18` decodes the connection as UTF-8, with a replacement character
  for what is none, so a character beyond U+00FF passes for the one whose number
  is its low byte; the texts of the run have such characters.
* `EveryRunEnds`.

Of the game:

* `BearNeverDies`: the program has no scene for a dead bear, and none is
  needed: it heals before the fourth blow. Misses and dodges are counted as
  turns, flights that fail are not.
* `OneBlowPastDeath`: both sides' hit points are looked at once a round only,
  and nobody who was dead before the round is struck in it.
* `FlagNeedsAnswer`: the mage's flag is shown to one who has defeated the
  spirit and given the right answer, and the artificer's fame to one who has
  given the other; hanging up anywhere shows nothing more.
* `ServedDespiteSilence`: a silent client holds its own thread only. That a
  game ends although menus lead back to themselves for ever is the limit's
  doing, and so `EveryRunEnds` of the toolchain, which counts instructions.

Of the choir:

* `EveryVoiceOnce`, `SearchNeverNeeded`: no class that may be drawn makes a
  voice sing twice or leaves one out, and the linear search at
  `choir.c:345-351`, which would run past the array if every voice were used, is
  dead code.
* `VoicesInTurn`: each bucket is sung in the order of its table
  (`BucketsInOrder`), and another bucket than that of the class drawn only when
  it and all between have sung out (`NearestBucket`).
* `RealNeedsEveryVoice`, which is proved and in no run: the count of passes that
  the gates read is of this token's voices.
* `SolutionTokens`: the four published tokens have the outcomes they are
  published for. The code violates it (`choir_ritual`).

Of the cauldron:

* `MetersTellFailures`: stability goes to where it has lost one for each check
  that failed, and heat rises no further than that; neither is ever held back at
  its end, so nothing of the count is lost to clamping.
* `ExplodesOnNothingRight`: `stability <= 0` says that all ten checks failed.
* `RecipeIsRewarded`: one mixture of runes is rewarded (`OneRecipe`), and it is
  rewarded whenever it is read (`RecipeIsNotRefused`): at the last attempt, or as the end of a line
  too long for the buffer.
* `AttemptsAreCodes`: malformed codes and pieces of a long line count as attempts.
* `EveryBrewIsJudged`: the animation loop, which waits for equality, ends.

### Bounds, and why they are enough

Slots, users and addresses: the hazards of the table need a hole below an
active slot, a full table and one user more than slots: three slots and four
users. The cache needs two addresses for a collision. `MaxDraws` bounds the
tokens drawn from one seeding and so, where nothing reseeds, the logins of a
behaviour: four let three users fill the table and one log in again or be
refused. Times: an expiry of 1 or 2 seconds and a handshake time of 1 let ages
below, at and above each limit occur. The proofs remove these bounds for every
property of the server.

*Clients.* Two connections in the queue let a request that was given up run
before or after one of the other client, or of the same one. Two tokens are
two logins: the console's and the flow's, which end each other's session when
they are of the same user. The flow's elevation comes in pieces, so that it can be cut at
the one request whose answer decides how it goes on. The proofs remove these
bounds but for `QueuedIsServed`.

*Toolchain.* The texts cover every mnemonic, directive, system call, way to
be refused and way to fault, the corners of the arithmetic (both signs, the
ends of the range), a label that is hidden by a later one or named like a
number, recursion without end, and what the language leaves undefined.
`MaxInstrs` is above the length of every run but those that never end.

*Game.* The words -1, 7 and 11 make every blow fall or miss and hurt little or
much; the hit points are smaller than the game's, so that every fight is won
and lost in a few rounds, but those of the bear are the game's (120 and 100):
the property about it is one of numbers. The proofs hold for all of them.

*Frames.* Seven bytes hold a key, a value and a token of two bytes, each part
empty, full or cut; one token holds a zero, which looks like the end of a text.

*Choir.* Three buckets of three are the smallest in which a bucket runs out and
the one after it does too before the last voice. The words are those of the code.

*Cauldron.* The lines are wrong in the first rune, the last, one half or all,
malformed in length or in a rune, and longer than the buffer; the numbers of
attempts and checks are the code's.

### What the code does otherwise than it says

Three runs end in a counterexample:

* `claim_handshake`: `markHs` starts `oldest` at `now` (`handlers.c:81`), so
  the first valid entry is always old enough and the first slot is taken for
  every new address; "an empty/old slot" (`handlers.c:83`) is not looked for.
  The cache of 32 entries remembers one address.
* `choir_ritual`: `choir.c` denies all four tokens of `Solution.txt`, the one of
  line 10 among them ("Canonical real token"). The constants of the gates fit
  `solve.py`, whose sum at line 164 keeps a carry that `choir.c:261` drops; from
  the first such sum on all words differ. With `Carry = TRUE` in place of `FALSE`
  TLC finds `SolutionTokens` true.
* `rune_negation`: `ISAspec.md:63` says that NOT complements and `:80` that NEG
  negates, and `:3` that this is the instruction set of Unknown Runes and A Dark
  Legacy. The machines of both do it the other way round
  (`PWN/DarkLegacy/Server/util.py:430` and `503`,
  `REV/UnknownRunes/Server/customISA.py:293` and `366`); only
  `RuneISA/Source/customISA.py` does as specified. `journey.asm:230-231` negates
  with NOT and INC, which gives 1 - r there. `RuneSource` says it in one
  place, `Meant`: on the two machines each of the mnemonics means the other.

Seen while modelling, without a run: an unprivileged command is answered with
`ERR_CMD_DENIED` (`handlers.c:383`) where PROTOspec.md:132 says 0x0003; an
expired token with `ERR_UNAUTHORIZED` (`main.c:205`) where PROTOspec.md:144
has 0x0005; configuration is global where PROTOspec.md:123 speaks of a
configuration per session; a `maxPayload` of 16 to 30 leaves no frame with
which to raise it (`main.c:36` says "Keep protocol usable"). `eBCCts` reseeds the
generator with 42 (`proto.c:174`), so users who log in after it get tokens that
were drawn before; "random" (`crypto.h:17`) they are not, and
`SharedTokenNeedsReseed` is as much as holds. `exTok` compares `payloadLen` with
itself plus 32 (`main.c:69`): a granted transfer cannot continue
(`PROTOspec.md:58`), and the client's `bcsend` always fails, which
`SentIsServedButData` states. `lineSize` is to count
the bytes a line contributes (`RuneISA/Source/asmISA.py:156`), but counts none for
an empty `.DS`, for which `pass2` emits one: every later label is one byte short,
hence the hypothesis `NoEmptyTexts`. `SOLUTION.md:23` promises a flag for the
artificer's answer; the scene prints `s_a_correct` and `s_a_fame`, and `s_a_flag`
(`genJourney.py:279`) is printed nowhere.

### Fairness

* `LichServer` has none: all its properties are safety properties, and nothing
  obliges clients to send.
* `LichClient`: weak fairness of `nextConnection`, which is `nRecFails` or
  `serve`: the server's one thread goes on, and `select` returns after its
  timeout if nothing arrived. Weak fairness of `takeAnswer(c)`: a client that was
  sent something, or whose connection was closed, reads it. Nothing is assumed
  of pieces under way, of users, or of clients' timeouts. A bounded number of
  pieces per frame (`MaxPieces`) matters here: a client that sends a byte at a
  time for ever would restart `nRec`'s timer for ever and hold the server,
  except that a frame is finite, which is what the bound stands for.
* `RuneToolchain`: weak fairness of `assemble`, `Start` and `run`: one thread
  does them all.
* `Journey`: weak fairness of `accept(c)`, `play(c)` and `exit(c)`: the accept
  loop and each thread go on when they can. `play` of a client that is silent is
  not enabled, as its read blocks. Nothing is assumed of `limit(c)`: the
  machine's count of instructions is not in this model, so a game may go round
  its menus for ever here; `RuneToolchain` has the count (`EveryRunEnds`).

* `Choir` and `LichFrames` have none: all their properties are safety properties.
* `Cauldron`: weak fairness of `validateMixture`, which runs by itself once a code
  was accepted; nothing is assumed of what is typed.

## 4. The proofs

Every theorem is proved from the named assumptions about the constants only.

`LichServerProofs`:

| Theorem | Statement |
| --- | --- |
| `TypeCorrect` | `[]TypeOK` |
| `SessionsCorrect` | `[](CountCoversActive /\ OneSessionPerUser)` |
| `CountCorrect` | `[]CountCoversActive` |
| `TokensCorrect` | `[]SharedTokenNeedsReseed` |
| `SettingsCorrect` | `[]SettingsStayUsable` |
| `PrivilegeCorrect` | `PrivilegeIsEarned` |
| `ConfigCorrect` | `ConfigChangeIsAuthorised` |
| `ClosedCorrect` | `[]ClosedWithoutElevation` |
| `CacheCorrect`, `HandshakeCorrect` | `[]CacheIsTrue`, `LoginAfterHandshake` |
| `LimitCorrect` | `LoginWithinLimit` |
| `LiveSessionsCorrect` | `LiveSessionEndsForCause` |
| `PolicyCorrect` | `ImplementsPolicy` |
| `FrameTypeCorrect` | `[]FrameTypeOK`, of `LichFrames` |
| `ReadingsCorrect`, `SentCorrect` | `[]ReadingsAgree`, `[]SentIsServedButData` |

`LichClientProofs`:

| Theorem | Statement |
| --- | --- |
| `ServerCorrect` | `ClientSpec => Spec`, the server's specification |
| `ClientTypeCorrect` | `[]ClientTypeOK` |
| `HeldCorrect` | `[]HeldTokenIsOwn` |
| `FlowElevatedCorrect` | `[]FlowActsElevated` |
| `FlowLogoutCorrect` | `[]CompletedFlowLoggedOut` |

Of the toolchain:

| Theorem | Module | Statement |
| --- | --- | --- |
| `StackCorrect` | `RuneProofs` | `[]StackStaysInRegion` |
| `TypeCorrect` | `RuneProofs` | `[]TypeOK` |
| `LabelsCorrect` | `RuneProofs` | `[]LabelsAgree` |
| `AssemblesTheText` | `RuneProofs` | `NoEmptyTexts` implies `[]TextInv` |
| `DecodesWhatWasEncoded` | `RuneLemmas` | `fetchInstr` after `encInstr` |
| `RunsItsText` | `RuneRefinementProofs` | `NoEmptyTexts` implies `ImplementsSource` |

`JourneyProofs`:

| Theorem | Statement |
| --- | --- |
| `TypeCorrect` | `[]TypeOK` |
| `BearCorrect` | `[]BearNeverDies` |
| `BlowsCorrect` | `[]OneBlowPastDeath` |
| `FlagCorrect` | `[]FlagNeedsAnswer` |

`ChoirProofs`:

| Theorem | Statement |
| --- | --- |
| `TypesKept` | `[]TypeOK` |
| `EachVoiceSingsOnce`, `NoSearch` | `[]EveryVoiceOnce`, `[]SearchNeverNeeded` |
| `TurnsKept` | `[]VoicesInTurn` |
| `RealTokens` | `[]RealNeedsEveryVoice` |

`CauldronProofs`:

| Theorem | Statement |
| --- | --- |
| `TypesKept` | `[]TypeOK` |
| `MetersCorrect`, `ExplosionMeansNothingRight` | `[]MetersTellFailures`, `[]ExplodesOnNothingRight` |
| `TheRecipeAlone` | `[]RecipeIsRewarded` |
| `AttemptsCountCodes` | `[]AttemptsAreCodes` |

### The server

Two lemmas carry the argument. `TableEffect`: every step but a login with good
credentials keeps the sessions, that is, adds none and changes no user or
token, and raises a level only while elevation is enabled. `LoginEffect`: a
login leaves each session as it was or gone, none of them of its user, and
adds at most one, in a slot that was free.

* `OneSessionPerUser` is not inductive alone: `stCS` looks for the user's old
  session below `stCnt` only, so the invariant includes that active sessions
  are there (`CountCoversActive`).
* `SharedTokenNeedsReseed` is strengthened to `DrawnBefore`: while the
  generator is in its first seeding, every active token was drawn from it and
  its rank is at most the number drawn; the next token is therefore new.
* `ClosedWithoutElevation` needs that `EleEnabled` is not `True` and that all
  sessions are unprivileged together: each is kept by the other.
* `CacheIsTrue` is inductive with the types; `LoginAfterHandshake` follows.
* `LoginWithinLimit`: the slots active after a login are those active in the
  cleared table and the new one (`SlotSets`: sets of slots are finite, and a
  subset is no larger). It needs `CountCoversActive`, for `stCS` counts below
  `stCnt` only.
* `LiveSessionEndsForCause`: `LiveStays` (only a goodbye or a login frees the
  slot of a live session) and `LoginSpares` (a login spares another user's
  session, and a refused one of its own user had more sessions than the limit,
  for the sessions left without the user's own still fill it). That a goodbye is
  with a token no other session has, until a reseed, is `SharedTokenNeedsReseed`.

### The server and its policy

`IsRegister` relates a table of sessions and a register. A table has one
register (`RegisterUnique`), and by `OneSessionPerUser` the register of the
refinement is that of the table (`RegisterRead`), so that for each step it is
enough to show that the policy's next register is one of the next table. A
request of a session changes one slot and so one entry (`SlotStep`,
`SessionRequestStep`). For a login, what `stCS` has cleared is what the policy
clears (`ClearedRegister`), and there are as many users in the one as active
sessions in the other (`SameNumber`, a bijection), so that both find room or
neither does. `RegisterAssumption`, that `Free` is no entry, is the one
assumption added.

### The two readings of a token

`FrameInv` says how far a request has come: by its token (`ByItsToken`) or
without a session. What carries it are facts about payloads of any length. `StrnlenIs`
says what `strnlen` returns, the least of a set, and `TextEnds` that a text
without a zero is what it finds; `SecondReading` that each handler reads where
`exTok` did; `OneText` and `TwoTexts` where the fields of what the client
concatenates lie, from which `SentIsFound` and `SentIsTaken` follow. A command
is the one case in which the readings may differ: there `exTok` and `handleUW`
agree exactly when nothing follows the token. Of the constants only that 0 is
a byte and a token has at least one (`FrameAssumption`).

### The server and its clients

`ServerCorrect` shows every step of the composition to be one of `LichServer`
or a stutter, so that all theorems about the server hold with these clients,
their queue and their timeouts.

`AllInv` is the inductive invariant. Of the server it needs `DrawnBefore`, and
that the generator is in its first seeding, since none of these clients sends a
BoneCourier request. Then a token that has been drawn (`Past`) is never drawn
again, and what its sessions are they remain: sessions of the same user, gone
once they are gone, `ADMIN` once they are `ADMIN` (`PastStays`). Of the
connections: one that is open is that of the one client who waits, with
the request it waits for (`ConnInv`), so an answer always belongs to the request under
way. Of each client: the token it holds, or is being sent, is past and of its
login (`HoldInv`, `AnswerInv`), and what a flow's step says of its session
(`FlowInv`). A login under way while another answer arrives is the case that
needs them together.

### The stack

The stack pointer changes only by instructions that check each cell they move
(`StackMoves`). A pop may read the last cell and end one past it; there the next
is refused. That memory and stack lie three cells apart (`SizesAssumption`) is
what keeps the check of a cell from taking memory for stack when three are
pushed. Nothing is assumed of programs, inputs or the code they overwrite.

`TypeCorrect` rests on `MachineType`, which together with `StackInv` and
`AsmInv` is inductive. Its heart is that whatever lies in memory, data or
overwritten code included, the instruction fetched has fields that are
registers or the none byte and an immediate that is a word, so that what is
computed from it is a word (`FetchedType`, `ResultType`), and that after an
instruction that was fetched within memory `pc` is still an address
(`NextInstruction`).

### The assembler

Induction over data is done on sets: a set of numbers that has 0 and with each
number the next has all of them, which is a statement without an operator as
parameter and so one the provers can use. In `RuneLemmas` what recursive
functions and folds compute is derived from it: `LE` of `Bytes` is the number
modulo the number of its values, a flattened sequence has its pieces one after
the other, and the machine decodes what the assembler encodes
(`DecodesWhatWasEncoded`), for any number of bytes in a word.

* `LabelsAgree` needs to know of the first pass what it will have counted:
  `AsmInv` says that in the first pass `pos` and the labels are the sums of the
  line sizes so far (`Positions`, `LabelsOf`), and in the second that `pos` is
  both that sum and the number of bytes emitted. `LineEmitted`, with a case for
  each kind of line, is what makes it inductive: a line without errors emits as
  many bytes as the first pass counts for it, unless its text is empty.
* `AssemblesTheText` says what those bytes are. `TextInv`: no line done
  is in error exactly when all of them are well formed as `RuneText` has it, and
  then the instructions are encoded at their places with the meanings of their
  operands, and every other byte is the data of the text. The lemmas on its way: the assembler's resolution of an
  operand (a label as written, the label in capitals, a number) is its meaning
  (`Resolved`), a line is free of errors exactly when it is well formed
  (`LineMeaning`), and places grow, so that what one line emits leaves the
  others alone (`PlacesGrow`, `LinesApart`).

### Running a text

`RunsItsText` is the theorem that puts the toolchain together: the two passes,
loading, decoding, the stack of bytes and the checks do what `RuneSource` says
of the text, step by step. The invariant is `SimInv` with those before: while the
program has not strayed, the bytes of the instructions are those that were
emitted, and the stack is a whole number of cells. Neither holds of a program
that strayed, and then `ImplementsSource` promises nothing, as the language does
not. `Going` is a machine that runs and does not stray in this step; from it:

1. The instruction fetched at `pc` is the one written on line `AtLine`
   (`TextRuns`, `NowFits`, `Fetched`): by `TextInv`, by `SimInv` and by
   `DecodesWhatWasEncoded`.
2. The machine faults exactly when the text's instruction fails
   (`FaultsAreFailures`): bytes outside memory, a stack that is full or was
   popped at its base, a division by zero, a register that is none.
3. Each instruction and each system call of the machine is that of the text, a
   lemma for each (`Moves`, `Loads`, `PushesCells`, `Calls`, `ReadsText`, ...). They
   use that the bytes of data can be read and written without touching code or
   stack (`DataRead`, `DataWritten`), and that pushing and popping bytes is
   pushing and popping cells (`CellsPushed`, `CellsPopped`).
4. The two other ends of a run, an error and the limit, are those of the text
   (`StopsToo`), and so is its beginning (`Begins`).

The hypothesis `NoEmptyTexts` is where the two passes agree; `MCRuneToolchain`
assumes it of its texts, so that TLC evaluates it. Of the constants: texts are
sequences of lines and numerals are integers (`TextsAssumption`), programs
name texts and dialects (`ProgramsAssumption`), a cell is wider than a word
(`WordBytesAssumption`, `CellBytesAssumption`), the code fits in memory
and three cells lie between memory and stack (`SizesAssumption`: in the code
1 MiB of code, 4 GiB of memory, and a stack in the last 16 or 1 MiB of 64-bit
addresses), and random words are words (`ResultsAssumption`).

### The game

`FightInv` is inductive: within the bear's fight `ehp > 42 - 14 * turns`, and
`turns` is at most 3, from which the bear survives; in each fight, how far below
zero both sides may be at each scene of the round. `StoryInv` says for each
scene which texts have been shown and what was said; `FlagNeedsAnswer` follows.
The hit points and the random words are arbitrary, but for a bear that
outlasts three blows of 14.

### The choir

`SungInv` is the heart: in each bucket the voices below the cursor are the
used ones. From it `Passed` is the cursor itself (`PassedIsCursor`), so the inner
loop of the selector never has anything to pass; a turn is then of the voice at
the cursor of the first bucket that has one (`Turn`). That there is one while a
step is left is by counting: as many voices are used as steps were done
(`BucketLeft`). `BucketsInOrder` and `NearestBucket` are statements about the two
histories, kept as they grow (`TurnHistories`); all that is assumed of the
buckets is that each voice has one place in them (`BucketsAssumption`).

### The cauldron

`MetersTellFailures` is inductive once the types are: a check that fails is
one more element of a set (`OneMore`), and neither target is clamped because the
heat is at most the failures and the stability ten less them (`Goals`).
`failCount` is zero exactly when no check failed and ten exactly when all did
(`CountIsZero`, `CountIsAll`), which makes the verdict right (`VerdictInv`).
`OneSolution` is the arithmetic: of the seven checks without `^`, six leave
`ember` five values, and `% 26` one of them. `TriedInv` counts codes against
attempts.

### Only model-checked

`TextIsRestored` and `AnswerCheckIsExact` are about routines of some forty
instructions, with loops over the words of a text, run on given texts and
inputs. `RunsItsText` covers each step of them. For the properties themselves one
would need an invariant for every line of the two routines and, under the loops,
that folding XOR over a text twice restores it for a text of any length and any
two words, a statement about a bitwise sum of powers that the provers cannot
reach by induction over data.

`SolutionTokens` is a computation on four given tokens, in a module that uses the
bitwise operators of the library, and those are recursive. The liveness properties
(`QueuedIsServed`, `EveryRunEnds`, `ServedDespiteSilence`, `EveryBrewIsJudged`) and the three
claims, which fail (`HandshakeRemembered`, `SolutionTokens`, `NegationAsSpecified`), are TLC's alone. Liveness
under fairness, ENABLED and recursive operators are out of the prover's reach.

## 5. Plan

Built: the server, its policy, claims, frames and proofs; its clients; the
toolchain with its abstract specification; the game with its server; the choir and
the cauldron with their proofs. What would come next, in this order:

1. `fn_print` as a theorem about any text, from `RunsItsText`.
2. The step of `LichClient` that frees the server's thread, as the action
   property its liveness rests on.
3. `Crown`: the order of its checks.

## 6. Not modelled

* Headers, hashes and base64 (`proto.c`, `crypto.c`): layouts of bytes, pure
  functions of one frame. What a frame that does not parse leads to is
  `refuseFrame`. In `LichServer` whether `handleUW` and `exTok` read the same
  token is an input (`atEnd`); `LichFrames` derives it from the payload.
* Sockets (`net.c`): the partial sends of `nSA` and the set-up in `nInt`.
* Shutdown of the Lich server: `srvRun` and `stCA`, which ends all sessions when the
  process ends anyway.
* Of the client: what section 2 lists.
* `Legacy.asm`: a program for the legacy machine. Its instructions and system
  calls are among those `rune_toolchain` runs on that dialect; it is one input
  and keeps no state.
* The server of `PWN/DarkLegacy`: the structure of the one that is modelled, a
  thread and a machine per connection.
* `crown.c`, `guard.c`, `rune.c`: programs of one input without concurrency, time
  or stored state, each a sequence of pure checks.
* The texts that choir and cauldron decrypt and print, and `s3`, which only they
  depend on.
* Debugging dumps, the texts of `SYS`, and the scripts that solve the challenges.
