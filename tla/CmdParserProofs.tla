--------------------------- MODULE CmdParserProofs ---------------------------
(***************************************************************************)
(* Proofs about CmdParser for every limit of the SDK, on both chips, and   *)
(* for lines of any length: whatever the order and number of the options,  *)
(* a command that is accepted has parameters in range and complete, and    *)
(* only the host of a ping that succeeded stays allocated.                 *)
(***************************************************************************)
EXTENDS CmdParser, TLAPS

Phases == {"prompt", "options", "checks", "accepted", "rejected"}

\* What each parser keeps about its parameters from one word to the next.  Where a value out of
\* range asks for the usage the range holds as long as nothing has.
Ranges ==
  /\ cmd = "scan" => p.n \in 0..MAX_SSID_ENTRIES
  /\ cmd = "startap" => p.c \in 0..255 /\ p.txp \in 0..15 /\ p.l \in 1..4
  /\ cmd = "wowlan" => (~help => p.v \in 0..16)
  /\ cmd = "ping" => p.c \in 1..(MAX_PING_SIZE - 1)
  /\ cmd = "mdnsAdv" => p.ttl # 0
  /\ cmd = "triggered" => (~help => p.r \in -85..0)
  /\ cmd \in {"send", "recv"} => p.p \in Int16s /\ p.n \in Int

\* A line that names a client has copied its address.
ClientInv ==
  cmd \in {"send", "recv"} =>
    /\ p.server \in BOOLEAN
    /\ at # "prompt" /\ p.server = FALSE =>
         p.ip \in {"ipv4", "ipv6", "bad"} /\ "ip" \in heap

\* Every block is one the command gives back.
HeapInv == heap \subseteq Freed

Shape ==
  /\ cmd \in Commands /\ at \in Phases /\ DOMAIN p = DOMAIN Defaults[cmd]
  /\ help \in BOOLEAN /\ read \in 0..MaxOptions

ParserInv ==
  /\ Shape /\ Ranges /\ ClientInv /\ HeapInv /\ OnlyPingLeaks
  /\ AcceptedInRange /\ AcceptedComplete

-----------------------------------------------------------------------------
(* The tables of the options.                                              *)

\* The commands.
LEMMA CommandNames ==
  Commands = {"scan", "setpolicy", "profile", "getprofile", "connect", "startap", "plain",
              "filter", "wowlan", "ping", "mdnsAdv", "mdnsQuery", "send", "recv", "soft",
              "country", "triggered"}
BY DEF Commands, Syntax

\* The parameters a line starts with.
LEMMA DefaultFields ==
  /\ Defaults["scan"] = [n |-> 0, ext |-> FALSE]
  /\ Defaults["startap"] =
       [s |-> NULL, p |-> NULL, t |-> NULL, h |-> FALSE, c |-> 1, txp |-> 0, l |-> 4,
        isSupportedChannel |-> FALSE]
  /\ Defaults["wowlan"] = [v |-> 0, i |-> 0, u |-> 0, wowStr |-> FALSE, actionID |-> FALSE]
  /\ Defaults["ping"] = [h |-> NULL, c |-> 10, i |-> 1000, s |-> 56, t |-> 3000]
  /\ Defaults["mdnsAdv"] =
       [n |-> NULL, st |-> NULL, so |-> NULL, t |-> NULL, p |-> 2525, ttl |-> DEF_ADVERTISE_TTL]
  /\ Defaults["send"] =
       [udp |-> FALSE, server |-> TRUE, ipv6 |-> FALSE, nb |-> FALSE, p |-> 0, ip |-> NULL,
        n |-> 1000]
  /\ Defaults["recv"] =
       [udp |-> FALSE, server |-> TRUE, ipv6 |-> FALSE, nb |-> FALSE, p |-> 5001, ip |-> NULL,
        n |-> 1000]
  /\ Defaults["triggered"] = [r |-> -63]
BY DEF Defaults

\* The options of the commands whose numbers are converted, and the arguments of each.
LEMMA SyntaxFields ==
  /\ Syntax["scan"] = [n |-> {0, 5, 300}, ext |-> {}]
  /\ Syntax["startap"] =
       [s |-> {31, 32}, p |-> {6, 7, 64}, t |-> Security, h |-> YesNo, c |-> {0, 6, 36, 269},
        txp |-> {3, 16, 259}, l |-> {0, 4, 258}]
  /\ Syntax["wowlan"] = [v |-> {-1, 0, 1, 17, 18}, i |-> {3}, u |-> {1}]
  /\ Syntax["send"] =
       [u |-> {}, s |-> {}, V |-> {}, nb |-> {}, p |-> {0, 5001, 40000},
        c |-> {"ipv4", "ipv6", "bad"}, n |-> {-1, 0, 2}]
  /\ Syntax["recv"] =
       [u |-> {}, s |-> {}, V |-> {}, nb |-> {}, p |-> {0, 5001, 40000},
        c |-> {"ipv4", "ipv6", "bad"}, n |-> {-1, 0, 2}]
  /\ Syntax["triggered"] = [r |-> {-86, -60, 1, 65476}]
BY DEF Syntax

\* int16_t holds the numbers between its bounds, among them the ports a transfer starts with.
LEMMA Int16Numbers == Int16s \subseteq Int
BY DEF Int16s

\* The ports a transfer starts with are.
LEMMA Int16Ports == 0 \in Int16s /\ 5001 \in Int16s
BY DEF Int16s

\* Every number between its bounds is one.
LEMMA Int16Bounds == \A n \in Int : -32768 <= n /\ n <= 32767 => n \in Int16s
<1> DEFINE low == -32768
           high == 32767
<1>2. low \in Int /\ high \in Int /\ Int16s = low..high
  BY DEF Int16s
<1>3. \A n \in Int : -32768 <= n /\ n <= 32767 => low <= n /\ n <= high
  OBVIOUS
<1> HIDE DEF low, high
<1>4. \A n \in Int : low <= n /\ n <= high => n \in Int16s
  BY <1>2
<1> QED BY <1>3, <1>4

\* The port of a transfer and the threshold of a roaming are cut to sixteen bits with a sign.
LEMMA Int16Range ==
  ASSUME NEW n \in Int
  PROVE  Int16(n) \in Int16s
<1> DEFINE m == n % 65536
<1>1. m \in 0..65535
  OBVIOUS
<1>2. Int16(n) = IF m < 32768 THEN m ELSE m - 65536
  BY DEF Int16
<1> HIDE DEF m
<1>3. Int16(n) \in Int /\ -32768 <= Int16(n) /\ Int16(n) <= 32767
  BY <1>1, <1>2
<1> QED BY <1>3, Int16Bounds

\* Only a step that accepts a command has anything to say about what is accepted.
LEMMA NothingAccepted ==
  ASSUME at' # "accepted"
  PROVE  AcceptedInRange' /\ AcceptedComplete'
BY DEF AcceptedInRange, AcceptedComplete, ProtectedHasKey, ClientHasAddress, Accepted

-----------------------------------------------------------------------------
(* Init and a new line.                                                    *)

\* A line starts in its command's defaults, which are in range, and with nothing allocated.
LEMMA LineStep ==
  ASSUME ParserInv, NEW c \in Commands, Line(c)
  PROVE  ParserInv'
<1>1. /\ cmd' = c /\ p' = Defaults[c] /\ help' = FALSE /\ read' = 0 /\ at' = "options"
      /\ heap' = (IF c = "getprofile" THEN {"s", "mac", "pr"} ELSE {}) /\ leaked' = leaked
  BY DEF Line
<1>2. Shape'
  <2>1. help' \in BOOLEAN
    BY <1>1, Zenon
  <2>2. read' \in 0..MaxOptions
    BY <1>1, ParserAssumption
  <2>3. cmd' \in Commands /\ at' \in Phases /\ DOMAIN p' = DOMAIN Defaults[cmd']
    BY <1>1 DEF Phases
  <2> QED BY <2>1, <2>2, <2>3 DEF Shape
<1>3. Ranges'
  <2>1. CASE c = "scan"
    BY <1>1, <2>1, DefaultFields, ParserAssumption DEF Ranges
  <2>2. CASE c = "startap"
    BY <1>1, <2>2, DefaultFields DEF Ranges
  <2>3. CASE c = "wowlan"
    BY <1>1, <2>3, DefaultFields DEF Ranges
  <2>4. CASE c = "ping"
    BY <1>1, <2>4, DefaultFields DEF Ranges, MAX_PING_SIZE
  <2>5. CASE c = "mdnsAdv"
    BY <1>1, <2>5, DefaultFields DEF Ranges, DEF_ADVERTISE_TTL
  <2>6. CASE c = "triggered"
    BY <1>1, <2>6, DefaultFields DEF Ranges
  <2>7. CASE c \in {"send", "recv"}
    <3>1. cmd' = c /\ p'.p \in Int16s /\ p'.n \in Int
      <4>1. CASE c = "send"
        BY <1>1, <4>1, DefaultFields, Int16Ports
      <4>2. CASE c = "recv"
        BY <1>1, <4>2, DefaultFields, Int16Ports
      <4> QED BY <2>7, <4>1, <4>2
    <3> QED BY <2>7, <3>1 DEF Ranges
  <2>8. CASE c \notin {"scan", "startap", "wowlan", "ping", "mdnsAdv", "triggered", "send", "recv"}
    <3>1. cmd' = c
      BY <1>1
    <3> QED BY <2>8, <3>1 DEF Ranges
  <2> QED BY <2>1, <2>2, <2>3, <2>4, <2>5, <2>6, <2>7, <2>8
<1>4. ClientInv'
  <2>1. CASE c \in {"send", "recv"}
    <3>1. p'.server = TRUE
      BY <1>1, <2>1, DefaultFields
    <3> QED BY <3>1 DEF ClientInv
  <2>2. CASE c \notin {"send", "recv"}
    BY <1>1, <2>2 DEF ClientInv
  <2> QED BY <2>1, <2>2
<1>5. HeapInv'
  BY <1>1 DEF HeapInv, Freed
<1>6. OnlyPingLeaks'
  BY <1>1 DEF ParserInv, OnlyPingLeaks
<1>7. AcceptedInRange' /\ AcceptedComplete'
  BY <1>1, NothingAccepted
<1> QED BY <1>2, <1>3, <1>4, <1>5, <1>6, <1>7 DEF ParserInv

-----------------------------------------------------------------------------
(* One option.                                                             *)

\* Reading an option changes values and never the set of parameters.
LEMMA TakeDomain ==
  ASSUME cmd \in Commands, NEW o \in DOMAIN Syntax[cmd], NEW a
  PROVE  DOMAIN Take(o, a) = DOMAIN p
<1> USE DEF Pointer, Number
<1>1. CASE cmd = "scan"
  BY <1>1 DEF Take, TakeScan
<1>2. CASE cmd = "setpolicy"
  BY <1>2 DEF Take, TakeSetPolicy
<1>3. CASE cmd = "startap"
  BY <1>3 DEF Take, TakeStartAp, TakeChannel, Limited
<1>4. CASE cmd = "filter"
  <2>1. o \in {"f", "v", "e", "a", "m", "o", "i"}
    BY <1>4 DEF Syntax
  <2> QED BY <1>4, <2>1 DEF Take, TakeFilter
<1>5. CASE cmd = "wowlan"
  <2>1. o \in {"v", "i", "u"}
    BY <1>5 DEF Syntax
  <2> QED BY <1>5, <2>1 DEF Take, TakeWoWLAN
<1>6. CASE cmd = "ping"
  BY <1>6 DEF Take, TakePing
<1>7. CASE cmd = "mdnsAdv"
  BY <1>7 DEF Take, TakeAdvertise
<1>8. CASE cmd = "mdnsQuery"
  BY <1>8 DEF Take, TakeQuery
<1>9. CASE cmd \in {"send", "recv"}
  <2>1. o \in {"u", "s", "V", "nb", "p", "c", "n"}
    BY <1>9 DEF Syntax
  <2> QED BY <1>9, <2>1 DEF Take, TakeSend, TakeRecv, TakeTransfer
<1>10. CASE cmd \in {"soft", "triggered", "connect", "profile"}
  BY <1>10 DEF Take, TakeSoftRoaming, TakeTriggeredRoaming, TakeConnect, TakeProfile
<1>11. CASE cmd \in {"plain", "getprofile", "country"}
  BY <1>11 DEF Take
<1> QED BY <1>1, <1>2, <1>3, <1>4, <1>5, <1>6, <1>7, <1>8, <1>9, <1>10, <1>11, CommandNames

\* The numbers of a line are numbers, or missing.
LEMMA NumberArguments ==
  ASSUME cmd \in Commands, NEW o \in DOMAIN Syntax[cmd], NEW a \in Arguments(o)
  PROVE  /\ cmd = "startap" /\ o = "c" => a \in Int \union {NULL}
         /\ cmd = "wowlan" /\ o = "v" => a \in Int \union {NULL}
         /\ cmd \in {"send", "recv"} /\ o \in {"p", "n"} => a \in Int \union {NULL}
         /\ cmd \in {"send", "recv"} /\ o = "c" => a \in {"ipv4", "ipv6", "bad", NULL}
         /\ cmd = "triggered" => o = "r" /\ a \in Int \union {NULL}
<1>1. CASE cmd = "startap"
  BY <1>1, SyntaxFields DEF Arguments
<1>2. CASE cmd = "wowlan"
  BY <1>2, SyntaxFields DEF Arguments
<1>3. CASE cmd = "send"
  BY <1>3, SyntaxFields DEF Arguments
<1>4. CASE cmd = "recv"
  BY <1>4, SyntaxFields DEF Arguments
<1>5. CASE cmd = "triggered"
  BY <1>5, SyntaxFields DEF Arguments
<1> QED BY <1>1, <1>2, <1>3, <1>4, <1>5

\* An option leaves the parameters in range, or asks for the usage: the ranges are those of the
\* values as they are stored.
LEMMA OptionRanges ==
  ASSUME Shape, Ranges, NEW o \in DOMAIN Syntax[cmd], NEW a \in Arguments(o), Option(o, a)
  PROVE  Ranges'
<1>1. cmd' = cmd /\ p' = Take(o, a) /\ cmd \in Commands /\ DOMAIN p = DOMAIN Defaults[cmd]
  BY DEF Option, keep, Shape
<1>2. (~help' => ~help) /\ (~help' => ~Refuses(o, a))
  BY DEF Option, Shape
<1>3. CASE cmd = "scan"
  <2>1. {"n", "ext"} \subseteq DOMAIN p /\ p.n \in 0..MAX_SSID_ENTRIES
    BY <1>1, <1>3, DefaultFields DEF Ranges
  <2>2. p'.n \in 0..MAX_SSID_ENTRIES
    BY <1>1, <1>3, <2>1, ParserAssumption DEF Take, TakeScan
  <2> QED BY <1>1, <1>3, <2>2 DEF Ranges
<1>4. CASE cmd = "startap"
  <2>1. /\ {"s", "p", "t", "h", "c", "txp", "l", "isSupportedChannel"} \subseteq DOMAIN p
        /\ p.c \in 0..255 /\ p.txp \in 0..15 /\ p.l \in 1..4
    BY <1>1, <1>4, DefaultFields DEF Ranges
  <2>2. o = "c" => a \in Int \union {NULL}
    BY <1>1, <1>4, NumberArguments
  <2>3. p' = TakeStartAp(o, a)
    BY <1>1, <1>4 DEF Take
  <2>4. p'.c \in 0..255
    BY <2>1, <2>2, <2>3 DEF TakeStartAp, TakeChannel, Limited, Pointer, Number
  <2>5. p'.txp \in 0..15 /\ p'.l \in 1..4
    BY <2>1, <2>3 DEF TakeStartAp, TakeChannel, Limited, Pointer, Number
  <2> QED BY <1>1, <1>4, <2>4, <2>5 DEF Ranges
<1>5. CASE cmd = "wowlan"
  <2>1. {"v", "i", "u", "wowStr", "actionID"} \subseteq DOMAIN p /\ o \in {"v", "i", "u"}
    BY <1>1, <1>5, DefaultFields, SyntaxFields
  <2>2. p' = TakeWoWLAN(o, a)
    BY <1>1, <1>5 DEF Take
  <2>3. SUFFICES ASSUME ~help' PROVE p'.v \in 0..16
    BY <1>1, <1>5 DEF Ranges
  <2>4. p.v \in 0..16
    BY <1>2, <1>5, <2>3 DEF Ranges
  <2>5. CASE o = "v" /\ a # NULL /\ Quoted(a)
    <3>1. a \in Int /\ ~(PatternLength(a) > 16)
      BY <1>1, <1>2, <1>5, <2>3, <2>5, NumberArguments DEF Refuses, Breaks
    <3>2. PatternLength(a) \in 0..255
      BY <3>1 DEF PatternLength
    <3>3. p'.v = PatternLength(a)
      BY <2>1, <2>2, <2>5 DEF TakeWoWLAN
    <3> QED BY <3>1, <3>2, <3>3
  <2>6. CASE ~(o = "v" /\ a # NULL /\ Quoted(a))
    BY <2>1, <2>2, <2>4, <2>6 DEF TakeWoWLAN
  <2> QED BY <2>5, <2>6
<1>6. CASE cmd = "ping"
  <2>1. {"h", "c", "i", "s", "t"} \subseteq DOMAIN p /\ p.c \in 1..(MAX_PING_SIZE - 1)
    BY <1>1, <1>6, DefaultFields DEF Ranges
  <2>2. p'.c \in 1..(MAX_PING_SIZE - 1)
    BY <1>1, <1>6, <2>1 DEF Take, TakePing, Pointer
  <2> QED BY <1>1, <1>6, <2>2 DEF Ranges
<1>7. CASE cmd = "mdnsAdv"
  <2>1. {"n", "st", "so", "t", "p", "ttl"} \subseteq DOMAIN p /\ p.ttl # 0
    BY <1>1, <1>7, DefaultFields DEF Ranges
  <2>2. p'.ttl # 0
    BY <1>1, <1>7, <2>1 DEF Take, TakeAdvertise, Pointer, Number, DEF_ADVERTISE_TTL
  <2> QED BY <1>1, <1>7, <2>2 DEF Ranges
<1>8. CASE cmd = "triggered"
  <2>1. "r" \in DOMAIN p /\ o = "r"
    BY <1>1, <1>8, DefaultFields, NumberArguments
  <2>2. p' = IF a = NULL THEN p ELSE [p EXCEPT !["r"] = Int16(a)]
    BY <1>1, <1>8, <2>1 DEF Take, TakeTriggeredRoaming, Number
  <2>3. SUFFICES ASSUME ~help' PROVE p'.r \in -85..0
    BY <1>1, <1>8 DEF Ranges
  <2>4. p.r \in -85..0 /\ (a # NULL => Int16(a) \in -85..0)
    BY <1>2, <1>8, <2>3 DEF Ranges, Refuses
  <2> QED BY <2>1, <2>2, <2>4
<1>9. CASE cmd \in {"send", "recv"}
  <2>1. /\ {"udp", "server", "ipv6", "nb", "p", "ip", "n"} \subseteq DOMAIN p
        /\ o \in {"u", "s", "V", "nb", "p", "c", "n"}
        /\ p.p \in Int16s /\ p.n \in Int
    <3>1. CASE cmd = "send"
      BY <1>1, <3>1, DefaultFields, SyntaxFields DEF Ranges
    <3>2. CASE cmd = "recv"
      BY <1>1, <3>2, DefaultFields, SyntaxFields DEF Ranges
    <3> QED BY <1>9, <3>1, <3>2
  <2>2. p' = TakeTransfer(o, a)
    BY <1>1, <1>9 DEF Take, TakeSend, TakeRecv
  <2>3. o \in {"p", "n"} => a \in Int \union {NULL}
    BY <1>1, <1>9, NumberArguments
  <2>4. p'.n \in Int
    BY <2>1, <2>2, <2>3 DEF TakeTransfer, Number
  <2>5. o = "p" /\ a # NULL => Int16(a) \in Int16s
    BY <2>3, Int16Range
  <2>6. p'.p \in Int16s
    BY <2>1, <2>2, <2>5 DEF TakeTransfer, Number
  <2> QED BY <1>1, <1>9, <2>4, <2>6 DEF Ranges
<1>10. CASE cmd \notin {"scan", "startap", "wowlan", "ping", "mdnsAdv", "triggered", "send", "recv"}
  BY <1>1, <1>10 DEF Ranges
<1> QED BY <1>3, <1>4, <1>5, <1>6, <1>7, <1>8, <1>9, <1>10

\* A transfer becomes a client's only by an address that is copied.
LEMMA OptionClient ==
  ASSUME Shape, ClientInv, NEW o \in DOMAIN Syntax[cmd], NEW a \in Arguments(o), Option(o, a)
  PROVE  ClientInv'
<1>1. /\ cmd' = cmd /\ p' = Take(o, a) /\ cmd \in Commands /\ DOMAIN p = DOMAIN Defaults[cmd]
      /\ at = "options"
  BY DEF Option, keep, Shape
<1>2. SUFFICES ASSUME cmd \in {"send", "recv"}
               PROVE  /\ p'.server \in BOOLEAN
                      /\ at' # "prompt" /\ p'.server = FALSE =>
                           p'.ip \in {"ipv4", "ipv6", "bad"} /\ "ip" \in heap'
  BY <1>1 DEF ClientInv
<1>3. /\ {"udp", "server", "ipv6", "nb", "p", "ip", "n"} \subseteq DOMAIN p
      /\ o \in {"u", "s", "V", "nb", "p", "c", "n"}
  <2>1. CASE cmd = "send"
    BY <1>1, <2>1, DefaultFields, SyntaxFields
  <2>2. CASE cmd = "recv"
    BY <1>1, <2>2, DefaultFields, SyntaxFields
  <2> QED BY <1>2, <2>1, <2>2
<1>4. p' = TakeTransfer(o, a)
  BY <1>1, <1>2 DEF Take, TakeSend, TakeRecv
<1>5. /\ p.server \in BOOLEAN
      /\ p.server = FALSE => p.ip \in {"ipv4", "ipv6", "bad"} /\ "ip" \in heap
  BY <1>1, <1>2 DEF ClientInv
<1>6. heap \subseteq heap' /\ (o = "c" /\ p'.ip # p.ip => "ip" \in heap')
  BY <1>2 DEF Option
<1>7. CASE o = "c" /\ a # NULL /\ p.ip = NULL
  <2>1. p'.ip = a /\ p'.server = FALSE
    BY <1>3, <1>4, <1>7 DEF TakeTransfer
  <2>2. a \in {"ipv4", "ipv6", "bad"}
    BY <1>1, <1>2, <1>7, NumberArguments
  <2>3. "ip" \in heap'
    BY <1>6, <1>7, <2>1
  <2> QED BY <2>1, <2>2, <2>3
<1>8. CASE ~(o = "c" /\ a # NULL /\ p.ip = NULL)
  <2>1. p'.ip = p.ip
    BY <1>3, <1>4, <1>8 DEF TakeTransfer, Number
  <2>2. p'.server = p.server \/ p'.server = TRUE
    BY <1>3, <1>4, <1>8 DEF TakeTransfer, Number
  <2> QED BY <1>5, <1>6, <2>1, <2>2
<1> QED BY <1>7, <1>8

\* An option keeps the invariant.
LEMMA OptionStep ==
  ASSUME ParserInv, NEW o \in DOMAIN Syntax[cmd], NEW a \in Arguments(o), Option(o, a)
  PROVE  ParserInv'
<1>1. /\ cmd' = cmd /\ p' = Take(o, a) /\ at' \in {"rejected", "checks", "options"}
      /\ read' = read + 1 /\ read < MaxOptions /\ leaked' = leaked
      /\ heap' \subseteq heap \union (IF cmd \in {"send", "recv"} THEN {"ip"} ELSE {})
  BY DEF Option, keep
<1>2. Shape'
  <2>1. help' \in BOOLEAN
    BY Zenon DEF Option
  <2>2. read' \in 0..MaxOptions
    BY <1>1, ParserAssumption DEF ParserInv, Shape
  <2>3. cmd' \in Commands /\ DOMAIN p' = DOMAIN Defaults[cmd'] /\ at' \in Phases
    BY <1>1, TakeDomain DEF ParserInv, Shape, Phases
  <2> QED BY <2>1, <2>2, <2>3 DEF Shape
<1>3. Ranges' /\ ClientInv'
  BY OptionRanges, OptionClient DEF ParserInv
<1>4. HeapInv' /\ OnlyPingLeaks'
  BY <1>1 DEF ParserInv, HeapInv, Freed, FreeSendCmd, FreeRecvCmd, OnlyPingLeaks
<1>5. AcceptedInRange' /\ AcceptedComplete'
  BY <1>1, NothingAccepted
<1> QED BY <1>2, <1>3, <1>4, <1>5 DEF ParserInv

\* -help, a word that is no option and the end of the line change no parameter, and a usage once
\* asked for stays asked for.
LEMMA WordStep ==
  ASSUME ParserInv, HelpOption \/ UnknownWord \/ EndOfLine
  PROVE  ParserInv'
<1>1. /\ cmd' = cmd /\ p' = p /\ at \in {"options"} /\ at' \in {"options", "checks"}
      /\ read' = read /\ leaked' = leaked /\ heap' = heap /\ (help => help') /\ help' \in BOOLEAN
  BY DEF HelpOption, UnknownWord, EndOfLine, keep, ParserInv, Shape
<1>2. Shape' /\ HeapInv' /\ OnlyPingLeaks'
  BY <1>1 DEF ParserInv, Shape, Phases, HeapInv, Freed, OnlyPingLeaks
<1>3. Ranges' /\ ClientInv'
  BY <1>1 DEF ParserInv, Ranges, ClientInv
<1>4. AcceptedInRange' /\ AcceptedComplete'
  BY <1>1, NothingAccepted
<1> QED BY <1>2, <1>3, <1>4 DEF ParserInv

-----------------------------------------------------------------------------
(* The checks.                                                             *)

\* The checks that accept the parameters as they are.
PlainChecks ==
  CheckHelp \/ CheckConnect \/ CheckProfile \/ CheckGetProfile \/ CheckStartAp \/ CheckFilter
    \/ CheckWoWLAN \/ CheckPing \/ CheckAdvertise \/ CheckQuery \/ CheckCountrycode

\* They change nothing but the blocks, and allocate only what the command's Free function frees.
LEMMA CheckForms ==
  ASSUME ParserInv, PlainChecks
  PROVE  /\ at = "checks" /\ at' \in {"accepted", "rejected"}
         /\ UNCHANGED <<cmd, p, help, read, status, leaked>>
         /\ heap \subseteq heap' /\ heap' \subseteq Freed
<1>0. heap \subseteq Freed
  BY DEF ParserInv, HeapInv
<1> USE DEF Rejects, Accepts, AcceptsAs, Checks, keep, Freed
<1>1. CASE CheckHelp
  BY <1>0, <1>1 DEF CheckHelp
<1>2. CASE CheckConnect
  BY <1>0, <1>2 DEF CheckConnect, Given, Key, FreeConnectCmd
<1>3. CASE CheckProfile
  BY <1>0, <1>3 DEF CheckProfile, Given, Key, FreeProfileCmd
<1>4. CASE CheckGetProfile
  BY <1>0, <1>4 DEF CheckGetProfile
<1>5. CASE CheckStartAp
  BY <1>0, <1>5 DEF CheckStartAp, FreeStartApCmd
<1>6. CASE CheckFilter
  BY <1>0, <1>6 DEF CheckFilter
<1>7. CASE CheckWoWLAN
  BY <1>0, <1>7 DEF CheckWoWLAN
<1>8. CASE CheckPing
  BY <1>0, <1>8 DEF CheckPing, Given, FreePingCmd
<1>9. CASE CheckAdvertise
  BY <1>0, <1>9 DEF CheckAdvertise, Given, FreemDNSAdvertiseCmd
<1>10. CASE CheckQuery
  BY <1>0, <1>10 DEF CheckQuery
<1>11. CASE CheckCountrycode
  BY <1>0, <1>11 DEF CheckCountrycode
<1> QED BY <1>1, <1>2, <1>3, <1>4, <1>5, <1>6, <1>7, <1>8, <1>9, <1>10, <1>11 DEF PlainChecks

\* What a check has looked at when it accepts.
LEMMA CheckGuards ==
  ASSUME ParserInv, PlainChecks, at' = "accepted"
  PROVE  /\ cmd \in {"wowlan", "triggered"} => ~help
         /\ cmd = "startap" =>
              (p.txp # 0 => p.c \notin Channels5Ghz) /\ p.s < SL_WLAN_SSID_MAX_LENGTH
         /\ cmd = "profile" => p.pr \in {NULL} \union 0..15
         /\ cmd \in {"connect", "profile"} =>
              /\ SecurityNamed = "OPEN" \/ "key" \in heap'
              /\ p.ent # NULL => "ent" \in heap'
         /\ cmd \notin {"send", "recv"}
<1> USE DEF Rejects, Accepts, AcceptsAs, Checks
<1>1. CASE CheckHelp
  BY <1>1 DEF CheckHelp
<1>2. CASE CheckConnect
  BY <1>2 DEF CheckConnect, SecurityFits, Key, Given
<1>3. CASE CheckProfile
  BY <1>3 DEF CheckProfile, SecurityFits, Key, Given
<1>4. CASE CheckGetProfile
  BY <1>4 DEF CheckGetProfile
<1>5. CASE CheckStartAp
  BY <1>5 DEF CheckStartAp
<1>6. CASE CheckFilter
  BY <1>6 DEF CheckFilter
<1>7. CASE CheckWoWLAN
  BY <1>7 DEF CheckWoWLAN
<1>8. CASE CheckPing
  BY <1>8 DEF CheckPing
<1>9. CASE CheckAdvertise
  BY <1>9 DEF CheckAdvertise
<1>10. CASE CheckQuery
  BY <1>10 DEF CheckQuery
<1>11. CASE CheckCountrycode
  BY <1>11 DEF CheckCountrycode
<1> QED BY <1>1, <1>2, <1>3, <1>4, <1>5, <1>6, <1>7, <1>8, <1>9, <1>10, <1>11 DEF PlainChecks

\* The check of a command keeps the invariant: what it accepts is in range and complete.
LEMMA CheckStep ==
  ASSUME ParserInv, PlainChecks
  PROVE  ParserInv'
<1>1. /\ at = "checks" /\ at' \in {"accepted", "rejected"}
      /\ UNCHANGED <<cmd, p, help, read, status, leaked>>
      /\ heap \subseteq heap' /\ heap' \subseteq Freed
  BY CheckForms
<1>2. Shape' /\ OnlyPingLeaks'
  BY <1>1 DEF ParserInv, Shape, Phases, OnlyPingLeaks
<1>3. HeapInv'
  BY <1>1 DEF HeapInv, Freed
<1>4. Ranges' /\ ClientInv'
  BY <1>1 DEF ParserInv, Ranges, ClientInv
<1>5. CASE at' # "accepted"
  BY <1>2, <1>3, <1>4, <1>5, NothingAccepted DEF ParserInv
<1>6. CASE at' = "accepted"
  <2>1. /\ cmd' \in {"wowlan", "triggered"} => ~help'
        /\ cmd' = "startap" =>
             (p'.txp # 0 => p'.c \notin Channels5Ghz) /\ p'.s < SL_WLAN_SSID_MAX_LENGTH
        /\ cmd' = "profile" => p'.pr \in {NULL} \union 0..15
        /\ cmd' \in {"connect", "profile"} =>
             /\ SecurityNamed' = "OPEN" \/ "key" \in heap'
             /\ p'.ent # NULL => "ent" \in heap'
        /\ cmd' \notin {"send", "recv"}
    BY <1>1, <1>6, CheckGuards DEF SecurityNamed
  <2>2. AcceptedInRange'
    BY <1>4, <2>1 DEF AcceptedInRange, Accepted, Ranges
  <2>3. AcceptedComplete'
    <3>1. ProtectedHasKey'
      BY <2>1 DEF ProtectedHasKey, Accepted, SecurityOf
    <3>2. ClientHasAddress'
      BY <2>1 DEF ClientHasAddress, Accepted
    <3> QED BY <3>1, <3>2 DEF AcceptedComplete
  <2> QED BY <1>2, <1>3, <1>4, <2>2, <2>3 DEF ParserInv
<1> QED BY <1>5, <1>6

\* What send and recv are called with: a port that was refused or cut to a negative number has
\* become the default one.
LEMMA SettledValues ==
  ASSUME ParserInv, cmd \in {"send", "recv"}, NEW n \in Int, p' = Settled(n)
  PROVE  /\ DOMAIN p' = DOMAIN p /\ p'.n = n /\ p'.server = p.server /\ p'.ip = p.ip
         /\ p'.p \in Int16s /\ 0 < p'.p
         /\ p'.ipv6 = Ipv6
<1>1. {"udp", "server", "ipv6", "nb", "p", "ip", "n"} \subseteq DOMAIN p
  <2>1. CASE cmd = "send"
    BY <2>1, DefaultFields DEF ParserInv, Shape
  <2>2. CASE cmd = "recv"
    BY <2>2, DefaultFields DEF ParserInv, Shape
  <2> QED BY <2>1, <2>2
<1>2. p.p \in Int16s
  BY DEF ParserInv, Ranges
<1>3. DOMAIN p' = DOMAIN p /\ p'.n = n /\ p'.server = p.server /\ p'.ip = p.ip
  BY <1>1 DEF Settled
<1>4. p'.p = IF p.p <= 0 THEN 5001 ELSE p.p
  BY <1>1 DEF Settled
<1>5. p'.ipv6 = Ipv6
  BY <1>1 DEF Settled
<1>6. p.p \in Int
  BY <1>2, Int16Numbers
<1>7. p'.p \in Int16s /\ 0 < p'.p
  <2>1. CASE p.p <= 0
    <3>1. p'.p = 5001
      BY <1>4, <2>1
    <3> QED BY <3>1, Int16Ports
  <2>2. CASE ~(p.p <= 0)
    <3>1. p'.p = p.p /\ 0 < p.p
      BY <1>4, <1>6, <2>2
    <3> QED BY <1>2, <3>1
  <2> QED BY <2>1, <2>2
<1> QED BY <1>3, <1>5, <1>7

\* The check of send and of recv keeps the invariant.
LEMMA TransferStep ==
  ASSUME ParserInv, CheckSend \/ CheckRecv
  PROVE  ParserInv'
<1>1. /\ at = "checks" /\ cmd \in {"send", "recv"} /\ at' \in {"accepted", "rejected"}
      /\ UNCHANGED <<cmd, help, read, status, leaked>> /\ heap' = heap
  BY DEF CheckSend, CheckRecv, Checks, Rejects, AcceptsAs, keep
<1>2. /\ OnlyPingLeaks' /\ HeapInv'
  BY <1>1 DEF ParserInv, OnlyPingLeaks, HeapInv, Freed
<1>3. CASE at' = "rejected"
  <2>1. p' = p
    BY <1>3 DEF CheckSend, CheckRecv, Rejects, AcceptsAs
  <2>2. Shape' /\ Ranges' /\ ClientInv'
    BY <1>1, <2>1 DEF ParserInv, Shape, Phases, Ranges, ClientInv
  <2> QED BY <1>2, <1>3, <2>2, NothingAccepted DEF ParserInv
<1>4. CASE at' = "accepted"
  <2>1. PICK n \in Int : p' = Settled(n) /\ (cmd = "send" => n > 0)
    <3>1. p.n \in Int
      BY <1>1 DEF ParserInv, Ranges
    <3>2. CASE CheckSend
      BY <1>4, <3>1, <3>2 DEF CheckSend, Rejects, AcceptsAs
    <3>3. CASE CheckRecv
      BY <1>4, <3>1, <3>3 DEF CheckRecv, Rejects, AcceptsAs, Checks
    <3> QED BY <3>2, <3>3
  <2>2. /\ DOMAIN p' = DOMAIN p /\ p'.n = n /\ p'.server = p.server /\ p'.ip = p.ip
        /\ p'.p \in Int16s /\ 0 < p'.p /\ p'.ipv6 = Ipv6
    BY <1>1, <2>1, SettledValues
  <2>3. Shape'
    BY <1>1, <2>2 DEF ParserInv, Shape, Phases
  <2>4. Ranges'
    BY <1>1, <2>2 DEF Ranges
  <2>5. ClientInv'
    BY <1>1, <1>4, <2>2 DEF ParserInv, ClientInv
  <2>6. p'.p > 0
    BY <2>2, Int16Numbers
  <2>7. AcceptedInRange'
    BY <1>1, <2>1, <2>2, <2>6 DEF AcceptedInRange, Accepted
  <2>8. AddressFits /\ Reachable
    BY <1>4 DEF CheckSend, CheckRecv, Rejects, AcceptsAs
  <2>9. ClientHasAddress'
    <3>1. status' # {}
      BY <1>1, <2>8 DEF Reachable
    <3>2. ASSUME ~p'.server
          PROVE  p'.ip \in {"ipv4", "ipv6"} /\ "ip" \in heap' /\ (p'.ipv6 <=> p'.ip = "ipv6")
      <4>1. p.server = FALSE
        BY <1>1, <2>2, <3>2 DEF ParserInv, ClientInv
      <4>2. p.ip \in {"ipv4", "ipv6", "bad"} /\ "ip" \in heap /\ p.ip # "bad"
        BY <1>1, <2>8, <4>1 DEF ParserInv, ClientInv, AddressFits
      <4>3. p'.ipv6 = (p.ip = "ipv6")
        BY <2>2, <4>1 DEF Ipv6
      <4> QED BY <1>1, <2>2, <4>2, <4>3
    <3> QED BY <3>1, <3>2 DEF ClientHasAddress
  <2>10. AcceptedComplete'
    BY <1>1, <2>9 DEF AcceptedComplete, ProtectedHasKey, Accepted
  <2> QED BY <1>2, <2>3, <2>4, <2>5, <2>7, <2>10 DEF ParserInv
<1> QED BY <1>1, <1>3, <1>4

-----------------------------------------------------------------------------
(* The end of the callback, and the theorems.                              *)

\* A callback that returns leaves behind what its Free function does not free, which is nothing,
\* or the host of a ping.
LEMMA ReturnStep ==
  ASSUME ParserInv, CallbackReturns \/ PingReturns
  PROVE  ParserInv'
<1>1. at' = "prompt" /\ heap' = {} /\ UNCHANGED <<cmd, p, help, status, read>>
  BY DEF CallbackReturns, PingReturns, Ends
<1>2. Shape' /\ Ranges' /\ ClientInv' /\ HeapInv'
  BY <1>1 DEF ParserInv, Shape, Phases, Ranges, ClientInv, HeapInv
<1>3. OnlyPingLeaks'
  <2>1. heap \subseteq Freed /\ OnlyPingLeaks
    BY DEF ParserInv, HeapInv
  <2>2. CASE CallbackReturns
    BY <2>1, <2>2 DEF CallbackReturns, Ends, OnlyPingLeaks
  <2>3. CASE PingReturns
    <3>1. cmd = "ping" /\ heap \subseteq {"h"}
      BY <2>1, <2>3 DEF PingReturns, Freed, FreePingCmd
    <3> QED BY <2>1, <2>3, <3>1 DEF PingReturns, Ends, OnlyPingLeaks
  <2> QED BY <2>2, <2>3
<1> QED BY <1>1, <1>2, <1>3, NothingAccepted DEF ParserInv

\* No command has been typed.
LEMMA ParserInit == Init => ParserInv
<1> SUFFICES ASSUME Init PROVE ParserInv
  OBVIOUS
<1>1. Shape
  <2>1. help \in BOOLEAN
    BY Zenon DEF Init
  <2>2. read \in 0..MaxOptions
    BY ParserAssumption DEF Init
  <2>3. cmd \in Commands /\ at \in Phases /\ DOMAIN p = DOMAIN Defaults[cmd]
    BY CommandNames DEF Init, Phases
  <2> QED BY <2>1, <2>2, <2>3 DEF Shape
<1>2. Ranges /\ ClientInv
  <2>1. cmd = "plain"
    BY DEF Init
  <2> QED BY <2>1 DEF Ranges, ClientInv
<1>3. HeapInv /\ OnlyPingLeaks
  BY DEF Init, HeapInv, OnlyPingLeaks
<1>4. AcceptedInRange /\ AcceptedComplete
  <2>1. at # "accepted"
    BY DEF Init
  <2> QED BY <2>1 DEF AcceptedInRange, AcceptedComplete, ProtectedHasKey, ClientHasAddress, Accepted
<1> QED BY <1>1, <1>2, <1>3, <1>4 DEF ParserInv

\* The invariant is inductive.
LEMMA ParserNext == ParserInv /\ [Next]_vars => ParserInv'
<1> SUFFICES ASSUME ParserInv, [Next]_vars PROVE ParserInv'
  OBVIOUS
<1>1. CASE \E c \in Commands : Line(c)
  BY <1>1, LineStep
<1>2. CASE \E o \in DOMAIN Syntax[cmd] : \E a \in Arguments(o) : Option(o, a)
  BY <1>2, OptionStep
<1>3. CASE HelpOption \/ UnknownWord \/ EndOfLine
  BY <1>3, WordStep
<1>4. CASE PlainChecks
  BY <1>4, CheckStep
<1>5. CASE CheckSend \/ CheckRecv
  BY <1>5, TransferStep
<1>6. CASE CallbackReturns \/ PingReturns
  BY <1>6, ReturnStep
<1>7. CASE UNCHANGED vars
  <2>1. UNCHANGED <<cmd, at, p, help, heap, status, read, leaked>>
    BY <1>7 DEF vars
  <2>2. Shape' /\ Ranges' /\ ClientInv' /\ HeapInv' /\ OnlyPingLeaks'
    BY <2>1 DEF ParserInv, Shape, Ranges, ClientInv, HeapInv, Freed, OnlyPingLeaks
  <2>3. AcceptedInRange'
    BY <2>1 DEF ParserInv, AcceptedInRange, Accepted
  <2>4. AcceptedComplete'
    BY <2>1 DEF ParserInv, AcceptedComplete, ProtectedHasKey, ClientHasAddress, Accepted, SecurityOf, SecurityNamed
  <2> QED BY <2>2, <2>3, <2>4 DEF ParserInv
<1> QED BY <1>1, <1>2, <1>3, <1>4, <1>5, <1>6, <1>7 DEF Next, PlainChecks

\* It holds in every reachable state.
LEMMA ParserInvariant == Spec => []ParserInv
<1>1. Init => ParserInv
  BY ParserInit
<1>2. ParserInv /\ [Next]_vars => ParserInv'
  BY ParserNext
<1> QED BY <1>1, <1>2, PTL DEF Spec

\* The parameters of a line are always those of its command, and what is stored fits its type.
THEOREM ParserType == Spec => []TypeOK
<1>1. ParserInv => TypeOK
  <2> SUFFICES ASSUME ParserInv PROVE TypeOK
    OBVIOUS
  <2>1. Shape /\ Ranges /\ heap \subseteq Freed
    BY DEF ParserInv, HeapInv
  <2>2. cmd = "startap" => {p.c, p.txp, p.l} \subseteq 0..255
    BY <2>1 DEF Ranges
  <2>3. cmd \in {"send", "recv"} => p.p \in Int16s
    BY <2>1 DEF Ranges
  <2>4. heap \subseteq {"s", "p", "key", "ip", "gw", "dns", "ent", "mac", "pr", "h", "n", "t"}
    BY <2>1 DEF Freed, FreeConnectCmd, FreeProfileCmd, FreeStartApCmd, FreePingCmd,
                FreemDNSAdvertiseCmd, FreeSendCmd, FreeRecvCmd
  <2> QED BY <2>1, <2>2, <2>3, <2>4 DEF TypeOK, Shape, Phases
<1> QED BY <1>1, ParserInvariant, PTL

\* However many options a line has, in whatever order, with or without their arguments, the
\* parameters AcceptedInRange names are in range when a command is accepted, for every limit of
\* the SDK.
THEOREM AcceptedIsInRange == Spec => []AcceptedInRange
<1>1. ParserInv => AcceptedInRange
  BY DEF ParserInv
<1> QED BY <1>1, ParserInvariant, PTL

\* On every return of every parser and callback the copies made of the line are given back, but
\* for the host of a ping that went through.
THEOREM LeaksOnlyPing == Spec => []OnlyPingLeaks
<1>1. ParserInv => OnlyPingLeaks
  BY DEF ParserInv
<1> QED BY <1>1, ParserInvariant, PTL

\* A network that connect or profile takes for WPA or WPS with a PIN has its key, an enterprise
\* network its user name, and a client that sends or receives its address and a network.
THEOREM AcceptedIsComplete == Spec => []AcceptedComplete
<1>1. ParserInv => AcceptedComplete
  BY DEF ParserInv
<1> QED BY <1>1, ParserInvariant, PTL
=============================================================================
