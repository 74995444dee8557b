----------------------------- MODULE CmdParser -----------------------------
(***************************************************************************)
(* cmd_parser.c: how a typed line becomes the parameters of a command.     *)
(* Every parser is a loop over the words of the line: a word names an      *)
(* option, the next word (strtok) is its argument; -help and a word nobody *)
(* knows show the usage; checks follow the loop.  Some arguments are       *)
(* copied to the heap, and the callback of the command gives them back     *)
(* with the Free function of its parameters.                               *)
(*                                                                         *)
(* A line is read word by word.  An argument is a number where it is       *)
(* converted (0 stands for what is not a number), the length of the text   *)
(* where only that matters, and otherwise a class of texts.  A missing     *)
(* argument (NULL) is the end of the line: in the middle of a line the     *)
(* next word is taken for the argument.                                    *)
(***************************************************************************)
EXTENDS Integers, FiniteSets

CONSTANTS
  NULL,              (* no argument                                          *)
  MAX_SSID_ENTRIES,  (* of the SDK                                           *)
  KEY_LEN_MAX,       (* of the SDK                                           *)
  IsCc3235,          (* the chip has the 5 GHz band                          *)
  MaxOptions         (* bound: options on a line                             *)

ASSUME ParserAssumption ==
  /\ MAX_SSID_ENTRIES \in 1..255 /\ KEY_LEN_MAX \in Nat
  /\ IsCc3235 \in BOOLEAN /\ MaxOptions \in Nat

SL_WLAN_SSID_MAX_LENGTH == 32
PASSWD_LEN_MAX == 63
PASSWD_LEN_MIN == 8
MAX_PING_SIZE == 1452
MAX_PAYLOAD_SIZE == 1400
DEF_ADVERTISE_TTL == 2000
Channels5Ghz == {36, 40, 44, 48}

VARIABLES
  cmd,      (* the command of the line                                       *)
  at,       (* how far the parser is                                         *)
  p,        (* its parameters and local pointers                             *)
  help,     (* the flag that asks for the usage                              *)
  heap,     (* blocks allocated for this command                             *)
  status,   (* app_CB.Status, as the network has set it                      *)
  read,     (* options read                                                  *)
  leaked    (* blocks no command will give back                              *)

vars == <<cmd, at, p, help, heap, status, read, leaked>>

\* "WPA" stands for every type that goes with a key.
Security == {"WPA", "WPS", "OPEN", "other"}
YesNo    == {"yes", "no", "other"}
Words    == {"text"}

\* The options of each command, with the arguments a user may give; an option
\* without arguments is a flag.
Syntax == [
  scan       |-> [n |-> {0, 5, 300}, ext |-> {}],
  setpolicy  |-> [h |-> YesNo, i |-> {5, 65546}, o |-> YesNo, c |-> {1}, d |-> {1},
                  r |-> {-80}],
  profile    |-> [s |-> {32, 33}, p |-> {63, 64}, t |-> Security, mac |-> Words,
                  pr |-> {-1, 15, 16}, ent |-> Words],
  getprofile |-> [i |-> {-1, 1}],
  connect    |-> [s |-> {32, 33}, p |-> {63, 64}, t |-> Security, ip |-> Words,
                  gw |-> Words, dns |-> Words, ent |-> Words],
  startap    |-> [s |-> {31, 32}, p |-> {6, 7, 64}, t |-> Security, h |-> YesNo,
                  c |-> {0, 6, 36, 269}, txp |-> {3, 16, 259}, l |-> {0, 4, 258}],
  plain      |-> [none |-> {}],
  filter     |-> [f |-> {"S_MAC", "D_MAC", "BSSID", "S_IP", "D_IP", "FRAME_TYPE",
                         "FRAME_SUBTYPE", "PATTERN", "other"},
                  v |-> {"mac", "ip", "frame", "subtype", "long"},
                  e |-> {"equals", "not_equals", "other"},
                  a |-> {"drop", "event", "pass", "other"},
                  m |-> {"L1", "L4", "L4_CON", "other"}, o |-> {-1, 0, 1396},
                  i |-> {0, 1}],
  wowlan     |-> [v |-> {-1, 0, 1, 17, 18}, i |-> {3}, u |-> {1}],
  ping       |-> [h |-> Words, c |-> {0, 5, 1452}, i |-> {0, 1}, s |-> {0, 1},
                  t |-> {0, 1}],
  mdnsAdv    |-> [n |-> Words, st |-> Words, so |-> Words, t |-> Words,
                  p |-> {80}, ttl |-> {0, 1}],
  mdnsQuery  |-> [n |-> Words, st |-> Words, so |-> Words, o |-> YesNo],
  send       |-> [u |-> {}, s |-> {}, V |-> {}, nb |-> {}, p |-> {0, 5001, 40000},
                  c |-> {"ipv4", "ipv6", "bad"}, n |-> {-1, 0, 2}],
  recv       |-> [u |-> {}, s |-> {}, V |-> {}, nb |-> {}, p |-> {0, 5001, 40000},
                  c |-> {"ipv4", "ipv6", "bad"}, n |-> {-1, 0, 2}],
  soft       |-> [r |-> {-70}],
  country    |-> [g |-> {"US", "other"}],
  triggered  |-> [r |-> {-86, -60, 1, 65476}] ]

Commands == DOMAIN Syntax

\* What the callback (memset) and the parser put in before the first word.
Defaults == [
  scan       |-> [n |-> 0, ext |-> FALSE],
  setpolicy  |-> [h |-> FALSE, i |-> 10, o |-> FALSE, c |-> 0, d |-> 0, r |-> -95],
  profile    |-> [s |-> NULL, p |-> NULL, t |-> NULL, mac |-> NULL, pr |-> NULL,
                  ent |-> NULL],
  getprofile |-> [i |-> NULL],
  connect    |-> [s |-> NULL, p |-> NULL, t |-> NULL, ip |-> NULL, gw |-> NULL,
                  dns |-> NULL, ent |-> NULL],
  startap    |-> [s |-> NULL, p |-> NULL, t |-> NULL, h |-> FALSE, c |-> 1,
                  txp |-> 0, l |-> 4, isSupportedChannel |-> FALSE],
  plain      |-> [none |-> FALSE],
  filter     |-> [f |-> NULL, v |-> NULL, e |-> NULL, a |-> NULL, m |-> NULL,
                  o |-> -1, i |-> 0],
  wowlan     |-> [v |-> 0, i |-> 0, u |-> 0, wowStr |-> FALSE, actionID |-> FALSE],
  ping       |-> [h |-> NULL, c |-> 10, i |-> 1000, s |-> 56, t |-> 3000],
  mdnsAdv    |-> [n |-> NULL, st |-> NULL, so |-> NULL, t |-> NULL, p |-> 2525,
                  ttl |-> DEF_ADVERTISE_TTL],
  mdnsQuery  |-> [n |-> NULL, st |-> NULL, so |-> NULL, o |-> FALSE],
  send       |-> [udp |-> FALSE, server |-> TRUE, ipv6 |-> FALSE, nb |-> FALSE,
                  p |-> 0, ip |-> NULL, n |-> 1000],
  recv       |-> [udp |-> FALSE, server |-> TRUE, ipv6 |-> FALSE, nb |-> FALSE,
                  p |-> 5001, ip |-> NULL, n |-> 1000],
  soft       |-> [r |-> 0],
  country    |-> [g |-> NULL],
  triggered  |-> [r |-> -63] ]

Init ==
  /\ cmd = "plain" /\ at = "prompt" /\ p = Defaults["plain"] /\ help = FALSE
  /\ heap = {} /\ status = {} /\ read = 0 /\ leaked = {}

-----------------------------------------------------------------------------
(* One option.  Take gives the parameters after it.                        *)

\* Mutant: a port is not cut to its type.
Int16Wide(n) == n

\* int16_t, and what is left of a number in it.
Int16s   == -32768..32767
Int16(n) == IF n % 65536 < 32768 THEN n % 65536 ELSE (n % 65536) - 65536

\* A pointer takes whatever strtok returns, nothing included.
Pointer(o, a) == [p EXCEPT ![o] = a]

\* A number stays what it was when its argument is missing.
Number(o, a, value) == IF a = NULL THEN p ELSE [p EXCEPT ![o] = value]

\* Mutant: the number is compared before it is cut to a byte.
TakeScanUncut(o, a) ==
  IF o = "ext" THEN [p EXCEPT !.ext = TRUE]
  ELSE Number(o, a, IF a \in 1..MAX_SSID_ENTRIES THEN a
                    ELSE IF a > 255 THEN a % 256 ELSE MAX_SSID_ENTRIES)

TakeScan(o, a) ==
  IF o = "ext" THEN [p EXCEPT !.ext = TRUE]
  ELSE LET n == IF a = NULL THEN p.n ELSE a % 256
       IN [p EXCEPT !.n = IF n \in 1..MAX_SSID_ENTRIES THEN n ELSE MAX_SSID_ENTRIES]

TakeSetPolicy(o, a) ==
  CASE o \in {"h", "o"} -> IF a = "yes" THEN [p EXCEPT ![o] = TRUE]
                           ELSE IF a = "no" /\ o = "h" THEN [p EXCEPT !.h = FALSE] ELSE p
    [] o = "i"  -> Number(o, a, a % 65536)
    [] OTHER    -> Number(o, a, a)

SupportedChannel(c) == c \in 1..12 \/ (IsCc3235 /\ c \in Channels5Ghz)

\* isSupportedChannel is set by a good channel and never reset.
TakeChannel(a) ==
  LET c  == IF a = NULL THEN p.c ELSE a % 256
      ok == p.isSupportedChannel \/ SupportedChannel(c)
  IN [p EXCEPT !.isSupportedChannel = ok, !.c = IF ok THEN c ELSE 1]

\* A limit that is out of range becomes its default.
Limited(o, a, range, default) ==
  LET n == IF a = NULL THEN p[o] ELSE a % 256
  IN [p EXCEPT ![o] = IF n \in range THEN n ELSE default]

TakeStartAp(o, a) ==
  CASE o = "h"   -> Number(o, a, a = "yes")
    [] o = "c"   -> TakeChannel(a)
    [] o = "txp" -> Limited(o, a, 0..15, 0)
    [] o = "l"   -> Limited(o, a, 1..4, 4)
    [] OTHER     -> Pointer(o, a)

\* Only a refused -e leaves the comparison alone.
TakeFilter(o, a) ==
  CASE o \in {"f", "v"} -> Pointer(o, a)
    [] o = "e" -> IF a = "other" THEN p ELSE Number(o, a, a)
    [] o = "a" -> Number(o, a, IF a = "other" THEN "pass" ELSE a)
    [] o = "m" -> Number(o, a, IF a = "other" THEN "L4_CON" ELSE a)
    [] o = "o" -> [p EXCEPT !.o = IF a = NULL THEN 0 ELSE a]
    [] o = "i" -> Number(o, a, a % 256)

\* The text of a wake-up pattern without its closing quote, in a byte.
PatternLength(a) == (a - 1) % 256
Quoted(a) == a # -1

TakeWoWLAN(o, a) ==
  CASE o = "v" -> IF a = NULL \/ ~Quoted(a) THEN p
                  ELSE [p EXCEPT !.v = PatternLength(a), !.wowStr = @ \/ PatternLength(a) <= 16]
    [] o = "i" -> [p EXCEPT !.i = IF a = NULL THEN 0 ELSE a % 65536]
    [] o = "u" -> IF a = NULL THEN p
                  ELSE [p EXCEPT !.u = a % 256, !.actionID = TRUE]

TakePing(o, a) ==
  CASE o = "h" -> Pointer(o, a)
    [] o = "c" -> IF a \in 1..(MAX_PING_SIZE - 1) THEN [p EXCEPT !.c = a] ELSE p
    [] o = "s" -> IF a = NULL \/ a <= 0 THEN p ELSE [p EXCEPT !.s = a]
    [] OTHER   -> IF a = NULL \/ a <= 0 THEN p ELSE [p EXCEPT ![o] = 1000 * a]

TakeAdvertise(o, a) ==
  CASE o = "p"   -> Number(o, a, a % 65536)
    [] o = "ttl" -> LET t == IF a = NULL THEN p.ttl ELSE a
                    IN [p EXCEPT !.ttl = IF t = 0 THEN DEF_ADVERTISE_TTL ELSE t]
    [] OTHER     -> Pointer(o, a)

TakeQuery(o, a) ==
  IF o = "o" THEN (IF a = "yes" THEN [p EXCEPT !.o = TRUE] ELSE p) ELSE Pointer(o, a)

\* The port is an unsigned short kept in an int16_t.
TakeTransfer(o, a) ==
  CASE o = "u"  -> [p EXCEPT !.udp = TRUE]
    [] o = "s"  -> [p EXCEPT !.server = TRUE]
    [] o = "V"  -> [p EXCEPT !.ipv6 = TRUE]
    [] o = "nb" -> [p EXCEPT !.nb = TRUE]
    [] o = "p"  -> Number(o, a, Int16(a))
    [] o = "n"  -> Number(o, a, a)
    [] o = "c"  -> IF a # NULL /\ p.ip = NULL
                   THEN [p EXCEPT !.ip = a, !.server = FALSE] ELSE p

TakeSend(o, a) == TakeTransfer(o, a)
TakeRecv(o, a) == TakeTransfer(o, a)
TakeSoftRoaming(o, a) == Number(o, a, a)
TakeTriggeredRoaming(o, a) == Number(o, a, Int16(a))
TakeConnect(o, a) == Pointer(o, a)
TakeProfile(o, a) == Pointer(o, a)

Take(o, a) ==
  CASE cmd = "scan"      -> TakeScan(o, a)
    [] cmd = "setpolicy" -> TakeSetPolicy(o, a)
    [] cmd = "startap"   -> TakeStartAp(o, a)
    [] cmd = "filter"    -> TakeFilter(o, a)
    [] cmd = "wowlan"    -> TakeWoWLAN(o, a)
    [] cmd = "ping"      -> TakePing(o, a)
    [] cmd = "mdnsAdv"   -> TakeAdvertise(o, a)
    [] cmd = "mdnsQuery" -> TakeQuery(o, a)
    [] cmd = "send"      -> TakeSend(o, a)
    [] cmd = "recv"      -> TakeRecv(o, a)
    [] cmd = "soft"      -> TakeSoftRoaming(o, a)
    [] cmd = "triggered" -> TakeTriggeredRoaming(o, a)
    [] cmd = "connect"   -> TakeConnect(o, a)
    [] cmd = "profile"   -> TakeProfile(o, a)
    [] OTHER             -> Pointer(o, a)

\* An argument that asks for the usage and ends the loop.
Breaks(o, a) ==
  \/ cmd = "filter" /\ o = "e" /\ a = "other"
  \/ cmd = "filter" /\ o \in {"a", "m"} /\ a = NULL
  \/ cmd = "wowlan" /\ o = "v" /\ a # NULL /\ (~Quoted(a) \/ PatternLength(a) > 16)

\* An argument that asks for the usage.
Refuses(o, a) ==
  \/ Breaks(o, a)
  \/ cmd = "setpolicy" /\ o = "h" /\ a = "other"
  \/ cmd = "triggered" /\ a # NULL /\ Int16(a) \notin -85..0

\* A client is named once and by an address.
Returns(o, a) ==
  cmd \in {"send", "recv"} /\ o = "c" /\ (a = NULL \/ p.ip # NULL)

Arguments(o) == IF Syntax[cmd][o] = {} THEN {NULL} ELSE Syntax[cmd][o] \union {NULL}
LineEnds(o, a) == a = NULL /\ Syntax[cmd][o] # {}

keep == <<cmd, status, leaked>>

\* getprofile has its blocks before its line is read.
Line(c) ==
  /\ at = "prompt"
  /\ cmd' = c /\ p' = Defaults[c] /\ help' = FALSE /\ read' = 0
  /\ heap' = IF c = "getprofile" THEN {"s", "mac", "pr"} ELSE {}
  /\ status' \in SUBSET {"CONNECTION", "IP_ACQUIRED", "IPV6_ACQUIRED"}
  /\ at' = "options"
  /\ UNCHANGED leaked

Option(o, a) ==
  /\ at = "options" /\ read < MaxOptions /\ cmd # "plain"
  /\ p' = Take(o, a)
  /\ help' = (help \/ Refuses(o, a))
  /\ heap' = IF cmd \in {"send", "recv"} /\ o = "c" /\ p'.ip # p.ip
             THEN heap \union {"ip"} ELSE heap
  /\ at' = IF Returns(o, a) THEN "rejected"
           ELSE IF Breaks(o, a) \/ LineEnds(o, a) THEN "checks" ELSE "options"
  /\ read' = read + 1
  /\ UNCHANGED keep

\* getprofile does not know -help.
HelpOption ==
  /\ at = "options" /\ cmd # "getprofile"
  /\ help' = TRUE
  /\ UNCHANGED <<at, p, heap, read, keep>>

UnknownWord ==
  /\ at = "options"
  /\ help' = TRUE /\ at' = "checks"
  /\ UNCHANGED <<p, heap, read, keep>>

\* Most parsers take an empty line for a call for help.
EndOfLine ==
  /\ at = "options"
  /\ help' = (help \/ (p = Defaults[cmd] /\ read = 0 /\
                       cmd \notin {"plain", "mdnsAdv", "mdnsQuery"}))
  /\ at' = "checks"
  /\ UNCHANGED <<p, heap, read, keep>>

-----------------------------------------------------------------------------
(* The checks after the loop.                                              *)

Given(fields) == {f \in fields : p[f] # NULL}

Rejects(blocks) ==
  at' = "rejected" /\ heap' = heap \union blocks /\ UNCHANGED <<p, help, read, keep>>

AcceptsAs(q, blocks) ==
  /\ at' = "accepted" /\ p' = q /\ heap' = heap \union blocks
  /\ UNCHANGED <<help, read, keep>>

Accepts(blocks) == AcceptsAs(p, blocks)

Checks(c) == at = "checks" /\ cmd = c

\* scan, setpolicy, the roaming commands and those without options.
CheckHelp ==
  /\ at = "checks" /\ cmd \in {"scan", "setpolicy", "plain", "soft", "triggered"}
  /\ IF help THEN Rejects({}) ELSE Accepts({})

SsidFits   == p.s # NULL /\ p.s <= SL_WLAN_SSID_MAX_LENGTH
KeyFits    == p.p # NULL /\ p.p <= PASSWD_LEN_MAX
SecurityNamed == IF p.t = NULL THEN "OPEN"
                 ELSE IF p.t = "WPS" THEN (IF p.p = NULL THEN "WPS_PBC" ELSE "WPS_PIN")
                 ELSE p.t
SecurityFits  == SecurityNamed # "other" /\ (KeyFits \/ SecurityNamed = "OPEN")

\* A user name makes the network an enterprise one, after the key has been checked
\* against the type that -t had named.
SecurityOf == IF p.ent # NULL THEN "WPA_ENT" ELSE SecurityNamed

Key == IF KeyFits THEN {"key"} ELSE {}

\* Mutant: a key that does not fit is left out, whatever the security.
CheckConnectKeyless ==
  /\ Checks("connect")
  /\ \/ (help \/ ~SsidFits) /\ Rejects({})
     \/ /\ ~help /\ SsidFits
        /\ Accepts({"s"} \union Key \union Given({"ip", "gw", "dns", "ent"}))

CheckConnect ==
  LET held == {"s"} \union Given({"ip", "gw", "dns"}) IN
  /\ Checks("connect")
  /\ \/ (help \/ ~SsidFits) /\ Rejects({})
     \/ /\ ~help /\ SsidFits
        /\ IF SecurityFits
           THEN Accepts(held \union Key \union Given({"ent"}))
           ELSE Rejects(held)

\* A profile has a priority, and it is checked once it has its block.
CheckProfile ==
  LET held == {"s", "pr"} \union Given({"mac"}) IN
  /\ Checks("profile")
  /\ \/ (help \/ ~SsidFits) /\ Rejects({})
     \/ /\ ~help /\ SsidFits
        /\ IF (p.pr = NULL \/ p.pr \in 0..15) /\ SecurityFits
           THEN Accepts(held \union Key \union Given({"ent"}))
           ELSE Rejects(held)

\* The index is the result.  atoi of no index at all gives anything.
CheckGetProfile ==
  /\ Checks("getprofile")
  /\ \E good \in IF p.i = NULL THEN BOOLEAN ELSE {p.i >= 0} :
       IF good /\ ~help THEN Accepts({}) ELSE Rejects({})

\* KeyLen counts the terminating zero.
ApKeyFits == p.p = NULL \/ (p.p + 1 < KEY_LEN_MAX /\ p.p + 1 >= PASSWD_LEN_MIN)

CheckStartAp ==
  LET usage == help \/ (p.txp # 0 /\ p.c \in Channels5Ghz)
      named == p.s # NULL /\ p.s < SL_WLAN_SSID_MAX_LENGTH
      held  == {"s"} \union IF p.p = NULL THEN {} ELSE {"key"} IN
  /\ Checks("startap")
  /\ \/ (usage \/ ~named) /\ Rejects({})
     \/ /\ ~usage /\ named
        /\ IF ApKeyFits /\ p.t \in {NULL, "WPA", "OPEN"} THEN Accepts(held)
           ELSE Rejects(IF ApKeyFits THEN held ELSE {"s"})

\* What a value is worth as an address, a type of frames or a pattern.
TextLength == [mac |-> 17, ip |-> 9, frame |-> 4, subtype |-> 4, long |-> 20]

AddressRule ==
  \/ p.f \in {"S_MAC", "D_MAC", "BSSID"} /\ p.v = "mac"
  \/ p.f \in {"S_IP", "D_IP"} /\ p.v = "ip"

\* A filter for a subtype hangs from the filter of its type.
FrameRule ==
  \/ p.f = "FRAME_TYPE" /\ p.v = "frame"
  \/ p.f = "FRAME_SUBTYPE" /\ p.i # 0 /\ p.v = "subtype"

PatternRule ==
  /\ p.f = "PATTERN"
  /\ p.o \in 0..(MAX_PAYLOAD_SIZE - TextLength[p.v]) /\ TextLength[p.v] \in 1..16

CheckFilter ==
  /\ Checks("filter")
  /\ IF /\ ~help /\ p.f # NULL /\ p.v # NULL
        /\ AddressRule \/ FrameRule \/ PatternRule
     THEN Accepts({}) ELSE Rejects({})

CheckWoWLAN ==
  /\ Checks("wowlan")
  /\ IF p.wowStr /\ p.actionID /\ ~help THEN Accepts({}) ELSE Rejects({})

\* The host is copied even when the usage is shown.
CheckPing ==
  /\ Checks("ping")
  /\ IF p.h # NULL /\ ~help THEN Accepts({"h"}) ELSE Rejects(Given({"h"}))

CheckAdvertise ==
  /\ Checks("mdnsAdv")
  /\ IF ~help /\ Given({"n", "st", "so"}) = {"n", "st", "so"}
     THEN Accepts(Given({"n", "t"})) ELSE Rejects({})

CheckQuery ==
  /\ Checks("mdnsQuery")
  /\ IF ~help /\ Given({"st", "so"}) = {"st", "so"} /\ "CONNECTION" \in status
     THEN Accepts({}) ELSE Rejects({})

Ipv6 == IF p.server THEN p.ipv6 ELSE p.ip = "ipv6"
AddressFits == p.server \/ p.ip # "bad"
Reachable == "CONNECTION" \in status \/
             (IF Ipv6 THEN "IPV6_ACQUIRED" ELSE "IP_ACQUIRED") \in status

\* What send and recv are called with.
Settled(n) ==
  [p EXCEPT !.ipv6 = Ipv6, !.n = n, !.p = IF p.p <= 0 THEN 5001 ELSE p.p]

CheckSend ==
  /\ Checks("send")
  /\ IF ~help /\ AddressFits /\ Reachable
     THEN AcceptsAs(Settled(IF p.n <= 0 THEN 1000 ELSE p.n), {}) ELSE Rejects({})

CheckRecv ==
  /\ Checks("recv")
  /\ IF ~help /\ AddressFits /\ Reachable
     THEN AcceptsAs(Settled(IF p.n = 0 THEN 1000 ELSE p.n), {}) ELSE Rejects({})

CheckCountrycode ==
  /\ Checks("country")
  /\ IF ~help /\ p.g = "US" THEN Accepts({}) ELSE Rejects({})

-----------------------------------------------------------------------------
(* The end of the callback.                                                *)

FreeConnectCmd == {"s", "ip", "gw", "dns", "key", "ent"}
\* Mutant: the block of a priority that was refused stays.
FreeProfileCmdShort == {"s", "mac", "key", "ent"}
FreeProfileCmd == {"s", "mac", "pr", "key", "ent"}
FreeStartApCmd == {"s", "key"}
FreePingCmd == {"h"}
FreemDNSAdvertiseCmd == {"n", "t"}
FreeSendCmd == {"ip"}
FreeRecvCmd == {"ip"}

\* getprofile gives its three blocks back itself, or with FreeProfileCmd.
Freed ==
  CASE cmd = "connect" -> FreeConnectCmd
    [] cmd = "profile" -> FreeProfileCmd
    [] cmd = "getprofile" -> {"s", "mac", "pr"}
    [] cmd = "startap" -> FreeStartApCmd
    [] cmd = "ping"    -> FreePingCmd
    [] cmd = "mdnsAdv" -> FreemDNSAdvertiseCmd
    [] cmd = "send"    -> FreeSendCmd
    [] cmd = "recv"    -> FreeRecvCmd
    [] OTHER           -> {}

Ends(lost) ==
  /\ at' = "prompt" /\ heap' = {} /\ leaked' = leaked \union lost
  /\ UNCHANGED <<cmd, p, help, status, read>>

\* The usage has been printed, or the command has run, in part or entirely.
CallbackReturns ==
  /\ at \in {"rejected", "accepted"}
  /\ Ends({<<cmd, b>> : b \in heap \ Freed})

\* A ping that goes through keeps its copy of the host.
PingReturns ==
  /\ at = "accepted" /\ cmd = "ping"
  /\ status \intersect {"CONNECTION", "IP_ACQUIRED"} # {}
  /\ Ends({<<cmd, b>> : b \in heap})

Next ==
  \/ \E c \in Commands : Line(c)
  \/ \E o \in DOMAIN Syntax[cmd] : \E a \in Arguments(o) : Option(o, a)
  \/ HelpOption \/ UnknownWord \/ EndOfLine
  \/ CheckHelp \/ CheckConnect \/ CheckProfile \/ CheckGetProfile \/ CheckStartAp
  \/ CheckFilter \/ CheckWoWLAN \/ CheckPing \/ CheckAdvertise \/ CheckQuery
  \/ CheckSend \/ CheckRecv \/ CheckCountrycode
  \/ CallbackReturns \/ PingReturns

Spec == Init /\ [][Next]_vars

-----------------------------------------------------------------------------

Accepted(c) == at = "accepted" /\ cmd = c

TypeOK ==
  /\ cmd \in Commands
  /\ at \in {"prompt", "options", "checks", "accepted", "rejected"}
  /\ DOMAIN p = DOMAIN Defaults[cmd]
  /\ help \in BOOLEAN /\ read \in 0..MaxOptions
  /\ cmd \in {"send", "recv"} => p.p \in Int16s
  /\ cmd = "startap" => {p.c, p.txp, p.l} \subseteq 0..255
  /\ heap \subseteq {"s", "p", "key", "ip", "gw", "dns", "ent", "mac", "pr", "h", "n", "t"}

\* However often an option is given, with or without its argument and with
\* numbers that do not fit the type they are stored in, these parameters of an
\* accepted command are in the range the parser checks them against, as the value
\* is stored: the entries of a scan, the station limit, the power and the length
\* of the name of an access point, a profile's priority, the length of a wake-up
\* pattern, the number of pings, a time to live, the threshold of a triggered
\* roaming, the packets to send and the port.  It is not so of the others: a good
\* channel lets a later bad one pass (line 1010), a key of an access point may
\* have 7 characters (1099), and the threshold of setpolicy (260) and the number
\* of packets to receive (2838) are not checked.
AcceptedInRange ==
  /\ Accepted("scan") =>
       p.n \in 0..MAX_SSID_ENTRIES
  /\ Accepted("startap") =>
       /\ p.l \in 1..4 /\ p.txp \in 0..15
       /\ p.txp # 0 => p.c \notin Channels5Ghz
       /\ p.s < SL_WLAN_SSID_MAX_LENGTH
  /\ Accepted("profile") => p.pr \in {NULL} \union 0..15
  /\ Accepted("wowlan") => p.v <= 16
  /\ Accepted("ping") => p.c \in 1..(MAX_PING_SIZE - 1)
  /\ Accepted("mdnsAdv") => p.ttl # 0
  /\ Accepted("triggered") => p.r \in -85..0
  /\ Accepted("send") => p.n > 0
  /\ (Accepted("send") \/ Accepted("recv")) => p.p \in Int16s /\ p.p > 0

\* Every block the parsers allocate is given back, on whichever of their
\* returns the line ends; the one exception is the host of a ping that
\* succeeded (cmdPingCallback returns 0 without FreePingCmd).
OnlyPingLeaks == leaked \subseteq {<<"ping", "h">>}

\* A network that connect or profile takes for WPA or WPS with a PIN has its key,
\* and an enterprise network its user name: neither a key that is too long nor the
\* order of the options gets round the check.  The key of an enterprise network is
\* not claimed: -ent without -t is taken with no key at all (line 746 against
\* 732).  A WPS push button has no key and is refused for that, which the
\* property neither forbids nor asks for; wlan_ap_start takes a protected network
\* without a key (1095).
ProtectedHasKey ==
  (Accepted("connect") \/ Accepted("profile")) =>
    /\ SecurityOf \notin {"OPEN", "WPS_PBC", "WPA_ENT"} => "key" \in heap
    /\ p.ent # NULL => "ent" \in heap

\* A client that sends or receives has an address that was converted, in a
\* block of its own, and a network to use it on.
ClientHasAddress ==
  (Accepted("send") \/ Accepted("recv")) =>
    /\ ~p.server => p.ip \in {"ipv4", "ipv6"} /\ "ip" \in heap /\ (p.ipv6 <=> p.ip = "ipv6")
    /\ status # {}

\* What is accepted has what the command needs to join a network or to reach the
\* other end, on every path through the options and checks.
AcceptedComplete == ProtectedHasKey /\ ClientHasAddress

=============================================================================
