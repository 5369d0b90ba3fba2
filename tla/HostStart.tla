------------------------------- MODULE HostStart -------------------------------
(***************************************************************************)
(* The life of a host process, from its command line to its browser, over  *)
(* and over: main, OnContextInitialized and OsrHandler::Init run step by   *)
(* step, any step that can fail may, and the process may be killed at any  *)
(* point and launched again under the same session id.                     *)
(*                                                                         *)
(* The input ring lives in a named mapping that stays as long as one of    *)
(* the two processes holds it, so a host may find the ring of an earlier   *)
(* host, with a producer in the middle of a publish; Init clears the       *)
(* indices with two stores and looks at nothing.  What an event is does    *)
(* not matter here, only which host it was sent to: its stamp.             *)
(*                                                                         *)
(* External: the launcher, the producer (it attaches to a mapping that     *)
(* exists, gives up on a full ring, stores the event, publishes the        *)
(* index) and CEF, which creates and closes the browser.                   *)
(***************************************************************************)
EXTENDS HostConfig

CONSTANTS ArgLists,     \* the command lines
          Sessions,     \* the session ids of other hosts
          Paths,        \* what OpenLocalFile is asked to open
          Capacity,     \* INPUT_RING_CAPACITY
          Laps,         \* 2^32 \div Capacity
          MaxLaunches,  \* bound: processes launched
          MaxSends      \* bound: events the producer begins to send

ASSUME HostStartAssumption ==
    /\ ArgLists \subseteq Seq(ArgRecords)
    /\ Sessions \cup {FromArgs(args).session : args \in ArgLists} \subseteq DOMAIN CharsOf
    /\ Paths \subseteq Seq(STRING)
    /\ Capacity \in Nat \ {0}
    /\ Laps \in Nat /\ Laps >= 2
    /\ MaxLaunches \in Nat
    /\ MaxSends \in Nat

VARIABLES
    pc,         \* where the main thread of the host is
    argv,       \* its command line, until FromArgs has been acted upon
    config,     \* m_config, until the browser is asked for
    suffix,     \* the session suffix of the hosts and of the ring
    launches,   \* processes launched so far
    channels,   \* the channels this process has mapped
    browser,    \* "none", "asked" (CreateBrowser), "open" (OnAfterCreated), "closed"
    url,        \* what the main frame was last told to load a file by
    opening,    \* history: the path that was asked for
    writeIndex, readIndex, slots,  \* the input ring; slots hold stamps
    life,       \* history: how often a host has cleared the write index
    attached,   \* the producer holds the mapping
    prodPc, prodAt,  \* where the producer is, and the index it has read
    prodLife,   \* history: the life it read the index in
    sends,      \* events it has begun to send
    straddled,  \* history: an index read in one life was published in a later one
    delivered   \* the stamp of the event ReadEvent returned last in this process

hostVars == <<pc, argv, config, suffix, launches, channels, browser>>
pageVars == <<url, opening>>
ringVars == <<writeIndex, readIndex, slots>>
prodVars == <<attached, prodPc, prodAt, prodLife, sends, straddled>>
startVars == <<hostVars, pageVars, ringVars, life, prodVars, delivered>>

Unwritten == 0  \* the stamp of memory no event was stored in
Nothing == -1   \* nothing was returned yet

IndexModulus == Capacity * Laps
NextIndex(i) == (i + 1) % IndexModulus
Distance(r, w) == (w - r + IndexModulus) % IndexModulus

Channels == {"frame", "input", "control", "console"}

StartTypeOK ==
    /\ pc \in {"off", "parsed", "clearWrite", "clearRead", "d3d", "create", "loop"} \cup Channels
    /\ config.width \in 1 .. UIntMod /\ config.height \in 1 .. UIntMod
    /\ config.fps \in 1 .. 240
    /\ launches \in 0 .. MaxLaunches
    /\ channels \subseteq Channels
    /\ browser \in {"none", "asked", "open", "closed"}
    /\ writeIndex \in 0 .. IndexModulus - 1
    /\ readIndex \in 0 .. IndexModulus - 1
    /\ slots \in [0 .. Capacity - 1 -> 0 .. life]
    /\ life \in 0 .. MaxLaunches
    /\ prodPc \in {"idle", "reserved", "stored"}
    /\ prodAt \in 0 .. IndexModulus - 1
    /\ prodLife \in 0 .. life
    /\ sends \in 0 .. MaxSends
    /\ delivered \in -1 .. life

StartInit ==
    /\ pc = "off" /\ argv = <<>> /\ config = DefaultConfig /\ suffix = <<>>
    /\ launches = 0 /\ channels = {} /\ browser = "none"
    /\ url = <<>> /\ opening = <<>>
    /\ writeIndex = 0 /\ readIndex = 0 /\ slots = [s \in 0 .. Capacity - 1 |-> Unwritten]
    /\ life = 0
    /\ attached = FALSE /\ prodPc = "idle" /\ prodAt = 0 /\ prodLife = 0
    /\ sends = 0 /\ straddled = FALSE
    /\ delivered = Nothing

-----------------------------------------------------------------------------
(* main.                                                                   *)

Launch ==
    /\ pc = "off"
    /\ launches < MaxLaunches
    /\ \E args \in ArgLists :
        /\ argv' = args
        /\ config' = FromArgs(args)
        /\ suffix' = SanitizeSessionId(config'.session)
        /\ launches = 0 \/ suffix' = suffix
    /\ launches' = launches + 1
    /\ pc' = "parsed"
    /\ UNCHANGED <<channels, browser, pageVars, ringVars, life, prodVars, delivered>>

\* The mapping goes with its last holder; a new one is made of zeros.
LeaveMapping(held) ==
    IF held THEN UNCHANGED ringVars
    ELSE writeIndex' = 0 /\ readIndex' = 0 /\ slots' = [s \in 0 .. Capacity - 1 |-> Unwritten]

\* The process is gone: help was asked for, there is no D3D device, it was killed.
Exit ==
    /\ pc' = "off" /\ argv' = <<>> /\ config' = DefaultConfig
    /\ channels' = {} /\ browser' = "none" /\ url' = <<>> /\ opening' = <<>>
    /\ delivered' = Nothing
    /\ LeaveMapping(attached)
    /\ UNCHANGED <<suffix, launches, life, prodVars>>

ExitAtOnce == pc = "parsed" /\ Exit

InitDevice ==
    /\ pc = "parsed"
    /\ ~config.help
    /\ pc' = "frame"
    /\ argv' = <<>>
    /\ UNCHANGED <<config, suffix, launches, channels, browser, pageVars, ringVars, life,
                   prodVars, delivered>>

Killed == pc # "off" /\ pc # "parsed" /\ Exit

-----------------------------------------------------------------------------
(* OnContextInitialized, with OsrHandler::Init.                            *)

Following(c) == CASE c = "frame" -> "input" [] c = "input" -> "clearWrite"
             [] c = "control" -> "console" [] c = "console" -> "d3d"

\* A channel's Init as far as its mapping and its event.
MapChannel ==
    /\ pc \in Channels
    /\ channels' = channels \cup {pc}
    /\ pc' = Following(pc)
    /\ UNCHANGED <<argv, config, suffix, launches, browser, pageVars, ringVars, life, prodVars,
                   delivered>>

\* Mutant: a channel that could not be mapped is left out.
InitFailsSoftly ==
    /\ pc \in Channels \cup {"d3d"}
    /\ pc' = IF pc = "d3d" THEN "loop" ELSE Following(pc)
    /\ UNCHANGED <<argv, config, suffix, launches, channels, browser, pageVars, ringVars, life,
                   prodVars, delivered>>

\* Anything in Init fails: the handler goes, and the message loop runs without a browser.
InitFails ==
    /\ pc \in Channels \cup {"d3d"}
    /\ pc' = "loop"
    /\ channels' = {}
    /\ config' = DefaultConfig
    /\ LeaveMapping(attached)
    /\ UNCHANGED <<argv, suffix, launches, browser, pageVars, life, prodVars, delivered>>

\* new (&m_pRing->write_index) std::atomic<uint32_t>(0)
ClearWrite ==
    /\ pc = "clearWrite"
    /\ writeIndex' = 0
    /\ life' = life + 1
    /\ pc' = "clearRead"
    /\ UNCHANGED <<argv, config, suffix, launches, channels, browser, pageVars, readIndex, slots,
                   prodVars, delivered>>

\* Mutant: the read index is left where the earlier host had it.
ClearReadForgotten ==
    /\ pc = "clearRead"
    /\ pc' = "control"
    /\ UNCHANGED <<argv, config, suffix, launches, channels, browser, pageVars, ringVars, life,
                   prodVars, delivered>>

\* new (&m_pRing->read_index) std::atomic<uint32_t>(0)
ClearRead ==
    /\ pc = "clearRead"
    /\ readIndex' = 0
    /\ pc' = "control"
    /\ UNCHANGED <<argv, config, suffix, launches, channels, browser, pageVars, writeIndex, slots,
                   life, prodVars, delivered>>

InitD3DInterfaces ==
    /\ pc = "d3d"
    /\ pc' = "create"
    /\ UNCHANGED <<argv, config, suffix, launches, channels, browser, pageVars, ringVars, life,
                   prodVars, delivered>>

CreateBrowser ==
    /\ pc = "create"
    /\ pc' = "loop"
    /\ browser' = "asked"
    /\ config' = DefaultConfig
    /\ UNCHANGED <<argv, suffix, launches, channels, pageVars, ringVars, life, prodVars, delivered>>

-----------------------------------------------------------------------------
(* The browser: created and closed by CEF, told what to load, sent input.  *)

OnAfterCreated ==
    /\ browser = "asked"
    /\ browser' = "open"
    /\ UNCHANGED <<pc, argv, config, suffix, launches, channels, pageVars, ringVars, life,
                   prodVars, delivered>>

\* Nobody leaves the message loop: the process stays.
OnBeforeClose ==
    /\ browser = "open"
    /\ browser' = "closed"
    /\ url' = <<>> /\ opening' = <<>>
    /\ UNCHANGED <<pc, argv, config, suffix, launches, channels, ringVars, life, prodVars,
                   delivered>>

OpenLocalFile ==
    /\ browser = "open"
    /\ \E path \in Paths : opening' = path /\ url' = MakeFileUrlFromPath(path)
    /\ UNCHANGED <<hostVars, ringVars, life, prodVars, delivered>>

\* The input thread's pump; SpscRing has the steps of ReadEvent.
ReadEvent ==
    /\ browser = "open"
    /\ readIndex # writeIndex
    /\ delivered' = slots[readIndex % Capacity]
    /\ readIndex' = NextIndex(readIndex)
    /\ UNCHANGED <<hostVars, pageVars, writeIndex, slots, life, prodVars>>

-----------------------------------------------------------------------------
(* The producer.                                                           *)

Attach ==
    /\ ~attached
    /\ "input" \in channels
    /\ attached' = TRUE
    /\ UNCHANGED <<hostVars, pageVars, ringVars, life, prodPc, prodAt, prodLife, sends, straddled,
                   delivered>>

\* It closes the mapping, or its process ends, wherever it is.
Detach ==
    /\ attached
    /\ attached' = FALSE
    /\ prodPc' = "idle"
    /\ LeaveMapping("input" \in channels)
    /\ UNCHANGED <<hostVars, pageVars, life, prodAt, prodLife, sends, straddled, delivered>>

Reserve ==
    /\ attached /\ prodPc = "idle" /\ sends < MaxSends
    /\ Distance(readIndex, writeIndex) < Capacity
    /\ prodAt' = writeIndex
    /\ prodLife' = life
    /\ sends' = sends + 1
    /\ prodPc' = "reserved"
    /\ UNCHANGED <<hostVars, pageVars, ringVars, life, attached, straddled, delivered>>

Store ==
    /\ prodPc = "reserved"
    /\ slots' = [slots EXCEPT ![prodAt % Capacity] = prodLife]
    /\ prodPc' = "stored"
    /\ UNCHANGED <<hostVars, pageVars, writeIndex, readIndex, life, attached, prodAt, prodLife,
                   sends, straddled, delivered>>

PublishEvent ==
    /\ prodPc = "stored"
    /\ writeIndex' = NextIndex(prodAt)
    /\ straddled' = (straddled \/ prodLife # life)
    /\ prodPc' = "idle"
    /\ UNCHANGED <<hostVars, pageVars, readIndex, slots, life, attached, prodAt, prodLife, sends,
                   delivered>>

-----------------------------------------------------------------------------
StartNext ==
    \/ Launch \/ ExitAtOnce \/ InitDevice \/ Killed
    \/ MapChannel \/ InitFails \/ ClearWrite \/ ClearRead \/ InitD3DInterfaces \/ CreateBrowser
    \/ OnAfterCreated \/ OnBeforeClose \/ OpenLocalFile \/ ReadEvent
    \/ Attach \/ Detach \/ Reserve \/ Store \/ PublishEvent

StartSpec == StartInit /\ [][StartNext]_startVars

-----------------------------------------------------------------------------
(* No input from before a restart reaches the new page: with the ring of   *)
(* an earlier host still there, an event the host reads was sent to it,    *)
(* unless a publish has straddled the clearing of the write index.         *)
NoStaleReplay == delivered # Nothing => straddled \/ delivered = life

(* A browser is asked for only by a process that has all four channels     *)
(* and has cleared the input ring: a step of Init that failed leaves the   *)
(* host without a browser, never with one that nobody can reach.           *)
BrowserIsReachable == browser # "none" => channels = Channels /\ pc = "loop"

(* The configuration is the one the usage text promises: an option is an   *)
(* argument no earlier option has taken for its value, the last that can   *)
(* be understood wins, and the rest change nothing.                        *)
OptionsObeyed == pc = "parsed" => config = Promised(argv)

(* Hosts whose session ids differ after sanitising share no object, not    *)
(* even where the slot number of one reads like the id of another.         *)
SessionsApart ==
    \A other \in Sessions :
        LET theirs == SanitizeSessionId(other)
        IN  theirs # suffix =>
              BuildSharedMemoryNames(theirs) \cap BuildSharedMemoryNames(suffix) = {}

(* The URL the browser is given names the file that was asked for, with    *)
(* any character the path may hold, unless the path is a file URL already, *)
(* which is passed on as it is.                                            *)
UrlFindsFile ==
    opening # <<>> /\ ~IsPrefix(FilePrefix, Slashed(opening)) =>
        FileNamedBy(url) = FileMeant(opening)
=============================================================================
