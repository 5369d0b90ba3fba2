------------------------------ MODULE HostConfig ------------------------------
(***************************************************************************)
(* What the host works out from text before and between events: its        *)
(* configuration from the command line (HostRuntimeConfig::FromArgs), the  *)
(* names of its shared objects from the session id                         *)
(* (BuildSharedMemoryNames) and a file URL from a path                     *)
(* (MakeFileUrlFromPath).                                                  *)
(*                                                                         *)
(* An argument is a record of its whole text and of the key and the value  *)
(* that its first "=" splits it into (the key is the text and the value is *)
(* empty if it has none).  Names, URLs and paths are sequences of          *)
(* characters, the fixed parts of a name counting as one.                  *)
(***************************************************************************)
EXTENDS Integers, Sequences, FiniteSets, SequencesExt

CONSTANTS UIntMod,   \* 2^32
          NumberOf,  \* text -> the number it spells, where it is one to the end
          SizeOf,    \* text -> the texts before and after its first x
          CharsOf    \* text -> its characters, where it is used as a session id

ASSUME HostConfigAssumption ==
    /\ UIntMod \in Nat /\ UIntMod > 1920  \* the default width is one
    /\ \A t \in DOMAIN NumberOf : NumberOf[t] \in Int
    /\ \A t \in DOMAIN SizeOf : SizeOf[t] \in Seq(STRING) /\ Len(SizeOf[t]) = 2
    /\ \A t \in DOMAIN CharsOf : CharsOf[t] \in Seq(STRING)

DefaultConfig == [help |-> FALSE, tuning |-> TRUE, cadence |-> FALSE, url |-> "default",
                  width |-> 1920, height |-> 1080, fps |-> 60, session |-> ""]

-----------------------------------------------------------------------------
(* FromArgs.                                                               *)

Valued == {"--url", "--session-id", "--width", "--height", "--fps", "--size"}
Help == {"-h", "--help", "/?"}
Flags == Help \cup {"--no-thread-tuning", "--enable-cadence-feedback"}

\* An argument; no flag holds a "=" to be split at.
ArgRecords == {a \in [text : STRING, key : STRING, value : STRING] :
                 a.text \in Flags => a.key = a.text}

\* strtoul: a negative number wraps; one too large for it, with either sign, is
\* read as the largest.
ToUInt(n) == IF n \in 1 - UIntMod .. UIntMod - 1 THEN n % UIntMod ELSE UIntMod - 1
AtLeastOneNot(n) == n  \* a mutated form
AtLeastOne(n) == IF n < 1 THEN 1 ELSE n
Clamped(n) == IF n < 1 THEN 1 ELSE IF n > 240 THEN 240 ELSE n

IsNumber(v) == v \in DOMAIN NumberOf
IsSize(v) == v \in DOMAIN SizeOf /\ IsNumber(SizeOf[v][1]) /\ IsNumber(SizeOf[v][2])
Extent(v) == AtLeastOne(ToUInt(NumberOf[v]))

\* What one option does with its value.
Assign(cfg, key, v) ==
    CASE key = "--url" /\ v # "" -> [cfg EXCEPT !.url = v]
      [] key = "--session-id" -> [cfg EXCEPT !.session = v]
      [] key = "--width" /\ IsNumber(v) -> [cfg EXCEPT !.width = Extent(v)]
      [] key = "--height" /\ IsNumber(v) -> [cfg EXCEPT !.height = Extent(v)]
      [] key = "--fps" /\ IsNumber(v) -> [cfg EXCEPT !.fps = Clamped(NumberOf[v])]
      [] key = "--size" /\ IsSize(v) -> [cfg EXCEPT !.width = Extent(SizeOf[v][1]),
                                                    !.height = Extent(SizeOf[v][2])]
      [] OTHER -> cfg

Flag(cfg, text) ==
    CASE text \in Help -> [cfg EXCEPT !.help = TRUE]
      [] text = "--no-thread-tuning" -> [cfg EXCEPT !.tuning = FALSE]
      [] text = "--enable-cadence-feedback" -> [cfg EXCEPT !.cadence = TRUE]

\* Mutant: the flags are looked for before the value an option waits for.
TakeArgFlagsFirst(s, a) ==
    CASE a.text \in Flags -> [s EXCEPT !.cfg = Flag(s.cfg, a.text)]
      [] s.want # "" /\ a.text \notin Flags ->
            [cfg |-> Assign(s.cfg, s.want, a.text), want |-> ""]
      [] s.want = "" /\ a.key \in Valued ->
            IF a.value = "" THEN [s EXCEPT !.want = a.key]
            ELSE [s EXCEPT !.cfg = Assign(s.cfg, a.key, a.value)]
      [] OTHER -> s

\* One argument: the value the option before it waits for, or one of its own.
TakeArg(s, a) ==
    CASE s.want # "" -> [cfg |-> Assign(s.cfg, s.want, a.text), want |-> ""]
      [] s.want = "" /\ a.text \in Flags -> [s EXCEPT !.cfg = Flag(s.cfg, a.text)]
      [] s.want = "" /\ a.key \in Valued ->
            IF a.value = "" THEN [s EXCEPT !.want = a.key]
            ELSE [s EXCEPT !.cfg = Assign(s.cfg, a.key, a.value)]
      [] OTHER -> s

FromArgs(args) == FoldLeft(TakeArg, [cfg |-> DefaultConfig, want |-> ""], args).cfg

-----------------------------------------------------------------------------
(* What the usage text promises of a command line, said without reading it *)
(* in order: an option is an argument that no option before it has taken,  *)
(* and the last option that can be understood wins.                        *)

Takes(args, i) == args[i].key \in Valued /\ args[i].value = ""

Heads(args) ==
    CHOOSE S \in SUBSET DOMAIN args :
        \A i \in DOMAIN args : i \in S <=> i = 1 \/ i - 1 \notin S \/ ~Takes(args, i - 1)

ValueAt(args, i) == IF args[i].value # "" THEN args[i].value
                    ELSE IF i + 1 \in DOMAIN args THEN args[i + 1].text ELSE ""

Understood(key, v) ==
    CASE key = "--size" -> IsSize(v)
      [] key = "--url" -> v # ""
      [] key = "--session-id" -> TRUE
      [] OTHER -> IsNumber(v)

\* The last option among keys whose value is understood, with its value.
LastOf(args, keys) ==
    LET set == {i \in Heads(args) : /\ args[i].key \in keys
                                    /\ args[i].value # "" \/ i + 1 \in DOMAIN args
                                    /\ Understood(args[i].key, ValueAt(args, i))}
    IN  IF set = {} THEN [key |-> "", value |-> ""]
        ELSE LET i == Max(set) IN [key |-> args[i].key, value |-> ValueAt(args, i)]

Promised(args) ==
    LET Side(last, n, default) ==
            CASE last.key = "" -> default
              [] last.key = "--size" -> Extent(SizeOf[last.value][n])
              [] OTHER -> Extent(last.value)
        Given(texts) == \E i \in Heads(args) : args[i].text \in texts
        fps == LastOf(args, {"--fps"})
        page == LastOf(args, {"--url"})
    IN  [help |-> Given(Help),
         tuning |-> ~Given({"--no-thread-tuning"}),
         cadence |-> Given({"--enable-cadence-feedback"}),
         url |-> IF page.key = "" THEN "default" ELSE page.value,
         width |-> Side(LastOf(args, {"--width", "--size"}), 1, 1920),
         height |-> Side(LastOf(args, {"--height", "--size"}), 2, 1080),
         fps |-> IF fps.key = "" THEN 60 ELSE Clamped(NumberOf[fps.value]),
         session |-> LastOf(args, {"--session-id"}).value]

-----------------------------------------------------------------------------
(* The names of the shared objects.                                        *)

Legal == {"a", "b", "0", "1", "-", "_"}  \* of the letters, digits, "-" and "_"

KeepLegal(kept, c) == IF c \in Legal THEN Append(kept, c) ELSE kept

SanitizeSessionId(session) == FoldLeft(KeepLegal, <<>>, CharsOf[session])

MakeScopedName(base, suffix) == IF suffix = <<>> THEN <<base>> ELSE <<base, "_">> \o suffix

ScopedBases == {"Frame", "Input", "FrameReady", "InputReady", "Control", "ControlReady",
                "Console", "ConsoleReady", "Shutdown", "SharedFence", "SharedPopupTex"}

SlotNameShared(slot, suffix) == <<"SharedTex", "_", slot>>  \* mutated: no session
MakeSharedTextureSlotName(slot, suffix) == MakeScopedName("SharedTex", suffix) \o <<"_", slot>>

BuildSharedMemoryNames(suffix) ==
    {MakeScopedName(b, suffix) : b \in ScopedBases} \cup
    {MakeSharedTextureSlotName(s, suffix) : s \in {"0", "1", "2"}}

-----------------------------------------------------------------------------
(* The URL of a file.                                                      *)

Hex(c) == CASE c = " " -> <<"2", "0">> [] c = "#" -> <<"2", "3">> [] c = "?" -> <<"3", "F">>
            [] c = "%" -> <<"2", "5">> [] c = "TAB" -> <<"0", "9">>

EscapedNotPercent == {" ", "#", "?", "TAB"}  \* a mutated form
Escaped == {" ", "#", "?", "%", "TAB"}       \* TAB: one of the characters below 0x20

EncodeFileUrlPath(path) ==
    FlattenSeq([i \in DOMAIN path |->
        IF path[i] \in Escaped THEN <<"%">> \o Hex(path[i]) ELSE <<path[i]>>])

Slashed(path) == [i \in DOMAIN path |-> IF path[i] = "\\" THEN "/" ELSE path[i]]

FilePrefix == <<"f", "i", "l", "e", ":", "/", "/">>

MakeFileUrlFromPath(rawPath) ==
    LET path == Slashed(rawPath)
        scheme == SubSeq(FilePrefix, 1, 5)
        root == Len(path) >= 1 /\ path[1] = "/"
    IN  CASE IsPrefix(FilePrefix, path) -> path
          [] root /\ Len(path) >= 2 /\ path[2] = "/" -> scheme \o EncodeFileUrlPath(path)
          [] root /\ ~(Len(path) >= 2 /\ path[2] = "/") -> FilePrefix \o EncodeFileUrlPath(path)
          [] OTHER -> FilePrefix \o <<"/">> \o EncodeFileUrlPath(path)

\* What a browser takes a URL to name: up to a query or a fragment, unescaped.
Cut(url) == LET ends == {i \in DOMAIN url : url[i] \in {"?", "#"}}
            IN  IF ends = {} THEN url ELSE SubSeq(url, 1, Min(ends) - 1)

Unescaped(text) ==
    LET At(i) == {c \in Escaped : i + 2 <= Len(text) /\ SubSeq(text, i, i + 2) = <<"%">> \o Hex(c)}
        starts == {i \in DOMAIN text : text[i] = "%" /\ At(i) # {}}
        Inside(i) == \E j \in starts : i \in {j + 1, j + 2}
        Read(i) == IF i \in starts THEN At(i) ELSE IF Inside(i) THEN {} ELSE {text[i]}
    IN  FlattenSeq([i \in DOMAIN text |-> SetToSeq(Read(i))])

FileNamedBy(url) == Unescaped(Cut(SubSeq(url, Len(FilePrefix) + 1, Len(url))))

\* The same path, as the text after file:// has it: a server, or a root.
FileMeant(rawPath) ==
    LET path == Slashed(rawPath)
    IN  CASE Len(path) >= 2 /\ path[1] = "/" /\ path[2] = "/" -> SubSeq(path, 3, Len(path))
          [] Len(path) >= 1 /\ path[1] = "/" /\ ~(Len(path) >= 2 /\ path[2] = "/") -> path
          [] OTHER -> <<"/">> \o path
=============================================================================
