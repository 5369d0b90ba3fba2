----------------------------- MODULE MCHostStart -----------------------------
(***************************************************************************)
(* Every command line of up to three of ten arguments, five session ids    *)
(* and every path made of one of five beginnings and seven ends.           *)
(***************************************************************************)
EXTENDS HostStart

MCNumberOf == [t \in {"0", "-1", "7", "300"} |->
    CASE t = "0" -> 0 [] t = "-1" -> -1 [] t = "7" -> 7 [] t = "300" -> 300]
MCSizeOf == [t \in {"7x0", "7xx"} |-> IF t = "7x0" THEN <<"7", "0">> ELSE <<"7", "x">>]

Bare(text) == [text |-> text, key |-> text, value |-> ""]
Pair(text, key, value) == [text |-> text, key |-> key, value |-> value]

Arguments == {Bare(t) : t \in {"--help", "--no-thread-tuning", "--enable-cadence-feedback",
                                "--width", "--session-id", "--url", "-1"}}
        \cup {Pair("--size=7x0", "--size", "7x0"), Pair("--fps=300", "--fps", "300"),
              Pair("--session-id=a!", "--session-id", "a!")}

MCSessions == {"", "a", "a!", "0", "a_0"}

MCCharsOf == [t \in {a.text : a \in Arguments} \cup MCSessions |->
    CASE t = "a" -> <<"a">> [] t = "a!" -> <<"a", "!">> [] t = "0" -> <<"0">>
      [] t = "a_0" -> <<"a", "_", "0">> [] t = "" -> <<>> [] OTHER -> <<"-", "b">>]

MCArgLists == UNION {[1 .. n -> Arguments] : n \in 0 .. 3}

Beginnings == {<<>>, <<"/">>, <<"\\", "\\", "a">>, <<"a", ":", "\\">>,
               <<"f", "i", "l", "e", ":", "/", "/", "/">>}
Ends == {<<"a">>, <<" ">>, <<"#", "a">>, <<"?">>, <<"%", "2", "0">>, <<"TAB">>, <<"/", "%", "a">>}
MCPaths == {b \o e : b \in Beginnings, e \in Ends}
=============================================================================
