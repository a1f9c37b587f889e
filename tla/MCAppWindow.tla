---- MODULE MCAppWindow ----
(***************************************************************************)
(* An instance of AppWindow for TLC.  The sequences of the terminal share  *)
(* their first bytes the way "\x1b[?2026h", "\x1b[?2026l", "\x1b]6973;"    *)
(* and "\x1b]52;c;" do.                                                    *)
(***************************************************************************)
EXTENDS AppWindow

BeginBytes   == <<"esc", "[", "h">>
EndBytes     == <<"esc", "[", "l">>
CommandBytes == <<"esc", "]", "c">>
ClipBytes    == <<"esc", "]", "p">>
StBytes      == <<"esc", "\\">>
AllBytes     == {"esc", "[", "]", "h", "l", "c", "p", "7", "\\", "bell", "a", "b"}

Tokens == {BeginBytes, EndBytes, CommandBytes, ClipBytes, StBytes, <<"bell">>, <<"a">>,
           <<"esc", "[", "a">>}

\* Every sequence of at most three tokens, and some longer ones; in one, taking
\* out a sequence completes Begin, in another the prefix of the next one.
SomeStreams ==
    {FlattenSeq(tokens) : tokens \in UNION {[1..n -> Tokens] : n \in 0..3}
        \cup {<<BeginBytes, CommandBytes, <<"a">>, <<"bell">>, EndBytes>>,
              <<BeginBytes, <<"a">>, EndBytes, <<"a">>, BeginBytes, EndBytes>>,
              <<ClipBytes, <<"a">>, StBytes, <<"a">>, CommandBytes, <<"a">>, <<"bell">>, BeginBytes>>,
              <<<<"esc", "[">>, ClipBytes, <<"a">>, <<"bell">>, <<"h">>>>,
              <<BeginBytes, <<"esc", "]">>, CommandBytes, <<"bell">>, <<"p">>, <<"a">>, <<"bell">>, EndBytes>>}}

\* A prompt's report of one of two directories, with either end, texts between
\* them, and a report that is no file URI.
ReportBytes == <<"esc", "]", "7">>
SomeUris    == {<<"a">>, <<"b">>}
Prompts     == {ReportBytes \o <<"a", "bell">>, ReportBytes \o <<"b">> \o StBytes,
                <<"a">>, <<"esc", "]", "a">>}
NoUri       == ReportBytes \o <<"bell">>
SomeTranscripts ==
    {FlattenSeq(some) : some \in UNION {[1..n -> Prompts \cup {NoUri}] : n \in 1..3}}

\* Three commands and what their labels contain: a search may list all of them,
\* two that are not neighbours, one or none.
SomeCommands == <<"split", "rename", "next">>
SomeWords == [split |-> {"s", "t"}, rename |-> {"r"}, next |-> {"t"}]

\* Terminals that differ in rows, in columns and in both.
SomeGrids == {<<1, 2>>, <<2, 2>>, <<2, 3>>, <<3, 2>>}
\* Limits in the plain bucket alone, above 100 % in the one of Codex, and in a
\* bucket that counts without the plain one.
Bucketed(own, codex, other) == [own |-> own, codex |-> codex, other |-> other]
Used(primary, secondary)    == [primary |-> primary, secondary |-> secondary]
SomeAnswers ==
    {Bucketed(Used(40, NoWindow), NoLimits, NoLimits),
     Bucketed(Used(90, NoWindow), Used(27, 250), Used(80, NoWindow)),
     Bucketed(NoLimits, NoLimits, Used(80, NoWindow))}
====
