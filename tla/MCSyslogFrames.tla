-------------------------- MODULE MCSyslogFrames --------------------------
(***************************************************************************)
(* Instance of SyslogFrames for TLC: every section of up to five tokens    *)
(* behind a header, and every two short messages, with numbers, spaces and *)
(* newlines in them, in both encodings.                                    *)
(***************************************************************************)
EXTENDS SyslogFrames, SequencesExt

CONSTANT MaxTokens

MCNumeral == [n \in 0 .. MaxNumber |-> ToString(n)]

Alone == {<<"h">> \o s : s \in BoundedSeq({"B", "C", "T", "-", " ", "x"}, MaxTokens)}

\* Texts that look like frames.
Texts == {s \in BoundedSeq({"h", "x", "1", "2", " ", "\n"}, 4) :
            \A j \in 1 .. Len(s) : s[j] \in Digit => j < Len(s) /\ s[j + 1] \notin Digit}
Line(s) == (\A j \in 1 .. Len(s) : s[j] # "\n") /\ (s # <<>> => s[1] \notin Digit)

Second == {<<>>, <<"h">>, <<"2", " ">>, <<"x", "1", " ", "h">>}

MCStreams ==
    {[msgs |-> <<m>>, counted |-> <<TRUE>>] : m \in Alone}
        \cup {[msgs |-> <<m, n>>, counted |-> <<c, d>>] :
                m \in Texts, n \in Second, c \in BOOLEAN, d \in BOOLEAN}

Sendable == {c \in MCStreams : \A i \in 1 .. Len(c.msgs) : c.counted[i] \/ Line(c.msgs[i])}
=============================================================================
