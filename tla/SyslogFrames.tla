---------------------------- MODULE SyslogFrames ----------------------------
(***************************************************************************)
(* internal/syslog/frame.go, rfc5424.go and the loop of conn.go: how the   *)
(* bytes of one client become frames, and what a frame looks like when it  *)
(* is forwarded.  SyslogServer takes frames as whole things; here they are *)
(* put together from a stream that arrives in pieces, with read deadlines  *)
(* that strike and clients that hang up anywhere.                          *)
(*                                                                         *)
(* A byte is a token.  A numeral is a whole number, " " and "\n" are       *)
(* themselves, "h" is PRI and the six header fields, "-" the nil           *)
(* structured data, "B" and "C" are SD blocks [...] and "T" one that       *)
(* begins with [tenant@, "x" is any other text, a bracket that is never    *)
(* closed included.                                                        *)
(***************************************************************************)
EXTENDS Integers, Sequences

CONSTANTS Streams,          \* what a client may send: [msgs, counted]
          MaxFrameBytes,    \* fs.maxFrameBytes
          MaxNumber,        \* the largest number a client writes
          Numeral           \* how it writes a number

Digit == {Numeral[n] : n \in 0 .. MaxNumber}
Value(d) == CHOOSE n \in 0 .. MaxNumber : Numeral[n] = d

Block == {"B", "C", "T"}
Token == Digit \cup Block \cup {" ", "\n", "h", "-", "x"}

ASSUME NumeralAssumption ==
    /\ MaxFrameBytes \in Nat /\ MaxNumber \in Nat
    /\ Digit \cap (Block \cup {" ", "\n", "h", "-", "x"}) = {}
    /\ \A m, n \in 0 .. MaxNumber : Numeral[m] = Numeral[n] => m = n

\* A client that sends lines keeps newlines out of them, and a digit from their
\* beginning; a number in a text is followed by something else.
ASSUME StreamsAssumption ==
    \A c \in Streams :
        /\ c.msgs \in Seq(Seq(Token))
        /\ \A i \in 1 .. Len(c.msgs) :
             /\ c.counted[i] \in BOOLEAN
             /\ c.counted[i] => Len(c.msgs[i]) <= MaxNumber
             /\ ~c.counted[i] => /\ \A j \in 1 .. Len(c.msgs[i]) : c.msgs[i][j] # "\n"
                                 /\ c.msgs[i] # <<>> => c.msgs[i][1] \notin Digit
             /\ \A j \in 1 .. Len(c.msgs[i]) : c.msgs[i][j] \in Digit =>
                  j < Len(c.msgs[i]) /\ c.msgs[i][j + 1] \notin Digit

VARIABLES
    client,     \* what this client means to send
    msg, pos,   \* the message that is being read, and how much of its encoding
    mode,       \* where ReadFrame is: at a frame, in a length, a body, a line
    part,       \* what it has read of the frame
    need,       \* declaredLen
    got,        \* the frames that ReadFrame returned
    forwarded,  \* those of them that were forwarded, as they were
    from,       \* history: what part of which message each frame is
    torn        \* history: the rest of a cut line was taken for a length

vars == <<client, msg, pos, mode, part, need, got, forwarded, from, torn>>

(***************************************************************************)
(* The client's side (external): RFC 6587, octet counting or lines.        *)
(***************************************************************************)
Encode(m, counted) ==
    IF counted THEN <<Numeral[Len(m)], " ">> \o m ELSE Append(m, "\n")

Encoded == Encode(client.msgs[msg], client.counted[msg])

\* How much of the text of its message is read when the encoding is up to p.
TextUpto(p) == IF msg <= Len(client.msgs) /\ client.counted[msg] THEN p - 2 ELSE p

Init ==
    /\ client \in Streams /\ msg = 1 /\ pos = 0
    /\ mode = "start" /\ part = <<>> /\ need = 0
    /\ got = <<>> /\ forwarded = <<>> /\ from = <<>> /\ torn = FALSE

(***************************************************************************)
(* StampSyslogMessage.  "S" is the server's block, "P" its prefix.         *)
(***************************************************************************)
\* How many tokens at the beginning of s are in S.
Leading(s, S) ==
    CHOOSE n \in 0 .. Len(s) : /\ \A j \in 1 .. n : s[j] \in S
                               /\ n = Len(s) \/ s[n + 1] \notin S

\* strings.TrimLeft(s, " ").
TrimLeft(s) == SubSeq(s, Leading(s, {" "}) + 1, Len(s))

\* parseSDAndMsg: the loop takes blocks until there is none.
ParseSDAndMsg(s) ==
    LET n == Leading(s, Block)
    IN  CASE s = <<"-">> -> [blocks |-> <<>>, msg |-> <<>>]
          [] Len(s) > 1 /\ s[1] = "-" /\ s[2] = " " ->
               [blocks |-> <<>>, msg |-> TrimLeft(SubSeq(s, 3, Len(s)))]
          [] OTHER -> [blocks |-> SubSeq(s, 1, n), msg |-> TrimLeft(SubSeq(s, n + 1, Len(s)))]

\* Fault: no block is taken for a tenant's.
IsTenantSDIDNever(b) == FALSE
IsTenantSDID(b) == b = "T"

Filter(blocks) ==
    LET filtered[i \in 0 .. Len(blocks)] ==
          IF i = 0 THEN <<>>
          ELSE IF IsTenantSDID(blocks[i]) THEN filtered[i - 1]
          ELSE Append(filtered[i - 1], blocks[i])
    IN  filtered[Len(blocks)]

StampSyslogMessage(m) ==
    IF m = <<>> \/ m[1] # "h" THEN m
    ELSE LET p == ParseSDAndMsg(Tail(m))
         IN  <<"h">> \o Filter(p.blocks) \o <<"S">>
               \o (IF p.msg = <<>> THEN <<>> ELSE <<" ", "P">> \o p.msg)

(***************************************************************************)
(* ReadFrame, byte by byte, and the loop around it.                        *)
(***************************************************************************)
\* ReadFrame returns f, the text of msg up to end.  It is stamped and forwarded,
\* and ReadFrame called again, or a limit or a failure ends the connection.
Return(f, end, cut, next) ==
    /\ got' = Append(got, f)
    /\ from' = Append(from, [m |-> msg, a |-> end - Len(f), b |-> end, cut |-> cut])
    /\ part' = <<>> /\ need' = 0
    /\ \/ forwarded' = Append(forwarded, StampSyslogMessage(f)) /\ mode' = next
       \/ forwarded' = forwarded /\ mode' = "closed"

Continue(m, p, n) ==
    /\ mode' = m /\ part' = p /\ need' = n
    /\ UNCHANGED <<got, forwarded, from>>

\* ReadFrame returns an error, and handleConnection closes the connection.
Close == Continue("closed", <<>>, 0)

\* Peek(1): a digit begins a length, anything else a line.
ReadStart(b) ==
    /\ mode = "start"
    /\ IF b \in Digit THEN Continue("length", <<b>>, 0)
       ELSE IF b = "\n" THEN Return(<<>>, pos, FALSE, "start")
       ELSE Continue("line", <<b>>, 0)

\* ReadString(' ') and Atoi: a number, or an error.
ReadLength(b) ==
    /\ mode = "length"
    /\ IF b # " " THEN Continue("length", Append(part, b), 0)
       ELSE IF Len(part) # 1 \/ Value(part[1]) > MaxFrameBytes THEN Close
       ELSE IF Value(part[1]) = 0 THEN Return(<<>>, TextUpto(pos + 1), FALSE, "start")
       ELSE Continue("body", <<>>, Value(part[1]))

\* Fault: Read, which returns what has arrived.
ReadBodyOnce(b) ==
    /\ mode = "body"
    /\ Return(Append(part, b), TextUpto(pos + 1), FALSE, "start")

\* io.ReadFull.
ReadBody(b) ==
    /\ mode = "body"
    /\ IF Len(part) + 1 = need
       THEN Return(Append(part, b), TextUpto(pos + 1), FALSE, "start")
       ELSE Continue("body", Append(part, b), need)

\* ReadBytes('\n').
ReadLine(b) ==
    /\ mode = "line"
    /\ IF b = "\n" THEN Return(part, TextUpto(pos), FALSE, "start")
       ELSE Continue("line", Append(part, b), 0)

ReadByte ==
    /\ mode # "closed" /\ msg <= Len(client.msgs)
    /\ LET b == Encoded[pos + 1]
       IN  /\ ReadStart(b) \/ ReadLength(b) \/ ReadBody(b) \/ ReadLine(b)
           /\ torn' = (torn \/ (mode = "start" /\ pos > 0 /\ b \in Digit))
    /\ IF pos + 1 = Len(Encoded) THEN msg' = msg + 1 /\ pos' = 0
       ELSE msg' = msg /\ pos' = pos + 1
    /\ UNCHANGED client

\* The idle deadline strikes: an error, except that what was read of a line
\* is returned as if the line ended there.
Deadline ==
    /\ mode # "closed"
    /\ IF mode = "line" THEN Return(part, TextUpto(pos), TRUE, "start") ELSE Close
    /\ UNCHANGED <<client, msg, pos, torn>>

\* The client hangs up, or its connection breaks: the rest of a line is
\* returned, and the next ReadFrame sees the end of the stream.
HangUp ==
    /\ mode # "closed"
    /\ IF mode = "line" THEN Return(part, TextUpto(pos), TRUE, "closed") ELSE Close
    /\ UNCHANGED <<client, msg, pos, torn>>

Next == ReadByte \/ Deadline \/ HangUp

Spec == Init /\ [][Next]_vars

TypeOK ==
    /\ client \in Streams /\ msg \in 1 .. Len(client.msgs) + 1
    /\ pos \in IF msg <= Len(client.msgs) THEN 0 .. Len(Encoded) - 1 ELSE {0}
    /\ mode \in {"start", "length", "body", "line", "closed"}
    /\ part \in Seq(Token) /\ need \in 0 .. MaxNumber
    /\ got \in Seq(Seq(Token)) /\ Len(from) = Len(got)
    /\ Len(forwarded) \in IF mode = "closed" THEN 0 .. Len(got) ELSE {Len(got)}
    /\ from \in Seq([m : Nat, a : Int, b : Int, cut : BOOLEAN])
    /\ torn \in BOOLEAN

(***************************************************************************)
(* The frames are the client's messages, whole and in order, however the   *)
(* bytes arrive and whenever the connection ends.  Where a deadline or the *)
(* end of the stream cut a line its pieces are frames, and still nothing   *)
(* is lost, repeated or out of order, unless the rest of the line began    *)
(* with a digit and was taken for a length.  A counted message is never    *)
(* cut, and no buffer is made above the cap.                               *)
(***************************************************************************)
PieceIsNext(k) ==
    LET w == from[k]
        text == client.msgs[w.m]
    IN  /\ w.m \in DOMAIN client.msgs /\ got[k] = SubSeq(text, w.a + 1, w.b)
        /\ IF k = 1 THEN w.m = 1 /\ w.a = 0
           ELSE LET v == from[k - 1]
                IN  IF v.cut THEN w.m = v.m /\ w.a = v.b ELSE w.m = v.m + 1 /\ w.a = 0
        /\ ~w.cut => w.b = Len(text)
        /\ client.counted[w.m] => ~w.cut /\ Len(got[k]) <= MaxFrameBytes

FramesAreExact ==
    /\ need <= MaxFrameBytes
    /\ ~torn => \A k \in DOMAIN got : PieceIsNext(k)
    /\ (\A k \in DOMAIN from : ~from[k].cut) =>
           Len(got) <= Len(client.msgs) /\ \A k \in DOMAIN got : got[k] = client.msgs[k]

(***************************************************************************)
(* A frame with a header is forwarded with exactly one tenant block, the   *)
(* server's: the client's blocks other than tenant blocks come before it,  *)
(* in their order, the text of the message after it, behind the prefix.  A *)
(* block is what the code takes for one: it ends at the first "]", even    *)
(* one that is escaped.  A frame without a header is forwarded as it came. *)
(***************************************************************************)
\* Of f the blocks are those from 2 to s - 1, and the text begins at t.
Sections(f, s, t) ==
    LET nil == s = 2 /\ s <= Len(f) /\ f[s] = "-" /\ (s = Len(f) \/ f[s + 1] = " ")
    IN  /\ \A j \in 2 .. s - 1 : f[j] \in Block
        /\ s <= Len(f) => f[s] \notin Block
        /\ t >= IF nil THEN s + 1 ELSE s
        /\ \A j \in (IF nil THEN s + 1 ELSE s) .. t - 1 : f[j] = " "
        /\ t <= Len(f) => f[t] # " "

\* The server's block is at n of g.
StampedAs(f, g, s, t, n) ==
    LET Foreign == {j \in 2 .. s - 1 : f[j] # "T"}
    IN  /\ g[1] = "h" /\ g[n] = "S"
        /\ \E place \in [Foreign -> 2 .. n - 1] :
             /\ \A j, k \in Foreign : j < k => place[j] < place[k]
             /\ \A k \in 2 .. n - 1 : \E j \in Foreign : place[j] = k
             /\ \A j \in Foreign : g[place[j]] = f[j]
        /\ IF t > Len(f) THEN Len(g) = n
           ELSE /\ Len(g) = n + 3 + Len(f) - t /\ g[n + 1] = " " /\ g[n + 2] = "P"
                /\ \A j \in t .. Len(f) : g[n + 3 + j - t] = f[j]

StampedOnce ==
    \A i \in DOMAIN forwarded :
        LET f == got[i]
            g == forwarded[i]
        IN  IF f = <<>> \/ f[1] # "h" THEN g = f
            ELSE \E s, t \in 2 .. Len(f) + 1 : \E n \in 2 .. Len(g) :
                   Sections(f, s, t) /\ StampedAs(f, g, s, t, n)
=============================================================================
