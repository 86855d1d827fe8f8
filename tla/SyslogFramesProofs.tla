------------------------ MODULE SyslogFramesProofs ------------------------
(***************************************************************************)
(* Framing and stamping, for any messages of any length and any cap: the   *)
(* frames are the messages wherever deadlines and hang-ups strike, and a   *)
(* forwarded frame carries the server's block and no other tenant's.       *)
(***************************************************************************)
EXTENDS SyslogFrames, SequenceTheorems, WellFoundedInduction, TLAPS

-----------------------------------------------------------------------------
(***************************************************************************)
(* The inductive invariant.                                                *)
(***************************************************************************)
\* What a length and a body are while they are read, whatever the stream.
PartsAgree ==
    /\ mode = "length" => part # <<>> /\ part[1] \in Digit
    /\ mode = "body" => Len(part) < need
    /\ need <= MaxFrameBytes

\* What is forwarded is what was returned, stamped.
Forwarding ==
    /\ forwarded \in Seq({StampSyslogMessage(x) : x \in Seq(Token)})
    /\ \A i \in 1 .. Len(forwarded) : forwarded[i] = StampSyslogMessage(got[i])

\* f is the text from a + 1 on.
Piece(f, text, a) == \A j \in 1 .. Len(f) : f[j] = text[a + j]

\* The frames so far end before the place a of message m.
Ready(m, a) ==
    IF got = <<>> THEN m = 1 /\ a = 0
    ELSE LET v == from[Len(got)]
         IN  IF v.cut THEN m = v.m /\ a = v.b ELSE m = v.m + 1 /\ a = 0

\* Frame k is a piece of its message, next to the frame before it.
Placed(k) ==
    LET w == from[k]
        text == client.msgs[w.m]
    IN  /\ w.m \in 1 .. Len(client.msgs) /\ w.a \in Nat /\ w.b \in Nat
        /\ w.b <= Len(text) /\ w.b = w.a + Len(got[k]) /\ Piece(got[k], text, w.a)
        /\ IF k = 1 THEN w.m = 1 /\ w.a = 0
           ELSE LET v == from[k - 1]
                IN  IF v.cut THEN w.m = v.m /\ w.a = v.b ELSE w.m = v.m + 1 /\ w.a = 0
        /\ ~w.cut => w.b = Len(text)
        /\ client.counted[w.m] => ~w.cut /\ Len(got[k]) <= MaxFrameBytes

\* Where ReadFrame is tells what is read of which message.
Aligned ==
    LET text == client.msgs[msg]
    IN  /\ mode \in {"length", "body", "line"} => msg <= Len(client.msgs)
        /\ mode = "start" => Ready(msg, pos) /\ (pos > 0 => ~client.counted[msg])
        /\ mode = "length" => /\ client.counted[msg] /\ pos = 1 /\ Ready(msg, 0)
                              /\ part = <<Numeral[Len(text)]>>
        /\ mode = "body" => /\ client.counted[msg] /\ pos = Len(part) + 2 /\ Ready(msg, 0)
                            /\ need = Len(text) /\ Piece(part, text, 0)
        /\ mode = "line" => /\ ~client.counted[msg] /\ Len(part) \in 1 .. pos
                            /\ Ready(msg, pos - Len(part)) /\ Piece(part, text, pos - Len(part))

\* Unless a line was cut, the frames are the messages.
WholeUnlessCut ==
    (\A k \in 1 .. Len(got) : ~from[k].cut) =>
        ~torn /\ \A k \in 1 .. Len(got) : from[k].m = k /\ from[k].a = 0

FramesInv == /\ TypeOK /\ PartsAgree /\ Forwarding /\ WholeUnlessCut
             /\ ~torn => Aligned /\ \A k \in 1 .. Len(got) : Placed(k)

-----------------------------------------------------------------------------
(***************************************************************************)
(* Sequences.                                                              *)
(***************************************************************************)
LEMMA Joined ==
    ASSUME NEW X, NEW s \in Seq(X), NEW t \in Seq(X)
    PROVE  /\ s \o t \in Seq(X) /\ Len(s \o t) = Len(s) + Len(t)
           /\ Len(s) \in Nat /\ Len(t) \in Nat
           /\ \A j \in 1 .. Len(s) : (s \o t)[j] = s[j]
           /\ \A j \in 1 .. Len(t) : (s \o t)[Len(s) + j] = t[j]
<1> DEFINE r == s \o t
<1>1. Len(s) \in Nat /\ Len(t) \in Nat
  OBVIOUS
<1>2. /\ r \in Seq(X) /\ Len(r) = Len(s) + Len(t)
      /\ \A i \in 1 .. Len(s) + Len(t) : r[i] = IF i <= Len(s) THEN s[i] ELSE t[i - Len(s)]
  BY ConcatProperties
<1> HIDE DEF r
<1>3. \A j \in 1 .. Len(s) : r[j] = s[j]
  BY <1>1, <1>2
<1>4. ASSUME NEW j \in 1 .. Len(t) PROVE r[Len(s) + j] = t[j]
  <2>1. Len(s) + j \in 1 .. Len(s) + Len(t) /\ ~(Len(s) + j <= Len(s))
        /\ (Len(s) + j) - Len(s) = j
    BY <1>1
  <2> QED
    BY <1>2, <2>1
<1> QED
  BY <1>1, <1>2, <1>3, <1>4 DEF r

LEMMA OneIs ==
    ASSUME NEW X, NEW d \in X
    PROVE  <<d>> \in Seq(X) /\ Len(<<d>>) = 1 /\ <<d>>[1] = d
  OBVIOUS

LEMMA PairIs ==
    ASSUME NEW X, NEW d \in X, NEW e \in X
    PROVE  <<d, e>> \in Seq(X) /\ Len(<<d, e>>) = 2 /\ <<d, e>>[1] = d /\ <<d, e>>[2] = e
  OBVIOUS

\* Two things in front of a sequence.
LEMMA PairJoined ==
    ASSUME NEW X, NEW d \in X, NEW e \in X, NEW t \in Seq(X)
    PROVE  /\ <<d, e>> \o t \in Seq(X) /\ Len(<<d, e>> \o t) = Len(t) + 2 /\ Len(t) \in Nat
           /\ (<<d, e>> \o t)[1] = d /\ (<<d, e>> \o t)[2] = e
           /\ \A j \in 1 .. Len(t) : (<<d, e>> \o t)[j + 2] = t[j]
<1> DEFINE s == <<d, e>>
<1>0. s \in Seq(X)
  BY PairIs
<1>1. Len(s) = 2 /\ s[1] = d /\ s[2] = e
  BY PairIs
<1> HIDE DEF s
<1>2. /\ s \o t \in Seq(X) /\ Len(s \o t) = Len(s) + Len(t) /\ Len(t) \in Nat
      /\ \A j \in 1 .. Len(s) : (s \o t)[j] = s[j]
      /\ \A j \in 1 .. Len(t) : (s \o t)[Len(s) + j] = t[j]
  BY <1>0, Joined
<1> DEFINE r == s \o t
<1> HIDE DEF r
<1>3. /\ r \in Seq(X) /\ Len(r) = 2 + Len(t) /\ Len(t) \in Nat
      /\ \A j \in 1 .. 2 : r[j] = s[j]
      /\ \A j \in 1 .. Len(t) : r[2 + j] = t[j]
  BY <1>1, <1>2 DEF r
<1>4. Len(r) = Len(t) + 2 /\ \A j \in 1 .. Len(t) : r[j + 2] = t[j]
  BY <1>3
<1>5. r[1] = d /\ r[2] = e
  BY <1>1, <1>3
<1> QED
  BY <1>3, <1>4, <1>5 DEF r, s

-----------------------------------------------------------------------------
(***************************************************************************)
(* The stream.                                                             *)
(***************************************************************************)
\* A message of the client.
LEMMA MessageIs ==
    ASSUME NEW c \in Streams, NEW i \in 1 .. Len(c.msgs)
    PROVE  /\ c.msgs \in Seq(Seq(Token)) /\ Len(c.msgs) \in Nat
           /\ c.msgs[i] \in Seq(Token) /\ Len(c.msgs[i]) \in Nat
           /\ c.counted[i] \in BOOLEAN
           /\ c.counted[i] => Len(c.msgs[i]) \in 0 .. MaxNumber
           /\ ~c.counted[i] =>
                /\ \A j \in 1 .. Len(c.msgs[i]) : c.msgs[i][j] # "\n"
                /\ Len(c.msgs[i]) > 0 => c.msgs[i][1] \notin Digit
<1> DEFINE X == Seq(Token)
           text == c.msgs[i]
<1>1. c.msgs \in Seq(X)
  BY StreamsAssumption
<1>2. Len(c.msgs) \in Nat /\ text \in X
  <2> HIDE DEF X
  <2> QED
    BY <1>1
<1>3. Len(text) \in Nat /\ (Len(text) > 0 => text # <<>>)
  BY <1>2
<1>4. /\ c.counted[i] \in BOOLEAN
      /\ c.counted[i] => Len(text) <= MaxNumber
      /\ ~c.counted[i] => /\ \A j \in 1 .. Len(text) : text[j] # "\n"
                          /\ text # <<>> => text[1] \notin Digit
  BY StreamsAssumption
<1>0. MaxNumber \in Nat
  BY NumeralAssumption
<1> HIDE DEF text
<1>5. c.counted[i] => Len(text) \in 0 .. MaxNumber
  BY <1>0, <1>3, <1>4
<1>6. ~c.counted[i] => /\ \A j \in 1 .. Len(text) : text[j] # "\n"
                       /\ Len(text) > 0 => text[1] \notin Digit
  BY <1>3, <1>4
<1>7. Len(c.msgs) \in Nat /\ Len(text) \in Nat /\ c.counted[i] \in BOOLEAN
  BY <1>2, <1>3, <1>4
<1> QED
  BY <1>1, <1>2, <1>5, <1>6, <1>7 DEF text

\* A numeral is written for one number, and is a token like no other.
LEMMA NumeralIs ==
    ASSUME NEW n \in 0 .. MaxNumber
    PROVE  Numeral[n] \in Digit /\ Value(Numeral[n]) = n
<1>1. Numeral[n] \in Digit
  BY DEF Digit
<1>2. \E k \in 0 .. MaxNumber : Numeral[k] = Numeral[n]
  OBVIOUS
<1>3. Value(Numeral[n]) \in 0 .. MaxNumber /\ Numeral[Value(Numeral[n])] = Numeral[n]
  BY <1>2 DEF Value
<1> QED
  BY <1>1, <1>3, NumeralAssumption

LEMMA ValueIs ==
    ASSUME NEW d \in Digit
    PROVE  Value(d) \in 0 .. MaxNumber
<1>1. \E k \in 0 .. MaxNumber : Numeral[k] = d
  BY DEF Digit
<1> QED
  BY <1>1 DEF Value

LEMMA TokensDiffer ==
    ASSUME NEW d \in Digit
    PROVE  d # " " /\ d # "\n" /\ d # "h" /\ d \in Token
  BY NumeralAssumption DEF Token

\* What is read of a counted message, and of a line.
EncodedOf(c, i) == Encode(c.msgs[i], c.counted[i])

LEMMA EncodedCounted ==
    ASSUME NEW c \in Streams, NEW i \in 1 .. Len(c.msgs), c.counted[i]
    PROVE  /\ EncodedOf(c, i) \in Seq(Token) /\ Len(EncodedOf(c, i)) = Len(c.msgs[i]) + 2
           /\ EncodedOf(c, i)[1] = Numeral[Len(c.msgs[i])] /\ EncodedOf(c, i)[2] = " "
           /\ \A j \in 1 .. Len(c.msgs[i]) : EncodedOf(c, i)[j + 2] = c.msgs[i][j]
<1> DEFINE text == c.msgs[i]
           d == Numeral[Len(text)]
           sp == " "
<1>1. text \in Seq(Token) /\ Len(text) \in 0 .. MaxNumber
  BY MessageIs
<1>2. d \in Token /\ sp \in Token
  BY <1>1, NumeralIs, TokensDiffer DEF Token
<1>3. EncodedOf(c, i) = <<d, sp>> \o text
  BY DEF EncodedOf, Encode
<1> HIDE DEF text, d, sp
<1>4. /\ <<d, sp>> \o text \in Seq(Token) /\ Len(<<d, sp>> \o text) = Len(text) + 2
      /\ (<<d, sp>> \o text)[1] = d /\ (<<d, sp>> \o text)[2] = sp
      /\ \A j \in 1 .. Len(text) : (<<d, sp>> \o text)[j + 2] = text[j]
  BY <1>1, <1>2, PairJoined
<1> QED
  BY <1>3, <1>4 DEF text, d, sp

LEMMA EncodedLine ==
    ASSUME NEW c \in Streams, NEW i \in 1 .. Len(c.msgs), ~c.counted[i]
    PROVE  /\ EncodedOf(c, i) \in Seq(Token) /\ Len(EncodedOf(c, i)) = Len(c.msgs[i]) + 1
           /\ EncodedOf(c, i)[Len(c.msgs[i]) + 1] = "\n"
           /\ \A j \in 1 .. Len(c.msgs[i]) : EncodedOf(c, i)[j] = c.msgs[i][j]
<1> DEFINE text == c.msgs[i]
<1>1. text \in Seq(Token) /\ Len(text) \in Nat
  BY MessageIs
<1>2. "\n" \in Token
  BY DEF Token
<1>3. EncodedOf(c, i) = Append(text, "\n")
  BY DEF EncodedOf, Encode
<1> HIDE DEF text
<1>4. /\ Append(text, "\n") \in Seq(Token) /\ Len(Append(text, "\n")) = Len(text) + 1
      /\ Append(text, "\n")[Len(text) + 1] = "\n"
      /\ \A j \in 1 .. Len(text) : Append(text, "\n")[j] = text[j]
  BY <1>1, <1>2
<1> QED
  BY <1>3, <1>4 DEF text

\* The next byte, and where the stream is after it.
StreamTypes == /\ client \in Streams /\ msg \in 1 .. Len(client.msgs) + 1
               /\ pos \in IF msg <= Len(client.msgs) THEN 0 .. Len(Encoded) - 1 ELSE {0}

Advance == /\ IF pos + 1 = Len(Encoded) THEN msg' = msg + 1 /\ pos' = 0
              ELSE msg' = msg /\ pos' = pos + 1
           /\ client' = client

LEMMA StreamIs ==
    ASSUME StreamTypes
    PROVE  /\ client.msgs \in Seq(Seq(Token)) /\ Len(client.msgs) \in Nat /\ msg \in Nat
           /\ pos \in Nat
           /\ msg <= Len(client.msgs) =>
                /\ msg \in 1 .. Len(client.msgs) /\ Encoded \in Seq(Token)
                /\ pos + 1 \in 1 .. Len(Encoded) /\ Encoded[pos + 1] \in Token
<1>1. client.msgs \in Seq(Seq(Token)) /\ Len(client.msgs) \in Nat /\ msg \in Nat
  <2> DEFINE X == Seq(Token)
  <2>1. client.msgs \in Seq(X)
    BY StreamsAssumption DEF StreamTypes
  <2> HIDE DEF X
  <2>2. Len(client.msgs) \in Nat
    BY <2>1
  <2> QED
    BY <2>1, <2>2 DEF X, StreamTypes
<1>2. CASE msg > Len(client.msgs)
  BY <1>1, <1>2 DEF StreamTypes
<1>3. CASE msg <= Len(client.msgs)
  <2>1. client \in Streams /\ msg \in 1 .. Len(client.msgs)
    BY <1>1, <1>3 DEF StreamTypes
  <2>2. client.counted[msg] \in BOOLEAN /\ Len(client.msgs[msg]) \in Nat
    BY <2>1, MessageIs
  <2>3. Encoded \in Seq(Token)
    BY <2>1, <2>2, EncodedCounted, EncodedLine DEF Encoded, EncodedOf
  <2>4. Len(Encoded) \in Nat /\ pos \in 0 .. Len(Encoded) - 1
    BY <1>3, <2>3 DEF StreamTypes
  <2>5. pos \in Nat /\ pos + 1 \in 1 .. Len(Encoded)
    BY <2>4
  <2> HIDE DEF Token
  <2>6. Encoded[pos + 1] \in Token
    BY <2>3, <2>5
  <2> QED
    BY <1>1, <2>1, <2>3, <2>5, <2>6
<1> QED
  BY <1>1, <1>2, <1>3

LEMMA AdvanceTypes ==
    ASSUME StreamTypes, msg <= Len(client.msgs), Advance
    PROVE  StreamTypes'
<1>1. /\ client' = client /\ client \in Streams /\ Len(client.msgs) \in Nat /\ msg \in Nat
      /\ msg \in 1 .. Len(client.msgs) /\ Len(Encoded) \in Nat /\ pos + 1 \in 1 .. Len(Encoded)
      /\ pos \in Nat
  BY StreamIs DEF Advance, StreamTypes
<1>2. CASE pos + 1 = Len(Encoded)
  <2>1. msg' = msg + 1 /\ pos' = 0
    BY <1>2 DEF Advance
  <2>2. msg' \in 1 .. Len(client'.msgs) + 1
    BY <1>1, <2>1
  <2>3. CASE msg' <= Len(client'.msgs)
    <3>1. client' \in Streams /\ msg' \in 1 .. Len(client'.msgs)
      BY <1>1, <2>2, <2>3
    <3>2. Len(Encoded') \in Nat /\ Len(Encoded') > 0
      <4>1. client'.counted[msg'] \in BOOLEAN /\ Len(client'.msgs[msg']) \in Nat
        BY <1>1, <3>1, MessageIs
      <4> DEFINE t == client'.msgs[msg']
      <4>3. t \in Seq(Token)
        BY <1>1, <3>1, MessageIs
      <4>4. Encoded' \in Seq(Token) /\ Len(Encoded') \in {Len(t) + 1, Len(t) + 2}
        BY <3>1, <4>1, EncodedCounted, EncodedLine DEF Encoded, EncodedOf
      <4> HIDE DEF t
      <4> QED
        BY <4>1, <4>3, <4>4
    <3> QED
      BY <1>1, <2>1, <2>2, <2>3, <3>2 DEF StreamTypes
  <2>4. CASE ~(msg' <= Len(client'.msgs))
    BY <1>1, <2>1, <2>2, <2>4 DEF StreamTypes
  <2> QED
    BY <2>3, <2>4
<1>3. CASE pos + 1 # Len(Encoded)
  <2>1. msg' = msg /\ pos' = pos + 1
    BY <1>3 DEF Advance
  <2>2. Encoded' = Encoded
    BY <1>1, <2>1 DEF Encoded
  <2>3. pos' \in 0 .. Len(Encoded') - 1
    BY <1>1, <1>3, <2>1, <2>2
  <2> QED
    BY <1>1, <2>1, <2>3 DEF StreamTypes
<1> QED
  BY <1>2, <1>3

-----------------------------------------------------------------------------
(***************************************************************************)
(* Types, and what holds of a length and a body in any stream.             *)
(***************************************************************************)
Origin == [m : Nat, a : Int, b : Int, cut : BOOLEAN]

FrameTypes ==
    /\ mode \in {"start", "length", "body", "line", "closed"}
    /\ part \in Seq(Token) /\ need \in 0 .. MaxNumber
    /\ got \in Seq(Seq(Token)) /\ Len(from) = Len(got)
    /\ Len(forwarded) \in IF mode = "closed" THEN 0 .. Len(got) ELSE {Len(got)}
    /\ from \in Seq(Origin)

LEMMA TypeParts == TypeOK <=> StreamTypes /\ FrameTypes /\ torn \in BOOLEAN
  BY DEF TypeOK, StreamTypes, FrameTypes, Origin

\* What Append makes of got, from and forwarded, without their types.
LEMMA Appended ==
    ASSUME NEW X, NEW s \in Seq(X), NEW e \in X
    PROVE  /\ Append(s, e) \in Seq(X) /\ Len(s) \in Nat /\ Len(Append(s, e)) = Len(s) + 1
           /\ \A j \in 1 .. Len(s) : Append(s, e)[j] = s[j]
           /\ Append(s, e)[Len(s) + 1] = e
  OBVIOUS

\* What a frame that is returned leaves.
LEMMA ReturnIs ==
    ASSUME FrameTypes, mode # "closed", msg \in Nat, NEW f \in Seq(Token), NEW end \in Int,
           NEW cut \in BOOLEAN, NEW next \in {"start", "closed"}, Return(f, end, cut, next)
    PROVE  /\ got' \in Seq(Seq(Token)) /\ Len(got) \in Nat /\ Len(got') = Len(got) + 1
           /\ got'[Len(got) + 1] = f /\ \A j \in 1 .. Len(got) : got'[j] = got[j]
           /\ from' \in Seq(Origin) /\ Len(from') = Len(got')
           /\ from'[Len(got) + 1] = [m |-> msg, a |-> end - Len(f), b |-> end, cut |-> cut]
           /\ \A j \in 1 .. Len(got) : from'[j] = from[j]
           /\ part' = <<>> /\ need' = 0 /\ mode' \in {next, "closed"}
<1> DEFINE o == [m |-> msg, a |-> end - Len(f), b |-> end, cut |-> cut]
           X == Seq(Token)
<1>1. o \in Origin
  <2>1. Len(f) \in Nat
    OBVIOUS
  <2>2. end - Len(f) \in Int
    BY <2>1
  <2> QED
    BY <2>2 DEF Origin
<1>2. f \in X /\ got \in Seq(X) /\ from \in Seq(Origin) /\ Len(from) = Len(got)
  BY DEF FrameTypes
<1>3. /\ got' = Append(got, f) /\ from' = Append(from, o)
      /\ part' = <<>> /\ need' = 0 /\ mode' \in {next, "closed"}
  BY DEF Return
<1> HIDE DEF o, X
<1>4. /\ Append(got, f) \in Seq(X) /\ Len(got) \in Nat /\ Len(Append(got, f)) = Len(got) + 1
      /\ \A j \in 1 .. Len(got) : Append(got, f)[j] = got[j]
      /\ Append(got, f)[Len(got) + 1] = f
  BY <1>2, Appended
<1>5. /\ Append(from, o) \in Seq(Origin) /\ Len(Append(from, o)) = Len(from) + 1
      /\ \A j \in 1 .. Len(from) : Append(from, o)[j] = from[j]
      /\ Append(from, o)[Len(from) + 1] = o
  BY <1>1, <1>2, Appended
<1> QED
  BY <1>2, <1>3, <1>4, <1>5 DEF o, X

LEMMA ForwardedLength ==
    ASSUME FrameTypes, mode # "closed", NEW f, NEW end, NEW cut, NEW next \in {"start", "closed"},
           Return(f, end, cut, next), Len(got') = Len(got) + 1, Len(got) \in Nat,
           forwarded \in Seq({StampSyslogMessage(x) : x \in Seq(Token)}), f \in Seq(Token)
    PROVE  /\ Len(forwarded') \in IF mode' = "closed" THEN 0 .. Len(got') ELSE {Len(got')}
           /\ forwarded' \in Seq({StampSyslogMessage(x) : x \in Seq(Token)})
           /\ Len(forwarded') > Len(got) =>
                /\ forwarded' = Append(forwarded, StampSyslogMessage(f))
                /\ Len(forwarded) = Len(got)
           /\ Len(forwarded') <= Len(got) => forwarded' = forwarded
<1> DEFINE G == {StampSyslogMessage(x) : x \in Seq(Token)}
           g == StampSyslogMessage(f)
<1>1. g \in G /\ forwarded \in Seq(G) /\ Len(forwarded) = Len(got)
  BY DEF FrameTypes
<1>2. \/ forwarded' = Append(forwarded, g) /\ mode' = next
      \/ forwarded' = forwarded /\ mode' = "closed"
  BY DEF Return
<1> HIDE DEF G, g
<1>3. Append(forwarded, g) \in Seq(G) /\ Len(Append(forwarded, g)) = Len(forwarded) + 1
  BY <1>1, Appended
<1>4. CASE forwarded' = Append(forwarded, g) /\ mode' = next
  BY <1>1, <1>3, <1>4 DEF G, g
<1>5. CASE forwarded' = forwarded /\ mode' = "closed"
  BY <1>1, <1>5 DEF G, g
<1> QED
  BY <1>2, <1>4, <1>5

\* Every step is one of these two.
Returns(f, end, cut, next) ==
    /\ f \in Seq(Token) /\ end \in Int /\ cut \in BOOLEAN /\ next \in {"start", "closed"}
    /\ Return(f, end, cut, next)

Continues(m, p, n) ==
    /\ Continue(m, p, n) /\ m \in {"length", "body", "line", "closed"} /\ p \in Seq(Token)
    /\ n \in 0 .. MaxNumber /\ n <= MaxFrameBytes
    /\ m = "length" => p # <<>> /\ p[1] \in Digit
    /\ m = "body" => Len(p) < n

LEMMA ByteIs ==
    ASSUME StreamTypes, FrameTypes, PartsAgree, msg <= Len(client.msgs), mode # "closed",
           NEW b \in Token, ReadStart(b) \/ ReadLength(b) \/ ReadBody(b) \/ ReadLine(b)
    PROVE  \/ \E m, p, n : Continues(m, p, n)
           \/ \E f, end : Returns(f, end, FALSE, "start")
<1>0. /\ part \in Seq(Token) /\ <<>> \in Seq(Token) /\ <<b>> \in Seq(Token)
      /\ Append(part, b) \in Seq(Token) /\ Len(part) \in Nat
  BY DEF FrameTypes
<1>1. pos \in Int /\ pos + 1 \in Int /\ TextUpto(pos) \in Int /\ TextUpto(pos + 1) \in Int
  <2>1. pos \in Nat
    BY StreamIs
  <2> QED
    BY <2>1 DEF TextUpto
<1>2. 0 \in 0 .. MaxNumber /\ 0 <= MaxFrameBytes /\ MaxFrameBytes \in Nat /\ MaxNumber \in Nat
  <2>1. MaxFrameBytes \in Nat /\ MaxNumber \in Nat
    BY NumeralAssumption
  <2> QED
    BY <2>1
<1> USE DEF Returns, Continues
<1>3. CASE ReadStart(b)
  <2>1. CASE b \in Digit
    <3>1. Continue("length", <<b>>, 0)
      BY <1>3, <2>1 DEF ReadStart
    <3>2. <<b>> # <<>> /\ <<b>>[1] = b
      OBVIOUS
    <3>3. Continues("length", <<b>>, 0)
      BY <1>0, <1>2, <2>1, <3>1, <3>2
    <3> QED
      BY <3>3
  <2>2. CASE b \notin Digit /\ b = "\n"
    <3>1. Returns(<<>>, pos, FALSE, "start")
      BY <1>0, <1>1, <1>3, <2>2 DEF ReadStart
    <3> QED
      BY <3>1
  <2>3. CASE b \notin Digit /\ b # "\n"
    <3>1. Continues("line", <<b>>, 0)
      BY <1>0, <1>2, <1>3, <2>3 DEF ReadStart
    <3> QED
      BY <3>1
  <2> QED
    BY <2>1, <2>2, <2>3
<1>4. CASE ReadLength(b)
  <2>0. part # <<>> /\ part[1] \in Digit /\ Value(part[1]) \in 0 .. MaxNumber
    BY <1>4, ValueIs DEF ReadLength, PartsAgree
  <2>1. CASE b # " "
    <3>1. Append(part, b) # <<>> /\ Append(part, b)[1] = part[1]
      <4>1. Len(part) > 0
        BY <1>0, <2>0
      <4> QED
        BY <1>0, <4>1
    <3>2. Continues("length", Append(part, b), 0)
      BY <1>0, <1>2, <1>4, <2>0, <2>1, <3>1 DEF ReadLength
    <3> QED
      BY <3>2
  <2>2. CASE b = " " /\ (Len(part) # 1 \/ Value(part[1]) > MaxFrameBytes)
    <3>1. Continues("closed", <<>>, 0)
      BY <1>0, <1>2, <1>4, <2>2 DEF ReadLength, Close
    <3> QED
      BY <3>1
  <2>3. CASE b = " " /\ ~(Len(part) # 1 \/ Value(part[1]) > MaxFrameBytes) /\ Value(part[1]) = 0
    <3>1. Returns(<<>>, TextUpto(pos + 1), FALSE, "start")
      BY <1>0, <1>1, <1>4, <2>3 DEF ReadLength
    <3> QED
      BY <3>1
  <2>4. CASE b = " " /\ ~(Len(part) # 1 \/ Value(part[1]) > MaxFrameBytes) /\ Value(part[1]) # 0
    <3>1. Continue("body", <<>>, Value(part[1]))
      BY <1>4, <2>4 DEF ReadLength
    <3>2. Value(part[1]) <= MaxFrameBytes /\ Len(<<>>) < Value(part[1])
      <4> DEFINE v == Value(part[1])
      <4>1. v \in 0 .. MaxNumber /\ v # 0 /\ ~(v > MaxFrameBytes)
        BY <2>0, <2>4
      <4> HIDE DEF v
      <4>2. v <= MaxFrameBytes /\ 0 < v
        BY <1>2, <4>1
      <4>3. Len(<<>>) = 0
        OBVIOUS
      <4> QED
        BY <4>2, <4>3 DEF v
    <3>3. Continues("body", <<>>, Value(part[1]))
      BY <1>0, <2>0, <3>1, <3>2
    <3> QED
      BY <3>3
  <2> QED
    BY <2>1, <2>2, <2>3, <2>4
<1>5. CASE ReadBody(b)
  <2>0. Len(part) < need /\ need \in 0 .. MaxNumber /\ need <= MaxFrameBytes
    BY <1>5 DEF ReadBody, PartsAgree, FrameTypes
  <2>1. CASE Len(part) + 1 = need
    <3>1. Returns(Append(part, b), TextUpto(pos + 1), FALSE, "start")
      BY <1>0, <1>1, <1>5, <2>1 DEF ReadBody
    <3> QED
      BY <3>1
  <2>2. CASE Len(part) + 1 # need
    <3>1. Continue("body", Append(part, b), need)
      BY <1>5, <2>2 DEF ReadBody
    <3>2. Len(Append(part, b)) < need
      BY <1>0, <1>2, <2>0, <2>2
    <3>3. Continues("body", Append(part, b), need)
      BY <1>0, <2>0, <3>1, <3>2
    <3> QED
      BY <3>3
  <2> QED
    BY <2>1, <2>2
<1>6. CASE ReadLine(b)
  <2>1. CASE b = "\n"
    <3>1. Returns(part, TextUpto(pos), FALSE, "start")
      BY <1>0, <1>1, <1>6, <2>1 DEF ReadLine
    <3> QED
      BY <3>1
  <2>2. CASE b # "\n"
    <3>1. Continues("line", Append(part, b), 0)
      BY <1>0, <1>2, <1>6, <2>2 DEF ReadLine
    <3> QED
      BY <3>1
  <2> QED
    BY <2>1, <2>2
<1> QED
  BY <1>3, <1>4, <1>5, <1>6

LEMMA ReturnTypes ==
    ASSUME FrameTypes, PartsAgree, Forwarding, mode # "closed", msg \in Nat,
           NEW f, NEW end, NEW cut, NEW next, Returns(f, end, cut, next)
    PROVE  FrameTypes' /\ PartsAgree' /\ Forwarding'
<1>0. /\ f \in Seq(Token) /\ end \in Int /\ cut \in BOOLEAN /\ next \in {"start", "closed"}
      /\ Return(f, end, cut, next)
  BY DEF Returns
<1>1. /\ got' \in Seq(Seq(Token)) /\ Len(got) \in Nat /\ Len(got') = Len(got) + 1
      /\ got'[Len(got) + 1] = f /\ \A j \in 1 .. Len(got) : got'[j] = got[j]
      /\ from' \in Seq(Origin) /\ Len(from') = Len(got')
      /\ part' = <<>> /\ need' = 0 /\ mode' \in {"start", "closed"}
  BY <1>0, ReturnIs
<1> DEFINE G == {StampSyslogMessage(x) : x \in Seq(Token)}
<1>2. /\ Len(forwarded') \in IF mode' = "closed" THEN 0 .. Len(got') ELSE {Len(got')}
      /\ forwarded' \in Seq(G)
      /\ Len(forwarded') > Len(got) =>
           forwarded' = Append(forwarded, StampSyslogMessage(f)) /\ Len(forwarded) = Len(got)
      /\ Len(forwarded') <= Len(got) => forwarded' = forwarded
  BY <1>0, <1>1, ForwardedLength DEF Forwarding
<1>3. MaxFrameBytes \in Nat /\ MaxNumber \in Nat
  BY NumeralAssumption
<1>4. FrameTypes'
  BY <1>1, <1>2, <1>3 DEF FrameTypes
<1>5. PartsAgree'
  BY <1>1, <1>3 DEF PartsAgree
<1>6. forwarded \in Seq(G) /\ Len(forwarded) = Len(got)
      /\ \A j \in 1 .. Len(forwarded) : forwarded[j] = StampSyslogMessage(got[j])
  BY DEF Forwarding, FrameTypes
<1> HIDE DEF G
<1>7. ASSUME NEW j \in 1 .. Len(forwarded') PROVE forwarded'[j] = StampSyslogMessage(got'[j])
  <2>1. Len(forwarded') \in Nat
    BY <1>2
  <2>2. CASE Len(forwarded') <= Len(got)
    <3>1. forwarded' = forwarded /\ j \in 1 .. Len(got)
      BY <1>1, <1>2, <1>6, <2>1, <2>2
    <3> QED
      BY <1>1, <1>6, <3>1
  <2>3. CASE Len(forwarded') > Len(got)
    <3> DEFINE g == StampSyslogMessage(f)
    <3>1. forwarded' = Append(forwarded, g)
      BY <1>2, <2>3
    <3>2. g = StampSyslogMessage(got'[Len(got) + 1])
      BY <1>1
    <3> HIDE DEF g
    <3>3. /\ Len(forwarded') = Len(got) + 1 /\ forwarded'[Len(got) + 1] = g
          /\ \A k \in 1 .. Len(got) : forwarded'[k] = forwarded[k]
      BY <1>1, <1>6, <3>1
    <3>4. CASE j = Len(got) + 1
      BY <3>2, <3>3, <3>4
    <3>5. CASE j # Len(got) + 1
      <4>1. j \in 1 .. Len(got)
        BY <1>1, <3>3, <3>5
      <4> QED
        BY <1>1, <1>6, <3>3, <4>1
    <3> QED
      BY <3>4, <3>5
  <2> QED
    BY <1>1, <2>1, <2>2, <2>3
<1>8. Forwarding'
  BY <1>2, <1>7 DEF Forwarding, G
<1> QED
  BY <1>4, <1>5, <1>8

LEMMA ContinueTypes ==
    ASSUME FrameTypes, PartsAgree, Forwarding, mode # "closed",
           NEW m, NEW p, NEW n, Continues(m, p, n)
    PROVE  FrameTypes' /\ PartsAgree' /\ Forwarding'
<1>1. /\ mode' = m /\ part' = p /\ need' = n /\ UNCHANGED <<got, forwarded, from>>
      /\ m \in {"length", "body", "line", "closed"} /\ p \in Seq(Token)
      /\ n \in 0 .. MaxNumber /\ n <= MaxFrameBytes
      /\ m = "length" => p # <<>> /\ p[1] \in Digit
      /\ m = "body" => Len(p) < n
  BY DEF Continues, Continue
<1>2. Len(got) \in Nat /\ Len(forwarded) = Len(got)
  <2> DEFINE X == Seq(Token)
  <2>1. got \in Seq(X) /\ Len(forwarded) = Len(got)
    BY DEF FrameTypes
  <2> HIDE DEF X
  <2> QED
    BY <2>1
<1>3. FrameTypes'
  <2>1. Len(forwarded') \in IF mode' = "closed" THEN 0 .. Len(got') ELSE {Len(got')}
    BY <1>1, <1>2
  <2> QED
    BY <1>1, <2>1 DEF FrameTypes
<1>4. PartsAgree'
  BY <1>1 DEF PartsAgree
<1>5. Forwarding'
  BY <1>1 DEF Forwarding
<1> QED
  BY <1>3, <1>4, <1>5

\* A deadline and a hang-up close, or return what there is of a line.
LEMMA StopIs ==
    ASSUME StreamTypes, FrameTypes, Deadline \/ HangUp
    PROVE  /\ UNCHANGED <<client, msg, pos, torn>> /\ mode # "closed"
           /\ mode # "line" => Continues("closed", <<>>, 0)
           /\ mode = "line" => \E next : Returns(part, TextUpto(pos), TRUE, next)
<1>1. <<>> \in Seq(Token) /\ 0 \in 0 .. MaxNumber /\ 0 <= MaxFrameBytes
  <2>1. MaxFrameBytes \in Nat /\ MaxNumber \in Nat
    BY NumeralAssumption
  <2>2. <<>> \in Seq(Token)
    OBVIOUS
  <2> QED
    BY <2>1, <2>2
<1>2. TextUpto(pos) \in Int
  <2>1. pos \in Nat
    BY StreamIs
  <2> QED
    BY <2>1 DEF TextUpto
<1>3. mode # "line" => Continues("closed", <<>>, 0)
  BY <1>1 DEF Deadline, HangUp, Close, Continues
<1>4. ASSUME mode = "line" PROVE \E next : Returns(part, TextUpto(pos), TRUE, next)
  <2>1. \E next \in {"start", "closed"} : Return(part, TextUpto(pos), TRUE, next)
    BY <1>4 DEF Deadline, HangUp
  <2>2. part \in Seq(Token)
    BY DEF FrameTypes
  <2> QED
    BY <1>2, <2>1, <2>2 DEF Returns
<1> QED
  BY <1>3, <1>4 DEF Deadline, HangUp

\* Whatever the stream, each step keeps the types.
LEMMA TypesStep ==
    ASSUME TypeOK, PartsAgree, Forwarding, [Next]_vars
    PROVE  TypeOK' /\ PartsAgree' /\ Forwarding'
<1>0. StreamTypes /\ FrameTypes /\ torn \in BOOLEAN /\ msg \in Nat
  BY TypeParts, StreamIs
<1>1. CASE ReadByte
  <2> DEFINE b == Encoded[pos + 1]
  <2>1. /\ mode # "closed" /\ msg <= Len(client.msgs) /\ Advance
        /\ ReadStart(b) \/ ReadLength(b) \/ ReadBody(b) \/ ReadLine(b)
        /\ torn' \in BOOLEAN
    BY <1>0, <1>1 DEF ReadByte, Advance
  <2>2. b \in Token
    BY <1>0, <2>1, StreamIs
  <2>3. StreamTypes'
    BY <1>0, <2>1, AdvanceTypes
  <2> HIDE DEF b
  <2>4. FrameTypes' /\ PartsAgree' /\ Forwarding'
    <3>1. CASE \E m, p, n : Continues(m, p, n)
      BY <1>0, <2>1, <3>1, ContinueTypes
    <3>2. CASE \E f, end : Returns(f, end, FALSE, "start")
      BY <1>0, <2>1, <3>2, ReturnTypes
    <3> QED
      BY <1>0, <2>1, <2>2, <3>1, <3>2, ByteIs
  <2>5. TypeOK'
    BY <2>1, <2>3, <2>4 DEF TypeOK, StreamTypes, FrameTypes, Origin
  <2> QED
    BY <2>4, <2>5
<1>2. CASE Deadline \/ HangUp
  <2>1. /\ UNCHANGED <<client, msg, pos, torn>> /\ mode # "closed"
        /\ mode # "line" => Continues("closed", <<>>, 0)
        /\ mode = "line" => \E next : Returns(part, TextUpto(pos), TRUE, next)
    BY <1>0, <1>2, StopIs
  <2>2. StreamTypes'
    BY <1>0, <2>1 DEF StreamTypes, Encoded
  <2>3. FrameTypes' /\ PartsAgree' /\ Forwarding'
    BY <1>0, <2>1, ContinueTypes, ReturnTypes
  <2>4. TypeOK'
    BY <1>0, <2>1, <2>2, <2>3 DEF TypeOK, StreamTypes, FrameTypes, Origin
  <2> QED
    BY <2>3, <2>4
<1>3. CASE UNCHANGED vars
  <2>1. TypeOK'
    BY <1>3 DEF vars, TypeOK, Encoded
  <2>2. PartsAgree' /\ Forwarding'
    BY <1>3 DEF vars, PartsAgree, Forwarding
  <2> QED
    BY <2>1, <2>2
<1> QED
  BY <1>1, <1>2, <1>3 DEF Next

-----------------------------------------------------------------------------
(***************************************************************************)
(* The frames are the messages.                                            *)
(***************************************************************************)
\* The byte that comes next, in a line ...
LEMMA LineByte ==
    ASSUME StreamTypes, msg <= Len(client.msgs), ~client.counted[msg], Advance
    PROVE  LET text == client.msgs[msg]
               b == Encoded[pos + 1]
           IN  /\ pos = 0 => b \notin Digit
               /\ \/ /\ pos < Len(text) /\ b = text[pos + 1] /\ b # "\n"
                     /\ msg' = msg /\ pos' = pos + 1
                  \/ /\ pos = Len(text) /\ b = "\n"
                     /\ msg' = msg + 1 /\ pos' = 0
<1> DEFINE text == client.msgs[msg]
           b == Encoded[pos + 1]
<1>1. client \in Streams /\ msg \in 1 .. Len(client.msgs) /\ pos \in Nat
      /\ pos + 1 \in 1 .. Len(Encoded)
  BY StreamIs DEF StreamTypes
<1>2. /\ Len(text) \in Nat /\ \A j \in 1 .. Len(text) : text[j] # "\n"
      /\ Len(text) > 0 => text[1] \notin Digit
  BY <1>1, MessageIs
<1>3. /\ Len(Encoded) = Len(text) + 1 /\ Encoded[Len(text) + 1] = "\n"
      /\ \A j \in 1 .. Len(text) : Encoded[j] = text[j]
  BY <1>1, EncodedLine DEF Encoded, EncodedOf
<1>4. "\n" \notin Digit
  BY TokensDiffer
<1> HIDE DEF text
<1>5. CASE pos < Len(text)
  <2>1. pos + 1 \in 1 .. Len(text) /\ pos + 1 # Len(Encoded)
    BY <1>1, <1>2, <1>3, <1>5
  <2>2. b = text[pos + 1] /\ b # "\n"
    BY <1>2, <1>3, <2>1
  <2>3. msg' = msg /\ pos' = pos + 1
    BY <2>1 DEF Advance
  <2>4. pos = 0 => b \notin Digit
    BY <1>2, <1>5, <2>2
  <2> QED
    BY <1>5, <2>2, <2>3, <2>4 DEF text
<1>6. CASE ~(pos < Len(text))
  <2>1. pos = Len(text) /\ pos + 1 = Len(Encoded)
    BY <1>1, <1>2, <1>3, <1>6
  <2>2. b = "\n"
    BY <1>3, <2>1
  <2>3. msg' = msg + 1 /\ pos' = 0
    BY <2>1 DEF Advance
  <2> QED
    BY <1>4, <2>1, <2>2, <2>3 DEF text
<1> QED
  BY <1>5, <1>6

\* ... and in a counted message.
LEMMA CountedByte ==
    ASSUME StreamTypes, msg <= Len(client.msgs), client.counted[msg], Advance
    PROVE  LET text == client.msgs[msg]
               b == Encoded[pos + 1]
           IN  /\ Len(text) \in 0 .. MaxNumber /\ pos \in 0 .. Len(text) + 1
               /\ pos = 0 => b = Numeral[Len(text)]
               /\ pos = 1 => b = " "
               /\ pos >= 2 => b = text[pos - 1]
               /\ IF pos = Len(text) + 1 THEN msg' = msg + 1 /\ pos' = 0
                  ELSE msg' = msg /\ pos' = pos + 1
<1> DEFINE text == client.msgs[msg]
           b == Encoded[pos + 1]
<1>1. client \in Streams /\ msg \in 1 .. Len(client.msgs) /\ pos \in Nat
      /\ pos + 1 \in 1 .. Len(Encoded)
  BY StreamIs DEF StreamTypes
<1>2. Len(text) \in 0 .. MaxNumber /\ Len(text) \in Nat
  BY <1>1, MessageIs
<1>3. /\ Len(Encoded) = Len(text) + 2 /\ Encoded[1] = Numeral[Len(text)] /\ Encoded[2] = " "
      /\ \A j \in 1 .. Len(text) : Encoded[j + 2] = text[j]
  BY <1>1, EncodedCounted DEF Encoded, EncodedOf
<1>9. Len(text) \in Nat /\ Len(Encoded) = Len(text) + 2
  BY <1>2, <1>3
<1> HIDE DEF text
<1>4. pos \in 0 .. Len(text) + 1
  BY <1>1, <1>9
<1>5. (pos = 0 => b = Numeral[Len(text)]) /\ (pos = 1 => b = " ")
  <2>1. 0 + 1 = 1 /\ 1 + 1 = 2
    OBVIOUS
  <2> QED
    BY <1>3, <2>1
<1>6. pos >= 2 => b = text[pos - 1]
  <2> SUFFICES ASSUME pos >= 2 PROVE b = text[pos - 1]
    OBVIOUS
  <2>1. pos - 1 \in 1 .. Len(text) /\ (pos - 1) + 2 = pos + 1
    BY <1>1, <1>4, <1>9
  <2> QED
    BY <1>3, <2>1
<1>7. IF pos = Len(text) + 1 THEN msg' = msg + 1 /\ pos' = 0 ELSE msg' = msg /\ pos' = pos + 1
  <2>1. pos + 1 = Len(Encoded) <=> pos = Len(text) + 1
    BY <1>1, <1>9
  <2> QED
    BY <2>1 DEF Advance
<1> QED
  BY <1>2, <1>4, <1>5, <1>6, <1>7 DEF text

AllPlaced == \A k \in 1 .. Len(got) : Placed(k)

\* What a frame must be that is returned while the stream is in step.
Fits(f, end, cut) ==
    LET text == client.msgs[msg]
    IN  /\ msg <= Len(client.msgs)
        /\ end \in Nat /\ end - Len(f) \in Nat /\ end <= Len(text)
        /\ Ready(msg, end - Len(f)) /\ Piece(f, text, end - Len(f))
        /\ ~cut => end = Len(text)
        /\ client.counted[msg] => ~cut /\ Len(f) <= MaxFrameBytes

LEMMA ReturnPlaced ==
    ASSUME FrameTypes, StreamTypes, AllPlaced, mode # "closed", msg <= Len(client.msgs),
           client' = client, NEW f, NEW end, NEW cut, NEW next, Returns(f, end, cut, next),
           Fits(f, end, cut)
    PROVE  AllPlaced'
<1>9. PICK l : l = Len(got) + 1
  OBVIOUS
<1> DEFINE text == client.msgs[msg]
           a == end - Len(f)
<1>0. /\ f \in Seq(Token) /\ end \in Int /\ cut \in BOOLEAN /\ next \in {"start", "closed"}
      /\ Return(f, end, cut, next) /\ msg \in Nat /\ msg \in 1 .. Len(client.msgs)
  BY StreamIs DEF Returns
<1>1. /\ Len(got) \in Nat /\ Len(got') = l
      /\ got'[l] = f /\ \A j \in 1 .. Len(got) : got'[j] = got[j]
      /\ from'[l] = [m |-> msg, a |-> a, b |-> end, cut |-> cut]
      /\ \A j \in 1 .. Len(got) : from'[j] = from[j]
  BY <1>0, <1>9, ReturnIs
<1>2. ASSUME NEW k \in 1 .. Len(got) PROVE Placed(k)'
  <2>1. Placed(k) /\ got'[k] = got[k] /\ from'[k] = from[k]
        /\ (k # 1 => from'[k - 1] = from[k - 1])
    <3>1. k # 1 => k - 1 \in 1 .. Len(got)
      BY <1>1
    <3> QED
      BY <1>1, <3>1 DEF AllPlaced
  <2> QED
    BY <2>1 DEF Placed
<1>3. Placed(l)'
  <2> DEFINE w == from'[l]
  <2>0. w.m = msg /\ w.a = a /\ w.b = end /\ w.cut = cut
    BY <1>1
  <2>1. /\ end \in Nat /\ a \in Nat /\ end <= Len(text) /\ Ready(msg, a) /\ Piece(f, text, a)
        /\ ~cut => end = Len(text)
        /\ client.counted[msg] => ~cut /\ Len(f) <= MaxFrameBytes
    BY DEF Fits
  <2>2. end = a + Len(f)
    <3>1. Len(f) \in Nat
      BY <1>0
    <3> QED
      BY <1>0, <3>1
  <2>3. IF l = 1 THEN w.m = 1 /\ w.a = 0
        ELSE LET v == from'[l - 1]
             IN  IF v.cut THEN w.m = v.m /\ w.a = v.b ELSE w.m = v.m + 1 /\ w.a = 0
    <3>0. Ready(msg, a)
      BY <2>1
    <3> HIDE DEF w, a
    <3>1. CASE Len(got) = 0
      <4>1. got = <<>>
        <5> DEFINE X == Seq(Token)
        <5>1. got \in Seq(X)
          BY DEF FrameTypes
        <5> HIDE DEF X
        <5> QED
          BY <3>1, <5>1
      <4>2. msg = 1 /\ a = 0
        BY <3>0, <4>1 DEF Ready
      <4> QED
        BY <1>9, <2>0, <3>1, <4>2
    <3>2. CASE Len(got) # 0
      <4>1. got # <<>> /\ l # 1 /\ l - 1 = Len(got) /\ from'[l - 1] = from[Len(got)]
        BY <1>1, <1>9, <3>2
      <4>2. LET v == from[Len(got)]
            IN  IF v.cut THEN msg = v.m /\ a = v.b ELSE msg = v.m + 1 /\ a = 0
        BY <3>0, <4>1 DEF Ready
      <4> QED
        BY <2>0, <4>1, <4>2
    <3> QED
      BY <3>1, <3>2
  <2>4. client'.msgs[w.m] = text /\ client'.counted[w.m] = client.counted[msg] /\ got'[l] = f
        /\ w.m \in 1 .. Len(client'.msgs)
    BY <1>0, <1>1, <2>0
  <2>5. Piece(got'[l], client'.msgs[w.m], w.a)
    BY <2>0, <2>1, <2>4
  <2> HIDE DEF a, text, w
  <2>6. /\ w.m \in 1 .. Len(client'.msgs) /\ w.a \in Nat /\ w.b \in Nat
        /\ w.b <= Len(client'.msgs[w.m]) /\ w.b = w.a + Len(got'[l])
        /\ ~w.cut => w.b = Len(client'.msgs[w.m])
        /\ client'.counted[w.m] => ~w.cut /\ Len(got'[l]) <= MaxFrameBytes
    BY <2>0, <2>1, <2>2, <2>4
  <2> QED
    BY <2>3, <2>5, <2>6 DEF Placed, Piece, w
<1>4. ASSUME NEW k \in 1 .. Len(got') PROVE Placed(k)'
  <2>1. k \in 1 .. l
    BY <1>1
  <2>2. k = l \/ k \in 1 .. Len(got)
    BY <1>1, <1>9, <2>1
  <2>3. CASE k = l
    BY <1>3, <2>3
  <2>4. CASE k \in 1 .. Len(got)
    BY <1>2, <2>4
  <2> QED
    BY <2>2, <2>3, <2>4
<1> QED
  BY <1>4 DEF AllPlaced

LEMMA ReturnWhole ==
    ASSUME FrameTypes, StreamTypes, WholeUnlessCut, mode # "closed", torn' = torn,
           NEW f, NEW end, NEW cut, NEW next, Returns(f, end, cut, next),
           ~torn => Ready(msg, end - Len(f))
    PROVE  WholeUnlessCut'
<1> DEFINE l == Len(got) + 1
           a == end - Len(f)
<1>0. /\ f \in Seq(Token) /\ end \in Int /\ cut \in BOOLEAN /\ next \in {"start", "closed"}
      /\ Return(f, end, cut, next) /\ msg \in Nat
  BY StreamIs DEF Returns
<1>1. /\ Len(got) \in Nat /\ Len(got') = l
      /\ from'[l] = [m |-> msg, a |-> a, b |-> end, cut |-> cut]
      /\ \A j \in 1 .. Len(got) : from'[j] = from[j]
  BY <1>0, ReturnIs
<1> SUFFICES ASSUME \A k \in 1 .. Len(got') : ~from'[k].cut
             PROVE  ~torn' /\ \A k \in 1 .. Len(got') : from'[k].m = k /\ from'[k].a = 0
  BY DEF WholeUnlessCut
<1>2. \A k \in 1 .. Len(got) : ~from[k].cut
  BY <1>1
<1>3. ~torn /\ \A k \in 1 .. Len(got) : from[k].m = k /\ from[k].a = 0
  BY <1>2 DEF WholeUnlessCut
<1>4. Ready(msg, a)
  BY <1>3
<1> HIDE DEF a
<1>5. msg = l /\ a = 0
  <2>1. CASE Len(got) = 0
    <3>1. got = <<>>
      <4> DEFINE X == Seq(Token)
      <4>1. got \in Seq(X)
        BY DEF FrameTypes
      <4> HIDE DEF X
      <4> QED
        BY <2>1, <4>1
    <3> QED
      BY <1>4, <2>1, <3>1 DEF Ready
  <2>2. CASE Len(got) # 0
    <3>1. got # <<>> /\ Len(got) \in 1 .. Len(got)
      BY <1>1, <2>2
    <3>2. ~from[Len(got)].cut /\ from[Len(got)].m = Len(got)
      BY <1>2, <1>3, <3>1
    <3> QED
      BY <1>4, <3>1, <3>2 DEF Ready
  <2> QED
    BY <2>1, <2>2
<1>6. from'[l].m = l /\ from'[l].a = 0
  BY <1>1, <1>5
<1>7. ASSUME NEW k \in 1 .. l PROVE from'[k].m = k /\ from'[k].a = 0
  <2>1. k = l \/ k \in 1 .. Len(got)
    BY <1>1
  <2> HIDE DEF l
  <2> QED
    BY <1>1, <1>3, <1>6, <2>1
<1> QED
  BY <1>1, <1>3, <1>7
\* The frame that is returned is the last, and the next follows it.
LEMMA ReadyAfter ==
    ASSUME FrameTypes, StreamTypes, mode # "closed", NEW f, NEW end, NEW cut, NEW next,
           Returns(f, end, cut, next), NEW m, NEW a,
           IF cut THEN m = msg /\ a = end ELSE m = msg + 1 /\ a = 0
    PROVE  Ready(m, a)'
<1>0. /\ f \in Seq(Token) /\ end \in Int /\ cut \in BOOLEAN /\ next \in {"start", "closed"}
      /\ Return(f, end, cut, next) /\ msg \in Nat
  BY StreamIs DEF Returns
<1>9. PICK l : l = Len(got) + 1
  OBVIOUS
<1>1. /\ Len(got) \in Nat /\ Len(got') = l
      /\ from'[l] = [m |-> msg, a |-> end - Len(f), b |-> end, cut |-> cut]
  BY <1>0, <1>9, ReturnIs
<1>2. got' # <<>>
  <2>1. l # 0 /\ Len(<<>>) = 0
    BY <1>1, <1>9
  <2> QED
    BY <1>1, <2>1
<1>3. from'[l].m = msg /\ from'[l].b = end /\ from'[l].cut = cut
  BY <1>1
<1> QED
  BY <1>1, <1>2, <1>3 DEF Ready

LEMMA ReturnAligned ==
    ASSUME FrameTypes, StreamTypes, mode # "closed", NEW f, NEW end, NEW cut, NEW next,
           Returns(f, end, cut, next),
           IF cut THEN msg' = msg /\ pos' = end /\ ~client'.counted[msg']
           ELSE msg' = msg + 1 /\ pos' = 0
    PROVE  Aligned'
<1>0. /\ f \in Seq(Token) /\ end \in Int /\ cut \in BOOLEAN /\ next \in {"start", "closed"}
      /\ Return(f, end, cut, next) /\ msg \in Nat
  BY StreamIs DEF Returns
<1>1. mode' \in {"start", "closed"}
  BY <1>0 DEF Return
<1>2. PICK m, a : m = msg' /\ a = pos'
  OBVIOUS
<1>3. Ready(m, a)'
  BY <1>2, ReadyAfter
<1>4. Ready(msg, pos)'
  BY <1>2, <1>3 DEF Ready
<1>5. pos' > 0 => ~client'.counted[msg']
  OBVIOUS
<1> QED
  BY <1>1, <1>4, <1>5 DEF Aligned

LEMMA PieceExtends ==
    ASSUME NEW f \in Seq(Token), NEW b \in Token, NEW text, NEW a \in Nat, Piece(f, text, a),
           b = text[a + (Len(f) + 1)]
    PROVE  Piece(Append(f, b), text, a)
<1>1. /\ Len(f) \in Nat /\ Len(Append(f, b)) = Len(f) + 1
      /\ \A j \in 1 .. Len(f) : Append(f, b)[j] = f[j]
      /\ Append(f, b)[Len(f) + 1] = b
  BY Appended
<1> DEFINE g == Append(f, b)
<1> HIDE DEF g
<1>2. ASSUME NEW j \in 1 .. Len(f) + 1 PROVE g[j] = text[a + j]
  <2>1. CASE j = Len(f) + 1
    BY <1>1, <2>1 DEF g
  <2>2. CASE j # Len(f) + 1
    <3>1. j \in 1 .. Len(f)
      BY <1>1, <2>2
    <3> QED
      BY <1>1, <3>1 DEF Piece, g
  <2> QED
    BY <2>1, <2>2
<1> QED
  BY <1>1, <1>2 DEF Piece, g

LEMMA Whole ==
    ASSUME NEW f \in Seq(Token), NEW end \in Int, Return(f, end, FALSE, "start")
    PROVE  Returns(f, end, FALSE, "start")
  BY DEF Returns

\* A step that keeps the stream and the frames together.
InStep ==
    /\ Aligned'
    /\ \/ UNCHANGED <<got, from>>
       \/ \E f, end, cut, next : Returns(f, end, cut, next) /\ Fits(f, end, cut)

Reading(b) ==
    /\ StreamTypes /\ FrameTypes /\ PartsAgree /\ Aligned /\ Advance
    /\ mode # "closed" /\ msg <= Len(client.msgs) /\ b = Encoded[pos + 1]

LEMMA ReadingIs ==
    ASSUME NEW b, Reading(b)
    PROVE  /\ b \in Token /\ pos \in Nat /\ msg \in Nat /\ Len(client.msgs) \in Nat
           /\ client \in Streams /\ msg \in 1 .. Len(client.msgs) /\ client' = client
           /\ part \in Seq(Token) /\ Len(part) \in Nat /\ need \in Nat /\ need <= MaxFrameBytes
           /\ Len(client.msgs[msg]) \in Nat /\ client.counted[msg] \in BOOLEAN
           /\ MaxFrameBytes \in Nat
<1>1. /\ StreamTypes /\ FrameTypes /\ PartsAgree /\ Advance
      /\ msg <= Len(client.msgs) /\ b = Encoded[pos + 1]
  BY DEF Reading
<1>2. MaxFrameBytes \in Nat /\ MaxNumber \in Nat
  BY NumeralAssumption
<1>3. /\ b \in Token /\ pos \in Nat /\ msg \in Nat /\ Len(client.msgs) \in Nat
      /\ client \in Streams /\ msg \in 1 .. Len(client.msgs) /\ client' = client
  BY <1>1, StreamIs DEF StreamTypes, Advance
<1>4. Len(client.msgs[msg]) \in Nat /\ client.counted[msg] \in BOOLEAN
  BY <1>3, MessageIs
<1>5. part \in Seq(Token) /\ Len(part) \in Nat
  BY <1>1 DEF FrameTypes
<1>6. need \in Nat /\ need <= MaxFrameBytes
  BY <1>1, <1>2 DEF FrameTypes, PartsAgree
<1> QED
  BY <1>2, <1>3, <1>4, <1>5, <1>6

LEMMA StartInStep ==
    ASSUME NEW b, Reading(b), ReadStart(b), ~(pos > 0 /\ b \in Digit)
    PROVE  InStep
<1> DEFINE text == client.msgs[msg]
<1>0. /\ b \in Token /\ pos \in Nat /\ msg \in Nat /\ Len(client.msgs) \in Nat
      /\ client \in Streams /\ msg \in 1 .. Len(client.msgs) /\ client' = client
      /\ Len(text) \in Nat /\ client.counted[msg] \in BOOLEAN /\ MaxFrameBytes \in Nat
  BY ReadingIs
<1>1. /\ StreamTypes /\ FrameTypes /\ Advance /\ msg <= Len(client.msgs) /\ mode # "closed"
      /\ b = Encoded[pos + 1]
      /\ mode = "start" /\ Ready(msg, pos) /\ (pos > 0 => ~client.counted[msg])
  BY DEF Reading, ReadStart, Aligned
<1>2. CASE client.counted[msg]
  <2>1. pos = 0
    BY <1>0, <1>1, <1>2
  <2>2. /\ Len(text) \in 0 .. MaxNumber /\ b = Numeral[Len(text)]
        /\ IF pos = Len(text) + 1 THEN msg' = msg + 1 /\ pos' = 0
           ELSE msg' = msg /\ pos' = pos + 1
    BY <1>1, <1>2, <2>1, CountedByte
  <2>3. msg' = msg /\ pos' = 1
    <3>1. pos # Len(text) + 1 /\ pos + 1 = 1
      BY <1>0, <2>1
    <3> QED
      BY <2>2, <3>1
  <2>4. b \in Digit
    BY <2>2, NumeralIs
  <2>5. Continue("length", <<b>>, 0)
    BY <2>4 DEF ReadStart
  <2>6. mode' = "length" /\ part' = <<b>> /\ UNCHANGED <<got, from>>
    BY <2>5 DEF Continue
  <2>7. Ready(msg, 0)'
    BY <1>1, <2>1, <2>3, <2>6 DEF Ready
  <2>8. part' = <<Numeral[Len(client'.msgs[msg'])]>> /\ client'.counted[msg']
        /\ msg' <= Len(client'.msgs)
    BY <1>0, <1>1, <1>2, <2>2, <2>3, <2>6
  <2> QED
    BY <2>3, <2>6, <2>7, <2>8 DEF Aligned, InStep
<1>3. CASE ~client.counted[msg]
  <2>1. /\ pos = 0 => b \notin Digit
        /\ \/ /\ pos < Len(text) /\ b = text[pos + 1] /\ b # "\n"
              /\ msg' = msg /\ pos' = pos + 1
           \/ /\ pos = Len(text) /\ b = "\n"
              /\ msg' = msg + 1 /\ pos' = 0
    BY <1>1, <1>3, LineByte
  <2>2. b \notin Digit
    BY <1>0, <2>1
  <2>3. CASE b = "\n"
    <3>1. pos = Len(text) /\ msg' = msg + 1 /\ pos' = 0
      BY <2>1, <2>3
    <3>2. Return(<<>>, pos, FALSE, "start")
      BY <2>2, <2>3 DEF ReadStart
    <3>3. Returns(<<>>, pos, FALSE, "start")
      <4>1. <<>> \in Seq(Token) /\ pos \in Int
        BY <1>0
      <4> QED
        BY <3>2, <4>1, Whole
    <3>4. Aligned'
      BY <1>1, <3>1, <3>3, ReturnAligned
    <3>5. Fits(<<>>, pos, FALSE)
      <4>1. Len(<<>>) = 0 /\ pos - 0 = pos
        BY <1>0
      <4>2. Piece(<<>>, text, pos)
        BY <4>1 DEF Piece
      <4> QED
        BY <1>0, <1>1, <1>3, <3>1, <4>1, <4>2 DEF Fits
    <3> QED
      BY <3>3, <3>4, <3>5 DEF InStep
  <2>4. CASE b # "\n"
    <3>1. b = text[pos + 1] /\ msg' = msg /\ pos' = pos + 1
      BY <2>1, <2>4
    <3>2. Continue("line", <<b>>, 0)
      BY <2>2, <2>4 DEF ReadStart
    <3>3. mode' = "line" /\ part' = <<b>> /\ UNCHANGED <<got, from>>
      BY <3>2 DEF Continue
    <3>4. Len(part') = 1 /\ part'[1] = b
      BY <3>3
    <3>5. (pos + 1) - 1 = pos /\ 1 \in 1 .. pos + 1
      BY <1>0
    <3>6. Ready(msg, pos - Len(part))'
      BY <1>1, <3>1, <3>3, <3>4, <3>5 DEF Ready
    <3>7. Piece(part, client.msgs[msg], pos - Len(part))'
      <4>1. \A j \in 1 .. 1 : part'[j] = text[pos + j]
        BY <3>1, <3>4
      <4> QED
        BY <1>0, <3>1, <3>4, <3>5, <4>1 DEF Piece
    <3>8. Len(part') \in 1 .. pos' /\ ~client'.counted[msg'] /\ msg' <= Len(client'.msgs)
      BY <1>0, <1>1, <1>3, <3>1, <3>4, <3>5
    <3> QED
      BY <3>3, <3>6, <3>7, <3>8 DEF Aligned, InStep
  <2> QED
    BY <2>3, <2>4
<1> QED
  BY <1>0, <1>2, <1>3
LEMMA LengthInStep ==
    ASSUME NEW b, Reading(b), ReadLength(b)
    PROVE  InStep
<1> DEFINE text == client.msgs[msg]
<1>0. /\ b \in Token /\ pos \in Nat /\ msg \in Nat /\ Len(client.msgs) \in Nat
      /\ client \in Streams /\ msg \in 1 .. Len(client.msgs) /\ client' = client
      /\ Len(text) \in Nat /\ MaxFrameBytes \in Nat
  BY ReadingIs
<1>1. /\ StreamTypes /\ FrameTypes /\ Advance /\ msg <= Len(client.msgs) /\ mode # "closed"
      /\ b = Encoded[pos + 1] /\ mode = "length" /\ client.counted[msg] /\ pos = 1
      /\ Ready(msg, 0) /\ part = <<Numeral[Len(text)]>>
  BY DEF Reading, ReadLength, Aligned
<1>2. /\ Len(text) \in 0 .. MaxNumber /\ b = " "
      /\ IF pos = Len(text) + 1 THEN msg' = msg + 1 /\ pos' = 0
         ELSE msg' = msg /\ pos' = pos + 1
  BY <1>1, CountedByte
<1>3. Len(part) = 1 /\ part[1] = Numeral[Len(text)]
  BY <1>1
<1>4. Value(part[1]) = Len(text)
  BY <1>2, <1>3, NumeralIs
<1>5. CASE Len(text) > MaxFrameBytes
  <2>1. Continue("closed", <<>>, 0)
    BY <1>2, <1>4, <1>5 DEF ReadLength, Close
  <2>2. mode' = "closed" /\ UNCHANGED <<got, from>>
    BY <2>1 DEF Continue
  <2> QED
    BY <2>2 DEF Aligned, InStep
<1>6. CASE ~(Len(text) > MaxFrameBytes) /\ Len(text) = 0
  <2>1. TextUpto(pos + 1) = 0
    BY <1>1 DEF TextUpto
  <2>2. Return(<<>>, 0, FALSE, "start")
    BY <1>2, <1>3, <1>4, <1>6, <2>1 DEF ReadLength
  <2>3. Returns(<<>>, 0, FALSE, "start")
    <3>1. <<>> \in Seq(Token) /\ 0 \in Int
      OBVIOUS
    <3> QED
      BY <2>2, <3>1, Whole
  <2>4. msg' = msg + 1 /\ pos' = 0
    <3>1. pos = Len(text) + 1
      BY <1>1, <1>6
    <3> QED
      BY <1>2, <3>1
  <2>5. Aligned'
    BY <1>1, <2>3, <2>4, ReturnAligned
  <2>6. Fits(<<>>, 0, FALSE)
    <3>1. Len(<<>>) = 0 /\ 0 - 0 = 0
      OBVIOUS
    <3>2. Piece(<<>>, text, 0)
      BY <3>1 DEF Piece
    <3> QED
      BY <1>0, <1>1, <1>6, <3>1, <3>2 DEF Fits
  <2> QED
    BY <2>3, <2>5, <2>6 DEF InStep
<1>7. CASE ~(Len(text) > MaxFrameBytes) /\ Len(text) # 0
  <2>1. Continue("body", <<>>, Len(text))
    BY <1>2, <1>3, <1>4, <1>7 DEF ReadLength
  <2>2. mode' = "body" /\ part' = <<>> /\ need' = Len(text) /\ UNCHANGED <<got, from>>
    BY <2>1 DEF Continue
  <2>3. msg' = msg /\ pos' = 2
    <3>1. pos # Len(text) + 1 /\ pos + 1 = 2
      BY <1>0, <1>1, <1>7
    <3> QED
      BY <1>2, <3>1
  <2>4. Len(part') = 0 /\ pos' = Len(part') + 2
    BY <2>2, <2>3
  <2>5. Piece(part, client.msgs[msg], 0)'
    BY <2>4 DEF Piece
  <2>6. Ready(msg, 0)'
    BY <1>1, <2>2, <2>3 DEF Ready
  <2>7. msg' <= Len(client'.msgs) /\ client'.counted[msg'] /\ need' = Len(client'.msgs[msg'])
    BY <1>0, <1>1, <2>2, <2>3
  <2> QED
    BY <2>2, <2>4, <2>5, <2>6, <2>7 DEF Aligned, InStep
<1> QED
  BY <1>5, <1>6, <1>7

LEMMA BodyInStep ==
    ASSUME NEW b, Reading(b), ReadBody(b)
    PROVE  InStep
<1> DEFINE text == client.msgs[msg]
<1>0. /\ b \in Token /\ pos \in Nat /\ msg \in Nat /\ Len(client.msgs) \in Nat
      /\ client \in Streams /\ msg \in 1 .. Len(client.msgs) /\ client' = client
      /\ part \in Seq(Token) /\ Len(part) \in Nat /\ need \in Nat /\ need <= MaxFrameBytes
      /\ Len(text) \in Nat /\ MaxFrameBytes \in Nat
  BY ReadingIs
<1>1. /\ StreamTypes /\ FrameTypes /\ Advance /\ msg <= Len(client.msgs) /\ mode # "closed"
      /\ b = Encoded[pos + 1] /\ mode = "body" /\ client.counted[msg] /\ pos = Len(part) + 2
      /\ Ready(msg, 0) /\ need = Len(text) /\ Piece(part, text, 0)
  BY DEF Reading, ReadBody, Aligned
<1>2. /\ pos >= 2 => b = text[pos - 1]
      /\ IF pos = Len(text) + 1 THEN msg' = msg + 1 /\ pos' = 0
         ELSE msg' = msg /\ pos' = pos + 1
  BY <1>1, CountedByte
<1>3. b = text[0 + (Len(part) + 1)]
  <2>1. pos >= 2 /\ pos - 1 = 0 + (Len(part) + 1)
    BY <1>0, <1>1
  <2> QED
    BY <1>2, <2>1
<1>4. Append(part, b) \in Seq(Token) /\ Len(Append(part, b)) = Len(part) + 1
  BY <1>0, Appended
<1>5. Piece(Append(part, b), text, 0)
  BY <1>0, <1>1, <1>3, PieceExtends
<1> DEFINE f == Append(part, b)
<1> HIDE DEF text, f
<1>6. CASE Len(part) + 1 = need
  <2>1. TextUpto(pos + 1) = (pos + 1) - 2
    BY <1>1 DEF TextUpto
  <2>2. (pos + 1) - 2 = Len(text) /\ pos = Len(text) + 1
    BY <1>0, <1>1, <1>6
  <2>3. Return(f, Len(text), FALSE, "start")
    BY <1>6, <2>1, <2>2 DEF ReadBody, f
  <2>4. Returns(f, Len(text), FALSE, "start")
    <3>1. Len(text) \in Int /\ f \in Seq(Token)
      BY <1>0, <1>4 DEF f
    <3> QED
      BY <2>3, <3>1, Whole
  <2>5. msg' = msg + 1 /\ pos' = 0
    BY <1>2, <2>2
  <2>6. Aligned'
    BY <1>1, <2>4, <2>5, ReturnAligned
  <2>7. Len(text) - Len(f) = 0 /\ Len(f) <= MaxFrameBytes
    BY <1>0, <1>1, <1>4, <1>6 DEF f
  <2>8. Fits(f, Len(text), FALSE)
    BY <1>0, <1>1, <1>5, <2>7 DEF Fits, f, text
  <2> QED
    BY <2>4, <2>6, <2>8 DEF InStep
<1>7. CASE Len(part) + 1 # need
  <2>1. Continue("body", f, need)
    BY <1>7 DEF ReadBody, f
  <2>2. mode' = "body" /\ part' = f /\ need' = need /\ UNCHANGED <<got, from>>
    BY <2>1 DEF Continue
  <2>3. msg' = msg /\ pos' = pos + 1
    <3>1. pos # Len(text) + 1
      BY <1>0, <1>1, <1>7
    <3> QED
      BY <1>2, <3>1
  <2>4. pos' = Len(part') + 2
    BY <1>0, <1>1, <1>4, <2>2, <2>3 DEF f
  <2>5. Piece(part, client.msgs[msg], 0)'
    BY <1>0, <1>5, <2>2, <2>3 DEF f, text, Piece
  <2>6. Ready(msg, 0)'
    BY <1>1, <2>2, <2>3 DEF Ready
  <2>7. msg' <= Len(client'.msgs) /\ client'.counted[msg'] /\ need' = Len(client'.msgs[msg'])
    BY <1>0, <1>1, <2>2, <2>3 DEF text
  <2> QED
    BY <2>2, <2>4, <2>5, <2>6, <2>7 DEF Aligned, InStep
<1> QED
  BY <1>6, <1>7

LEMMA LineInStep ==
    ASSUME NEW b, Reading(b), ReadLine(b)
    PROVE  InStep
<1> DEFINE text == client.msgs[msg]
           a == pos - Len(part)
<1>0. /\ b \in Token /\ pos \in Nat /\ msg \in Nat /\ Len(client.msgs) \in Nat
      /\ client \in Streams /\ msg \in 1 .. Len(client.msgs) /\ client' = client
      /\ part \in Seq(Token) /\ Len(part) \in Nat /\ Len(text) \in Nat
  BY ReadingIs
<1>1. /\ StreamTypes /\ FrameTypes /\ Advance /\ msg <= Len(client.msgs) /\ mode # "closed"
      /\ b = Encoded[pos + 1] /\ mode = "line" /\ ~client.counted[msg] /\ Len(part) \in 1 .. pos
      /\ Ready(msg, a) /\ Piece(part, text, a)
  BY DEF Reading, ReadLine, Aligned
<1>2. \/ /\ pos < Len(text) /\ b = text[pos + 1] /\ b # "\n"
         /\ msg' = msg /\ pos' = pos + 1
      \/ /\ pos = Len(text) /\ b = "\n"
         /\ msg' = msg + 1 /\ pos' = 0
  BY <1>1, LineByte
<1>3. a \in Nat /\ pos + 1 = a + (Len(part) + 1)
  BY <1>0, <1>1
<1>4. CASE b = "\n"
  <2>1. pos = Len(text) /\ msg' = msg + 1 /\ pos' = 0
    BY <1>2, <1>4
  <2>2. TextUpto(pos) = pos
    BY <1>1 DEF TextUpto
  <2>3. Return(part, pos, FALSE, "start")
    BY <1>4, <2>2 DEF ReadLine
  <2>4. Returns(part, pos, FALSE, "start")
    <3>1. pos \in Int
      BY <1>0
    <3> QED
      BY <1>0, <2>3, <3>1, Whole
  <2>5. Aligned'
    BY <1>1, <2>1, <2>4, ReturnAligned
  <2>6. Fits(part, pos, FALSE)
    BY <1>0, <1>1, <1>3, <2>1 DEF Fits
  <2> QED
    BY <2>4, <2>5, <2>6 DEF InStep
<1>5. CASE b # "\n"
  <2>1. b = text[pos + 1] /\ msg' = msg /\ pos' = pos + 1
    BY <1>2, <1>5
  <2>2. Continue("line", Append(part, b), 0)
    BY <1>5 DEF ReadLine
  <2>3. mode' = "line" /\ part' = Append(part, b) /\ UNCHANGED <<got, from>>
    BY <2>2 DEF Continue
  <2>4. Len(part') = Len(part) + 1
    BY <1>0, <2>3, Appended
  <2>5. (pos + 1) - (Len(part) + 1) = a /\ Len(part) + 1 \in 1 .. pos + 1
    BY <1>0, <1>1
  <2>6. Piece(Append(part, b), text, a)
    BY <1>0, <1>1, <1>3, <2>1, PieceExtends
  <2>7. Ready(msg, pos - Len(part))'
    BY <1>1, <2>1, <2>3, <2>4, <2>5 DEF Ready
  <2>8. Piece(part, client.msgs[msg], pos - Len(part))'
    <3> DEFINE g == part'
               v == pos' - Len(part')
    <3>1. g = Append(part, b) /\ v = a /\ client'.msgs[msg'] = text
      BY <1>0, <2>1, <2>3, <2>4, <2>5
    <3>2. Piece(g, client'.msgs[msg'], v)
      BY <2>6, <3>1
    <3> QED
      BY <3>2 DEF Piece
  <2>9. Len(part') \in 1 .. pos' /\ ~client'.counted[msg'] /\ msg' <= Len(client'.msgs)
    BY <1>0, <1>1, <2>1, <2>4, <2>5
  <2> QED
    BY <2>3, <2>7, <2>8, <2>9 DEF Aligned, InStep
<1> QED
  BY <1>4, <1>5

LEMMA StopInStep ==
    ASSUME StreamTypes, FrameTypes, Aligned, Deadline \/ HangUp
    PROVE  InStep
<1> DEFINE text == client.msgs[msg]
           a == pos - Len(part)
<1>1. /\ UNCHANGED <<client, msg, pos, torn>> /\ mode # "closed"
      /\ mode # "line" => Continues("closed", <<>>, 0)
      /\ mode = "line" => \E next : Returns(part, TextUpto(pos), TRUE, next)
  BY StopIs
<1>2. CASE mode # "line"
  <2>1. mode' = "closed" /\ UNCHANGED <<got, from>>
    BY <1>1, <1>2 DEF Continues, Continue
  <2> QED
    BY <2>1 DEF Aligned, InStep
<1>3. CASE mode = "line"
  <2>1. /\ msg <= Len(client.msgs) /\ ~client.counted[msg] /\ Len(part) \in 1 .. pos
        /\ Ready(msg, a) /\ Piece(part, text, a)
    BY <1>3 DEF Aligned
  <2>2. /\ client \in Streams /\ msg \in 1 .. Len(client.msgs) /\ pos \in Nat /\ msg \in Nat
        /\ pos + 1 \in 1 .. Len(Encoded)
    BY <2>1, StreamIs DEF StreamTypes
  <2>3. Len(text) \in Nat /\ Len(Encoded) = Len(text) + 1
    BY <2>1, <2>2, MessageIs, EncodedLine DEF Encoded, EncodedOf
  <2>4. Len(part) \in Nat
    BY DEF FrameTypes
  <2>5. pos <= Len(text) /\ a \in Nat
    <3> HIDE DEF text
    <3>1. pos <= Len(text)
      BY <2>2, <2>3
    <3>2. a \in Nat
      BY <2>1, <2>2, <2>4
    <3> QED
      BY <3>1, <3>2
  <2>6. TextUpto(pos) = pos
    BY <2>1 DEF TextUpto
  <2>7. PICK next : Returns(part, pos, TRUE, next)
    BY <1>1, <1>3, <2>6
  <2>8. Fits(part, pos, TRUE)
    BY <2>1, <2>2, <2>5 DEF Fits
  <2>9. msg' = msg /\ pos' = pos /\ ~client'.counted[msg']
    BY <1>1, <2>1
  <2>10. Aligned'
    BY <1>1, <2>7, <2>9, ReturnAligned
  <2> QED
    BY <2>7, <2>8, <2>10 DEF InStep
<1> QED
  BY <1>2, <1>3
\* A step in step keeps every frame in its place.
LEMMA InStepPlaced ==
    ASSUME StreamTypes, FrameTypes, AllPlaced, WholeUnlessCut, mode # "closed",
           client' = client, torn' = torn, InStep
    PROVE  AllPlaced' /\ WholeUnlessCut'
<1>1. CASE UNCHANGED <<got, from>>
  <2>1. ASSUME NEW k \in 1 .. Len(got) PROVE Placed(k)'
    BY <1>1, <2>1 DEF AllPlaced, Placed, Piece
  <2>2. AllPlaced'
    BY <1>1, <2>1 DEF AllPlaced
  <2>3. WholeUnlessCut'
    BY <1>1 DEF WholeUnlessCut
  <2> QED
    BY <2>2, <2>3
<1>2. CASE \E f, end, cut, next : Returns(f, end, cut, next) /\ Fits(f, end, cut)
  <2>1. PICK f, end, cut, next : Returns(f, end, cut, next) /\ Fits(f, end, cut)
    BY <1>2
  <2>2. msg <= Len(client.msgs) /\ Ready(msg, end - Len(f))
    BY <2>1 DEF Fits
  <2>3. WholeUnlessCut'
    BY <2>1, <2>2, ReturnWhole
  <2>4. AllPlaced'
    BY <2>1, <2>2, ReturnPlaced
  <2> QED
    BY <2>3, <2>4
<1> QED
  BY <1>1, <1>2 DEF InStep

\* A digit in the middle of a line begins a length only where the line was cut.
LEMMA TornIsCut ==
    ASSUME StreamTypes, FrameTypes, Aligned, mode = "start", pos > 0,
           UNCHANGED <<got, from>>
    PROVE  WholeUnlessCut'
<1>1. Ready(msg, pos) /\ pos # 0
  <2>1. pos \in Nat
    BY StreamIs
  <2> QED
    BY <2>1 DEF Aligned
<1>2. got # <<>> /\ from[Len(got)].cut
  BY <1>1 DEF Ready
<1>3. Len(got) \in 1 .. Len(got)
  <2> DEFINE X == Seq(Token)
  <2>1. got \in Seq(X)
    BY DEF FrameTypes
  <2> HIDE DEF X
  <2> QED
    BY <1>2, <2>1
<1> QED
  BY <1>2, <1>3 DEF WholeUnlessCut

LEMMA FramesStep ==
    ASSUME FramesInv, [Next]_vars
    PROVE  FramesInv'
<1>0. /\ TypeOK /\ StreamTypes /\ FrameTypes /\ torn \in BOOLEAN /\ PartsAgree /\ Forwarding
      /\ WholeUnlessCut /\ (~torn => Aligned /\ AllPlaced)
  BY TypeParts DEF FramesInv, AllPlaced
<1>1. TypeOK' /\ PartsAgree' /\ Forwarding'
  BY <1>0, TypesStep
<1>2. WholeUnlessCut' /\ (~torn' => Aligned' /\ AllPlaced')
  <2>1. CASE ReadByte
    <3> DEFINE b == Encoded[pos + 1]
    <3>1. /\ mode # "closed" /\ msg <= Len(client.msgs) /\ Advance
          /\ ReadStart(b) \/ ReadLength(b) \/ ReadBody(b) \/ ReadLine(b)
          /\ torn' = (torn \/ (mode = "start" /\ pos > 0 /\ b \in Digit)) /\ client' = client
      BY <2>1 DEF ReadByte, Advance
    <3>2. b \in Token
      BY <1>0, <3>1, StreamIs
    <3>3. CASE ~torn /\ ~(mode = "start" /\ pos > 0 /\ b \in Digit)
      <4>1. Reading(b)
        BY <1>0, <3>1, <3>3 DEF Reading
      <4>2. ReadStart(b) => ~(pos > 0 /\ b \in Digit)
        BY <3>3 DEF ReadStart
      <4> HIDE DEF b
      <4>3. InStep
        BY <3>1, <4>1, <4>2, StartInStep, LengthInStep, BodyInStep, LineInStep
      <4>4. torn' = torn
        BY <1>0, <3>1, <3>3
      <4>5. AllPlaced' /\ WholeUnlessCut'
        BY <1>0, <3>1, <3>3, <4>3, <4>4, InStepPlaced
      <4> QED
        BY <4>3, <4>5 DEF InStep
    <3>4. CASE torn
      <4>1. torn' = torn /\ torn'
        BY <3>1, <3>4
      <4> HIDE DEF b
      <4>2. CASE \E m, p, n : Continues(m, p, n)
        <5>1. UNCHANGED <<got, from>>
          BY <4>2 DEF Continues, Continue
        <5> QED
          BY <1>0, <4>1, <5>1 DEF WholeUnlessCut
      <4>3. CASE \E f, end : Returns(f, end, FALSE, "start")
        <5>1. WholeUnlessCut'
          BY <1>0, <3>1, <3>4, <4>1, <4>3, ReturnWhole
        <5> QED
          BY <4>1, <5>1
      <4> QED
        BY <1>0, <3>1, <3>2, <4>2, <4>3, ByteIs
    <3>5. CASE ~torn /\ mode = "start" /\ pos > 0 /\ b \in Digit
      <4>1. torn'
        BY <3>1, <3>5
      <4>2. ReadStart(b)
        BY <3>1, <3>5 DEF ReadLength, ReadBody, ReadLine
      <4>3. UNCHANGED <<got, from>>
        BY <3>5, <4>2 DEF ReadStart, Continue
      <4> QED
        BY <1>0, <3>5, <4>1, <4>3, TornIsCut
    <3> QED
      BY <1>0, <3>3, <3>4, <3>5
  <2>2. CASE Deadline \/ HangUp
    <3>1. /\ UNCHANGED <<client, msg, pos, torn>> /\ mode # "closed"
          /\ mode # "line" => Continues("closed", <<>>, 0)
          /\ mode = "line" => \E next : Returns(part, TextUpto(pos), TRUE, next)
      BY <1>0, <2>2, StopIs
    <3>2. CASE ~torn
      <4>1. InStep
        BY <1>0, <2>2, <3>2, StopInStep
      <4>2. AllPlaced' /\ WholeUnlessCut'
        BY <1>0, <3>1, <3>2, <4>1, InStepPlaced
      <4> QED
        BY <4>1, <4>2 DEF InStep
    <3>3. CASE torn /\ mode # "line"
      <4>1. UNCHANGED <<got, from>>
        BY <3>1, <3>3 DEF Continues, Continue
      <4> QED
        BY <1>0, <3>1, <3>3, <4>1 DEF WholeUnlessCut
    <3>4. CASE torn /\ mode = "line"
      <4>1. PICK next : Returns(part, TextUpto(pos), TRUE, next)
        BY <3>1, <3>4
      <4>2. WholeUnlessCut'
        BY <1>0, <3>1, <3>4, <4>1, ReturnWhole
      <4> QED
        BY <3>1, <3>4, <4>2
    <3> QED
      BY <1>0, <3>2, <3>3, <3>4
  <2>3. CASE UNCHANGED vars
    <3>1. WholeUnlessCut'
      BY <1>0, <2>3 DEF vars, WholeUnlessCut
    <3>2. Aligned => Aligned'
      BY <2>3 DEF vars, Aligned, Ready, Piece
    <3>3. AllPlaced => AllPlaced'
      BY <2>3 DEF vars, AllPlaced, Placed, Piece
    <3> QED
      BY <1>0, <2>3, <3>1, <3>2, <3>3 DEF vars
  <2> QED
    BY <2>1, <2>2, <2>3 DEF Next
<1> QED
  BY <1>1, <1>2 DEF FramesInv, AllPlaced

LEMMA FramesInit == Init => FramesInv
<1> SUFFICES ASSUME Init PROVE FramesInv
  OBVIOUS
<1>1. /\ client \in Streams /\ msg = 1 /\ pos = 0 /\ mode = "start" /\ part = <<>> /\ need = 0
      /\ got = <<>> /\ forwarded = <<>> /\ from = <<>> /\ torn = FALSE
  BY DEF Init
<1>2. MaxFrameBytes \in Nat /\ MaxNumber \in Nat
  BY NumeralAssumption
<1>3. StreamTypes
  <2>1. Len(client.msgs) \in Nat
    <3> DEFINE X == Seq(Token)
    <3>1. client.msgs \in Seq(X)
      BY <1>1, StreamsAssumption
    <3> HIDE DEF X
    <3> QED
      BY <3>1
  <2>2. CASE Len(client.msgs) = 0
    BY <1>1, <2>1, <2>2 DEF StreamTypes
  <2>3. CASE Len(client.msgs) # 0
    <3>1. 1 \in 1 .. Len(client.msgs)
      BY <2>1, <2>3
    <3>2. client.counted[1] \in BOOLEAN /\ Len(client.msgs[1]) \in Nat
      BY <1>1, <3>1, MessageIs
    <3> DEFINE t == client.msgs[1]
    <3>3. Len(EncodedOf(client, 1)) \in {Len(t) + 1, Len(t) + 2}
      BY <1>1, <3>1, <3>2, EncodedCounted, EncodedLine
    <3>4. Encoded = EncodedOf(client, 1)
      BY <1>1 DEF Encoded, EncodedOf
    <3> HIDE DEF t
    <3>5. 0 \in 0 .. Len(Encoded) - 1
      <4>1. Len(t) \in Nat
        BY <3>2 DEF t
      <4> QED
        BY <3>3, <3>4, <4>1
    <3> QED
      BY <1>1, <2>1, <2>3, <3>5 DEF StreamTypes
  <2> QED
    BY <2>2, <2>3
<1>4. FrameTypes
  <2>1. Len(<<>>) = 0 /\ <<>> \in Seq(Token) /\ <<>> \in Seq(Seq(Token)) /\ <<>> \in Seq(Origin)
    OBVIOUS
  <2> QED
    BY <1>1, <1>2, <2>1 DEF FrameTypes
<1>5. PartsAgree
  BY <1>1, <1>2 DEF PartsAgree
<1>6. Forwarding
  <2> DEFINE G == {StampSyslogMessage(x) : x \in Seq(Token)}
  <2>1. <<>> \in Seq(G) /\ Len(<<>>) = 0
    OBVIOUS
  <2> QED
    BY <1>1, <2>1 DEF Forwarding
<1>7. Len(got) = 0 /\ WholeUnlessCut
  BY <1>1 DEF WholeUnlessCut
<1>8. Aligned
  BY <1>1 DEF Aligned, Ready
<1>9. \A k \in 1 .. Len(got) : Placed(k)
  BY <1>7
<1>10. TypeOK
  <2>1. torn \in BOOLEAN
    BY <1>1
  <2> QED
    BY <1>3, <1>4, <2>1, TypeParts
<1> QED
  BY <1>5, <1>6, <1>7, <1>8, <1>9, <1>10 DEF FramesInv

-----------------------------------------------------------------------------
(***************************************************************************)
(* The theorems.                                                           *)
(***************************************************************************)
\* Framing keeps its types, for every stream, every cap and every numeral.
THEOREM FramesTyped == Spec => []TypeOK
<1>1. FramesInv /\ [Next]_vars => FramesInv'
  BY FramesStep
<1>2. FramesInv => TypeOK
  BY DEF FramesInv
<1> QED
  BY <1>1, <1>2, FramesInit, PTL DEF Spec

\* Where ReadFrame is in the stream agrees with the frames it returned.
THEOREM ReaderKeepsStep == Spec => []FramesInv
<1>1. FramesInv /\ [Next]_vars => FramesInv'
  BY FramesStep
<1> QED
  BY <1>1, FramesInit, PTL DEF Spec

LEMMA PieceIsSubSeq ==
    ASSUME NEW f \in Seq(Token), NEW text \in Seq(Token), NEW a \in Nat, NEW b \in Nat,
           b = a + Len(f), b <= Len(text), Piece(f, text, a)
    PROVE  f = SubSeq(text, a + 1, b)
<1> DEFINE g == SubSeq(text, a + 1, b)
<1>1. Len(f) \in Nat /\ Len(text) \in Nat
  OBVIOUS
<1>2. \A i \in a + 1 .. b : text[i] \in Token
  <2> HIDE DEF Token
  <2> QED
    BY <1>1
<1>3. a + 1 \in Int /\ b \in Int
  OBVIOUS
<1>4. /\ g \in Seq(Token) /\ Len(g) = IF a + 1 <= b THEN (b - (a + 1)) + 1 ELSE 0
      /\ \A i \in 1 .. (b - (a + 1)) + 1 : g[i] = text[(a + 1) + i - 1]
  BY <1>2, <1>3, SubSeqProperties
<1> HIDE DEF g
<1>5. Len(g) = Len(f) /\ (b - (a + 1)) + 1 = Len(f)
  BY <1>1, <1>4
<1>6. ASSUME NEW i \in 1 .. Len(f) PROVE f[i] = g[i]
  <2>1. (a + 1) + i - 1 = a + i
    BY <1>1
  <2> QED
    BY <1>4, <1>5, <2>1 DEF Piece
<1> QED
  BY <1>4, <1>5, <1>6, SeqEqual DEF g

LEMMA InvIsExact == FramesInv => FramesAreExact
<1> SUFFICES ASSUME FramesInv PROVE FramesAreExact
  OBVIOUS
<1>0. /\ StreamTypes /\ FrameTypes /\ PartsAgree /\ WholeUnlessCut /\ (~torn => AllPlaced)
  BY TypeParts DEF FramesInv, AllPlaced
<1> DEFINE X == Seq(Token)
<1>1. /\ client \in Streams /\ client.msgs \in Seq(X) /\ got \in Seq(X) /\ from \in Seq(Origin)
      /\ Len(from) = Len(got)
  BY <1>0, StreamIs DEF StreamTypes, FrameTypes
<1> HIDE DEF X
<1>2. /\ DOMAIN client.msgs = 1 .. Len(client.msgs) /\ DOMAIN got = 1 .. Len(got)
      /\ DOMAIN from = 1 .. Len(got) /\ Len(got) \in Nat /\ Len(client.msgs) \in Nat
      /\ \A k \in 1 .. Len(got) : got[k] \in X
  BY <1>1
<1>3. ASSUME ~torn, NEW k \in 1 .. Len(got)
      PROVE  /\ PieceIsNext(k)
             /\ ~from[k].cut /\ from[k].a = 0 => got[k] = client.msgs[from[k].m]
  <2> DEFINE w == from[k]
             text == client.msgs[w.m]
  <2>1. /\ w.m \in 1 .. Len(client.msgs) /\ w.a \in Nat /\ w.b \in Nat
        /\ w.b <= Len(text) /\ w.b = w.a + Len(got[k]) /\ Piece(got[k], text, w.a)
        /\ IF k = 1 THEN w.m = 1 /\ w.a = 0
           ELSE LET v == from[k - 1]
                IN  IF v.cut THEN w.m = v.m /\ w.a = v.b ELSE w.m = v.m + 1 /\ w.a = 0
        /\ ~w.cut => w.b = Len(text)
        /\ client.counted[w.m] => ~w.cut /\ Len(got[k]) <= MaxFrameBytes
    BY <1>0, <1>3 DEF AllPlaced, Placed
  <2>2. text \in Seq(Token) /\ got[k] \in Seq(Token)
    BY <1>1, <1>2, <2>1, MessageIs DEF X
  <2>3. got[k] = SubSeq(text, w.a + 1, w.b)
    <3> DEFINE f == got[k]
               a == w.a
               b == w.b
    <3>1. /\ f \in Seq(Token) /\ text \in Seq(Token) /\ a \in Nat /\ b \in Nat
          /\ b = a + Len(f) /\ b <= Len(text) /\ Piece(f, text, a)
      BY <2>1, <2>2
    <3> HIDE DEF w, text, f, a, b
    <3>2. f = SubSeq(text, a + 1, b)
      BY <3>1, PieceIsSubSeq
    <3> QED
      BY <3>2 DEF f, a, b
  <2>4. PieceIsNext(k)
    BY <1>2, <2>1, <2>3 DEF PieceIsNext
  <2>5. ASSUME ~w.cut, w.a = 0 PROVE got[k] = text
    <3> DEFINE f == got[k]
    <3> HIDE DEF w, text, f
    <3>1. Len(f) \in Nat /\ f \in Seq(Token)
      BY <2>2 DEF f
    <3>2. Len(f) = Len(text)
      BY <2>1, <2>5, <3>1 DEF f
    <3>3. \A j \in 1 .. Len(f) : f[j] = text[0 + j]
      BY <2>1, <2>5 DEF Piece, f
    <3>4. ASSUME NEW j \in 1 .. Len(f) PROVE f[j] = text[j]
      BY <3>3, <3>4
    <3> QED
      BY <2>2, <3>1, <3>2, <3>4, SeqEqual DEF f
  <2> QED
    BY <2>4, <2>5
<1>4. need <= MaxFrameBytes
  BY <1>0 DEF PartsAgree
<1>5. ~torn => \A k \in DOMAIN got : PieceIsNext(k)
  BY <1>2, <1>3
<1>6. ASSUME \A k \in DOMAIN from : ~from[k].cut
      PROVE  Len(got) <= Len(client.msgs) /\ \A k \in DOMAIN got : got[k] = client.msgs[k]
  <2>1. ~torn /\ \A k \in 1 .. Len(got) : from[k].m = k /\ from[k].a = 0
    BY <1>0, <1>2, <1>6 DEF WholeUnlessCut
  <2>2. \A k \in DOMAIN got : got[k] = client.msgs[k]
    BY <1>2, <1>3, <1>6, <2>1
  <2>3. \A k \in 1 .. Len(got) : k \in 1 .. Len(client.msgs)
    BY <1>0, <2>1 DEF AllPlaced, Placed
  <2>4. Len(got) <= Len(client.msgs)
    <3>1. CASE Len(got) = 0
      BY <1>2, <3>1
    <3>2. CASE Len(got) # 0
      <4>1. Len(got) \in 1 .. Len(got)
        BY <1>2, <3>2
      <4> QED
        BY <1>2, <2>3, <4>1
    <3> QED
      BY <3>1, <3>2
  <2> QED
    BY <2>2, <2>4
<1> QED
  BY <1>4, <1>5, <1>6 DEF FramesAreExact

\* However a stream is split, and whenever deadlines and hang-ups strike, the
\* frames that ReadFrame returns are the messages, whole and in order, but for
\* the pieces of a line that was cut; no body is longer than the cap.
THEOREM FramesAreMessages == Spec => []FramesAreExact
  BY ReaderKeepsStep, InvIsExact, PTL
-----------------------------------------------------------------------------
(***************************************************************************)
(* Stamping.  What the loops of parseSDAndMsg and StampSyslogMessage leave *)
(* is found by induction over the frame: Climb states it for a set of      *)
(* positions, since the library's induction over a set needs no operator.  *)
(***************************************************************************)
\* The order of the numbers, as a relation.
Less == {ss \in Nat \X Nat : ss[1] < ss[2]}

\* A set of numbers has a least one.
LEMMA LeastNumber ==
    ASSUME NEW T, T \subseteq Nat, T # {}
    PROVE  \E x \in T : \A y \in T : x <= y
<1>1. IsWellFoundedOn(Less, Nat)
  BY NatLessThanWellFounded DEF OpToRel, Less
<1>2. PICK x \in T : \A y \in T : ~(<<y, x>> \in Less)
  BY <1>1, WFMin
<1>3. \A y \in T : y \in Nat /\ x \in Nat /\ ~(y < x)
  BY <1>2 DEF Less
<1>4. \A y \in T : x <= y
  BY <1>3
<1> QED
  BY <1>4

\* Induction over an interval, for a set.
LEMMA Climb ==
    ASSUME NEW n \in Nat, NEW T, 0 \in T, \A i \in 1 .. n : i - 1 \in T => i \in T
    PROVE  \A i \in 0 .. n : i \in T
<1> DEFINE U == {i \in 0 .. n : i \notin T}
<1> SUFFICES ASSUME U # {} PROVE FALSE
  OBVIOUS
<1>0. U \subseteq Nat
  OBVIOUS
<1>1. \E x \in U : \A y \in U : x <= y
  <2> HIDE DEF U
  <2> QED
    BY <1>0, LeastNumber
<1>2. PICK x \in U : \A y \in U : x <= y
  BY <1>1
<1>3. x \in 1 .. n /\ x - 1 \in 0 .. n
  BY <1>2
<1>4. x - 1 \notin U
  BY <1>2, <1>3
<1> QED
  BY <1>2, <1>3, <1>4

\* filtered, after each of the first k blocks.
FilteredUpto(f, blocks, k) ==
    /\ f[0] = <<>>
    /\ \A i \in 1 .. k : f[i] = IF IsTenantSDID(blocks[i]) THEN f[i - 1]
                                ELSE Append(f[i - 1], blocks[i])

\* The loop over the blocks runs to its end.
LEMMA LoopRuns ==
    ASSUME NEW X, NEW blocks \in Seq(X)
    PROVE  \E f \in [0 .. Len(blocks) -> Seq(X)] : FilteredUpto(f, blocks, Len(blocks))
<1> DEFINE n == Len(blocks)
           T == {k \in 0 .. n : \E f \in [0 .. n -> Seq(X)] : FilteredUpto(f, blocks, k)}
<1>0. n \in Nat
  OBVIOUS
<1>1. 0 \in T
  <2> DEFINE f == [i \in 0 .. n |-> <<>>]
  <2>0. <<>> \in Seq(X) /\ 0 \in 0 .. n /\ 1 .. 0 = {}
    <3>1. <<>> \in Seq(X)
      OBVIOUS
    <3>2. 0 \in 0 .. n
      BY <1>0
    <3>3. 1 .. 0 = {}
      OBVIOUS
    <3> QED
      BY <3>1, <3>2, <3>3
  <2>1. f \in [0 .. n -> Seq(X)] /\ f[0] = <<>>
    <3> HIDE DEF n
    <3> QED
      BY <2>0
  <2> HIDE DEF f, n
  <2>2. FilteredUpto(f, blocks, 0)
    BY <2>0, <2>1 DEF FilteredUpto
  <2> QED
    BY <2>0, <2>1, <2>2
<1>2. ASSUME NEW k \in 1 .. n, k - 1 \in T PROVE k \in T
  <2>1. PICK f \in [0 .. n -> Seq(X)] : FilteredUpto(f, blocks, k - 1)
    BY <1>2
  <2> DEFINE v == IF IsTenantSDID(blocks[k]) THEN f[k - 1] ELSE Append(f[k - 1], blocks[k])
             h == [f EXCEPT ![k] = v]
  <2>2. k \in 0 .. n /\ k - 1 \in 0 .. n /\ f[k - 1] \in Seq(X) /\ blocks[k] \in X
    <3>1. blocks[k] \in X
      OBVIOUS
    <3> HIDE DEF n
    <3>2. k \in 0 .. n /\ k - 1 \in 0 .. n
      BY <1>0
    <3>3. f[k - 1] \in Seq(X)
      BY <3>2
    <3> QED
      BY <3>1, <3>2, <3>3
  <2>3. v \in Seq(X)
    BY <2>2
  <2> HIDE DEF v, n
  <2>4. h \in [0 .. n -> Seq(X)] /\ h[k] = v /\ \A i \in 0 .. n : i # k => h[i] = f[i]
    BY <2>2, <2>3
  <2> HIDE DEF h
  <2>5. h[0] = <<>> /\ h[k - 1] = f[k - 1]
    BY <1>0, <2>1, <2>2, <2>4 DEF FilteredUpto
  <2>6. ASSUME NEW i \in 1 .. k
        PROVE  h[i] = IF IsTenantSDID(blocks[i]) THEN h[i - 1] ELSE Append(h[i - 1], blocks[i])
    <3>1. CASE i = k
      BY <2>4, <2>5, <3>1 DEF v
    <3>2. CASE i # k
      <4>1. i \in 1 .. k - 1 /\ i - 1 # k /\ i - 1 \in 0 .. n /\ i \in 0 .. n
        BY <1>0, <2>2, <3>2
      <4>2. h[i] = f[i] /\ h[i - 1] = f[i - 1]
        BY <2>4, <3>2, <4>1
      <4> QED
        BY <2>1, <4>1, <4>2 DEF FilteredUpto
    <3> QED
      BY <3>1, <3>2
  <2>7. FilteredUpto(h, blocks, k)
    BY <2>5, <2>6 DEF FilteredUpto
  <2> QED
    BY <2>2, <2>4, <2>7
<1>3. \A i \in 0 .. n : i \in T
  <2> HIDE DEF T, n
  <2> QED
    BY <1>0, <1>1, <1>2, Climb
<1>4. n \in T
  BY <1>0, <1>3
<1> QED
  BY <1>4

\* What is filtered is what the loop leaves.
LEMMA FilteredIsLoop ==
    ASSUME NEW X, NEW blocks \in Seq(X)
    PROVE  \E f \in [0 .. Len(blocks) -> Seq(X)] :
             FilteredUpto(f, blocks, Len(blocks)) /\ Filter(blocks) = f[Len(blocks)]
<1> DEFINE n == Len(blocks)
           Def(g) == [i \in 0 .. Len(blocks) |->
                        IF i = 0 THEN <<>>
                        ELSE IF IsTenantSDID(blocks[i]) THEN g[i - 1]
                        ELSE Append(g[i - 1], blocks[i])]
           F == CHOOSE g : g = Def(g)
<1>1. n \in Nat
  OBVIOUS
<1>2. PICK g \in [0 .. n -> Seq(X)] : FilteredUpto(g, blocks, n)
  BY LoopRuns
<1>3. g = Def(g)
  <2>1. \A i \in 0 .. n : g[i] = Def(g)[i]
    <3> SUFFICES ASSUME NEW i \in 0 .. n PROVE g[i] = Def(g)[i]
      OBVIOUS
    <3>1. CASE i = 0
      BY <1>1, <1>2, <3>1 DEF FilteredUpto
    <3>2. CASE i # 0
      <4>1. i \in 1 .. n
        BY <1>1, <3>2
      <4> QED
        BY <1>1, <1>2, <4>1 DEF FilteredUpto
    <3> QED
      BY <3>1, <3>2
  <2>2. g = [i \in 0 .. n |-> g[i]] /\ Def(g) = [i \in 0 .. n |-> Def(g)[i]]
    OBVIOUS
  <2> HIDE DEF Def
  <2> QED
    BY <2>1, <2>2
<1>4. F = Def(F)
  <2> HIDE DEF Def
  <2> QED
    BY <1>3
<1>5. Filter(blocks) = F[n]
  BY DEF Filter
<1> HIDE DEF F
<1>6. FilteredUpto(F, blocks, n)
  <2>1. \A i \in 0 .. n : F[i] = Def(F)[i]
    <3> HIDE DEF Def
    <3> QED
      BY <1>4
  <2>2. F[0] = <<>>
    BY <2>1, <1>1
  <2>3. ASSUME NEW i \in 1 .. n
        PROVE  F[i] = IF IsTenantSDID(blocks[i]) THEN F[i - 1] ELSE Append(F[i - 1], blocks[i])
    BY <2>1, <1>1, <2>3
  <2> QED
    BY <2>2, <2>3 DEF FilteredUpto
<1>7. F \in [0 .. n -> Seq(X)]
  <2> DEFINE T == {i \in 0 .. n : F[i] \in Seq(X)}
  <2>1. 0 \in T
    <3>1. F[0] = <<>> /\ 0 \in 0 .. n
      BY <1>1, <1>6 DEF FilteredUpto
    <3> QED
      BY <3>1
  <2>2. ASSUME NEW i \in 1 .. n, i - 1 \in T PROVE i \in T
    <3>1. F[i] = IF IsTenantSDID(blocks[i]) THEN F[i - 1] ELSE Append(F[i - 1], blocks[i])
      BY <1>6, <2>2 DEF FilteredUpto
    <3>2. F[i - 1] \in Seq(X) /\ blocks[i] \in X /\ i \in 0 .. n
      BY <1>1, <2>2
    <3>3. F[i] \in Seq(X)
      BY <3>1, <3>2
    <3> QED
      BY <3>2, <3>3
  <2>3. \A i \in 0 .. n : i \in T
    <3> HIDE DEF T, n
    <3> QED
      BY <1>1, <2>1, <2>2, Climb
  <2>4. F = [i \in 0 .. n |-> F[i]]
    BY <1>4
  <2> QED
    BY <2>3, <2>4
<1> QED
  BY <1>5, <1>6, <1>7

\* The blocks that are kept, each at its place.
KeepsOrder(blocks, kept) ==
    LET Foreign == {j \in 1 .. Len(blocks) : ~IsTenantSDID(blocks[j])}
    IN  \E place \in [Foreign -> 1 .. Len(kept)] :
          /\ \A j, k \in Foreign : j < k => place[j] < place[k]
          /\ \A m \in 1 .. Len(kept) : \E j \in Foreign : place[j] = m
          /\ \A j \in Foreign : kept[place[j]] = blocks[j]

\* The loop keeps the client's other blocks, and these in their order.
LEMMA LoopKeepsOrder ==
    ASSUME NEW X, NEW blocks \in Seq(X), NEW f \in [0 .. Len(blocks) -> Seq(X)],
           FilteredUpto(f, blocks, Len(blocks))
    PROVE  KeepsOrder(blocks, f[Len(blocks)])
<1> DEFINE n == Len(blocks)
           Upto(i) == {j \in 1 .. i : ~IsTenantSDID(blocks[j])}
           Good(i, h) == /\ \A j, k \in Upto(i) : j < k => h[j] < h[k]
                         /\ \A m \in 1 .. Len(f[i]) : \E j \in Upto(i) : h[j] = m
                         /\ \A j \in Upto(i) : f[i][h[j]] = blocks[j]
           T == {i \in 0 .. n : \E h \in [Upto(i) -> 1 .. Len(f[i])] : Good(i, h)}
<1>1. n \in Nat
  OBVIOUS
<1>2. 0 \in T
  <2>1. Upto(0) = {} /\ Len(f[0]) = 0 /\ 1 .. Len(f[0]) = {}
    BY DEF FilteredUpto
  <2> DEFINE h == [j \in Upto(0) |-> 0]
  <2>2. h \in [Upto(0) -> 1 .. Len(f[0])] /\ Good(0, h)
    BY <2>1
  <2> QED
    BY <1>1, <2>2
<1>3. ASSUME NEW i \in 1 .. n, i - 1 \in T PROVE i \in T
  <2>1. PICK h \in [Upto(i - 1) -> 1 .. Len(f[i - 1])] : Good(i - 1, h)
    BY <1>3
  <2>0. i - 1 \in 0 .. n /\ i \in 0 .. n /\ i \in Nat
    <3> HIDE DEF n
    <3> QED
      BY <1>1
  <2>2. f[i - 1] \in Seq(X) /\ f[i] \in Seq(X) /\ blocks[i] \in X /\ Len(f[i - 1]) \in Nat
    BY <2>0
  <2>3. CASE IsTenantSDID(blocks[i])
    <3>1. Upto(i) = Upto(i - 1) /\ f[i] = f[i - 1]
      BY <2>0, <2>3 DEF FilteredUpto
    <3>2. h \in [Upto(i) -> 1 .. Len(f[i])] /\ Good(i, h)
      BY <2>1, <3>1
    <3> HIDE DEF Good, Upto
    <3> QED
      BY <2>0, <3>2
  <2>4. CASE ~IsTenantSDID(blocks[i])
    <3> DEFINE l == Len(f[i - 1])
               g == [j \in Upto(i) |-> IF j = i THEN l + 1 ELSE h[j]]
    <3>1. /\ Upto(i) = Upto(i - 1) \cup {i} /\ i \notin Upto(i - 1)
          /\ \A j \in Upto(i - 1) : j < i /\ j \in Nat
      BY <2>0, <2>4
    <3>2. /\ Len(f[i]) = l + 1 /\ f[i][l + 1] = blocks[i]
          /\ \A m \in 1 .. l : f[i][m] = f[i - 1][m]
      <4>1. f[i] = Append(f[i - 1], blocks[i])
        BY <2>4 DEF FilteredUpto
      <4> QED
        BY <2>2, <4>1
    <3>3. \A j \in Upto(i - 1) : h[j] \in 1 .. l /\ g[j] = h[j]
      BY <3>1
    <3>4. g[i] = l + 1
      BY <3>1
    <3>5. g \in [Upto(i) -> 1 .. Len(f[i])]
      BY <2>2, <3>1, <3>2, <3>3
    <3> HIDE DEF g
    <3>6. ASSUME NEW j \in Upto(i), NEW k \in Upto(i), j < k PROVE g[j] < g[k]
      <4>1. j \in Upto(i - 1)
        BY <3>1, <3>6, <2>0
      <4>2. CASE k = i
        BY <2>2, <3>3, <3>4, <4>1, <4>2
      <4>3. CASE k # i
        <5>1. k \in Upto(i - 1)
          BY <3>1, <4>3
        <5> QED
          BY <2>1, <3>3, <3>6, <4>1, <5>1
      <4> QED
        BY <4>2, <4>3
    <3>7. ASSUME NEW m \in 1 .. Len(f[i]) PROVE \E j \in Upto(i) : g[j] = m
      <4>1. CASE m = l + 1
        BY <3>1, <3>4, <4>1
      <4>2. CASE m # l + 1
        <5>1. m \in 1 .. l
          BY <2>2, <3>2, <4>2
        <5>2. PICK j \in Upto(i - 1) : h[j] = m
          BY <2>1, <5>1
        <5> QED
          BY <3>1, <3>3, <5>2
      <4> QED
        BY <4>1, <4>2
    <3>8. ASSUME NEW j \in Upto(i) PROVE f[i][g[j]] = blocks[j]
      <4>1. CASE j = i
        BY <3>2, <3>4, <4>1
      <4>2. CASE j # i
        <5>1. j \in Upto(i - 1)
          BY <3>1, <4>2
        <5> QED
          BY <2>1, <3>2, <3>3, <5>1
      <4> QED
        BY <4>1, <4>2
    <3>9. Good(i, g)
      BY <3>6, <3>7, <3>8
    <3> HIDE DEF Good, Upto
    <3> QED
      BY <2>0, <3>5, <3>9
  <2> QED
    BY <2>3, <2>4
<1>4. \A i \in 0 .. n : i \in T
  <2> HIDE DEF T, n
  <2> QED
    BY <1>1, <1>2, <1>3, Climb
<1>5. n \in T
  <2> HIDE DEF T, n
  <2> QED
    BY <1>1, <1>4
<1> QED
  BY <1>5 DEF KeepsOrder

\* How many tokens lead a sequence.
LEMMA LeadingIs ==
    ASSUME NEW X, NEW s \in Seq(X), NEW S
    PROVE  /\ Leading(s, S) \in 0 .. Len(s) /\ Len(s) \in Nat
           /\ \A j \in 1 .. Leading(s, S) : s[j] \in S
           /\ Leading(s, S) < Len(s) => s[Leading(s, S) + 1] \notin S
<1> DEFINE l == Len(s)
           P(n) == (\A j \in 1 .. n : s[j] \in S) /\ (n = l \/ s[n + 1] \notin S)
           T == {n \in 0 .. l : n = l \/ s[n + 1] \notin S}
<1>1. l \in Nat
  OBVIOUS
<1> HIDE DEF l
<1>2. T \subseteq Nat /\ l \in T
  BY <1>1
<1>3. \E x \in T : \A y \in T : x <= y
  <2> HIDE DEF T
  <2> QED
    BY <1>2, LeastNumber
<1>4. PICK x \in T : \A y \in T : x <= y
  BY <1>3
<1>5. x \in 0 .. l /\ (x = l \/ s[x + 1] \notin S)
  OBVIOUS
<1>6. ASSUME NEW j \in 1 .. x PROVE s[j] \in S
  <2>1. j - 1 \in 0 .. l /\ j - 1 # l /\ (j - 1) + 1 = j /\ ~(x <= j - 1)
    BY <1>1, <1>5
  <2>2. j - 1 \notin T
    BY <1>4, <2>1
  <2> QED
    BY <2>1, <2>2
<1>7. \E n \in 0 .. l : P(n)
  BY <1>5, <1>6
<1>8. Leading(s, S) = CHOOSE n \in 0 .. l : P(n)
  BY DEF Leading, l
<1>9. Leading(s, S) \in 0 .. l /\ P(Leading(s, S))
  BY <1>7, <1>8
<1>10. Leading(s, S) < l => Leading(s, S) # l
  BY <1>1, <1>9
<1> QED
  BY <1>1, <1>9, <1>10 DEF l

\* What is left of a sequence after m tokens, and the m tokens.
LEMMA RestIs ==
    ASSUME NEW X, NEW s \in Seq(X), NEW m \in 0 .. Len(s)
    PROVE  /\ SubSeq(s, m + 1, Len(s)) \in Seq(X) /\ Len(s) \in Nat
           /\ Len(SubSeq(s, m + 1, Len(s))) = Len(s) - m
           /\ \A j \in 1 .. Len(s) - m : SubSeq(s, m + 1, Len(s))[j] = s[m + j]
<1> DEFINE l == Len(s)
           q == SubSeq(s, m + 1, l)
<1>1. l \in Nat /\ \A i \in 1 .. l : s[i] \in X
  OBVIOUS
<1> HIDE DEF l
<1>2. m \in Nat /\ m <= l /\ m + 1 \in Int /\ l \in Int
  BY <1>1 DEF l
<1>3. \A i \in m + 1 .. l : s[i] \in X
  BY <1>1, <1>2
<1>4. /\ q \in Seq(X) /\ Len(q) = IF m + 1 <= l THEN (l - (m + 1)) + 1 ELSE 0
      /\ \A i \in 1 .. (l - (m + 1)) + 1 : q[i] = s[(m + 1) + i - 1]
  BY <1>2, <1>3, SubSeqProperties
<1> HIDE DEF q
<1>5. (l - (m + 1)) + 1 = l - m /\ Len(q) = l - m
  BY <1>1, <1>2, <1>4
<1>6. ASSUME NEW j \in 1 .. l - m PROVE q[j] = s[m + j]
  <2>1. (m + 1) + j - 1 = m + j
    BY <1>1, <1>2
  <2> QED
    BY <1>4, <1>5, <2>1
<1> QED
  BY <1>1, <1>4, <1>5, <1>6 DEF l, q

LEMMA FrontIs ==
    ASSUME NEW X, NEW s \in Seq(X), NEW m \in 0 .. Len(s)
    PROVE  /\ SubSeq(s, 1, m) \in Seq(X) /\ Len(SubSeq(s, 1, m)) = m
           /\ \A j \in 1 .. m : SubSeq(s, 1, m)[j] = s[j]
<1> DEFINE q == SubSeq(s, 1, m)
<1>1. Len(s) \in Nat /\ \A i \in 1 .. Len(s) : s[i] \in X
  OBVIOUS
<1>2. m \in Nat /\ m <= Len(s) /\ m \in Int /\ 1 \in Int
  BY <1>1
<1>3. \A i \in 1 .. m : s[i] \in X
  BY <1>1, <1>2
<1>4. /\ q \in Seq(X) /\ Len(q) = IF 1 <= m THEN (m - 1) + 1 ELSE 0
      /\ \A i \in 1 .. (m - 1) + 1 : q[i] = s[1 + i - 1]
  BY <1>2, <1>3, SubSeqProperties
<1> HIDE DEF q
<1>5. (m - 1) + 1 = m /\ Len(q) = m
  BY <1>2, <1>4
<1>6. ASSUME NEW j \in 1 .. m PROVE q[j] = s[j]
  <2>1. 1 + j - 1 = j
    BY <1>2
  <2> QED
    BY <1>4, <1>5, <2>1
<1> QED
  BY <1>4, <1>5, <1>6 DEF q

\* The rest of s after m tokens, without the spaces that lead it, begins after u.
Trimmed(s, m, u, t) ==
    /\ u \in m .. Len(s) /\ t \in Seq(Token) /\ Len(t) = Len(s) - u
    /\ \A j \in m + 1 .. u : s[j] = " "
    /\ u < Len(s) => s[u + 1] # " "
    /\ \A j \in 1 .. Len(s) - u : t[j] = s[u + j]

LEMMA TrimIs ==
    ASSUME NEW s \in Seq(Token), NEW m \in 0 .. Len(s)
    PROVE  \E u \in 0 .. Len(s) : Trimmed(s, m, u, TrimLeft(SubSeq(s, m + 1, Len(s))))
<1> DEFINE l == Len(s)
           q == SubSeq(s, m + 1, l)
           n == Leading(q, {" "})
           t == TrimLeft(q)
<1>1. /\ q \in Seq(Token) /\ l \in Nat /\ Len(q) = l - m
      /\ \A j \in 1 .. l - m : q[j] = s[m + j]
  BY RestIs
<1>2. m \in 0 .. l
  OBVIOUS
<1> HIDE DEF l, q
<1>3. /\ n \in 0 .. Len(q) /\ Len(q) \in Nat
      /\ \A j \in 1 .. n : q[j] \in {" "}
      /\ n < Len(q) => q[n + 1] \notin {" "}
  BY <1>1, LeadingIs
<1>4. t = SubSeq(q, n + 1, Len(q))
  BY DEF TrimLeft
<1> HIDE DEF n, t
<1>5. /\ t \in Seq(Token) /\ Len(t) = Len(q) - n
      /\ \A j \in 1 .. Len(q) - n : t[j] = q[n + j]
  BY <1>1, <1>3, <1>4, RestIs
<1>0. n \in Nat /\ m \in Nat /\ l \in Nat /\ n <= l - m /\ m <= l
  <2>1. l \in Nat /\ Len(q) \in Nat /\ Len(q) = l - m /\ n \in 0 .. Len(q)
    BY <1>1, <1>3
  <2>2. m \in Nat /\ m <= l
    BY <1>2, <2>1
  <2> QED
    BY <2>1, <2>2
<1> DEFINE u == m + n
<1>6. u \in m .. l /\ u \in 0 .. l /\ Len(t) = l - u
  <2>1. u \in m .. l /\ u \in 0 .. l /\ (l - m) - n = l - u
    BY <1>0
  <2>2. Len(t) = (l - m) - n
    BY <1>1, <1>5
  <2> QED
    BY <2>1, <2>2
<1>7. ASSUME NEW j \in m + 1 .. u PROVE s[j] = " "
  <2>1. j - m \in 1 .. n /\ j - m \in 1 .. l - m /\ m + (j - m) = j
    BY <1>0
  <2> QED
    BY <1>1, <1>3, <2>1
<1>8. ASSUME u < l PROVE s[u + 1] # " "
  <2>1. n < l - m /\ n + 1 \in 1 .. l - m /\ m + (n + 1) = u + 1
    BY <1>0, <1>8
  <2>2. n < Len(q)
    BY <1>1, <2>1
  <2> QED
    BY <1>1, <1>3, <2>1, <2>2
<1>9. ASSUME NEW j \in 1 .. l - u PROVE t[j] = s[u + j]
  <2>1. j \in 1 .. (l - m) - n /\ n + j \in 1 .. l - m /\ m + (n + j) = u + j
    BY <1>0
  <2>2. j \in 1 .. Len(q) - n
    BY <1>1, <2>1
  <2> QED
    BY <1>1, <1>5, <2>1, <2>2
<1> HIDE DEF u
<1>10. Trimmed(s, m, u, t)
  BY <1>5, <1>6, <1>7, <1>8, <1>9 DEF Trimmed, l
<1> QED
  BY <1>6, <1>10 DEF t, q, l
\* A nil structured data leads r.
NilLeads(r) == Len(r) > 0 /\ r[1] = "-" /\ (Len(r) = 1 \/ r[2] = " ")

\* Of r the first k tokens are the blocks, and the text t begins after u.
ParsedAs(r, k, u, blocks, t) ==
    /\ blocks \in Seq(Token) /\ Len(blocks) = k
    /\ \A j \in 1 .. k : r[j] \in Block /\ blocks[j] = r[j]
    /\ k < Len(r) => r[k + 1] \notin Block
    /\ NilLeads(r) => k = 0 /\ Trimmed(r, 1, u, t)
    /\ ~NilLeads(r) => Trimmed(r, k, u, t)

LEMMA NilIsNoBlock == "-" \notin Block
  BY DEF Block

LEMMA ParseIs ==
    ASSUME NEW r \in Seq(Token)
    PROVE  \E k, u \in 0 .. Len(r) :
             ParsedAs(r, k, u, ParseSDAndMsg(r).blocks, ParseSDAndMsg(r).msg)
<1> DEFINE l == Len(r)
           p == ParseSDAndMsg(r)
           n == Leading(r, Block)
<1>0. <<>> \in Seq(Token) /\ Len(<<>>) = 0
  OBVIOUS
<1>9. l \in Nat
  OBVIOUS
<1>1. CASE r = <<"-">>
  <2>1. l = 1 /\ r[1] = "-" /\ ~(l > 1)
    BY <1>1
  <2>2. p = [blocks |-> <<>>, msg |-> <<>>]
    BY <1>1, <2>1 DEF ParseSDAndMsg
  <2>3. p.blocks = <<>> /\ p.msg = <<>>
    BY <2>2
  <2> HIDE DEF p, l
  <2>4. NilLeads(r)
    BY <2>1 DEF NilLeads, l
  <2>5. Trimmed(r, 1, 1, <<>>)
    <3>1. 1 \in 1 .. l /\ 0 = l - 1 /\ 1 + 1 .. 1 = {} /\ ~(1 < l) /\ 1 .. l - 1 = {}
      BY <2>1
    <3> QED
      BY <1>0, <3>1 DEF Trimmed, l
  <2>6. ParsedAs(r, 0, 1, <<>>, <<>>)
    <3>1. 1 .. 0 = {} /\ 0 + 1 = 1
      OBVIOUS
    <3> QED
      BY <1>0, <2>1, <2>4, <2>5, <3>1, NilIsNoBlock DEF ParsedAs
  <2>7. 0 \in 0 .. l /\ 1 \in 0 .. l
    BY <2>1
  <2> QED
    BY <2>3, <2>6, <2>7 DEF p, l
<1>2. CASE r # <<"-">> /\ l > 1 /\ r[1] = "-" /\ r[2] = " "
  <2>1. p = [blocks |-> <<>>, msg |-> TrimLeft(SubSeq(r, 3, Len(r)))]
    BY <1>2 DEF ParseSDAndMsg
  <2>2. p.blocks = <<>> /\ p.msg = TrimLeft(SubSeq(r, 3, Len(r)))
    BY <2>1
  <2>0. l > 1 /\ r[1] = "-" /\ r[2] = " "
    BY <1>2
  <2>10. l > 1
    BY <1>2
  <2>3. 2 \in 0 .. Len(r) /\ 2 + 1 = 3
    <3> HIDE DEF l
    <3>1. 2 \in 0 .. l /\ 2 + 1 = 3
      BY <1>9, <2>10
    <3> QED
      BY <3>1 DEF l
  <2>4. PICK u \in 0 .. Len(r) : Trimmed(r, 2, u, TrimLeft(SubSeq(r, 2 + 1, Len(r))))
    BY <2>3, TrimIs
  <2>5. Trimmed(r, 2, u, p.msg)
    BY <2>2, <2>3, <2>4
  <2> HIDE DEF p, l
  <2>6. NilLeads(r)
    <3>1. l > 0
      BY <1>9, <2>10
    <3> QED
      BY <2>0, <3>1 DEF NilLeads, l
  <2>7. Trimmed(r, 1, u, p.msg)
    <3>1. u \in 2 .. l /\ \A j \in 2 + 1 .. u : r[j] = " "
      BY <2>5 DEF Trimmed, l
    <3>4. u \in 2 .. l
      BY <3>1
    <3>2. ASSUME NEW j \in 1 + 1 .. u PROVE r[j] = " "
      <4>1. j = 2 \/ j \in 2 + 1 .. u
        BY <1>9, <3>4
      <4> QED
        BY <2>0, <3>1, <4>1
    <3>3. u \in 1 .. l
      BY <1>9, <3>4
    <3> QED
      BY <2>5, <3>2, <3>3 DEF Trimmed, l
  <2>8. ParsedAs(r, 0, u, <<>>, p.msg)
    <3>1. 1 .. 0 = {} /\ 0 + 1 = 1
      OBVIOUS
    <3> QED
      BY <1>0, <2>0, <2>6, <2>7, <3>1, NilIsNoBlock DEF ParsedAs
  <2>9. 0 \in 0 .. Len(r)
    BY <1>9 DEF l
  <2> QED
    BY <2>2, <2>8, <2>9 DEF p
<1>3. CASE r # <<"-">> /\ ~(l > 1 /\ r[1] = "-" /\ r[2] = " ")
  <2>1. p = [blocks |-> SubSeq(r, 1, n), msg |-> TrimLeft(SubSeq(r, n + 1, Len(r)))]
    BY <1>3 DEF ParseSDAndMsg
  <2>2. p.blocks = SubSeq(r, 1, n) /\ p.msg = TrimLeft(SubSeq(r, n + 1, Len(r)))
    <3> DEFINE B == SubSeq(r, 1, n)
               M == TrimLeft(SubSeq(r, n + 1, Len(r)))
    <3>1. p = [blocks |-> B, msg |-> M]
      BY <2>1
    <3> HIDE DEF B, M, p
    <3>2. p.blocks = B /\ p.msg = M
      BY <3>1
    <3> QED
      BY <3>2 DEF B, M
  <2>3. /\ n \in 0 .. Len(r)
        /\ \A j \in 1 .. n : r[j] \in Block
        /\ n < Len(r) => r[n + 1] \notin Block
    BY LeadingIs
  <2> HIDE DEF p, l, n
  <2>4. PICK u \in 0 .. Len(r) : Trimmed(r, n, u, TrimLeft(SubSeq(r, n + 1, Len(r))))
    BY <2>3, TrimIs
  <2>5. p.blocks \in Seq(Token) /\ Len(p.blocks) = n /\ \A j \in 1 .. n : p.blocks[j] = r[j]
    BY <2>2, <2>3, FrontIs
  <2>6. ~NilLeads(r)
    <3> SUFFICES ASSUME NilLeads(r) PROVE FALSE
      OBVIOUS
    <3>1. l > 0 /\ r[1] = "-" /\ (l = 1 \/ r[2] = " ")
      BY DEF NilLeads, l
    <3>2. l = 1
      <4>1. CASE r[2] = " "
        <5>1. ~(l > 1)
          BY <1>3, <3>1, <4>1
        <5>2. l > 0
          BY <3>1
        <5> QED
          BY <1>9, <5>1, <5>2
      <4> QED
        BY <3>1, <4>1
    <3>3. r = <<"-">>
      <4> DEFINE d == "-"
      <4>0. d \in Token /\ r[1] = d
        BY <3>1 DEF Token
      <4> HIDE DEF d
      <4>1. <<d>> \in Seq(Token) /\ Len(<<d>>) = 1 /\ <<d>>[1] = d
        BY <4>0, OneIs
      <4>2. \A i \in 1 .. Len(r) : r[i] = <<d>>[i]
        BY <3>2, <4>0, <4>1 DEF l
      <4> QED
        BY <3>2, <4>1, <4>2, SeqEqual DEF l, d
    <3> QED
      BY <1>3, <3>3
  <2>7. ParsedAs(r, n, u, p.blocks, p.msg)
    BY <2>2, <2>3, <2>4, <2>5, <2>6 DEF ParsedAs
  <2> QED
    BY <2>3, <2>7 DEF p
<1> QED
  BY <1>1, <1>2, <1>3

\* The sections of a frame, from those of what follows its header.
LEMMA SectionsAre ==
    ASSUME NEW f, NEW r \in Seq(Token), Len(f) = Len(r) + 1,
           \A j \in 1 .. Len(r) : f[j + 1] = r[j],
           NEW k \in 0 .. Len(r), NEW u \in 0 .. Len(r), NEW blocks, NEW t,
           ParsedAs(r, k, u, blocks, t)
    PROVE  Sections(f, k + 2, u + 2)
<1> DEFINE l == Len(r)
           a == IF NilLeads(r) THEN 1 ELSE k
           s == k + 2
           nil == s = 2 /\ s <= Len(f) /\ f[s] = "-" /\ (s = Len(f) \/ f[s + 1] = " ")
<1>1. l \in Nat /\ Len(f) = l + 1 /\ \A j \in 1 .. l : f[j + 1] = r[j]
  OBVIOUS
<1>2. k \in 0 .. l /\ u \in 0 .. l /\ k \in Nat /\ u \in Nat
  BY <1>1
<1>3. /\ \A j \in 1 .. k : r[j] \in Block
      /\ k < l => r[k + 1] \notin Block
      /\ NilLeads(r) => k = 0
      /\ Trimmed(r, a, u, t)
  BY DEF ParsedAs
<1>4. /\ u \in a .. l /\ \A j \in a + 1 .. u : r[j] = " "
      /\ u < l => r[u + 1] # " "
  BY <1>3 DEF Trimmed
<1>5. NilLeads(r) <=> l > 0 /\ r[1] = "-" /\ (l = 1 \/ r[2] = " ")
  BY DEF NilLeads
<1> HIDE DEF l
<1>6. nil <=> NilLeads(r)
  <2>1. CASE k = 0 /\ l > 0
    <3>1. s = 2 /\ s <= Len(f) /\ (s = Len(f) <=> l = 1) /\ 1 \in 1 .. l /\ 1 + 1 = 2
      BY <1>1, <2>1
    <3>2. f[s] = r[1]
      BY <1>1, <3>1
    <3>3. CASE l = 1
      BY <1>5, <2>1, <3>1, <3>2, <3>3
    <3>4. CASE l # 1
      <4>1. 2 \in 1 .. l /\ 2 + 1 = s + 1
        BY <1>1, <2>1, <3>1, <3>4
      <4>2. f[s + 1] = r[2]
        BY <1>1, <4>1
      <4> QED
        BY <1>5, <2>1, <3>1, <3>2, <3>4, <4>2
    <3> QED
      BY <3>3, <3>4
  <2>2. CASE ~(k = 0 /\ l > 0)
    <3>1. ~(s = 2 /\ s <= Len(f))
      BY <1>1, <1>2, <2>2
    <3> QED
      BY <1>3, <1>5, <2>2, <3>1
  <2> QED
    BY <2>1, <2>2
<1>7. ASSUME NEW j \in 2 .. s - 1 PROVE f[j] \in Block
  <2>1. j - 1 \in 1 .. k /\ j - 1 \in 1 .. l /\ (j - 1) + 1 = j
    BY <1>1, <1>2
  <2> QED
    BY <1>1, <1>3, <2>1
<1>8. ASSUME s <= Len(f) PROVE f[s] \notin Block
  <2>1. k < l /\ k + 1 \in 1 .. l /\ (k + 1) + 1 = s
    BY <1>1, <1>2, <1>8
  <2> QED
    BY <1>1, <1>3, <2>1
<1>9. (IF nil THEN s + 1 ELSE s) = a + 2
  <2>1. CASE NilLeads(r)
    <3>1. k = 0 /\ a = 1
      BY <1>3, <2>1
    <3> HIDE DEF nil, a
    <3> QED
      BY <1>2, <1>6, <2>1, <3>1
  <2>2. CASE ~NilLeads(r)
    <3>1. a = k
      BY <2>2
    <3> HIDE DEF nil, a
    <3> QED
      BY <1>2, <1>6, <2>2, <3>1
  <2> QED
    BY <2>1, <2>2
<1>10. a \in Nat
  BY <1>2
<1> HIDE DEF a, nil
<1>11. u + 2 >= a + 2
  <2>1. l \in Nat /\ u \in a .. l
    BY <1>1, <1>4
  <2> QED
    BY <1>10, <2>1
<1>12. ASSUME NEW j \in a + 2 .. (u + 2) - 1 PROVE f[j] = " "
  <2>1. j - 1 \in a + 1 .. u /\ j - 1 \in 1 .. l /\ (j - 1) + 1 = j
    BY <1>1, <1>2, <1>10
  <2> QED
    BY <1>1, <1>4, <2>1
<1>13. ASSUME u + 2 <= Len(f) PROVE f[u + 2] # " "
  <2>1. u < l /\ u + 1 \in 1 .. l /\ (u + 1) + 1 = u + 2
    BY <1>1, <1>2, <1>13
  <2> QED
    BY <1>1, <1>4, <2>1
<1> QED
  BY <1>7, <1>8, <1>9, <1>11, <1>12, <1>13 DEF Sections, nil
\* r is t behind m other things, those of s.
Behind(X, r, s, m, t) ==
    /\ r \in Seq(X) /\ Len(r) = m + Len(t) /\ Len(t) \in Nat
    /\ \A j \in 1 .. m : r[j] = s[j]
    /\ \A j \in 1 .. Len(t) : r[m + j] = t[j]

LEMMA BehindAll ==
    ASSUME NEW X, NEW s \in Seq(X), NEW t \in Seq(X)
    PROVE  Behind(X, s \o t, s, Len(s), t)
  BY Joined DEF Behind

LEMMA BehindIs ==
    ASSUME NEW X, NEW s \in Seq(X), NEW t \in Seq(X), NEW m, Len(s) = m
    PROVE  Behind(X, s \o t, s, m, t)
  BY BehindAll

\* The four parts of a stamped frame.
FourParts(g, d, K, e, R) ==
    /\ Len(K) \in Nat /\ Len(R) \in Nat /\ Len(g) = (Len(K) + 2) + Len(R)
    /\ g[1] = d /\ g[Len(K) + 2] = e
    /\ \A j \in 1 .. Len(K) : g[j + 1] = K[j]
    /\ \A j \in 1 .. Len(R) : g[(Len(K) + 2) + j] = R[j]

LEMMA PartsJoined ==
    ASSUME NEW Y, NEW d \in Y, NEW e \in Y, NEW K \in Seq(Y), NEW R \in Seq(Y)
    PROVE  FourParts(<<d>> \o K \o <<e>> \o R, d, K, e, R)
<1> DEFINE a == <<d>>
           b == a \o K
           c == <<e>>
           q == b \o c
           g == q \o R
           n == Len(K) + 2
<1>0. Len(K) \in Nat /\ Len(R) \in Nat
  OBVIOUS
<1>1. a \in Seq(Y) /\ Len(a) = 1 /\ a[1] = d
  BY OneIs
<1>2. c \in Seq(Y) /\ Len(c) = 1 /\ c[1] = e
  BY OneIs
<1> HIDE DEF a, c
<1>3. Behind(Y, b, a, 1, K)
  BY <1>1, BehindIs
<1> HIDE DEF b
<1>4. /\ b \in Seq(Y) /\ Len(b) = 1 + Len(K) /\ b[1] = d
      /\ \A j \in 1 .. Len(K) : b[1 + j] = K[j]
  BY <1>1, <1>3 DEF Behind
<1>5. Behind(Y, q, b, 1 + Len(K), c)
  BY <1>2, <1>4, BehindIs
<1> HIDE DEF q
<1>6. /\ q \in Seq(Y) /\ Len(q) = (1 + Len(K)) + 1
      /\ \A j \in 1 .. 1 + Len(K) : q[j] = b[j]
      /\ \A j \in 1 .. 1 : q[(1 + Len(K)) + j] = c[j]
  BY <1>2, <1>5 DEF Behind
<1>7. n \in Nat /\ (1 + Len(K)) + 1 = n /\ 1 \in 1 .. 1 /\ 1 \in 1 .. 1 + Len(K)
      /\ n \in 1 .. n /\ 1 \in 1 .. n
  BY <1>0
<1>8. q[1] = d /\ q[n] = e /\ Len(q) = n
  BY <1>2, <1>4, <1>6, <1>7
<1>9. ASSUME NEW j \in 1 .. Len(K) PROVE q[j + 1] = K[j]
  <2>1. j + 1 \in 1 .. 1 + Len(K) /\ 1 + j = j + 1
    BY <1>0
  <2> QED
    BY <1>4, <1>6, <2>1
<1>10. Behind(Y, g, q, n, R)
  BY <1>6, <1>8, BehindIs
<1> HIDE DEF g
<1>11. /\ Len(g) = n + Len(R)
       /\ \A j \in 1 .. n : g[j] = q[j]
       /\ \A j \in 1 .. Len(R) : g[n + j] = R[j]
  BY <1>10 DEF Behind
<1>12. g[1] = d /\ g[n] = e
  BY <1>7, <1>8, <1>11
<1>13. ASSUME NEW j \in 1 .. Len(K) PROVE g[j + 1] = K[j]
  <2>1. j + 1 \in 1 .. n
    BY <1>0
  <2> QED
    BY <1>9, <1>11, <2>1
<1> QED
  BY <1>0, <1>11, <1>12, <1>13 DEF FourParts, g, q, b, a, c

LEMMA FilterIs ==
    ASSUME NEW X, NEW blocks \in Seq(X)
    PROVE  Filter(blocks) \in Seq(X) /\ KeepsOrder(blocks, Filter(blocks))
<1>1. PICK f \in [0 .. Len(blocks) -> Seq(X)] :
             FilteredUpto(f, blocks, Len(blocks)) /\ Filter(blocks) = f[Len(blocks)]
  BY FilteredIsLoop
<1>2. KeepsOrder(blocks, f[Len(blocks)])
  BY <1>1, LoopKeepsOrder
<1>3. Len(blocks) \in 0 .. Len(blocks)
  OBVIOUS
<1>4. f[Len(blocks)] \in Seq(X)
  BY <1>3
<1> QED
  BY <1>1, <1>2, <1>4

\* The blocks that are kept, at their places in the stamped frame.
PlacedAs(f, g, s, n) ==
    LET Foreign == {j \in 2 .. s - 1 : f[j] # "T"}
    IN  \E place \in [Foreign -> 2 .. n - 1] :
          /\ \A j, k \in Foreign : j < k => place[j] < place[k]
          /\ \A k \in 2 .. n - 1 : \E j \in Foreign : place[j] = k
          /\ \A j \in Foreign : g[place[j]] = f[j]

LEMMA PlacedInFrame ==
    ASSUME NEW f, NEW g, NEW k \in Nat, NEW blocks, NEW K, Len(blocks) = k, Len(K) \in Nat,
           \A j \in 1 .. k : f[j + 1] = blocks[j],
           \A j \in 1 .. Len(K) : g[j + 1] = K[j],
           KeepsOrder(blocks, K)
    PROVE  PlacedAs(f, g, k + 2, Len(K) + 2)
<1> DEFINE l == Len(K)
           B == {j \in 1 .. k : ~IsTenantSDID(blocks[j])}
           Foreign == {j \in 2 .. (k + 2) - 1 : f[j] # "T"}
           N == 2 .. (l + 2) - 1
<1>0. l \in Nat /\ \A j \in 1 .. l : g[j + 1] = K[j]
  OBVIOUS
<1>1. PICK h \in [B -> 1 .. l] :
          /\ \A i, j \in B : i < j => h[i] < h[j]
          /\ \A m \in 1 .. l : \E j \in B : h[j] = m
          /\ \A j \in B : K[h[j]] = blocks[j]
  BY DEF KeepsOrder
<1> HIDE DEF l
<1>2. ASSUME NEW j \in Foreign PROVE j \in Int /\ j - 1 \in B /\ f[j] = blocks[j - 1]
  <2>1. j \in 2 .. (k + 2) - 1 /\ f[j] # "T"
    BY <1>2
  <2>2. j - 1 \in 1 .. k /\ (j - 1) + 1 = j /\ j \in Int
    BY <2>1
  <2>3. f[j] = blocks[j - 1]
    BY <2>2
  <2>4. ~IsTenantSDID(blocks[j - 1])
    BY <2>1, <2>3 DEF IsTenantSDID
  <2> QED
    BY <2>2, <2>3, <2>4
<1>3. ASSUME NEW i \in B PROVE i + 1 \in Foreign /\ (i + 1) - 1 = i
  <2>1. i \in 1 .. k /\ ~IsTenantSDID(blocks[i])
    BY <1>3
  <2>2. i + 1 \in 2 .. (k + 2) - 1 /\ (i + 1) - 1 = i
    BY <2>1
  <2>3. f[i + 1] # "T"
    BY <2>1 DEF IsTenantSDID
  <2> QED
    BY <2>2, <2>3
<1> HIDE DEF B, Foreign
<1> DEFINE place == [j \in Foreign |-> h[j - 1] + 1]
<1>4. ASSUME NEW j \in Foreign
      PROVE  h[j - 1] \in 1 .. l /\ place[j] = h[j - 1] + 1 /\ place[j] \in N
  <2>1. h[j - 1] \in 1 .. l /\ place[j] = h[j - 1] + 1
    BY <1>1, <1>2
  <2>2. h[j - 1] + 1 \in N
    BY <1>0, <2>1
  <2> QED
    BY <2>1, <2>2
<1>5. place \in [Foreign -> N]
  <2>1. place = [j \in Foreign |-> place[j]]
    OBVIOUS
  <2> HIDE DEF place, N
  <2> QED
    BY <1>4, <2>1
<1> HIDE DEF place
<1>6. ASSUME NEW i \in Foreign, NEW j \in Foreign, i < j PROVE place[i] < place[j]
  <2>1. i - 1 \in B /\ j - 1 \in B /\ i - 1 < j - 1
    BY <1>2, <1>6
  <2>2. h[i - 1] < h[j - 1]
    BY <1>1, <2>1
  <2> QED
    BY <1>0, <1>4, <2>2
<1>7. ASSUME NEW m \in N PROVE \E j \in Foreign : place[j] = m
  <2>1. m - 1 \in 1 .. l /\ (m - 1) + 1 = m
    BY <1>0
  <2>2. PICK i \in B : h[i] = m - 1
    BY <1>1, <2>1
  <2>3. i + 1 \in Foreign /\ (i + 1) - 1 = i
    BY <1>3
  <2>4. place[i + 1] = m
    BY <1>4, <2>1, <2>2, <2>3
  <2> QED
    BY <2>3, <2>4
<1>8. ASSUME NEW j \in Foreign PROVE g[place[j]] = f[j]
  <2>1. j - 1 \in B /\ f[j] = blocks[j - 1]
    BY <1>2
  <2>2. h[j - 1] \in 1 .. l /\ place[j] = h[j - 1] + 1
    BY <1>4
  <2>3. K[h[j - 1]] = blocks[j - 1]
    BY <1>1, <2>1
  <2> QED
    BY <1>0, <2>1, <2>2, <2>3
<1> QED
  BY <1>5, <1>6, <1>7, <1>8 DEF PlacedAs, Foreign, l

\* The text behind its prefix.
TextOf(R, Y, d, e, txt) ==
    /\ R \in Seq(Y)
    /\ Len(txt) = 0 => Len(R) = 0
    /\ Len(txt) # 0 => /\ Len(R) = Len(txt) + 2 /\ R[1] = d /\ R[2] = e
                       /\ \A j \in 1 .. Len(txt) : R[j + 2] = txt[j]

LEMMA TextIs ==
    ASSUME NEW Y, NEW d \in Y, NEW e \in Y, NEW txt \in Seq(Y)
    PROVE  TextOf(IF txt = <<>> THEN <<>> ELSE <<d, e>> \o txt, Y, d, e, txt)
<1>1. CASE txt = <<>>
  <2>1. <<>> \in Seq(Y) /\ Len(<<>>) = 0
    OBVIOUS
  <2> QED
    BY <1>1, <2>1 DEF TextOf
<1>2. CASE txt # <<>>
  <2> DEFINE R == <<d, e>> \o txt
  <2>1. Len(txt) # 0
    BY <1>2
  <2>2. /\ R \in Seq(Y) /\ Len(R) = Len(txt) + 2 /\ R[1] = d /\ R[2] = e
        /\ \A j \in 1 .. Len(txt) : R[j + 2] = txt[j]
    BY PairJoined
  <2> HIDE DEF R
  <2>3. TextOf(R, Y, d, e, txt)
    BY <2>1, <2>2 DEF TextOf
  <2> QED
    BY <1>2, <2>3 DEF R
<1> QED
  BY <1>1, <1>2

\* StampSyslogMessage does what it is for, whatever the frame.
LEMMA StampIsExact ==
    ASSUME NEW f \in Seq(Token), f # <<>>, f[1] = "h"
    PROVE  \E s, t \in 2 .. Len(f) + 1 : \E n \in 2 .. Len(StampSyslogMessage(f)) :
             Sections(f, s, t) /\ StampedAs(f, StampSyslogMessage(f), s, t, n)
<1> DEFINE r == Tail(f)
           p == ParseSDAndMsg(r)
           blocks == p.blocks
           txt == p.msg
           K == Filter(blocks)
           R == IF txt = <<>> THEN <<>> ELSE <<" ", "P">> \o txt
           g == StampSyslogMessage(f)
           Y == Token \cup {"S", "P"}
           n == Len(K) + 2
<1>1. /\ r \in Seq(Token) /\ Len(r) = Len(f) - 1 /\ Len(f) \in Nat /\ Len(r) \in Nat
      /\ \A i \in 1 .. Len(r) : r[i] = f[i + 1]
  BY HeadTailProperties
<1>2. g = <<"h">> \o K \o <<"S">> \o R
  BY DEF StampSyslogMessage
<1>3. PICK k \in 0 .. Len(r), u \in 0 .. Len(r) : ParsedAs(r, k, u, blocks, txt)
  BY <1>1, ParseIs
<1> HIDE DEF r, p, g
<1>4. Len(f) = Len(r) + 1 /\ \A j \in 1 .. Len(r) : f[j + 1] = r[j]
  BY <1>1
<1>5. Sections(f, k + 2, u + 2)
  <2> HIDE DEF blocks, txt
  <2> QED
    BY <1>1, <1>3, <1>4, SectionsAre
<1>6. /\ blocks \in Seq(Token) /\ Len(blocks) = k
      /\ \A j \in 1 .. k : blocks[j] = r[j]
      /\ txt \in Seq(Token) /\ Len(txt) = Len(r) - u
      /\ \A j \in 1 .. Len(r) - u : txt[j] = r[u + j]
  BY <1>3 DEF ParsedAs, Trimmed
<1> HIDE DEF blocks, txt
<1>7. K \in Seq(Token) /\ KeepsOrder(blocks, K)
  BY <1>6, FilterIs
<1>8. K \in Seq(Y) /\ txt \in Seq(Y) /\ "h" \in Y /\ "S" \in Y /\ " " \in Y /\ "P" \in Y
  <2>1. Token \subseteq Y
    OBVIOUS
  <2>2. "h" \in Y /\ "S" \in Y /\ " " \in Y /\ "P" \in Y
    BY DEF Token
  <2> HIDE DEF Y, K
  <2>3. K \in Seq(Y) /\ txt \in Seq(Y)
    BY <1>6, <1>7, <2>1
  <2> QED
    BY <2>2, <2>3
<1> HIDE DEF Y, K
<1>9. /\ R \in Seq(Y)
      /\ Len(txt) = 0 => Len(R) = 0
      /\ Len(txt) # 0 => /\ Len(R) = Len(txt) + 2 /\ R[1] = " " /\ R[2] = "P"
                         /\ \A j \in 1 .. Len(txt) : R[j + 2] = txt[j]
  <2> DEFINE d == " "
             e == "P"
  <2>1. d \in Y /\ e \in Y /\ txt \in Seq(Y) /\ R = IF txt = <<>> THEN <<>> ELSE <<d, e>> \o txt
    BY <1>8
  <2> HIDE DEF d, e, R
  <2>2. TextOf(R, Y, d, e, txt)
    BY <2>1, TextIs
  <2> QED
    BY <2>2 DEF TextOf, d, e
<1> HIDE DEF R
<1>10. /\ Len(K) \in Nat /\ Len(R) \in Nat /\ Len(g) = n + Len(R)
       /\ g[1] = "h" /\ g[n] = "S"
       /\ \A j \in 1 .. Len(K) : g[j + 1] = K[j]
       /\ \A j \in 1 .. Len(R) : g[n + j] = R[j]
  <2> DEFINE d == "h"
             e == "S"
  <2>1. g = <<d>> \o K \o <<e>> \o R /\ d \in Y /\ e \in Y
    BY <1>2, <1>8
  <2> HIDE DEF d, e
  <2>2. FourParts(g, d, K, e, R)
    BY <1>8, <1>9, <2>1, PartsJoined
  <2> QED
    BY <2>2 DEF FourParts, d, e
<1> DEFINE l == Len(r)
<1>11. l \in Nat /\ k \in 0 .. l /\ u \in 0 .. l /\ Len(f) = l + 1 /\ Len(txt) = l - u
  BY <1>1, <1>4, <1>6
<1>12. k \in Nat /\ u \in Nat /\ k <= l /\ u <= l
  BY <1>11
<1>13. k + 2 \in 2 .. Len(f) + 1 /\ u + 2 \in 2 .. Len(f) + 1
  <2> HIDE DEF l
  <2> QED
    BY <1>11, <1>12
<1>14. n \in 2 .. Len(g)
  <2>1. Len(K) \in Nat /\ Len(R) \in Nat /\ Len(g) = n + Len(R)
    BY <1>10
  <2> QED
    BY <2>1
<1>15. ASSUME NEW j \in 1 .. k PROVE f[j + 1] = blocks[j]
  <2>1. j \in 1 .. Len(r)
    BY <1>11, <1>12
  <2> QED
    BY <1>4, <1>6, <2>1
<1>16. PlacedAs(f, g, k + 2, n)
  BY <1>6, <1>7, <1>10, <1>12, <1>15, PlacedInFrame
<1> HIDE DEF l, n
<1>17. n \in Nat
  BY <1>10 DEF n
<1>18. IF u + 2 > Len(f) THEN Len(g) = n
       ELSE /\ Len(g) = n + 3 + Len(f) - (u + 2) /\ g[n + 1] = " " /\ g[n + 2] = "P"
            /\ \A j \in u + 2 .. Len(f) : g[n + 3 + j - (u + 2)] = f[j]
  <2>0. Len(g) = n + Len(R) /\ Len(R) \in Nat /\ \A j \in 1 .. Len(R) : g[n + j] = R[j]
    BY <1>10
  <2>1. CASE u = l
    <3>1. Len(txt) = 0
      BY <1>11, <2>1
    <3>2. Len(R) = 0
      BY <1>9, <3>1
    <3>3. u + 2 > Len(f)
      BY <1>11, <2>1
    <3>4. Len(g) = n
      BY <1>17, <2>0, <3>2
    <3> QED
      BY <3>3, <3>4
  <2>2. CASE u # l
    <3>1. ~(u + 2 > Len(f)) /\ Len(txt) # 0 /\ Len(txt) = l - u
      BY <1>11, <1>12, <2>2
    <3>2. /\ Len(R) = Len(txt) + 2 /\ R[1] = " " /\ R[2] = "P"
          /\ \A j \in 1 .. Len(txt) : R[j + 2] = txt[j]
      BY <1>9, <3>1
    <3>3. Len(R) = (l - u) + 2
      BY <3>1, <3>2
    <3>4. 1 \in 1 .. Len(R) /\ 2 \in 1 .. Len(R)
      BY <1>11, <1>12, <3>3
    <3>5. g[n + 1] = " " /\ g[n + 2] = "P"
      BY <2>0, <3>2, <3>4
    <3>6. Len(g) = n + 3 + Len(f) - (u + 2)
      BY <1>11, <1>12, <1>17, <2>0, <3>3
    <3>7. ASSUME NEW j \in u + 2 .. Len(f) PROVE g[n + 3 + j - (u + 2)] = f[j]
      <4> DEFINE i == (j - 1) - u
      <4>1. /\ i \in 1 .. l - u /\ i + 2 \in 1 .. (l - u) + 2 /\ u + i = j - 1
            /\ j - 1 \in 1 .. l /\ (j - 1) + 1 = j /\ n + 3 + j - (u + 2) = n + (i + 2)
        BY <1>11, <1>12, <1>17
      <4> HIDE DEF i
      <4>2. g[n + (i + 2)] = R[i + 2]
        BY <2>0, <3>3, <4>1
      <4>3. R[i + 2] = txt[i]
        BY <3>1, <3>2, <4>1
      <4>4. txt[i] = r[j - 1]
        BY <1>6, <4>1 DEF l
      <4>5. r[j - 1] = f[j]
        BY <1>4, <4>1 DEF l
      <4> QED
        BY <4>1, <4>2, <4>3, <4>4, <4>5
    <3> QED
      BY <3>1, <3>5, <3>6, <3>7
  <2> QED
    BY <2>1, <2>2
<1>19. StampedAs(f, g, k + 2, u + 2, n)
  BY <1>10, <1>16, <1>18 DEF StampedAs, PlacedAs
<1> QED
  BY <1>5, <1>13, <1>14, <1>19 DEF g

LEMMA ForwardedStamped == TypeOK /\ Forwarding => StampedOnce
<1> SUFFICES ASSUME TypeOK, Forwarding PROVE StampedOnce
  OBVIOUS
<1> DEFINE G == {StampSyslogMessage(x) : x \in Seq(Token)}
           X == Seq(Token)
<1>1. forwarded \in Seq(G) /\ got \in Seq(X)
      /\ \A i \in 1 .. Len(forwarded) : forwarded[i] = StampSyslogMessage(got[i])
  BY DEF TypeOK, Forwarding
<1> HIDE DEF G, X
<1>2. /\ DOMAIN forwarded = 1 .. Len(forwarded) /\ Len(forwarded) \in Nat
      /\ Len(got) \in Nat /\ \A i \in 1 .. Len(got) : got[i] \in X
  BY <1>1
<1>3. Len(forwarded) <= Len(got)
  BY <1>2 DEF TypeOK
<1>4. ASSUME NEW i \in DOMAIN forwarded
      PROVE  LET f == got[i]
                 g == forwarded[i]
             IN  IF f = <<>> \/ f[1] # "h" THEN g = f
                 ELSE \E s, t \in 2 .. Len(f) + 1 : \E n \in 2 .. Len(g) :
                        Sections(f, s, t) /\ StampedAs(f, g, s, t, n)
  <2> DEFINE f == got[i]
  <2>1. i \in 1 .. Len(forwarded) /\ i \in 1 .. Len(got)
    BY <1>2, <1>3
  <2>2. f \in Seq(Token) /\ forwarded[i] = StampSyslogMessage(f)
    BY <1>1, <1>2, <2>1 DEF X
  <2> HIDE DEF f
  <2>3. CASE f = <<>> \/ f[1] # "h"
    BY <2>2, <2>3 DEF StampSyslogMessage, f
  <2>4. CASE ~(f = <<>> \/ f[1] # "h")
    <3>1. \E s, t \in 2 .. Len(f) + 1 : \E n \in 2 .. Len(StampSyslogMessage(f)) :
             Sections(f, s, t) /\ StampedAs(f, StampSyslogMessage(f), s, t, n)
      BY <2>2, <2>4, StampIsExact
    <3> QED
      BY <2>2, <2>4, <3>1 DEF f
  <2> QED
    BY <2>3, <2>4
<1> QED
  BY <1>4 DEF StampedOnce

\* Every frame that is forwarded carries the server's block in the place of
\* whatever tenant blocks the client put there, and nothing else is changed.
THEOREM OneTenantBlock == Spec => []StampedOnce
<1>1. FramesInv => StampedOnce
  BY ForwardedStamped DEF FramesInv
<1> QED
  BY <1>1, ReaderKeepsStep, PTL
=============================================================================
